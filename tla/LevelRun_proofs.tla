--------------------------- MODULE LevelRun_proofs ---------------------------
(***************************************************************************)
(* The safety of LevelRun for every value of its constants.                *)
(***************************************************************************)
EXTENDS LevelRun, TLAPS

(* A view inside a body: the height may still be below zero, as a word.    *)
Views == [game_state : 0 .. 5, grounded : Word, frame_ctr : Word,
          ship_pos : Nat, timer_a : 0 .. LEVEL_TIMER_MAX,
          timer_b : 0 .. LEVEL_TIMER_MAX, af2c : Word,
          bounce : Word, delta : Int, mark : {0, 1}]

Scratches == [jumping : {0, 1}, effect_latch : {0, 1}, bp12 : {0, 1},
              tgt_af2c : Word]

LEMMA ConstantTypes ==
    /\ WORD \in Nat /\ WORD > 0 /\ FUEL_SCALE \in Nat /\ FUEL_SCALE > 0
    /\ MaxBatch \in Nat /\ MaxBatch > 0
    /\ ADJUSTMENT_DIVISOR \in Nat /\ ADJUSTMENT_DIVISOR > 0
    /\ SETTLE_WINDOW_MAX \in Nat /\ SETTLE_WINDOW_MAX > 0
    /\ FRAME_CTR_GAMEPLAY_MAX \in Nat /\ FRAME_CTR_GAMEPLAY_MAX > 0
    /\ LEVEL_TIMER_MAX \in Nat /\ LEVEL_TIMER_MAX > 0
    /\ CRASH_MILESTONE_POS \in Nat /\ CRASH_MILESTONE_POS > 0
    /\ LEVEL_END \in Nat /\ SCROLL_STEP \in Nat /\ SPEED_TO_POS \in Nat
    /\ CONTACT_BRAKE \in Nat /\ OXY_DEC \in Nat /\ FUEL_RATE \in Nat
    /\ MAX_ADJUSTMENT_STEPS \in Nat /\ RESUME_HEIGHT_GATE \in Nat
    /\ EFFECT_HEIGHT_GATE \in Nat /\ JUMP_IMPULSE \in Nat /\ GRAVITY \in Nat
    /\ TERMINAL_VVEL \in Nat /\ GROUND_RAMP_STEP \in Nat
    /\ GROUND_RAMP_MAX \in Nat /\ BOUNCE_KILL \in Nat
  BY ConstantsAssumption

LEMMA ModWord == \A x \in Int : x % WORD \in Word
  BY ConstantTypes DEF Word

LEMMA WordFacts ==
    /\ HALF \in Nat /\ HALF > 0 /\ WORD = 2 * HALF /\ 0 \in Word
    /\ \A v \in Word : S16(v) \in Int /\ - HALF <= S16(v) /\ S16(v) < HALF
  BY ConstantTypes, ConstantsAssumption DEF HALF, Word, S16

LEMMA ClampFacts ==
    \A p \in Int : ClampPos(p) \in Nat /\ ClampPos(p) <= LEVEL_END
  BY ConstantTypes DEF ClampPos

(* The cell under the ship: it may finish the level, and it refills only a *)
(* level still flown.                                                      *)
LEMMA ClassifiedStep ==
    ASSUME NEW v \in Views, NEW s \in Scratches, NEW w \in Classified(v, s)
    PROVE  /\ w \in Views
           /\ w.frame_ctr = v.frame_ctr /\ w.af2c = v.af2c
           /\ w.bounce = v.bounce /\ w.delta = v.delta /\ w.mark = v.mark
           /\ \/ w.game_state = v.game_state /\ w.grounded = v.grounded
              \/ /\ w.game_state = Finished
                 /\ w.grounded = IF v.grounded = 0 THEN 1 ELSE v.grounded
           /\ \/ w.timer_a = v.timer_a /\ w.timer_b = v.timer_b
              \/ /\ v.game_state = Active
                 /\ w.timer_a = LEVEL_TIMER_MAX /\ w.timer_b = LEVEL_TIMER_MAX
           /\ w.ship_pos = v.ship_pos \/ w.ship_pos <= LEVEL_END
           /\ v.grounded # 0 => w.ship_pos <= v.ship_pos
  <1>1. CASE s.bp12 = 0
    BY <1>1 DEF Classified, Views
  <1>2. CASE s.bp12 # 0
    <2>1. PICK action \in CellActions : w = DispatchMenuAction(action, v)
      BY <1>2 DEF Classified
    <2> DEFINE scroll == IF v.grounded # 0 THEN 0
                         ELSE IF action = "scroll_right" THEN SCROLL_STEP
                         ELSE IF action = "scroll_left" THEN - SCROLL_STEP
                         ELSE 0
    <2>2. scroll \in Int /\ (v.grounded # 0 => scroll = 0)
      BY ConstantTypes DEF Views
    <2>3. /\ ClampPos(v.ship_pos + scroll) \in Nat
          /\ ClampPos(v.ship_pos + scroll) <= LEVEL_END
          /\ v.grounded # 0 => ClampPos(v.ship_pos + scroll) <= v.ship_pos
      BY <2>2, ClampFacts, ConstantTypes DEF Views, ClampPos
    <2> HIDE DEF scroll
    <2>4. w = [v EXCEPT
          !.ship_pos = ClampPos(v.ship_pos + scroll),
          !.game_state = IF action = "enter" THEN Finished ELSE v.game_state,
          !.grounded = IF action = "enter" /\ v.grounded = 0 THEN 1 ELSE v.grounded,
          !.timer_a = IF action = "confirm" /\ v.game_state = Active
                      THEN LEVEL_TIMER_MAX ELSE v.timer_a,
          !.timer_b = IF action = "confirm" /\ v.game_state = Active
                      THEN LEVEL_TIMER_MAX ELSE v.timer_b]
      BY <2>1 DEF DispatchMenuAction, scroll
    <2>5. 1 \in Word
      BY ConstantTypes, WordFacts DEF Word
    <2>6. /\ w.frame_ctr = v.frame_ctr /\ w.af2c = v.af2c
          /\ w.bounce = v.bounce /\ w.delta = v.delta /\ w.mark = v.mark
          /\ w.ship_pos = ClampPos(v.ship_pos + scroll)
          /\ w.game_state = IF action = "enter" THEN Finished ELSE v.game_state
          /\ w.grounded = IF action = "enter" /\ v.grounded = 0 THEN 1 ELSE v.grounded
          /\ w.timer_a = IF action = "confirm" /\ v.game_state = Active
                      THEN LEVEL_TIMER_MAX ELSE v.timer_a
          /\ w.timer_b = IF action = "confirm" /\ v.game_state = Active
                      THEN LEVEL_TIMER_MAX ELSE v.timer_b
      BY <2>4 DEF Views
    <2>7. w \in Views
      <3>1. /\ (IF action = "enter" THEN Finished ELSE v.game_state) \in 0 .. 5
            /\ (IF action = "enter" /\ v.grounded = 0 THEN 1 ELSE v.grounded) \in Word
        BY <2>5 DEF Views, Finished
      <3>2. /\ (IF action = "confirm" /\ v.game_state = Active
                THEN LEVEL_TIMER_MAX ELSE v.timer_a) \in 0 .. LEVEL_TIMER_MAX
            /\ (IF action = "confirm" /\ v.game_state = Active
                THEN LEVEL_TIMER_MAX ELSE v.timer_b) \in 0 .. LEVEL_TIMER_MAX
        BY ConstantTypes DEF Views
      <3> QED
        BY <2>3, <2>4, <3>1, <3>2 DEF Views
    <2> QED
      BY <2>3, <2>6, <2>7
  <1> QED
    BY <1>1, <1>2

(* What a stage leaves alone. *)
SameLevel(v, w) ==
    /\ w.game_state = v.game_state /\ w.grounded = v.grounded
    /\ w.frame_ctr = v.frame_ctr
    /\ w.timer_a = v.timer_a /\ w.timer_b = v.timer_b

SameFlight(v, w) ==
    /\ w.af2c = v.af2c /\ w.bounce = v.bounce
    /\ w.delta = v.delta /\ w.mark = v.mark

LEMMA AdvancedStep ==
    ASSUME NEW v \in Views, NEW moving \in BOOLEAN, NEW w \in Advanced(v, moving)
    PROVE  /\ w \in Views /\ SameLevel(v, w) /\ SameFlight(v, w)
           /\ IF moving THEN w.ship_pos <= LEVEL_END ELSE w.ship_pos = v.ship_pos
  <1>1. CASE moving
    <2>1. PICK speed \in -1 .. 2 :
            w = [v EXCEPT !.ship_pos = ClampPos(v.ship_pos + speed * SPEED_TO_POS)]
      BY <1>1 DEF Advanced
    <2>2. v.ship_pos + speed * SPEED_TO_POS \in Int
      BY ConstantTypes DEF Views
    <2> QED
      BY <1>1, <2>1, <2>2, ClampFacts DEF Views, SameLevel, SameFlight
  <1>2. CASE ~ moving
    BY <1>2 DEF Advanced, SameLevel, SameFlight
  <1> QED
    BY <1>1, <1>2

LEMMA DecayedStep ==
    ASSUME NEW v \in Views, NEW s \in Scratches, NEW b \in DecayedBounces(v, s)
    PROVE  b \in Word
  <1>1. DecayBounce(v.bounce) \in Word
    <2>1. v.bounce \in Word /\ S16(v.bounce) \in Int
          /\ - HALF <= S16(v.bounce) /\ S16(v.bounce) < HALF
      BY WordFacts DEF Views
    <2>2. CASE S16(v.bounce) < 0
      <3>1. (- S16(v.bounce)) \div 2 \in 0 .. HALF
        BY <2>1, <2>2, WordFacts
      <3> QED
        BY <2>2, <3>1, WordFacts DEF DecayBounce, Word
    <2>3. CASE ~ (S16(v.bounce) < 0)
      <3>1. - (S16(v.bounce) \div 2) \in Int
        BY <2>1
      <3> QED
        BY <2>3, <3>1, ModWord DEF DecayBounce
    <2> QED
      BY <2>2, <2>3
  <1> QED
    BY <1>1, WordFacts DEF DecayedBounces, Views

LEMMA JumpStep ==
    ASSUME NEW b \in Word, NEW s \in Scratches, NEW moving \in BOOLEAN,
           NEW j \in Jumps(b, s, moving)
    PROVE  /\ j[1] \in Word /\ j[2] \in {0, 1}
           /\ s.jumping = 1 => j[2] = 1
           /\ ~ moving => j[2] = s.jumping
  <1>1. JUMP_IMPULSE \in Word
    BY ConstantTypes, ConstantsAssumption, WordFacts DEF Word
  <1> QED
    BY <1>1 DEF Jumps, Scratches

LEMMA GravityStep ==
    ASSUME NEW v \in Views, NEW b \in Word
    PROVE  /\ Gravity(v, b) \in Word
           /\ v.grounded # 0 => S16(Gravity(v, b)) >= 0
  <1>1. (b - GRAVITY) % WORD \in Word
    BY ConstantTypes, ModWord DEF Word
  <1>2. WORD - TERMINAL_VVEL \in Word
    BY ConstantTypes, ConstantsAssumption, WordFacts DEF Word
  <1>3. GROUND_RAMP_MAX \in Word
    BY ConstantTypes, ConstantsAssumption, WordFacts DEF Word
  <1>4. \A n \in Word : n < GROUND_RAMP_MAX => n + GROUND_RAMP_STEP \in Word
    BY ConstantTypes, ConstantsAssumption, WordFacts DEF Word
  <1>5. Gravity(v, b) \in Word
    BY <1>1, <1>2, <1>3, <1>4, WordFacts DEF Gravity, Falling
  <1>6. ASSUME v.grounded # 0
        PROVE  S16(Gravity(v, b)) >= 0
    <2>1. GROUND_RAMP_MAX + GROUND_RAMP_STEP < HALF
      BY ConstantTypes, ConstantsAssumption
    <2>2. Gravity(v, b) < HALF
      BY <1>6, <2>1, ConstantTypes, WordFacts DEF Gravity, Word
    <2> QED
      BY <1>5, <2>2 DEF S16, Word
  <1> QED
    BY <1>5, <1>6

(* A displacement never carries the ship behind the start of the road.     *)
LEMMA DisplacementFacts ==
    ASSUME NEW pos \in Nat, NEW d \in Displacements(pos)
    PROVE  d \in Int /\ - pos <= d /\ d <= pos
  <1>1. PICK sign \in {-1, 1}, step \in 1 .. MAX_ADJUSTMENT_STEPS :
          d = sign * ((pos * step) \div ADJUSTMENT_DIVISOR)
    BY DEF Displacements
  <1>2. step \in Nat /\ step <= ADJUSTMENT_DIVISOR
    BY ConstantTypes, ConstantsAssumption
  <1> DEFINE q == (pos * step) \div ADJUSTMENT_DIVISOR
  <1>3. q \in Int /\ ADJUSTMENT_DIVISOR * q <= pos * step
        /\ pos * step < ADJUSTMENT_DIVISOR * q + ADJUSTMENT_DIVISOR
    BY <1>2, ConstantTypes
  <1>4. pos * step <= pos * ADJUSTMENT_DIVISOR
    BY <1>2, ConstantTypes
  <1>5. 0 <= q /\ q <= pos
    BY <1>2, <1>3, <1>4, ConstantTypes
  <1> QED
    BY <1>1, <1>5, <1>3

(* What makes a pending displacement harmless, on a view inside a body.    *)
Payable(v) == v.ship_pos > LEVEL_END =>
                 v.delta > 0 /\ v.ship_pos <= LEVEL_END + v.delta

(* The avoidance has acted in this jump, and may have left a displacement. *)
Owing(v, jumping, latch) ==
    /\ Payable(v)
    /\ v.delta # 0 \/ v.mark = 1 => latch = 1
    /\ latch = 1 => jumping = 1

LEMMA EffectStep ==
    ASSUME NEW v \in Views, NEW jumping \in {0, 1}, NEW latch \in {0, 1},
           NEW e \in EffectPath(v, jumping, latch)
    PROVE  /\ e[1] \in Views /\ e[2] \in {0, 1}
           /\ SameLevel(v, e[1])
           /\ e[1].af2c = v.af2c
           /\ Owing(v, jumping, latch) => Owing(e[1], jumping, e[2])
           /\ v.ship_pos = 0 => e[1].ship_pos = 0
           /\ jumping = 0 => e[1] = v
  <1>1. CASE e = <<v, latch>>
    BY <1>1 DEF SameLevel
  <1>2. CASE e # <<v, latch>>
    <2>1. jumping = 1 /\ latch = 0 /\ e \in Adjusted(v) \X {1}
      BY <1>2 DEF EffectPath
    <2>2. PICK w \in Adjusted(v) : e = <<w, 1>>
      BY <2>1
    <2>3. /\ v.ship_pos \in Nat
          /\ Owing(v, jumping, latch) =>
                v.delta = 0 /\ v.mark = 0 /\ v.ship_pos <= LEVEL_END
      BY <2>1, ConstantTypes DEF Owing, Payable, Views
    <2>4. /\ w \in Views /\ SameLevel(v, w) /\ w.af2c = v.af2c
          /\ Owing(v, jumping, latch) => Payable(w)
          /\ v.ship_pos = 0 => w.ship_pos = 0
      <3>1. CASE w \in {v, [v EXCEPT !.delta = 0], [v EXCEPT !.delta = 0, !.mark = 1]}
        <4>1. 0 \in Int /\ 1 \in {0, 1}
          OBVIOUS
        <4>2. /\ [v EXCEPT !.delta = 0] \in Views
              /\ [v EXCEPT !.delta = 0, !.mark = 1] \in Views
          BY <4>1 DEF Views
        <4>3. w \in Views
          BY <3>1, <4>2
        <4>4. /\ SameLevel(v, w) /\ w.af2c = v.af2c
              /\ w.ship_pos = v.ship_pos
          BY <3>1 DEF Views, SameLevel
        <4> QED
          BY <2>3, <4>3, <4>4, ConstantTypes DEF Payable
      <3>2. CASE \E d \in Displacements(v.ship_pos) :
                   w = [v EXCEPT !.ship_pos = v.ship_pos + d, !.delta = d, !.mark = 1]
        <4>1. PICK d \in Displacements(v.ship_pos) :
                w = [v EXCEPT !.ship_pos = v.ship_pos + d, !.delta = d, !.mark = 1]
          BY <3>2
        <4>2. d \in Int /\ - v.ship_pos <= d /\ d <= v.ship_pos
          BY <2>3, DisplacementFacts
        <4>3. v.ship_pos + d \in Nat
          BY <2>3, <4>2
        <4>4. w \in Views
          BY <4>1, <4>2, <4>3 DEF Views
        <4>5. /\ SameLevel(v, w) /\ w.af2c = v.af2c
              /\ w.ship_pos = v.ship_pos + d /\ w.delta = d
          BY <4>1 DEF Views, SameLevel
        <4> QED
          BY <2>3, <4>2, <4>4, <4>5, ConstantTypes DEF Payable
      <3> QED
        BY <2>2, <3>1, <3>2 DEF Adjusted
    <2> QED
      BY <2>1, <2>2, <2>4 DEF Owing
  <1> QED
    BY <1>1, <1>2

(* The collision response: the ship only loses ground, and a crash starts  *)
(* the settle clock and decides a level that was still flown.              *)
LEMMA CollidedStep ==
    ASSUME NEW v \in Views, NEW w \in Collided(v)
    PROVE  /\ w \in Views /\ SameFlight(v, w)
           /\ w.frame_ctr = v.frame_ctr
           /\ w.timer_a = v.timer_a /\ w.timer_b = v.timer_b
           /\ w.ship_pos <= v.ship_pos
           /\ \/ w.game_state = v.game_state /\ w.grounded = v.grounded
              \/ /\ v.grounded = 0 /\ w.grounded = 1 /\ w.ship_pos = 0
                 /\ w.game_state = IF v.game_state = Active THEN Crashed
                                   ELSE v.game_state
  <1> DEFINE Fine(u) ==
           /\ u \in Views /\ SameFlight(v, u)
           /\ u.frame_ctr = v.frame_ctr
           /\ u.timer_a = v.timer_a /\ u.timer_b = v.timer_b
           /\ u.ship_pos <= v.ship_pos
           /\ \/ u.game_state = v.game_state /\ u.grounded = v.grounded
              \/ /\ v.grounded = 0 /\ u.grounded = 1 /\ u.ship_pos = 0
                 /\ u.game_state = IF v.game_state = Active THEN Crashed
                                   ELSE v.game_state
  <1>1. Fine(v)
    BY DEF Views, SameFlight
  <1>2. Fine(LateralCrash(v))
    <2> DEFINE flagged == v.ship_pos >= CRASH_MILESTONE_POS /\ v.grounded = 0
    <2>1. /\ (IF flagged THEN 1 ELSE v.grounded) \in Word
          /\ (IF flagged /\ v.game_state = Active THEN Crashed ELSE v.game_state) \in 0 .. 5
      BY ConstantTypes, ConstantsAssumption, WordFacts DEF Views, Word, Crashed
    <2> DEFINE u == LateralCrash(v)
    <2>2. u = [v EXCEPT !.ship_pos = 0,
                  !.grounded = IF flagged THEN 1 ELSE v.grounded,
                  !.game_state = IF flagged /\ v.game_state = Active
                                 THEN Crashed ELSE v.game_state]
      BY DEF LateralCrash
    <2> HIDE DEF u
    <2>3. u \in Views
      BY <2>1, <2>2 DEF Views
    <2>4. /\ SameFlight(v, u) /\ u.frame_ctr = v.frame_ctr
          /\ u.timer_a = v.timer_a /\ u.timer_b = v.timer_b
          /\ u.ship_pos = 0
          /\ u.grounded = IF flagged THEN 1 ELSE v.grounded
          /\ u.game_state = IF flagged /\ v.game_state = Active
                            THEN Crashed ELSE v.game_state
      BY <2>2 DEF Views, SameFlight
    <2>5. flagged \/ ~ flagged => u.ship_pos <= v.ship_pos
      BY <2>4 DEF Views
    <2>6. flagged => v.grounded = 0
      OBVIOUS
    <2> HIDE DEF flagged
    <2>7. Fine(u)
      BY <2>3, <2>4, <2>5, <2>6
    <2> QED
      BY <2>7 DEF u
  <1>3. \A u : Fine(u) => Fine(ContactBrake(u))
    <2> SUFFICES ASSUME NEW u, Fine(u) PROVE Fine(ContactBrake(u))
      OBVIOUS
    <2>1. /\ (IF u.ship_pos < CONTACT_BRAKE THEN 0 ELSE u.ship_pos - CONTACT_BRAKE) \in Nat
          /\ (IF u.ship_pos < CONTACT_BRAKE THEN 0 ELSE u.ship_pos - CONTACT_BRAKE)
                <= u.ship_pos
          /\ u.ship_pos = 0 =>
               (IF u.ship_pos < CONTACT_BRAKE THEN 0 ELSE u.ship_pos - CONTACT_BRAKE) = 0
      BY ConstantTypes DEF Views
    <2> QED
      BY <2>1 DEF ContactBrake, Views, SameFlight
  <1>4. w \in {v, LateralCrash(v), ContactBrake(v), ContactBrake(LateralCrash(v))}
    BY DEF Collided
  <1> HIDE DEF Fine
  <1>5. Fine(w)
    BY <1>1, <1>2, <1>3, <1>4
  <1> QED
    BY <1>5 DEF Fine

LEMMA LandedStep ==
    ASSUME NEW v \in Views
    PROVE  /\ Landed(v) \in Views /\ SameLevel(v, Landed(v))
           /\ Landed(v).af2c = v.af2c /\ Landed(v).ship_pos <= LEVEL_END
           /\ Landed(v).delta = 0 /\ Landed(v).mark = 0
           /\ v.ship_pos = 0 /\ v.delta = 0 => Landed(v).ship_pos = 0
  <1>1. v.ship_pos - v.delta \in Int
    BY DEF Views
  <1>2. ClampPos(0) = 0
    BY ConstantTypes DEF ClampPos
  <1> DEFINE p == ClampPos(v.ship_pos - v.delta)
             w == Landed(v)
  <1>3. p \in Nat /\ p <= LEVEL_END /\ (v.ship_pos = 0 /\ v.delta = 0 => p = 0)
    BY <1>1, <1>2, ClampFacts
  <1>4. w = [v EXCEPT !.ship_pos = p, !.delta = 0, !.mark = 0]
    BY DEF Landed
  <1> HIDE DEF p, w
  <1>5. w \in Views
    <2>1. 0 \in Int /\ 0 \in {0, 1}
      OBVIOUS
    <2> QED
      BY <1>3, <1>4, <2>1 DEF Views
  <1>6. /\ SameLevel(v, w) /\ w.af2c = v.af2c /\ w.ship_pos = p
        /\ w.delta = 0 /\ w.mark = 0
    BY <1>4 DEF Views, SameLevel
  <1> QED
    BY <1>3, <1>5, <1>6 DEF w

LEMMA TickDownFacts ==
    ASSUME NEW timer \in Int, NEW dec \in Int
    PROVE  TickDown(timer, dec) \in 0 .. LEVEL_TIMER_MAX
  <1>1. (timer - dec) % WORD \in Word
    BY ModWord
  <1> QED
    BY <1>1, ConstantTypes DEF TickDown, Word

LEMMA FloorStep ==
    ASSUME NEW v \in Views
    PROVE  /\ FloorClamped(v) \in Views /\ SameLevel(v, FloorClamped(v))
           /\ FloorClamped(v).af2c \in 0 .. HALF - 1
           /\ FloorClamped(v).ship_pos = v.ship_pos
           /\ FloorClamped(v).delta = v.delta /\ FloorClamped(v).mark = v.mark
  <1> DEFINE h == IF v.af2c >= HALF THEN 0 ELSE v.af2c
             w == FloorClamped(v)
  <1>1. h \in Word /\ h \in 0 .. HALF - 1
    BY WordFacts DEF Views, Word
  <1>2. w = [v EXCEPT !.af2c = h]
    BY DEF FloorClamped
  <1> HIDE DEF h, w
  <1>3. w \in Views /\ w.af2c = h
    BY <1>1, <1>2 DEF Views
  <1>4. /\ SameLevel(v, w) /\ w.ship_pos = v.ship_pos
        /\ w.delta = v.delta /\ w.mark = v.mark
    BY <1>2 DEF SameLevel, Views
  <1> QED
    BY <1>1, <1>3, <1>4 DEF w

(* step_level_progression decides a flown level and only counts on an      *)
(* ended one.                                                              *)
LEMMA ProgressedStep ==
    ASSUME NEW v \in Views, NEW w, w = Progressed(v)
    PROVE  /\ w \in Views
           /\ w.grounded = v.grounded /\ w.af2c = v.af2c /\ w.ship_pos = v.ship_pos
           /\ w.delta = v.delta /\ w.mark = v.mark
           /\ v.game_state # Active =>
                /\ w.game_state = v.game_state
                /\ w.timer_a = v.timer_a /\ w.timer_b = v.timer_b
                /\ w.frame_ctr = (v.frame_ctr + 1) % WORD
           /\ v.game_state = Active =>
                /\ w.frame_ctr = v.frame_ctr
                /\ w.game_state \in {Active, Fallen, NoFuel, NoOxygen}
                /\ w.game_state = Active => w.af2c >= RESUME_HEIGHT_GATE
                /\ w.game_state \in {Active, Fallen} => w.timer_a > 0 /\ w.timer_b > 0
                /\ w.game_state = NoFuel => w.timer_a = 0 /\ w.timer_b > 0
                /\ w.game_state = NoOxygen => w.timer_b = 0
  <1>1. CASE v.game_state # Active
    <2>1. w = [v EXCEPT !.frame_ctr = (v.frame_ctr + 1) % WORD]
      BY <1>1 DEF Progressed, Counted
    <2>2. (v.frame_ctr + 1) % WORD \in Word
      BY ModWord DEF Views, Word
    <2>3. w \in Views
      BY <2>1, <2>2 DEF Views
    <2> QED
      BY <1>1, <2>1, <2>3 DEF Views
  <1>2. CASE v.game_state = Active
    <2> DEFINE fuel == TickDown(v.timer_a, FuelDec(v.ship_pos))
               oxygen == TickDown(v.timer_b, OXY_DEC)
               gs == IF oxygen = 0 THEN NoOxygen
                     ELSE IF fuel = 0 THEN NoFuel
                     ELSE IF v.af2c < RESUME_HEIGHT_GATE THEN Fallen
                     ELSE Active
    <2>1. FuelDec(v.ship_pos) \in Int
      <3>1. FUEL_RATE * v.ship_pos \in Int
        BY ConstantTypes DEF Views
      <3>2. (FUEL_RATE * v.ship_pos) \div FUEL_SCALE \in Int
        BY <3>1, ConstantTypes
      <3> QED
        BY <3>2, ModWord DEF FuelDec, Word
    <2>2. fuel \in 0 .. LEVEL_TIMER_MAX /\ oxygen \in 0 .. LEVEL_TIMER_MAX
      <3>1. v.timer_a \in Int /\ v.timer_b \in Int /\ OXY_DEC \in Int
        BY ConstantTypes DEF Views
      <3>2. fuel \in 0 .. LEVEL_TIMER_MAX
        BY <2>1, <3>1, TickDownFacts
      <3>3. oxygen \in 0 .. LEVEL_TIMER_MAX
        BY <3>1, TickDownFacts
      <3> QED
        BY <3>2, <3>3
    <2>3. w = [v EXCEPT !.timer_a = fuel, !.timer_b = oxygen, !.game_state = gs]
      BY <1>2 DEF Progressed, Consumed, Fuel, Oxygen
    <2> HIDE DEF fuel, oxygen
    <2>4. gs \in 0 .. 5
      BY DEF NoOxygen, NoFuel, Fallen, Active
    <2>5. /\ gs \in {Active, Fallen, NoFuel, NoOxygen}
          /\ gs = Active => v.af2c >= RESUME_HEIGHT_GATE
          /\ gs \in {Active, Fallen} => fuel > 0 /\ oxygen > 0
          /\ gs = NoFuel => fuel = 0 /\ oxygen > 0
          /\ gs = NoOxygen => oxygen = 0
      BY <2>2, ConstantTypes DEF Views, Word, NoOxygen, NoFuel, Fallen, Active
    <2> HIDE DEF gs
    <2>6. w \in Views
      BY <2>2, <2>3, <2>4 DEF Views
    <2>7. /\ w.timer_a = fuel /\ w.timer_b = oxygen /\ w.game_state = gs
          /\ w.frame_ctr = v.frame_ctr /\ w.grounded = v.grounded
          /\ w.af2c = v.af2c /\ w.ship_pos = v.ship_pos
          /\ w.delta = v.delta /\ w.mark = v.mark
      BY <2>3 DEF Views
    <2> QED
      BY <1>2, <2>5, <2>6, <2>7
  <1> QED
    BY <1>1, <1>2

LEMMA SettleStep ==
    ASSUME NEW v \in Views, NEW w, w = SettleBumped(v)
    PROVE  /\ w \in Views
           /\ w.game_state = v.game_state /\ w.frame_ctr = v.frame_ctr
           /\ w.timer_a = v.timer_a /\ w.timer_b = v.timer_b
           /\ w.af2c = v.af2c /\ w.ship_pos = v.ship_pos
           /\ w.delta = v.delta /\ w.mark = v.mark
           /\ w.grounded = IF v.grounded # 0 THEN (v.grounded + 1) % WORD ELSE 0
  <1> DEFINE g == IF v.grounded # 0 THEN (v.grounded + 1) % WORD ELSE 0
  <1>1. g \in Word
    BY ModWord, WordFacts DEF Views, Word
  <1>2. w = [v EXCEPT !.grounded = g]
    BY DEF SettleBumped
  <1> HIDE DEF g
  <1>3. w \in Views /\ w.grounded = g
    BY <1>1, <1>2 DEF Views
  <1> QED
    BY <1>2, <1>3 DEF g, Views

-----------------------------------------------------------------------------
(* A wreck away from the start is in no jump and owes nothing.             *)
WreckDisarmed ==
    view.game_state = Crashed /\ view.ship_pos # 0 =>
        scratch.jumping = 0 /\ view.delta = 0

(* The inductive invariant: the invariants TLC checks and WreckDisarmed,   *)
(* which WreckNeverAdvances needs besides OutcomeHasCause.                 *)
(* DisplacementWithinJump and OutcomeHasCause are needed for it, and       *)
(* AliveIsHealthy for EndClocksBounded.                                    *)
Inv ==
    /\ TypeOK
    /\ AliveIsHealthy
    /\ OutcomeHasCause
    /\ EndClocksBounded
    /\ DisplacementWithinJump
    /\ WreckDisarmed
    /\ GateReturnsOutcome

(* The part of it that a body preserves whatever is owed by the jump, and  *)
(* what a wreck has left.                                                  *)
LevelInv == TypeOK /\ AliveIsHealthy /\ OutcomeHasCause /\ EndClocksBounded

WreckSupplied ==
    view.game_state = Crashed => view.timer_a > 0 /\ view.timer_b > 0

USE DEF Active, Crashed, Finished, Fallen, NoFuel, NoOxygen

LEMMA ViewInViews == TypeOK => view \in Views /\ scratch \in Scratches
  <1> SUFFICES ASSUME TypeOK PROVE view \in Views /\ scratch \in Scratches
    OBVIOUS
  <1>1. \A h \in 0 .. HALF - 1 : h \in Word
    BY WordFacts DEF Word
  <1> QED
    BY <1>1 DEF TypeOK, Views, Scratches

LEMMA ClocksDoNotWrap ==
    ASSUME TypeOK, EndClocksBounded, ran < MaxBatch
    PROVE  /\ view.frame_ctr + 1 < WORD /\ view.grounded + 1 < WORD
           /\ (view.frame_ctr + 1) % WORD = view.frame_ctr + 1
           /\ (view.grounded + 1) % WORD = view.grounded + 1
  <1>1. /\ view.frame_ctr \in Nat /\ view.grounded \in Nat /\ ran \in Nat
    BY ConstantTypes DEF TypeOK, Word
  <1>2. SETTLE_WINDOW_MAX + FRAME_CTR_GAMEPLAY_MAX + MaxBatch + MaxBatch < WORD
    BY ConstantsAssumption
  <1>3. view.frame_ctr + 1 < WORD /\ view.grounded + 1 < WORD
    BY <1>1, <1>2, ConstantTypes DEF EndClocksBounded
  <1>4. \A n \in Nat : n < WORD => n % WORD = n
    BY ConstantTypes
  <1> QED
    BY <1>1, <1>3, <1>4, ConstantTypes

THEOREM InitInv == Init => Inv
  <1> SUFFICES ASSUME Init PROVE Inv
    OBVIOUS
  <1> USE DEF Init, RespawnView, FreshScratch
  <1>1. TypeOK
    BY ConstantTypes, ConstantsAssumption, WordFacts DEF TypeOK, Word
  <1>2. AliveIsHealthy /\ OutcomeHasCause /\ WreckDisarmed /\ GateReturnsOutcome
    BY ConstantTypes DEF AliveIsHealthy, OutcomeHasCause, WreckDisarmed, GateReturnsOutcome
  <1>3. EndClocksBounded
    BY ConstantTypes DEF EndClocksBounded
  <1>4. DisplacementWithinJump
    BY ConstantTypes DEF DisplacementWithinJump
  <1> QED
    BY <1>1, <1>2, <1>3, <1>4 DEF Inv

(* A body up to its settling tail: w is the view just before the tail, s   *)
(* the locals after the body.                                              *)
LevelFlown(w, s) ==
    /\ w \in Views /\ s \in Scratches
    /\ w.frame_ctr = view.frame_ctr
    /\ \/ w.game_state = view.game_state /\ w.grounded = view.grounded
       \/ /\ w.game_state = Finished
          /\ w.grounded = IF view.grounded = 0 THEN 1 ELSE view.grounded
       \/ /\ view.grounded = 0 /\ w.grounded = 1
          /\ w.game_state = IF view.game_state = Active THEN Crashed
                            ELSE view.game_state
    /\ \/ w.timer_a = view.timer_a /\ w.timer_b = view.timer_b
       \/ /\ view.game_state = Active
          /\ w.timer_a = LEVEL_TIMER_MAX /\ w.timer_b = LEVEL_TIMER_MAX

(* The same, and what is owed by the jump.                                 *)
Flown(w, s) ==
    /\ LevelFlown(w, s)
    /\ Owing(w, s.jumping, s.effect_latch)
    /\ w.game_state = Crashed /\ w.ship_pos # 0 => s.jumping = 0 /\ w.delta = 0
    /\ view.game_state # Active => s.jumping <= scratch.jumping
    /\ view.game_state = Crashed => w.ship_pos <= view.ship_pos

LEMMA FlightStep ==
    ASSUME TypeOK, GameplayBody
    PROVE  \E w \in Views : /\ LevelFlown(w, scratch') /\ view' = Settled(w)
                            /\ Inv => Flown(w, scratch')
  <1> DEFINE moving == view.game_state = Active
  <1>1. view \in Views /\ scratch \in Scratches
    BY ViewInViews
  <1>2. PICK v1 \in Classified(view, scratch) :
             \E b \in DecayedBounces(v1, scratch) :
             \E v2 \in Advanced(v1, moving) :
             \E j \in Jumps(b, scratch, moving) :
             \E e \in EffectPath(v2, j[2], scratch.effect_latch) :
                MoveAndSettle(v2, j, e)
    BY DEF GameplayBody
  <1>2a. PICK b \in DecayedBounces(v1, scratch) :
             \E v2 \in Advanced(v1, moving) :
             \E j \in Jumps(b, scratch, moving) :
             \E e \in EffectPath(v2, j[2], scratch.effect_latch) :
                MoveAndSettle(v2, j, e)
    BY <1>2
  <1>2b. PICK v2 \in Advanced(v1, moving) :
             \E j \in Jumps(b, scratch, moving) :
             \E e \in EffectPath(v2, j[2], scratch.effect_latch) :
                MoveAndSettle(v2, j, e)
    BY <1>2a
  <1>2c. PICK j \in Jumps(b, scratch, moving) :
             \E e \in EffectPath(v2, j[2], scratch.effect_latch) :
                MoveAndSettle(v2, j, e)
    BY <1>2b
  <1>2d. PICK e \in EffectPath(v2, j[2], scratch.effect_latch) :
                MoveAndSettle(v2, j, e)
    BY <1>2c
  <1> DEFINE bounce == Gravity(v2, j[1])
             tgt == (v2.af2c + bounce) % WORD
  <1>3a. PICK h \in ResolvedHeights(v2.af2c, tgt) :
             \E v3 \in Collided([e[1] EXCEPT !.bounce = bounce, !.af2c = h]) :
               LET landed == h # tgt /\ S16(bounce) < 0
               IN  /\ view' = Settled(IF landed THEN Landed(v3) ELSE v3)
                   /\ scratch' =
                         [jumping |-> IF landed THEN 0 ELSE j[2],
                          effect_latch |-> IF landed THEN 0 ELSE e[2],
                          bp12 |-> IF landed THEN 1 ELSE 0,
                          tgt_af2c |-> tgt]
    BY <1>2d DEF MoveAndSettle
  <1>3. PICK v3 \in Collided([e[1] EXCEPT !.bounce = bounce, !.af2c = h]) :
             LET landed == h # tgt /\ S16(bounce) < 0
             IN  /\ view' = Settled(IF landed THEN Landed(v3) ELSE v3)
                 /\ scratch' =
                       [jumping |-> IF landed THEN 0 ELSE j[2],
                        effect_latch |-> IF landed THEN 0 ELSE e[2],
                        bp12 |-> IF landed THEN 1 ELSE 0,
                        tgt_af2c |-> tgt]
    BY <1>3a
  <1> DEFINE u == [e[1] EXCEPT !.bounce = bounce, !.af2c = h]
             landed == h # tgt /\ S16(bounce) < 0
             w == IF landed THEN Landed(v3) ELSE v3
  <1> HIDE DEF moving
  <1>4. /\ v1 \in Views
        /\ v1.frame_ctr = view.frame_ctr /\ v1.delta = view.delta /\ v1.mark = view.mark
        /\ \/ v1.game_state = view.game_state /\ v1.grounded = view.grounded
           \/ /\ v1.game_state = Finished
              /\ v1.grounded = IF view.grounded = 0 THEN 1 ELSE view.grounded
        /\ \/ v1.timer_a = view.timer_a /\ v1.timer_b = view.timer_b
           \/ /\ view.game_state = Active
              /\ v1.timer_a = LEVEL_TIMER_MAX /\ v1.timer_b = LEVEL_TIMER_MAX
        /\ v1.ship_pos = view.ship_pos \/ v1.ship_pos <= LEVEL_END
        /\ view.grounded # 0 => v1.ship_pos <= view.ship_pos
    BY <1>1, ClassifiedStep
  <1>5. /\ v2 \in Views /\ SameLevel(v1, v2) /\ SameFlight(v1, v2)
        /\ IF moving THEN v2.ship_pos <= LEVEL_END ELSE v2.ship_pos = v1.ship_pos
    BY <1>4, AdvancedStep DEF moving
  <1>6. b \in Word
    BY <1>1, <1>4, DecayedStep
  <1>7. /\ j[1] \in Word /\ j[2] \in {0, 1}
        /\ scratch.jumping = 1 => j[2] = 1
        /\ ~ moving => j[2] = scratch.jumping
    BY <1>1, <1>6, JumpStep DEF moving
  <1>8. bounce \in Word /\ (v2.grounded # 0 => S16(bounce) >= 0)
    BY <1>5, <1>7, GravityStep
  <1>9. tgt \in Word
    BY <1>5, <1>8, ModWord, ConstantTypes DEF Views, Word
  <1>10. h \in Word
    BY <1>5, <1>9, WordFacts DEF ResolvedHeights, Views, Word
  <1> HIDE DEF bounce, tgt
  <1>11. Inv => Owing(view, scratch.jumping, scratch.effect_latch)
    BY DEF Inv, DisplacementWithinJump, Payable, Owing
  <1>12. Inv => Owing(v2, j[2], scratch.effect_latch)
    <2>1. Payable(view) => Payable(v2)
      BY <1>1, <1>4, <1>5, ConstantTypes DEF Payable, SameFlight, Views
    <2> QED
      BY <1>4, <1>5, <1>7, <1>11, <2>1 DEF Owing, SameFlight
  <1>13. /\ e[1] \in Views /\ e[2] \in {0, 1} /\ SameLevel(v2, e[1])
         /\ Inv => Owing(e[1], j[2], e[2])
         /\ v2.ship_pos = 0 => e[1].ship_pos = 0
         /\ j[2] = 0 => e[1] = v2
    <2>1. scratch.effect_latch \in {0, 1}
      BY <1>1 DEF Scratches
    <2> QED
      BY <1>5, <1>7, <1>12, <2>1, EffectStep
  <1>14. /\ u \in Views /\ SameLevel(e[1], u) /\ u.ship_pos = e[1].ship_pos
         /\ u.delta = e[1].delta /\ u.mark = e[1].mark
    BY <1>8, <1>10, <1>13 DEF Views, SameLevel
  <1> HIDE DEF u
  <1>15. /\ v3 \in Views /\ SameFlight(u, v3)
         /\ v3.frame_ctr = u.frame_ctr
         /\ v3.timer_a = u.timer_a /\ v3.timer_b = u.timer_b
         /\ v3.ship_pos <= u.ship_pos
         /\ \/ v3.game_state = u.game_state /\ v3.grounded = u.grounded
            \/ /\ u.grounded = 0 /\ v3.grounded = 1 /\ v3.ship_pos = 0
               /\ v3.game_state = IF u.game_state = Active THEN Crashed
                                  ELSE u.game_state
    BY <1>3, <1>14, CollidedStep DEF u
  <1>16. /\ w \in Views /\ SameLevel(v3, w)
         /\ landed => w.delta = 0 /\ w.mark = 0 /\ w.ship_pos <= LEVEL_END
         /\ ~ landed => w = v3
         /\ v3.ship_pos = 0 /\ v3.delta = 0 => w.ship_pos = 0
    BY <1>15, LandedStep DEF SameLevel
  <1>17. /\ scratch' \in Scratches
         /\ scratch'.jumping = IF landed THEN 0 ELSE j[2]
         /\ scratch'.effect_latch = IF landed THEN 0 ELSE e[2]
    <2> HIDE DEF landed
    <2> QED
      BY <1>3, <1>7, <1>9, <1>13 DEF Scratches, landed, tgt, bounce
  <1>18. view' = Settled(w)
    BY <1>3 DEF bounce, tgt
  <1> HIDE DEF landed, w
  <1>19. LevelFlown(w, scratch')
    <2>1. w.frame_ctr = view.frame_ctr
      BY <1>4, <1>5, <1>13, <1>14, <1>15, <1>16 DEF SameLevel
    <2>2. u.game_state = v1.game_state /\ u.grounded = v1.grounded
      BY <1>5, <1>13, <1>14 DEF SameLevel
    <2>3. w.game_state = v3.game_state /\ w.grounded = v3.grounded
      BY <1>16 DEF SameLevel
    <2>4. \/ w.game_state = view.game_state /\ w.grounded = view.grounded
          \/ /\ w.game_state = Finished
             /\ w.grounded = IF view.grounded = 0 THEN 1 ELSE view.grounded
          \/ /\ view.grounded = 0 /\ w.grounded = 1
             /\ w.game_state = IF view.game_state = Active THEN Crashed
                               ELSE view.game_state
      BY <1>1, <1>4, <1>15, <2>2, <2>3 DEF Views, Word
    <2>5. \/ w.timer_a = view.timer_a /\ w.timer_b = view.timer_b
          \/ /\ view.game_state = Active
             /\ w.timer_a = LEVEL_TIMER_MAX /\ w.timer_b = LEVEL_TIMER_MAX
      BY <1>4, <1>5, <1>13, <1>14, <1>15, <1>16 DEF SameLevel
    <2> QED
      BY <1>16, <1>17, <2>1, <2>4, <2>5 DEF LevelFlown
  <1>20. ASSUME Inv PROVE Flown(w, scratch')
    <2>1. Payable(w)
      BY <1>13, <1>14, <1>15, <1>16, <1>20, ConstantTypes
        DEF Owing, Payable, SameFlight, Views
    <2>2. Owing(w, scratch'.jumping, scratch'.effect_latch)
      BY <1>13, <1>14, <1>15, <1>16, <1>17, <1>20, <2>1 DEF Owing, SameFlight
    <2>3. view.game_state # Active => scratch'.jumping <= scratch.jumping
      BY <1>1, <1>7, <1>17 DEF moving, Scratches
    <2>4. ASSUME view.game_state = Crashed
          PROVE  w.ship_pos <= view.ship_pos
      <3>1. view.grounded # 0 /\ ~ moving
        BY <1>20, <2>4 DEF Inv, OutcomeHasCause, moving
      <3>2. v2.ship_pos <= view.ship_pos /\ v2.grounded # 0
        BY <1>4, <1>5, <3>1 DEF SameLevel
      <3>3. e[1].ship_pos <= v2.ship_pos
        <4>1. CASE view.ship_pos = 0
          BY <1>1, <1>5, <1>13, <3>2, <4>1 DEF Views
        <4>2. CASE view.ship_pos # 0
          <5>1. scratch.jumping = 0
            BY <1>20, <2>4, <4>2 DEF Inv, WreckDisarmed
          <5> QED
            BY <1>5, <1>7, <1>13, <3>1, <5>1 DEF Views
        <4> QED
          BY <4>1, <4>2
      <3>4. ~ landed
        BY <1>8, <1>10, <3>2, WordFacts DEF landed
      <3> QED
        BY <1>1, <1>5, <1>13, <1>14, <1>15, <1>16, <3>2, <3>3, <3>4 DEF Views
    <2>5. ASSUME w.game_state = Crashed, w.ship_pos # 0
          PROVE  scratch'.jumping = 0 /\ w.delta = 0
      <3>1. CASE v3.grounded # u.grounded \/ v3.game_state # u.game_state
        <4>1. v3.ship_pos = 0
          BY <1>15, <3>1
        <4> QED
          BY <1>16, <1>17, <2>5, <4>1
      <3>2. CASE v3.grounded = u.grounded /\ v3.game_state = u.game_state
        <4>0. v1.game_state = Crashed
          BY <1>5, <1>13, <1>14, <1>16, <2>5, <3>2 DEF SameLevel
        <4>1. view.game_state = Crashed /\ view.grounded # 0 /\ ~ moving
          <5>1. view.game_state = Crashed
            BY <1>4, <4>0
          <5>2. view.grounded # 0
            BY <1>20, <5>1 DEF Inv, OutcomeHasCause
          <5> QED
            BY <5>1, <5>2 DEF moving
        <4>2. CASE view.ship_pos = 0
          BY <1>1, <1>16, <2>5, <2>4, <4>1, <4>2 DEF Views
        <4>3. CASE view.ship_pos # 0
          <5>1. scratch.jumping = 0 /\ view.delta = 0
            BY <1>20, <4>1, <4>3 DEF Inv, WreckDisarmed
          <5>2. j[2] = 0 /\ e[1] = v2 /\ v2.delta = 0
            BY <1>4, <1>5, <1>7, <1>13, <4>1, <5>1 DEF SameFlight
          <5> QED
            BY <1>14, <1>15, <1>16, <1>17, <5>2 DEF SameFlight
        <4> QED
          BY <4>2, <4>3
      <3> QED
        BY <3>1, <3>2
    <2> QED
      BY <1>19, <2>2, <2>3, <2>4, <2>5 DEF Flown
  <1> QED
    BY <1>16, <1>18, <1>19, <1>20

(* The settling tail on a flown body, with the clocks counted exactly.     *)
LEMMA TailStep ==
    ASSUME TypeOK, EndClocksBounded, ran < MaxBatch,
           NEW w \in Views, NEW s, LevelFlown(w, s), view' = Settled(w)
    PROVE  /\ view' \in Views /\ view'.af2c \in 0 .. HALF - 1
           /\ view'.ship_pos = w.ship_pos
           /\ view'.delta = w.delta /\ view'.mark = w.mark
           /\ view'.grounded = IF w.grounded # 0 THEN w.grounded + 1 ELSE 0
           /\ w.game_state # Active =>
                /\ view'.game_state = w.game_state
                /\ view'.timer_a = w.timer_a /\ view'.timer_b = w.timer_b
                /\ view'.frame_ctr = view.frame_ctr + 1
           /\ w.game_state = Active =>
                /\ view'.frame_ctr = view.frame_ctr
                /\ view'.game_state \in {Active, Fallen, NoFuel, NoOxygen}
                /\ view'.game_state = Active => view'.af2c >= RESUME_HEIGHT_GATE
                /\ view'.game_state \in {Active, Fallen} =>
                      view'.timer_a > 0 /\ view'.timer_b > 0
                /\ view'.game_state = NoFuel => view'.timer_a = 0 /\ view'.timer_b > 0
                /\ view'.game_state = NoOxygen => view'.timer_b = 0
  <1> DEFINE f == FloorClamped(w)
             p == Progressed(f)
             z == SettleBumped(p)
  <1>1. /\ f \in Views /\ SameLevel(w, f) /\ f.af2c \in 0 .. HALF - 1
        /\ f.ship_pos = w.ship_pos /\ f.delta = w.delta /\ f.mark = w.mark
    BY FloorStep
  <1>2. view' = z
    BY DEF Settled
  <1> HIDE DEF f
  <1>3. /\ p \in Views
        /\ p.grounded = f.grounded /\ p.af2c = f.af2c /\ p.ship_pos = f.ship_pos
        /\ p.delta = f.delta /\ p.mark = f.mark
        /\ f.game_state # Active =>
             /\ p.game_state = f.game_state
             /\ p.timer_a = f.timer_a /\ p.timer_b = f.timer_b
             /\ p.frame_ctr = (f.frame_ctr + 1) % WORD
        /\ f.game_state = Active =>
             /\ p.frame_ctr = f.frame_ctr
             /\ p.game_state \in {Active, Fallen, NoFuel, NoOxygen}
             /\ p.game_state = Active => p.af2c >= RESUME_HEIGHT_GATE
             /\ p.game_state \in {Active, Fallen} => p.timer_a > 0 /\ p.timer_b > 0
             /\ p.game_state = NoFuel => p.timer_a = 0 /\ p.timer_b > 0
             /\ p.game_state = NoOxygen => p.timer_b = 0
    BY <1>1, ProgressedStep
  <1> HIDE DEF p
  <1>4. /\ z \in Views
        /\ z.game_state = p.game_state /\ z.frame_ctr = p.frame_ctr
        /\ z.timer_a = p.timer_a /\ z.timer_b = p.timer_b
        /\ z.af2c = p.af2c /\ z.ship_pos = p.ship_pos
        /\ z.delta = p.delta /\ z.mark = p.mark
        /\ z.grounded = IF p.grounded # 0 THEN (p.grounded + 1) % WORD ELSE 0
    BY <1>3, SettleStep
  <1> HIDE DEF z
  <1>5. /\ (view.frame_ctr + 1) % WORD = view.frame_ctr + 1
        /\ (view.grounded + 1) % WORD = view.grounded + 1
        /\ 2 % WORD = 2
    <2>1. SETTLE_WINDOW_MAX + FRAME_CTR_GAMEPLAY_MAX + MaxBatch + MaxBatch < WORD
      BY ConstantsAssumption
    <2>2. 2 < WORD
      BY <2>1, ConstantTypes
    <2> QED
      BY <2>2, ClocksDoNotWrap, ConstantTypes
  <1>6. /\ f.game_state = w.game_state /\ f.grounded = w.grounded
        /\ f.frame_ctr = view.frame_ctr
        /\ f.timer_a = w.timer_a /\ f.timer_b = w.timer_b
    BY <1>1 DEF SameLevel, LevelFlown
  <1>7. w.grounded # 0 => (w.grounded + 1) % WORD = w.grounded + 1
    <2>1. w.grounded = view.grounded \/ w.grounded = 1
      BY DEF LevelFlown
    <2> QED
      BY <1>5, <2>1
  <1> QED
    BY <1>1, <1>2, <1>3, <1>4, <1>5, <1>6, <1>7

LEMMA LevelTail ==
    ASSUME LevelInv, GameplayBody,
           NEW w \in Views, LevelFlown(w, scratch'), view' = Settled(w)
    PROVE  LevelInv' /\ (WreckSupplied => WreckSupplied')
  <1>2. ran < MaxBatch /\ ran' = ran + 1 /\ phase' = "running"
    BY DEF GameplayBody
  <1>3. /\ view' \in Views /\ view'.af2c \in 0 .. HALF - 1
        /\ view'.ship_pos = w.ship_pos
        /\ view'.delta = w.delta /\ view'.mark = w.mark
        /\ view'.grounded = IF w.grounded # 0 THEN w.grounded + 1 ELSE 0
        /\ w.game_state # Active =>
             /\ view'.game_state = w.game_state
             /\ view'.timer_a = w.timer_a /\ view'.timer_b = w.timer_b
             /\ view'.frame_ctr = view.frame_ctr + 1
        /\ w.game_state = Active =>
             /\ view'.frame_ctr = view.frame_ctr
             /\ view'.game_state \in {Active, Fallen, NoFuel, NoOxygen}
             /\ view'.game_state = Active => view'.af2c >= RESUME_HEIGHT_GATE
             /\ view'.game_state \in {Active, Fallen} =>
                   view'.timer_a > 0 /\ view'.timer_b > 0
             /\ view'.game_state = NoFuel => view'.timer_a = 0 /\ view'.timer_b > 0
             /\ view'.game_state = NoOxygen => view'.timer_b = 0
    BY <1>2, TailStep DEF LevelInv
  <1>4. view \in Views /\ scratch \in Scratches /\ ran \in 0 .. MaxBatch
    BY ViewInViews DEF LevelInv, TypeOK
  <1>5. TypeOK'
    <2>1. scratch' \in Scratches
      BY DEF LevelFlown
    <2>2. ran' \in 0 .. MaxBatch
      BY <1>2, <1>4, ConstantTypes
    <2> QED
      BY <1>2, <1>3, <2>1, <2>2 DEF TypeOK, Views, Scratches
  <1>6. w.game_state = Active =>
           /\ view.game_state = Active /\ view.grounded = 0 /\ view.frame_ctr = 0
           /\ w.grounded = 0
    <2>1. w.game_state = Active => view.game_state = Active /\ w.grounded = view.grounded
      BY DEF LevelFlown
    <2> QED
      BY <2>1 DEF LevelInv, AliveIsHealthy
  <1>7. AliveIsHealthy'
    BY <1>3, <1>6 DEF AliveIsHealthy
  <1>8. OutcomeHasCause'
    <2>1. CASE w.game_state = Active
      BY <1>3, <2>1 DEF OutcomeHasCause
    <2>2. CASE w.game_state # Active
      <3>1. w.grounded \in Word
        BY DEF Views
      <3>2. w.grounded # 0 => view'.grounded # 0
        BY <1>3, <3>1, ConstantTypes DEF Word
      <3>3. w.game_state \in {Crashed, Finished} => w.grounded # 0
        BY DEF LevelFlown, LevelInv, OutcomeHasCause
      <3>4. w.game_state \in {Fallen, NoFuel, NoOxygen} =>
               /\ view.game_state = w.game_state
               /\ w.timer_a = view.timer_a /\ w.timer_b = view.timer_b
        BY DEF LevelFlown
      <3>5. /\ w.game_state = Fallen => w.timer_a > 0 /\ w.timer_b > 0
            /\ w.game_state = NoFuel => w.timer_a = 0 /\ w.timer_b > 0
            /\ w.game_state = NoOxygen => w.timer_b = 0
        BY <3>4 DEF LevelInv, OutcomeHasCause
      <3> QED
        BY <1>3, <2>2, <3>2, <3>3, <3>5 DEF OutcomeHasCause
    <2> QED
      BY <2>1, <2>2
  <1>9. EndClocksBounded'
    <2>1. /\ view.frame_ctr \in Nat /\ view.grounded \in Nat /\ ran \in Nat
      BY <1>4, ConstantTypes DEF Views, Word
    <2>2. CASE w.game_state = Active
      <3>1. view'.frame_ctr = 0 /\ view'.grounded = 0
        BY <1>3, <1>6, <2>2
      <3> QED
        BY <1>2, <2>1, <3>1, ConstantTypes DEF EndClocksBounded
    <2>3. CASE w.game_state # Active
      <3>1. view'.frame_ctr = view.frame_ctr + 1
        BY <1>3, <2>3
      <3>2. CASE view.grounded # 0
        <4>1. view'.grounded = view.grounded + 1
          BY <1>3, <3>2 DEF LevelFlown
        <4> QED
          BY <1>2, <2>1, <3>1, <3>2, <4>1, ConstantTypes DEF LevelInv, EndClocksBounded
      <3>3. CASE view.grounded = 0
        <4>1. view'.grounded \in {0, 2}
          BY <1>3, <3>3 DEF LevelFlown
        <4>2. view.frame_ctr <= FRAME_CTR_GAMEPLAY_MAX + ran - 1
          BY <3>3, ConstantTypes DEF LevelInv, EndClocksBounded
        <4> QED
          BY <1>2, <2>1, <3>1, <4>1, <4>2, ConstantTypes DEF EndClocksBounded
      <3> QED
        BY <3>2, <3>3
    <2> QED
      BY <2>2, <2>3
  <1>10. WreckSupplied => WreckSupplied'
    <2>1. view'.game_state = Crashed => w.game_state = Crashed
      BY <1>3
    <2>2. WreckSupplied /\ w.game_state = Crashed => w.timer_a > 0 /\ w.timer_b > 0
      BY ConstantTypes DEF LevelFlown, LevelInv, AliveIsHealthy, WreckSupplied
    <2> QED
      BY <1>3, <2>1, <2>2 DEF WreckSupplied
  <1> QED
    BY <1>5, <1>7, <1>8, <1>9, <1>10 DEF LevelInv

LEMMA BodyPreserves == Inv /\ GameplayBody => Inv'
  <1> SUFFICES ASSUME Inv, GameplayBody PROVE Inv'
    OBVIOUS
  <1>1. PICK w \in Views : Flown(w, scratch') /\ view' = Settled(w)
    BY FlightStep DEF Inv
  <1>2. ran < MaxBatch /\ phase' = "running"
    BY DEF GameplayBody
  <1>3. LevelInv'
    BY <1>1, LevelTail DEF Flown, Inv, LevelInv
  <1>4. /\ view'.ship_pos = w.ship_pos
        /\ view'.delta = w.delta /\ view'.mark = w.mark
        /\ view'.game_state = Crashed => w.game_state = Crashed
    BY <1>1, <1>2, TailStep DEF Flown, Inv
  <1>5. DisplacementWithinJump'
    BY <1>1, <1>4 DEF Flown, Owing, Payable, DisplacementWithinJump
  <1>6. WreckDisarmed'
    BY <1>1, <1>4 DEF Flown, WreckDisarmed
  <1>7. GateReturnsOutcome'
    BY <1>2 DEF GateReturnsOutcome
  <1> QED
    BY <1>3, <1>5, <1>6, <1>7 DEF Inv, LevelInv

(* Leaving the road keeps the view apart from what the cell did to it.     *)
LEMMA LevelDeparts ==
    ASSUME LevelInv, RoadDeparture
    PROVE  /\ LevelInv' /\ WreckSupplied'
           /\ Inv => DisplacementWithinJump' /\ WreckDisarmed'
  <1> DEFINE w == view'
  <1>1. /\ view \in Views /\ scratch \in Scratches
        /\ view.af2c \in 0 .. HALF - 1 /\ ran \in 0 .. MaxBatch
    BY ViewInViews DEF LevelInv, TypeOK
  <1>2. /\ view.game_state = Active /\ w \in Classified(view, scratch)
        /\ phase' = "departed" /\ scratch' = scratch /\ ran' = ran /\ ran < MaxBatch
    BY DEF RoadDeparture
  <1>3. /\ w \in Views
        /\ w.frame_ctr = view.frame_ctr /\ w.af2c = view.af2c
        /\ w.delta = view.delta /\ w.mark = view.mark
        /\ \/ w.game_state = view.game_state /\ w.grounded = view.grounded
           \/ /\ w.game_state = Finished
              /\ w.grounded = IF view.grounded = 0 THEN 1 ELSE view.grounded
        /\ \/ w.timer_a = view.timer_a /\ w.timer_b = view.timer_b
           \/ w.timer_a = LEVEL_TIMER_MAX /\ w.timer_b = LEVEL_TIMER_MAX
        /\ w.ship_pos = view.ship_pos \/ w.ship_pos <= LEVEL_END
    BY <1>1, <1>2, ClassifiedStep
  <1>4. /\ view.timer_a > 0 /\ view.timer_b > 0 /\ view.af2c >= RESUME_HEIGHT_GATE
        /\ view.grounded = 0 /\ view.frame_ctr = 0
    BY <1>2 DEF LevelInv, AliveIsHealthy
  <1> HIDE DEF w
  <1>5. /\ w.timer_a > 0 /\ w.timer_b > 0
        /\ \/ w.game_state = Active /\ w.grounded = 0
           \/ w.game_state = Finished /\ w.grounded = 1
    BY <1>2, <1>3, <1>4, ConstantTypes
  <1>6. TypeOK'
    BY <1>1, <1>2, <1>3 DEF w, TypeOK, Views, Scratches, Ended
  <1>7. AliveIsHealthy' /\ OutcomeHasCause' /\ WreckDisarmed' /\ WreckSupplied'
    BY <1>2, <1>3, <1>4, <1>5 DEF w, AliveIsHealthy, OutcomeHasCause, WreckDisarmed,
                                  WreckSupplied
  <1>8. EndClocksBounded'
    BY <1>1, <1>2, <1>3, <1>4, <1>5, ConstantTypes DEF w, EndClocksBounded
  <1>9. Inv => DisplacementWithinJump'
    BY <1>1, <1>2, <1>3, ConstantTypes DEF w, Inv, DisplacementWithinJump, Views
  <1> QED
    BY <1>6, <1>7, <1>8, <1>9 DEF LevelInv

LEMMA DeparturePreserves == Inv /\ RoadDeparture => Inv'
  <1> SUFFICES ASSUME Inv, RoadDeparture PROVE Inv'
    OBVIOUS
  <1>1. LevelInv' /\ DisplacementWithinJump' /\ WreckDisarmed'
    BY LevelDeparts DEF Inv, LevelInv
  <1>2. GateReturnsOutcome'
    BY DEF RoadDeparture, GateReturnsOutcome
  <1> QED
    BY <1>1, <1>2 DEF Inv, LevelInv

(* The gate: it stays open only on clocks within their windows, and closes *)
(* only on a level that has ended.                                         *)
LEMMA OpenGate ==
    ASSUME LevelInv, ShouldRunGameplay(view), view' = view, ran' = 0
    PROVE  EndClocksBounded'
  <1>1. view.frame_ctr \in Nat /\ view.grounded \in Nat
    BY ConstantTypes DEF LevelInv, TypeOK, Word
  <1>2. view.grounded \in 1 .. SETTLE_WINDOW_MAX
           \/ view.frame_ctr < FRAME_CTR_GAMEPLAY_MAX
    BY DEF ShouldRunGameplay
  <1> QED
    BY <1>1, <1>2, ConstantTypes DEF LevelInv, EndClocksBounded

LEMMA ClosedGate ==
    ASSUME AliveIsHealthy, ~ ShouldRunGameplay(view)
    PROVE  view.game_state # Active
  BY ConstantTypes DEF ShouldRunGameplay, AliveIsHealthy

(* After a batch only the phase and the batch count can change.            *)
LEMMA GatePreserves == Inv /\ (Abort \/ ContinuationGate) => Inv'
  <1> SUFFICES ASSUME Inv, Abort \/ ContinuationGate PROVE Inv'
    OBVIOUS
  <1>1. view' = view /\ scratch' = scratch
    BY DEF Abort, ContinuationGate
  <1>2. \/ phase' = "aborted" /\ ran' = ran
        \/ phase' = phase /\ ran' = 0 /\ phase = "running" /\ ShouldRunGameplay(view)
        \/ phase' = "returned" /\ ran' = ran /\ ~ ShouldRunGameplay(view)
    BY DEF Abort, ContinuationGate
  <1>3. TypeOK'
    BY <1>1, <1>2, ConstantTypes DEF Inv, TypeOK, Ended
  <1>4. AliveIsHealthy' /\ OutcomeHasCause' /\ DisplacementWithinJump' /\ WreckDisarmed'
    BY <1>1 DEF Inv, AliveIsHealthy, OutcomeHasCause, DisplacementWithinJump, WreckDisarmed
  <1>5. EndClocksBounded'
    <2>1. CASE ran' = ran
      BY <1>1, <2>1 DEF Inv, EndClocksBounded
    <2>2. CASE ran' = 0 /\ ShouldRunGameplay(view)
      BY <1>1, <2>2, OpenGate DEF Inv, LevelInv
    <2> QED
      BY <1>2, <2>1, <2>2
  <1>6. GateReturnsOutcome'
    <2>1. CASE phase' = "returned" /\ ~ ShouldRunGameplay(view)
      BY <1>1, <2>1, ClosedGate DEF Inv, GateReturnsOutcome
    <2> QED
      BY <1>2, <2>1 DEF GateReturnsOutcome
  <1> QED
    BY <1>3, <1>4, <1>5, <1>6 DEF Inv

LEMMA EntryPreserves == EnterLevel => Inv'
  <1> SUFFICES ASSUME EnterLevel PROVE Inv'
    OBVIOUS
  <1> USE DEF EnterLevel, RespawnView, FreshScratch
  <1>1. TypeOK'
    BY ConstantTypes, ConstantsAssumption, WordFacts DEF TypeOK, Word
  <1>2. AliveIsHealthy' /\ OutcomeHasCause' /\ WreckDisarmed' /\ GateReturnsOutcome'
    BY ConstantTypes DEF AliveIsHealthy, OutcomeHasCause, WreckDisarmed, GateReturnsOutcome
  <1>3. EndClocksBounded' /\ DisplacementWithinJump'
    BY ConstantTypes DEF EndClocksBounded, DisplacementWithinJump
  <1> QED
    BY <1>1, <1>2, <1>3 DEF Inv

LEMMA StepInv == Inv /\ [Next]_vars => Inv'
  <1> SUFFICES ASSUME Inv, [Next]_vars PROVE Inv'
    OBVIOUS
  <1>1. CASE GameplayBody
    BY <1>1, BodyPreserves
  <1>2. CASE RoadDeparture
    BY <1>2, DeparturePreserves
  <1>3. CASE Abort \/ ContinuationGate
    BY <1>3, GatePreserves
  <1>4. CASE EnterLevel
    BY <1>4, EntryPreserves
  <1>5. CASE UNCHANGED vars
    BY <1>5 DEF vars, Inv, TypeOK, AliveIsHealthy, OutcomeHasCause, EndClocksBounded,
                DisplacementWithinJump, WreckDisarmed, GateReturnsOutcome
  <1> QED
    BY <1>1, <1>2, <1>3, <1>4, <1>5 DEF Next

(* In every reachable state all the invariants of the level hold together. *)
THEOREM Safety == Spec => []Inv
  BY InitInv, StepInv, PTL DEF Spec

(* native_gameplay_body and the gate keep every field in its range.        *)
THEOREM TypeCorrect == Spec => []TypeOK
  <1>1. Inv => TypeOK
    BY DEF Inv
  <1> QED
    BY <1>1, Safety, PTL

(* step_level_progression, the crash and the goal cell leave no level      *)
(* under control that should have ended.                                   *)
THEOREM AliveLevelsAreHealthy == Spec => []AliveIsHealthy
  <1>1. Inv => AliveIsHealthy
    BY DEF Inv
  <1> QED
    BY <1>1, Safety, PTL

(* ds:[456E] names the thing that ended the level.                         *)
THEOREM OutcomesHaveCauses == Spec => []OutcomeHasCause
  <1>1. Inv => OutcomeHasCause
    BY DEF Inv
  <1> QED
    BY <1>1, Safety, PTL

(* ds:[456A] and ds:[4558] stay far below the wrap of their words for any  *)
(* number of bodies between two gate checks.                               *)
THEOREM ClocksNeverWrap == Spec => []EndClocksBounded
  <1>1. Inv => EndClocksBounded
    BY DEF Inv
  <1> QED
    BY <1>1, Safety, PTL

(* select_avoidance_adjustment and resolve_landing pair up: what one moves *)
(* the other pays back, and nothing else leaves the ship beyond the road.  *)
THEOREM DisplacementsArePaidBack == Spec => []DisplacementWithinJump
  <1>1. Inv => DisplacementWithinJump
    BY DEF Inv
  <1> QED
    BY <1>1, Safety, PTL

(* should_run_gameplay never hands back a level that has not ended.        *)
THEOREM GateReturnsOutcomes == Spec => []GateReturnsOutcome
  <1>1. Inv => GateReturnsOutcome
    BY DEF Inv
  <1> QED
    BY <1>1, Safety, PTL

(* Bodies run after the level has ended only count its clocks.             *)
THEOREM EndedLevelsOnlySettle == Spec => EndedLevelOnlySettles
  <1> DEFINE Settles ==
        phase = "running" /\ view.game_state # Active =>
          /\ view'.game_state \in {view.game_state, Finished}
          /\ view'.timer_a = view.timer_a /\ view'.timer_b = view.timer_b
          /\ scratch'.jumping <= scratch.jumping
          /\ view.grounded # 0 /\ view' # view => view'.grounded > view.grounded
  <1>1. Inv /\ [Next]_vars => [Settles]_vars
    <2> SUFFICES ASSUME Inv, [Next]_vars, phase = "running", view.game_state # Active
                 PROVE  Settles \/ UNCHANGED vars
      OBVIOUS
    <2>1. /\ view \in Views /\ scratch \in Scratches
          /\ view.grounded \in Nat /\ scratch.jumping \in Nat
      BY ViewInViews, ConstantTypes DEF Inv, Views, Scratches, Word
    <2>2. CASE GameplayBody
      <3>1. PICK w \in Views : Flown(w, scratch') /\ view' = Settled(w)
        BY <2>2, FlightStep DEF Inv
      <3>2. ran < MaxBatch
        BY <2>2 DEF GameplayBody
      <3>3. w.game_state # Active /\ w.game_state \in {view.game_state, Finished}
        BY <3>1, <2>1 DEF Flown, LevelFlown
      <3>4. w.timer_a = view.timer_a /\ w.timer_b = view.timer_b
        BY <3>1 DEF Flown, LevelFlown
      <3>5. view.grounded # 0 => w.grounded = view.grounded
        BY <3>1 DEF Flown, LevelFlown
      <3>6. /\ view'.game_state = w.game_state
            /\ view'.timer_a = w.timer_a /\ view'.timer_b = w.timer_b
            /\ view'.grounded = IF w.grounded # 0 THEN w.grounded + 1 ELSE 0
        BY <3>1, <3>2, <3>3, TailStep DEF Flown, Inv
      <3>7. scratch'.jumping <= scratch.jumping
        BY <3>1 DEF Flown, LevelFlown
      <3>8. view.grounded # 0 => view'.grounded > view.grounded
        BY <2>1, <3>5, <3>6
      <3> QED
        BY <3>3, <3>4, <3>6, <3>7, <3>8
    <2>3. CASE RoadDeparture
      BY <2>3 DEF RoadDeparture
    <2>4. CASE Abort \/ ContinuationGate
      BY <2>1, <2>4 DEF Abort, ContinuationGate
    <2>5. CASE EnterLevel
      BY <2>5 DEF EnterLevel, Ended
    <2> QED
      BY <2>2, <2>3, <2>4, <2>5 DEF Next
  <1>2. Spec => [][Settles]_vars
    BY <1>1, Safety, PTL DEF Spec
  <1> QED
    BY <1>2 DEF EndedLevelOnlySettles

(* No body that runs after resolve_lateral_crash has ended the level takes *)
(* the ship forward: cells and throttle are closed to it, the avoidance    *)
(* displaces it by nothing, and on its ramp it never lands to be refunded. *)
THEOREM WrecksNeverAdvance == Spec => WreckNeverAdvances
  <1> DEFINE Stays == view.game_state = Crashed => view'.ship_pos <= view.ship_pos
  <1>1. Inv /\ [Next]_vars => [Stays]_vars
    <2> SUFFICES ASSUME Inv, [Next]_vars, view.game_state = Crashed
                 PROVE  view'.ship_pos <= view.ship_pos \/ UNCHANGED vars
      OBVIOUS
    <2>1. view.ship_pos \in Nat
      BY DEF Inv, TypeOK
    <2>2. CASE GameplayBody
      <3>1. PICK w \in Views : Flown(w, scratch') /\ view' = Settled(w)
        BY <2>2, FlightStep DEF Inv
      <3>2. view'.ship_pos = w.ship_pos
        BY <2>2, <3>1, TailStep DEF Flown, Inv, GameplayBody
      <3> QED
        BY <3>1, <3>2 DEF Flown
    <2>3. CASE RoadDeparture
      BY <2>3 DEF RoadDeparture
    <2>4. CASE Abort \/ ContinuationGate
      BY <2>1, <2>4 DEF Abort, ContinuationGate
    <2>5. CASE EnterLevel
      BY <2>1, <2>5 DEF EnterLevel, RespawnView
    <2> QED
      BY <2>2, <2>3, <2>4, <2>5 DEF Next
  <1>2. Spec => [][Stays]_vars
    BY <1>1, Safety, PTL DEF Spec
  <1> QED
    BY <1>2 DEF WreckNeverAdvances
=============================================================================
