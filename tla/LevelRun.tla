------------------------------ MODULE LevelRun ------------------------------
(***************************************************************************)
(* One SkyRoads level as the authored gameplay code runs it:               *)
(* native_gameplay_body (skyroads/native/loop.py) under the continuation   *)
(* gate should_run_gameplay.  A batch of bodies runs between two gate      *)
(* checks: one in native_gameplay_substep, as many as the timer asks for   *)
(* in SkyroadsGameplaySession.advance.                                     *)
(*                                                                         *)
(* The control state keeps the names of the source: game_state is          *)
(* ds:[456E], grounded ds:[456A], frame_ctr ds:[4558], timer_a the fuel,   *)
(* timer_b the oxygen, af2c the height, bounce the vertical velocity,      *)
(* delta the pair [AF30:AF2E] and mark the word ds:[455A].  What the road  *)
(* answers (cells, probes, walls) and what the player presses are chosen   *)
(* anew in every body.  Steering, the two sideways axes and the centring   *)
(* nudge ds:[5496] only decide those answers, so they are not state here.  *)
(***************************************************************************)
EXTENDS Integers

CONSTANTS
    WORD,                    \* number of values of a machine word (0x10000)
    LEVEL_END,               \* road length in forward units (0x2AAA)
    SCROLL_STEP,             \* forward units of cell actions 0x2 and 0xA
    SPEED_TO_POS,            \* forward units per unit of speed
    CRASH_MILESTONE_POS,     \* a wall hit before this is not a crash
    CONTACT_BRAKE,           \* forward units lost on a sideways contact
    ADJUSTMENT_DIVISOR,      \* avoidance tries pos +- pos*step/10 ...
    MAX_ADJUSTMENT_STEPS,    \* ... for step in 1..6
    LEVEL_TIMER_MAX,         \* full fuel and oxygen (0x7530)
    OXY_DEC,                 \* oxygen lost per body, 0 if the rate is 0
    FUEL_RATE, FUEL_SCALE,   \* fuel lost per body is FUEL_RATE*pos/FUEL_SCALE
    SETTLE_WINDOW_MAX,       \* 0x2A
    FRAME_CTR_GAMEPLAY_MAX,  \* 0x6C
    RESUME_HEIGHT_GATE,      \* height of the road surface (0x2800)
    EFFECT_HEIGHT_GATE,      \* height from which avoidance may fire (0x3700)
    JUMP_IMPULSE,            \* 0x480
    GRAVITY,                 \* - ds:[54AA], the pull of this level
    TERMINAL_VVEL,           \* terminal velocity below the road, downwards
    GROUND_RAMP_STEP, GROUND_RAMP_MAX,
    BOUNCE_KILL,             \* bounces smaller than this are killed
    MaxBatch                 \* bound: bodies between two gate checks

HALF == WORD \div 2

ASSUME ConstantsAssumption ==
    /\ {WORD, FUEL_SCALE, MaxBatch, ADJUSTMENT_DIVISOR, SETTLE_WINDOW_MAX,
        FRAME_CTR_GAMEPLAY_MAX, LEVEL_TIMER_MAX, CRASH_MILESTONE_POS}
          \subseteq Nat \ {0}
    /\ {LEVEL_END, SCROLL_STEP, SPEED_TO_POS, CONTACT_BRAKE, OXY_DEC,
        FUEL_RATE, MAX_ADJUSTMENT_STEPS, RESUME_HEIGHT_GATE,
        EFFECT_HEIGHT_GATE, JUMP_IMPULSE, GRAVITY, TERMINAL_VVEL,
        GROUND_RAMP_STEP, GROUND_RAMP_MAX, BOUNCE_KILL} \subseteq Nat
    /\ HALF + HALF = WORD
    /\ MAX_ADJUSTMENT_STEPS <= ADJUSTMENT_DIVISOR
    /\ LEVEL_TIMER_MAX < HALF
    /\ RESUME_HEIGHT_GATE < HALF
    /\ JUMP_IMPULSE < HALF /\ 0 < TERMINAL_VVEL /\ TERMINAL_VVEL < HALF
    /\ GROUND_RAMP_STEP + GROUND_RAMP_MAX < HALF
    /\ SETTLE_WINDOW_MAX + FRAME_CTR_GAMEPLAY_MAX + MaxBatch + MaxBatch < WORD

VARIABLES
    view,     \* the DGROUP fields of the level
    scratch,  \* GameplayScratch, carried from body to body
    phase,    \* "running", or why the handler returned
    ran       \* bodies since the gate was last checked

vars == <<view, scratch, phase, ran>>

-----------------------------------------------------------------------------
(* Words and game states.                                                  *)

Word == 0 .. WORD - 1
S16(v) == IF v < HALF THEN v ELSE v - WORD

Active == 0         \* STATE_TRANSITIONAL: flying under control
Crashed == 1
Finished == 2
Fallen == 3         \* STATE_GAMEPLAY: dropped below the road surface
NoFuel == 4         \* STATE_TIMER_A_EXPIRED
NoOxygen == 5       \* STATE_TIMER_B_EXPIRED

Ended == {"departed", "aborted", "returned"}

ClampPos(p) == IF p < 0 THEN 0 ELSE IF p > LEVEL_END THEN LEVEL_END ELSE p

(* The reset block run when a level is entered (RespawnState), and the     *)
(* fresh stack locals of the handler.                                      *)
RespawnView ==
    [game_state |-> Active, grounded |-> 0, frame_ctr |-> 0, ship_pos |-> 0,
     timer_a |-> LEVEL_TIMER_MAX, timer_b |-> LEVEL_TIMER_MAX,
     af2c |-> RESUME_HEIGHT_GATE, bounce |-> 0, delta |-> 0, mark |-> 0]

FreshScratch == [jumping |-> 0, effect_latch |-> 0, bp12 |-> 1, tgt_af2c |-> 0]

(* Bug: the gate has no upper bound on the settle window.                  *)
ShouldRunUnbounded(v) ==
    \/ v.grounded # 0
    \/ /\ v.game_state \notin {Crashed, Finished}
       /\ v.frame_ctr < FRAME_CTR_GAMEPLAY_MAX

(* should_run_gameplay: the gate that keeps the handler going.             *)
ShouldRunGameplay(v) ==
    \/ v.grounded \in 1 .. SETTLE_WINDOW_MAX
    \/ /\ v.game_state \notin {Crashed, Finished}
       /\ ~ (v.game_state = Fallen /\ v.grounded # 0)
       /\ v.frame_ctr < FRAME_CTR_GAMEPLAY_MAX

-----------------------------------------------------------------------------
(* The stages of a body, in spine order.  A stage that depends on the road *)
(* or on the player is the set of its possible results.                    *)

CellActions == {"scroll_left", "scroll_right", "confirm", "enter", "none"}

(* Bug: a supply cell refills a ship that has already ended.               *)
RefillDead(action, v) ==
    LET scroll == IF v.grounded # 0 THEN 0
                  ELSE IF action = "scroll_right" THEN SCROLL_STEP
                  ELSE IF action = "scroll_left" THEN - SCROLL_STEP
                  ELSE 0
        supply(timer) == IF action = "confirm" THEN LEVEL_TIMER_MAX ELSE timer
    IN [v EXCEPT
          !.ship_pos = ClampPos(@ + scroll),
          !.game_state = IF action = "enter" THEN Finished ELSE @,
          !.grounded = IF action = "enter" /\ @ = 0 THEN 1 ELSE @,
          !.timer_a = supply(@),
          !.timer_b = supply(@)]

(* dispatch_menu_action: what the cell under the ship does to it.          *)
DispatchMenuAction(action, v) ==
    LET scroll == IF v.grounded # 0 THEN 0
                  ELSE IF action = "scroll_right" THEN SCROLL_STEP
                  ELSE IF action = "scroll_left" THEN - SCROLL_STEP
                  ELSE 0
        refill == action = "confirm" /\ v.game_state = Active
    IN [v EXCEPT
          !.ship_pos = ClampPos(@ + scroll),
          !.game_state = IF action = "enter" THEN Finished ELSE @,
          !.grounded = IF action = "enter" /\ @ = 0 THEN 1 ELSE @,
          !.timer_a = IF refill THEN LEVEL_TIMER_MAX ELSE @,
          !.timer_b = IF refill THEN LEVEL_TIMER_MAX ELSE @]

(* classify_ship and the 1B49 call: a cell acts only on a ship that landed *)
(* in the body before (bp12).                                              *)
Classified(v, s) ==
    IF s.bp12 = 0 THEN {v}
    ELSE {DispatchMenuAction(action, v) : action \in CellActions}

(* decay_bounce: minus one half, truncated towards zero.                   *)
DecayBounce(b) ==
    IF S16(b) < 0 THEN (- S16(b)) \div 2 ELSE (- (S16(b) \div 2)) % WORD

(* gate_bounce_decay.  Whether ds:[5496] pins the ship is left open.       *)
DecayedBounces(v, s) ==
    IF v.af2c = s.tgt_af2c THEN {v.bounce}
    ELSE {0} \union
         (IF \/ v.grounded # 0
             \/ S16(v.bounce) < BOUNCE_KILL /\ - S16(v.bounce) < BOUNCE_KILL
          THEN {} ELSE {DecayBounce(v.bounce)})

(* advance_ship, on the moving path only.  The attract track reaches speed *)
(* 2, the keyboard 1.                                                      *)
Advanced(v, moving) ==
    IF moving
    THEN {[v EXCEPT !.ship_pos = ClampPos(@ + speed * SPEED_TO_POS)] :
              speed \in -1 .. 2}
    ELSE {v}

(* Bug: an ended ship may still start a jump.                              *)
JumpsAlways(bounce, s, moving) ==
    {<<bounce, s.jumping>>} \union
    (IF s.jumping = 0 THEN {<<JUMP_IMPULSE, 1>>} ELSE {})

(* The jump latch of step_jump_steer_gravity: <<bounce, jumping>>.         *)
Jumps(bounce, s, moving) ==
    {<<bounce, s.jumping>>} \union
    (IF moving /\ s.jumping = 0 THEN {<<JUMP_IMPULSE, 1>>} ELSE {})

(* Its gravity, above the road and below it.                               *)
Falling(v, bounce) ==
    IF v.af2c >= RESUME_HEIGHT_GATE THEN (bounce - GRAVITY) % WORD
    ELSE IF S16(bounce) > - TERMINAL_VVEL THEN WORD - TERMINAL_VVEL
    ELSE bounce

(* Bug: a crashed ship falls like any other.                               *)
GravityInFlight(v, bounce) == Falling(v, bounce)

(* Its gravity, or the ramp of a crashed ship.                             *)
Gravity(v, bounce) ==
    IF v.grounded = 0 THEN Falling(v, bounce)
    ELSE LET b == IF S16(bounce) < 0 THEN 0 ELSE bounce
         IN  IF b < GROUND_RAMP_MAX THEN b + GROUND_RAMP_STEP
             ELSE GROUND_RAMP_MAX

(* Its effect path, 25AC-25D6, with select_avoidance_adjustment: the arc   *)
(* was clear (None), a steering change clears it, a forward or backward    *)
(* displacement clears it, or nothing does.                                *)
Displacements(pos) ==
    {sign * ((pos * step) \div ADJUSTMENT_DIVISOR) :
        sign \in {-1, 1}, step \in 1 .. MAX_ADJUSTMENT_STEPS}

Adjusted(v) ==
    {v, [v EXCEPT !.delta = 0], [v EXCEPT !.delta = 0, !.mark = 1]}
    \union {[v EXCEPT !.ship_pos = @ + d, !.delta = d, !.mark = 1] :
                d \in Displacements(v.ship_pos)}

(* The possible <<view, effect_latch>> after the effect path; effect_gate  *)
(* is left open.                                                           *)
EffectPath(v, jumping, latch) ==
    {<<v, latch>>} \union
    (IF jumping # 0 /\ latch = 0 /\ v.af2c >= EFFECT_HEIGHT_GATE
     THEN Adjusted(v) \X {1} ELSE {})

(* Where resolve_move leaves the height: on the way to the target, or, for *)
(* a target that wrapped below zero, anywhere (_refine_axis compares       *)
(* unsigned).                                                              *)
ResolvedHeights(h, tgt) ==
    IF tgt >= HALF THEN Word ELSE IF h <= tgt THEN h .. tgt ELSE tgt .. h

(* Bug: the crash starts the settle clock but does not set ds:[456E].      *)
LateralCrashUnreported(v) ==
    [v EXCEPT !.ship_pos = 0,
              !.grounded = IF v.ship_pos >= CRASH_MILESTONE_POS /\ @ = 0 THEN 1 ELSE @]

(* resolve_lateral_crash on a ship whose way ahead stayed blocked.         *)
LateralCrash(v) ==
    LET flagged == v.ship_pos >= CRASH_MILESTONE_POS /\ v.grounded = 0
    IN [v EXCEPT !.ship_pos = 0,
                 !.grounded = IF flagged THEN 1 ELSE @,
                 !.game_state = IF flagged /\ @ = Active THEN Crashed ELSE @]

(* af1c_contact_fixup on a ship that did not reach its sideways target.    *)
ContactBrake(v) ==
    [v EXCEPT !.ship_pos = IF @ < CONTACT_BRAKE THEN 0 ELSE @ - CONTACT_BRAKE]

(* The collision response.  A ship that does not move ahead is not         *)
(* blocked; lateral_wall_bump turns a block into a contact.                *)
Collided(v) ==
    LET ahead == {v} \union (IF v.ship_pos = 0 THEN {} ELSE {LateralCrash(v)})
    IN  ahead \union {ContactBrake(w) : w \in ahead}

(* Bug: landing pays the displacement back but keeps the debt.             *)
LandedKeepingDelta(v) == [v EXCEPT !.ship_pos = ClampPos(@ - v.delta), !.mark = 0]

(* resolve_landing and the block of native_gameplay_body it enables.       *)
Landed(v) ==
    [v EXCEPT !.ship_pos = ClampPos(@ - v.delta), !.delta = 0, !.mark = 0]

(* _tick_down: unsigned subtraction whose wrap means an empty timer.       *)
TickDown(timer, dec) ==
    LET t == (timer - dec) % WORD IN IF t > LEVEL_TIMER_MAX THEN 0 ELSE t

FuelDec(pos) == ((FUEL_RATE * pos) \div FUEL_SCALE) % WORD

(* A level under control after its fuel and oxygen were used; the later    *)
(* tests of the source override the earlier ones.                          *)
Consumed(v, fuel, oxygen) ==
    [v EXCEPT !.timer_a = fuel,
              !.timer_b = oxygen,
              !.game_state = IF oxygen = 0 THEN NoOxygen
                             ELSE IF fuel = 0 THEN NoFuel
                             ELSE IF v.af2c < RESUME_HEIGHT_GATE THEN Fallen
                             ELSE Active]

Fuel(v) == TickDown(v.timer_a, FuelDec(v.ship_pos))
Oxygen(v) == TickDown(v.timer_b, OXY_DEC)
Counted(v) == [v EXCEPT !.frame_ctr = (@ + 1) % WORD]

(* Bugs: the frame counter runs in flight; an ended level is judged again; *)
(* oxygen is used like fuel, not at all by a ship that does not move.      *)
ProgressedCounting(v) ==
    IF v.game_state # Active THEN Counted(v)
    ELSE Counted(Consumed(v, Fuel(v), Oxygen(v)))
ProgressedRejudging(v) == Consumed(Counted(v), Fuel(v), Oxygen(v))
ProgressedOnFuel(v) ==
    IF v.game_state # Active THEN Counted(v)
    ELSE Consumed(v, Fuel(v), TickDown(v.timer_b, FuelDec(v.ship_pos)))

(* step_level_progression: an ended level only counts frames.              *)
Progressed(v) ==
    IF v.game_state # Active THEN Counted(v)
    ELSE Consumed(v, Fuel(v), Oxygen(v))

(* Bugs: the height is left below zero; the settle clock is stuck.         *)
FloorUnclamped(v) == v
SettleStuck(v) == v

(* The floor clamp of the height, and the settle clock of a crashed ship.  *)
FloorClamped(v) == [v EXCEPT !.af2c = IF @ >= HALF THEN 0 ELSE @]
SettleBumped(v) == [v EXCEPT !.grounded = IF @ # 0 THEN (@ + 1) % WORD ELSE 0]

Settled(v) == SettleBumped(Progressed(FloorClamped(v)))

-----------------------------------------------------------------------------
(* The level's actions.                                                    *)

Init ==
    /\ view = RespawnView
    /\ scratch = FreshScratch
    /\ phase = "running"
    /\ ran = 0

(* The second half of a body, from the movement targets on: v2 is the ship *)
(* that was set moving, j its jump latch and e the answer of the avoidance.*)
MoveAndSettle(v2, j, e) ==
    LET bounce == Gravity(v2, j[1])
        tgt == (v2.af2c + bounce) % WORD
    IN  \E h \in ResolvedHeights(v2.af2c, tgt) :
        \E v3 \in Collided([e[1] EXCEPT !.bounce = bounce, !.af2c = h]) :
          LET landed == h # tgt /\ S16(bounce) < 0
          IN  /\ view' = Settled(IF landed THEN Landed(v3) ELSE v3)
              /\ scratch' = [jumping |-> IF landed THEN 0 ELSE j[2],
                             effect_latch |-> IF landed THEN 0 ELSE e[2],
                             bp12 |-> IF landed THEN 1 ELSE 0,
                             tgt_af2c |-> tgt]

(* native_gameplay_body, when it does not leave the road.                  *)
GameplayBody ==
    /\ phase = "running"
    /\ ran < MaxBatch
    /\ LET moving == view.game_state = Active
       IN  \E v1 \in Classified(view, scratch) :
           \E b \in DecayedBounces(v1, scratch) :
           \E v2 \in Advanced(v1, moving) :
           \E j \in Jumps(b, scratch, moving) :
           \E e \in EffectPath(v2, j[2], scratch.effect_latch) :
              MoveAndSettle(v2, j, e)
    /\ ran' = ran + 1
    /\ UNCHANGED phase

(* native_gameplay_body leaving by RoadDepartureTransition: past the       *)
(* threshold and off the road.  The cell has acted, nothing else has.      *)
RoadDeparture ==
    /\ phase = "running"
    /\ ran < MaxBatch
    /\ view.game_state = Active
    /\ view' \in Classified(view, scratch)
    /\ phase' = "departed"
    /\ UNCHANGED <<scratch, ran>>

(* The escape key, looked at after a batch and before the gate.            *)
Abort ==
    /\ phase = "running"
    /\ ran > 0
    /\ phase' = "aborted"
    /\ UNCHANGED <<view, scratch, ran>>

(* The continuation gate after a batch: go on, or return game_state.       *)
ContinuationGate ==
    /\ phase = "running"
    /\ ran > 0
    /\ IF ShouldRunGameplay(view)
       THEN ran' = 0 /\ UNCHANGED phase
       ELSE phase' = "returned" /\ UNCHANGED ran
    /\ UNCHANGED <<view, scratch>>

(* The generated outer loop enters the next level or this one again.       *)
EnterLevel ==
    /\ phase \in Ended
    /\ view' = RespawnView
    /\ scratch' = FreshScratch
    /\ phase' = "running"
    /\ ran' = 0

Next == GameplayBody \/ RoadDeparture \/ Abort \/ ContinuationGate \/ EnterLevel

Spec == Init /\ [][Next]_vars

(* The timer interrupt keeps asking for bodies, and the handler checks its *)
(* gate after every batch.                                                 *)
FairSpec == Spec /\ WF_vars(GameplayBody) /\ WF_vars(ContinuationGate)

-----------------------------------------------------------------------------
TypeOK ==
    /\ view \in [game_state : 0 .. 5, grounded : Word, frame_ctr : Word,
                 ship_pos : Nat, timer_a : 0 .. LEVEL_TIMER_MAX,
                 timer_b : 0 .. LEVEL_TIMER_MAX, af2c : 0 .. HALF - 1,
                 bounce : Word, delta : Int, mark : {0, 1}]
    /\ scratch \in [jumping : {0, 1}, effect_latch : {0, 1}, bp12 : {0, 1},
                    tgt_af2c : Word]
    /\ phase \in {"running"} \union Ended
    /\ ran \in 0 .. MaxBatch

(* A level under control has fuel, oxygen, road under the ship and neither *)
(* clock of its end running.                                               *)
AliveIsHealthy ==
    view.game_state = Active =>
        /\ view.timer_a > 0 /\ view.timer_b > 0
        /\ view.af2c >= RESUME_HEIGHT_GATE
        /\ view.grounded = 0 /\ view.frame_ctr = 0

(* The outcome the handler returns agrees with what ended the level.       *)
OutcomeHasCause ==
    /\ view.game_state \in {Crashed, Finished} => view.grounded # 0
    /\ view.game_state = Fallen => view.timer_a > 0 /\ view.timer_b > 0
    /\ view.game_state = NoFuel => view.timer_a = 0 /\ view.timer_b > 0
    /\ view.game_state = NoOxygen => view.timer_b = 0

(* The settle clock never outruns the frame counter, the counter passes    *)
(* its limit only while the settle window runs, and both stop soon after   *)
(* the gate closes, so neither wraps its word.                             *)
EndClocksBounded ==
    /\ view.grounded # 0 =>
          /\ view.grounded <= view.frame_ctr + 1
          /\ view.frame_ctr <= FRAME_CTR_GAMEPLAY_MAX + MaxBatch + view.grounded - 3
    /\ \/ view.frame_ctr <= FRAME_CTR_GAMEPLAY_MAX + ran - 1
       \/ view.grounded \in 1 .. SETTLE_WINDOW_MAX + ran
    /\ view.frame_ctr <= FRAME_CTR_GAMEPLAY_MAX + SETTLE_WINDOW_MAX
                            + MaxBatch + MaxBatch - 3

(* A displacement waits to be paid back only within the jump that made it, *)
(* and only such a jump carries the ship past the end of the road.         *)
DisplacementWithinJump ==
    /\ scratch.effect_latch = 1 => scratch.jumping = 1
    /\ view.delta # 0 \/ view.mark = 1 => scratch.effect_latch = 1
    /\ view.ship_pos > LEVEL_END =>
          view.delta > 0 /\ view.ship_pos <= LEVEL_END + view.delta

(* "ship_pos is clamped to [0, LEVEL_END]" (player.py:35).                 *)
ShipOnRoad == view.ship_pos <= LEVEL_END

(* The gate never returns game_state 0, the value the caller of the        *)
(* handler takes for a level completed by leaving the road.                *)
GateReturnsOutcome == phase = "returned" => view.game_state # Active

(* Once the level has ended only its clocks run: the outcome stays unless  *)
(* the goal cell overrides it, fuel and oxygen keep their last reading, no *)
(* jump starts, and the settle clock never pauses.                         *)
EndedLevelOnlySettles ==
    [][phase = "running" /\ view.game_state # Active =>
         /\ view'.game_state \in {view.game_state, Finished}
         /\ view'.timer_a = view.timer_a /\ view'.timer_b = view.timer_b
         /\ scratch'.jumping <= scratch.jumping
         /\ view.grounded # 0 /\ view' # view => view'.grounded > view.grounded]_vars

(* Once a level has crashed its ship never goes forward again: no cell, no *)
(* throttle, no avoidance and no refund of a displacement reaches a wreck. *)
(* What still moves it, a wall or a contact, takes it back.                *)
WreckNeverAdvances ==
    [][view.game_state = Crashed => view'.ship_pos <= view.ship_pos]_vars

(* A level that has ended is handed back.                                  *)
EndedLevelReturns == view.game_state # Active ~> phase \in Ended

(* Nobody flies forever: a level whose rate uses oxygen ends, unless the   *)
(* ship keeps refilling it (the oxygen is then that of a full supply).     *)
Refill ==
    /\ ran' > ran /\ view.game_state = Active
    /\ view'.timer_b >= view.timer_b
    /\ view'.timer_b = TickDown(LEVEL_TIMER_MAX, OXY_DEC)

OxygenRunsOut == []<><<Refill>>_vars \/ []<>(phase \in Ended)
=============================================================================
