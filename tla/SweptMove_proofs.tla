------------------------- MODULE SweptMove_proofs -------------------------
(***************************************************************************)
(* Proofs about SweptMove for every road, every width of the words, every  *)
(* number of fractions and every step that comes down to one.              *)
(*                                                                         *)
(* StaysClear and NoTunnel need to know what the sweep has seen so far: it *)
(* has not moved the ship, and every fraction below si was free (Swept).  The*)
(* fraction it commits to is then one of those, or the place it came from. *)
(*                                                                         *)
(* The other three are about the arithmetic.  A step that comes to one tries*)
(* the place right beside the ship before it ends, so that an axis is at its*)
(* target or held there (AlongRefined, AcrossRefined, HeightRefined).  On a*)
(* short way no product leaves its word, the sweep stays on the way, and a *)
(* round that fits does not pass the target.                               *)
(***************************************************************************)
EXTENDS SweptMove, TLAPS

-----------------------------------------------------------------------------
(* Arithmetic.                                                             *)

\* The size of a number that is not negative.
LEMMA AbsOfNat ==
    ASSUME NEW a \in Nat
    PROVE  Abs(a) = a
  BY DEF Abs

\* A remainder is below its divisor.
LEMMA ModRange ==
    ASSUME NEW a \in Int, NEW b \in Nat \ {0}
    PROVE  a % b \in 0 .. b - 1
  OBVIOUS

\* WORD is a divisor too.
LEMMA WordNat == WORD \in Nat \ {0}
  BY MoveAssumption DEF WORD

\* A sum is a word.
LEMMA SumWord ==
    ASSUME NEW v \in Int, NEW d \in Int
    PROVE  Sum(v, d) \in Word
  BY ModRange, WordNat DEF Sum, Word

\* The quotient of idiv is an integer.
LEMMA TruncDivInt ==
    ASSUME NEW a \in Int, NEW b \in Nat \ {0}
    PROVE  TruncDiv(a, b) \in Int
  BY DEF TruncDiv

\* A remainder read as a signed number is an integer.
LEMMA SignedInt ==
    ASSUME NEW v \in Int
    PROVE  S16(v) \in Int /\ S32(v) \in Int
  BY MoveAssumption, WordNat DEF S16, S32

\* The way from one word to another is an integer.
LEMMA WayInt ==
    ASSUME NEW goal \in Int, NEW v \in Int
    PROVE  Way(goal, v) \in Int
  <1>1. (goal - v) % WORD \in Int
    BY ModRange, WordNat
  <1> QED BY <1>1, SignedInt DEF Way

\* A part of the way is an integer, on each axis.
LEMMA PartInt ==
    ASSUME NEW goal \in Int, NEW v \in Int, NEW k \in Int
    PROVE  Part(goal, v, k) \in Int /\ PartAlong(goal, v, k) \in Int
  <1>a. ASSUME NEW w \in Int PROVE w * k \in Int
    OBVIOUS
  <1>b. Way(goal, v) * k \in Int
    BY <1>a, WayInt
  <1>1. (Way(goal, v) * k) % WORD \in Int
    BY <1>b, WordNat
  <1>2. (goal - v) % LWORD \in Int
    BY ModRange, MoveAssumption
  <1>3. (((goal - v) % LWORD) * k) % LWORD \in Int
    BY <1>2, ModRange, MoveAssumption
  <1>4. Part(goal, v, k) \in Int
    BY <1>1, SignedInt, TruncDivInt, MoveAssumption DEF Part
  <1>5. PartAlong(goal, v, k) \in Int
    BY <1>3, SignedInt, TruncDivInt, MoveAssumption DEF PartAlong
  <1> QED BY <1>4, <1>5

\* No part of the way is no way at all.
LEMMA PartZero ==
    ASSUME NEW goal \in Int, NEW v \in Int
    PROVE  Part(goal, v, 0) = 0 /\ PartAlong(goal, v, 0) = 0
  <1>1. Way(goal, v) * 0 = 0
    BY WayInt
  <1>2. ((goal - v) % LWORD) * 0 = 0
    BY ModRange, MoveAssumption
  <1>3. 0 % WORD = 0 /\ 0 % LWORD = 0
    BY WordNat, MoveAssumption
  <1>4. S16(0) = 0 /\ S32(0) = 0
    BY MoveAssumption DEF S16, S32
  <1>5. TruncDiv(0, SWEEP_STEPS) = 0
    BY MoveAssumption DEF TruncDiv
  <1> QED BY <1>1, <1>2, <1>3, <1>4, <1>5 DEF Part, PartAlong

\* A fraction of the way is a place of the road.
LEMMA FractionPlace ==
    ASSUME TypeOK, NEW place \in Laterals \X Word \X Word, NEW k \in Int
    PROVE  /\ Fraction(place, k)[1] \in Laterals
           /\ Fraction(place, k)[2] \in Word
           /\ Fraction(place, k)[3] \in Word
  <1>1. place[1] \in Int /\ place[2] \in Int /\ place[3] \in Int
    BY DEF Laterals, Word
  <1>2. tgt_lateral \in Int /\ tgt_af1c \in Int /\ tgt_af2c \in Int
    BY DEF TypeOK, Laterals, Word
  <1>3. (place[1] + PartAlong(tgt_lateral, place[1], k)) % LWORD \in Laterals
    <2>1. PartAlong(tgt_lateral, place[1], k) \in Int
      BY <1>1, <1>2, PartInt
    <2>2. place[1] + PartAlong(tgt_lateral, place[1], k) \in Int
      BY <1>1, <2>1
    <2> QED BY <2>2, ModRange, MoveAssumption DEF Laterals
  <1>4. Sum(place[2], Part(tgt_af1c, place[2], k)) \in Word
    BY <1>1, <1>2, PartInt, SumWord
  <1>5. Sum(place[3], Part(tgt_af2c, place[3], k)) \in Word
    BY <1>1, <1>2, PartInt, SumWord
  <1> QED BY <1>3, <1>4, <1>5 DEF Fraction

\* The fraction zero is the place itself.
LEMMA FractionZero ==
    ASSUME TypeOK, NEW place \in Laterals \X Word \X Word
    PROVE  Fraction(place, 0) = place
  <1>1. place[1] \in Laterals /\ place[2] \in Word /\ place[3] \in Word
    OBVIOUS
  <1>2. tgt_lateral \in Int /\ tgt_af1c \in Int /\ tgt_af2c \in Int
    BY DEF TypeOK, Laterals, Word
  <1>3. (place[1] + 0) % LWORD = place[1]
    BY <1>1, MoveAssumption DEF Laterals
  <1>4. Sum(place[2], 0) = place[2] /\ Sum(place[3], 0) = place[3]
    BY <1>1, WordNat DEF Sum, Word
  <1>5. place = <<place[1], place[2], place[3]>>
    OBVIOUS
  <1>6. place[1] \in Int /\ place[2] \in Int /\ place[3] \in Int
    BY <1>1 DEF Laterals, Word
  <1> QED BY <1>2, <1>3, <1>4, <1>5, <1>6, PartZero DEF Fraction

\* A remainder of a number next to the range is that number, moved into it.
LEMMA ModNear ==
    ASSUME NEW x \in Int, NEW w \in Nat \ {0}
    PROVE  /\ 0 <= x /\ x < w => x % w = x
           /\ - w <= x /\ x < 0 => x % w = x + w
  OBVIOUS

\* And of one past the range.
LEMMA ModOver ==
    ASSUME NEW x \in Int, NEW w \in Nat \ {0}, w <= x, x < w + w
    PROVE  x % w = x - w
  OBVIOUS

\* The short way between two words is the difference, or goes round the end.
LEMMA WayIs ==
    ASSUME NEW goal \in Word, NEW v \in Word
    PROVE  Way(goal, v) = IF goal - v >= HALF THEN goal - v - WORD
                          ELSE IF goal - v < - HALF THEN goal - v + WORD
                          ELSE goal - v
  <1>1. /\ goal - v \in Int /\ - WORD <= goal - v /\ goal - v < WORD
        /\ HALF \in Nat \ {0} /\ WORD = HALF + HALF
    BY MoveAssumption DEF Word, WORD
  <1>2. (goal - v) % WORD = IF goal - v < 0 THEN goal - v + WORD ELSE goal - v
    BY <1>1, WordNat, ModNear
  <1> QED BY <1>1, <1>2 DEF Way, S16

\* A step towards the goal that is no longer than the short way stays between
\* where it starts and the goal, and crosses no end of the words.
LEMMA AxisRound ==
    ASSUME NEW goal \in Word, NEW v \in Word, NEW d \in Int, d # 0,
           d > 0 => v <= goal, d < 0 => v >= goal,
           Abs(d) <= Abs(Way(goal, v))
    PROVE  /\ Sum(v, d) = v + d
           /\ d > 0 => v + d <= goal
           /\ d < 0 => v + d >= goal
  <1>1. goal \in Int /\ v \in Int /\ 0 <= goal /\ goal < WORD /\ 0 <= v /\ v < WORD
    BY WordNat DEF Word
  <1>2. Abs(Way(goal, v)) <= Abs(goal - v)
    BY <1>1, WayIs, MoveAssumption DEF Abs, WORD
  <1>3. Abs(d) <= Abs(goal - v)
    <2>1. Way(goal, v) \in Int
      BY <1>1, WayInt
    <2>2. Abs(d) \in Int /\ Abs(Way(goal, v)) \in Int /\ Abs(goal - v) \in Int
      BY <1>1, <2>1 DEF Abs
    <2> QED BY <1>2, <2>2
  <1>4. /\ d > 0 => v + d <= goal
        /\ d < 0 => v + d >= goal
    BY <1>1, <1>3 DEF Abs
  <1>5. 0 <= v + d /\ v + d < WORD
    BY <1>1, <1>4, WordNat
  <1> QED BY <1>1, <1>4, <1>5, WordNat, ModNear DEF Sum

\* A quotient is no larger than what it is of.
LEMMA DivBelow ==
    ASSUME NEW a \in Nat, NEW b \in Nat \ {0}
    PROVE  a \div b \in 0 .. a
  OBVIOUS

\* What is divided by more than one gets shorter.
LEMMA DivShorter ==
    ASSUME NEW a \in Nat \ {0}, NEW b \in Nat \ {0, 1}
    PROVE  a \div b \in Nat /\ a \div b < a
  <1> DEFINE q == a \div b
  <1>1. q \in Int /\ 0 <= q /\ b * q <= a
    OBVIOUS
  <1> HIDE DEF q
  <1>2. 2 * q <= b * q
    BY <1>1
  <1>3. b * q \in Int
    BY <1>1
  <1>4. 2 * q <= a
    BY <1>1, <1>2, <1>3
  <1>5. q \in Nat /\ q < a
    BY <1>1, <1>4
  <1> QED BY <1>5 DEF q

\* A fraction of a length is at most the length.
LEMMA PartBelow ==
    ASSUME NEW a \in Nat, NEW n \in Nat \ {0}, NEW k \in 0 .. n
    PROVE  /\ a * k \in 0 .. a * n
           /\ (a * k) \div n \in 0 .. a
  <1>1. a * k >= 0 /\ a * k <= a * n
    OBVIOUS
  <1>2. a * k \in Nat /\ a * n \in Nat
    OBVIOUS
  <1> DEFINE q == (a * k) \div n
  <1>3. q \in Int /\ 0 <= q /\ n * q <= a * k
    BY <1>2
  <1>4. n * q <= n * a
    BY <1>1, <1>2, <1>3
  <1> HIDE DEF q
  <1>5. q <= a
    BY <1>3, <1>4
  <1>6. q \in 0 .. a
    BY <1>3, <1>5
  <1> QED BY <1>1, <1>2, <1>6 DEF q

\* Dividing keeps a step on its way down to one.
LEMMA ComesDown ==
    ASSUME NEW s \in Nat \ {0}, NEW b \in Nat \ {0, 1}, ComesToOne(s, b)
    PROVE  /\ s = 1 => s \div b = 0
           /\ s # 1 => s \div b \in Nat \ {0} /\ ComesToOne(s \div b, b)
  <1>1. s = 1 => s \div b = 0
    OBVIOUS
  <1>2. ASSUME s # 1
        PROVE  s \div b \in Nat \ {0} /\ ComesToOne(s \div b, b)
    <2>1. PICK steps \in SUBSET (1 .. s) :
            s \in steps /\ \A t \in steps : t = 1 \/ t \div b \in steps
      BY DEF ComesToOne
    <2> DEFINE n == s \div b
    <2>2. n \in steps /\ n \in 1 .. s
      BY <1>2, <2>1
    <2> HIDE DEF n
    <2> DEFINE less == {t \in steps : t <= n}
    <2>3. n \in less /\ less \in SUBSET (1 .. n)
      <3>1. \A t \in steps : t \in 1 .. s
        OBVIOUS
      <3>2. \A t \in less : t \in 1 .. n
        BY <2>2, <3>1
      <3>3. n \in less
        BY <2>2
      <3> HIDE DEF less
      <3>4. less \in SUBSET (1 .. n)
        BY <3>2
      <3> QED BY <3>3, <3>4
    <2>4. ASSUME NEW t \in less, t # 1
          PROVE  t \div b \in less
      <3>0. t \in 1 .. n /\ t \in steps
        BY <2>3
      <3>1. t \in Nat /\ t <= n /\ t \div b \in steps
        BY <2>1, <2>2, <2>4, <3>0
      <3>2. t \div b <= t /\ t \div b \in Int
        BY <3>1, DivBelow
      <3> QED BY <2>2, <3>1, <3>2
    <2>5. ComesToOne(n, b)
      BY <2>3, <2>4 DEF ComesToOne
    <2> QED BY <2>2, <2>5 DEF n
  <1> QED BY <1>1, <1>2

\* The same for a step with a sign.
LEMMA AxisShrinks ==
    ASSUME NEW d \in Int, d # 0, ComesToOne(Abs(d), AXIS_SHRINK)
    PROVE  /\ Abs(d) = 1 => TruncDiv(d, AXIS_SHRINK) = 0
           /\ Abs(d) # 1 =>
                /\ TruncDiv(d, AXIS_SHRINK) # 0
                /\ ComesToOne(Abs(TruncDiv(d, AXIS_SHRINK)), AXIS_SHRINK)
                /\ d > 0 <=> TruncDiv(d, AXIS_SHRINK) > 0
  <1>1. Abs(d) \in Nat \ {0} /\ AXIS_SHRINK \in Nat \ {0, 1}
    BY MoveAssumption DEF Abs
  <1> DEFINE q == Abs(d) \div AXIS_SHRINK
  <1>2. /\ Abs(d) = 1 => q = 0
        /\ Abs(d) # 1 => q \in Nat \ {0} /\ ComesToOne(q, AXIS_SHRINK)
    BY <1>1, ComesDown
  <1>3. TruncDiv(d, AXIS_SHRINK) = IF d < 0 THEN - q ELSE q
    BY DEF TruncDiv, Abs
  <1>4. q \in Nat
    BY <1>2
  <1> HIDE DEF q
  <1>5. Abs(TruncDiv(d, AXIS_SHRINK)) = q
    BY <1>3, <1>4 DEF Abs
  <1> QED BY <1>2, <1>3, <1>4, <1>5

\* A fraction of a short way lies on it: the product and the sum stay within
\* a word.
LEMMA PartOnWay ==
    ASSUME NEW goal \in Word, NEW v \in Word, NEW k \in 0 .. SWEEP_STEPS,
           Short(v, goal)
    PROVE  Between(v, Sum(v, Part(goal, v, k)), goal)
  <1> DEFINE d == goal - v
             m == Abs(d)
             q == (m * k) \div SWEEP_STEPS
  <1>1. /\ goal \in Int /\ v \in Int /\ 0 <= goal /\ goal < WORD /\ 0 <= v /\ v < WORD
        /\ HALF \in Nat \ {0} /\ WORD = HALF + HALF /\ SWEEP_STEPS \in Nat \ {0}
        /\ k \in Int /\ d \in Int /\ m \in Nat /\ d = IF d < 0 THEN - m ELSE m
    BY WordNat, MoveAssumption DEF Word, WORD, Abs
  <1>2. m * SWEEP_STEPS < HALF
    BY <1>1 DEF Short, Abs
  <1>3. /\ m * k \in 0 .. m * SWEEP_STEPS /\ q \in 0 .. m
    BY <1>1, PartBelow
  <1>4. m <= m * SWEEP_STEPS
    BY <1>1
  <1>5. Way(goal, v) = d
    BY <1>1, <1>2, <1>4, WayIs
  <1>6. d * k = IF d < 0 THEN - (m * k) ELSE m * k
    BY <1>1
  <1>7. m * SWEEP_STEPS \in Nat
    BY <1>1
  <1> HIDE DEF d, m, q
  <1>8. m * k \in Nat /\ m * k < HALF /\ q \in Nat /\ q <= m
    BY <1>1, <1>2, <1>3, <1>7
  <1>9. (d * k) % WORD = IF d < 0 /\ m * k # 0 THEN WORD - m * k ELSE m * k
    BY <1>1, <1>6, <1>8, WordNat, ModNear
  <1>10. S16((d * k) % WORD) = d * k
    BY <1>1, <1>6, <1>8, <1>9 DEF S16
  <1>11. Part(goal, v, k) = IF d < 0 THEN - q ELSE q
    <2>1. Part(goal, v, k) = TruncDiv(d * k, SWEEP_STEPS)
      BY <1>5, <1>10 DEF Part
    <2>2. CASE d < 0 /\ m * k # 0
      BY <1>6, <1>8, <2>1, <2>2 DEF TruncDiv, q
    <2>3. CASE m * k = 0
      <3>1. q = 0
        BY <1>1, <2>3 DEF q
      <3>2. d * k = 0
        BY <1>6, <2>3
      <3> QED BY <1>1, <2>1, <3>1, <3>2, <2>3 DEF TruncDiv, q
    <2>4. CASE ~ (d < 0) /\ m * k # 0
      BY <1>6, <1>8, <2>1, <2>4 DEF TruncDiv, q
    <2> QED BY <2>2, <2>3, <2>4
  <1>12. v + Part(goal, v, k) = IF d < 0 THEN v - q ELSE v + q
    BY <1>1, <1>8, <1>11
  <1>13. CASE d < 0
    <2>1. goal = v - m
      BY <1>1, <1>13 DEF d
    <2>2. Sum(v, Part(goal, v, k)) = v - q
      BY <1>1, <1>8, <1>12, <1>13, <2>1, WordNat, ModNear DEF Sum
    <2> QED BY <1>1, <1>8, <2>1, <2>2 DEF Between
  <1>14. CASE ~ (d < 0)
    <2>1. goal = v + m
      BY <1>1, <1>14 DEF d
    <2>2. Sum(v, Part(goal, v, k)) = v + q
      BY <1>1, <1>8, <1>12, <1>14, <2>1, WordNat, ModNear DEF Sum
    <2> QED BY <1>1, <1>8, <2>1, <2>2 DEF Between
  <1> QED BY <1>13, <1>14

\* The longest way along the road whose fractions do not overflow.
ShortAlong == 0 .. ((LWORD \div 2 - 1) \div SWEEP_STEPS)

\* The same along the road, where the way goes forward.
LEMMA PartOnRoad ==
    ASSUME NEW goal \in Laterals, NEW v \in Laterals,
           NEW k \in 0 .. SWEEP_STEPS, goal - v \in ShortAlong
    PROVE  Between(v, (v + PartAlong(goal, v, k)) % LWORD, goal)
  <1> DEFINE d == goal - v
             q == (d * k) \div SWEEP_STEPS
             h == LWORD \div 2 - 1
  <1>1. /\ LWORD \in Nat \ {0} /\ SWEEP_STEPS \in Nat \ {0} /\ k \in Int
        /\ goal \in Int /\ v \in Int /\ 0 <= v /\ goal < LWORD
        /\ h \in Int /\ 2 * h < LWORD
    BY MoveAssumption DEF Laterals
  <1>2. d \in Nat /\ d <= h \div SWEEP_STEPS
    BY <1>1 DEF ShortAlong
  <1> HIDE DEF h
  <1>3. d * SWEEP_STEPS <= h
    <2> DEFINE r == h \div SWEEP_STEPS
    <2>1. r \in Int /\ SWEEP_STEPS * r <= h
      BY <1>1
    <2> HIDE DEF r, d
    <2>2. d * SWEEP_STEPS <= SWEEP_STEPS * r
      BY <1>1, <1>2, <2>1 DEF r
    <2>3. d * SWEEP_STEPS \in Int /\ SWEEP_STEPS * r \in Int
      BY <1>1, <1>2, <2>1
    <2> QED BY <1>1, <2>1, <2>2, <2>3
  <1>4. d * k \in 0 .. d * SWEEP_STEPS /\ q \in 0 .. d
    BY <1>1, <1>2, PartBelow
  <1>5. d * SWEEP_STEPS \in Nat
    BY <1>1, <1>2
  <1>6. v + d = goal
    BY <1>1
  <1>d. goal - v = d
    OBVIOUS
  <1> HIDE DEF d, q
  <1>7. d * k \in Nat /\ 2 * (d * k) < LWORD /\ q \in Nat /\ q <= d
    BY <1>1, <1>2, <1>3, <1>4, <1>5
  <1>8. d % LWORD = d /\ (d * k) % LWORD = d * k
    BY <1>1, <1>2, <1>6, <1>7, ModNear
  <1>9. PartAlong(goal, v, k) = q
    BY <1>7, <1>8, <1>d DEF PartAlong, S32, TruncDiv, q
  <1>10. (v + q) % LWORD = v + q
    BY <1>1, <1>2, <1>6, <1>7, ModNear
  <1> QED BY <1>1, <1>2, <1>6, <1>7, <1>9, <1>10 DEF Between

-----------------------------------------------------------------------------
(* The inductive invariant.                                                *)

\* What the sweep has seen, and where it left the ship.
Swept ==
    /\ phase = "sweep" => ship = from /\ si >= 1
    /\ NoTunnel
    /\ StaysClear

\* A refinement's step comes down to one, and points at the goal.
Steps(divisor) == step = 0 \/ ComesToOne(Abs(step), divisor)

Towards(goal, v) ==
    /\ step > 0 => v <= goal
    /\ step < 0 => v >= goal

\* A height that was not reached is held by the block beside it.
Contact ==
    af2c # tgt_af2c =>
        \/ af2c < tgt_af2c /\ ~Free(<<lateral, af1c, Sum(af2c, 1)>>)
        \/ af2c > tgt_af2c /\ ~Free(<<lateral, af1c, Sum(af2c, -1)>>)

\* What the three refinements have reached when their step is used up.
AlongRefined ==
    /\ phase = "along" => step >= 0 /\ Steps(LAT_SHRINK)
    /\ (phase = "along" /\ step = 0) \/ phase \in {"across", "height", "response"}
           => (blocked = {} => lateral = tgt_lateral)

AcrossRefined ==
    /\ phase = "across" => Steps(AXIS_SHRINK) /\ Towards(tgt_af1c, af1c)
    /\ (phase = "across" /\ step = 0) \/ phase \in {"height", "response"}
           => (blocked = {} => af1c = tgt_af1c)

HeightRefined ==
    /\ phase = "height" => Steps(AXIS_SHRINK) /\ Towards(tgt_af2c, af2c)
    /\ (phase = "height" /\ step = 0) \/ phase = "response" => Contact

Refined == AlongRefined /\ AcrossRefined /\ HeightRefined

IInv == TypeOK /\ Swept /\ Refined /\ StaysOnWay

\* The initial states.
LEMMA InitIInv == Init => IInv
  <1> SUFFICES ASSUME Init PROVE IInv
    OBVIOUS
  <1>1. TypeOK
    <2>1. lateral \in Laterals /\ af1c \in Word /\ af2c \in Word
      BY MoveAssumption DEF Init, Laterals, Word, WORD
    <2>2. from \in Laterals \X Word \X Word
      BY <2>1 DEF Init, ship
    <2>3. si \in 0 .. SWEEP_STEPS + 1 /\ step \in Int
      BY MoveAssumption DEF Init
    <2> QED BY <2>1, <2>2, <2>3 DEF Init, TypeOK, Phases
  <1>2. phase \notin Moving
    BY DEF Init, Moving
  <1>3. Swept
    BY <1>2 DEF Init, Swept, NoTunnel, StaysClear, Moving
  <1>4. Refined
    BY DEF Init, Refined, AlongRefined, AcrossRefined, HeightRefined
  <1>5. StaysOnWay
    BY <1>2 DEF Init, StaysOnWay
  <1> QED BY <1>1, <1>3, <1>4, <1>5 DEF IInv

\* Every step keeps the types.
LEMMA TypeStep == TypeOK /\ [Next]_vars => TypeOK'
  <1> SUFFICES ASSUME TypeOK, [Next]_vars PROVE TypeOK'
    OBVIOUS
  <1> USE MoveAssumption
  <1>n. /\ lateral \in Int /\ af1c \in Int /\ af2c \in Int
        /\ tgt_lateral \in Int /\ tgt_af1c \in Int /\ tgt_af2c \in Int
        /\ step \in Int /\ si \in Int
    BY DEF TypeOK, Laterals, Word
  <1>p. ship \in Laterals \X Word \X Word
    BY DEF TypeOK, ship
  <1>1. CASE Targets
    <2>1. PICK speed \in Speeds, drift \in Drifts, bounce \in Bounces :
            /\ tgt_lateral' = (lateral + speed) % LWORD
            /\ tgt_af1c' = Seamed(af1c, Sum(af1c, drift))
            /\ tgt_af2c' = Sum(af2c, bounce)
      BY <1>1 DEF Targets
    <2>2. speed \in Int /\ drift \in Int /\ bounce \in Int
      OBVIOUS
    <2>3. tgt_lateral' \in Laterals
      BY <2>1, <2>2, <1>n DEF Laterals
    <2>4. Sum(af1c, drift) \in Word /\ Sum(af2c, bounce) \in Word
      BY <2>2, <1>n, SumWord
    <2>5. tgt_af1c' \in Word /\ tgt_af2c' \in Word
      BY <2>1, <2>4 DEF Seamed, TypeOK
    <2>6. si' \in 0 .. SWEEP_STEPS + 1
      BY <1>1 DEF Targets, FirstFraction
    <2>7. from' \in Laterals \X Word \X Word /\ phase' \in Phases
      BY <1>1, <1>p DEF Targets, Phases, Moving
    <2> QED BY <1>1, <2>3, <2>5, <2>6, <2>7 DEF Targets, TypeOK
  <1>2. CASE Looks
    <2>1. si' \in 0 .. SWEEP_STEPS + 1
      BY <1>2 DEF Looks, TypeOK
    <2> QED BY <1>2, <2>1 DEF Looks, TypeOK, tgt
  <1>3. CASE Commits
    <2> DEFINE place == Fraction(ship, Committed(si))
    <2>1. Committed(si) \in Int
      BY <1>n DEF Committed
    <2>2. place[1] \in Laterals /\ place[2] \in Word /\ place[3] \in Word
      BY <2>1, <1>p, FractionPlace
    <2>3. lateral' = place[1] /\ af1c' = place[2] /\ af2c' = place[3]
      BY <1>3 DEF Commits
    <2>4. phase' \in Phases /\ step' \in Int
      BY <1>3 DEF Commits, Phases, Moving
    <2> HIDE DEF place
    <2> QED BY <1>3, <2>2, <2>3, <2>4 DEF Commits, TypeOK, tgt
  <1>4. CASE Along
    <2>1. (lateral + step) % LWORD \in Laterals
      BY <1>n DEF Laterals
    <2>2. lateral' \in Laterals
      BY <1>4, <2>1 DEF Along, AlongNext, TypeOK
    <2>3. step' \in Int
      BY <1>4, <1>n DEF Along
    <2> QED BY <1>4, <2>2, <2>3 DEF Along, TypeOK, tgt
  <1>5. CASE AlongEnds
    <2>1. step' \in Int
      BY <1>5 DEF AlongEnds, Direction
    <2> QED BY <1>5, <2>1 DEF AlongEnds, TypeOK, ship, tgt, Phases, Moving
  <1>6. CASE Across
    <2>1. Sum(af1c, step) \in Word
      BY <1>n, SumWord
    <2>2. af1c' \in Word
      BY <1>6, <2>1 DEF Across, AcrossNext, TypeOK
    <2>3. TruncDiv(step, AXIS_SHRINK) \in Int
      BY <1>n, TruncDivInt
    <2>4. step' \in Int
      BY <1>6, <1>n, <2>3 DEF Across
    <2> QED BY <1>6, <2>2, <2>4 DEF Across, TypeOK, tgt
  <1>7. CASE AcrossEnds
    <2>1. step' \in Int
      BY <1>7 DEF AcrossEnds, Direction
    <2> QED BY <1>7, <2>1 DEF AcrossEnds, TypeOK, ship, tgt, Phases, Moving
  <1>8. CASE Height
    <2>1. Sum(af2c, step) \in Word
      BY <1>n, SumWord
    <2>2. af2c' \in Word
      BY <1>8, <2>1 DEF Height, HeightNext, TypeOK
    <2>3. TruncDiv(step, AXIS_SHRINK) \in Int
      BY <1>n, TruncDivInt
    <2>4. step' \in Int
      BY <1>8, <1>n, <2>3 DEF Height
    <2> QED BY <1>8, <2>2, <2>4 DEF Height, TypeOK, tgt
  <1>9. CASE HeightEnds
    BY <1>9 DEF HeightEnds, TypeOK, ship, tgt, Phases
  <1>10. CASE Response
    <2>1. /\ Sum(af1c, - LATERAL_BUMP_STEP) \in Word
          /\ Sum(af1c, LATERAL_BUMP_STEP) \in Word
      BY <1>n, SumWord
    <2>2. af1c' \in Word
      BY <1>10, <2>1 DEF Response, Aside, TypeOK
    <2>3. af2c' \in Word
      BY <1>10 DEF Response, Clamped, TypeOK, Word, WORD
    <2> QED BY <1>10, <2>2, <2>3 DEF Response, TypeOK, tgt, Phases
  <1>11. CASE UNCHANGED vars
    BY <1>11 DEF vars, TypeOK
  <1> QED
    BY <1>1, <1>2, <1>3, <1>4, <1>5, <1>6, <1>7, <1>8, <1>9, <1>10, <1>11
    DEF Next, Resolve

\* A step that keeps the phase among those of resolve_move, the call's start,
\* the targets and the fraction keeps what the sweep has shown.
LEMMA NoTunnelKept ==
    ASSUME NoTunnel, phase \in Moving, UNCHANGED <<blocked, tgt, si, from>>
    PROVE  NoTunnel'
  <1>1. \A k : Fraction(from, k)' = Fraction(from, k)
    BY DEF tgt, Fraction, PartAlong, Part, Way
  <1> QED BY <1>1 DEF NoTunnel, Free, tgt

\* A round of a refinement moves the ship to a free place or not at all.
LEMMA RoundClear ==
    ASSUME Swept, phase \in Moving \ {"sweep"}, phase' # "sweep",
           UNCHANGED <<blocked, tgt, si, from>>,
           UNCHANGED ship \/ Free(ship')
    PROVE  Swept'
  <1>1. NoTunnel'
    BY NoTunnelKept DEF Swept
  <1>2. StaysClear'
    BY DEF Swept, StaysClear, Free, Moving
  <1> QED BY <1>1, <1>2 DEF Swept

\* Every step keeps what the sweep has shown.
LEMMA SweptStep == IInv /\ [Next]_vars => Swept'
  <1> SUFFICES ASSUME TypeOK, Swept, [Next]_vars PROVE Swept'
    BY DEF IInv
  <1>p. ship \in Laterals \X Word \X Word
    BY DEF TypeOK, ship
  <1>1. CASE Targets
    <2>1. from' = ship /\ ship' = ship /\ blocked' = blocked
      BY <1>1 DEF Targets, ship
    <2>2. \A k \in 1 .. si' - 1 : FALSE
      BY <1>1 DEF Targets, FirstFraction
    <2>3. NoTunnel'
      BY <2>2 DEF NoTunnel
    <2>4. StaysClear'
      BY <2>1 DEF StaysClear, Free
    <2>5. si' >= 1
      BY <1>1 DEF Targets, FirstFraction
    <2> QED BY <2>1, <2>3, <2>4, <2>5 DEF Swept
  <1>2. CASE Looks
    <2>1. ship' = from' /\ ship = from
      BY <1>2 DEF Looks, Swept, ship
    <2>2. \A k : Fraction(from, k)' = Fraction(from, k)
      BY <1>2 DEF Looks, tgt, Fraction, PartAlong, Part, Way
    <2>3. \A k \in 1 .. si - 1 : Free(Fraction(from, k))
      BY <1>2 DEF Looks, Swept, NoTunnel, Moving
    <2>4. Free(Fraction(from, si))
      BY <1>2, <2>1 DEF Looks
    <2>5. si' = si + 1 /\ si \in Int
      BY <1>2 DEF Looks, TypeOK
    <2>6. \A k \in 1 .. si' - 1 : k = si \/ k \in 1 .. si - 1
      BY <2>5
    <2>7. \A k \in 1 .. si' - 1 : Free(Fraction(from, k))
      BY <2>3, <2>4, <2>6
    <2>8. NoTunnel'
      BY <1>2, <2>2, <2>7 DEF Looks, NoTunnel, Free
    <2>9. StaysClear'
      BY <1>2, <2>1 DEF StaysClear
    <2>10. si' >= 1
      BY <1>2, <2>5 DEF Looks, Swept
    <2> QED BY <2>1, <2>8, <2>9, <2>10 DEF Swept
  <1>3. CASE Commits
    <2>1. ship = from
      BY <1>3 DEF Commits, Swept
    <2>2. NoTunnel'
      BY <1>3, NoTunnelKept DEF Commits, Moving, Swept
    <2>3. Free(from) => Free(Fraction(ship, Committed(si)))
      <3>1. si \in Nat /\ Committed(si) = si - 1
        BY DEF TypeOK, Committed
      <3>2. CASE si = 1
        BY <3>1, <3>2, <2>1, <1>p, FractionZero
      <3>3. CASE si > 1
        <4>1. si - 1 \in 1 .. si - 1
          BY <3>1, <3>3
        <4> QED BY <4>1, <3>1, <2>1, <1>3 DEF Commits, Swept, NoTunnel, Moving
      <3>4. si >= 1
        BY <1>3 DEF Commits, Swept
      <3> QED BY <3>1, <3>2, <3>3, <3>4
    <2>4. ship' = Fraction(ship, Committed(si))
      BY <1>3 DEF Commits, ship, Fraction
    <2>5. StaysClear'
      BY <1>3, <2>3, <2>4 DEF Commits, StaysClear, Free
    <2> QED BY <1>3, <2>2, <2>5 DEF Commits, Swept
  <1>4. CASE Along
    <2>1. UNCHANGED ship \/ Free(ship')
      BY <1>4 DEF Along, AlongNext, ship, Free
    <2> QED BY <1>4, <2>1, RoundClear DEF Along, Moving
  <1>5. CASE AlongEnds
    BY <1>5, RoundClear DEF AlongEnds, Moving
  <1>6. CASE Across
    <2>1. UNCHANGED ship \/ Free(ship')
      BY <1>6 DEF Across, AcrossNext, ship, Free
    <2> QED BY <1>6, <2>1, RoundClear DEF Across, Moving
  <1>7. CASE AcrossEnds
    BY <1>7, RoundClear DEF AcrossEnds, Moving
  <1>8. CASE Height
    <2>1. UNCHANGED ship \/ Free(ship')
      BY <1>8 DEF Height, HeightNext, ship, Free
    <2> QED BY <1>8, <2>1, RoundClear DEF Height, Moving
  <1>9. CASE HeightEnds
    BY <1>9, RoundClear DEF HeightEnds, Moving
  <1>10. CASE Response
    <2>1. phase' = "targets"
      BY <1>10 DEF Response
    <2> QED BY <2>1 DEF Swept, NoTunnel, StaysClear, Moving
  <1>11. CASE UNCHANGED vars
    <2>1. \A k : Fraction(from, k)' = Fraction(from, k)
      BY <1>11 DEF vars, Fraction, PartAlong, Part, Way
    <2>2. NoTunnel'
      BY <1>11, <2>1 DEF vars, Swept, NoTunnel, Free
    <2> QED BY <1>11, <2>2 DEF vars, Swept, StaysClear, Free, ship
  <1> QED
    BY <1>1, <1>2, <1>3, <1>4, <1>5, <1>6, <1>7, <1>8, <1>9, <1>10, <1>11
    DEF Next, Resolve

-----------------------------------------------------------------------------
(* What the refinements reach.                                             *)

\* The first steps are on their way down to one.
LEMMA FirstSteps ==
    /\ LAT_REFINE_START > 0 /\ ComesToOne(Abs(LAT_REFINE_START), LAT_SHRINK)
    /\ \A goal, v \in Word :
        /\ Direction(goal, v) # 0
        /\ ComesToOne(Abs(Direction(goal, v)), AXIS_SHRINK)
        /\ Direction(goal, v) > 0 => v <= goal
        /\ Direction(goal, v) < 0 => v >= goal
  <1>1. LAT_REFINE_START \in Nat \ {0} /\ AXIS_REFINE_STEP \in Nat \ {0}
    BY MoveAssumption, StepsAssumption DEF ComesToOne
  <1>2. /\ Abs(LAT_REFINE_START) = LAT_REFINE_START
        /\ Abs(AXIS_REFINE_STEP) = AXIS_REFINE_STEP
        /\ Abs(- AXIS_REFINE_STEP) = AXIS_REFINE_STEP
    BY <1>1 DEF Abs
  <1>3. ASSUME NEW goal \in Word, NEW v \in Word
        PROVE  /\ Direction(goal, v) # 0
               /\ Abs(Direction(goal, v)) = AXIS_REFINE_STEP
               /\ Direction(goal, v) > 0 => v <= goal
               /\ Direction(goal, v) < 0 => v >= goal
    BY <1>1, <1>2 DEF Direction, Word
  <1> QED BY <1>1, <1>2, <1>3, StepsAssumption

\* There is no way left to go only at the goal.
LEMMA NoWayLeft ==
    /\ \A goal, v \in Word : Abs(Way(goal, v)) < 1 => v = goal
    /\ \A goal, v \in Laterals : (goal - v) % LWORD < 1 => v = goal
  <1>1. ASSUME NEW goal \in Word, NEW v \in Word, Abs(Way(goal, v)) < 1
        PROVE  v = goal
    BY <1>1, WayIs, WordNat, MoveAssumption DEF Abs, Word, WORD
  <1>2. ASSUME NEW goal \in Laterals, NEW v \in Laterals, (goal - v) % LWORD < 1
        PROVE  v = goal
    <2>0. /\ goal \in Int /\ 0 <= goal /\ goal < LWORD
          /\ v \in Int /\ 0 <= v /\ v < LWORD /\ LWORD \in Nat \ {0}
      BY MoveAssumption DEF Laterals
    <2>1. goal - v \in Int /\ - LWORD <= goal - v /\ goal - v < LWORD
      BY <2>0
    <2>2. (goal - v) % LWORD = IF goal - v < 0 THEN goal - v + LWORD ELSE goal - v
      BY <2>0, <2>1, ModNear
    <2>3. CASE goal - v < 0
      <3>1. goal - v + LWORD < 1
        BY <1>2, <2>2, <2>3
      <3> QED BY <2>0, <3>1
    <2>4. CASE ~ (goal - v < 0)
      BY <1>2, <2>0, <2>2, <2>4
    <2> QED BY <2>3, <2>4
  <1> QED BY <1>1, <1>2

\* The way along the road.
LEMMA AlongStep == IInv /\ [Next]_vars => AlongRefined'
  <1> SUFFICES ASSUME TypeOK, AlongRefined, [Next]_vars PROVE AlongRefined'
    BY DEF IInv, Refined
  <1>1. CASE Targets
    BY <1>1 DEF Targets, AlongRefined, ship, tgt
  <1>2. CASE Looks
    BY <1>2 DEF Looks, AlongRefined
  <1>3. CASE Commits
    BY <1>3, FirstSteps, MoveAssumption DEF Commits, AlongRefined, Steps
  <1>4. CASE Along
    <2>1. /\ phase = "along" /\ phase' = "along" /\ blocked' = blocked
          /\ tgt_lateral' = tgt_lateral
          /\ step \in Nat \ {0} /\ ComesToOne(step, LAT_SHRINK)
          /\ LAT_SHRINK \in Nat \ {0, 1}
      BY <1>4, MoveAssumption DEF Along, AlongRefined, Steps, Abs, TypeOK, tgt
    <2>2. CASE AlongFits /\ Free(AlongNext)
      BY <1>4, <2>1, <2>2 DEF Along, AlongRefined, Steps, Abs
    <2>3. CASE ~ (AlongFits /\ Free(AlongNext))
      <3>1. step' = step \div LAT_SHRINK /\ lateral' = lateral
        BY <1>4, <2>3 DEF Along
      <3>2. step' >= 0 /\ Steps(LAT_SHRINK)'
        BY <2>1, <3>1, ComesDown DEF Steps, Abs
      <3>3. ASSUME step' = 0, blocked = {} PROVE lateral = tgt_lateral
        <4>1. step = 1
          BY <2>1, <3>1, <3>3, ComesDown
        <4>2. Free(AlongNext)
          BY <3>3 DEF Free
        <4>3. ~ ((tgt_lateral - lateral) % LWORD >= 1)
          BY <2>3, <4>1, <4>2 DEF AlongFits, Fits
        <4>4. /\ tgt_lateral \in Laterals /\ lateral \in Laterals
              /\ (tgt_lateral - lateral) % LWORD \in Int
          BY ModRange, MoveAssumption DEF TypeOK, Laterals
        <4> QED BY <4>3, <4>4, NoWayLeft
      <3> QED BY <2>1, <3>1, <3>2, <3>3 DEF AlongRefined
    <2> QED BY <2>2, <2>3
  <1>5. CASE AlongEnds
    BY <1>5 DEF AlongEnds, AlongRefined, ship, tgt
  <1>6. CASE Across
    BY <1>6 DEF Across, AlongRefined, tgt
  <1>7. CASE AcrossEnds
    BY <1>7 DEF AcrossEnds, AlongRefined, ship, tgt
  <1>8. CASE Height
    BY <1>8 DEF Height, AlongRefined, tgt
  <1>9. CASE HeightEnds
    BY <1>9 DEF HeightEnds, AlongRefined, ship, tgt
  <1>10. CASE Response
    BY <1>10 DEF Response, AlongRefined
  <1>11. CASE UNCHANGED vars
    BY <1>11 DEF vars, AlongRefined, Steps
  <1> QED
    BY <1>1, <1>2, <1>3, <1>4, <1>5, <1>6, <1>7, <1>8, <1>9, <1>10, <1>11
    DEF Next, Resolve

\* The way across the road.
LEMMA AcrossStep == IInv /\ [Next]_vars => AcrossRefined'
  <1> SUFFICES ASSUME TypeOK, AcrossRefined, [Next]_vars PROVE AcrossRefined'
    BY DEF IInv, Refined
  <1>1. CASE Targets
    BY <1>1 DEF Targets, AcrossRefined, ship, tgt
  <1>2. CASE Looks
    BY <1>2 DEF Looks, AcrossRefined
  <1>3. CASE Commits
    BY <1>3 DEF Commits, AcrossRefined
  <1>4. CASE Along
    BY <1>4 DEF Along, AcrossRefined
  <1>5. CASE AlongEnds
    BY <1>5, FirstSteps DEF AlongEnds, AcrossRefined, Steps, Towards, TypeOK, ship, tgt
  <1>6. CASE Across
    <2>1. /\ phase = "across" /\ phase' = "across" /\ blocked' = blocked
          /\ tgt_af1c' = tgt_af1c
          /\ step \in Int /\ step # 0 /\ ComesToOne(Abs(step), AXIS_SHRINK)
          /\ Towards(tgt_af1c, af1c)
          /\ tgt_af1c \in Word /\ af1c \in Word
      BY <1>6 DEF Across, AcrossRefined, Steps, TypeOK, tgt
    <2> DEFINE fits == Fits(Abs(Way(tgt_af1c, af1c)), Abs(step))
    <2>i. /\ Abs(Way(tgt_af1c, af1c)) \in Int /\ Abs(step) \in Int
      BY <2>1, WayInt DEF Abs, Word
    <2>2. CASE fits /\ Free(AcrossNext)
      <3>1. af1c' = Sum(af1c, step) /\ step' = step
        BY <1>6, <2>2 DEF Across, AcrossNext
      <3>2. Towards(tgt_af1c, af1c)'
        BY <2>1, <2>2, <2>i, <3>1, AxisRound DEF Fits, Towards
      <3> QED BY <2>1, <3>1, <3>2 DEF AcrossRefined, Steps
    <2>3. CASE ~ (fits /\ Free(AcrossNext))
      <3>1. step' = TruncDiv(step, AXIS_SHRINK) /\ af1c' = af1c
        BY <1>6, <2>3 DEF Across
      <3>i. step' \in Int
        BY <2>1, <3>1, TruncDivInt, MoveAssumption
      <3>2. Steps(AXIS_SHRINK)' /\ Towards(tgt_af1c, af1c)'
        BY <2>1, <3>1, <3>i, AxisShrinks DEF Steps, Towards
      <3>3. ASSUME step' = 0, blocked = {} PROVE af1c = tgt_af1c
        <4>1. Abs(step) = 1
          BY <2>1, <3>1, <3>3, AxisShrinks
        <4>2. Free(AcrossNext)
          BY <3>3 DEF Free
        <4>3. ~ (Abs(Way(tgt_af1c, af1c)) >= 1)
          BY <2>3, <4>1, <4>2 DEF Fits
        <4> QED BY <2>1, <2>i, <4>3, NoWayLeft
      <3> QED BY <2>1, <3>1, <3>2, <3>3 DEF AcrossRefined
    <2> QED BY <2>2, <2>3
  <1>7. CASE AcrossEnds
    BY <1>7 DEF AcrossEnds, AcrossRefined, ship, tgt
  <1>8. CASE Height
    BY <1>8 DEF Height, AcrossRefined, tgt
  <1>9. CASE HeightEnds
    BY <1>9 DEF HeightEnds, AcrossRefined, ship, tgt
  <1>10. CASE Response
    BY <1>10 DEF Response, AcrossRefined
  <1>11. CASE UNCHANGED vars
    BY <1>11 DEF vars, AcrossRefined, Steps, Towards
  <1> QED
    BY <1>1, <1>2, <1>3, <1>4, <1>5, <1>6, <1>7, <1>8, <1>9, <1>10, <1>11
    DEF Next, Resolve

\* The height: what refuses the last step of one is the block beside the ship.
LEMMA HeightStep == IInv /\ [Next]_vars => HeightRefined'
  <1> SUFFICES ASSUME TypeOK, HeightRefined, [Next]_vars PROVE HeightRefined'
    BY DEF IInv, Refined
  <1>1. CASE Targets
    BY <1>1 DEF Targets, HeightRefined, Contact, ship, tgt
  <1>2. CASE Looks
    BY <1>2 DEF Looks, HeightRefined
  <1>3. CASE Commits
    BY <1>3 DEF Commits, HeightRefined
  <1>4. CASE Along
    BY <1>4 DEF Along, HeightRefined
  <1>5. CASE AlongEnds
    BY <1>5 DEF AlongEnds, HeightRefined
  <1>6. CASE Across
    BY <1>6 DEF Across, HeightRefined
  <1>7. CASE AcrossEnds
    BY <1>7, FirstSteps DEF AcrossEnds, HeightRefined, Steps, Towards, TypeOK, ship, tgt
  <1>8. CASE Height
    <2>1. /\ phase = "height" /\ phase' = "height" /\ blocked' = blocked
          /\ tgt_af2c' = tgt_af2c /\ lateral' = lateral /\ af1c' = af1c
          /\ step \in Int /\ step # 0 /\ ComesToOne(Abs(step), AXIS_SHRINK)
          /\ Towards(tgt_af2c, af2c)
          /\ tgt_af2c \in Word /\ af2c \in Word
      BY <1>8 DEF Height, HeightRefined, Steps, TypeOK, tgt
    <2> DEFINE fits == Fits(Abs(Way(tgt_af2c, af2c)), Abs(step))
    <2>i. /\ Abs(Way(tgt_af2c, af2c)) \in Int /\ Abs(step) \in Int
      BY <2>1, WayInt DEF Abs, Word
    <2>2. CASE fits /\ Free(HeightNext)
      <3>1. af2c' = Sum(af2c, step) /\ step' = step
        BY <1>8, <2>2 DEF Height, HeightNext
      <3>2. Towards(tgt_af2c, af2c)'
        BY <2>1, <2>2, <2>i, <3>1, AxisRound DEF Fits, Towards
      <3> QED BY <2>1, <3>1, <3>2 DEF HeightRefined, Steps
    <2>3. CASE ~ (fits /\ Free(HeightNext))
      <3>1. step' = TruncDiv(step, AXIS_SHRINK) /\ af2c' = af2c
        BY <1>8, <2>3 DEF Height
      <3>i. step' \in Int
        BY <2>1, <3>1, TruncDivInt, MoveAssumption
      <3>2. Steps(AXIS_SHRINK)' /\ Towards(tgt_af2c, af2c)'
        BY <2>1, <3>1, <3>i, AxisShrinks DEF Steps, Towards
      <3>3. ASSUME step' = 0, af2c # tgt_af2c
            PROVE  \/ af2c < tgt_af2c /\ ~Free(<<lateral, af1c, Sum(af2c, 1)>>)
                   \/ af2c > tgt_af2c /\ ~Free(<<lateral, af1c, Sum(af2c, -1)>>)
        <4>1. Abs(step) = 1
          BY <2>1, <3>1, <3>3, AxisShrinks
        <4>2. step = 1 \/ step = -1
          BY <2>1, <4>1 DEF Abs
        <4>3. Abs(Way(tgt_af2c, af2c)) >= 1
          BY <2>1, <2>i, <3>3, NoWayLeft
        <4>4. ~ Free(<<lateral, af1c, Sum(af2c, step)>>)
          BY <2>3, <4>1, <4>3 DEF Fits, HeightNext
        <4>5. af2c \in Int /\ tgt_af2c \in Int
          BY <2>1 DEF Word
        <4>6. CASE step = 1
          BY <2>1, <3>3, <4>4, <4>5, <4>6 DEF Towards
        <4>7. CASE step = -1
          BY <2>1, <3>3, <4>4, <4>5, <4>7 DEF Towards
        <4> QED BY <4>2, <4>6, <4>7
      <3>4. step' = 0 => Contact'
        BY <2>1, <3>1, <3>3 DEF Contact, Free
      <3> QED BY <2>1, <3>2, <3>4 DEF HeightRefined
    <2> QED BY <2>2, <2>3
  <1>9. CASE HeightEnds
    BY <1>9 DEF HeightEnds, HeightRefined, Contact, Free, ship, tgt
  <1>10. CASE Response
    BY <1>10 DEF Response, HeightRefined
  <1>11. CASE UNCHANGED vars
    BY <1>11 DEF vars, HeightRefined, Steps, Towards, Contact, Free
  <1> QED
    BY <1>1, <1>2, <1>3, <1>4, <1>5, <1>6, <1>7, <1>8, <1>9, <1>10, <1>11
    DEF Next, Resolve

-----------------------------------------------------------------------------
(* The way of a ship.                                                      *)

OnRoad == tgt_lateral - from[1] \in ShortAlong => Between(from[1], lateral, tgt_lateral)
OnAcross == Short(from[2], tgt_af1c) => Between(from[2], af1c, tgt_af1c)
OnHeight == Short(from[3], tgt_af2c) => Between(from[3], af2c, tgt_af2c)

\* A step between the ship and the goal stays on the way.
LEMMA OnWayRound ==
    ASSUME NEW goal \in Word, NEW v \in Word, NEW a \in Word, NEW d \in Int, d # 0,
           d > 0 => v <= goal, d < 0 => v >= goal,
           Abs(d) <= Abs(Way(goal, v)), Between(a, v, goal)
    PROVE  Between(a, Sum(v, d), goal)
  <1>1. /\ Sum(v, d) = v + d
        /\ d > 0 => v + d <= goal
        /\ d < 0 => v + d >= goal
    BY AxisRound
  <1> QED BY <1>1 DEF Between, Word

\* A ship on its way along, across and up stays on it.
LEMMA OnWayStep == IInv /\ [Next]_vars => StaysOnWay'
  <1> SUFFICES ASSUME IInv, [Next]_vars PROVE StaysOnWay'
    OBVIOUS
  <1>t. /\ lateral \in Laterals /\ af1c \in Word /\ af2c \in Word
        /\ tgt_lateral \in Laterals /\ tgt_af1c \in Word /\ tgt_af2c \in Word
        /\ from[1] \in Laterals /\ from[2] \in Word /\ from[3] \in Word
        /\ step \in Int /\ si \in 0 .. SWEEP_STEPS + 1
    BY DEF IInv, TypeOK
  <1>w. phase \in Moving \cup {"response"} => OnRoad /\ OnAcross /\ OnHeight
    BY DEF IInv, StaysOnWay, OnRoad, OnAcross, OnHeight, ShortAlong
  <1>p. (OnRoad /\ OnAcross /\ OnHeight)' => StaysOnWay'
    BY DEF StaysOnWay, OnRoad, OnAcross, OnHeight, ShortAlong
  <1>1. CASE Targets
    <2>1. from' = ship /\ lateral' = lateral /\ af1c' = af1c /\ af2c' = af2c
      BY <1>1 DEF Targets
    <2>2. from'[1] = lateral /\ from'[2] = af1c /\ from'[3] = af2c
      BY <2>1 DEF ship
    <2>3. tgt_lateral' \in Int /\ tgt_af1c' \in Int /\ tgt_af2c' \in Int
      BY TypeStep DEF IInv, TypeOK, Laterals, Word
    <2>4. lateral \in Int /\ af1c \in Int /\ af2c \in Int
      BY <1>t DEF Laterals, Word
    <2>5. \A a, b \in Int : Between(a, a, b)
      BY DEF Between
    <2> QED BY <1>p, <2>1, <2>2, <2>3, <2>4, <2>5 DEF OnRoad, OnAcross, OnHeight
  <1>2. CASE Looks
    BY <1>2, <1>p, <1>w DEF Looks, OnRoad, OnAcross, OnHeight, tgt, Moving
  <1>3. CASE Commits
    <2>1. /\ from' = from /\ tgt_lateral' = tgt_lateral
          /\ tgt_af1c' = tgt_af1c /\ tgt_af2c' = tgt_af2c
          /\ from[1] = lateral /\ from[2] = af1c /\ from[3] = af2c
      BY <1>3 DEF Commits, IInv, Swept, ship, tgt
    <2> DEFINE k == Committed(si)
    <2>2. k \in 0 .. SWEEP_STEPS
      BY <1>3, <1>t, MoveAssumption DEF Commits, IInv, Swept, Committed
    <2>3. /\ lateral' = (lateral + PartAlong(tgt_lateral, lateral, k)) % LWORD
          /\ af1c' = Sum(af1c, Part(tgt_af1c, af1c, k))
          /\ af2c' = Sum(af2c, Part(tgt_af2c, af2c, k))
      BY <1>3 DEF Commits, Fraction, ship
    <2> HIDE DEF k
    <2>4. OnRoad'
      BY <1>t, <2>1, <2>2, <2>3, PartOnRoad DEF OnRoad
    <2>5. OnAcross' /\ OnHeight'
      BY <1>t, <2>1, <2>2, <2>3, PartOnWay DEF OnAcross, OnHeight
    <2> QED BY <1>p, <2>4, <2>5
  <1>4. CASE Along
    <2>1. /\ UNCHANGED <<from, tgt_lateral, tgt_af1c, tgt_af2c, af1c, af2c>>
          /\ phase = "along" /\ step >= 0
      BY <1>4 DEF Along, tgt, IInv, Refined, AlongRefined
    <2>2. OnAcross' /\ OnHeight'
      BY <1>w, <2>1 DEF OnAcross, OnHeight, Moving
    <2>3. CASE lateral' = lateral
      BY <1>p, <1>w, <2>1, <2>2, <2>3 DEF OnRoad, Moving
    <2>4. CASE lateral' # lateral
      <3>1. /\ lateral' = (lateral + step) % LWORD
            /\ (tgt_lateral - lateral) % LWORD >= step
        BY <1>4, <2>4 DEF Along, AlongNext, AlongFits, Fits
      <3>2. ASSUME tgt_lateral - from[1] \in ShortAlong
            PROVE  Between(from[1], lateral', tgt_lateral)
        <4>1. /\ lateral \in Int /\ tgt_lateral \in Int /\ from[1] \in Int
              /\ 0 <= lateral /\ 0 <= from[1] /\ tgt_lateral < LWORD
              /\ LWORD \in Nat \ {0}
          BY <1>t, MoveAssumption DEF Laterals
        <4>2. from[1] <= tgt_lateral
          BY <3>2, <4>1 DEF ShortAlong
        <4>3. from[1] <= lateral /\ lateral <= tgt_lateral
          BY <1>w, <2>1, <3>2, <4>1, <4>2 DEF OnRoad, Between, Moving
        <4>4. (tgt_lateral - lateral) % LWORD = tgt_lateral - lateral
          BY <4>1, <4>3, ModNear
        <4>5. lateral + step <= tgt_lateral
          BY <1>t, <3>1, <4>1, <4>4
        <4>6. (lateral + step) % LWORD = lateral + step
          BY <1>t, <2>1, <4>1, <4>5, ModNear
        <4> QED BY <1>t, <2>1, <3>1, <4>1, <4>3, <4>5, <4>6 DEF Between
      <3> QED BY <1>p, <2>1, <2>2, <3>2 DEF OnRoad
    <2> QED BY <2>3, <2>4
  <1>5. CASE AlongEnds
    BY <1>5, <1>p, <1>w DEF AlongEnds, OnRoad, OnAcross, OnHeight, ship, tgt, Moving
  <1>6. CASE Across
    <2>1. /\ UNCHANGED <<from, tgt_lateral, tgt_af1c, tgt_af2c, lateral, af2c>>
          /\ phase = "across" /\ step # 0 /\ Towards(tgt_af1c, af1c)
      BY <1>6 DEF Across, tgt, IInv, Refined, AcrossRefined
    <2>2. OnRoad' /\ OnHeight'
      BY <1>w, <2>1 DEF OnRoad, OnHeight, Moving
    <2>3. CASE af1c' = af1c
      BY <1>p, <1>w, <2>1, <2>2, <2>3 DEF OnAcross, Moving
    <2>4. CASE af1c' # af1c
      <3>1. af1c' = Sum(af1c, step) /\ Abs(Way(tgt_af1c, af1c)) >= Abs(step)
        BY <1>6, <2>4 DEF Across, AcrossNext, Fits
      <3>2. Abs(step) <= Abs(Way(tgt_af1c, af1c))
        BY <1>t, <3>1, WayInt DEF Abs, Word
      <3>3. OnAcross'
        BY <1>t, <1>w, <2>1, <3>1, <3>2, OnWayRound DEF OnAcross, Towards, Moving
      <3> QED BY <1>p, <2>2, <3>3
    <2> QED BY <2>3, <2>4
  <1>7. CASE AcrossEnds
    BY <1>7, <1>p, <1>w DEF AcrossEnds, OnRoad, OnAcross, OnHeight, ship, tgt, Moving
  <1>8. CASE Height
    <2>1. /\ UNCHANGED <<from, tgt_lateral, tgt_af1c, tgt_af2c, lateral, af1c>>
          /\ phase = "height" /\ step # 0 /\ Towards(tgt_af2c, af2c)
      BY <1>8 DEF Height, tgt, IInv, Refined, HeightRefined
    <2>2. OnRoad' /\ OnAcross'
      BY <1>w, <2>1 DEF OnRoad, OnAcross, Moving
    <2>3. CASE af2c' = af2c
      BY <1>p, <1>w, <2>1, <2>2, <2>3 DEF OnHeight, Moving
    <2>4. CASE af2c' # af2c
      <3>1. af2c' = Sum(af2c, step) /\ Abs(Way(tgt_af2c, af2c)) >= Abs(step)
        BY <1>8, <2>4 DEF Height, HeightNext, Fits
      <3>2. Abs(step) <= Abs(Way(tgt_af2c, af2c))
        BY <1>t, <3>1, WayInt DEF Abs, Word
      <3>3. OnHeight'
        BY <1>t, <1>w, <2>1, <3>1, <3>2, OnWayRound DEF OnHeight, Towards, Moving
      <3> QED BY <1>p, <2>2, <3>3
    <2> QED BY <2>3, <2>4
  <1>9. CASE HeightEnds
    BY <1>9, <1>p, <1>w DEF HeightEnds, OnRoad, OnAcross, OnHeight, ship, tgt, Moving
  <1>10. CASE Response
    BY <1>10 DEF Response, StaysOnWay, Moving
  <1>11. CASE UNCHANGED vars
    BY <1>11 DEF vars, IInv, StaysOnWay
  <1> QED
    BY <1>1, <1>2, <1>3, <1>4, <1>5, <1>6, <1>7, <1>8, <1>9, <1>10, <1>11
    DEF Next, Resolve

-----------------------------------------------------------------------------
(* Why a call of resolve_move ends.                                        *)

\* The loops still to come.
Loops ==
    CASE phase = "sweep" -> 4 [] phase = "along" -> 3 [] phase = "across" -> 2
      [] phase = "height" -> 1 [] OTHER -> 0

\* The fractions still to look at, or the step still to divide.
Size == IF phase = "sweep" THEN SWEEP_STEPS + 1 - si ELSE Abs(step)

\* The way still to go on the axis that is refined.
Room ==
    CASE phase = "along" -> (tgt_lateral - lateral) % LWORD
      [] phase = "across" -> Abs(tgt_af1c - af1c)
      [] OTHER -> Abs(tgt_af2c - af2c)

\* The three together, in this order, come down.
ComesNearer ==
    \/ Loops' < Loops
    \/ Loops' = Loops /\ Size' < Size
    \/ Loops' = Loops /\ Size' = Size /\ Room' < Room

Bounded == Loops \in Nat /\ Size \in Nat /\ Room \in Nat

\* None of the three goes below zero.
LEMMA NeverBelow == TypeOK => Bounded
  <1> SUFFICES ASSUME TypeOK PROVE Bounded
    OBVIOUS
  <1>1. /\ lateral \in Int /\ af1c \in Int /\ af2c \in Int
        /\ tgt_lateral \in Int /\ tgt_af1c \in Int /\ tgt_af2c \in Int
        /\ step \in Int /\ si \in 0 .. SWEEP_STEPS + 1
    BY MoveAssumption DEF TypeOK, Laterals, Word
  <1>2. Loops \in Nat
    BY DEF Loops
  <1>3. Size \in Nat
    BY <1>1, MoveAssumption DEF Size, Abs
  <1>4. (tgt_lateral - lateral) % LWORD \in Nat
    BY <1>1, MoveAssumption, ModRange
  <1>5. Abs(tgt_af1c - af1c) \in Nat /\ Abs(tgt_af2c - af2c) \in Nat
    BY <1>1 DEF Abs
  <1> QED BY <1>2, <1>3, <1>4, <1>5 DEF Bounded, Room

\* A round of an axis goes nearer or takes a shorter step.
LEMMA AxisNearer ==
    ASSUME NEW goal \in Word, NEW v \in Word, NEW d \in Int, d # 0,
           ComesToOne(Abs(d), AXIS_SHRINK),
           d > 0 => v <= goal, d < 0 => v >= goal
    PROVE  /\ Abs(d) <= Abs(Way(goal, v)) => Abs(goal - Sum(v, d)) < Abs(goal - v)
           /\ Abs(TruncDiv(d, AXIS_SHRINK)) < Abs(d)
  <1>1. goal \in Int /\ v \in Int
    BY DEF Word
  <1>2. Abs(d) <= Abs(Way(goal, v)) => Abs(goal - Sum(v, d)) < Abs(goal - v)
    BY <1>1, AxisRound DEF Abs
  <1>3. Abs(d) \in Nat \ {0} /\ AXIS_SHRINK \in Nat \ {0, 1}
    BY MoveAssumption DEF Abs
  <1> DEFINE q == Abs(d) \div AXIS_SHRINK
  <1>4. q \in Nat /\ q < Abs(d)
    BY <1>3, DivShorter
  <1>5. TruncDiv(d, AXIS_SHRINK) = IF d < 0 THEN - q ELSE q
    BY DEF TruncDiv, Abs
  <1> HIDE DEF q
  <1>6. Abs(TruncDiv(d, AXIS_SHRINK)) = q
    BY <1>4, <1>5 DEF Abs
  <1> QED BY <1>2, <1>4, <1>6

\* A round along the road goes nearer.
LEMMA AlongNearer ==
    ASSUME NEW goal \in Laterals, NEW v \in Laterals, NEW d \in Nat \ {0},
           (goal - v) % LWORD >= d
    PROVE  (goal - ((v + d) % LWORD)) % LWORD < (goal - v) % LWORD
  <1>1. /\ goal \in Int /\ v \in Int /\ 0 <= goal /\ goal < LWORD /\ 0 <= v /\ v < LWORD
        /\ LWORD \in Nat \ {0}
    BY MoveAssumption DEF Laterals
  <1>2. CASE v <= goal
    <2>1. (goal - v) % LWORD = goal - v
      BY <1>1, <1>2, ModNear
    <2>2. v + d <= goal
      BY <1>1, <2>1
    <2>3. (v + d) % LWORD = v + d
      BY <1>1, <2>2, ModNear
    <2>4. (goal - (v + d)) % LWORD = goal - (v + d)
      BY <1>1, <2>2, ModNear
    <2> QED BY <1>1, <2>1, <2>3, <2>4
  <1>3. CASE v > goal
    <2>1. (goal - v) % LWORD = goal - v + LWORD
      BY <1>1, <1>3, ModNear
    <2>2. v + d <= goal + LWORD
      BY <1>1, <2>1
    <2>3. CASE v + d < LWORD
      <3>1. (v + d) % LWORD = v + d
        BY <1>1, <2>3, ModNear
      <3>2. (goal - (v + d)) % LWORD = goal - (v + d) + LWORD
        BY <1>1, <1>3, <2>3, ModNear
      <3> QED BY <1>1, <2>1, <3>1, <3>2
    <2>4. CASE v + d >= LWORD
      <3>0. PICK x \in Int : x = v + d /\ LWORD <= x /\ x < LWORD + LWORD
        BY <1>1, <2>2, <2>4
      <3>a. x % LWORD = x - LWORD
        BY <1>1, <3>0, ModOver
      <3>1. (v + d) % LWORD = v + d - LWORD
        BY <1>1, <3>0, <3>a
      <3>2. (goal - (v + d - LWORD)) % LWORD = goal - (v + d - LWORD)
        BY <1>1, <2>2, <2>4, ModNear
      <3> QED BY <1>1, <2>1, <3>1, <3>2
    <2> QED BY <1>1, <2>3, <2>4
  <1> QED BY <1>1, <1>2, <1>3

\* Each round of resolve_move comes nearer to its end.
LEMMA ResolveNearer ==
    ASSUME IInv, Resolve
    PROVE  ComesNearer
  <1> USE DEF IInv, Refined
  <1>1. CASE Looks
    <2>1. /\ phase = "sweep" /\ phase' = "sweep" /\ si' = si + 1
          /\ si \in Int
      BY <1>1 DEF Looks, TypeOK
    <2>2. Loops' = Loops /\ Size' < Size
      BY <2>1, MoveAssumption DEF Loops, Size
    <2> QED BY <2>2 DEF ComesNearer
  <1>2. CASE Commits
    BY <1>2 DEF Commits, Loops, ComesNearer
  <1>3. CASE AlongEnds
    BY <1>3 DEF AlongEnds, Loops, ComesNearer
  <1>4. CASE AcrossEnds
    BY <1>4 DEF AcrossEnds, Loops, ComesNearer
  <1>5. CASE HeightEnds
    BY <1>5 DEF HeightEnds, Loops, ComesNearer
  <1>6. CASE Along
    <2>1. /\ phase = "along" /\ phase' = "along" /\ tgt_lateral' = tgt_lateral
          /\ step \in Nat \ {0} /\ LAT_SHRINK \in Nat \ {0, 1}
          /\ tgt_lateral \in Laterals /\ lateral \in Laterals
      BY <1>6, MoveAssumption DEF Along, AlongRefined, TypeOK, tgt
    <2>2. CASE AlongFits /\ Free(AlongNext)
      <3>1. lateral' = (lateral + step) % LWORD /\ step' = step
        BY <1>6, <2>2 DEF Along, AlongNext
      <3>2. (tgt_lateral - lateral) % LWORD >= step
        BY <2>2 DEF AlongFits, Fits
      <3>n. (tgt_lateral - ((lateral + step) % LWORD)) % LWORD
                < (tgt_lateral - lateral) % LWORD
        BY <2>1, <3>2, AlongNearer
      <3>r. /\ Room = (tgt_lateral - lateral) % LWORD
            /\ Room' = (tgt_lateral - ((lateral + step) % LWORD)) % LWORD
        BY <2>1, <3>1 DEF Room
      <3>3. Room' < Room
        BY <3>n, <3>r
      <3> QED BY <2>1, <3>1, <3>3 DEF ComesNearer, Loops, Size
    <2>3. CASE ~ (AlongFits /\ Free(AlongNext))
      <3>1. step' = step \div LAT_SHRINK
        BY <1>6, <2>3 DEF Along
      <3>2. step' \in Nat /\ step' < step
        BY <2>1, <3>1, DivShorter
      <3>3. Size = step /\ Size' = step'
        <4>1. Size = Abs(step) /\ Size' = Abs(step')
          BY <2>1 DEF Size
        <4>2. Abs(step) = step /\ Abs(step') = step'
          BY <2>1, <3>2, AbsOfNat
        <4> QED BY <4>1, <4>2
      <3>4. Size' < Size
        BY <3>2, <3>3
      <3> QED BY <2>1, <3>4 DEF ComesNearer, Loops
    <2> QED BY <2>2, <2>3
  <1>7. CASE Across
    <2>1. /\ phase = "across" /\ phase' = "across" /\ tgt_af1c' = tgt_af1c
          /\ step \in Int /\ step # 0 /\ ComesToOne(Abs(step), AXIS_SHRINK)
          /\ Towards(tgt_af1c, af1c)
          /\ tgt_af1c \in Word /\ af1c \in Word
      BY <1>7 DEF Across, AcrossRefined, Steps, TypeOK, tgt
    <2>2. /\ Abs(Way(tgt_af1c, af1c)) \in Int /\ Abs(step) \in Int
      BY <2>1, WayInt DEF Abs, Word
    <2> DEFINE fits == Fits(Abs(Way(tgt_af1c, af1c)), Abs(step))
    <2>3. CASE fits /\ Free(AcrossNext)
      <3>1. af1c' = Sum(af1c, step) /\ step' = step
        BY <1>7, <2>3 DEF Across, AcrossNext
      <3>2. Abs(tgt_af1c - Sum(af1c, step)) < Abs(tgt_af1c - af1c)
        BY <2>1, <2>2, <2>3, AxisNearer DEF Fits, Towards
      <3>3. Room' < Room
        BY <2>1, <3>1, <3>2 DEF Room
      <3> QED BY <2>1, <3>1, <3>3 DEF ComesNearer, Loops, Size
    <2>4. CASE ~ (fits /\ Free(AcrossNext))
      <3>1. step' = TruncDiv(step, AXIS_SHRINK)
        BY <1>7, <2>4 DEF Across
      <3>2. Abs(step') < Abs(step)
        BY <2>1, <3>1, AxisNearer DEF Towards
      <3>3. Size' < Size
        BY <2>1, <3>2 DEF Size
      <3> QED BY <2>1, <3>3 DEF ComesNearer, Loops
    <2> QED BY <2>3, <2>4
  <1>8. CASE Height
    <2>1. /\ phase = "height" /\ phase' = "height" /\ tgt_af2c' = tgt_af2c
          /\ step \in Int /\ step # 0 /\ ComesToOne(Abs(step), AXIS_SHRINK)
          /\ Towards(tgt_af2c, af2c)
          /\ tgt_af2c \in Word /\ af2c \in Word
      BY <1>8 DEF Height, HeightRefined, Steps, TypeOK, tgt
    <2>2. /\ Abs(Way(tgt_af2c, af2c)) \in Int /\ Abs(step) \in Int
      BY <2>1, WayInt DEF Abs, Word
    <2> DEFINE fits == Fits(Abs(Way(tgt_af2c, af2c)), Abs(step))
    <2>3. CASE fits /\ Free(HeightNext)
      <3>1. af2c' = Sum(af2c, step) /\ step' = step
        BY <1>8, <2>3 DEF Height, HeightNext
      <3>2. Abs(tgt_af2c - Sum(af2c, step)) < Abs(tgt_af2c - af2c)
        BY <2>1, <2>2, <2>3, AxisNearer DEF Fits, Towards
      <3>3. Room' < Room
        BY <2>1, <3>1, <3>2 DEF Room
      <3> QED BY <2>1, <3>1, <3>3 DEF ComesNearer, Loops, Size
    <2>4. CASE ~ (fits /\ Free(HeightNext))
      <3>1. step' = TruncDiv(step, AXIS_SHRINK)
        BY <1>8, <2>4 DEF Height
      <3>2. Abs(step') < Abs(step)
        BY <2>1, <3>1, AxisNearer DEF Towards
      <3>3. Size' < Size
        BY <2>1, <3>2 DEF Size
      <3> QED BY <2>1, <3>3 DEF ComesNearer, Loops
    <2> QED BY <2>3, <2>4
  <1> QED
    BY <1>1, <1>2, <1>3, <1>4, <1>5, <1>6, <1>7, <1>8 DEF Resolve

-----------------------------------------------------------------------------
(* The theorems.                                                           *)

\* The types and what the sweep has shown hold of every state.
THEOREM Safety == Spec => []IInv
  <1>1. IInv /\ [Next]_vars => IInv'
    BY TypeStep, SweptStep, AlongStep, AcrossStep, HeightStep, OnWayStep
    DEF IInv, Refined
  <1> QED BY InitIInv, <1>1, PTL DEF Spec

\* The accumulators stay words and a lateral position one of its values, on
\* every road and whatever overflows on the way.
THEOREM TypeCorrect == Spec => []TypeOK
  <1>1. IInv => TypeOK
    BY DEF IInv
  <1> QED BY Safety, <1>1, PTL

\* resolve_move takes no ship that was clear of the blocks into one.
THEOREM NeverIntoBlock == Spec => []StaysClear
  <1>1. IInv => StaysClear
    BY DEF IInv, Swept
  <1> QED BY Safety, <1>1, PTL

\* resolve_move passes no block that a fraction of the way shows.
THEOREM NeverThroughBlock == Spec => []NoTunnel
  <1>1. IInv => NoTunnel
    BY DEF IInv, Swept
  <1> QED BY Safety, <1>1, PTL

\* Without an obstacle the ship arrives where it was asked to go, whatever
\* overflowed or was rounded in the sweep: the refinements make up for it.
THEOREM ArrivesWhereAsked == Spec => []ArrivesUnhindered
  <1>1. IInv => ArrivesUnhindered
    <2> SUFFICES ASSUME IInv, phase = "response", blocked = {} PROVE ship = tgt
      BY DEF ArrivesUnhindered
    <2>1. lateral = tgt_lateral /\ af1c = tgt_af1c
      BY DEF IInv, Refined, AlongRefined, AcrossRefined
    <2>2. af2c = tgt_af2c
      BY DEF IInv, Refined, HeightRefined, Contact, Free
    <2> QED BY <2>1, <2>2 DEF ship, tgt
  <1> QED BY Safety, <1>1, PTL

\* A ship that did not reach its height rests on a block, or under one.
THEOREM ContactHolds == Spec => []RestsAtContact
  <1>1. IInv => RestsAtContact
    BY DEF IInv, Refined, HeightRefined, Contact, RestsAtContact
  <1> QED BY Safety, <1>1, PTL

\* Every round of resolve_move comes nearer to its end, and none can go on for
\* ever: what MoveReturns needs besides the fairness of the rounds.
THEOREM MovesComeDown == Spec => [][Resolve => ComesNearer /\ Bounded /\ Bounded']_vars
  <1>1. TypeOK /\ [Next]_vars => TypeOK'
    BY TypeStep
  <1>2. TypeOK' => Bounded'
    BY NeverBelow, PTL
  <1>3. IInv /\ [Next]_vars => [Resolve => ComesNearer /\ Bounded /\ Bounded']_vars
    <2> SUFFICES ASSUME IInv, [Next]_vars, Resolve
                 PROVE  ComesNearer /\ Bounded /\ Bounded'
      OBVIOUS
    <2>1. ComesNearer
      BY ResolveNearer
    <2>2. TypeOK /\ TypeOK'
      BY <1>1 DEF IInv
    <2>3. Bounded /\ Bounded'
      BY <1>2, <2>2, NeverBelow
    <2> QED BY <2>1, <2>3
  <1> QED BY Safety, <1>3, PTL DEF Spec

\* A short way leaves the ship between where it was and where it was to go.
THEOREM NeverOffWay == Spec => []StaysOnWay
  <1>1. IInv => StaysOnWay
    BY DEF IInv
  <1> QED BY Safety, <1>1, PTL
=============================================================================
