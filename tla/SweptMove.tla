----------------------------- MODULE SweptMove -----------------------------
(***************************************************************************)
(* One ship among the blocks of a road: the part of a gameplay body that   *)
(* moves it (skyroads/handrecovered/physics.py, movement.py and the        *)
(* responses of collision_response.py that move it again).                 *)
(*                                                                         *)
(* compute_movement_targets asks for a place; resolve_move looks at the    *)
(* fractions of the way, goes to the last one before the first that is     *)
(* blocked, and from there feels its way along one axis after the other    *)
(* with steps that shrink.  A loop of the code is a phase here, a round of *)
(* it a step.                                                              *)
(*                                                                         *)
(* A place is a lateral position (the way along the road), an af1c (across *)
(* it) and an af2c (the height).  The last two are words that wrap, and    *)
(* their order is unsigned in one place and circular in another.           *)
(***************************************************************************)
EXTENDS Integers

CONSTANTS
    HALF,               \* half the values of a word (0x8000)
    LWORD,              \* the values of a lateral position (2^32)
    SWEEP_STEPS,        \* fractions of the way that are looked at (5)
    LAT_REFINE_START,   \* first step along the road (0x1000) ...
    LAT_SHRINK,         \* ... and its divisor (16)
    AXIS_REFINE_STEP,   \* first step on another axis (125) ...
    AXIS_SHRINK,        \* ... and its divisor (5)
    AF1C_WRAP_LOW,      \* the seam no frame may cross (0x2F80, 0xD080)
    AF1C_WRAP_HIGH,
    LATERAL_BUMP_STEP,  \* how far a bump moves the ship aside (0x3A0)
    Roads,              \* the roads considered: sets of blocked places
    Speeds,             \* ship_pos: the way along the road in a frame
    Drifts,             \* the way across in a frame, before the seam
    Bounces,            \* the vertical speeds
    RoadEnd             \* bound: the last lateral position of a road

WORD == 2 * HALF
Word == 0 .. WORD - 1
Laterals == 0 .. LWORD - 1

ASSUME MoveAssumption ==
    /\ HALF \in Nat \ {0} /\ LWORD \in Nat \ {0} /\ SWEEP_STEPS \in Nat \ {0}
    /\ LAT_REFINE_START \in Nat /\ LAT_SHRINK \in Nat \ {0, 1}
    /\ AXIS_REFINE_STEP \in Nat /\ AXIS_SHRINK \in Nat \ {0, 1}
    /\ AF1C_WRAP_LOW \in Nat /\ AF1C_WRAP_HIGH \in Nat
    /\ LATERAL_BUMP_STEP \in Nat
    /\ Speeds \subseteq Nat /\ Drifts \subseteq Int /\ Bounces \subseteq Int
    /\ RoadEnd \in Laterals

\* A step that is divided again and again is one before it is nothing: 0x1000
\* is a power of 16, and 125 of 5.
ComesToOne(first, divisor) ==
    \E steps \in SUBSET (1 .. first) :
        first \in steps /\ \A s \in steps : s = 1 \/ s \div divisor \in steps

ASSUME StepsAssumption ==
    /\ ComesToOne(LAT_REFINE_START, LAT_SHRINK)
    /\ ComesToOne(AXIS_REFINE_STEP, AXIS_SHRINK)

VARIABLES
    blocked,                             \* the places visible() answers for
    lateral, af1c, af2c,                 \* the ship
    tgt_lateral, tgt_af1c, tgt_af2c,     \* where it is asked to go
    phase,                               \* what comes next: see Phases
    si,                                  \* the fraction looked at
    step,                                \* the step of the refinement
    from                                 \* history: the ship at the call

ship == <<lateral, af1c, af2c>>
tgt == <<tgt_lateral, tgt_af1c, tgt_af2c>>
vars == <<blocked, lateral, af1c, af2c, tgt_lateral, tgt_af1c, tgt_af2c,
          phase, si, step, from>>

\* The targets; the loops of resolve_move; the responses.
Moving == {"sweep", "along", "across", "height"}
Phases == {"targets", "response"} \cup Moving

Free(place) == place \notin blocked

-----------------------------------------------------------------------------
(* The arithmetic of the 8086.                                             *)

S16(v) == IF v < HALF THEN v ELSE v - WORD
S32(v) == IF 2 * v < LWORD THEN v ELSE v - LWORD
Abs(v) == IF v < 0 THEN - v ELSE v

\* Bug: the quotient is rounded down, as // does.
FloorDiv(a, b) == a \div b

\* idiv: the quotient of magnitudes, with the sign put back.
TruncDiv(a, b) == IF a < 0 THEN - ((- a) \div b) ELSE a \div b

\* Bug: the sum is not cut to a word.
SumWide(v, d) == v + d

Sum(v, d) == (v + d) % WORD

\* The signed way from one word to another, the short way round.
Way(goal, v) == S16((goal - v) % WORD)

\* _interp16 and the same for 32 bits: the product keeps its low word.
Part(goal, v, k) == TruncDiv(S16((Way(goal, v) * k) % WORD), SWEEP_STEPS)
PartAlong(goal, v, k) ==
    TruncDiv(S32((((goal - v) % LWORD) * k) % LWORD), SWEEP_STEPS)

\* The place k fractions of the way from a place.
Fraction(place, k) ==
    << (place[1] + PartAlong(tgt_lateral, place[1], k)) % LWORD,
       Sum(place[2], Part(tgt_af1c, place[2], k)),
       Sum(place[3], Part(tgt_af2c, place[3], k)) >>

-----------------------------------------------------------------------------
(* compute_movement_targets.                                               *)

\* A frame does not cross the seam: it does not move across at all.
Seamed(old, raw) ==
    IF \/ (old < AF1C_WRAP_LOW /\ raw > AF1C_WRAP_HIGH)
       \/ (raw < AF1C_WRAP_LOW /\ old > AF1C_WRAP_HIGH)
    THEN old ELSE raw

\* Bug: the first fraction is not looked at.
FirstFractionSecond == 2

FirstFraction == 1

\* resolve_move returns at once when there is nothing to do.
Targets ==
    /\ phase = "targets"
    /\ \E speed \in Speeds, drift \in Drifts, bounce \in Bounces :
        /\ lateral + speed <= RoadEnd
        /\ tgt_lateral' = (lateral + speed) % LWORD
        /\ tgt_af1c' = Seamed(af1c, Sum(af1c, drift))
        /\ tgt_af2c' = Sum(af2c, bounce)
    /\ phase' = IF ship = tgt' THEN "response" ELSE "sweep"
    /\ si' = FirstFraction
    /\ from' = ship
    /\ UNCHANGED <<blocked, lateral, af1c, af2c, step>>

-----------------------------------------------------------------------------
(* resolve_move.                                                           *)

Looks ==
    /\ phase = "sweep" /\ si <= SWEEP_STEPS
    /\ Free(Fraction(ship, si))
    /\ si' = si + 1
    /\ UNCHANGED <<blocked, lateral, af1c, af2c, tgt, phase, step, from>>

\* Bug: the blocked fraction is committed.
LastFree(k) == k

\* The fraction before the blocked one, or the whole way.
Committed(k) == k - 1

Commits ==
    /\ phase = "sweep"
    /\ si <= SWEEP_STEPS => ~Free(Fraction(ship, si))
    /\ LET place == Fraction(ship, Committed(si)) IN
        lateral' = place[1] /\ af1c' = place[2] /\ af2c' = place[3]
    /\ phase' = "along"
    /\ step' = LAT_REFINE_START
    /\ UNCHANGED <<blocked, tgt, si, from>>

\* Bug: a signed compare, which turns the ship away where the signs differ.
DirectionSigned(goal, v) ==
    IF S16(goal) > S16(v) THEN AXIS_REFINE_STEP ELSE - AXIS_REFINE_STEP

\* _refine_axis chooses its direction by an unsigned compare.
Direction(goal, v) ==
    IF goal > v THEN AXIS_REFINE_STEP ELSE - AXIS_REFINE_STEP

\* Bug: a step is taken only when it stays short of the target.
FitsShort(room, size) == room > size

\* A step is taken when it does not pass the target.
Fits(room, size) == room >= size

AlongFits == Fits((tgt_lateral - lateral) % LWORD, step)
AlongNext == <<(lateral + step) % LWORD, af1c, af2c>>

\* 0x1000 and its sixteenths, forward only.
Along ==
    /\ phase = "along" /\ step # 0
    /\ IF AlongFits /\ Free(AlongNext)
       THEN lateral' = AlongNext[1] /\ step' = step
       ELSE step' = step \div LAT_SHRINK /\ UNCHANGED lateral
    /\ UNCHANGED <<blocked, af1c, af2c, tgt, phase, si, from>>

AlongEnds ==
    /\ phase = "along" /\ step = 0
    /\ phase' = "across"
    /\ step' = Direction(tgt_af1c, af1c)
    /\ UNCHANGED <<blocked, ship, tgt, si, from>>

AcrossNext == <<lateral, Sum(af1c, step), af2c>>

Across ==
    /\ phase = "across" /\ step # 0
    /\ IF Fits(Abs(Way(tgt_af1c, af1c)), Abs(step)) /\ Free(AcrossNext)
       THEN af1c' = AcrossNext[2] /\ step' = step
       ELSE step' = TruncDiv(step, AXIS_SHRINK) /\ UNCHANGED af1c
    /\ UNCHANGED <<blocked, lateral, af2c, tgt, phase, si, from>>

AcrossEnds ==
    /\ phase = "across" /\ step = 0
    /\ phase' = "height"
    /\ step' = Direction(tgt_af2c, af2c)
    /\ UNCHANGED <<blocked, ship, tgt, si, from>>

HeightNext == <<lateral, af1c, Sum(af2c, step)>>

Height ==
    /\ phase = "height" /\ step # 0
    /\ IF Fits(Abs(Way(tgt_af2c, af2c)), Abs(step)) /\ Free(HeightNext)
       THEN af2c' = HeightNext[3] /\ step' = step
       ELSE step' = TruncDiv(step, AXIS_SHRINK) /\ UNCHANGED af2c
    /\ UNCHANGED <<blocked, lateral, af1c, tgt, phase, si, from>>

HeightEnds ==
    /\ phase = "height" /\ step = 0
    /\ phase' = "response"
    /\ UNCHANGED <<blocked, ship, tgt, si, step, from>>

-----------------------------------------------------------------------------
(* The responses that move the ship.                                       *)

\* lateral_wall_bump looks ahead of the ship, not at the place beside it, first
\* on one side, then on the other.
Aside ==
    LET ahead(v) == <<tgt_lateral, v, af2c>>
        down == Sum(af1c, - LATERAL_BUMP_STEP)
        up == Sum(af1c, LATERAL_BUMP_STEP)
    IN  IF \/ lateral = tgt_lateral \/ af1c # tgt_af1c
           \/ Free(ahead(af1c))
           \/ (~Free(ahead(down)) /\ ~Free(ahead(up)))
        THEN af1c
        ELSE IF Free(ahead(down)) THEN down ELSE up

\* A height below zero becomes zero.
Clamped(v) == IF v >= HALF THEN 0 ELSE v

Response ==
    /\ phase = "response"
    /\ af1c' = Aside
    /\ af2c' = Clamped(af2c)
    /\ phase' = "targets"
    /\ UNCHANGED <<blocked, lateral, tgt, si, step, from>>

-----------------------------------------------------------------------------
\* A level starts at its beginning, above the road and clear of its blocks.
Init ==
    /\ blocked \in Roads
    /\ lateral = 0 /\ af1c \in Word /\ af2c \in 0 .. HALF - 1
    /\ Free(ship)
    /\ tgt_lateral = lateral /\ tgt_af1c = af1c /\ tgt_af2c = af2c
    /\ from = ship
    /\ phase = "targets" /\ si = 0 /\ step = 0

Resolve == Looks \/ Commits \/ Along \/ AlongEnds \/ Across \/ AcrossEnds
               \/ Height \/ HeightEnds

Next == Targets \/ Resolve \/ Response

Spec == Init /\ [][Next]_vars

\* A body runs to its end.
FairSpec == Spec /\ WF_vars(Resolve \/ Response)

-----------------------------------------------------------------------------
(* Properties.                                                             *)

TypeOK ==
    /\ blocked \in Roads
    /\ lateral \in Laterals /\ af1c \in Word /\ af2c \in Word
    /\ tgt_lateral \in Laterals /\ tgt_af1c \in Word /\ tgt_af2c \in Word
    /\ phase \in Phases
    /\ si \in 0 .. SWEEP_STEPS + 1
    /\ step \in Int
    /\ from \in Laterals \X Word \X Word

\* resolve_move never takes a ship that was clear of the blocks into one,
\* whatever the road, the targets and the overflows on the way.
StaysClear == phase # "targets" /\ Free(from) => Free(ship)

\* Nor does it pass a block that a fraction of the way shows: every fraction
\* up to the one the ship committed to was looked at and free.
NoTunnel ==
    phase \in Moving => \A k \in 1 .. si - 1 : Free(Fraction(from, k))

\* Without an obstacle the ship arrives exactly where it was asked to go, the
\* overflows and the roundings of the sweep notwithstanding.
ArrivesUnhindered ==
    phase = "response" /\ blocked = {} => ship = tgt

\* A height that was not reached is held by a block right beside it; the other
\* axes may have come free again by then.
RestsAtContact ==
    phase = "response" /\ af2c # tgt_af2c =>
        \/ af2c < tgt_af2c /\ ~Free(<<lateral, af1c, Sum(af2c, 1)>>)
        \/ af2c > tgt_af2c /\ ~Free(<<lateral, af1c, Sum(af2c, -1)>>)

\* A frame that asks for a short way, and across no end of the words, leaves
\* the ship on it: between where it was and where it was asked to go.
Between(a, v, b) == (a <= v /\ v <= b) \/ (b <= v /\ v <= a)
Short(a, b) == (a - b) * SWEEP_STEPS < HALF /\ (b - a) * SWEEP_STEPS < HALF

StaysOnWay ==
    phase \in Moving \cup {"response"} =>
        /\ (tgt_lateral - from[1]) \in 0 .. ((LWORD \div 2 - 1) \div SWEEP_STEPS)
               => Between(from[1], lateral, tgt_lateral)
        /\ Short(from[2], tgt_af1c) => Between(from[2], af1c, tgt_af1c)
        /\ Short(from[3], tgt_af2c) => Between(from[3], af2c, tgt_af2c)

\* Every call of resolve_move returns: the refinements come to their ends.
MoveReturns == phase # "targets" ~> phase = "targets"
=============================================================================
