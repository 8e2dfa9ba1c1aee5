----------------------- MODULE ReplayTimeline_proofs -----------------------
(***************************************************************************)
(* The safety of recording and replay, for every game, every budget and    *)
(* every length of a recording: an exact replay shows the recorded machine *)
(* at every point, it is never refused, and every event is handed over     *)
(* once.                                                                   *)
(*                                                                         *)
(* The points are not enough to reason about: a replay in the middle of a  *)
(* frame has to be compared with the middle of the recorded frame.  The    *)
(* invariant therefore says of every recorded frame that there is a run    *)
(* that leads from its point to the next (Recorded), and of an exact       *)
(* replay that it stands somewhere on the run of its frame (Following).    *)
(***************************************************************************)
EXTENDS ReplayTimeline, SequenceTheorems, FiniteSetTheorems, TLAPS

-----------------------------------------------------------------------------
(* The inductive invariant.                                                *)

\* The runs of a frame: the machine and the heads seen before each instruction.
Moment == [m : Machine, seen : SUBSET Positions]
Runs == [Nat -> Moment]

\* What the controller held while frame p was recorded.
WishIn(p) == IF Waiting(p) THEN "position" ELSE "none"

\* The machine frame p begins with, given the events up to number to.
Begun(p, to) ==
    Ticked(Given(tape[p + 1].m, SubSeq(events, tape[p + 1].cursor + 1, to)))

\* A frame that does not follow a slice of the generated carrier.
Fresh(p) == carrier = "generated" => tape[p + 1].kind # "guest-fallback"

Going(at) == ~Blocked(at.m) /\ ~Parks(at.m, at.seen)

\* The first n moments of frame p.
Course(p, to, run, n) ==
    /\ run[1].m = Begun(p, to)
    /\ Fresh(p) => run[1].seen = {}
    /\ \A i \in 1 .. n - 1 :
        /\ Going(run[i])
        /\ run[i + 1].m = Executed(run[i].m)
        /\ run[i + 1].seen = Marked(run[i].m, run[i].seen)
    /\ \A i \in 1 .. n : run[i].m.count = run[1].m.count + i - 1

\* What ended a frame after n - 1 instructions.
Ending(at, n) ==
    IF n = Budget + 1 THEN "guest-fallback"
    ELSE IF Blocked(at.m) THEN "input-block" ELSE "frame-park"

\* A run of n - 1 instructions is frame p of the recording.
Recorded(p, run, n) ==
    /\ Course(p, tape[p + 2].cursor, run, n)
    /\ n <= Budget => ~Going(run[n])
    /\ tape[p + 2].kind = Ending(run[n], n)
    /\ tape[p + 2].m = Positioned(run[n].m, tape[p + 2].kind, WishIn(p))

Sizes == 1 .. Budget + 1

AllRecorded ==
    \A p \in 0 .. Len(tape) - 2 : \E n \in Sizes, run \in Runs : Recorded(p, run, n)

\* A point has the cursor behind the events of the frames before it.
Handed ==
    \A p \in 0 .. Len(tape) - 1 :
        /\ tape[p + 1].cursor \in 0 .. Len(events)
        /\ \A i \in 1 .. Len(events) : i <= tape[p + 1].cursor <=> events[i].ordinal < p

Modes ==
    /\ phase = "live" =>
        /\ Len(tape) = point + 1 /\ frame \in {"none", "play"}
        /\ frame = "play" => point < MaxPoint
    /\ phase # "live" => Len(tape) = MaxPoint + 1
    /\ phase \in Stopped => frame = "none"
    /\ phase = "replay" /\ frame # "none" =>
        /\ point < target
        /\ frame = "slice" <=> Expected.kind = "guest-fallback"

CursorIs ==
    /\ phase = "live" =>
        /\ cursor = Len(events)
        /\ \A i \in 1 .. Len(events) :
            events[i].ordinal <= point /\ (frame = "none" => events[i].ordinal < point)
    /\ phase = "replay" =>
        cursor = tape[IF frame = "none" THEN point + 1 ELSE point + 2].cursor

\* The practice position waits in the play that is recorded, never in a replay.
\* A frame it should have waited in is no longer exact.
Wishes ==
    /\ phase = "live" => pending = WishIn(point)
    /\ phase # "live" => pending = "none"
    /\ phase = "replay" /\ frame # "none" /\ Waiting(point) => missed

\* The heads a frame begins with.
Kinds ==
    /\ phase = "live" /\ kind = "guest-fallback" => tape[point + 1].kind = "guest-fallback"
    /\ phase # "live" /\ carrier = "generated" /\ Exact => kind # "guest-fallback"

\* A frame in play.
Playing ==
    phase = "live" /\ frame = "play" =>
        \E i \in Sizes, run \in Runs :
            /\ Course(point, cursor, run, i)
            /\ m = run[i].m /\ seen = run[i].seen /\ left = Budget + 1 - i

Allowed == IF carrier = "interpreter" THEN SeekBudget ELSE Budget

\* A frame of an exact replay.
Following ==
    phase = "replay" /\ frame # "none" /\ Exact =>
        \E n \in Sizes, run \in Runs : \E i \in 1 .. n :
            /\ Recorded(point, run, n)
            /\ m = run[i].m
            /\ frame = "play" => seen = run[i].seen /\ left = Allowed + 1 - i

AtPoint == phase = "live" /\ frame = "none" => m = tape[point + 1].m

Layout == TypeOK /\ Modes /\ Handed /\ CursorIs

IInv ==
    /\ Layout /\ AllRecorded /\ Wishes /\ Kinds
    /\ AtPoint /\ Playing /\ Following /\ Reproduces /\ NoFalseAlarm

-----------------------------------------------------------------------------
(* The operators of the model.                                             *)

\* A position holds one of the four sorts of code.
LEMMA ProgramFacts ==
    ASSUME program \in Programs
    PROVE  /\ Len(program) \in Nat \ {0} /\ 1 \in Positions
           /\ \A pos \in Positions : program[pos] \in {"work", "read", "wait", "spin"}
<1>1. program \in Seq({"work", "read", "wait", "spin"}) /\ program # <<>>
    BY ReplayAssumption
<1>2. Len(program) \in Nat \ {0}
    BY <1>1, EmptySeq
<1>3. \A pos \in 1 .. Len(program) : program[pos] \in {"work", "read", "wait", "spin"}
    BY <1>1, ElementOfSeq
<1> QED
    BY <1>2, <1>3 DEF Positions

\* An instruction that is not blocked leads to a machine and is counted.
LEMMA ExecutedIs ==
    ASSUME program \in Programs, NEW mm \in Machine, ~Blocked(mm)
    PROVE  Executed(mm) \in Machine /\ Executed(mm).count = mm.count + 1
<1> DEFINE next == [mm EXCEPT !.pos = IF @ = Len(program) THEN 1 ELSE @ + 1,
                              !.since = mm.ticks, !.count = @ + 1]
<1> DEFINE onward == IF mm.pos = Len(program) THEN 1 ELSE mm.pos + 1
<1>1. /\ mm.pos \in Positions /\ mm.ticks \in Nat /\ mm.bodies \in Nat
      /\ mm.keys \in Nat /\ mm.count \in Nat
    BY DEF Machine
<1>2. onward \in Positions
    BY <1>1, ProgramFacts DEF Positions
<1> HIDE DEF onward
<1>3. next = [mm EXCEPT !.pos = onward, !.since = mm.ticks, !.count = mm.count + 1]
    BY DEF onward
<1> HIDE DEF next
<1>4. next = [pos |-> onward, since |-> mm.ticks, ticks |-> mm.ticks,
              bodies |-> mm.bodies, keys |-> mm.keys, level |-> mm.level,
              count |-> mm.count + 1]
    BY <1>3 DEF Machine
<1>5. next \in Machine /\ next.count = mm.count + 1 /\ next.keys = mm.keys
    BY <1>1, <1>2, <1>4 DEF Machine
<1>6. CASE At(mm) = "work" \/ (AtHead(mm) /\ Over(mm))
    <2>1. Executed(mm) = next
        BY <1>6 DEF Executed, next, AtHead
    <2> QED
        BY <1>5, <2>1
<1>7. CASE At(mm) = "read"
    <2>1. mm.keys - 1 \in Nat
        BY <1>1, <1>7 DEF Blocked
    <2>2. Executed(mm) = [next EXCEPT !.keys = @ - 1]
        BY <1>7 DEF Executed, next, AtHead
    <2> QED
        BY <1>5, <2>1, <2>2 DEF Machine
<1>8. CASE At(mm) = "wait" /\ ~Over(mm)
    <2>1. Executed(mm) = [mm EXCEPT !.bodies = @ + 1, !.count = @ + 1]
        BY <1>8 DEF Executed, AtHead
    <2>2. Executed(mm) = [pos |-> mm.pos, since |-> mm.since, ticks |-> mm.ticks,
                          bodies |-> mm.bodies + 1, keys |-> mm.keys,
                          level |-> mm.level, count |-> mm.count + 1]
        BY <2>1 DEF Machine
    <2>3. mm.since \in Nat /\ mm.level \in Nat
        BY DEF Machine
    <2> QED
        BY <1>1, <2>2, <2>3 DEF Machine
<1>9. CASE At(mm) = "spin" /\ ~Over(mm)
    <2>1. Executed(mm) = [mm EXCEPT !.count = @ + 1]
        BY <1>9 DEF Executed, AtHead
    <2> QED
        BY <1>1, <2>1 DEF Machine
<1>10. At(mm) \in {"work", "read", "wait", "spin"}
    BY <1>1, ProgramFacts DEF At
<1> QED
    BY <1>6, <1>7, <1>8, <1>9, <1>10 DEF AtHead

LEMMA MarkedIs ==
    ASSUME NEW mm \in Machine, NEW heads \in SUBSET Positions
    PROVE  Marked(mm, heads) \in SUBSET Positions
BY DEF Marked, Machine

LEMMA TickedIs ==
    ASSUME NEW mm \in Machine
    PROVE  Ticked(mm) \in Machine
BY DEF Ticked, Machine

LEMMA GivenIs ==
    ASSUME NEW mm \in Machine, NEW batch \in Seq(RecordedEvent)
    PROVE  Given(mm, batch) \in Machine
<1> DEFINE keyed == {i \in 1 .. Len(batch) : batch[i].channel = "key"}
<1>1. IsFiniteSet(1 .. Len(batch)) /\ keyed \in SUBSET (1 .. Len(batch))
    BY LenProperties, FS_Interval
<1>2. IsFiniteSet(keyed)
    BY <1>1, FS_Subset
<1>3. Cardinality(keyed) \in Nat
    BY <1>2, FS_CardinalityType
<1>4. Given(mm, batch) = [mm EXCEPT !.keys = @ + Cardinality(keyed)]
    BY DEF Given
<1> HIDE DEF keyed
<1> QED
    BY <1>3, <1>4 DEF Machine

\* A practice position changes the level and nothing else, and only where it
\* waits and is applied.
LEMMA PositionedIs ==
    ASSUME NEW mm \in Machine, NEW why, NEW wish
    PROVE  /\ Positioned(mm, why, wish) \in Machine
           /\ Positioned(mm, why, wish).pos = mm.pos
           /\ Positioned(mm, why, wish).count = mm.count
           /\ ~Applies(why) => Positioned(mm, why, wish) = mm
BY DEF Positioned, Machine

\* The operators look at nothing but the carrier and the program.
LEMMA Steady ==
    ASSUME UNCHANGED <<carrier, program>>, NEW mm, NEW heads, NEW why, NEW wish
    PROVE  /\ Executed(mm)' = Executed(mm)
           /\ Blocked(mm)' = Blocked(mm)
           /\ Parks(mm, heads)' = Parks(mm, heads)
           /\ Marked(mm, heads)' = Marked(mm, heads)
           /\ Positioned(mm, why, wish)' = Positioned(mm, why, wish)
           /\ Positions' = Positions /\ Machine' = Machine
<1>1. /\ At(mm)' = At(mm) /\ AtHead(mm)' = AtHead(mm)
      /\ Over(mm)' = Over(mm) /\ Positions' = Positions
    BY DEF At, AtHead, Over, Positions
<1>2. Executed(mm)' = Executed(mm)
    BY <1>1 DEF Executed
<1>3. Blocked(mm)' = Blocked(mm)
    BY <1>1 DEF Blocked
<1>4. Parks(mm, heads)' = Parks(mm, heads)
    BY <1>1 DEF Parks
<1>5. Marked(mm, heads)' = Marked(mm, heads)
    BY <1>1 DEF Marked
<1>6. Positioned(mm, why, wish)' = Positioned(mm, why, wish)
    BY DEF Positioned, Applies
<1>7. Machine' = Machine
    BY <1>1 DEF Machine
<1> QED
    BY <1>1, <1>2, <1>3, <1>4, <1>5, <1>6, <1>7

-----------------------------------------------------------------------------
(* What the type invariant says, in the form the proofs use it.            *)

LEMMA TypeFacts ==
    ASSUME TypeOK
    PROVE  /\ Len(events) \in Nat /\ Len(tape) \in Nat
           /\ \A i \in 1 .. Len(events) : events[i] \in RecordedEvent
           /\ \A p \in 0 .. Len(tape) - 1 :
                /\ tape[p + 1] \in RecordedPoint
                /\ tape[p + 1].m \in Machine /\ tape[p + 1].cursor \in Nat
                /\ tape[p + 1].kind \in Ends \cup {"origin"}
           /\ point \in Nat /\ point <= MaxPoint /\ MaxPoint \in Nat \ {0}
           /\ target \in Nat /\ target <= MaxPoint
           /\ cursor \in Nat /\ cursor <= Len(events)
           /\ left \in Nat /\ Budget \in Nat \ {0}
           /\ SeekBudget \in Nat /\ SeekBudget >= Budget
           /\ carrier \in {"generated", "interpreter"}
<1>1. Len(events) \in Nat /\ Len(tape) \in Nat
    BY LenProperties DEF TypeOK
<1>2. \A i \in 1 .. Len(events) : events[i] \in RecordedEvent
    BY ElementOfSeq DEF TypeOK
<1>3. \A p \in 1 .. Len(tape) : tape[p] \in RecordedPoint
    BY ElementOfSeq DEF TypeOK
<1>4. \A p \in 0 .. Len(tape) - 1 : tape[p + 1] \in RecordedPoint
    BY <1>1, <1>3
<1>5. \A x \in RecordedPoint :
        x.m \in Machine /\ x.cursor \in Nat /\ x.kind \in Ends \cup {"origin"}
    BY DEF RecordedPoint
<1> QED
    BY <1>1, <1>2, <1>4, <1>5, ReplayAssumption DEF TypeOK

\* The events of a replayed frame are those of the recorded one.
LEMMA DueIs ==
    ASSUME Layout, phase = "replay", frame = "none", point < target
    PROVE  /\ DueTo = tape[point + 2].cursor
           /\ DueTo \in cursor .. Len(events)
           /\ Due = SubSeq(events, tape[point + 1].cursor + 1, tape[point + 2].cursor)
           /\ Due \in Seq(RecordedEvent)
<1> USE DEF Layout
<1>a. PICK c : c = cursor
    OBVIOUS
<1>b. PICK d : d = tape[point + 2].cursor
    OBVIOUS
<1>1. /\ Len(events) \in Nat /\ point \in Nat /\ point < MaxPoint /\ MaxPoint \in Nat
      /\ \A i \in 1 .. Len(events) : events[i] \in RecordedEvent
    BY TypeFacts
<1>2. Len(tape) = MaxPoint + 1
    BY DEF Modes
<1>3. point \in 0 .. Len(tape) - 1 /\ point + 1 \in 0 .. Len(tape) - 1
    BY <1>1, <1>2
<1>4. c = tape[point + 1].cursor
    BY <1>a DEF CursorIs
<1>5. /\ c \in 0 .. Len(events)
      /\ \A i \in 1 .. Len(events) : i <= c <=> events[i].ordinal < point
    BY <1>3, <1>4 DEF Handed
<1>6. /\ d \in 0 .. Len(events)
      /\ \A i \in 1 .. Len(events) : i <= d <=> events[i].ordinal < point + 1
    <2>1. PICK q : q = point + 1
        OBVIOUS
    <2>2. q \in 0 .. Len(tape) - 1 /\ d = tape[q + 1].cursor
        BY <1>1, <1>3, <1>b, <2>1
    <2> QED
        BY <2>1, <2>2 DEF Handed
<1>7. \A i \in 1 .. Len(events) : events[i].ordinal \in Nat
    BY <1>1 DEF RecordedEvent
<1>8. c <= d
    BY <1>1, <1>5, <1>6, <1>7
<1>9. \A i \in c + 1 .. d : i \in 1 .. Len(events) /\ events[i].ordinal = point
    BY <1>1, <1>5, <1>6, <1>7
<1>10. d < Len(events) => events[d + 1].ordinal # point
    BY <1>1, <1>6, <1>7
<1>11. DueTo = d
    <2> DEFINE Stand(to) ==
            /\ \A i \in c + 1 .. to : events[i].ordinal = point
            /\ to < Len(events) => events[to + 1].ordinal # point
    <2>1. d \in c .. Len(events) /\ Stand(d)
        BY <1>5, <1>6, <1>8, <1>9, <1>10
    <2>2. ASSUME NEW to \in c .. Len(events), Stand(to)
          PROVE  to = d
        <3>1. to \in Nat /\ c \in Nat /\ d \in Nat
            BY <1>1, <1>5, <1>6
        <3>2. CASE to < d
            <4>1. to + 1 \in c + 1 .. d /\ to < Len(events)
                BY <1>1, <1>6, <3>1, <3>2
            <4> QED
                BY <1>9, <2>2, <4>1
        <3>3. CASE d < to
            <4>1. d + 1 \in c + 1 .. to /\ d < Len(events)
                BY <1>1, <1>8, <3>1, <3>3
            <4> QED
                BY <1>10, <2>2, <4>1
        <3> QED
            BY <3>1, <3>2, <3>3
    <2>3. DueTo = CHOOSE to \in c .. Len(events) : Stand(to)
        BY <1>a DEF DueTo
    <2> HIDE DEF Stand
    <2> QED
        BY <2>1, <2>2, <2>3
<1>12. Due = SubSeq(events, c + 1, d)
    BY <1>11, <1>a DEF Due
<1>13. Due \in Seq(RecordedEvent)
    <2>1. \A i \in c + 1 .. d : events[i] \in RecordedEvent
        BY <1>1, <1>9
    <2>2. c + 1 \in Int /\ d \in Int
        BY <1>5, <1>6
    <2> QED
        BY <1>12, <2>1, <2>2, SubSeqProperties
<1>14. d \in c .. Len(events)
    BY <1>5, <1>6, <1>8
<1> HIDE DEF Layout
<1> QED
    BY <1>a, <1>b, <1>4, <1>11, <1>12, <1>13, <1>14

-----------------------------------------------------------------------------
(* What is recorded stays recorded.                                        *)

LEMMA CourseKept ==
    ASSUME UNCHANGED <<carrier, program>>, NEW p, NEW to,
           tape'[p + 1] = tape[p + 1], Begun(p, to)' = Begun(p, to)
    PROVE  \A run, n : Course(p, to, run, n)' <=> Course(p, to, run, n)
<1>1. Fresh(p)' <=> Fresh(p)
    BY DEF Fresh
<1>2. \A at : Going(at)' <=> Going(at)
    BY Steady DEF Going
<1>3. \A mm : Executed(mm)' = Executed(mm)
    BY Steady
<1>4. \A mm, heads : Marked(mm, heads)' = Marked(mm, heads)
    BY Steady
<1> QED
    BY <1>1, <1>2, <1>3, <1>4 DEF Course

LEMMA WishKept ==
    ASSUME UNCHANGED carrier, Practised' <=> Practised, NEW p,
           \A q \in 1 .. p : tape'[q + 1].kind = tape[q + 1].kind
    PROVE  WishIn(p)' = WishIn(p)
<1>1. Waiting(p)' <=> Waiting(p)
    BY DEF Waiting, Applies
<1> QED
    BY <1>1 DEF WishIn

LEMMA RecordedKept ==
    ASSUME UNCHANGED <<carrier, program>>, Len(tape) \in Nat,
           NEW p \in 0 .. Len(tape) - 2, NEW to,
           to = tape[p + 2].cursor, Begun(p, to)' = Begun(p, to),
           \A q \in 1 .. Len(tape) : tape'[q] = tape[q],
           Practised' <=> Practised
    PROVE  /\ WishIn(p)' = WishIn(p)
           /\ \A run, n : Recorded(p, run, n)' <=> Recorded(p, run, n)
<1>1. /\ tape'[p + 1] = tape[p + 1] /\ tape'[p + 2] = tape[p + 2]
      /\ \A q \in 1 .. p : tape'[q + 1] = tape[q + 1]
    OBVIOUS
<1>2. WishIn(p)' = WishIn(p)
    BY <1>1, WishKept
<1>3. \A run, n : Course(p, to, run, n)' <=> Course(p, to, run, n)
    BY <1>1, CourseKept
<1>4. \A at : (Going(at)' <=> Going(at)) /\ (Blocked(at.m)' <=> Blocked(at.m))
    BY Steady DEF Going
<1>5. \A at, n : Ending(at, n)' = Ending(at, n)
    BY <1>4 DEF Ending
<1>6. \A mm, why, wish : Positioned(mm, why, wish)' = Positioned(mm, why, wish)
    BY Steady
<1> QED
    BY <1>1, <1>2, <1>3, <1>4, <1>5, <1>6 DEF Recorded

\* In a replay the recording is only read.
LEMMA RecordingKept ==
    ASSUME TypeOK, UNCHANGED recording
    PROVE  /\ Runs' = Runs
           /\ Handed => Handed'
           /\ AllRecorded => AllRecorded'
           /\ Sliced' <=> Sliced
           /\ Practised' <=> Practised
           /\ \A p : WishIn(p)' = WishIn(p)
           /\ \A p \in 0 .. Len(tape) - 2 : \A run, n :
                Recorded(p, run, n)' <=> Recorded(p, run, n)
<1> USE DEF recording
<1>1. Machine' = Machine /\ Positions' = Positions
    BY Steady
<1>2. Runs' = Runs
    BY <1>1 DEF Runs, Moment
<1>3. (Sliced' <=> Sliced) /\ (Practised' <=> Practised)
    BY DEF Sliced, Practised
<1>4. Handed => Handed'
    BY DEF Handed
<1>5. \A p : WishIn(p)' = WishIn(p)
    BY <1>3 DEF WishIn, Waiting, Applies
<1>6. \A p, to : Begun(p, to)' = Begun(p, to)
    BY DEF Begun, Ticked, Given
<1>7. \A p \in 0 .. Len(tape) - 2 : \A run, n :
            Recorded(p, run, n)' <=> Recorded(p, run, n)
    <2>1. SUFFICES ASSUME NEW p \in 0 .. Len(tape) - 2
                   PROVE  \A run, n : Recorded(p, run, n)' <=> Recorded(p, run, n)
        OBVIOUS
    <2>2. PICK to : to = tape[p + 2].cursor
        OBVIOUS
    <2>3. Begun(p, to)' = Begun(p, to)
        BY <1>6
    <2> QED
        BY <1>3, <2>2, <2>3, TypeFacts, RecordedKept
<1>8. AllRecorded => AllRecorded'
    <2>1. SUFFICES ASSUME AllRecorded, NEW p \in 0 .. Len(tape) - 2
                   PROVE  \E n \in Sizes, run \in Runs : Recorded(p, run, n)'
        BY <1>2 DEF AllRecorded, Sizes
    <2>2. PICK n \in Sizes, run \in Runs : Recorded(p, run, n)
        BY <2>1 DEF AllRecorded
    <2> QED
        BY <1>7, <2>2
<1> QED
    BY <1>2, <1>3, <1>4, <1>5, <1>7, <1>8

\* The practice position after a frame is what the next frame runs with.
LEMMA WishAdvances ==
    ASSUME UNCHANGED carrier, Practised' <=> Practised, carrier \in {"generated", "interpreter"},
           NEW p \in Nat, NEW q, q = p + 1, NEW why, tape'[q + 1].kind = why,
           \A x \in 1 .. p : tape'[x + 1].kind = tape[x + 1].kind
    PROVE  WishIn(q)' = Wish(WishIn(p), why)
<1>1. /\ p \in Nat /\ q \in 1 .. q
      /\ \A x \in 1 .. q : x \in 1 .. p \/ x = q
      /\ \A x \in 1 .. p : x \in 1 .. q
    OBVIOUS
<1>2. \A x \in 1 .. p : Applies(tape'[x + 1].kind) <=> Applies(tape[x + 1].kind)
    OBVIOUS
<1>3. Waiting(q)' <=> Waiting(p) /\ ~Applies(why)
    BY <1>1, <1>2 DEF Waiting, Applies
<1> QED
    BY <1>3 DEF WishIn, Wish

\* In a frame of an exact replay no practice position is missed.
LEMMA NothingWaits ==
    ASSUME Wishes, phase = "replay", frame # "none", Exact
    PROVE  WishIn(point) = "none" /\ pending = "none"
BY DEF Wishes, Exact, WishIn

\* What a step that leaves the recording and the history alone keeps.
LEMMA ExactKept ==
    ASSUME UNCHANGED recording, UNCHANGED missed
    PROVE  (Exact' <=> Exact) /\ \A p : Waiting(p)' <=> Waiting(p)
BY DEF Exact, Sliced, Waiting, Practised, Applies, recording

-----------------------------------------------------------------------------
(* Runs and frames.                                                        *)

LEMMA RunsAre ==
    ASSUME NEW run \in Runs, NEW i \in Nat
    PROVE  run[i].m \in Machine /\ run[i].seen \in SUBSET Positions
BY DEF Runs, Moment

\* A run grows by an instruction.
LEMMA CourseGrows ==
    ASSUME program \in Programs, NEW p, NEW to, NEW run \in Runs, NEW i \in Nat \ {0},
           Course(p, to, run, i), Going(run[i])
    PROVE  \E longer \in Runs :
            /\ Course(p, to, longer, i + 1)
            /\ longer[i + 1].m = Executed(run[i].m)
            /\ longer[i + 1].seen = Marked(run[i].m, run[i].seen)
<1> DEFINE next == [m |-> Executed(run[i].m), seen |-> Marked(run[i].m, run[i].seen)]
           longer == [run EXCEPT ![i + 1] = next]
<1>1. run[i].m \in Machine /\ run[i].seen \in SUBSET Positions /\ ~Blocked(run[i].m)
    BY RunsAre DEF Going
<1>2. next \in Moment /\ next.m.count = run[i].m.count + 1
    BY <1>1, ExecutedIs, MarkedIs DEF Moment
<1>3. next.m = Executed(run[i].m) /\ next.seen = Marked(run[i].m, run[i].seen)
    OBVIOUS
<1> HIDE DEF next
<1>4. i + 1 \in Nat /\ longer \in Runs
    BY <1>2 DEF Runs
<1>5. longer[i + 1] = next /\ \A j \in 1 .. i : longer[j] = run[j]
    BY <1>4 DEF Runs
<1> HIDE DEF longer
<1>6. run[1].m.count \in Nat /\ run[i].m.count = run[1].m.count + i - 1
    BY RunsAre DEF Course, Machine
<1>7. \A j \in 1 .. (i + 1) - 1 :
        /\ Going(longer[j])
        /\ longer[j + 1].m = Executed(longer[j].m)
        /\ longer[j + 1].seen = Marked(longer[j].m, longer[j].seen)
    <2>1. SUFFICES ASSUME NEW j \in 1 .. i
                   PROVE  /\ Going(longer[j])
                          /\ longer[j + 1].m = Executed(longer[j].m)
                          /\ longer[j + 1].seen = Marked(longer[j].m, longer[j].seen)
        OBVIOUS
    <2>2. CASE j = i
        BY <1>3, <1>5, <2>2
    <2>3. CASE j \in 1 .. i - 1
        <3>1. j + 1 \in 1 .. i
            BY <2>3
        <3> QED
            BY <1>5, <2>3, <3>1 DEF Course
    <2> QED
        BY <2>2, <2>3
<1>8. \A j \in 1 .. i + 1 : longer[j].m.count = longer[1].m.count + j - 1
    <2>1. SUFFICES ASSUME NEW j \in 1 .. i + 1
                   PROVE  longer[j].m.count = longer[1].m.count + j - 1
        OBVIOUS
    <2>2. longer[1] = run[1]
        BY <1>5
    <2>3. CASE j = i + 1
        BY <1>2, <1>5, <1>6, <2>2, <2>3
    <2>4. CASE j \in 1 .. i
        BY <1>5, <2>2, <2>4 DEF Course
    <2> QED
        BY <2>3, <2>4
<1>9. Course(p, to, longer, i + 1)
    <2>1. longer[1] = run[1]
        BY <1>5
    <2> QED
        BY <1>7, <1>8, <2>1 DEF Course
<1> QED
    BY <1>3, <1>4, <1>5, <1>9

LEMMA TypesKept ==
    ASSUME UNCHANGED <<carrier, program>>
    PROVE  Machine' = Machine /\ Positions' = Positions /\ RecordedPoint' = RecordedPoint
BY Steady DEF RecordedPoint

\* A frame of a recording that is no slice ends where its run ends.
LEMMA FrameStops ==
    ASSUME TypeOK, phase = "replay", frame = "play", Exact, Modes,
           NEW n \in Sizes, NEW run \in Runs, NEW i \in 1 .. n,
           Recorded(point, run, n),
           m = run[i].m, seen = run[i].seen, left = Allowed + 1 - i
    PROVE  /\ n <= Budget
           /\ Stops <=> i = n
           /\ Stops => Why = Expected.kind
<1>1. Expected.kind # "guest-fallback" /\ Expected.kind = Ending(run[n], n)
    BY DEF Modes, Recorded, Expected
<1>2. n # Budget + 1
    BY <1>1 DEF Ending
<1>3. n \in Nat /\ i \in Nat /\ n <= Budget /\ i <= Budget
    BY <1>2, TypeFacts DEF Sizes
<1>4. left # 0
    BY <1>3, TypeFacts DEF Allowed
<1>5. Stops <=> ~Going(run[i])
    BY <1>4 DEF Stops, Going
<1>6. i # n => Going(run[i])
    BY <1>3 DEF Recorded, Course
<1>7. ~Going(run[n])
    BY <1>3 DEF Recorded
<1>8. Stops => Why = Expected.kind
    BY <1>1, <1>2, <1>4, <1>5, <1>6 DEF Why, Ending
<1> QED
    BY <1>3, <1>5, <1>6, <1>7, <1>8

-----------------------------------------------------------------------------
(* The steps of a frame.                                                   *)

LEMMA ExecutesKeeps ==
    ASSUME IInv, Executes
    PROVE  IInv'
<1> USE DEF IInv, Layout
<1>1. /\ frame = "play" /\ ~Stops /\ m' = Executed(m) /\ seen' = Marked(m, seen)
      /\ left' = left - 1
      /\ UNCHANGED recording
      /\ UNCHANGED <<carrier, program, events, tape>>
      /\ UNCHANGED <<phase, frame, kind, pending, point, cursor, target, missed>>
    BY DEF Executes, recording
<1>2. left # 0 /\ Going([m |-> m, seen |-> seen]) /\ ~Blocked(m)
    BY <1>1 DEF Stops, Going
<1>3. TypeOK'
    <2>1. m' \in Machine /\ seen' \in SUBSET Positions /\ left' \in Nat
        BY <1>1, <1>2, ExecutedIs, MarkedIs, TypeFacts DEF TypeOK
    <2> QED
        BY <1>1, <2>1, TypesKept DEF TypeOK
<1>4. Modes' /\ CursorIs' /\ Kinds' /\ AtPoint' /\ Reproduces'
    BY <1>1, ExactKept, RecordingKept DEF Modes, CursorIs, Kinds, AtPoint, Reproduces, Expected
<1>5. Handed' /\ AllRecorded'
    BY <1>1, RecordingKept
<1>6. Exact' <=> Exact
    BY <1>1, ExactKept
<1>7. WishIn(point)' = WishIn(point)
    <2>1. PICK p : p = point
        OBVIOUS
    <2>2. WishIn(p)' = WishIn(p)
        BY <1>1, RecordingKept
    <2> QED
        BY <1>1, <2>1, <2>2
<1>8. Waiting(point)' <=> Waiting(point)
    <2>1. PICK p : p = point
        OBVIOUS
    <2>2. Waiting(p)' <=> Waiting(p)
        BY <1>1, ExactKept
    <2> QED
        BY <1>1, <2>1, <2>2
<1>9. Wishes' /\ NoFalseAlarm'
    BY <1>1, <1>6, <1>7, <1>8, RecordingKept DEF Wishes, NoFalseAlarm
<1>10. Playing'
    <2>1. SUFFICES ASSUME phase = "live"
                   PROVE  \E i \in Sizes, run \in Runs :
                            /\ Course(point, cursor, run, i)'
                            /\ m' = run[i].m /\ seen' = run[i].seen
                            /\ left' = Budget + 1 - i
        BY <1>1, RecordingKept DEF Playing, Sizes
    <2>2. PICK i \in Sizes, run \in Runs :
            /\ Course(point, cursor, run, i)
            /\ m = run[i].m /\ seen = run[i].seen /\ left = Budget + 1 - i
        BY <1>1, <2>1 DEF Playing
    <2>3. i \in Nat \ {0} /\ i + 1 \in Sizes /\ left' = Budget + 1 - (i + 1)
        BY <1>1, <1>2, <2>2, TypeFacts DEF Sizes
    <2>4. Going(run[i])
        BY <1>2, <2>2 DEF Going
    <2>5. PICK p : p = point
        OBVIOUS
    <2>6. PICK to : to = cursor
        OBVIOUS
    <2>7. PICK longer \in Runs :
            /\ Course(p, to, longer, i + 1)
            /\ longer[i + 1].m = m' /\ longer[i + 1].seen = seen'
        BY <1>1, <2>2, <2>3, <2>4, <2>5, <2>6, CourseGrows DEF TypeOK
    <2>8. Begun(p, to)' = Begun(p, to)
        BY <1>1 DEF Begun, Ticked, Given
    <2>9. Course(p, to, longer, i + 1)'
        <3>1. PICK k : k = i + 1
            OBVIOUS
        <3>2. Course(p, to, longer, k)' <=> Course(p, to, longer, k)
            BY <1>1, <2>8, CourseKept
        <3> QED
            BY <2>7, <3>1, <3>2
    <2>10. point' = p /\ cursor' = to
        BY <1>1, <2>5, <2>6
    <2> QED
        BY <2>3, <2>7, <2>9, <2>10
<1>11. Following'
    <2>1. SUFFICES ASSUME phase = "replay", Exact
                   PROVE  \E n \in Sizes, run \in Runs : \E i \in 1 .. n :
                            /\ Recorded(point, run, n)'
                            /\ m' = run[i].m
                            /\ seen' = run[i].seen /\ left' = Allowed' + 1 - i
        BY <1>1, <1>6, RecordingKept DEF Following, Sizes
    <2>2. PICK n \in Sizes, run \in Runs : \E i \in 1 .. n :
            /\ Recorded(point, run, n)
            /\ m = run[i].m /\ seen = run[i].seen /\ left = Allowed + 1 - i
        BY <1>1, <2>1 DEF Following
    <2>3. PICK i \in 1 .. n :
            /\ Recorded(point, run, n)
            /\ m = run[i].m /\ seen = run[i].seen /\ left = Allowed + 1 - i
        BY <2>2
    <2>4. i # n
        BY <1>1, <2>1, <2>3, FrameStops
    <2>5. n \in Nat /\ i \in 1 .. n - 1 /\ i + 1 \in 1 .. n
        BY <2>4, TypeFacts DEF Sizes
    <2>6. m' = run[i + 1].m /\ seen' = run[i + 1].seen
        BY <1>1, <2>3, <2>5 DEF Recorded, Course
    <2>7. Allowed \in Nat /\ Allowed' = Allowed
        BY <1>1, TypeFacts DEF Allowed
    <2>8. left' = Allowed' + 1 - (i + 1)
        BY <1>1, <2>3, <2>5, <2>7
    <2>9. PICK p : p = point
        OBVIOUS
    <2>10. p \in 0 .. Len(tape) - 2
        BY <1>1, <2>1, <2>9, TypeFacts DEF Modes
    <2>11. Recorded(p, run, n)'
        BY <1>1, <2>3, <2>9, <2>10, RecordingKept
    <2> QED
        BY <1>1, <2>5, <2>6, <2>8, <2>9, <2>11
<1> QED
    BY <1>3, <1>4, <1>5, <1>9, <1>10, <1>11

-----------------------------------------------------------------------------
(* Play, recorded.                                                         *)

\* The events of a batch are of this frame.
LEMMA BatchIs ==
    ASSUME TypeOK, NEW batch \in Batches
    PROVE  /\ batch \in Seq(RecordedEvent) /\ Len(batch) \in Nat
           /\ \A i \in 1 .. Len(batch) :
                /\ batch[i].ordinal = point
                /\ batch[i].channel = "practice" => point = 0
<1> DEFINE key == Event("key")
           practice == Event("practice")
<1>1. /\ key \in RecordedEvent /\ practice \in RecordedEvent
      /\ key.ordinal = point /\ practice.ordinal = point /\ key.channel = "key"
    BY TypeFacts DEF TypeOK, Event, RecordedEvent, Channels
<1>2. \/ batch = <<>> \/ batch = <<key>>
      \/ point = 0 /\ batch = <<practice>>
      \/ point = 0 /\ batch = <<practice, key>>
    BY TypeFacts DEF Batches
<1> HIDE DEF key, practice
<1>3. CASE batch = <<>>
    BY <1>3
<1>4. CASE batch = <<key>>
    BY <1>1, <1>4
<1>5. CASE point = 0 /\ batch = <<practice>>
    BY <1>1, <1>5
<1>6. CASE point = 0 /\ batch = <<practice, key>>
    <2>1. batch \in Seq(RecordedEvent) /\ Len(batch) = 2
        BY <1>1, <1>6
    <2>2. batch[1] = practice /\ batch[2] = key /\ \A i \in 1 .. 2 : i = 1 \/ i = 2
        BY <1>6
    <2> QED
        BY <1>1, <1>6, <2>1, <2>2
<1> QED
    BY <1>2, <1>3, <1>4, <1>5, <1>6

\* The events so far stay where they are, and the batch follows them.
LEMMA EventsGrow ==
    ASSUME TypeOK, NEW batch \in Batches, events' = events \o batch
    PROVE  /\ events' \in Seq(RecordedEvent)
           /\ Len(events') \in Nat /\ Len(events') = Len(events) + Len(batch)
           /\ \A i \in 1 .. Len(events) : events'[i] = events[i]
           /\ \A i \in 1 .. Len(events') : i > Len(events) =>
                /\ i - Len(events) \in 1 .. Len(batch)
                /\ events'[i] = batch[i - Len(events)]
           /\ SubSeq(events', Len(events) + 1, Len(events')) = batch
           /\ \A from, to \in Nat : from > 0 /\ to <= Len(events) =>
                SubSeq(events', from, to) = SubSeq(events, from, to)
<1>1. /\ batch \in Seq(RecordedEvent) /\ events \in Seq(RecordedEvent)
      /\ Len(batch) \in Nat /\ Len(events) \in Nat
    BY BatchIs, TypeFacts DEF TypeOK
<1>2. /\ events' \in Seq(RecordedEvent) /\ Len(events') = Len(events) + Len(batch)
      /\ \A i \in 1 .. Len(events) + Len(batch) : events'[i] =
            IF i <= Len(events) THEN events[i] ELSE batch[i - Len(events)]
    BY <1>1, ConcatProperties
<1>3. \A i \in 1 .. Len(events) : events'[i] = events[i]
    BY <1>1, <1>2
<1>4. \A i \in 1 .. Len(events') : i > Len(events) =>
            /\ i - Len(events) \in 1 .. Len(batch)
            /\ events'[i] = batch[i - Len(events)]
    BY <1>1, <1>2
<1>5. \A i \in 1 .. Len(events') : events'[i] \in RecordedEvent
    BY <1>2, ElementOfSeq
<1>6. \A i \in 1 .. Len(events) : events[i] \in RecordedEvent
    BY <1>1, ElementOfSeq
<1>7. SubSeq(events', Len(events) + 1, Len(events')) = batch
    <2>a. PICK a : a = Len(events) + 1
        OBVIOUS
    <2>b. PICK z : z = Len(events')
        OBVIOUS
    <2>1. a \in Nat /\ z \in Nat /\ a - Len(events) = 1 /\ z - Len(events) = Len(batch)
        BY <1>1, <1>2, <2>a, <2>b
    <2>2. CASE Len(batch) = 0
        <3>1. batch = <<>> /\ z < a
            BY <1>1, <1>2, <2>1, <2>2, EmptySeq
        <3>2. SubSeq(events', a, z) = <<>>
            BY <2>1, <3>1, SubSeqEmpty
        <3> QED
            BY <2>a, <2>b, <3>1, <3>2
    <2>3. CASE Len(batch) # 0
        <3>1. /\ a \in Len(events) + 1 .. Len(events) + Len(batch)
              /\ z \in Len(events) + 1 .. Len(events) + Len(batch)
            BY <1>1, <1>2, <2>1, <2>3
        <3>2. SubSeq(events \o batch, a, z) = SubSeq(batch, a - Len(events), z - Len(events))
            BY <1>1, <3>1, SubSeqOfConcat2
        <3>3. SubSeq(batch, 1, Len(batch)) = batch
            BY <1>1, SubSeqFull
        <3> QED
            BY <2>1, <2>a, <2>b, <3>2, <3>3
    <2> QED
        BY <2>2, <2>3
<1>8. ASSUME NEW from \in Nat, NEW to \in Nat, from > 0, to <= Len(events)
      PROVE  SubSeq(events', from, to) = SubSeq(events, from, to)
    <2>1. \A i \in from .. to : /\ i \in 1 .. Len(events)
                                /\ events'[i] = events[i] /\ events[i] \in RecordedEvent
        BY <1>1, <1>3, <1>6, <1>8
    <2>2. /\ SubSeq(events', from, to) \in Seq(RecordedEvent)
          /\ Len(SubSeq(events', from, to)) = IF from <= to THEN to - from + 1 ELSE 0
          /\ \A i \in 1 .. to - from + 1 : SubSeq(events', from, to)[i] = events'[from + i - 1]
        BY <2>1, SubSeqProperties
    <2>3. /\ SubSeq(events, from, to) \in Seq(RecordedEvent)
          /\ Len(SubSeq(events, from, to)) = IF from <= to THEN to - from + 1 ELSE 0
          /\ \A i \in 1 .. to - from + 1 : SubSeq(events, from, to)[i] = events[from + i - 1]
        BY <2>1, SubSeqProperties
    <2>4. \A i \in 1 .. to - from + 1 : from + i - 1 \in from .. to
        OBVIOUS
    <2>5. \A i \in 1 .. Len(SubSeq(events', from, to)) :
            SubSeq(events', from, to)[i] = SubSeq(events, from, to)[i]
        BY <2>1, <2>2, <2>3, <2>4
    <2> QED
        BY <2>2, <2>3, <2>5, SeqEqual
<1> QED
    BY <1>1, <1>2, <1>3, <1>4, <1>7, <1>8

LEMMA PlayBeginsKeeps ==
    ASSUME IInv, PlayBegins
    PROVE  IInv'
<1> USE DEF IInv, Layout
<1>1. PICK batch \in Batches :
        /\ m' = Ticked(Given(m, batch)) /\ pending' = Wished(pending, batch)
        /\ events' = events \o batch /\ cursor' = Len(events')
    BY DEF PlayBegins
<1>2. /\ phase = "live" /\ frame = "none" /\ point < MaxPoint
      /\ seen' = SeenAtFrame /\ frame' = "play" /\ left' = Budget
      /\ UNCHANGED <<carrier, program, tape, phase, kind, point, target, missed>>
    BY DEF PlayBegins
<1>3. /\ Len(events) \in Nat /\ Len(tape) \in Nat /\ point \in Nat /\ Len(tape) = point + 1
      /\ cursor = Len(events) /\ m = tape[point + 1].m /\ pending = WishIn(point)
      /\ \A i \in 1 .. Len(events) : events[i].ordinal < point
    BY <1>2, TypeFacts DEF Modes, CursorIs, AtPoint, Wishes
<1>4. point \in 0 .. Len(tape) - 1
    BY <1>3
<1>5. tape[point + 1].cursor = Len(events)
    <2>1. /\ tape[point + 1].cursor \in 0 .. Len(events)
          /\ \A i \in 1 .. Len(events) :
                i <= tape[point + 1].cursor <=> events[i].ordinal < point
        BY <1>4 DEF Handed
    <2>2. PICK all \in Nat, past \in Nat :
            all = Len(events) /\ past = tape[point + 1].cursor /\ past <= all
        BY <1>3, <2>1
    <2>3. \A i \in 1 .. all : i <= past
        BY <1>3, <2>1, <2>2
    <2>4. past = all
        <3>1. all # 0 => all \in 1 .. all
            BY <2>2
        <3>2. all # 0 => all <= past
            BY <2>3, <3>1
        <3> QED
            BY <2>2, <3>2
    <2> QED
        BY <2>2, <2>4
<1>6. /\ batch \in Seq(RecordedEvent) /\ Len(batch) \in Nat
      /\ \A i \in 1 .. Len(batch) : /\ batch[i].ordinal = point
                                    /\ batch[i].channel = "practice" => point = 0
    BY BatchIs
<1>7. /\ events' \in Seq(RecordedEvent)
      /\ Len(events') \in Nat /\ Len(events') = Len(events) + Len(batch)
      /\ \A i \in 1 .. Len(events) : events'[i] = events[i]
      /\ \A i \in 1 .. Len(events') : i > Len(events) =>
            /\ i - Len(events) \in 1 .. Len(batch)
            /\ events'[i] = batch[i - Len(events)]
      /\ SubSeq(events', Len(events) + 1, Len(events')) = batch
      /\ \A from, to \in Nat : from > 0 /\ to <= Len(events) =>
            SubSeq(events', from, to) = SubSeq(events, from, to)
    BY <1>1, EventsGrow
<1>8. \A i \in 1 .. Len(events') :
        /\ i > Len(events) => events'[i].ordinal = point
        /\ i > Len(events) /\ events'[i].channel = "practice" => point = 0
    BY <1>6, <1>7
<1>9. Practised' <=> Practised \/ \E i \in 1 .. Len(batch) : batch[i].channel = "practice"
    <2>1. Practised => Practised'
        BY <1>3, <1>6, <1>7 DEF Practised
    <2>2. (\E i \in 1 .. Len(batch) : batch[i].channel = "practice") => Practised'
        <3>1. SUFFICES ASSUME NEW i \in 1 .. Len(batch), batch[i].channel = "practice"
                       PROVE  Practised'
            OBVIOUS
        <3>2. PICK j : j = Len(events) + i
            OBVIOUS
        <3>3. j \in 1 .. Len(events') /\ j > Len(events) /\ j - Len(events) = i
            BY <1>3, <1>6, <1>7, <3>2
        <3> QED
            BY <1>7, <3>1, <3>3 DEF Practised
    <2>3. Practised' => Practised \/ \E i \in 1 .. Len(batch) : batch[i].channel = "practice"
        <3>1. SUFFICES ASSUME NEW i \in 1 .. Len(events'), events'[i].channel = "practice"
                       PROVE  \/ Practised
                              \/ \E j \in 1 .. Len(batch) : batch[j].channel = "practice"
            BY DEF Practised
        <3>2. CASE i <= Len(events)
            BY <1>3, <1>7, <3>1, <3>2 DEF Practised
        <3>3. CASE i > Len(events)
            BY <1>7, <3>1, <3>3
        <3> QED
            BY <1>3, <3>2, <3>3
    <2> QED
        BY <2>1, <2>2, <2>3
<1>10. point # 0 => (Practised' <=> Practised)
    BY <1>6, <1>9
<1>11. m' \in Machine
    BY <1>1, <1>6, GivenIs, TickedIs DEF TypeOK
<1>12. seen' \in SUBSET Positions
    BY <1>2 DEF SeenAtFrame, TypeOK
<1>13. TypeOK'
    BY <1>1, <1>2, <1>7, <1>11, <1>12, TypesKept, ReplayAssumption DEF TypeOK, Wished
<1>14. Modes' /\ Kinds' /\ AtPoint' /\ Following' /\ Reproduces' /\ NoFalseAlarm'
    BY <1>2, <1>3 DEF Modes, Kinds, AtPoint, Following, Reproduces, NoFalseAlarm, Stopped
<1>15. Handed'
    <2>1. ASSUME NEW p \in 0 .. Len(tape) - 1
          PROVE  /\ tape[p + 1].cursor \in 0 .. Len(events')
                 /\ \A i \in 1 .. Len(events') :
                        i <= tape[p + 1].cursor <=> events'[i].ordinal < p
        <3>1. PICK c : c = tape[p + 1].cursor
            OBVIOUS
        <3>2. c \in 0 .. Len(events)
            BY <3>1 DEF Handed
        <3>3. \A i \in 1 .. Len(events) : i <= c <=> events[i].ordinal < p
            BY <3>1 DEF Handed
        <3>4. \A i \in 1 .. Len(events') : i <= c <=> events'[i].ordinal < p
            <4>1. SUFFICES ASSUME NEW i \in 1 .. Len(events')
                           PROVE  i <= c <=> events'[i].ordinal < p
                OBVIOUS
            <4>2. CASE i <= Len(events)
                BY <1>3, <1>7, <3>3, <4>2
            <4>3. CASE i > Len(events)
                BY <1>3, <1>8, <3>2, <4>3
            <4> QED
                BY <1>3, <4>2, <4>3
        <3> QED
            BY <1>3, <1>6, <1>7, <3>1, <3>2, <3>4
    <2> QED
        BY <1>2, <2>1 DEF Handed
<1>16. CursorIs'
    <2>1. \A i \in 1 .. Len(events') : events'[i].ordinal <= point
        <3>1. SUFFICES ASSUME NEW i \in 1 .. Len(events')
                       PROVE  events'[i].ordinal <= point
            OBVIOUS
        <3>2. CASE i <= Len(events)
            <4>1. events[i].ordinal \in Nat
                BY <3>2, TypeFacts DEF RecordedEvent
            <4> QED
                BY <1>3, <1>7, <3>2, <4>1
        <3>3. CASE i > Len(events)
            BY <1>3, <1>8, <3>3
        <3> QED
            BY <1>3, <3>2, <3>3
    <2> QED
        BY <1>1, <1>2, <2>1 DEF CursorIs
<1>17. AllRecorded'
    <2>1. Runs' = Runs
        BY <1>2, TypesKept DEF Runs, Moment
    <2>2. SUFFICES ASSUME NEW p \in 0 .. Len(tape) - 2
                   PROVE  \E n \in Sizes, run \in Runs : Recorded(p, run, n)'
        BY <1>2, <2>1 DEF AllRecorded, Sizes
    <2>3. PICK n \in Sizes, run \in Runs : Recorded(p, run, n)
        BY DEF AllRecorded
    <2>4. PICK to : to = tape[p + 2].cursor
        OBVIOUS
    <2>5. p \in Nat /\ p \in 0 .. Len(tape) - 1 /\ p + 1 \in 0 .. Len(tape) - 1 /\ point # 0
        BY <1>3
    <2>6. to \in 0 .. Len(events) /\ tape[p + 1].cursor \in 0 .. Len(events)
        <3>1. PICK q : q = p + 1
            OBVIOUS
        <3>2. tape[q + 1].cursor \in 0 .. Len(events) /\ q + 1 = p + 2
            BY <2>5, <3>1 DEF Handed
        <3> QED
            BY <2>4, <2>5, <3>2 DEF Handed
    <2>7. SubSeq(events', tape[p + 1].cursor + 1, to) = SubSeq(events, tape[p + 1].cursor + 1, to)
        <3>1. PICK from : from = tape[p + 1].cursor + 1
            OBVIOUS
        <3>2. from \in Nat /\ from > 0 /\ to \in Nat /\ to <= Len(events)
            BY <1>3, <2>6, <3>1
        <3> QED
            BY <1>7, <3>1, <3>2
    <2>8. Begun(p, to)' = Begun(p, to)
        BY <1>2, <2>7 DEF Begun, Ticked, Given
    <2>9. Recorded(p, run, n)' <=> Recorded(p, run, n)
        BY <1>2, <1>3, <1>10, <2>4, <2>5, <2>8, RecordedKept
    <2> QED
        BY <2>3, <2>9
<1>18. Wishes'
    <2>1. CASE point = 0
        <3>1. Len(events) = 0
            BY <1>3, <2>1, TypeFacts DEF RecordedEvent
        <3>2. ~Practised
            BY <3>1 DEF Practised
        <3>3. pending = "none"
            BY <1>3, <2>1, <3>2 DEF WishIn, Waiting
        <3>4. pending' = IF Practised' THEN "position" ELSE "none"
            BY <1>1, <1>9, <3>2, <3>3 DEF Wished
        <3>5. Waiting(0)' <=> Practised'
            BY DEF Waiting
        <3>6. WishIn(0)' = pending'
            BY <3>4, <3>5 DEF WishIn
        <3> QED
            BY <1>2, <2>1, <3>4, <3>6 DEF Wishes
    <2>2. CASE point # 0
        <3>1. PICK p : p = point
            OBVIOUS
        <3>2. WishIn(p)' = WishIn(p)
            BY <1>2, <1>10, <2>2, WishKept
        <3>3. pending' = pending
            BY <1>1, <1>6, <2>2 DEF Wished
        <3>4. WishIn(point)' = WishIn(point)
            BY <1>2, <3>1, <3>2
        <3> QED
            BY <1>2, <1>3, <1>10, <2>2, <3>3, <3>4 DEF Wishes
    <2> QED
        BY <2>1, <2>2
<1>19. Playing'
    <2>1. PICK run \in Runs : run[1].m = m' /\ run[1].seen = seen'
        <3> DEFINE one == [j \in Nat |-> [m |-> m', seen |-> seen']]
        <3>1. one \in Runs /\ one[1].m = m' /\ one[1].seen = seen'
            BY <1>11, <1>12 DEF Runs, Moment
        <3> HIDE DEF one
        <3> QED
            BY <3>1
    <2>2. run[1].m.count = run[1].m.count + 1 - 1
        BY <1>11, <2>1 DEF Machine
    <2>3. PICK p : p = point
        OBVIOUS
    <2>4. PICK to : to = cursor'
        OBVIOUS
    <2>5. Begun(p, to)' = m'
        <3>1. SubSeq(events', tape'[p + 1].cursor + 1, to) = batch /\ tape'[p + 1].m = m
            BY <1>1, <1>2, <1>3, <1>5, <1>7, <2>3, <2>4
        <3>2. Begun(p, to)' =
                Ticked(Given(tape'[p + 1].m, SubSeq(events', tape'[p + 1].cursor + 1, to)))
            BY DEF Begun, Ticked, Given
        <3> QED
            BY <1>1, <3>1, <3>2
    <2>6. Fresh(p)' => seen' = {}
        <3>1. kind = "guest-fallback" => tape[p + 1].kind = "guest-fallback"
            BY <1>2, <2>3 DEF Kinds
        <3>2. Fresh(p)' <=> Fresh(p)
            BY <1>2 DEF Fresh
        <3> QED
            BY <1>2, <3>1, <3>2 DEF Fresh, SeenAtFrame
    <2>7. Course(p, to, run, 1)'
        <3>1. \A i \in 1 .. 1 : i = 1
            OBVIOUS
        <3>2. \A i \in 1 .. 1 - 1 : FALSE
            OBVIOUS
        <3> QED
            BY <2>1, <2>2, <2>5, <2>6, <3>1, <3>2 DEF Course
    <2>8. 1 \in Sizes /\ left' = Budget + 1 - 1
        BY <1>2, TypeFacts DEF Sizes
    <2>9. Runs' = Runs /\ Sizes' = Sizes
        BY <1>2, TypesKept DEF Runs, Moment, Sizes
    <2> QED
        BY <1>2, <2>1, <2>3, <2>4, <2>7, <2>8, <2>9 DEF Playing
<1> QED
    BY <1>13, <1>14, <1>15, <1>16, <1>17, <1>18, <1>19

\* The frame that ends is recorded with its run.
LEMMA PlayEndsKeeps ==
    ASSUME IInv, PlayEnds
    PROVE  IInv'
<1> USE DEF IInv, Layout
<1>a. PICK why : why = Why
    OBVIOUS
<1>1. /\ phase = "live" /\ frame = "play" /\ Stops
      /\ m' = Positioned(m, why, pending) /\ pending' = Wish(pending, why) /\ kind' = why
      /\ tape' = Append(tape, PointOf(m', why, cursor))
      /\ point' = point + 1 /\ frame' = "none"
      /\ UNCHANGED <<carrier, program>>
      /\ UNCHANGED <<events, phase, left, seen, cursor, target, missed>>
    BY <1>a DEF PlayEnds
<1>2. /\ Len(events) \in Nat /\ Len(tape) \in Nat /\ point \in Nat /\ Len(tape) = point + 1
      /\ point < MaxPoint /\ MaxPoint \in Nat
      /\ cursor = Len(events) /\ pending = WishIn(point)
      /\ carrier \in {"generated", "interpreter"}
    BY <1>1, TypeFacts DEF Modes, CursorIs, Wishes
<1>3. why \in Ends
    BY <1>a DEF Why, Ends
<1>4. m' \in Machine
    BY <1>1, PositionedIs DEF TypeOK
<1>5. PointOf(m', why, cursor) \in RecordedPoint
    BY <1>2, <1>3, <1>4 DEF PointOf, RecordedPoint
<1>6. tape \in Seq(RecordedPoint)
    BY DEF TypeOK
<1>7. /\ tape' \in Seq(RecordedPoint) /\ Len(tape') = point + 2
      /\ \A q \in 1 .. Len(tape) : tape'[q] = tape[q]
      /\ tape'[Len(tape) + 1] = PointOf(m', why, cursor)
    BY <1>1, <1>2, <1>5, <1>6, AppendProperties
<1>8. /\ tape'[point + 2].m = m' /\ tape'[point + 2].kind = why
      /\ tape'[point + 2].cursor = cursor
      /\ \A q \in 1 .. point + 1 : tape'[q] = tape[q]
    BY <1>2, <1>7 DEF PointOf
<1>9. point' \in Nat /\ point' + 1 = point + 2 /\ tape'[point' + 1] = tape'[point + 2]
    BY <1>1, <1>2
<1>10. TypeOK'
    <2>1. pending' \in {"none", "position"} /\ kind' \in Ends \cup {"none"}
        BY <1>1, <1>3 DEF Wish, TypeOK
    <2>2. point' \in 0 .. MaxPoint
        BY <1>1, <1>2
    <2> QED
        BY <1>1, <1>4, <1>7, <2>1, <2>2, TypesKept DEF TypeOK
<1>11. Modes' /\ Following' /\ Reproduces' /\ NoFalseAlarm' /\ Playing'
    BY <1>1, <1>2, <1>7 DEF Modes, Following, Reproduces, NoFalseAlarm, Playing, Stopped
<1>12. Kinds' /\ AtPoint'
    BY <1>1, <1>8, <1>9 DEF Kinds, AtPoint
<1>13. Handed'
    <2>1. \A i \in 1 .. Len(events) : events[i].ordinal \in Nat /\ events[i].ordinal <= point
        BY <1>1, TypeFacts DEF CursorIs, RecordedEvent
    <2>2. ASSUME NEW p \in 0 .. Len(tape') - 1
          PROVE  /\ tape'[p + 1].cursor \in 0 .. Len(events)
                 /\ \A i \in 1 .. Len(events) :
                        i <= tape'[p + 1].cursor <=> events[i].ordinal < p
        <3>1. CASE p \in 0 .. Len(tape) - 1
            <4>1. tape'[p + 1] = tape[p + 1]
                BY <1>2, <1>8, <3>1
            <4> QED
                BY <3>1, <4>1 DEF Handed
        <3>2. CASE p = point + 1
            <4>1. tape'[p + 1].cursor = Len(events)
                BY <1>2, <1>8, <3>2
            <4> QED
                BY <1>2, <2>1, <3>2, <4>1
        <3> QED
            BY <1>2, <1>7, <3>1, <3>2
    <2> QED
        BY <1>1, <2>2 DEF Handed
<1>14. CursorIs'
    <2>1. \A i \in 1 .. Len(events) : events[i].ordinal <= point + 1 /\ events[i].ordinal < point + 1
        BY <1>1, <1>2, TypeFacts DEF CursorIs, RecordedEvent
    <2> QED
        BY <1>1, <1>2, <2>1 DEF CursorIs
<1>15. Practised' <=> Practised
    BY <1>1 DEF Practised
<1>16. \A p, to : p \in 0 .. point => Begun(p, to)' = Begun(p, to)
    <2>1. SUFFICES ASSUME NEW p \in 0 .. point, NEW to
                   PROVE  Begun(p, to)' = Begun(p, to)
        OBVIOUS
    <2>2. tape'[p + 1] = tape[p + 1]
        BY <1>2, <1>8
    <2> QED
        BY <1>1, <2>2 DEF Begun, Ticked, Given
<1>17. AllRecorded'
    <2>1. Runs' = Runs
        BY <1>1, TypesKept DEF Runs, Moment
    <2>2. SUFFICES ASSUME NEW p \in 0 .. point
                   PROVE  \E n \in Sizes, run \in Runs : Recorded(p, run, n)'
        <3>1. 0 .. Len(tape)' - 2 = 0 .. point
            BY <1>2, <1>7
        <3>2. Sizes' = Sizes
            BY DEF Sizes
        <3> QED
            BY <2>1, <3>1, <3>2 DEF AllRecorded
    <2>3. CASE p \in 0 .. Len(tape) - 2
        <3>1. PICK n \in Sizes, run \in Runs : Recorded(p, run, n)
            BY <2>3 DEF AllRecorded
        <3>2. PICK to : to = tape[p + 2].cursor
            OBVIOUS
        <3>3. Begun(p, to)' = Begun(p, to)
            BY <1>16
        <3>4. Recorded(p, run, n)' <=> Recorded(p, run, n)
            BY <1>1, <1>2, <1>7, <1>15, <2>3, <3>2, <3>3, RecordedKept
        <3> QED
            BY <3>1, <3>4
    <2>4. CASE p = point
        <3>1. PICK i \in Sizes, run \in Runs :
                /\ Course(point, cursor, run, i)
                /\ m = run[i].m /\ seen = run[i].seen /\ left = Budget + 1 - i
            BY <1>1 DEF Playing
        <3>2. PICK to : to = cursor
            OBVIOUS
        <3>3. tape'[p + 1] = tape[p + 1] /\ Begun(p, to)' = Begun(p, to)
            BY <1>2, <1>8, <1>16, <2>4
        <3>4. Course(p, to, run, i)' <=> Course(p, to, run, i)
            BY <1>1, <3>3, CourseKept
        <3>5. Course(p, to, run, i)'
            BY <2>4, <3>1, <3>2, <3>4
        <3>6. i \in Nat /\ i <= Budget + 1 /\ Budget \in Nat /\ (left = 0 <=> i = Budget + 1)
            BY <3>1, TypeFacts DEF Sizes
        <3>7. Going(run[i])' <=> Going(run[i])
            BY <1>1, Steady DEF Going
        <3>8. i <= Budget => ~Going(run[i])
            BY <1>1, <3>1, <3>6 DEF Stops, Going
        <3>9. why = Ending(run[i], i)
            BY <1>a, <3>1, <3>6 DEF Why, Ending
        <3>10. Ending(run[i], i)' = Ending(run[i], i)
            BY <1>1, Steady DEF Ending
        <3>11. WishIn(p)' = WishIn(p)
            <4>1. \A q \in 1 .. p : tape'[q + 1].kind = tape[q + 1].kind
                BY <1>2, <1>8, <2>4
            <4> QED
                BY <1>1, <1>15, <4>1, WishKept
        <3>12. m' = Positioned(run[i].m, why, WishIn(p))
            BY <1>1, <1>2, <2>4, <3>1
        <3>13. \A mm, wish : Positioned(mm, why, wish)' = Positioned(mm, why, wish)
            BY <1>1, Steady
        <3>14. /\ tape'[p + 2].cursor = to /\ tape'[p + 2].kind = why
               /\ tape'[p + 2].m = m'
            BY <1>8, <2>4, <3>2
        <3>15. Recorded(p, run, i)'
            BY <3>5, <3>7, <3>8, <3>9, <3>10, <3>11, <3>12, <3>13, <3>14 DEF Recorded
        <3> QED
            BY <3>15
    <2> QED
        BY <1>2, <2>3, <2>4
<1>18. Wishes'
    <2>1. PICK p : p = point
        OBVIOUS
    <2>2. PICK q : q = p + 1
        OBVIOUS
    <2>3. \A x \in 1 .. p : tape'[x + 1].kind = tape[x + 1].kind
        BY <1>2, <1>8, <2>1
    <2>4. p \in Nat /\ tape'[q + 1].kind = why
        BY <1>2, <1>8, <2>1, <2>2
    <2>5. WishIn(q)' = Wish(WishIn(p), why)
        BY <1>1, <1>2, <1>15, <2>2, <2>3, <2>4, WishAdvances
    <2>6. pending' = WishIn(point)'
        BY <1>1, <1>2, <2>1, <2>2, <2>5
    <2> QED
        BY <1>1, <2>6 DEF Wishes
<1> QED
    BY <1>10, <1>11, <1>12, <1>13, <1>14, <1>17, <1>18

-----------------------------------------------------------------------------
(* Between the frames of a replay.                                         *)

LEMMA StartReplayKeeps ==
    ASSUME IInv, StartReplay
    PROVE  IInv'
<1> USE DEF IInv, Layout
<1>1. /\ phase = "live" /\ frame = "none" /\ point = MaxPoint
      /\ phase' = "replay" /\ m' = tape[1].m /\ seen' = {} /\ kind' = "none"
      /\ pending' = "none" /\ point' = 0 /\ cursor' = 0 /\ target' = 0
      /\ UNCHANGED recording
      /\ UNCHANGED <<carrier, program, events, tape>>
      /\ UNCHANGED <<frame, left, missed>>
    BY DEF StartReplay, recording
<1>2. /\ Len(tape) = MaxPoint + 1 /\ MaxPoint \in Nat \ {0} /\ Len(events) \in Nat
      /\ 0 \in 0 .. Len(tape) - 1
    BY <1>1, TypeFacts DEF Modes
<1>3. tape[1] = tape[0 + 1]
    OBVIOUS
<1>4. tape[1].m \in Machine /\ tape[1].cursor \in 0 .. Len(events)
    BY <1>2, <1>3, TypeFacts DEF Handed
<1>5. tape[1].cursor = 0
    <2>1. \A i \in 1 .. Len(events) : i <= tape[1].cursor => events[i].ordinal < 0
        BY <1>2, <1>3 DEF Handed
    <2>2. \A i \in 1 .. Len(events) : events[i].ordinal \in Nat
        BY TypeFacts DEF RecordedEvent
    <2>3. PICK c : c = tape[1].cursor
        OBVIOUS
    <2>4. c \in 0 .. Len(events)
        BY <1>4, <2>3
    <2>5. CASE c \in 1 .. Len(events)
        <3>1. events[c].ordinal < 0
            BY <2>1, <2>3, <2>4, <2>5
        <3>2. events[c].ordinal \in Nat
            BY <2>2, <2>5
        <3> QED
            BY <3>1, <3>2
    <2> QED
        BY <1>2, <2>3, <2>4, <2>5
<1>6. TypeOK'
    BY <1>1, <1>2, <1>4, TypesKept DEF TypeOK, Positions
<1>7. Handed' /\ AllRecorded'
    BY <1>1, RecordingKept
<1>8. Modes' /\ Wishes' /\ Kinds' /\ AtPoint' /\ Playing' /\ Following' /\ NoFalseAlarm'
    BY <1>1, <1>2 DEF Modes, Wishes, Kinds, AtPoint, Playing, Following, NoFalseAlarm, Stopped
<1>9. CursorIs' /\ Reproduces'
    BY <1>1, <1>5 DEF CursorIs, Reproduces
<1> QED
    BY <1>6, <1>7, <1>8, <1>9

LEMMA ReplayToKeeps ==
    ASSUME IInv, ReplayTo
    PROVE  IInv'
<1> USE DEF IInv, Layout
<1>1. /\ phase = "replay" /\ point = target /\ target' \in (point + 1) .. MaxPoint
      /\ UNCHANGED recording
      /\ UNCHANGED <<carrier, program, events, tape>>
      /\ UNCHANGED <<seen, kind, pending, phase, frame, left, m, point, cursor, missed>>
    BY DEF ReplayTo, recording, host
<1>2. TypeOK'
    <2>1. target' \in 0 .. MaxPoint
        BY <1>1, TypeFacts
    <2> QED
        BY <1>1, <2>1, TypesKept DEF TypeOK
<1>3. Handed' /\ AllRecorded'
    BY <1>1, RecordingKept
<1>4. (Exact' <=> Exact) /\ (Sliced' <=> Sliced)
    BY <1>1, RecordingKept, ExactKept
<1>5. frame = "none"
    BY <1>1, TypeFacts DEF Modes
<1>6. /\ Modes' /\ CursorIs' /\ Kinds' /\ AtPoint' /\ Playing' /\ Following'
      /\ Reproduces' /\ NoFalseAlarm'
    BY <1>1, <1>4, <1>5 DEF Modes, CursorIs, Kinds, AtPoint, Playing, Following, Reproduces,
                            NoFalseAlarm, Stopped
<1>7. Wishes'
    BY <1>1, <1>5 DEF Wishes
<1> QED
    BY <1>2, <1>3, <1>6, <1>7

\* A restored machine is the one of its point; what the host keeps is not
\* restored.
LEMMA RestoreKeeps ==
    ASSUME IInv, Restore
    PROVE  IInv'
<1> USE DEF IInv, Layout
<1>1. PICK p \in 0 .. MaxPoint :
        /\ m' = tape[p + 1].m /\ cursor' = tape[p + 1].cursor
        /\ point' = p /\ target' = p
    BY DEF Restore, Seek
<1>2. /\ phase \in {"replay"} \cup Stopped /\ phase' = "replay"
      /\ phase = "replay" => point = target
      /\ missed' = (missed /\ carrier = "generated")
      /\ UNCHANGED recording
      /\ UNCHANGED <<carrier, program, events, tape>>
      /\ UNCHANGED <<seen, kind, pending, frame, left>>
    BY DEF Restore, recording, host
<1>3. /\ Len(tape) = MaxPoint + 1 /\ MaxPoint \in Nat \ {0} /\ Len(events) \in Nat
      /\ p \in 0 .. Len(tape) - 1 /\ phase # "live"
    BY <1>2, TypeFacts DEF Modes, Stopped
<1>4. tape[p + 1].m \in Machine /\ tape[p + 1].cursor \in 0 .. Len(events)
    BY <1>3, TypeFacts DEF Handed
<1>5. TypeOK'
    BY <1>1, <1>2, <1>3, <1>4, TypesKept DEF TypeOK
<1>6. frame = "none"
    BY <1>2, TypeFacts DEF Modes
<1>7. Handed' /\ AllRecorded' /\ (Sliced' <=> Sliced)
    BY <1>2, RecordingKept
<1>8. Modes' /\ AtPoint' /\ Playing' /\ Following' /\ NoFalseAlarm' /\ Kinds'
    BY <1>1, <1>2, <1>3, <1>6, <1>7
    DEF Modes, AtPoint, Playing, Following, NoFalseAlarm, Kinds, Exact, Stopped
<1>9. CursorIs' /\ Reproduces'
    BY <1>1, <1>2, <1>6 DEF CursorIs, Reproduces
<1>10. Wishes'
    BY <1>2, <1>3, <1>6 DEF Wishes
<1> QED
    BY <1>5, <1>7, <1>8, <1>9, <1>10

LEMMA ReadSurfacesKeeps ==
    ASSUME IInv, ReadSurfaces
    PROVE  IInv'
<1> USE DEF IInv, Layout
<1>1. /\ phase = "replay" /\ frame = "none" /\ point < target
      /\ m' = Given(m, Due) /\ cursor' = DueTo /\ phase' = "console"
      /\ UNCHANGED recording
      /\ UNCHANGED <<carrier, program, events, tape>>
      /\ UNCHANGED <<seen, kind, pending, frame, left, point, target, missed>>
    BY DEF ReadSurfaces, recording, host
<1>2. Due \in Seq(RecordedEvent) /\ cursor' \in cursor .. Len(events)
    BY <1>1, DueIs
<1>3. m' \in Machine /\ cursor' \in 0 .. Len(events)
    BY <1>1, <1>2, GivenIs, TypeFacts DEF TypeOK
<1>4. TypeOK'
    BY <1>1, <1>3, TypesKept DEF TypeOK, Stopped
<1>5. Handed' /\ AllRecorded' /\ (Exact' <=> Exact)
    BY <1>1, RecordingKept, ExactKept
<1>6. /\ Modes' /\ CursorIs' /\ Wishes' /\ Kinds' /\ AtPoint' /\ Playing' /\ Following'
      /\ Reproduces' /\ NoFalseAlarm'
    BY <1>1, <1>5 DEF Modes, CursorIs, Wishes, Kinds, AtPoint, Playing, Following,
                      Reproduces, NoFalseAlarm, Stopped
<1> QED
    BY <1>4, <1>5, <1>6

-----------------------------------------------------------------------------
(* The frames of a replay.                                                 *)

\* An exact replay begins a frame where the recording began it.
LEMMA ReplayBeginsKeeps ==
    ASSUME IInv, ReplayBegins
    PROVE  IInv'
<1> USE DEF IInv, Layout
<1>1. /\ phase = "replay" /\ frame = "none" /\ point < target
      /\ m' = Ticked(Given(m, Due)) /\ cursor' = DueTo
      /\ UNCHANGED recording
      /\ UNCHANGED <<carrier, program, events, tape>>
      /\ UNCHANGED <<phase, kind, pending, point, target>>
      /\ IF Expected.kind = "guest-fallback"
         THEN frame' = "slice" /\ UNCHANGED <<seen, left>>
         ELSE /\ frame' = "play" /\ seen' = SeenAtFrame
              /\ left' = IF carrier = "interpreter" THEN SeekBudget ELSE Budget
      /\ missed' = (missed \/ Waiting(point))
    BY DEF ReplayBegins, recording
<1>2. /\ Due \in Seq(RecordedEvent) /\ cursor' \in cursor .. Len(events)
      /\ cursor' = tape[point + 2].cursor
      /\ Due = SubSeq(events, tape[point + 1].cursor + 1, tape[point + 2].cursor)
    BY <1>1, DueIs
<1>3. /\ Len(tape) = MaxPoint + 1 /\ MaxPoint \in Nat /\ point \in Nat /\ point < MaxPoint
      /\ carrier \in {"generated", "interpreter"}
    BY <1>1, TypeFacts DEF Modes
<1>4. m' \in Machine /\ cursor' \in 0 .. Len(events)
    <2>1. Given(m, Due) \in Machine
        BY <1>2, GivenIs DEF TypeOK
    <2>2. m' \in Machine
        BY <1>1, <2>1, TickedIs
    <2> QED
        BY <1>2, <2>2, TypeFacts
<1>5. /\ seen' \in SUBSET Positions /\ left' \in Nat
      /\ frame' \in {"play", "slice"} /\ (frame' = "slice" <=> Expected.kind = "guest-fallback")
    BY <1>1, TypeFacts DEF SeenAtFrame, TypeOK
<1>6. TypeOK'
    BY <1>1, <1>4, <1>5, TypesKept DEF TypeOK
<1>7. /\ Handed' /\ AllRecorded' /\ (Sliced' <=> Sliced) /\ (Practised' <=> Practised)
      /\ Runs' = Runs
    BY <1>1, RecordingKept
<1>8. Exact' => Exact
    BY <1>1, <1>7 DEF Exact
<1>9. Modes' /\ AtPoint' /\ Playing' /\ Reproduces' /\ NoFalseAlarm' /\ Kinds' /\ CursorIs'
    BY <1>1, <1>2, <1>5, <1>7, <1>8 DEF Modes, AtPoint, Playing, Reproduces, NoFalseAlarm,
                                       Kinds, CursorIs, Expected, Stopped
<1>10. PICK p : p = point
    OBVIOUS
<1>11. p \in 0 .. Len(tape) - 2
    BY <1>3, <1>10
<1>12. Wishes'
    <2>1. Waiting(p)' <=> Waiting(p)
        BY <1>1 DEF Waiting, Practised, Applies
    <2> QED
        BY <1>1, <1>10, <2>1 DEF Wishes
<1>13. Following'
    <2>1. SUFFICES ASSUME Exact
                   PROVE  \E n \in Sizes, run \in Runs : \E i \in 1 .. n :
                            /\ Recorded(p, run, n)'
                            /\ m' = run[i].m
                            /\ frame' = "play" => seen' = run[i].seen /\ left' = Allowed + 1 - i
        BY <1>1, <1>7, <1>8, <1>10 DEF Following, Sizes, Allowed
    <2>2. PICK n \in Sizes, run \in Runs : Recorded(p, run, n)
        BY <1>11 DEF AllRecorded
    <2>3. Recorded(p, run, n)'
        BY <1>1, <1>11, <2>2, RecordingKept
    <2>4. 1 \in 1 .. n
        BY TypeFacts DEF Sizes
    <2>5. m = tape[p + 1].m
        BY <1>1, <1>10, <2>1 DEF Reproduces
    <2>6. m' = run[1].m
        BY <1>1, <1>2, <1>10, <2>2, <2>5 DEF Recorded, Course, Begun
    <2>7. frame' = "play" => left' = Allowed + 1 - 1
        BY <1>1, TypeFacts DEF Allowed
    <2>8. frame' = "play" => seen' = run[1].seen
        <3>1. SUFFICES ASSUME frame' = "play"
                       PROVE  seen' = run[1].seen
            OBVIOUS
        <3>2. CASE carrier = "interpreter"
            <4>1. run[1].seen = {}
                BY <2>2, <3>2 DEF Recorded, Course, Fresh
            <4> QED
                BY <1>1, <3>1, <3>2, <4>1 DEF SeenAtFrame
        <3>3. CASE carrier = "generated"
            <4>1. ~Sliced
                BY <2>1, <3>3 DEF Exact
            <4>2. p + 1 \in 1 .. Len(tape)
                BY <1>3, <1>10
            <4>3. tape[p + 1].kind # "guest-fallback" /\ kind # "guest-fallback"
                BY <1>1, <2>1, <3>3, <4>1, <4>2 DEF Sliced, Kinds
            <4>4. run[1].seen = {}
                BY <2>2, <4>3 DEF Recorded, Course, Fresh
            <4> QED
                BY <1>1, <3>1, <4>3, <4>4 DEF SeenAtFrame
        <3> QED
            BY <1>3, <3>2, <3>3
    <2> QED
        BY <2>3, <2>4, <2>6, <2>7, <2>8
<1> QED
    BY <1>6, <1>7, <1>9, <1>12, <1>13

\* It ends a frame where the recording ended it.
LEMMA ReplayEndsKeeps ==
    ASSUME IInv, ReplayEnds
    PROVE  IInv'
<1> USE DEF IInv, Layout
<1>a. PICK why : why = Why
    OBVIOUS
<1>1. /\ phase = "replay" /\ frame = "play" /\ Stops
      /\ m' = Positioned(m, why, pending) /\ pending' = Wish(pending, why) /\ kind' = why
      /\ frame' = "none"
      /\ UNCHANGED recording
      /\ UNCHANGED <<carrier, program, events, tape>>
      /\ UNCHANGED <<left, seen, cursor, target, missed>>
      /\ IF why = Expected.kind /\ m.pos = Expected.m.pos
         THEN phase' = phase /\ point' = point + 1
         ELSE phase' = "differs" /\ point' = point
    BY <1>a DEF ReplayEnds, recording, PointAfter
<1>2. /\ Len(tape) = MaxPoint + 1 /\ MaxPoint \in Nat /\ point \in Nat /\ point < MaxPoint
      /\ carrier \in {"generated", "interpreter"}
      /\ Expected.kind # "guest-fallback"
    BY <1>1, TypeFacts DEF Modes
<1>3. why \in Ends
    BY <1>a DEF Why, Ends
<1>4. TypeOK'
    <2>1. m' \in Machine
        BY <1>1, PositionedIs DEF TypeOK
    <2>2. pending' \in {"none", "position"} /\ point' \in 0 .. MaxPoint
        BY <1>1, <1>2 DEF Wish, TypeOK
    <2> QED
        BY <1>1, <1>3, <2>1, <2>2, TypesKept DEF TypeOK, Stopped
<1>5. /\ Handed' /\ AllRecorded' /\ (Sliced' <=> Sliced) /\ (Practised' <=> Practised)
      /\ (Exact' <=> Exact)
    BY <1>1, RecordingKept, ExactKept
<1>6. Exact =>
        /\ why = Expected.kind /\ m.pos = Expected.m.pos
        /\ m' = Expected.m
    <2>1. SUFFICES ASSUME Exact
                   PROVE  /\ why = Expected.kind /\ m.pos = Expected.m.pos
                          /\ m' = Expected.m
        OBVIOUS
    <2>2. PICK n \in Sizes, run \in Runs : \E i \in 1 .. n :
            /\ Recorded(point, run, n)
            /\ m = run[i].m /\ seen = run[i].seen /\ left = Allowed + 1 - i
        BY <1>1, <2>1 DEF Following
    <2>3. PICK i \in 1 .. n :
            /\ Recorded(point, run, n)
            /\ m = run[i].m /\ seen = run[i].seen /\ left = Allowed + 1 - i
        BY <2>2
    <2>4. i = n /\ why = Expected.kind
        BY <1>1, <1>a, <2>1, <2>3, FrameStops
    <2>5. pending = WishIn(point)
        BY <1>1, <2>1, NothingWaits
    <2>6. Expected.m = Positioned(m, why, pending)
        BY <2>3, <2>4, <2>5 DEF Recorded, Expected
    <2>7. m.pos = Expected.m.pos
        BY <2>6, PositionedIs DEF TypeOK
    <2> QED
        BY <1>1, <2>4, <2>5, <2>6, <2>7
<1>7. Modes' /\ AtPoint' /\ Playing' /\ Following'
    BY <1>1, <1>2 DEF Modes, AtPoint, Playing, Following, Stopped
<1>8. NoFalseAlarm'
    BY <1>1, <1>5, <1>6 DEF NoFalseAlarm
<1>9. Kinds'
    BY <1>1, <1>2, <1>5, <1>6 DEF Kinds
<1>10. phase' = "replay" => point' + 1 = point + 2 /\ tape'[point' + 1] = Expected
    BY <1>1, <1>2 DEF Expected
<1>11. CursorIs'
    BY <1>1, <1>10 DEF CursorIs, Expected
<1>12. Reproduces'
    BY <1>1, <1>5, <1>6, <1>10 DEF Reproduces
<1>13. Wishes'
    BY <1>1, <1>2, TypeFacts DEF Wishes, Wish, TypeOK
<1> QED
    BY <1>4, <1>5, <1>7, <1>8, <1>9, <1>11, <1>12, <1>13

\* In a slice of an exact replay the interpreter stands on the recorded run, and
\* comes to the recorded instruction at its end.
LEMMA SliceStands ==
    ASSUME IInv, frame = "slice"
    PROVE  /\ phase = "replay" /\ point < MaxPoint /\ Expected.kind = "guest-fallback"
           /\ Sliced
           /\ Exact => /\ carrier = "interpreter"
                       /\ \E n \in Sizes, run \in Runs : \E i \in 1 .. n :
                            /\ Recorded(point, run, n)
                            /\ m = run[i].m
                            /\ Reached <=> i = n
                            /\ Expected.m = run[n].m
<1> USE DEF IInv, Layout
<1>1. phase = "replay"
    BY DEF TypeOK, Modes
<1>2. /\ Len(tape) = MaxPoint + 1 /\ MaxPoint \in Nat /\ point \in Nat /\ point < MaxPoint
      /\ Expected.kind = "guest-fallback" /\ carrier \in {"generated", "interpreter"}
    BY <1>1, TypeFacts DEF Modes
<1>3. Sliced
    <2>1. point + 2 \in 1 .. Len(tape)
        BY <1>2
    <2> QED
        BY <1>2, <2>1 DEF Sliced, Expected
<1>4. ASSUME Exact
      PROVE  /\ carrier = "interpreter"
             /\ \E n \in Sizes, run \in Runs : \E i \in 1 .. n :
                    /\ Recorded(point, run, n)
                    /\ m = run[i].m
                    /\ Reached <=> i = n
                    /\ Expected.m = run[n].m
    <2>1. carrier = "interpreter"
        BY <1>3, <1>4 DEF Exact
    <2>2. PICK n \in Sizes, run \in Runs : \E i \in 1 .. n :
            Recorded(point, run, n) /\ m = run[i].m
        BY <1>1, <1>4 DEF Following
    <2>3. PICK i \in 1 .. n : Recorded(point, run, n) /\ m = run[i].m
        BY <2>2
    <2>4. n \in Nat /\ n >= 1
        BY TypeFacts DEF Sizes
    <2>5. Expected.m = run[n].m
        <3>1. run[n].m \in Machine
            BY <2>4, RunsAre
        <3>2. ~Applies("guest-fallback")
            BY <2>1 DEF Applies
        <3>3. Expected.m = Positioned(run[n].m, "guest-fallback", WishIn(point))
            BY <1>2, <2>3 DEF Recorded, Expected
        <3> QED
            BY <3>1, <3>2, <3>3, PositionedIs
    <2>6. PICK start : start = run[1].m.count
        OBVIOUS
    <2>7. start \in Nat
        BY <2>6, RunsAre DEF Machine
    <2>8. /\ run[i].m.count = start + i - 1
          /\ run[n].m.count = start + n - 1
        BY <2>3, <2>4, <2>6 DEF Recorded, Course
    <2>9. Reached <=> i = n
        BY <2>3, <2>4, <2>5, <2>7, <2>8 DEF Reached
    <2> QED
        BY <2>1, <2>3, <2>5, <2>9
<1> QED
    BY <1>1, <1>2, <1>3, <1>4

LEMMA SliceExecutesKeeps ==
    ASSUME IInv, SliceExecutes
    PROVE  IInv'
<1> USE DEF IInv, Layout
<1>1. /\ frame = "slice" /\ ~Reached /\ ~Blocked(m) /\ m' = Executed(m)
      /\ seen' = seen \/ seen' = Marked(m, seen)
      /\ UNCHANGED recording
      /\ UNCHANGED <<carrier, program, events, tape>>
      /\ UNCHANGED <<phase, frame, left, kind, pending, point, cursor, target, missed>>
    BY DEF SliceExecutes, recording
<1>2. phase = "replay" /\ point < MaxPoint
    BY <1>1, SliceStands
<1>3. TypeOK'
    <2>1. m' \in Machine
        BY <1>1, ExecutedIs DEF TypeOK
    <2>2. seen' \in SUBSET Positions
        BY <1>1, MarkedIs DEF TypeOK
    <2> QED
        BY <1>1, <2>1, <2>2, TypesKept DEF TypeOK
<1>4. /\ Handed' /\ AllRecorded' /\ (Sliced' <=> Sliced) /\ (Practised' <=> Practised)
      /\ (Exact' <=> Exact) /\ Runs' = Runs
    BY <1>1, RecordingKept, ExactKept
<1>5. /\ Modes' /\ CursorIs' /\ Kinds' /\ AtPoint' /\ Playing' /\ Reproduces' /\ NoFalseAlarm'
    BY <1>1, <1>2, <1>4 DEF Modes, CursorIs, Kinds, AtPoint, Playing, Reproduces, NoFalseAlarm,
                            Expected
<1>6. PICK p : p = point
    OBVIOUS
<1>7. WishIn(p)' = WishIn(p) /\ point' = p
    BY <1>1, <1>6, RecordingKept
<1>8. Wishes'
    <2>1. Waiting(p)' <=> Waiting(p)
        BY <1>1, ExactKept
    <2> QED
        BY <1>1, <1>2, <1>6, <1>7, <2>1 DEF Wishes
<1>9. Following'
    <2>1. SUFFICES ASSUME Exact
                   PROVE  \E n \in Sizes, run \in Runs : \E i \in 1 .. n :
                            Recorded(p, run, n)' /\ m' = run[i].m
        BY <1>1, <1>4, <1>7 DEF Following, Sizes
    <2>2. PICK n \in Sizes, run \in Runs : \E i \in 1 .. n :
            Recorded(point, run, n) /\ m = run[i].m /\ (Reached <=> i = n)
        BY <1>1, <2>1, SliceStands
    <2>3. PICK i \in 1 .. n : Recorded(point, run, n) /\ m = run[i].m /\ (Reached <=> i = n)
        BY <2>2
    <2>4. i \in 1 .. n - 1 /\ i + 1 \in 1 .. n
        BY <1>1, <2>3, TypeFacts DEF Sizes
    <2>5. m' = run[i + 1].m
        BY <1>1, <2>3, <2>4 DEF Recorded, Course
    <2>6. p \in 0 .. Len(tape) - 2
        BY <1>2, <1>6, TypeFacts DEF Modes
    <2>7. Recorded(p, run, n)'
        BY <1>1, <1>6, <2>3, <2>6, RecordingKept
    <2> QED
        BY <2>4, <2>5, <2>7
<1> QED
    BY <1>3, <1>4, <1>5, <1>8, <1>9

LEMMA SliceEndsKeeps ==
    ASSUME IInv, SliceEnds
    PROVE  IInv'
<1> USE DEF IInv, Layout
<1>1. /\ frame = "slice" /\ Reached /\ kind' = "guest-fallback" /\ frame' = "none"
      /\ UNCHANGED recording
      /\ UNCHANGED <<carrier, program, events, tape>>
      /\ UNCHANGED <<left, m, seen, pending, cursor, target, missed>>
      /\ IF m.pos = Expected.m.pos
         THEN phase' = phase /\ point' = point + 1
         ELSE phase' = "differs" /\ point' = point
    BY DEF SliceEnds, recording, PointAfter
<1>2. phase = "replay" /\ point < MaxPoint /\ Sliced /\ Expected.kind = "guest-fallback"
    BY <1>1, SliceStands
<1>3. /\ Len(tape) = MaxPoint + 1 /\ MaxPoint \in Nat /\ point \in Nat
      /\ carrier \in {"generated", "interpreter"}
    BY <1>2, TypeFacts DEF Modes
<1>4. TypeOK'
    <2>1. point' \in 0 .. MaxPoint
        BY <1>1, <1>2, <1>3
    <2> QED
        BY <1>1, <2>1, TypesKept DEF TypeOK, Ends, Stopped
<1>5. /\ Handed' /\ AllRecorded' /\ (Sliced' <=> Sliced) /\ (Practised' <=> Practised)
      /\ (Exact' <=> Exact)
    BY <1>1, RecordingKept, ExactKept
<1>6. Exact => m = Expected.m /\ carrier = "interpreter"
    <2>1. SUFFICES ASSUME Exact
                   PROVE  m = Expected.m /\ carrier = "interpreter"
        OBVIOUS
    <2>2. PICK n \in Sizes, run \in Runs : \E i \in 1 .. n :
            m = run[i].m /\ (Reached <=> i = n) /\ Expected.m = run[n].m
        BY <1>1, <2>1, SliceStands
    <2> QED
        BY <1>1, <2>1, <2>2, SliceStands
<1>7. Modes' /\ AtPoint' /\ Playing' /\ Following'
    BY <1>1, <1>2, <1>3 DEF Modes, AtPoint, Playing, Following, Stopped
<1>8. NoFalseAlarm' /\ Kinds'
    BY <1>1, <1>2, <1>5, <1>6 DEF NoFalseAlarm, Kinds
<1>9. phase' = "replay" => point' + 1 = point + 2 /\ tape'[point' + 1] = Expected
    BY <1>1, <1>3 DEF Expected
<1>10. CursorIs' /\ Reproduces'
    BY <1>1, <1>2, <1>5, <1>6, <1>9 DEF CursorIs, Reproduces, Expected
<1>11. Wishes'
    BY <1>1, <1>2 DEF Wishes, Stopped
<1> QED
    BY <1>4, <1>5, <1>7, <1>8, <1>10, <1>11

\* An exact replay has no slice that comes to a console read without a key.
LEMMA SliceBlocksKeeps ==
    ASSUME IInv, SliceBlocks
    PROVE  IInv'
<1> USE DEF IInv, Layout
<1>1. /\ frame = "slice" /\ ~Reached /\ Blocked(m) /\ point' = point + 1 /\ frame' = "none"
      /\ UNCHANGED recording
      /\ UNCHANGED <<carrier, program, events, tape>>
      /\ UNCHANGED <<seen, kind, pending, phase, left, m, cursor, target, missed>>
    BY DEF SliceBlocks, recording, host, PointAfter
<1>2. phase = "replay" /\ point < MaxPoint /\ Sliced
    BY <1>1, SliceStands
<1>3. Len(tape) = MaxPoint + 1 /\ MaxPoint \in Nat /\ point \in Nat
    BY <1>2, TypeFacts DEF Modes
<1>4. ~Exact
    <2>1. SUFFICES ASSUME Exact
                   PROVE  FALSE
        OBVIOUS
    <2>2. PICK n \in Sizes, run \in Runs : \E i \in 1 .. n :
            Recorded(point, run, n) /\ m = run[i].m /\ (Reached <=> i = n)
        BY <1>1, <2>1, SliceStands
    <2>3. PICK i \in 1 .. n : Recorded(point, run, n) /\ m = run[i].m /\ (Reached <=> i = n)
        BY <2>2
    <2>4. i \in 1 .. n - 1
        BY <1>1, <2>3, TypeFacts DEF Sizes
    <2> QED
        BY <1>1, <2>3, <2>4 DEF Recorded, Course, Going
<1>5. TypeOK'
    <2>1. point' \in 0 .. MaxPoint
        BY <1>1, <1>2, <1>3
    <2> QED
        BY <1>1, <2>1, TypesKept DEF TypeOK
<1>6. /\ Handed' /\ AllRecorded' /\ (Sliced' <=> Sliced) /\ (Practised' <=> Practised)
      /\ ~Exact'
    BY <1>1, <1>4, RecordingKept, ExactKept
<1>7. /\ Modes' /\ AtPoint' /\ Playing' /\ Following' /\ NoFalseAlarm' /\ Kinds'
      /\ Reproduces' /\ Wishes'
    BY <1>1, <1>2, <1>3, <1>6 DEF Modes, AtPoint, Playing, Following, NoFalseAlarm, Kinds,
                                 Reproduces, Wishes, Stopped
<1>8. CursorIs'
    <2>1. point' + 1 = point + 2
        BY <1>1, <1>3
    <2> QED
        BY <1>1, <1>2, <2>1 DEF CursorIs
<1> QED
    BY <1>5, <1>6, <1>7, <1>8

\* Nor one that parks.
LEMMA SliceEscapesKeeps ==
    ASSUME IInv, SliceEscapes
    PROVE  IInv'
<1> USE DEF IInv, Layout
<1>1. /\ frame = "slice" /\ carrier = "generated" /\ phase' = "escaped" /\ frame' = "none"
      /\ UNCHANGED recording
      /\ UNCHANGED <<carrier, program, events, tape>>
      /\ UNCHANGED <<seen, kind, pending, left, m, point, cursor, target, missed>>
    BY DEF SliceEscapes, recording, host
<1>2. phase = "replay" /\ Sliced /\ ~Exact
    BY <1>1, SliceStands
<1>3. TypeOK'
    BY <1>1, TypesKept DEF TypeOK, Stopped
<1>4. /\ Handed' /\ AllRecorded' /\ (Sliced' <=> Sliced) /\ (Practised' <=> Practised)
      /\ ~Exact'
    BY <1>1, <1>2, RecordingKept, ExactKept
<1>5. /\ Modes' /\ CursorIs' /\ AtPoint' /\ Playing' /\ Following' /\ NoFalseAlarm' /\ Kinds'
      /\ Reproduces' /\ Wishes'
    BY <1>1, <1>2, <1>4 DEF Modes, CursorIs, AtPoint, Playing, Following, NoFalseAlarm, Kinds,
                            Reproduces, Wishes, Stopped
<1> QED
    BY <1>3, <1>4, <1>5

-----------------------------------------------------------------------------
(* Every state.                                                            *)

LEMMA InitIInv == Init => IInv
<1> SUFFICES ASSUME Init
             PROVE  IInv
    OBVIOUS
<1> USE DEF Init
<1>1. program \in Programs /\ 1 \in Positions
    BY ProgramFacts
<1>2. Origin \in Machine
    BY <1>1 DEF Origin, Machine
<1>3. PointOf(Origin, "origin", 0) \in RecordedPoint
    BY <1>2 DEF PointOf, RecordedPoint
<1>4. /\ tape \in Seq(RecordedPoint) /\ Len(tape) = 1
      /\ tape[1] = PointOf(Origin, "origin", 0)
    BY <1>3
<1>5. events \in Seq(RecordedEvent) /\ Len(events) = 0
    BY EmptySeq
<1>6. TypeOK
    <2>1. missed \in BOOLEAN
        OBVIOUS
    <2>2. seen \subseteq Positions /\ kind \in Ends \cup {"none"}
        OBVIOUS
    <2>3. 0 \in 0 .. MaxPoint /\ 0 \in 0 .. Len(events)
        BY <1>5, ReplayAssumption
    <2> QED
        BY <1>1, <1>2, <1>4, <1>5, <2>1, <2>2, <2>3 DEF TypeOK
<1>7. Modes /\ Kinds /\ Playing /\ Following /\ Reproduces /\ NoFalseAlarm
    BY <1>4 DEF Modes, Kinds, Playing, Following, Reproduces, NoFalseAlarm, Stopped
<1>8. Handed /\ CursorIs
    BY <1>4, <1>5 DEF Handed, CursorIs, PointOf
<1>9. AllRecorded
    BY <1>4 DEF AllRecorded
<1>10. ~Practised
    BY <1>5 DEF Practised
<1>11. Wishes /\ AtPoint
    BY <1>4, <1>10 DEF Wishes, AtPoint, WishIn, Waiting, PointOf
<1> QED
    BY <1>6, <1>7, <1>8, <1>9, <1>11 DEF IInv, Layout

LEMMA StutterKeeps ==
    ASSUME IInv, UNCHANGED vars
    PROVE  IInv'
<1> USE DEF IInv, Layout
<1>1. /\ UNCHANGED recording
      /\ UNCHANGED <<carrier, program, events, tape>>
      /\ UNCHANGED <<phase, frame, left, m, seen, kind, pending, point, cursor, target, missed>>
    BY DEF vars, recording
<1>2. TypeOK'
    BY <1>1, TypesKept DEF TypeOK
<1>3. /\ Handed' /\ AllRecorded' /\ (Sliced' <=> Sliced) /\ (Practised' <=> Practised)
      /\ (Exact' <=> Exact) /\ Runs' = Runs
    BY <1>1, RecordingKept, ExactKept
<1>4. Modes' /\ CursorIs' /\ Kinds' /\ AtPoint' /\ Reproduces' /\ NoFalseAlarm'
    BY <1>1, <1>3 DEF Modes, CursorIs, Kinds, AtPoint, Reproduces, NoFalseAlarm, Expected
<1>5. PICK p : p = point
    OBVIOUS
<1>6. PICK to : to = cursor
    OBVIOUS
<1>7. point' = p /\ cursor' = to
    BY <1>1, <1>5, <1>6
<1>8. Wishes'
    <2>1. WishIn(p)' = WishIn(p) /\ (Waiting(p)' <=> Waiting(p))
        BY <1>1, RecordingKept, ExactKept
    <2> QED
        BY <1>1, <1>3, <1>5, <1>7, <2>1 DEF Wishes
<1>9. Playing'
    <2>1. Begun(p, to)' = Begun(p, to)
        BY <1>1 DEF Begun, Ticked, Given
    <2>2. \A run, i : Course(p, to, run, i)' <=> Course(p, to, run, i)
        BY <1>1, <2>1, CourseKept
    <2> QED
        BY <1>1, <1>3, <1>5, <1>6, <1>7, <2>2 DEF Playing, Sizes
<1>10. Following'
    <2>1. SUFFICES ASSUME phase = "replay", frame # "none", Exact
                   PROVE  \E n \in Sizes, run \in Runs : \E i \in 1 .. n :
                            /\ Recorded(p, run, n)'
                            /\ m = run[i].m
                            /\ frame = "play" => seen = run[i].seen /\ left = Allowed + 1 - i
        BY <1>1, <1>3, <1>7 DEF Following, Sizes, Allowed
    <2>2. p \in 0 .. Len(tape) - 2
        BY <1>5, <2>1, TypeFacts DEF Modes
    <2>3. \A run, n : Recorded(p, run, n)' <=> Recorded(p, run, n)
        BY <1>1, <2>2, RecordingKept
    <2> QED
        BY <1>5, <2>1, <2>3 DEF Following
<1> QED
    BY <1>2, <1>3, <1>4, <1>8, <1>9, <1>10

LEMMA NextKeeps == IInv /\ [Next]_vars => IInv'
<1> SUFFICES ASSUME IInv, [Next]_vars
             PROVE  IInv'
    OBVIOUS
<1>1. CASE PlayBegins
    BY <1>1, PlayBeginsKeeps
<1>2. CASE Executes
    BY <1>2, ExecutesKeeps
<1>3. CASE PlayEnds
    BY <1>3, PlayEndsKeeps
<1>4. CASE StartReplay
    BY <1>4, StartReplayKeeps
<1>5. CASE ReplayTo
    BY <1>5, ReplayToKeeps
<1>6. CASE Restore
    BY <1>6, RestoreKeeps
<1>7. CASE ReadSurfaces
    BY <1>7, ReadSurfacesKeeps
<1>8. CASE ReplayBegins
    BY <1>8, ReplayBeginsKeeps
<1>9. CASE ReplayEnds
    BY <1>9, ReplayEndsKeeps
<1>10. CASE SliceStep
    BY <1>10, SliceExecutesKeeps, SliceEndsKeeps, SliceBlocksKeeps, SliceEscapesKeeps DEF SliceStep
<1>11. CASE UNCHANGED vars
    BY <1>11, StutterKeeps
<1> QED
    BY <1>1, <1>2, <1>3, <1>4, <1>5, <1>6, <1>7, <1>8, <1>9, <1>10, <1>11 DEF Next

\* Every recorded frame is a run of instructions of the game, and an exact
\* replay is on the run of its frame: the invariant the others follow from.
THEOREM Invariant == Spec => []IInv
BY InitIInv, NextKeeps, PTL DEF Spec

-----------------------------------------------------------------------------
(* Why replay_to returns.                                                  *)

ReplaySteps == Executes \/ ReplayBegins \/ ReplayEnds \/ SliceStep

\* The points still to come, whether the frame has begun, and its instructions.
Points == IF phase = "replay" /\ point < target THEN target - point ELSE 0
Unbegun == IF frame = "none" THEN 1 ELSE 0
Instructions ==
    CASE frame = "play" -> left
      [] frame = "slice" -> IF Reached THEN 0 ELSE Expected.m.count - m.count
      [] OTHER -> 0

\* The three together, in this order, come down.
ComesNearer ==
    \/ Points' < Points
    \/ Points' = Points /\ Unbegun' < Unbegun
    \/ Points' = Points /\ Unbegun' = Unbegun /\ Instructions' < Instructions

Bounded == Points \in Nat /\ Unbegun \in Nat /\ Instructions \in Nat

\* A slice is counted by the machine and by the recorded point it runs to.
LEMMA SliceCounts ==
    ASSUME IInv, frame = "slice"
    PROVE  m.count \in Nat /\ Expected.m.count \in Nat
<1> USE DEF IInv, Layout
<1>1. /\ phase = "replay" /\ point < target /\ Len(tape) = MaxPoint + 1
    BY DEF Modes, TypeOK
<1>2. PICK q : q = point + 1
    OBVIOUS
<1>3. q \in 0 .. Len(tape) - 1 /\ Expected = tape[q + 1]
    BY <1>1, <1>2, TypeFacts DEF Expected
<1>4. m \in Machine /\ Expected.m \in Machine
    BY <1>3, TypeFacts DEF TypeOK
<1> QED
    BY <1>4 DEF Machine

\* None of the three goes below zero.
LEMMA NeverBelow == IInv => Bounded
<1> SUFFICES ASSUME IInv
             PROVE  Bounded
    OBVIOUS
<1>1. point \in Nat /\ target \in Nat /\ left \in Nat
    BY TypeFacts DEF IInv, Layout
<1>2. Points \in Nat
    BY <1>1 DEF Points
<1>3. Unbegun \in Nat
    BY DEF Unbegun
<1>4. Instructions \in Nat
    <2>1. frame = "slice" => m.count \in Nat /\ Expected.m.count \in Nat
        BY SliceCounts
    <2> QED
        BY <1>1, <2>1 DEF Instructions, Reached
<1> QED
    BY <1>2, <1>3, <1>4 DEF Bounded

\* The next point, or the end of the replay.
LEMMA PointsNearer ==
    ASSUME IInv, phase = "replay", point < target, target' = target,
           \/ phase' = "replay" /\ point' = point + 1
           \/ phase' # "replay"
    PROVE  Points' < Points
<1>1. point \in Nat /\ target \in Nat
    BY TypeFacts DEF IInv, Layout
<1> QED
    BY <1>1 DEF Points

\* Each step of replay_to comes nearer to its end.
LEMMA ReplayNearer ==
    ASSUME IInv, ReplaySteps
    PROVE  ComesNearer
<1> USE DEF IInv, Layout
<1>1. CASE Executes
    <2>1. /\ frame = "play" /\ frame' = "play" /\ left # 0 /\ left' = left - 1
          /\ UNCHANGED <<phase, point, target>>
        BY <1>1 DEF Executes, Stops
    <2>2. left \in Nat
        BY TypeFacts
    <2>3. Points' = Points /\ Unbegun' = Unbegun
        BY <2>1 DEF Points, Unbegun
    <2>4. Instructions' < Instructions
        BY <2>1, <2>2 DEF Instructions
    <2> QED
        BY <2>3, <2>4 DEF ComesNearer
<1>2. CASE ReplayBegins
    <2>1. frame = "none" /\ frame' # "none" /\ UNCHANGED <<phase, point, target>>
        BY <1>2 DEF ReplayBegins
    <2>2. Points' = Points /\ Unbegun' < Unbegun
        BY <2>1 DEF Points, Unbegun
    <2> QED
        BY <2>2 DEF ComesNearer
<1>3. CASE ReplayEnds
    <2>1. phase = "replay" /\ frame # "none" /\ target' = target
        BY <1>3 DEF ReplayEnds
    <2>2. (phase' = "replay" /\ point' = point + 1) \/ phase' # "replay"
        BY <1>3 DEF ReplayEnds, PointAfter
    <2> QED
        BY <2>1, <2>2, PointsNearer DEF ComesNearer, Modes
<1>4. CASE SliceExecutes
    <2>1. /\ frame = "slice" /\ frame' = "slice" /\ ~Reached /\ ~Blocked(m)
          /\ m' = Executed(m) /\ UNCHANGED <<phase, point, target, tape>>
        BY <1>4 DEF SliceExecutes, recording
    <2>2. m.count \in Nat /\ Expected.m.count \in Nat
        BY <2>1, SliceCounts
    <2>3. m'.count = m.count + 1
        BY <2>1, ExecutedIs DEF TypeOK
    <2>4. Expected' = Expected
        BY <2>1 DEF Expected
    <2>5. Points' = Points /\ Unbegun' = Unbegun
        BY <2>1 DEF Points, Unbegun
    <2>6. PICK goal \in Nat, at \in Nat : goal = Expected.m.count /\ at = m.count
        BY <2>2
    <2>7. at < goal
        BY <2>1, <2>6 DEF Reached
    <2>8. Instructions = goal - at
        BY <2>1, <2>6 DEF Instructions
    <2>9. Instructions' = IF at + 1 >= goal THEN 0 ELSE goal - (at + 1)
        BY <2>1, <2>3, <2>4, <2>6 DEF Instructions, Reached
    <2>10. Instructions' < Instructions
        BY <2>6, <2>7, <2>8, <2>9
    <2> QED
        BY <2>5, <2>10 DEF ComesNearer
<1>5. ASSUME SliceEnds \/ SliceBlocks \/ SliceEscapes
      PROVE  ComesNearer
    <2>1. frame = "slice" /\ target' = target
        BY <1>5 DEF SliceEnds, SliceBlocks, SliceEscapes
    <2>2. phase = "replay" /\ point < target
        BY <2>1 DEF Modes, TypeOK
    <2>3. (phase' = "replay" /\ point' = point + 1) \/ phase' # "replay"
        BY <1>5, <2>2 DEF SliceEnds, SliceBlocks, SliceEscapes, PointAfter
    <2> QED
        BY <2>1, <2>2, <2>3, PointsNearer DEF ComesNearer
<1> QED
    BY <1>1, <1>2, <1>3, <1>4, <1>5 DEF ReplaySteps, SliceStep

-----------------------------------------------------------------------------
(* The theorems.                                                           *)

\* Recording, replay_to and restore leave every part of the driver and of the
\* recording in its range, whatever the game.
THEOREM TypeCorrect == Spec => []TypeOK
<1>1. IInv => TypeOK
    BY DEF IInv, Layout
<1> QED
    BY <1>1, Invariant, PTL

\* replay_to reproduces the recording: at every point an exact replay has the
\* recorded machine, from the base or from a cached point, in both carriers.
THEOREM ReplayIsFaithful == Spec => []Reproduces
<1>1. IInv => Reproduces
    BY DEF IInv
<1> QED
    BY <1>1, Invariant, PTL

\* The checks of advance_replay_frame refuse no exact replay, and no park
\* escapes from one of its slices.
THEOREM ChecksAreSound == Spec => []NoFalseAlarm
<1>1. IInv => NoFalseAlarm
    BY DEF IInv
<1> QED
    BY <1>1, Invariant, PTL

\* apply_to_runtime and seek hand every event over once and before its frame.
THEOREM EventsOnce == Spec => []CursorAtPoint
<1>1. ASSUME IInv
      PROVE  CursorAtPoint
    <2> USE DEF IInv, Layout
    <2>1. SUFFICES ASSUME phase = "replay", NEW i \in 1 .. Len(events)
                   PROVE  i <= cursor <=> \/ events[i].ordinal < point
                                          \/ frame # "none" /\ events[i].ordinal = point
        BY <1>1 DEF CursorAtPoint
    <2>2. /\ Len(tape) = MaxPoint + 1 /\ MaxPoint \in Nat /\ point \in Nat /\ point <= MaxPoint
          /\ frame # "none" => point < MaxPoint
          /\ events[i].ordinal \in Nat
        BY <1>1, <2>1, TypeFacts DEF Modes, RecordedEvent
    <2>3. CASE frame = "none"
        <3>1. cursor = tape[point + 1].cursor /\ point \in 0 .. Len(tape) - 1
            BY <1>1, <2>1, <2>2, <2>3 DEF CursorIs
        <3> QED
            BY <1>1, <2>3, <3>1 DEF Handed
    <2>4. CASE frame # "none"
        <3>1. PICK q : q = point + 1
            OBVIOUS
        <3>2. cursor = tape[q + 1].cursor /\ q \in 0 .. Len(tape) - 1
            <4>1. point + 2 = q + 1
                BY <2>2, <3>1
            <4> QED
                BY <1>1, <2>1, <2>2, <2>4, <3>1, <4>1 DEF CursorIs
        <3>3. i <= cursor <=> events[i].ordinal < q
            BY <1>1, <3>2 DEF Handed
        <3> QED
            BY <2>2, <2>4, <3>1, <3>3
    <2> QED
        BY <2>3, <2>4
<1> QED
    BY <1>1, Invariant, PTL

\* Every step of replay_to comes nearer to the point it was asked for, or ends
\* the replay, and none can go on for ever: what ReplayReturns needs besides
\* the fairness of the steps.
THEOREM ReplaysComeDown ==
    Spec => [][ReplaySteps => ComesNearer /\ Bounded /\ Bounded']_vars
<1>1. IInv' => Bounded'
    BY NeverBelow, PTL
<1>2. IInv /\ [Next]_vars => [ReplaySteps => ComesNearer /\ Bounded /\ Bounded']_vars
    <2> SUFFICES ASSUME IInv, [Next]_vars, ReplaySteps
                 PROVE  ComesNearer /\ Bounded /\ Bounded'
        OBVIOUS
    <2>1. IInv'
        BY NextKeeps
    <2> QED
        BY <1>1, <2>1, ReplayNearer, NeverBelow
<1> QED
    BY Invariant, <1>2, PTL DEF Spec
=============================================================================
