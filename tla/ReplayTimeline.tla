--------------------------- MODULE ReplayTimeline ---------------------------
(***************************************************************************)
(* Recording a game and replaying it (scripts/play.py, skyroads/replay.py, *)
(* skyroads/product_features.py).  A recording is a list of points: after  *)
(* each frame the state of the machine can be cached, together with the    *)
(* reason the frame ended.  A replay feeds the recorded events back, runs  *)
(* to the recorded reason of each frame, and may start from any point.     *)
(*                                                                         *)
(* What is restored is the machine.  What the host keeps beside it, the    *)
(* heads seen, the reason the last frame ended and a practice position     *)
(* waiting to be applied, is not.                                          *)
(*                                                                         *)
(* The game is a loop over a program of four sorts of code: "work", a      *)
(* console "read", a "wait" for ticks with a body, and a "spin" without.   *)
(* A frame is run an instruction at a time, in play and in a replay alike. *)
(* A recording is replayed by the carrier that made it.                    *)
(***************************************************************************)
EXTENDS Integers, Sequences, FiniteSets

CONSTANTS
    Carriers,    \* the carriers considered
    Programs,    \* the games considered: sequences of the four sorts of code
    Need,        \* ticks a wait lasts
    Budget,      \* instructions of a frame in play (steps_per_frame)
    SeekBudget,  \* instructions of a frame offline (interpreter only)
    MaxPoint     \* bound: frames that are recorded

ASSUME ReplayAssumption ==
    /\ Carriers \subseteq {"generated", "interpreter"}
    /\ \A p \in Programs : p \in Seq({"work", "read", "wait", "spin"}) /\ p # <<>>
    /\ Need \in Nat \ {0}
    /\ Budget \in Nat \ {0}
    /\ SeekBudget \in Nat /\ SeekBudget >= Budget
    /\ MaxPoint \in Nat \ {0}

VARIABLES
    carrier, program,  \* chosen once
    phase,    \* "live", "replay", or what stopped a replay
    frame,    \* "none" between frames, a "play" frame, or a "slice" of a replay
    left,     \* the instructions a play frame has left
    m,        \* the machine: what a continuation captures
    seen,     \* the host's heads seen: positions of the program
    kind,     \* _skyroads_replay_boundary_kind
    pending,  \* FeatureController: "none", or "position" to be applied
    events,   \* the recorded events, each with the ordinal of its frame
    tape,     \* the recorded points, point n at n + 1
    point,    \* current_point
    cursor,   \* events handed to the game so far
    target,   \* the point replay_to was asked for
    missed    \* history: has a replay run past a practice position?

vars == <<carrier, program, phase, frame, left, m, seen, kind, pending, events,
          tape, point, cursor, target, missed>>
recording == <<carrier, program, events, tape>>
host == <<seen, kind, pending>>

Positions == 1 .. Len(program)
Ends == {"frame-park", "input-block", "guest-fallback"}
Stopped == {"differs", "escaped", "console"}
Channels == {"key", "practice"}

Origin == [pos |-> 1, since |-> 0, ticks |-> 0, bodies |-> 0, keys |-> 0,
           level |-> 0, count |-> 0]

-----------------------------------------------------------------------------
(* The machine.                                                            *)

At(mm) == program[mm.pos]
AtHead(mm) == At(mm) \in {"wait", "spin"}
Over(mm) == mm.ticks >= mm.since + Need

\* Bug: a console read without a key takes one all the same.
BlockedNever(mm) == FALSE

\* A console read without a key.
Blocked(mm) == At(mm) = "read" /\ mm.keys = 0

\* The timer interrupts of a frame.  No recording has more than MaxPoint.
Ticked(mm) == [mm EXCEPT !.ticks = IF @ > MaxPoint THEN @ ELSE @ + 1]

\* One instruction: a wait that is over is left, one that is not runs its body.
Executed(mm) ==
    LET next == [mm EXCEPT !.pos = IF @ = Len(program) THEN 1 ELSE @ + 1,
                           !.since = mm.ticks, !.count = @ + 1]
    IN  CASE At(mm) = "work" \/ (AtHead(mm) /\ Over(mm)) -> next
          [] At(mm) = "read" -> [next EXCEPT !.keys = @ - 1]
          [] At(mm) = "wait" /\ ~Over(mm) -> [mm EXCEPT !.bodies = @ + 1, !.count = @ + 1]
          [] At(mm) = "spin" /\ ~Over(mm) -> [mm EXCEPT !.count = @ + 1]

\* Where a carrier parks: the interpreter's hooks look at the ticks, the
\* generated carrier's observer only at the heads seen.
Parks(mm, heads) ==
    /\ AtHead(mm)
    /\ carrier = "interpreter" => ~Over(mm)
    /\ mm.pos \notin heads => At(mm) = "spin" /\ carrier = "interpreter"

Marked(mm, heads) ==
    IF ~AtHead(mm) THEN heads
    ELSE IF carrier = "interpreter" /\ Over(mm) THEN heads \ {mm.pos}
    ELSE heads \cup {mm.pos}

\* An instruction of a frame in play, until the budget is used up, a console
\* read finds no key, or the carrier parks.
Stops == left = 0 \/ Blocked(m) \/ Parks(m, seen)

Why ==
    IF left = 0 THEN "guest-fallback"
    ELSE IF Blocked(m) THEN "input-block" ELSE "frame-park"

Executes ==
    /\ frame = "play" /\ ~Stops
    /\ m' = Executed(m) /\ seen' = Marked(m, seen) /\ left' = left - 1
    /\ UNCHANGED <<recording, phase, frame, kind, pending, point, cursor, target, missed>>

-----------------------------------------------------------------------------
(* The practice position.                                                  *)

\* After a frame in play, and after a replayed frame that is no slice: the
\* generated carrier whatever ended it, the interpreter at its two boundaries.
Applies(why) == carrier = "generated" \/ why # "guest-fallback"

\* apply_main_loop_boundary: state, latch and position are written together.
Positioned(mm, why, wish) ==
    IF wish = "position" /\ Applies(why) THEN [mm EXCEPT !.level = mm.ticks] ELSE mm

Wish(wish, why) == IF Applies(why) THEN "none" ELSE wish

\* Events that reach the game before a frame: scan codes go to its queue of
\* keys; a practice request of the player's goes to the controller.
Given(mm, batch) ==
    [mm EXCEPT !.keys = @ + Cardinality({i \in 1 .. Len(batch) : batch[i].channel = "key"})]

Wished(wish, batch) ==
    IF \E i \in 1 .. Len(batch) : batch[i].channel = "practice" THEN "position" ELSE wish

-----------------------------------------------------------------------------
(* Play, recorded.                                                         *)

\* The heads a carrier remembers into a frame: the generated one keeps them
\* over an unfinished frame.
SeenAtFrame ==
    IF carrier = "generated" /\ kind = "guest-fallback" THEN seen ELSE {}

PointOf(mm, why, used) == [m |-> mm, kind |-> why, cursor |-> used]

\* What the player did since the last frame.  A practice position is asked for
\* when the recording starts.
Event(channel) == [ordinal |-> point, channel |-> channel]
Batches ==
    {<<>>, <<Event("key")>>} \cup
    IF point > 0 THEN {}
    ELSE {<<Event("practice")>>, <<Event("practice"), Event("key")>>}

\* advance_frame, and its end.
PlayBegins ==
    /\ phase = "live" /\ frame = "none" /\ point < MaxPoint
    /\ \E batch \in Batches :
        /\ m' = Ticked(Given(m, batch))
        /\ pending' = Wished(pending, batch)
        /\ events' = events \o batch /\ cursor' = Len(events')
    /\ seen' = SeenAtFrame
    /\ frame' = "play" /\ left' = Budget
    /\ UNCHANGED <<carrier, program, tape, phase, kind, point, target, missed>>

PlayEnds ==
    /\ phase = "live" /\ frame = "play" /\ Stops
    /\ m' = Positioned(m, Why, pending)
    /\ pending' = Wish(pending, Why) /\ kind' = Why
    /\ tape' = Append(tape, PointOf(m', Why, cursor))
    /\ point' = point + 1
    /\ frame' = "none"
    /\ UNCHANGED <<carrier, program, events, phase, left, seen, cursor, target, missed>>

-----------------------------------------------------------------------------
(* The replay.                                                             *)

\* A new process starts from the base of the recording.
StartReplay ==
    /\ phase = "live" /\ frame = "none" /\ point = MaxPoint
    /\ phase' = "replay"
    /\ m' = tape[1].m
    /\ seen' = {} /\ kind' = "none" /\ pending' = "none"
    /\ point' = 0 /\ cursor' = 0 /\ target' = 0
    /\ UNCHANGED <<recording, frame, left, missed>>

\* replay_to: a driver cannot replay backwards.
ReplayTo ==
    /\ phase = "replay" /\ point = target
    /\ target' \in (point + 1) .. MaxPoint
    /\ UNCHANGED <<recording, host, phase, frame, left, m, point, cursor, missed>>

\* Bug: the input stays where the driver was.
SeekNothing(p) == cursor

\* The input adapter goes to the event behind those of the cached point.
Seek(p) == tape[p + 1].cursor

\* restore: a cached point, also after a replay that was stopped.
Restore ==
    /\ phase \in {"replay"} \cup Stopped
    /\ phase = "replay" => point = target
    /\ \E p \in 0 .. MaxPoint :
        /\ m' = tape[p + 1].m
        /\ cursor' = Seek(p)
        /\ point' = p /\ target' = p
    /\ phase' = "replay"
    /\ missed' = (missed /\ carrier = "generated")
    /\ UNCHANGED <<recording, host, frame, left>>

\* apply_to_runtime: the events of this ordinal, from the cursor on.
DueTo ==
    CHOOSE to \in cursor .. Len(events) :
        /\ \A i \in cursor + 1 .. to : events[i].ordinal = point
        /\ to < Len(events) => events[to + 1].ordinal # point

\* Bug: they are taken from the first event on.
DueAgain == SubSeq(events, 1, DueTo)

Due == SubSeq(events, cursor + 1, DueTo)

\* A key is delivered by running its interrupt.  When the machine stands on a
\* blocked console read, the read can surface there (build_codemap.py:85),
\* before the frame and past the handler of replay_to.
ReadSurfaces ==
    /\ phase = "replay" /\ frame = "none" /\ point < target
    /\ Blocked(m) /\ \E i \in 1 .. Len(Due) : Due[i].channel = "key"
    /\ m' = Given(m, Due)
    /\ cursor' = DueTo
    /\ phase' = "console"
    /\ UNCHANGED <<recording, host, frame, left, point, target, missed>>

Expected == tape[point + 2]

Practised == \E i \in 1 .. Len(events) : events[i].channel = "practice"

\* A practice position was asked for and is not applied yet at point p.
Waiting(p) == Practised /\ \A q \in 1 .. p : ~Applies(tape[q + 1].kind)

\* A round of replay_to begins: the input, then advance_replay_frame.  The input
\* adapter delivers scan codes and nothing else: a recorded practice request is
\* passed over, and the controller never hears of it.  A recorded
\* slice is replayed as one, else the frame is run as in play, offline with the
\* interpreter's larger budget.
ReplayBegins ==
    /\ phase = "replay" /\ frame = "none" /\ point < target
    /\ m' = Ticked(Given(m, Due))
    /\ cursor' = DueTo
    /\ IF Expected.kind = "guest-fallback"
       THEN frame' = "slice" /\ UNCHANGED <<seen, left>>
       ELSE /\ frame' = "play" /\ seen' = SeenAtFrame
            /\ left' = IF carrier = "interpreter" THEN SeekBudget ELSE Budget
    /\ missed' = (missed \/ Waiting(point))
    /\ UNCHANGED <<recording, phase, kind, pending, point, target>>

\* Bug: a frame that ends in a console read is replayed again.
PointAgain(why) == IF why = "input-block" THEN point ELSE point + 1

\* Whatever ended the frame, the timeline advances.
PointAfter(why) == point + 1

\* A semantic boundary is checked for its kind and identity.
ReplayEnds ==
    /\ phase = "replay" /\ frame = "play" /\ Stops
    /\ m' = Positioned(m, Why, pending)
    /\ pending' = Wish(pending, Why) /\ kind' = Why
    /\ IF Why = Expected.kind /\ m.pos = Expected.m.pos
       THEN phase' = phase /\ point' = PointAfter(Why)
       ELSE phase' = "differs" /\ point' = point
    /\ frame' = "none"
    /\ UNCHANGED <<recording, left, seen, cursor, target, missed>>

\* Bug: the slice stops one instruction late.
ReachedLate == m.count > Expected.m.count

\* Has the slice come to the recorded instruction?
Reached == m.count >= Expected.m.count

\* A diagnostic slice runs with the hooks of the heads suspended.  The generated
\* carrier's observer is not.
SliceExecutes ==
    /\ frame = "slice" /\ ~Reached /\ ~Blocked(m)
    /\ m' = Executed(m)
    /\ \/ carrier = "interpreter" /\ UNCHANGED seen
       \/ carrier = "generated" /\ ~Parks(m, seen) /\ seen' = Marked(m, seen)
    /\ UNCHANGED <<recording, phase, frame, left, kind, pending, point, cursor, target, missed>>

\* It is checked for its place.
SliceEnds ==
    /\ frame = "slice" /\ Reached
    /\ kind' = "guest-fallback"
    /\ IF m.pos = Expected.m.pos
       THEN phase' = phase /\ point' = PointAfter("guest-fallback")
       ELSE phase' = "differs" /\ point' = point
    /\ frame' = "none"
    /\ UNCHANGED <<recording, left, m, seen, pending, cursor, target, missed>>

\* A console read that ends it passes for the end of the frame.
SliceBlocks ==
    /\ frame = "slice" /\ ~Reached /\ Blocked(m)
    /\ point' = PointAfter("input-block")
    /\ frame' = "none"
    /\ UNCHANGED <<recording, host, phase, left, m, cursor, target, missed>>

SliceEscapes ==
    /\ frame = "slice" /\ ~Reached /\ ~Blocked(m)
    /\ carrier = "generated" /\ Parks(m, seen)
    /\ phase' = "escaped"
    /\ frame' = "none"
    /\ UNCHANGED <<recording, host, left, m, point, cursor, target, missed>>

-----------------------------------------------------------------------------
Init ==
    /\ carrier \in Carriers /\ program \in Programs
    /\ phase = "live" /\ frame = "none" /\ left = 0 /\ m = Origin
    /\ seen = {} /\ kind = "none" /\ pending = "none"
    /\ events = <<>> /\ tape = <<PointOf(Origin, "origin", 0)>>
    /\ point = 0 /\ cursor = 0 /\ target = 0 /\ missed = FALSE

SliceStep == SliceExecutes \/ SliceEnds \/ SliceBlocks \/ SliceEscapes

Next ==
    \/ PlayBegins \/ Executes \/ PlayEnds
    \/ StartReplay \/ ReplayTo \/ Restore \/ ReadSurfaces
    \/ ReplayBegins \/ ReplayEnds \/ SliceStep

Spec == Init /\ [][Next]_vars

\* A call of replay_to runs until it returns or raises.
FairSpec == Spec /\ WF_vars(Executes \/ ReplayBegins \/ ReplayEnds \/ SliceStep)

-----------------------------------------------------------------------------
(* Properties.                                                             *)

Machine == [pos : Positions, since : Nat, ticks : Nat, bodies : Nat, keys : Nat,
            level : Nat, count : Nat]
RecordedEvent == [ordinal : 0 .. MaxPoint, channel : Channels]
RecordedPoint == [m : Machine, kind : Ends \cup {"origin"}, cursor : Nat]

TypeOK ==
    /\ carrier \in Carriers /\ program \in Programs
    /\ phase \in {"live", "replay"} \cup Stopped
    /\ frame \in {"none", "play", "slice"} /\ left \in Nat
    /\ m \in Machine
    /\ seen \subseteq Positions
    /\ kind \in Ends \cup {"none"}
    /\ pending \in {"none", "position"}
    /\ events \in Seq(RecordedEvent) /\ tape \in Seq(RecordedPoint)
    /\ point \in 0 .. MaxPoint /\ target \in 0 .. MaxPoint
    /\ cursor \in 0 .. Len(events)
    /\ missed \in BOOLEAN

Sliced == \E p \in 1 .. Len(tape) : tape[p].kind = "guest-fallback"

\* Which replays are exact.  The heads a generated carrier has seen in an
\* unfinished frame, and a practice position that waits, are in no continuation.
\* The first matter to a slice.  The second is never handed over again: a replay
\* that runs a frame while one waits misses it, and what it left in the host of
\* the generated carrier outlives a restore.
Exact == (~Sliced \/ carrier = "interpreter") /\ ~missed

\* At every point of an exact replay, from the base or from any cached point,
\* the machine is the recorded one: a key, a tick or a body too many or too few
\* would show, and so would the place of an applied practice position.
Reproduces ==
    phase = "replay" /\ frame = "none" /\ Exact => m = tape[point + 1].m

\* An exact replay is never refused: a boundary differs or a park escapes only
\* where the replay is not exact.
NoFalseAlarm == phase \in {"differs", "escaped"} => ~Exact

\* Every event is handed over once, before the frame of its ordinal, with
\* restores and stops in between.
CursorAtPoint ==
    phase = "replay" =>
        \A i \in 1 .. Len(events) :
            i <= cursor <=> \/ events[i].ordinal < point
                            \/ frame # "none" /\ events[i].ordinal = point

\* A console read without a key does not hold a replay up: replay_to returns or
\* raises.
ReplayReturns ==
    (phase = "replay" /\ point < target) ~> (point = target \/ phase \in Stopped)
=============================================================================
