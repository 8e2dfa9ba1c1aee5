-------------------------- MODULE FramePark_proofs --------------------------
(***************************************************************************)
(* Proofs of the safety properties of FramePark, for any number of         *)
(* interrupts a frame, any length of the waits and any number of waits     *)
(* within a frame.                                                         *)
(***************************************************************************)
EXTENDS FramePark, TLAPS

(***************************************************************************)
(* Where a frame can have ended.  Only a slice stops inside a body.        *)
(***************************************************************************)
EndPlaces ==
    /\ provider = "cpuless" => frame = "running"
    /\ frame # "running" => pc \notin Behind
    /\ pc = "compare" => provider = "cpuless" /\ frame = "running" /\ head \in Doubled
    /\ frame \notin {"running", "guest-fallback"} => pc \notin Bodies

(***************************************************************************)
(* A wait never lasts longer than it was asked to, an empty one has no     *)
(* body, and a body that is not the last belongs to a wait with a length.  *)
(***************************************************************************)
WaitShape ==
    /\ left <= span
    /\ head \in Empty => ran = 0 /\ held = 0 /\ pc \notin Bodies
    /\ pc = "body" /\ head = "434A" => span > 0
    /\ ran <= held

(***************************************************************************)
(* A point that counts as seen belongs to a wait already left in the       *)
(* frame, or to the present wait, which then has had its body or is before *)
(* it.  The two of a doubled head are seen in turn.                        *)
(***************************************************************************)
SeenHasCause ==
    /\ \A h \in SEMANTIC_FRAME_HEADS : h \in seen => h \in earlier \cup {head}
    /\ "4465" \in seen => "4468" \in earlier \cup {head}
    /\ pc \in Bodies => held >= 1
    /\ pc \in Ahead /\ head \in seen /\ head \in SideEffecting
            => held >= 1 \/ head \in earlier
    /\ pc = "head" /\ "4465" \in seen /\ head = "4468"
            => held >= 1 \/ head \in earlier

(***************************************************************************)
(* How each driver's seen set bounds the bodies.                           *)
(***************************************************************************)
GeneratedSeen ==
    provider = "generated" =>
        /\ held <= 1
        /\ pc \in Behind => held = 0 /\ head \in seen
        /\ pc \in {"head"} \cup Bodies /\ held = 1 => head \in seen

InterpreterSeen ==
    provider = "interpreter" =>
        /\ ran <= 1
        /\ pc \in Behind => ran = 0
        /\ pc \in Behind /\ head \in SideEffecting =>
            \/ head \in seen
            \/ head = "434A" /\ span = 0
            \/ head = "4468" /\ pc = "over"
        /\ pc = "body" /\ ran = 1 => head \in seen
        /\ pc \in {"head", "body"} /\ ran = 1 /\ head = "4468" => left > 0
        /\ pc = "head" /\ ran = 1 =>
            /\ head \in seen
            /\ head = "434A" => span > 0

CallbackSeen ==
    provider = "cpuless" =>
        /\ pc \in Behind => ran <= IF head \in seen THEN 1 ELSE 0
        /\ pc \in Ahead \cup Bodies => ran <= IF head \in seen THEN 2 ELSE 1
        /\ ran <= 2

Inv ==
    /\ TypeOK
    /\ EndPlaces
    /\ WaitShape
    /\ SeenHasCause
    /\ GeneratedSeen
    /\ InterpreterSeen
    /\ CallbackSeen
    /\ ComparesAfterInterrupts

\* Ticks only shorten a wait.
LEMMA TickedWait ==
    ASSUME NEW ticks \in 0 .. MaxSpan
    PROVE  /\ Ticked(ticks) \in 0 .. MaxSpan
           /\ Ticked(ticks) <= ticks
BY FrameAssumption DEF Ticked

LEMMA InitInv == Init => Inv
<1> SUFFICES ASSUME Init PROVE Inv
  OBVIOUS
<1> USE DEF Behind, Bodies, Ahead, Doubled, Seams
<1>2. TypeOK
  BY FrameAssumption DEF Init, TypeOK, BodyCap, Places
<1>3. EndPlaces /\ WaitShape /\ SeenHasCause /\ ComparesAfterInterrupts
  BY DEF Init, EndPlaces, WaitShape, SeenHasCause, ComparesAfterInterrupts, Empty
<1>4. GeneratedSeen /\ InterpreterSeen /\ CallbackSeen
  BY DEF Init, GeneratedSeen, InterpreterSeen, CallbackSeen
<1> QED BY <1>2, <1>3, <1>4 DEF Inv

LEMMA FrameBeginsInv == Inv /\ FrameBegins => Inv'
<1> SUFFICES ASSUME Inv, FrameBegins PROVE Inv'
  OBVIOUS
<1> USE FrameAssumption DEF Inv, FrameBegins, Fresh, SeenAtFrame, Behind,
        Bodies, Ahead, Doubled, Seams
<1>1. left \in 0 .. MaxSpan /\ left' = Ticked(left)
  BY DEF TypeOK
<1>2. left' \in 0 .. MaxSpan /\ left' <= left
  BY <1>1, TickedWait
<1>4. TypeOK'
  BY <1>2 DEF TypeOK, BodyCap, Places
<1>5. EndPlaces' /\ ComparesAfterInterrupts'
  BY DEF EndPlaces, ComparesAfterInterrupts, TypeOK
<1>6. WaitShape'
  BY <1>2 DEF WaitShape, TypeOK, BodyCap, EndPlaces
<1>7. SeenHasCause'
  BY <1>2 DEF SeenHasCause, EndPlaces, TypeOK, BodyCap
<1>8. GeneratedSeen'
  BY <1>2 DEF GeneratedSeen, EndPlaces, TypeOK, BodyCap
<1>9. InterpreterSeen' /\ CallbackSeen'
  BY <1>2 DEF InterpreterSeen, CallbackSeen, EndPlaces, TypeOK
<1> QED BY <1>4, <1>5, <1>6, <1>7, <1>8, <1>9

\* A wait begins before its body and with no interrupt behind it.
LEMMA ReachWaitInv == Inv /\ ReachWait => Inv'
<1> SUFFICES ASSUME Inv, ReachWait PROVE Inv'
  OBVIOUS
<1> USE FrameAssumption DEF Inv, ReachWait, SEMANTIC_FRAME_HEADS, Empty,
        SideEffecting, Behind, Bodies, Ahead, Doubled, Seams
<1>0. span' \in 0 .. MaxSpan
  BY DEF Spans
<1>1. TypeOK'
  BY <1>0 DEF TypeOK, BodyCap, Places
<1>2. EndPlaces'
  BY <1>0 DEF EndPlaces, TypeOK, Places
<1>3. WaitShape'
  BY <1>0 DEF WaitShape, EndPlaces, TypeOK, BodyCap
<1>4. SeenHasCause'
  BY <1>0 DEF SeenHasCause, WaitShape, TypeOK, BodyCap
<1>5. GeneratedSeen'
  BY <1>0 DEF GeneratedSeen, TypeOK, BodyCap
<1>6. InterpreterSeen'
  BY <1>0 DEF InterpreterSeen, WaitShape, TypeOK, BodyCap
<1>7. CallbackSeen'
  BY <1>0 DEF CallbackSeen, WaitShape, TypeOK, BodyCap
<1>8. ComparesAfterInterrupts'
  BY <1>0 DEF ComparesAfterInterrupts, WaitShape, EndPlaces, TypeOK
<1> QED BY <1>1, <1>2, <1>3, <1>4, <1>5, <1>6, <1>7, <1>8

\* A wait that is left has been at its head.
LeaveStep == frame = "running" /\ pc \in Behind \cup {"final"} /\ Leave

LEMMA LeaveInv == Inv /\ LeaveStep => Inv'
<1> SUFFICES ASSUME Inv, LeaveStep PROVE Inv'
  OBVIOUS
<1> USE FrameAssumption DEF Inv, LeaveStep, Leave, Empty, Behind, Bodies,
        Ahead, Doubled, Seams
<1>1. TypeOK'
  BY DEF TypeOK, BodyCap, Places
<1>2. EndPlaces'
  BY DEF EndPlaces, TypeOK, Places
<1>3. WaitShape'
  BY DEF WaitShape, EndPlaces, TypeOK, BodyCap, Spans
<1>4. SeenHasCause'
  BY DEF SeenHasCause, WaitShape, TypeOK, BodyCap
<1>5. GeneratedSeen'
  BY DEF GeneratedSeen, TypeOK, BodyCap
<1>6. InterpreterSeen'
  BY DEF InterpreterSeen, WaitShape, TypeOK, BodyCap
<1>7. CallbackSeen'
  BY DEF CallbackSeen, WaitShape, TypeOK, BodyCap
<1>8. ComparesAfterInterrupts'
  BY DEF ComparesAfterInterrupts, WaitShape, EndPlaces, TypeOK
<1> QED BY <1>1, <1>2, <1>3, <1>4, <1>5, <1>6, <1>7, <1>8

\* Back at the head of an empty wait, or after a body.
BackStep ==
    /\ frame = "running"
    /\ pc = "body" \/ (pc = "waiting" /\ head \in Empty)
    /\ BackToHead

LEMMA BackToHeadInv == Inv /\ BackStep => Inv'
<1> SUFFICES ASSUME Inv, BackStep PROVE Inv'
  OBVIOUS
<1> USE FrameAssumption DEF Inv, BackStep, BackToHead, Empty, SideEffecting,
        history, wait, Behind, Bodies, Ahead, Doubled, Seams
<1>1. TypeOK'
  BY DEF TypeOK, BodyCap, Places
<1>2. EndPlaces'
  BY DEF EndPlaces, TypeOK, Places
<1>3. WaitShape'
  BY DEF WaitShape, EndPlaces, TypeOK, BodyCap, Spans
<1>4. SeenHasCause'
  BY DEF SeenHasCause, WaitShape, TypeOK, BodyCap
<1>5. GeneratedSeen'
  BY DEF GeneratedSeen, TypeOK, BodyCap
<1>6. InterpreterSeen'
  BY DEF InterpreterSeen, WaitShape, TypeOK, BodyCap
<1>7. CallbackSeen'
  BY DEF CallbackSeen, WaitShape, TypeOK, BodyCap
<1>8. ComparesAfterInterrupts'
  BY DEF ComparesAfterInterrupts, WaitShape, EndPlaces, TypeOK
<1> QED BY <1>1, <1>2, <1>3, <1>4, <1>5, <1>6, <1>7, <1>8

\* A body begins behind the comparison: the wait's last, the poll of 4468
\* while it waits, or a blend or a scene before the ticks are over.
BodyStep ==
    /\ frame = "running" /\ pc \in Behind /\ head \in SideEffecting
    /\ \/ BodyBegins("final")
       \/ head = "4468" /\ pc = "waiting" /\ BodyBegins("body")
       \/ left > 0 /\ BodyBegins("body")

LEMMA BodyBeginsInv == Inv /\ BodyStep => Inv'
<1> SUFFICES ASSUME Inv, BodyStep PROVE Inv'
  OBVIOUS
<1> USE FrameAssumption DEF Inv, BodyStep, BodyBegins, Counted, BodyCap,
        wait, SEMANTIC_FRAME_HEADS, Empty, SideEffecting, Behind, Bodies,
        Ahead, Doubled, Seams
<1>0. /\ pc' \in Bodies /\ (pc' = "body" /\ head = "434A" => left > 0)
      /\ head' = head /\ head \notin Empty /\ span' = span /\ left' = left
      /\ seen' = seen /\ earlier' = earlier
      /\ ran' <= held' /\ held' >= 1
      /\ ran' \in 0 .. BodyCap /\ held' \in 0 .. BodyCap
      /\ provider' = provider /\ frame' = frame /\ visits' = visits
  <2>1. \E body \in Bodies :
            BodyBegins(body) /\ (body = "body" /\ head = "434A" => left > 0)
    OBVIOUS
  <2>2. ran' = Counted(ran) /\ held' = Counted(held)
    BY <2>1
  <2>3. Counted(ran) <= Counted(held) /\ Counted(held) >= 1
        /\ Counted(ran) \in 0 .. BodyCap /\ Counted(held) \in 0 .. BodyCap
    BY DEF WaitShape, TypeOK
  <2>4. head \notin Empty
    OBVIOUS
  <2>5. /\ ran' <= held' /\ held' >= 1
        /\ ran' \in 0 .. BodyCap /\ held' \in 0 .. BodyCap
    BY <2>2, <2>3
  <2>6. PICK body \in Bodies :
            BodyBegins(body) /\ (body = "body" /\ head = "434A" => left > 0)
    BY <2>1
  <2>7. pc' \in Bodies /\ (pc' = "body" /\ head = "434A" => left > 0)
    BY <2>6
  <2>8. /\ head' = head /\ span' = span /\ left' = left
        /\ seen' = seen /\ earlier' = earlier
        /\ provider' = provider /\ frame' = frame /\ visits' = visits
    BY <2>6
  <2> QED BY <2>4, <2>5, <2>7, <2>8
<1>1. TypeOK'
  BY <1>0 DEF TypeOK, Places
<1>2. EndPlaces'
  BY DEF EndPlaces, TypeOK, Places
<1>3. WaitShape'
  BY <1>0 DEF WaitShape, TypeOK
<1>4. SeenHasCause'
  BY <1>0 DEF SeenHasCause, TypeOK
<1>5. GeneratedSeen'
  BY DEF GeneratedSeen, TypeOK, BodyCap
<1>6. InterpreterSeen'
  BY DEF InterpreterSeen, WaitShape, ComparesAfterInterrupts, TypeOK, BodyCap
<1>7. CallbackSeen'
  BY DEF CallbackSeen, WaitShape, TypeOK, BodyCap
<1>8. ComparesAfterInterrupts'
  BY DEF ComparesAfterInterrupts, WaitShape, EndPlaces, TypeOK
<1> QED BY <1>1, <1>2, <1>3, <1>4, <1>5, <1>6, <1>7, <1>8

\* The observer of the generated driver.
LEMMA GeneratedArrivesInv == Inv /\ GeneratedArrives => Inv'
<1> SUFFICES ASSUME Inv, GeneratedArrives PROVE Inv'
  OBVIOUS
<1> USE FrameAssumption DEF Inv, GeneratedArrives, AtHead, Passes, Marked,
        Compared, ParksAt, FrameEnds, history, wait, SEMANTIC_FRAME_HEADS,
        Empty, SideEffecting, Behind, Bodies, Ahead, Doubled, Seams
<1>1. TypeOK'
  BY DEF TypeOK, BodyCap, Places
<1>2. EndPlaces'
  BY DEF EndPlaces, TypeOK, Places
<1>3. WaitShape'
  BY DEF WaitShape, EndPlaces, TypeOK, BodyCap, Spans
<1>4. SeenHasCause'
  BY DEF SeenHasCause, WaitShape, TypeOK, BodyCap
<1>5. GeneratedSeen'
  BY DEF GeneratedSeen, TypeOK, BodyCap
<1>6. InterpreterSeen'
  BY DEF InterpreterSeen, WaitShape, TypeOK, BodyCap
<1>7. CallbackSeen'
  BY DEF CallbackSeen, WaitShape, TypeOK, BodyCap
<1>8. ComparesAfterInterrupts'
  BY DEF ComparesAfterInterrupts, WaitShape, EndPlaces, TypeOK
<1> QED BY <1>1, <1>2, <1>3, <1>4, <1>5, <1>6, <1>7, <1>8

\* The callback.
LEMMA CallbackArrivesInv == Inv /\ CallbackArrives => Inv'
<1> SUFFICES ASSUME Inv, CallbackArrives PROVE Inv'
  OBVIOUS
<1> USE FrameAssumption DEF Inv, CallbackArrives, AtSeam, Seam, Passes,
        Marked, Compared, AdvancesInPlace, Fresh, history, wait,
        SEMANTIC_FRAME_HEADS, Empty, SideEffecting, Behind, Bodies, Ahead,
        Doubled, Seams
<1>0. left \in 0 .. MaxSpan /\ Ticked(left) \in 0 .. MaxSpan /\ Ticked(left) <= left
  BY TickedWait DEF TypeOK
<1>1. TypeOK'
  <2>1. provider' \in Providers /\ frame' = "running" /\ pc' \in Behind \cup Ahead
        /\ head' = head /\ head # "none" /\ head \in SEMANTIC_FRAME_HEADS
    BY DEF TypeOK
  <2>2. provider' = "cpuless" /\ seen' \subseteq Seams
        /\ earlier' \subseteq SEMANTIC_FRAME_HEADS
    BY <2>1 DEF TypeOK
  <2>3. span' \in 0 .. MaxSpan /\ left' \in 0 .. MaxSpan
    BY <1>0 DEF TypeOK
  <2>4. ran' \in 0 .. BodyCap /\ held' \in 0 .. BodyCap /\ visits' \in 0 .. MaxVisits
    BY DEF TypeOK, BodyCap
  <2> QED BY <2>1, <2>2, <2>3, <2>4 DEF TypeOK, Places
<1>2. EndPlaces'
  BY <1>0 DEF EndPlaces, TypeOK, Places
<1>3. WaitShape'
  BY <1>0 DEF WaitShape, EndPlaces, TypeOK, BodyCap, Spans
<1>4. SeenHasCause'
  BY <1>0 DEF SeenHasCause, WaitShape, TypeOK, BodyCap
<1>5. GeneratedSeen'
  BY <1>0 DEF GeneratedSeen, TypeOK, BodyCap
<1>6. InterpreterSeen'
  BY <1>0 DEF InterpreterSeen, WaitShape, TypeOK, BodyCap
<1>7. CallbackSeen'
  BY <1>0 DEF CallbackSeen, WaitShape, TypeOK, BodyCap
<1>8. ComparesAfterInterrupts'
  BY <1>0 DEF ComparesAfterInterrupts, WaitShape, EndPlaces, TypeOK
<1> QED BY <1>1, <1>2, <1>3, <1>4, <1>5, <1>6, <1>7, <1>8

\* The hooks of the interpreter.
LEMMA InterpreterArrivesInv == Inv /\ InterpreterArrives => Inv'
<1> SUFFICES ASSUME Inv, InterpreterArrives PROVE Inv'
  OBVIOUS
<1> USE FrameAssumption DEF Inv, InterpreterArrives, AtHead, ParkEmptyWait,
        ParkFadeBlend, ParkFadeWait, ParkMenuScene, HookRuns, HookParks,
        FrameEnds, Compared, history, wait, SEMANTIC_FRAME_HEADS, Empty,
        SideEffecting, Behind, Bodies, Ahead, Doubled, Seams
<1>1. TypeOK'
  BY DEF TypeOK, BodyCap, Places
<1>2. EndPlaces'
  BY DEF EndPlaces, TypeOK, Places
<1>3. WaitShape'
  BY DEF WaitShape, EndPlaces, TypeOK, BodyCap, Spans
<1>4. SeenHasCause'
  BY DEF SeenHasCause, WaitShape, TypeOK, BodyCap
<1>5. GeneratedSeen'
  BY DEF GeneratedSeen, TypeOK, BodyCap
<1>6. InterpreterSeen'
  BY DEF InterpreterSeen, WaitShape, TypeOK, BodyCap
<1>7. CallbackSeen'
  BY DEF CallbackSeen, WaitShape, TypeOK, BodyCap
<1>8. ComparesAfterInterrupts'
  BY DEF ComparesAfterInterrupts, WaitShape, EndPlaces, TypeOK
<1> QED BY <1>1, <1>2, <1>3, <1>4, <1>5, <1>6, <1>7, <1>8

\* Ends of a frame away from a head.
LEMMA StopsInv == Inv /\ (InputBlocks \/ Slice) => Inv'
<1> SUFFICES ASSUME Inv, (InputBlocks \/ Slice) PROVE Inv'
  OBVIOUS
<1> USE FrameAssumption DEF Inv, InputBlocks, Slice, FrameEnds, history,
        wait, Behind, Bodies, Ahead, Doubled, Seams
<1>1. TypeOK'
  BY DEF TypeOK, BodyCap, Places
<1>2. EndPlaces'
  BY DEF EndPlaces, TypeOK, Places
<1>3. WaitShape'
  BY DEF WaitShape, EndPlaces, TypeOK, BodyCap, Spans
<1>4. SeenHasCause'
  BY DEF SeenHasCause, WaitShape, TypeOK, BodyCap
<1>5. GeneratedSeen'
  BY DEF GeneratedSeen, TypeOK, BodyCap
<1>6. InterpreterSeen'
  BY DEF InterpreterSeen, WaitShape, TypeOK, BodyCap
<1>7. CallbackSeen'
  BY DEF CallbackSeen, WaitShape, TypeOK, BodyCap
<1>8. ComparesAfterInterrupts'
  BY DEF ComparesAfterInterrupts, WaitShape, EndPlaces, TypeOK
<1> QED BY <1>1, <1>2, <1>3, <1>4, <1>5, <1>6, <1>7, <1>8

\* A console wait of the callback driver.
LEMMA BlockingReadInv == Inv /\ BlockingRead => Inv'
<1> SUFFICES ASSUME Inv, BlockingRead PROVE Inv'
  OBVIOUS
<1> USE FrameAssumption DEF Inv, BlockingRead, AdvancesInPlace, Fresh,
        SEMANTIC_FRAME_HEADS, Empty, SideEffecting, Behind, Bodies, Ahead,
        Doubled, Seams
<1>0. left \in 0 .. MaxSpan /\ Ticked(left) \in 0 .. MaxSpan /\ Ticked(left) <= left
  BY TickedWait DEF TypeOK
<1>1. TypeOK'
  BY <1>0 DEF TypeOK, BodyCap, Places
<1>2. EndPlaces'
  BY <1>0 DEF EndPlaces, TypeOK, Places
<1>3. WaitShape'
  BY <1>0 DEF WaitShape, EndPlaces, TypeOK, BodyCap, Spans
<1>4. SeenHasCause'
  BY <1>0 DEF SeenHasCause, WaitShape, TypeOK, BodyCap
<1>5. GeneratedSeen'
  BY <1>0 DEF GeneratedSeen, TypeOK, BodyCap
<1>6. InterpreterSeen'
  BY <1>0 DEF InterpreterSeen, WaitShape, TypeOK, BodyCap
<1>7. CallbackSeen'
  BY <1>0 DEF CallbackSeen, WaitShape, TypeOK, BodyCap
<1>8. ComparesAfterInterrupts'
  BY <1>0 DEF ComparesAfterInterrupts, WaitShape, EndPlaces, TypeOK
<1> QED BY <1>1, <1>2, <1>3, <1>4, <1>5, <1>6, <1>7, <1>8

\* What a branch does is one of the three steps above.
LEMMA BranchInv == Inv /\ (Branch \/ BodyEnds) => Inv'
<1>1. ASSUME Branch PROVE LeaveStep \/ BackStep \/ BodyStep
  BY <1>1 DEF Branch, DepartureBranch, PacingBranch, MenuAnimBranch,
              FadeWaitBranch, FadeBlendBranch, MenuSceneBranch, At, LeaveOrRetry,
              LeaveStep, BackStep, BodyStep, Behind, Empty, SideEffecting
<1>2. ASSUME BodyEnds PROVE LeaveStep \/ BackStep
  BY <1>2 DEF BodyEnds, LeaveStep, BackStep
<1> QED BY <1>1, <1>2, LeaveInv, BackToHeadInv, BodyBeginsInv

\* A step that changes nothing keeps the invariant.
LEMMA StutterInv == Inv /\ UNCHANGED vars => Inv'
BY DEF vars, wait, Inv, TypeOK, EndPlaces, WaitShape, SeenHasCause, GeneratedSeen,
       InterpreterSeen, CallbackSeen, ComparesAfterInterrupts

LEMMA NextInv == Inv /\ [Next]_vars => Inv'
BY FrameBeginsInv, ReachWaitInv, BranchInv, GeneratedArrivesInv, CallbackArrivesInv,
   InterpreterArrivesInv, StopsInv, BlockingReadInv, StutterInv
   DEF Next, InFrame, Arrives

(***************************************************************************)
(* The invariant, and with it the safety properties that TLC checks.       *)
(***************************************************************************)
THEOREM Safety == Spec => []Inv
BY InitInv, NextInv, PTL DEF Spec

\* Every variable keeps its type.
THEOREM TypeCorrect == Spec => []TypeOK
<1>1. Inv => TypeOK
  BY DEF Inv
<1> QED BY <1>1, Safety, PTL

\* A body runs once for the interrupts of a frame (the callback: twice).
THEOREM BodiesCounted == Spec => []BodyOncePerFrame
<1>1. ASSUME Inv PROVE BodyOncePerFrame
  <2>1. provider \in {"generated", "interpreter", "cpuless"}
    BY <1>1, FrameAssumption DEF Inv, TypeOK
  <2> QED BY <1>1, <2>1 DEF Inv, TypeOK, BodyCap, WaitShape, GeneratedSeen,
                            InterpreterSeen, CallbackSeen, BodyOncePerFrame
<1> QED BY <1>1, Safety, PTL

\* The flags behind a head are those of the present tick; only the callback
\* may return behind a comparison that says the wait goes on when it is over.
THEOREM FlagsFresh == Spec => []ComparesAfterInterrupts
<1>1. Inv => ComparesAfterInterrupts
  BY DEF Inv
<1> QED BY <1>1, Safety, PTL

(***************************************************************************)
(* No frame is shown at the head of a fade or of a menu scene before a     *)
(* body has run in it, unless a wait at this head was left in the frame.   *)
(***************************************************************************)
LEMMA ParkStep ==
    Inv /\ [Next]_vars =>
        [ParksAtHead /\ head \in SideEffecting => held >= 1 \/ head \in earlier]_vars
<1> SUFFICES ASSUME Inv, Next, ParksAtHead, head \in SideEffecting
             PROVE  held >= 1 \/ head \in earlier
  OBVIOUS
<1>1. CASE AtSeam /\ Seam \in seen
  BY <1>1 DEF Inv, SeenHasCause, AtSeam, Seam, SideEffecting, Ahead
<1>2. CASE frame = "running" /\ frame' = "frame-park"
  <2>1. GeneratedArrives \/ InterpreterArrives
    BY <1>2 DEF Next, InFrame, FrameBegins, ReachWait, Branch, DepartureBranch,
         PacingBranch, MenuAnimBranch, FadeWaitBranch, FadeBlendBranch,
         MenuSceneBranch, BodyBegins, LeaveOrRetry, Leave, BackToHead, BodyEnds,
         Arrives, CallbackArrives, AdvancesInPlace, InputBlocks, BlockingRead,
         Slice, FrameEnds
  <2>2. pc = "head" /\ head \in seen
    BY <2>1, <1>2 DEF GeneratedArrives, InterpreterArrives, AtHead, Passes,
         ParkEmptyWait, ParkFadeBlend, ParkFadeWait, ParkMenuScene, HookRuns,
         HookParks, FrameEnds, Empty, SideEffecting
  <2> QED BY <2>2 DEF Inv, SeenHasCause, Ahead
<1> QED BY <1>1, <1>2 DEF ParksAtHead

THEOREM ParkAfterBody == Spec => BodyBeforePark
<1>1. Inv /\ [Next]_vars =>
        [ParksAtHead /\ head \in SideEffecting => held >= 1 \/ head \in earlier]_vars
  BY ParkStep
<1> QED BY <1>1, Safety, PTL DEF Spec, BodyBeforePark
=============================================================================
