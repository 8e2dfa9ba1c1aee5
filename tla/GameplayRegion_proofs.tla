------------------------ MODULE GameplayRegion_proofs ------------------------
(***************************************************************************)
(* The authored region loses nothing and does what the generated handler   *)
(* does, for every word size, every set of hooks and every set of locals.  *)
(***************************************************************************)
EXTENDS GameplayRegion, TLAPS

(* What makes the properties inductive: a batch ends with the local tick   *)
(* at or past the timer, a wait starts with both in step, and a frame ends *)
(* only where the program can be entered again.                            *)
Stops == {"outer", "wait", "body"}

BatchClosed ==
    /\ machine.at = "wait" => machine.local = machine.start
    /\ machine.at = "tail" => machine.elapsed <= machine.local
    /\ run = "idle" => machine.at \in Stops
    /\ saved.at = "wait" => saved.local = saved.start
    /\ saved.at \in Stops

Inv == TypeOK /\ SessionRestorable /\ HooksConserved /\ BatchClosed

-----------------------------------------------------------------------------
(* Words, levels and machines.                                             *)

LEMMA ModWord == 0 \in Word /\ \A x \in Nat : x % WORD \in Word
  BY RegionAssumption DEF Word

LEMMA FreshIsLevel ==
    FreshLevel \in Levels /\ \A v \in Levels : LevelsAfter(v) \subseteq Levels
  BY DEF Levels, LevelsAfter

LEMMA LevelFields ==
    ASSUME NEW v \in Levels
    PROVE  v.state \in {0} \union Outcomes /\ v.open \in BOOLEAN
  <1>1. CASE v = FreshLevel
    BY <1>1 DEF FreshLevel
  <1>2. CASE v \in [state : Outcomes, open : BOOLEAN]
    BY <1>2
  <1> QED
    BY <1>1, <1>2 DEF Levels

LEMMA BootIsMachine == BootMachine \in Machines
  BY ModWord, FreshIsLevel, RegionAssumption
     DEF BootMachine, Machines, Places

SnapshotAt(t, c) == [BootMachine EXCEPT !.at = "body", !.elapsed = t, !.scratch = c]

LEMMA SnapshotsAreMachines ==
    \A s \in BodySnapshots : s \in Machines /\ s.at = "body"
  <1>1. SnapshotClocks \subseteq Word
    BY RegionAssumption DEF Word
  <1>2. \A t \in SnapshotClocks, c \in Scratches :
          SnapshotAt(t, c) \in Machines /\ SnapshotAt(t, c).at = "body"
    BY <1>1, BootIsMachine DEF SnapshotAt, Machines, Places
  <1>3. BodySnapshots = {SnapshotAt(t, c) : t \in SnapshotClocks, c \in Scratches}
    BY DEF BodySnapshots, SnapshotAt
  <1> QED
    BY <1>2, <1>3

LEMMA NotNoSession == \A s \in Sessions : s # NoSession
  BY RegionAssumption DEF Sessions

LEMMA SessionOfMachine == \A m \in Machines : SessionFor(m) \in Sessions
  BY DEF SessionFor, Sessions, Machines

-----------------------------------------------------------------------------
THEOREM InitInv == Init => Inv
  <1> SUFFICES ASSUME Init PROVE Inv
    OBVIOUS
  <1>1. saved \in Machines /\ saved.at \in Stops /\ saved.at # "wait"
    <2>1. CASE saved = BootMachine
      BY <2>1, BootIsMachine DEF BootMachine, Stops
    <2>2. CASE saved \in BodySnapshots
      BY <2>2, SnapshotsAreMachines DEF Stops
    <2> QED
      BY <2>1, <2>2 DEF Init
  <1>2. machine.at = "outer"
    BY DEF Init, BootMachine
  <1>3. TypeOK
    BY <1>1, BootIsMachine DEF Init, TypeOK
  <1>4. SessionRestorable
    BY DEF Init, SessionRestorable
  <1>5. HooksConserved
    BY DEF Init, HooksConserved
  <1>6. BatchClosed
    BY <1>1, <1>2 DEF BatchClosed, Stops
  <1> QED
    BY <1>3, <1>4, <1>5, <1>6 DEF Inv

(* Taking the hooks out and putting them back.                             *)
LEMMA CollapseConserves ==
    ASSUME HooksConserved, session = NoSession,
           CollapseInternalBoundaries, session' # NoSession
    PROVE  HooksConserved'
  BY RegionAssumption DEF HooksConserved, CollapseInternalBoundaries

LEMMA RestoreConserves ==
    ASSUME HooksConserved, RestoreInternalBoundaries, session' = NoSession
    PROVE  HooksConserved'
  BY DEF HooksConserved, RestoreInternalBoundaries

LEMMA HooksTyped ==
    ASSUME HooksConserved'
    PROVE  installed' \subseteq Hooks /\ collapsed' \subseteq Hooks
  BY DEF HooksConserved

(* Leaving the region.                                                     *)
LEMMA ExitInv ==
    ASSUME Inv, NEW m \in Machines, NEW place \in {"outer", "road"},
           NEW r \in {0, Aborted} \union Outcomes,
           Exit(m, place, r), run = "frame"
    PROVE  Inv'
  <1>1. machine' \in Machines /\ machine'.at = place
    BY DEF Exit, Machines, Places
  <1>2. HooksConserved'
    BY RestoreConserves DEF Exit, Inv
  <1>3. TypeOK'
    BY <1>1, <1>2, HooksTyped DEF Exit, Inv, TypeOK
  <1>4. SessionRestorable' /\ BatchClosed'
    BY <1>1 DEF Exit, Inv, SessionRestorable, BatchClosed, Stops
  <1> QED
    BY <1>2, <1>3, <1>4 DEF Inv

(* The end of a batch: m is the machine once the timer was closed.         *)
LEMMA LeaveOrParkInv ==
    ASSUME Inv, Advancing, NEW m \in Machines, LeaveOrPark(m),
           m.local = m.start, m.scratch = machine.scratch
    PROVE  Inv'
  <1>1. m.level \in Levels /\ m.level.state \in {0} \union Outcomes
    BY LevelFields DEF Machines
  <1>2. CASE escape
    BY <1>2, ExitInv DEF LeaveOrPark, Advancing
  <1>3. CASE ~ escape /\ ~ m.level.open
    BY <1>1, <1>3, ExitInv DEF LeaveOrPark, Advancing
  <1>4. CASE ~ escape /\ m.level.open
    <2>1. /\ machine' = [m EXCEPT !.at = "wait"]
          /\ session' = [session EXCEPT !.awaiting = TRUE]
          /\ run' = "idle"
          /\ UNCHANGED <<saved, escape, installed, collapsed>>
      BY <1>4 DEF LeaveOrPark
    <2>2. session \in Sessions /\ session.scratch = machine.scratch
      BY DEF Advancing, Inv, TypeOK, SessionRestorable
    <2>3. /\ session' \in Sessions /\ session'.awaiting = TRUE
          /\ session'.scratch = session.scratch
      BY <2>1, <2>2 DEF Sessions
    <2>4. /\ machine' \in Machines /\ machine'.at = "wait"
          /\ machine'.local = machine'.start /\ machine'.scratch = m.scratch
      BY <2>1 DEF Machines, Places
    <2>5. session' = SessionFor(machine')
      BY <2>2, <2>3, <2>4 DEF SessionFor, Sessions
    <2>6. session' # NoSession
      BY <2>3, NotNoSession
    <2>7. HooksConserved'
      BY <2>1, <2>6 DEF HooksConserved, Inv, Advancing
    <2>8. TypeOK'
      BY <2>1, <2>3, <2>4 DEF TypeOK, Inv
    <2>9. SessionRestorable'
      BY <2>2, <2>3, <2>4, <2>5 DEF SessionRestorable
    <2>10. BatchClosed'
      BY <2>1, <2>4 DEF BatchClosed, Inv, Stops
    <2> QED
      BY <2>7, <2>8, <2>9, <2>10 DEF Inv
  <1> QED
    BY <1>1, <1>2, <1>3, <1>4 DEF Machines

(* What advance does to a machine inside the region.                       *)
LEMMA AdvancingFacts ==
    ASSUME Inv, Advancing
    PROVE  /\ run = "frame" /\ session \in Sessions
           /\ session.scratch = machine.scratch
           /\ machine \in Machines
           /\ machine.at = "wait" => session.awaiting = TRUE
  <1>1. /\ run = "frame" /\ session \in Sessions
        /\ session.scratch = machine.scratch /\ machine \in Machines
    BY DEF Inv, Advancing, TypeOK, SessionRestorable
  <1>2. machine.at = "wait" =>
          session = [scratch |-> machine.scratch, awaiting |-> TRUE]
    BY DEF Inv, Advancing, SessionRestorable, SessionFor
  <1> QED
    BY <1>1, <1>2

LEMMA CountedWord ==
    ASSUME NEW m \in Machines
    PROVE  /\ CountedBody(m) \in Machines
           /\ CountedBody(m) = [m EXCEPT !.local = (m.local + 1) % WORD]
  <1>1. m.local \in Nat
    BY DEF Machines, Word
  <1>2. (m.local + 1) % WORD \in Word
    BY <1>1, ModWord
  <1> QED
    BY <1>2 DEF CountedBody, Machines

(* Between frames.                                                         *)
LEMMA FrameStartInv == ASSUME Inv, FrameStart PROVE Inv'
  <1>1. PICK k \in 0 .. MaxTicks :
          machine' = [machine EXCEPT !.elapsed = (machine.elapsed + k) % WORD]
    BY DEF FrameStart
  <1>2. machine \in Machines /\ machine.elapsed \in Nat /\ k \in Nat
    BY RegionAssumption DEF Inv, TypeOK, Machines, Word
  <1>3. (machine.elapsed + k) % WORD \in Word
    BY <1>2, ModWord
  <1>4. machine' \in Machines
    BY <1>1, <1>2, <1>3 DEF Machines
  <1>5. /\ machine'.at = machine.at /\ machine'.local = machine.local
        /\ machine'.start = machine.start /\ machine'.scratch = machine.scratch
    BY <1>1, <1>2 DEF Machines
  <1>6. run = "idle" /\ run' = "frame"
        /\ UNCHANGED <<saved, escape, session, installed, collapsed>>
    BY DEF FrameStart
  <1>7. TypeOK' /\ HooksConserved'
    BY <1>4, <1>6 DEF Inv, TypeOK, HooksConserved
  <1>8. SessionRestorable'
    BY <1>5, <1>6 DEF Inv, SessionRestorable, SessionFor
  <1>9. BatchClosed'
    BY <1>5, <1>6 DEF Inv, BatchClosed, Stops
  <1> QED
    BY <1>7, <1>8, <1>9 DEF Inv

LEMMA CaptureInv == ASSUME Inv, Capture PROVE Inv'
  BY DEF Capture, Inv, TypeOK, SessionRestorable, SessionFor, HooksConserved,
         BatchClosed, Stops

LEMMA RestoreInv == ASSUME Inv, ApplyReplayState PROVE Inv'
  <1>1. /\ machine' = saved /\ session' = NoSession
        /\ UNCHANGED <<saved, escape, run>> /\ RestoreInternalBoundaries
    BY DEF ApplyReplayState
  <1>2. HooksConserved'
    BY <1>1, RestoreConserves DEF Inv
  <1>3. TypeOK'
    BY <1>1, <1>2, HooksTyped DEF Inv, TypeOK
  <1>4. SessionRestorable' /\ BatchClosed'
    BY <1>1 DEF Inv, SessionRestorable, BatchClosed, Stops
  <1> QED
    BY <1>2, <1>3, <1>4 DEF Inv

(* Generated code.                                                         *)
LEMMA HandlerStartsInv == ASSUME Inv, HandlerStarts PROVE Inv'
  <1>1. machine' \in Machines /\ machine'.at \in {"outer", "wait"}
        /\ machine'.local = machine'.start
    BY BootIsMachine DEF HandlerStarts, Inv, TypeOK, Machines, Places, BootMachine
  <1>2. session = NoSession /\ run = "frame"
        /\ UNCHANGED <<saved, escape, session, installed, collapsed, run>>
    BY DEF HandlerStarts, Generated
  <1> QED
    BY <1>1, <1>2 DEF Inv, TypeOK, SessionRestorable, HooksConserved, BatchClosed

LEMMA RoadReturnsInv == ASSUME Inv, RoadReturns PROVE Inv'
  <1>1. machine' \in Machines /\ machine'.at = "outer"
    BY DEF RoadReturns, Inv, TypeOK, Machines, Places
  <1>2. session = NoSession /\ run = "frame"
        /\ UNCHANGED <<saved, escape, session, installed, collapsed, run>>
    BY DEF RoadReturns, Generated
  <1> QED
    BY <1>1, <1>2 DEF Inv, TypeOK, SessionRestorable, HooksConserved, BatchClosed

LEMMA HandoffInv == ASSUME Inv, Handoff PROVE Inv'
  <1>1. /\ session = NoSession /\ run = "frame"
        /\ machine.at \in {"wait", "body"} /\ session' = SessionFor(machine)
        /\ CollapseInternalBoundaries
        /\ UNCHANGED <<machine, saved, escape, run>>
    BY DEF Handoff, Generated
  <1>2. session' \in Sessions /\ session' # NoSession
    BY <1>1, SessionOfMachine, NotNoSession DEF Inv, TypeOK
  <1>3. HooksConserved'
    BY <1>1, <1>2, CollapseConserves DEF Inv
  <1>4. TypeOK'
    BY <1>1, <1>2, <1>3, HooksTyped DEF Inv, TypeOK
  <1>5. SessionRestorable' /\ BatchClosed'
    BY <1>1 DEF Inv, SessionRestorable, SessionFor, BatchClosed, Stops
  <1> QED
    BY <1>3, <1>4, <1>5 DEF Inv

(* SkyroadsGameplaySession.advance.                                        *)
LEMMA AdvanceWaitsInv == ASSUME Inv, AdvanceWaits PROVE Inv'
  BY DEF AdvanceWaits, Inv, TypeOK, SessionRestorable, SessionFor,
         HooksConserved, BatchClosed, Stops

LEMMA AdvanceStartsInv == ASSUME Inv, AdvanceStarts PROVE Inv'
  <1>1. /\ machine' = [machine EXCEPT !.at = "body"] /\ run = "frame"
        /\ UNCHANGED <<saved, escape, session, installed, collapsed, run>>
    BY DEF AdvanceStarts, Advancing
  <1>2. machine' \in Machines /\ machine'.at = "body"
        /\ machine'.scratch = machine.scratch
    BY <1>1 DEF Inv, TypeOK, Machines, Places
  <1> QED
    BY <1>1, <1>2 DEF Inv, TypeOK, SessionRestorable, HooksConserved, BatchClosed

(* One body: the locals it leaves are in the session and in the machine.   *)
BodyDone(m, c, v) ==
    [m EXCEPT !.local = (m.local + 1) % WORD, !.scratch = c, !.level = v]

LEMMA BodyResult ==
    ASSUME NEW m \in Machines, NEW c \in Scratches, NEW v \in Levels
    PROVE  LET done == CountedBody(Materialized([m EXCEPT !.level = v], c))
           IN  done \in Machines /\ done.scratch = c /\ done = BodyDone(m, c, v)
  <1> DEFINE held == Materialized([m EXCEPT !.level = v], c)
  <1>1. held \in Machines /\ held.local = m.local
        /\ held = [m EXCEPT !.scratch = c, !.level = v]
    BY DEF Materialized, Machines
  <1>2. CountedBody(held) \in Machines
        /\ CountedBody(held) = [held EXCEPT !.local = (m.local + 1) % WORD]
    BY <1>1, CountedWord
  <1> QED
    BY <1>1, <1>2 DEF Machines, BodyDone

LEMMA AdvanceBodyInv == ASSUME Inv, AdvanceBody PROVE Inv'
  <1>1. PICK c \in Scratches, v \in LevelsAfter(machine.level) :
          LET done == CountedBody(Materialized([machine EXCEPT !.level = v], c))
          IN /\ session' = [session EXCEPT !.scratch = c]
             /\ machine' = [done EXCEPT
                    !.at = IF done.local >= done.elapsed THEN "tail" ELSE "body"]
    BY DEF AdvanceBody
  <1> DEFINE done == CountedBody(Materialized([machine EXCEPT !.level = v], c))
  <1>2. /\ Advancing /\ UNCHANGED <<saved, escape, installed, collapsed, run>>
    BY DEF AdvanceBody
  <1>3. v \in Levels /\ machine \in Machines
    BY FreshIsLevel DEF Inv, TypeOK, Machines
  <1>4. done \in Machines /\ done.scratch = c
    BY <1>3, BodyResult
  <1>5. machine' = [done EXCEPT
                      !.at = IF done.local >= done.elapsed THEN "tail" ELSE "body"]
    BY <1>1
  <1> HIDE DEF done
  <1>6. /\ machine' \in Machines /\ machine'.at \in {"tail", "body"}
        /\ machine'.scratch = c
        /\ machine'.local = done.local /\ machine'.elapsed = done.elapsed
        /\ machine'.at = "tail" => done.local >= done.elapsed
    BY <1>4, <1>5 DEF Machines, Places
  <1>7. machine'.at = "tail" => machine'.elapsed <= machine'.local
    BY <1>4, <1>6 DEF Machines, Word
  <1>8. session' \in Sessions /\ session'.scratch = c /\ session' # NoSession
    BY <1>1, <1>2, AdvancingFacts, NotNoSession DEF Sessions
  <1>9. TypeOK' /\ HooksConserved'
    BY <1>2, <1>6, <1>8 DEF Inv, TypeOK, HooksConserved, Advancing
  <1>10. SessionRestorable' /\ BatchClosed'
    BY <1>2, <1>6, <1>7, <1>8
       DEF Inv, SessionRestorable, BatchClosed, Advancing
  <1> QED
    BY <1>9, <1>10 DEF Inv

LEMMA AdvanceDepartsInv == ASSUME Inv, AdvanceDeparts PROVE Inv'
  <1>1. PICK v \in Levels :
          Exit(Materialized([machine EXCEPT !.level = v], session.scratch),
               "road", machine.ax)
    BY DEF AdvanceDeparts
  <1>2. Advancing
    BY DEF AdvanceDeparts
  <1>3. Materialized([machine EXCEPT !.level = v], session.scratch) \in Machines
    BY <1>2, AdvancingFacts DEF Materialized, Machines, Sessions
  <1>4. machine.ax \in {0, Aborted} \union Outcomes
    BY DEF Inv, TypeOK, Machines
  <1> QED
    BY <1>1, <1>2, <1>3, <1>4, AdvancingFacts, ExitInv

(* The machine once the timer was closed at the end of a batch.            *)
Closed ==
    IF machine.elapsed < machine.local
    THEN [machine EXCEPT !.elapsed = 0, !.local = 0, !.start = 0]
    ELSE [machine EXCEPT !.start = machine.elapsed]

LEMMA ClosedFacts ==
    ASSUME Inv, AdvanceEnds
    PROVE  /\ Advancing /\ machine.at = "tail" /\ LeaveOrPark(Closed)
           /\ Closed \in Machines /\ Closed.local = Closed.start
           /\ Closed.scratch = machine.scratch
  <1>1. Advancing /\ machine.at = "tail" /\ machine.elapsed <= machine.local
    BY DEF AdvanceEnds, Inv, BatchClosed
  <1>2. machine \in Machines /\ machine.elapsed \in Nat /\ machine.local \in Nat
    BY DEF Inv, TypeOK, Machines, Word
  <1>3. LeaveOrPark(Closed)
    BY DEF AdvanceEnds, Closed
  <1>4. CASE machine.elapsed < machine.local
    BY <1>1, <1>2, <1>3, <1>4, ModWord DEF Closed, Machines
  <1>5. CASE machine.elapsed = machine.local
    BY <1>1, <1>2, <1>3, <1>5 DEF Closed, Machines
  <1> QED
    BY <1>1, <1>2, <1>4, <1>5

LEMMA AdvanceEndsInv == ASSUME Inv, AdvanceEnds PROVE Inv'
  BY ClosedFacts, LeaveOrParkInv

-----------------------------------------------------------------------------
THEOREM StepInv == Inv /\ [Next]_vars => Inv'
  <1> SUFFICES ASSUME Inv, [Next]_vars PROVE Inv'
    OBVIOUS
  <1>1. CASE FrameStart
    BY <1>1, FrameStartInv
  <1>2. CASE EscapeKey
    BY <1>2 DEF EscapeKey, Inv, TypeOK, SessionRestorable, SessionFor,
                HooksConserved, BatchClosed
  <1>3. CASE Capture
    BY <1>3, CaptureInv
  <1>4. CASE ApplyReplayState
    BY <1>4, RestoreInv
  <1>5. CASE OuterParks
    BY <1>5 DEF OuterParks, Generated, Inv, TypeOK, SessionRestorable,
                HooksConserved, BatchClosed, Stops
  <1>6. CASE HandlerStarts
    BY <1>6, HandlerStartsInv
  <1>7. CASE RoadReturns
    BY <1>7, RoadReturnsInv
  <1>8. CASE Handoff
    BY <1>8, HandoffInv
  <1>9. CASE AdvanceWaits
    BY <1>9, AdvanceWaitsInv
  <1>10. CASE AdvanceStarts
    BY <1>10, AdvanceStartsInv
  <1>11. CASE AdvanceBody
    BY <1>11, AdvanceBodyInv
  <1>12. CASE AdvanceDeparts
    BY <1>12, AdvanceDepartsInv
  <1>13. CASE AdvanceEnds
    BY <1>13, AdvanceEndsInv
  <1>14. CASE UNCHANGED vars
    BY <1>14 DEF vars, Inv, TypeOK, SessionRestorable, SessionFor,
                 HooksConserved, BatchClosed
  <1> QED
    BY <1>1, <1>2, <1>3, <1>4, <1>5, <1>6, <1>7, <1>8, <1>9, <1>10, <1>11,
       <1>12, <1>13, <1>14 DEF Next, InFrame

(* The invariant of the region under the frame loop.                       *)
THEOREM Safety == Spec => []Inv
  BY InitInv, StepInv, PTL DEF Spec

(* Every machine, session and set of hooks is of its type: the counters of *)
(* the batch loop stay words.                                              *)
THEOREM TypeCorrect == Spec => []TypeOK
  <1>1. Inv => TypeOK
    BY DEF Inv
  <1> QED
    BY <1>1, Safety, PTL

(* reset_gameplay_region_for_restore may drop the session at any frame:    *)
(* _capture_scratch finds its locals in the stack frame.                   *)
THEOREM SessionsRestorable == Spec => []SessionRestorable
  <1>1. Inv => SessionRestorable
    BY DEF Inv
  <1> QED
    BY <1>1, Safety, PTL

(* _collapse_internal_boundaries and restore_internal_boundaries lose no   *)
(* hook, however often the region is entered, left and restored.           *)
THEOREM HooksAreConserved == Spec => []HooksConserved
  <1>1. Inv => HooksConserved
    BY DEF Inv
  <1> QED
    BY <1>1, Safety, PTL

-----------------------------------------------------------------------------
(* The refinement of HandlerLoop.  Under Inv the locals of the session are *)
(* those of the stack frame, so the abstract machine is the machine.       *)
HandlerMachine == IF session = NoSession THEN machine
                  ELSE [machine EXCEPT !.scratch = session.scratch]

HandlerVars == <<HandlerMachine, saved, escape>>

LEMMA MachineIsHandlerMachine == Inv => HandlerMachine = machine
  <1> SUFFICES ASSUME Inv, session # NoSession PROVE HandlerMachine = machine
    BY DEF HandlerMachine
  <1>1. session.scratch = machine.scratch /\ machine \in Machines
    BY DEF Inv, SessionRestorable, TypeOK
  <1> QED
    BY <1>1 DEF HandlerMachine, Machines

LEMMA HandlerTypes ==
    /\ Handler!Word = Word /\ Handler!Levels = Levels
    /\ Handler!Machines = Machines /\ Handler!FreshLevel = FreshLevel
    /\ Handler!Aborted = Aborted
    /\ \A v : Handler!LevelsAfter(v) = LevelsAfter(v)
  <1>1. Handler!Word = Word /\ Handler!FreshLevel = FreshLevel
        /\ Handler!Aborted = Aborted
    BY DEF Handler!Word, Word, Handler!FreshLevel, FreshLevel,
           Handler!Aborted, Aborted
  <1>2. Handler!Levels = Levels
    BY <1>1 DEF Handler!Levels, Levels
  <1> QED
    BY <1>1, <1>2 DEF Handler!Machines, Machines, Handler!Places, Places,
                      Handler!LevelsAfter, LevelsAfter

LEMMA InitRefines == Init => Handler!Init
  <1> SUFFICES ASSUME Init PROVE Handler!Init
    OBVIOUS
  <1>1. Inv
    BY InitInv
  <1>2. HandlerMachine = machine /\ machine.at = "outer"
    BY <1>1, MachineIsHandlerMachine DEF Init, BootMachine
  <1> QED
    BY <1>1, <1>2, HandlerTypes
       DEF Handler!Init, HandlerMachine, Init, Inv, TypeOK

LEMMA BothMachines ==
    ASSUME Inv, Inv'
    PROVE  HandlerMachine = machine /\ HandlerMachine' = machine'
  BY MachineIsHandlerMachine DEF Inv, TypeOK, SessionRestorable, HandlerMachine, Machines

(* Steps the handler does not have: a frame begins or ends, a session is   *)
(* opened.                                                                 *)
LEMMA QuietRefines ==
    ASSUME Inv, Inv', machine' = machine, UNCHANGED <<saved, escape>>
    PROVE  HandlerVars' = HandlerVars
  BY BothMachines DEF HandlerVars

LEMMA MachinesAgree ==
    ASSUME NEW m \in Machines, NEW n \in Machines,
           m.at = n.at, m.elapsed = n.elapsed, m.local = n.local,
           m.start = n.start, m.scratch = n.scratch, m.level = n.level,
           m.ax = n.ax
    PROVE  m = n
  BY DEF Machines

LEMMA FrameStartRefines ==
    ASSUME Inv, Inv', FrameStart
    PROVE  [Handler!Next]_HandlerVars
  <1>1. UNCHANGED <<saved, escape>>
    BY DEF FrameStart
  <1>2. PICK k \in 0 .. MaxTicks :
          machine' = [machine EXCEPT !.elapsed = (machine.elapsed + k) % WORD]
    BY DEF FrameStart
  <1>3. machine \in Machines /\ MaxTicks \in Nat /\ WORD \in Nat \ {0}
    BY RegionAssumption DEF Inv, TypeOK
  <1>4. CASE k = 0
    <2>1. machine.elapsed \in 0 .. WORD - 1
      BY <1>3 DEF Machines, Word
    <2>2. (machine.elapsed + 0) % WORD = machine.elapsed
      BY <1>3, <2>1
    <2>3. machine' = machine
      BY <1>2, <1>3, <1>4, <2>2 DEF Machines
    <2> QED
      BY <1>1, <2>3, QuietRefines
  <1>5. CASE k # 0
    <2>1. k \in 1 .. MaxTicks
      BY <1>3, <1>5
    <2>2. Handler!Tick
      BY <1>1, <1>2, <2>1, BothMachines DEF Handler!Tick, HandlerMachine
    <2> QED
      BY <2>2 DEF Handler!Next
  <1> QED
    BY <1>4, <1>5

LEMMA EscapeKeyRefines ==
    ASSUME Inv, Inv', EscapeKey
    PROVE  [Handler!Next]_HandlerVars
  BY BothMachines DEF EscapeKey, Handler!Next, Handler!EscapeKey, HandlerMachine

LEMMA CaptureRefines ==
    ASSUME Inv, Inv', Capture
    PROVE  [Handler!Next]_HandlerVars
  BY BothMachines DEF Capture, Handler!Next, Handler!Save, HandlerMachine

LEMMA RestoreRefines ==
    ASSUME Inv, Inv', ApplyReplayState
    PROVE  [Handler!Next]_HandlerVars
  BY BothMachines DEF ApplyReplayState, Handler!Next, Handler!Restore, HandlerMachine

(* Generated code runs the handler itself.                                 *)
LEMMA HandlerStartsRefines ==
    ASSUME Inv, Inv', HandlerStarts
    PROVE  [Handler!Next]_HandlerVars
  <1>1. machine \in Machines /\ machine.at = "outer"
    BY DEF HandlerStarts, Inv, TypeOK
  <1>2. /\ machine' = [BootMachine EXCEPT
                         !.at = IF escape THEN "outer" ELSE "wait",
                         !.ax = IF escape THEN Aborted ELSE machine.ax]
        /\ UNCHANGED <<saved, escape>>
    BY DEF HandlerStarts
  <1>3. machine' = [machine EXCEPT
                     !.at = IF escape THEN "outer" ELSE "wait",
                     !.elapsed = 0, !.local = 0, !.start = 0,
                     !.scratch = FreshScratch, !.level = FreshLevel,
                     !.ax = IF escape THEN Aborted ELSE machine.ax]
    <2> DEFINE entered ==
                 [machine EXCEPT
                     !.at = IF escape THEN "outer" ELSE "wait",
                     !.elapsed = 0, !.local = 0, !.start = 0,
                     !.scratch = FreshScratch, !.level = FreshLevel,
                     !.ax = IF escape THEN Aborted ELSE machine.ax]
    <2>1. entered \in Machines
      BY <1>1, ModWord, FreshIsLevel, RegionAssumption DEF Machines, Places
    <2>2. /\ entered.at = IF escape THEN "outer" ELSE "wait"
          /\ entered.elapsed = 0 /\ entered.local = 0 /\ entered.start = 0
          /\ entered.scratch = FreshScratch /\ entered.level = FreshLevel
          /\ entered.ax = IF escape THEN Aborted ELSE machine.ax
      BY <1>1 DEF Machines
    <2>3. machine' \in Machines
      BY DEF Inv, TypeOK
    <2>4. /\ machine'.at = IF escape THEN "outer" ELSE "wait"
          /\ machine'.elapsed = 0 /\ machine'.local = 0 /\ machine'.start = 0
          /\ machine'.scratch = FreshScratch /\ machine'.level = FreshLevel
          /\ machine'.ax = IF escape THEN Aborted ELSE machine.ax
      BY <1>2, BootIsMachine DEF BootMachine, Machines
    <2> HIDE DEF entered
    <2>5. machine' = entered
      BY <2>1, <2>2, <2>3, <2>4, MachinesAgree
    <2> QED
      BY <2>5 DEF entered
  <1>4. Handler!Enter
    BY <1>1, <1>2, <1>3, BothMachines, HandlerTypes DEF Handler!Enter, HandlerMachine
  <1> QED
    BY <1>4 DEF Handler!Next

LEMMA RoadReturnsRefines ==
    ASSUME Inv, Inv', RoadReturns
    PROVE  [Handler!Next]_HandlerVars
  <1>1. Handler!RoadReturns
    BY BothMachines DEF RoadReturns, Handler!RoadReturns, HandlerMachine
  <1> QED
    BY <1>1 DEF Handler!Next

(* advance runs the handler's loop.  A session waits only for a timer it   *)
(* has seen, so a wait that ends is one whose timer moved.                 *)
LEMMA AdvanceStartsRefines ==
    ASSUME Inv, Inv', AdvanceStarts
    PROVE  [Handler!Next]_HandlerVars
  <1>1. machine.at = "wait" /\ machine.elapsed # machine.start
        /\ machine' = [machine EXCEPT !.at = "body"]
        /\ UNCHANGED <<saved, escape>>
    BY AdvancingFacts DEF AdvanceStarts
  <1>2. Handler!Wake
    BY <1>1, BothMachines DEF Handler!Wake, HandlerMachine
  <1> QED
    BY <1>2 DEF Handler!Next

LEMMA AdvanceBodyRefines ==
    ASSUME Inv, Inv', AdvanceBody
    PROVE  [Handler!Next]_HandlerVars
  <1>1. PICK c \in Scratches, v \in LevelsAfter(machine.level) :
          LET done == CountedBody(Materialized([machine EXCEPT !.level = v], c))
          IN machine' = [done EXCEPT
                    !.at = IF done.local >= done.elapsed THEN "tail" ELSE "body"]
    BY DEF AdvanceBody
  <1> DEFINE done == BodyDone(machine, c, v)
  <1>2. machine.at = "body" /\ UNCHANGED <<saved, escape>>
    BY DEF AdvanceBody
  <1>3. v \in Levels /\ machine \in Machines
    BY FreshIsLevel DEF Inv, TypeOK, Machines
  <1>4. CountedBody(Materialized([machine EXCEPT !.level = v], c)) = done
        /\ done \in Machines
    BY <1>3, BodyResult
  <1>5. machine' = [done EXCEPT
                      !.at = IF done.local >= done.elapsed THEN "tail" ELSE "body"]
    BY <1>1, <1>4
  <1>6. done.local \in Nat /\ done.elapsed \in Nat
    <2> HIDE DEF done
    <2> QED
      BY <1>4 DEF Machines, Word
  <1>7. machine' = [done EXCEPT
                      !.at = IF Handler!Behind(done) THEN "body" ELSE "tail"]
    <2>1. (done.local >= done.elapsed) <=> ~ Handler!Behind(done)
      BY <1>6 DEF Handler!Behind
    <2> HIDE DEF done
    <2> QED
      BY <1>5, <2>1
  <1>8. Handler!Body
    BY <1>2, <1>7, BothMachines, HandlerTypes
       DEF Handler!Body, HandlerMachine, BodyDone
  <1> QED
    BY <1>8 DEF Handler!Next

LEMMA AdvanceDepartsRefines ==
    ASSUME Inv, Inv', AdvanceDeparts
    PROVE  [Handler!Next]_HandlerVars
  <1>1. PICK v \in Levels :
          Exit(Materialized([machine EXCEPT !.level = v], session.scratch),
               "road", machine.ax)
    BY DEF AdvanceDeparts
  <1>2. /\ machine.at = "body" /\ machine.level.state = 0
        /\ machine \in Machines /\ session.scratch = machine.scratch
    BY AdvancingFacts DEF AdvanceDeparts
  <1>3. UNCHANGED <<saved, escape>>
    BY <1>1 DEF Exit
  <1>4. machine' = [machine EXCEPT !.at = "road", !.level = v]
    BY <1>1, <1>2 DEF Exit, Materialized, Machines
  <1>5. Handler!Depart
    BY <1>2, <1>3, <1>4, BothMachines, HandlerTypes DEF Handler!Depart, HandlerMachine
  <1> QED
    BY <1>5 DEF Handler!Next

LEMMA AdvanceEndsRefines ==
    ASSUME Inv, Inv', AdvanceEnds
    PROVE  [Handler!Next]_HandlerVars
  <1>1. machine.at = "tail" /\ LeaveOrPark(Closed)
    BY ClosedFacts
  <1>2. Handler!TimerClosed(machine) = Closed
    BY DEF Handler!TimerClosed, Closed
  <1>3. /\ UNCHANGED <<saved, escape>>
        /\ machine' = IF escape THEN [Closed EXCEPT !.at = "outer", !.ax = Aborted]
                      ELSE IF ~ Closed.level.open
                           THEN [Closed EXCEPT !.at = "outer",
                                               !.ax = Closed.level.state]
                      ELSE [Closed EXCEPT !.at = "wait"]
    BY <1>1 DEF LeaveOrPark, Exit
  <1>4. Handler!Tail
    BY <1>1, <1>2, <1>3, BothMachines, HandlerTypes DEF Handler!Tail, HandlerMachine
  <1> QED
    BY <1>4 DEF Handler!Next

LEMMA StepRefines ==
    ASSUME Inv, Inv', [Next]_vars
    PROVE  [Handler!Next]_HandlerVars
  <1>1. CASE FrameStart
    BY <1>1, FrameStartRefines
  <1>2. CASE EscapeKey
    BY <1>2, EscapeKeyRefines
  <1>3. CASE Capture
    BY <1>3, CaptureRefines
  <1>4. CASE ApplyReplayState
    BY <1>4, RestoreRefines
  <1>5. CASE OuterParks \/ Handoff \/ AdvanceWaits
    BY <1>5, QuietRefines DEF OuterParks, Handoff, AdvanceWaits
  <1>6. CASE HandlerStarts
    BY <1>6, HandlerStartsRefines
  <1>7. CASE RoadReturns
    BY <1>7, RoadReturnsRefines
  <1>8. CASE AdvanceStarts
    BY <1>8, AdvanceStartsRefines
  <1>9. CASE AdvanceBody
    BY <1>9, AdvanceBodyRefines
  <1>10. CASE AdvanceDeparts
    BY <1>10, AdvanceDepartsRefines
  <1>11. CASE AdvanceEnds
    BY <1>11, AdvanceEndsRefines
  <1>12. CASE UNCHANGED vars
    BY <1>12, QuietRefines DEF vars
  <1> QED
    BY <1>1, <1>2, <1>3, <1>4, <1>5, <1>6, <1>7, <1>8, <1>9, <1>10, <1>11,
       <1>12 DEF Next, InFrame

(* The region, handed off, parked, dropped and resumed at any frame, does  *)
(* to the machine only what the handler 1010:1FD9 it replaces may do.      *)
THEOREM RegionImplementsHandler == Spec => ImplementsHandler
  <1>1. Inv /\ [Next]_vars => Inv'
    BY StepInv
  <1>2. [Handler!Next]_HandlerVars => [Handler!Next]_(Handler!vars)
    BY DEF HandlerVars, HandlerMachine, Handler!vars
  <1> QED
    BY <1>1, <1>2, Safety, InitRefines, StepRefines, PTL
       DEF Spec, ImplementsHandler, Handler!Spec
=============================================================================
