--------------------------- MODULE GameplayRegion ---------------------------
(***************************************************************************)
(* The authored gameplay region (skyroads/gameplay_region.py) inside the   *)
(* frame loop of VmlessDriver (skyroads/vmless_backend.py).                *)
(*                                                                         *)
(* The generated program runs until it reaches the handler's wait 22F8 (or *)
(* its body 2317); there the region takes over: it hides the hooks of the  *)
(* generated code it covers and opens a session, which keeps the handler's *)
(* stack locals in Python and mirrors them into the stack frame after      *)
(* every body.  Each frame delivers timer interrupts and then lets the     *)
(* session advance to its next wait.  When the level is over the hooks     *)
(* come back, the session is dropped and generated code goes on.  Replays  *)
(* restore the machine between frames and drop the session.                *)
(*                                                                         *)
(* The body itself is LevelRun's; here it may leave any locals, any level. *)
(***************************************************************************)
EXTENDS Naturals, FiniteSets

CONSTANTS
    WORD,            \* number of values of a machine word (0x10000)
    MaxTicks,        \* bound: timer ticks of one frame
    Scratches, FreshScratch,
    Outcomes,
    Hooks,           \* replacement hooks of the generated functions
    Covered,         \* ... of the functions the region covers
    SnapshotClocks,  \* timers of continuations saved at 2317 elsewhere
    NoSession

ASSUME RegionAssumption ==
    /\ WORD \in Nat \ {0} /\ MaxTicks \in Nat \ {0}
    /\ FreshScratch \in Scratches
    /\ 0 \notin Outcomes
    /\ Covered \subseteq Hooks
    /\ SnapshotClocks \subseteq 1 .. WORD - 1
    /\ NoSession \notin [scratch : Scratches, awaiting : BOOLEAN]

VARIABLES
    machine,    \* CPU and DOS memory: place, DGROUP words, stack locals, AX
    saved,      \* a continuation captured earlier
    escape,     \* the escape key is down
    session,    \* SkyroadsGameplaySession of the active region, or NoSession
    installed,  \* cpu.replacement_hooks
    collapsed,  \* _collapsed_hooks
    run         \* "frame" inside VmlessDriver.frame, "idle" between frames

vars == <<machine, saved, escape, session, installed, collapsed, run>>

-----------------------------------------------------------------------------
Word == 0 .. WORD - 1
Aborted == 7

FreshLevel == [state |-> 0, open |-> TRUE]
Levels == {FreshLevel} \union [state : Outcomes, open : BOOLEAN]

(* What a body may make of a level (LevelRun: an ended level stays ended). *)
LevelsAfter(level) == IF level.state = 0 THEN Levels ELSE Levels \ {FreshLevel}

Sessions == [scratch : Scratches, awaiting : BOOLEAN]

BootMachine ==
    [at |-> "outer", elapsed |-> 0, local |-> 0, start |-> 0,
     scratch |-> FreshScratch, level |-> FreshLevel, ax |-> 0]

(* Continuations saved at 2317 by a run without the region.                *)
BodySnapshots ==
    {[BootMachine EXCEPT !.at = "body", !.elapsed = t, !.scratch = s] :
        t \in SnapshotClocks, s \in Scratches}

Init ==
    /\ machine = BootMachine
    /\ saved \in {BootMachine} \union BodySnapshots
    /\ escape = FALSE
    /\ session = NoSession
    /\ installed = Hooks
    /\ collapsed = {}
    /\ run = "idle"

-----------------------------------------------------------------------------
(* The hooks and the stack frame.                                          *)

CollapseInternalBoundaries ==
    /\ installed' = installed \ Covered
    /\ collapsed' = collapsed \union (installed \intersect Covered)

(* Bug: the hooks are forgotten instead of restored.                       *)
ForgetInternalBoundaries ==
    /\ collapsed' = {}
    /\ UNCHANGED installed

RestoreInternalBoundaries ==
    /\ installed' = installed \union collapsed
    /\ collapsed' = {}

(* Bugs: the locals are not read back; the wait is taken for over.         *)
SessionFresh(m) == [scratch |-> FreshScratch, awaiting |-> m.at = "wait"]
SessionEager(m) == [scratch |-> m.scratch, awaiting |-> FALSE]

(* _capture_scratch and the constructor of SkyroadsGameplaySession.        *)
SessionFor(m) == [scratch |-> m.scratch, awaiting |-> m.at = "wait"]

(* Bug: the stack frame is left as it was.                                 *)
NotMaterialized(m, s) == m

(* _materialize_scratch.                                                   *)
Materialized(m, s) == [m EXCEPT !.scratch = s]

(* Bug: the counter is not kept to a word.                                 *)
CountedUnmasked(m) == [m EXCEPT !.local = @ + 1]

(* The body counter SS:[BP-2], incremented after every body.               *)
CountedBody(m) == [m EXCEPT !.local = (@ + 1) % WORD]
-----------------------------------------------------------------------------
(* Between frames.                                                         *)

(* VmlessDriver.frame delivers the timer interrupts of the frame first.    *)
FrameStart ==
    /\ run = "idle"
    /\ \E k \in 0 .. MaxTicks :
          machine' = [machine EXCEPT !.elapsed = (@ + k) % WORD]
    /\ run' = "frame"
    /\ UNCHANGED <<saved, escape, session, installed, collapsed>>

EscapeKey ==
    /\ run = "idle"
    /\ escape' = ~ escape
    /\ UNCHANGED <<machine, saved, session, installed, collapsed, run>>

Capture ==
    /\ run = "idle"
    /\ saved' = machine
    /\ UNCHANGED <<machine, escape, session, installed, collapsed, run>>

(* apply_replay_state: reset_gameplay_region_for_restore, then the machine.*)
ApplyReplayState ==
    /\ run = "idle"
    /\ RestoreInternalBoundaries
    /\ session' = NoSession
    /\ machine' = saved
    /\ UNCHANGED <<saved, escape, run>>

-----------------------------------------------------------------------------
(* Generated code, while no region is active.                              *)

Generated == run = "frame" /\ session = NoSession

OuterParks ==
    /\ Generated
    /\ machine.at = "outer"
    /\ run' = "idle"
    /\ UNCHANGED <<machine, saved, escape, session, installed, collapsed>>

(* 1FD9 up to its first wait, or back out if escape is down.               *)
HandlerStarts ==
    /\ Generated
    /\ machine.at = "outer"
    /\ machine' = [BootMachine EXCEPT
                     !.at = IF escape THEN "outer" ELSE "wait",
                     !.ax = IF escape THEN Aborted ELSE machine.ax]
    /\ UNCHANGED <<saved, escape, session, installed, collapsed, run>>

(* 0F05 plays the end of the road; its caller sees zero.                   *)
RoadReturns ==
    /\ Generated
    /\ machine.at = "road"
    /\ machine' = [machine EXCEPT !.at = "outer", !.ax = 0]
    /\ UNCHANGED <<saved, escape, session, installed, collapsed, run>>

(* maybe_handoff, at either entry of the region.                           *)
Handoff ==
    /\ Generated
    /\ machine.at \in {"wait", "body"}
    /\ CollapseInternalBoundaries
    /\ session' = SessionFor(machine)
    /\ UNCHANGED <<machine, saved, escape, run>>

-----------------------------------------------------------------------------
(* SkyroadsGameplaySession.advance.                                        *)

Advancing == run = "frame" /\ session # NoSession

(* complete: hooks back, dispatcher idle, generated code at `place`.       *)
Exit(m, place, result) ==
    /\ RestoreInternalBoundaries
    /\ session' = NoSession
    /\ machine' = [m EXCEPT !.at = place, !.ax = result]
    /\ UNCHANGED <<saved, escape, run>>

AdvanceWaits ==
    /\ Advancing
    /\ machine.at = "wait"
    /\ session.awaiting /\ machine.elapsed = machine.start
    /\ run' = "idle"
    /\ UNCHANGED <<machine, saved, escape, session, installed, collapsed>>

AdvanceStarts ==
    /\ Advancing
    /\ machine.at = "wait"
    /\ ~ (session.awaiting /\ machine.elapsed = machine.start)
    /\ machine' = [machine EXCEPT !.at = "body"]
    /\ UNCHANGED <<saved, escape, session, installed, collapsed, run>>

AdvanceBody ==
    /\ Advancing
    /\ machine.at = "body"
    /\ \E s \in Scratches, level \in LevelsAfter(machine.level) :
         LET done == CountedBody(Materialized([machine EXCEPT !.level = level], s))
         IN /\ session' = [session EXCEPT !.scratch = s]
            /\ machine' = [done EXCEPT
                             !.at = IF done.local >= done.elapsed THEN "tail" ELSE "body"]
    /\ UNCHANGED <<saved, escape, installed, collapsed, run>>

(* RoadDepartureTransition: the locals of the body before go back.         *)
AdvanceDeparts ==
    /\ Advancing
    /\ machine.at = "body"
    /\ machine.level.state = 0
    /\ \E level \in Levels :
         Exit(Materialized([machine EXCEPT !.level = level], session.scratch),
              "road", machine.ax)

(* Bug: escape is looked at only once the gate has closed.                 *)
LeaveAtGate(m) ==
    IF ~ m.level.open
    THEN Exit(m, "outer", IF escape THEN Aborted ELSE m.level.state)
    ELSE /\ machine' = [m EXCEPT !.at = "wait"]
         /\ session' = [session EXCEPT !.awaiting = TRUE]
         /\ run' = "idle"
         /\ UNCHANGED <<saved, escape, installed, collapsed>>

(* The tail of a batch, after the timer was closed: m is what it leaves.   *)
LeaveOrPark(m) ==
    IF escape THEN Exit(m, "outer", Aborted)
    ELSE IF ~ m.level.open THEN Exit(m, "outer", m.level.state)
    ELSE /\ machine' = [m EXCEPT !.at = "wait"]
         /\ session' = [session EXCEPT !.awaiting = TRUE]
         /\ run' = "idle"
         /\ UNCHANGED <<saved, escape, installed, collapsed>>

AdvanceEnds ==
    /\ Advancing
    /\ machine.at = "tail"
    /\ IF machine.elapsed < machine.local
       THEN LeaveOrPark([machine EXCEPT !.elapsed = 0, !.local = 0, !.start = 0])
       ELSE LeaveOrPark([machine EXCEPT !.start = machine.elapsed])

-----------------------------------------------------------------------------
InFrame == \/ OuterParks \/ HandlerStarts \/ RoadReturns \/ Handoff
           \/ AdvanceWaits \/ AdvanceStarts \/ AdvanceBody \/ AdvanceDeparts
           \/ AdvanceEnds

Next == FrameStart \/ EscapeKey \/ Capture \/ ApplyReplayState \/ InFrame

Spec == Init /\ [][Next]_vars

(* A frame runs to its end, and frames keep coming with timer interrupts:  *)
(* six per frame, of which the handler 3B17 counts at least one.           *)
TickedFrame == FrameStart /\ machine'.elapsed # machine.elapsed
FairSpec == Spec /\ WF_vars(InFrame) /\ SF_vars(TickedFrame)

-----------------------------------------------------------------------------
Places == {"outer", "wait", "body", "tail", "road"}

Machines == [at : Places, elapsed : Word, local : Word, start : Word,
             scratch : Scratches, level : Levels,
             ax : {0, Aborted} \union Outcomes]

TypeOK ==
    /\ machine \in Machines
    /\ saved \in Machines
    /\ escape \in BOOLEAN
    /\ session \in Sessions \union {NoSession}
    /\ installed \subseteq Hooks /\ collapsed \subseteq Hooks
    /\ run \in {"idle", "frame"}

(* Dropping the session loses nothing: the machine holds its locals, and   *)
(* the entry at 22F8 would open the same session again.                    *)
SessionRestorable ==
    session # NoSession =>
        /\ session.scratch = machine.scratch
        /\ machine.at = "wait" => session = SessionFor(machine)
        /\ run = "idle" => machine.at = "wait" /\ machine.local = machine.start

(* No hook of the generated code is lost or doubled, and generated code    *)
(* runs only with all of them.                                             *)
HooksConserved ==
    /\ installed \union collapsed = Hooks
    /\ installed \intersect collapsed = {}
    /\ collapsed = IF session = NoSession THEN {} ELSE Covered

(* The region, restored or not, does to the machine what the generated     *)
(* handler does; only a wait that ends with a wrapped timer runs a body    *)
(* the generated loop would skip.                                          *)
Handler == INSTANCE HandlerLoop WITH
    machine <- IF session = NoSession THEN machine
               ELSE [machine EXCEPT !.scratch = session.scratch],
    BodyOnWrap <- TRUE

ImplementsHandler == Handler!Spec

(* A held escape key always leads back to the menus.                       *)
EscapeReturns == <>[] escape => []<> (machine.at = "outer")

(* "It batches bodies until the original stack-local tick catches          *)
(* DS:[1600]" (README.md): no body runs once the local tick has caught up. *)
BodiesOnlyWhenBehind ==
    session # NoSession /\ machine.at = "body" => machine.local < machine.elapsed
=============================================================================
