-------------------------- MODULE GameplayHarness --------------------------
(***************************************************************************)
(* NativeGameplayHarness (skyroads/native/loop.py): the development driver *)
(* that runs one gated body per tick and, at a boundary, either applies    *)
(* apply_level_init at once or holds the outcome until respawn().  A tick  *)
(* is one call, told here in the steps of its sequence: the body of        *)
(* LevelRun, then TickBoundary (ran = 1 in between), then, with            *)
(* auto_respawn, Respawn.  The guards leave no other step in between.      *)
(***************************************************************************)
EXTENDS LevelRun

VARIABLES
    auto_respawn,  \* apply the level init inside tick
    last           \* the TickOutcome of the last tick; held while phase is ended

harnessVars == <<view, scratch, phase, ran, auto_respawn, last>>

Quiet == [transitioned |-> FALSE, kind |-> ""]

(* Bug: the clocks of the level before are kept.                           *)
AppliedKeepingClocks(v) ==
    [RespawnView EXCEPT !.delta = v.delta, !.mark = v.mark,
                        !.frame_ctr = v.frame_ctr, !.grounded = v.grounded]

(* apply_level_init.  It writes the fields of RespawnState up to ds:[456A] *)
(* and leaves the displacement [AF30:AF2E] and the mark ds:[455A] alone.   *)
AppliedLevelInit(v) == [RespawnView EXCEPT !.delta = v.delta, !.mark = v.mark]

(* Bug: a running settle clock is taken for a crash whatever started it.   *)
ClassifiedByClock(v) ==
    IF v.grounded # 0 THEN "crash"
    ELSE CASE v.game_state = NoFuel   -> "timeout_fuel"
           [] v.game_state = NoOxygen -> "timeout_oxygen"
           [] OTHER -> ""

(* _classify_transition, for a boundary that the gate reported.            *)
ClassifiedKind(v) ==
    CASE v.game_state = Crashed  -> "crash"
      [] v.game_state = Finished -> "finish"
      [] v.game_state = NoFuel   -> "timeout_fuel"
      [] v.game_state = NoOxygen -> "timeout_oxygen"
      [] v.game_state = Fallen /\ v.grounded # 0 -> "crash"
      [] OTHER -> ""

HarnessInit == Init /\ auto_respawn \in BOOLEAN /\ last = Quiet

TickBody ==
    /\ ran = 0
    /\ GameplayBody
    /\ UNCHANGED <<auto_respawn, last>>

TickDeparts ==
    /\ ran = 0
    /\ RoadDeparture
    /\ last' = [transitioned |-> TRUE, kind |-> "road_departure"]
    /\ UNCHANGED auto_respawn

(* The rest of tick: an ordinary outcome, or a boundary.                   *)
TickBoundary ==
    /\ phase = "running"
    /\ ran = 1
    /\ ran' = 0
    /\ IF ShouldRunGameplay(view)
       THEN last' = Quiet /\ UNCHANGED phase
       ELSE /\ last' = [transitioned |-> TRUE, kind |-> ClassifiedKind(view)]
            /\ phase' = "returned"
    /\ UNCHANGED <<view, scratch, auto_respawn>>

(* The reset: in the same tick, or when respawn() is called.               *)
Respawn ==
    /\ phase \in Ended
    /\ view' = AppliedLevelInit(view)
    /\ scratch' = FreshScratch
    /\ phase' = "running"
    /\ ran' = 0
    /\ UNCHANGED <<auto_respawn, last>>

(* tick() on a held outcome returns it again.                              *)
TickPending ==
    /\ phase \in Ended
    /\ ~ auto_respawn
    /\ UNCHANGED harnessVars

HarnessNext == TickBody \/ TickDeparts \/ TickBoundary \/ Respawn \/ TickPending

HarnessSpec == HarnessInit /\ [][HarnessNext]_harnessVars

-----------------------------------------------------------------------------
(* The label of a boundary agrees with the ship it was given for: a crash  *)
(* is the end of a ship that still had fuel and oxygen, a timeout names    *)
(* the supply that ran out, oxygen first (_classify_transition).           *)
KindNamesCause ==
    phase = "returned" =>
        /\ last.kind \in {"crash", ""} => view.timer_a > 0 /\ view.timer_b > 0
        /\ last.kind = "timeout_fuel" => view.timer_a = 0 /\ view.timer_b > 0
        /\ last.kind = "timeout_oxygen" => view.timer_b = 0
        /\ last.kind \in {"crash", "finish"} => view.grounded # 0

(* Every boundary is reported with its kind: "" stands for an ordinary     *)
(* tick (the TickOutcome of loop.py:406).                                  *)
TransitionsClassified == last.transitioned => last.kind # ""

(* A level starts without a displacement left to pay back: the fixed reset *)
(* fields of RespawnState are all written.                                 *)
LevelStartsClean == phase = "running" /\ scratch = FreshScratch
                       /\ view.ship_pos = 0 /\ view.timer_a = LEVEL_TIMER_MAX
                       => view.delta = 0
=============================================================================
