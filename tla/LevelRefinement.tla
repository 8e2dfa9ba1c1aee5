-------------------------- MODULE LevelRefinement --------------------------
(***************************************************************************)
(* LevelRun implements LevelOutcome: the value the continuation gate       *)
(* returns in AX is ds:[456E] and names what ended the level.              *)
(***************************************************************************)
EXTENDS LevelRun

status ==
    CASE view.game_state = Active   -> "flying"
      [] view.game_state = Crashed  -> "crashed"
      [] view.game_state = Finished -> "finished"
      [] view.game_state = Fallen   -> "fallen"
      [] view.game_state = NoFuel   -> "no_fuel"
      [] view.game_state = NoOxygen -> "no_oxygen"

result ==
    CASE phase = "running"  -> "none"
      [] phase = "returned" -> status
      [] OTHER              -> phase

Outcome == INSTANCE LevelOutcome

(* Whatever the road and the player do, the handler is a LevelOutcome: one *)
(* outcome per level, overridden by the goal cell alone, always handed     *)
(* back, and never zero through the gate.                                  *)
ImplementsOutcome == Outcome!FairSpec
=============================================================================
