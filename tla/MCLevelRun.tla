----------------------------- MODULE MCLevelRun -----------------------------
(***************************************************************************)
(* LevelRun and its refinement for TLC.  The .cfg files scale the constants *)
(* of the game down and keep their order: CRASH_MILESTONE_POS < LEVEL_END,  *)
(* RESUME_HEIGHT_GATE < EFFECT_HEIGHT_GATE < HALF, a jump that reaches the  *)
(* effect gate, a fuel use that depends on the forward position.            *)
(***************************************************************************)
EXTENDS LevelRefinement
=============================================================================
