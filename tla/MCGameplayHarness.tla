------------------------- MODULE MCGameplayHarness -------------------------
(***************************************************************************)
(* GameplayHarness for TLC, with the scaled constants of LevelRun and one  *)
(* body per tick.                                                          *)
(***************************************************************************)
EXTENDS GameplayHarness
=============================================================================
