-------------------------- MODULE MCGameplayRegion --------------------------
(***************************************************************************)
(* GameplayRegion for TLC.  Timer words of four values wrap after four     *)
(* ticks; a frame brings up to two, so batches of none, one and two bodies *)
(* and every way to wrap occur.                                            *)
(***************************************************************************)
EXTENDS GameplayRegion
=============================================================================
