---------------------------- MODULE MCFramePark ----------------------------
(***************************************************************************)
(* FramePark for TLC: frames of two ticks and waits of up to three, so     *)
(* that a wait takes none, one or two frames, and two waits in one frame.  *)
(***************************************************************************)
EXTENDS FramePark
=============================================================================
