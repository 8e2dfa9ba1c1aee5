-------------------------- MODULE MCReplayTimeline --------------------------
(***************************************************************************)
(* ReplayTimeline for TLC, with a budget of three instructions.  The first *)
(* game begins with work longer than a frame and waits in its body; the    *)
(* second begins at a console read; the third spins, and its budget may    *)
(* end right before a console read.                                        *)
(***************************************************************************)
EXTENDS ReplayTimeline

MCPrograms == {
    <<"work", "work", "work", "work", "wait", "read">>,
    <<"read", "wait", "work", "work", "work", "work">>,
    <<"spin", "work", "read", "work", "work", "read">>}
=============================================================================
