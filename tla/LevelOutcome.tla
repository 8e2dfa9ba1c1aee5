---------------------------- MODULE LevelOutcome ----------------------------
(***************************************************************************)
(* What one call of the gameplay handler promises its caller: a level is   *)
(* flown until something decides it; what decided it stays, except that    *)
(* reaching the goal cell overrides it; a decided level is handed back     *)
(* with that outcome.  The result "flying" is never handed back: the       *)
(* caller reads a zero result as a road left at its end.                   *)
(***************************************************************************)
EXTENDS Naturals

VARIABLES
    status,   \* what has become of the level
    result    \* what the handler handed back, or "none" while it runs

Outcomes == {"crashed", "finished", "fallen", "no_fuel", "no_oxygen"}
Handed == Outcomes \union {"departed", "aborted"}

Init == status = "flying" /\ result = "none"

Decide == /\ result = "none"
          /\ status = "flying"
          /\ status' \in Outcomes
          /\ UNCHANGED result

Override == /\ result = "none"
            /\ status' = "finished"
            /\ UNCHANGED result

Depart == /\ result = "none"
          /\ status = "flying"
          /\ status' \in {"flying", "finished"}
          /\ result' = "departed"

Abort == /\ result = "none"
         /\ result' = "aborted"
         /\ UNCHANGED status

Return == /\ result = "none"
          /\ status # "flying"
          /\ result' = status
          /\ UNCHANGED status

Enter == /\ result # "none"
         /\ status' = "flying"
         /\ result' = "none"

Next == Decide \/ Override \/ Depart \/ Abort \/ Return \/ Enter

Spec == Init /\ [][Next]_<<status, result>>

FairSpec == Spec /\ WF_<<status, result>>(Return)
=============================================================================
