----------------------- MODULE LevelRefinement_proofs -----------------------
(***************************************************************************)
(* The gameplay handler implements LevelOutcome, for every value of the    *)
(* constants: initial states map to initial states, every step to a step   *)
(* of LevelOutcome or to a stutter.  (Fairness is left to TLC.)            *)
(***************************************************************************)
EXTENDS LevelRefinement, LevelRun_proofs

OutcomeVars == <<status, result>>

USE DEF Active, Crashed, Finished, Fallen, NoFuel, NoOxygen

(* The status and the game state it names.                                 *)
LEMMA StatusFacts ==
    ASSUME TypeOK
    PROVE  /\ status = "flying" <=> view.game_state = Active
           /\ status = "finished" <=> view.game_state = Finished
           /\ view.game_state # Active => status \in Outcome!Outcomes
           /\ phase = "running" => result = "none"
           /\ phase = "returned" => result = status
           /\ phase \in {"departed", "aborted"} => result = phase
  <1>1. view.game_state \in 0 .. 5
    BY DEF TypeOK
  <1>2. view.game_state \in {Active, Crashed, Finished, Fallen, NoFuel, NoOxygen}
    BY <1>1
  <1> QED
    BY <1>2 DEF status, result, Outcome!Outcomes

LEMMA InitRefines == Init => Outcome!Init
  BY DEF Init, RespawnView, status, result, Outcome!Init

LEMMA StepRefines == Inv /\ Inv' /\ [Next]_vars => [Outcome!Next]_OutcomeVars
  <1> SUFFICES ASSUME Inv, Inv', [Next]_vars PROVE [Outcome!Next]_OutcomeVars
    OBVIOUS
  <1> USE DEF OutcomeVars
  <1>1. TypeOK /\ TypeOK'
    BY DEF Inv
  <1>2. /\ status = "flying" <=> view.game_state = Active
        /\ status = "finished" <=> view.game_state = Finished
        /\ view.game_state # Active => status \in Outcome!Outcomes
        /\ phase = "running" => result = "none"
        /\ phase = "returned" => result = status
        /\ phase \in {"departed", "aborted"} => result = phase
    BY <1>1, StatusFacts
  <1>3. /\ status' = "flying" <=> view'.game_state = Active
        /\ status' = "finished" <=> view'.game_state = Finished
        /\ view'.game_state # Active => status' \in Outcome!Outcomes
        /\ phase' = "running" => result' = "none"
        /\ phase' = "returned" => result' = status'
        /\ phase' \in {"departed", "aborted"} => result' = phase'
    <2>1. (/\ status = "flying" <=> view.game_state = Active
           /\ status = "finished" <=> view.game_state = Finished
           /\ view.game_state # Active => status \in Outcome!Outcomes
           /\ phase = "running" => result = "none"
           /\ phase = "returned" => result = status
           /\ phase \in {"departed", "aborted"} => result = phase)'
      BY <1>1, StatusFacts, PTL
    <2> QED
      BY <2>1 DEF Outcome!Outcomes
  <1>4. view'.game_state = view.game_state => status' = status
    BY DEF status
  <1>5. CASE GameplayBody
    <2>1. phase = "running" /\ phase' = "running"
      BY <1>5 DEF GameplayBody
    <2>2. view.game_state # Active =>
             view'.game_state \in {view.game_state, Finished}
      <3>1. PICK w \in Views : Flown(w, scratch') /\ view' = Settled(w)
        BY <1>5, FlightStep DEF Inv
      <3>2. ran < MaxBatch
        BY <1>5 DEF GameplayBody
      <3>3. view.game_state # Active => w.game_state # Active
                                     /\ w.game_state \in {view.game_state, Finished}
        BY <3>1 DEF Flown, LevelFlown
      <3> QED
        BY <3>1, <3>2, <3>3, TailStep DEF Flown, Inv
    <2> QED
      BY <1>2, <1>3, <1>4, <2>1, <2>2 DEF Outcome!Next, Outcome!Decide, Outcome!Override
  <1>6. CASE RoadDeparture
    <2>1. /\ phase = "running" /\ phase' = "departed" /\ view.game_state = Active
          /\ view' \in Classified(view, scratch)
      BY <1>6 DEF RoadDeparture
    <2>2. view'.game_state \in {Active, Finished}
      BY <2>1, ViewInViews, ClassifiedStep DEF Inv
    <2> QED
      BY <1>2, <1>3, <2>1, <2>2 DEF Outcome!Next, Outcome!Depart
  <1>7. CASE Abort
    <2>1. phase = "running" /\ phase' = "aborted" /\ view' = view
      BY <1>7 DEF Abort
    <2> QED
      BY <1>2, <1>3, <1>4, <2>1 DEF Outcome!Next, Outcome!Abort
  <1>8. CASE ContinuationGate
    <2>1. CASE phase' = phase
      BY <1>2, <1>3, <1>4, <1>8, <2>1 DEF ContinuationGate
    <2>2. CASE phase' = "returned"
      <3>1. view'.game_state # Active
        BY <2>2 DEF Inv, GateReturnsOutcome
      <3> QED
        BY <1>2, <1>3, <1>4, <1>8, <2>2, <3>1
           DEF ContinuationGate, Outcome!Next, Outcome!Return
    <2> QED
      BY <1>8, <2>1, <2>2 DEF ContinuationGate
  <1>9. CASE EnterLevel
    <2>1. phase \in Ended /\ phase' = "running" /\ view'.game_state = Active
      BY <1>9 DEF EnterLevel, RespawnView
    <2>2. result # "none"
      BY <1>2, <2>1 DEF Ended, Outcome!Outcomes
    <2> QED
      BY <1>3, <2>1, <2>2 DEF Outcome!Next, Outcome!Enter
  <1>10. CASE UNCHANGED vars
    BY <1>10 DEF vars, status, result
  <1> QED
    BY <1>5, <1>6, <1>7, <1>8, <1>9, <1>10 DEF Next

(* native_gameplay_body and should_run_gameplay keep what LevelOutcome     *)
(* promises the caller of the handler.                                     *)
THEOREM Refinement == Spec => Outcome!Spec
  <1>1. Inv /\ [Next]_vars => Inv'
    BY StepInv
  <1>2. [Outcome!Next]_OutcomeVars => [Outcome!Next]_<<status, result>>
    BY DEF OutcomeVars
  <1> QED
    BY <1>1, <1>2, Safety, InitRefines, StepRefines, PTL DEF Spec, Outcome!Spec
=============================================================================
