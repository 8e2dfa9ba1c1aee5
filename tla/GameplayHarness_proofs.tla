----------------------- MODULE GameplayHarness_proofs -----------------------
(***************************************************************************)
(* The harness labels its boundaries truly, for every value of the         *)
(* constants.  Its reset keeps a displacement (see LevelStartsClean), so   *)
(* the invariant of LevelRun does not carry over; the part of it that says *)
(* nothing of displacements does.                                          *)
(***************************************************************************)
EXTENDS GameplayHarness, LevelRun_proofs

USE DEF Active, Crashed, Finished, Fallen, NoFuel, NoOxygen

(* The clocks are bounded while the level runs; tick forgets the batch     *)
(* when the gate closes, and a clock may then be past its window.          *)
HarnessInv ==
    /\ TypeOK
    /\ AliveIsHealthy
    /\ OutcomeHasCause
    /\ WreckSupplied
    /\ phase = "running" => EndClocksBounded
    /\ KindNamesCause

LEMMA HarnessStarts == HarnessInit => HarnessInv
  <1> SUFFICES ASSUME HarnessInit PROVE HarnessInv
    OBVIOUS
  <1>1. Inv /\ phase = "running" /\ view.game_state = Active
    BY InitInv DEF HarnessInit, Init, RespawnView
  <1> QED
    BY <1>1 DEF HarnessInv, Inv, WreckSupplied, KindNamesCause

LEMMA TickBodyPreserves == HarnessInv /\ TickBody => HarnessInv'
  <1> SUFFICES ASSUME HarnessInv, TickBody PROVE HarnessInv'
    OBVIOUS
  <1>1. GameplayBody /\ phase = "running" /\ phase' = "running"
    BY DEF TickBody, GameplayBody
  <1>2. LevelInv
    BY <1>1 DEF HarnessInv, LevelInv
  <1>3. PICK w \in Views : LevelFlown(w, scratch') /\ view' = Settled(w)
    BY <1>1, <1>2, FlightStep DEF LevelInv
  <1>4. LevelInv' /\ WreckSupplied'
    BY <1>1, <1>2, <1>3, LevelTail DEF HarnessInv
  <1> QED
    BY <1>1, <1>4 DEF HarnessInv, LevelInv, KindNamesCause

LEMMA TickDepartsPreserves == HarnessInv /\ TickDeparts => HarnessInv'
  <1> SUFFICES ASSUME HarnessInv, TickDeparts PROVE HarnessInv'
    OBVIOUS
  <1>1. RoadDeparture /\ phase = "running" /\ phase' = "departed"
    BY DEF TickDeparts, RoadDeparture
  <1>2. LevelInv' /\ WreckSupplied'
    BY <1>1, LevelDeparts DEF HarnessInv, LevelInv
  <1> QED
    BY <1>1, <1>2 DEF HarnessInv, LevelInv, KindNamesCause

(* _classify_transition: the gate closed on a level that has ended, and    *)
(* what ended it is what the label says.                                   *)
LEMMA TickBoundaryPreserves == HarnessInv /\ TickBoundary => HarnessInv'
  <1> SUFFICES ASSUME HarnessInv, TickBoundary PROVE HarnessInv'
    OBVIOUS
  <1>1. /\ phase = "running" /\ ran' = 0
        /\ view' = view /\ scratch' = scratch
    BY DEF TickBoundary
  <1>2. TypeOK' /\ AliveIsHealthy' /\ OutcomeHasCause' /\ WreckSupplied'
    <2>1. phase' \in {"running"} \union Ended
      BY <1>1 DEF TickBoundary, Ended
    <2> QED
      BY <1>1, <2>1, ConstantTypes
        DEF HarnessInv, TypeOK, AliveIsHealthy, OutcomeHasCause, WreckSupplied
  <1>3. CASE ShouldRunGameplay(view)
    <2>1. phase' = "running"
      BY <1>1, <1>3 DEF TickBoundary
    <2>2. EndClocksBounded'
      BY <1>1, <1>3, OpenGate DEF HarnessInv, LevelInv
    <2> QED
      BY <1>2, <2>1, <2>2 DEF HarnessInv, KindNamesCause
  <1>4. CASE ~ ShouldRunGameplay(view)
    <2>1. phase' = "returned" /\ last'.kind = ClassifiedKind(view)
      BY <1>4 DEF TickBoundary
    <2>2. view.game_state \in {Crashed, Finished, Fallen, NoFuel, NoOxygen}
      <3>1. view.game_state \in 0 .. 5
        BY DEF HarnessInv, TypeOK
      <3> QED
        BY <1>4, <3>1, ClosedGate DEF HarnessInv
    <2>3. /\ ClassifiedKind(view) \in {"crash", ""} =>
                view.game_state \in {Crashed, Fallen}
          /\ ClassifiedKind(view) = "timeout_fuel" => view.game_state = NoFuel
          /\ ClassifiedKind(view) = "timeout_oxygen" => view.game_state = NoOxygen
          /\ ClassifiedKind(view) \in {"crash", "finish"} =>
                \/ view.game_state \in {Crashed, Finished}
                \/ view.game_state = Fallen /\ view.grounded # 0
      BY <2>2 DEF ClassifiedKind
    <2>4. KindNamesCause'
      BY <1>1, <2>1, <2>3 DEF KindNamesCause, HarnessInv, OutcomeHasCause, WreckSupplied
    <2> QED
      BY <1>2, <2>1, <2>4 DEF HarnessInv
  <1> QED
    BY <1>3, <1>4

(* The reset writes every field these parts speak of.                      *)
LEMMA RespawnPreserves == HarnessInv /\ Respawn => HarnessInv'
  <1> SUFFICES ASSUME HarnessInv, Respawn PROVE HarnessInv'
    OBVIOUS
  <1>1. view' = [RespawnView EXCEPT !.delta = view.delta, !.mark = view.mark]
    BY DEF Respawn, AppliedLevelInit
  <1>2. phase' = "running" /\ ran' = 0 /\ scratch' = FreshScratch
    BY DEF Respawn
  <1>3. view.delta \in Int /\ view.mark \in {0, 1}
    BY DEF HarnessInv, TypeOK
  <1>4. TypeOK'
    <2>1. view' = [game_state |-> 0, grounded |-> 0, frame_ctr |-> 0, ship_pos |-> 0,
                   timer_a |-> LEVEL_TIMER_MAX, timer_b |-> LEVEL_TIMER_MAX,
                   af2c |-> RESUME_HEIGHT_GATE, bounce |-> 0,
                   delta |-> view.delta, mark |-> view.mark]
      BY <1>1 DEF RespawnView
    <2>2. /\ 0 \in Word /\ RESUME_HEIGHT_GATE \in 0 .. HALF - 1
          /\ LEVEL_TIMER_MAX \in 0 .. LEVEL_TIMER_MAX
      BY ConstantTypes, ConstantsAssumption, WordFacts
    <2>3. scratch' \in [jumping : {0, 1}, effect_latch : {0, 1}, bp12 : {0, 1},
                        tgt_af2c : Word]
      BY <1>2, <2>2 DEF FreshScratch
    <2>4. ran' \in 0 .. MaxBatch
      BY <1>2, ConstantTypes
    <2> QED
      BY <1>2, <1>3, <2>1, <2>2, <2>3, <2>4 DEF TypeOK
  <1>5. /\ AliveIsHealthy' /\ OutcomeHasCause' /\ WreckSupplied'
        /\ EndClocksBounded'
    BY <1>1, <1>2, ConstantTypes
      DEF AliveIsHealthy, OutcomeHasCause, WreckSupplied, EndClocksBounded, RespawnView
  <1> QED
    BY <1>2, <1>4, <1>5 DEF HarnessInv, KindNamesCause

LEMMA HarnessStep == HarnessInv /\ [HarnessNext]_harnessVars => HarnessInv'
  <1> SUFFICES ASSUME HarnessInv, [HarnessNext]_harnessVars PROVE HarnessInv'
    OBVIOUS
  <1>1. CASE TickBody
    BY <1>1, TickBodyPreserves
  <1>2. CASE TickDeparts
    BY <1>2, TickDepartsPreserves
  <1>3. CASE TickBoundary
    BY <1>3, TickBoundaryPreserves
  <1>4. CASE Respawn
    BY <1>4, RespawnPreserves
  <1>5. CASE TickPending \/ UNCHANGED harnessVars
    BY <1>5 DEF TickPending, harnessVars, HarnessInv, TypeOK, AliveIsHealthy,
                OutcomeHasCause, WreckSupplied, EndClocksBounded, KindNamesCause
  <1> QED
    BY <1>1, <1>2, <1>3, <1>4, <1>5 DEF HarnessNext

THEOREM HarnessSafety == HarnessSpec => []HarnessInv
  BY HarnessStarts, HarnessStep, PTL DEF HarnessSpec

(* The label of every boundary of tick() names what ended the level.       *)
THEOREM KindsNameCauses == HarnessSpec => []KindNamesCause
  <1>1. HarnessInv => KindNamesCause
    BY DEF HarnessInv
  <1> QED
    BY <1>1, HarnessSafety, PTL

(* Under the harness too, with its incomplete reset, a level under control *)
(* has fuel, oxygen and road, and no clock of its end runs.                *)
THEOREM HarnessLevelsAreHealthy == HarnessSpec => []AliveIsHealthy
  <1>1. HarnessInv => AliveIsHealthy
    BY DEF HarnessInv
  <1> QED
    BY <1>1, HarnessSafety, PTL
=============================================================================
