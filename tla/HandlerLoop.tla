----------------------------- MODULE HandlerLoop -----------------------------
(***************************************************************************)
(* The pacing loop of the generated gameplay handler 1010:1FD9 (from its   *)
(* reset block at 2095): what the authored gameplay region has to stand in *)
(* for.  A body is one pass over 2317-2AF9; bodies run while the local     *)
(* tick SS:[BP-2] is behind the timer DS:[1600]; the loop then closes a    *)
(* wrapped timer, looks at the escape key and the continuation gate, and   *)
(* waits at 22F8 until the timer differs from SS:[BP-4].                   *)
(*                                                                         *)
(* Everything the handler knows is in the machine, so a continuation saved *)
(* at any moment can be restored at any other.  The pause key (20C8-2280)  *)
(* is left out: the region does not have it.                               *)
(***************************************************************************)
EXTENDS Naturals

CONSTANTS
    WORD,          \* number of values of a machine word
    MaxTicks,      \* bound: timer ticks of one frame
    Scratches,     \* contents of the handler's stack locals
    FreshScratch,  \* ... as 206C-2088 set them
    Outcomes,      \* values of ds:[456E] of a level that has ended
    BodyOnWrap     \* does a wait that ends with a wrapped timer run a body?

VARIABLES
    machine,   \* what a continuation captures
    saved,     \* a continuation captured earlier
    escape     \* the escape key is down

vars == <<machine, saved, escape>>

Word == 0 .. WORD - 1

(* A level: ds:[456E], and whether the continuation gate is still open.    *)
FreshLevel == [state |-> 0, open |-> TRUE]
Levels == {FreshLevel} \union [state : Outcomes, open : BOOLEAN]
LevelsAfter(level) == IF level.state = 0 THEN Levels ELSE Levels \ {FreshLevel}

Places == {"outer", "wait", "body", "tail", "road"}

Aborted == 7

Machines == [at : Places, elapsed : Word, local : Word, start : Word,
             scratch : Scratches, level : Levels,
             ax : {0, Aborted} \union Outcomes]

(* The outer loop enters the handler: 2095-20A7, then straight through     *)
(* 20AA, where only the escape key can stop a fresh level.                 *)
Enter ==
    /\ machine.at = "outer"
    /\ machine' = [machine EXCEPT
                     !.at = IF escape THEN "outer" ELSE "wait",
                     !.elapsed = 0, !.local = 0, !.start = 0,
                     !.scratch = FreshScratch, !.level = FreshLevel,
                     !.ax = IF escape THEN Aborted ELSE @]
    /\ UNCHANGED <<saved, escape>>

(* IRQ 0, between frames.                                                  *)
Tick ==
    /\ \E k \in 1 .. MaxTicks :
          machine' = [machine EXCEPT !.elapsed = (@ + k) % WORD]
    /\ UNCHANGED <<saved, escape>>

Behind(m) == m.local < m.elapsed

(* 22F8-22FF: the timer moved, so the loop test of 2AFD comes next.        *)
Wake ==
    /\ machine.at = "wait"
    /\ machine.elapsed # machine.start
    /\ machine' = [machine EXCEPT
                     !.at = IF Behind(machine) \/ BodyOnWrap THEN "body" ELSE "tail"]
    /\ UNCHANGED <<saved, escape>>

Body ==
    /\ machine.at = "body"
    /\ \E s \in Scratches, level \in LevelsAfter(machine.level) :
         LET done == [machine EXCEPT !.local = (@ + 1) % WORD,
                                     !.scratch = s, !.level = level]
         IN machine' = [done EXCEPT !.at = IF Behind(done) THEN "body" ELSE "tail"]
    /\ UNCHANGED <<saved, escape>>

(* 23CA-241E: the body found the ship past the end of the road.            *)
Depart ==
    /\ machine.at = "body"
    /\ machine.level.state = 0
    /\ \E level \in Levels : machine' = [machine EXCEPT !.at = "road", !.level = level]
    /\ UNCHANGED <<saved, escape>>

RoadReturns ==
    /\ machine.at = "road"
    /\ machine' = [machine EXCEPT !.at = "outer", !.ax = 0]
    /\ UNCHANGED <<saved, escape>>

(* 20AA-20C5: a timer below the local tick has wrapped and both restart.   *)
TimerClosed(m) ==
    IF m.elapsed < m.local
    THEN [m EXCEPT !.elapsed = 0, !.local = 0, !.start = 0]
    ELSE [m EXCEPT !.start = m.elapsed]

(* 2286-22F5: escape, the continuation gate, or another wait.              *)
Tail ==
    /\ machine.at = "tail"
    /\ LET closed == TimerClosed(machine)
       IN machine' =
            IF escape THEN [closed EXCEPT !.at = "outer", !.ax = Aborted]
            ELSE IF ~ closed.level.open
                 THEN [closed EXCEPT !.at = "outer", !.ax = closed.level.state]
            ELSE [closed EXCEPT !.at = "wait"]
    /\ UNCHANGED <<saved, escape>>

EscapeKey == escape' = ~ escape /\ UNCHANGED <<machine, saved>>
Save == saved' = machine /\ UNCHANGED <<machine, escape>>
Restore == machine' = saved /\ UNCHANGED <<saved, escape>>

Next == \/ Enter \/ Tick \/ Wake \/ Body \/ Depart \/ RoadReturns \/ Tail
        \/ EscapeKey \/ Save \/ Restore

(* The program starts outside the handler; a replay may hold a             *)
(* continuation of any moment.                                             *)
Init == /\ machine \in Machines /\ machine.at = "outer"
        /\ saved \in Machines
        /\ escape = FALSE

Spec == Init /\ [][Next]_vars
=============================================================================
