------------------------------ MODULE Schedule ------------------------------
(***************************************************************************)
(* What a linear run promises, without an algorithm, files or names: steps  *)
(* are completed one at a time, each after everything it needs; a plan in   *)
(* which steps wait for one another is never begun; a run is finished when  *)
(* all steps are, and may give up at any time before.  LinearRun implements *)
(* this (property ScheduleRefined).                                         *)
(***************************************************************************)
EXTENDS FiniteSets

CONSTANT Runs
VARIABLES
    plan,    \* step id -> the ids it needs
    done,    \* run -> the steps it has completed
    phase    \* run -> "waiting", "running", "finished" or "stopped"

sched == <<plan, done, phase>>

Doable == ~ \E X \in SUBSET DOMAIN plan :
                X # {} /\ \A s \in X : plan[s] \cap X # {}

Init == done = [r \in Runs |-> {}] /\ phase = [r \in Runs |-> "waiting"]

Begin(r) ==
    /\ phase[r] = "waiting" /\ Doable
    /\ phase' = [phase EXCEPT ![r] = "running"]
    /\ UNCHANGED <<plan, done>>

Complete(r, s) ==
    /\ phase[r] = "running"
    /\ s \notin done[r] /\ plan[s] \subseteq done[r]
    /\ done' = [done EXCEPT ![r] = @ \cup {s}]
    /\ UNCHANGED <<plan, phase>>

Finish(r) ==
    /\ phase[r] = "running" /\ done[r] = DOMAIN plan
    /\ phase' = [phase EXCEPT ![r] = "finished"]
    /\ UNCHANGED <<plan, done>>

GiveUp(r) ==
    /\ phase[r] \in {"waiting", "running"}
    /\ phase' = [phase EXCEPT ![r] = "stopped"]
    /\ UNCHANGED <<plan, done>>

Next == \E r \in Runs :
            \/ Begin(r) \/ Finish(r) \/ GiveUp(r)
            \/ \E s \in DOMAIN plan : Complete(r, s)

Spec == Init /\ [][Next]_sched
=============================================================================
