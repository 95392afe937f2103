----------------------------- MODULE Discourse -----------------------------
(***************************************************************************)
(* What a conversation promises: one sequence of utterances, and when it   *)
(* may end for which reason. Transports, channels and tasks are left out.  *)
(*                                                                         *)
(* The cap on turns dominates; otherwise the conversation converges as     *)
(* soon as the latest utterance of every agent in the current round, which *)
(* a human utterance opens, is an agreement. As long as neither holds it   *)
(* goes on until the timer, the human or the last agent ends it.           *)
(***************************************************************************)
EXTENDS Naturals, Sequences, FiniteSets

CONSTANTS Agents, MaxTurns

VARIABLES said, reason

vars == <<said, reason>>

\* Where the current round begins: after the last human utterance.
RoundStart(s) ==
  CHOOSE k \in 0..Len(s) :
    /\ k > 0 => s[k].from \notin Agents
    /\ \A i \in (k + 1)..Len(s) : s[i].from \in Agents

\* Every agent has spoken in the current round, and last of all agreed.
Agreed(s) ==
  \A a \in Agents : \E i \in (RoundStart(s) + 1)..Len(s) :
    /\ s[i].from = a /\ s[i].text = "done"
    /\ \A j \in (i + 1)..Len(s) : s[j].from # a

Turns(s) == Cardinality({i \in 1..Len(s) : s[i].from \in Agents})

Settled(s) == Turns(s) >= MaxTurns \/ Agreed(s)

Init == said = <<>> /\ reason = "none"

Speak ==
  /\ reason = "none" /\ ~Settled(said)
  /\ \E a \in Agents, t \in {"talk", "done"} :
        said' = Append(said, [from |-> a, text |-> t])
  /\ UNCHANGED reason

Interject ==
  /\ reason = "none" /\ ~Settled(said)
  /\ said' = Append(said, [from |-> "human", text |-> "talk"])
  /\ UNCHANGED reason

\* A settled conversation ends, for the stronger of the two reasons.
Settle ==
  /\ reason = "none" /\ Settled(said)
  /\ reason' = IF Turns(said) >= MaxTurns THEN "max_turns" ELSE "convergence"
  /\ UNCHANGED said

BreakOff ==
  /\ reason = "none" /\ ~Settled(said)
  /\ reason' \in {"timeout", "human_closed", "all_agents_closed"}
  /\ UNCHANGED said

Next == Speak \/ Interject \/ Settle \/ BreakOff

Spec == Init /\ [][Next]_vars
==============================================================================
