------------------------------ MODULE RunWalk ------------------------------
(***************************************************************************)
(* What a graph run promises its operator, files and processes left out.   *)
(*                                                                         *)
(* A run is a walk through the flow's graph. It leaves an agent or shell   *)
(* state along one of its declared edges, it leaves a human state along    *)
(* the first edge and only with the operator's consent, and each consent   *)
(* is good for one human state: the next one, which is the state the run   *)
(* paused at unless the flow has been edited. It stops at a final state,   *)
(* or it pauses at a human state and keeps the trail it has walked. A run  *)
(* whose process fails falls back to what it kept when it last paused, or  *)
(* is lost.                                                                *)
(***************************************************************************)
EXTENDS GraphFlow, FiniteSets

CONSTANTS
  Flows,     \* the versions of the flow file
  MaxTrail,  \* agent and shell steps a walk may take, over all its resumes
  Nowhere    \* the position of a run that nobody walks

VARIABLES phase, flow, at, trail, consent, kept

vars == <<phase, flow, at, trail, consent, kept>>

Nothing == [at |-> Nowhere, trail |-> <<>>]

\* How many steps of a trail were work, not an operator's answer.
Worked(t) == Cardinality({i \in 1..Len(t) : t[i].work})

Init ==
  /\ phase = "absent" /\ at = Nowhere /\ trail = <<>>
  /\ consent = FALSE /\ kept = Nothing /\ flow = Nowhere

Begin ==
  /\ phase = "absent"
  /\ phase' = "walking"
  /\ \E f \in Flows : NoDeadEnds(f) /\ flow' = f /\ at' = f.initial
  /\ UNCHANGED <<trail, consent, kept>>

\* An agent or shell state is left along a declared edge. A consent that was
\* not used for a human state is not used up.
Move ==
  /\ phase = "walking" /\ flow.kind[at] \in {"agent", "shell"}
  /\ Worked(trail) < MaxTrail
  /\ at' \in Targets(flow, at)
  /\ trail' = Append(trail, [id |-> at, work |-> TRUE])
  /\ UNCHANGED <<phase, flow, consent, kept>>

\* The process that walks hands the gate to its operator.
Consent ==
  /\ phase = "walking" /\ flow.kind[at] = "human" /\ ~consent
  /\ consent' = TRUE
  /\ UNCHANGED <<phase, flow, at, trail, kept>>

\* An answer with a body is part of the trail.
Answer ==
  /\ phase = "walking" /\ consent
  /\ trail' = Append(trail, [id |-> at, work |-> FALSE])
  /\ UNCHANGED <<phase, flow, at, consent, kept>>

PassGate ==
  /\ phase = "walking" /\ flow.kind[at] = "human" /\ consent
  /\ consent' = FALSE
  /\ at' = FirstNext(flow, at)
  /\ UNCHANGED <<phase, flow, trail, kept>>

\* Nobody walks any more: the walk's own state is gone.
Leave(ph) ==
  /\ phase' = ph /\ at' = Nowhere /\ trail' = <<>>
  /\ consent' = FALSE /\ flow' = Nowhere

Pause ==
  /\ phase = "walking" /\ flow.kind[at] = "human" /\ ~consent
  /\ kept' = [at |-> at, trail |-> trail]
  /\ Leave("paused")

Finish ==
  /\ phase = "walking" /\ flow.kind[at] = "final"
  /\ kept' = [at |-> at, trail |-> trail]
  /\ Leave("done")

\* Resuming is the consent to leave the human state the run paused at.
Reopen ==
  /\ phase = "paused"
  /\ phase' = "walking"
  /\ at' = kept.at /\ trail' = kept.trail /\ consent' = TRUE
  /\ flow' \in Flows
  /\ UNCHANGED kept

\* The outcome of a walk replaces what was kept, not in one step.
Forget ==
  /\ phase = "walking"
  /\ flow.kind[at] = "final" \/ (flow.kind[at] = "human" /\ ~consent)
  /\ kept' = Nothing
  /\ UNCHANGED <<phase, flow, at, trail, consent>>

\* The walking process is gone: back to the last pause, or nowhere to go.
FallBack == phase = "walking" /\ kept # Nothing /\ Leave("paused") /\ UNCHANGED kept

Lose == phase = "walking" /\ kept = Nothing /\ Leave("lost") /\ UNCHANGED kept

Next ==
  \/ Begin \/ Move \/ Consent \/ Answer \/ PassGate
  \/ Forget \/ Pause \/ Finish \/ Reopen \/ FallBack \/ Lose

Spec == Init /\ [][Next]_vars
==============================================================================
