------------------------------ MODULE GraphFlow ------------------------------
(***************************************************************************)
(* What a graph flow is, and which flows the engine accepts.               *)
(*                                                                         *)
(* A flow is a record                                                      *)
(*   initial : the state a fresh run starts in                             *)
(*   kind    : state id -> "agent", "shell", "human" or "final"            *)
(*   next    : state id -> its `next:` list, a sequence of entries         *)
(*             [to, reason]                                                *)
(* A reason is "pass" or "fail" where it is one of the two reserved words  *)
(* of shell states, "text" for any other non-empty text, "none" if absent. *)
(* Prompts, roles and extra arguments do not influence control and are     *)
(* left out.                                                               *)
(***************************************************************************)
EXTENDS Naturals, Sequences

StateKinds == {"agent", "shell", "human", "final"}

\* The states a version of the flow file declares.
Declared(f) == DOMAIN f.kind

Targets(f, s) == {f.next[s][i].to : i \in 1..Len(f.next[s])}

Reasons(f, s) == {f.next[s][i].reason : i \in 1..Len(f.next[s])}

HasNext(f, s) == Len(f.next[s]) > 0

\* A human handoff and a resume both leave by the first declared entry.
FirstNext(f, s) == f.next[s][1].to

\* The first entry tagged with the exit code's reason word.
RoutedTo(f, s, word) ==
  LET tagged == {i \in 1..Len(f.next[s]) : f.next[s][i].reason = word}
  IN  f.next[s][CHOOSE i \in tagged : \A j \in tagged : i <= j].to

\* No target listed twice, every target declared.
EntriesResolve(f, s) ==
  /\ Targets(f, s) \subseteq Declared(f)
  /\ \A i, j \in 1..Len(f.next[s]) :
        f.next[s][i].to = f.next[s][j].to => i = j

StateSemantics(f, s) ==
  \/ /\ f.kind[s] = "shell"
     /\ Len(f.next[s]) = 2
     /\ Reasons(f, s) = {"pass", "fail"}
     /\ s \notin Targets(f, s)
  \/ /\ f.kind[s] = "agent"
     /\ HasNext(f, s) => Len(f.next[s]) >= 2
     /\ "none" \notin Reasons(f, s)
  \/ /\ f.kind[s] = "final"
     /\ ~HasNext(f, s)
  \/ f.kind[s] = "human"

\* The hard errors of the parser: a flow that fails this is never loaded,
\* neither by a fresh run nor by a resume.
ValidFlow(f) ==
  /\ f.initial \in Declared(f)
  /\ \A s \in Declared(f) : EntriesResolve(f, s) /\ StateSemantics(f, s)

\* The dead-end error. Fresh runs refuse such a flow; a resume loads the flow
\* again without asking.
NoDeadEnds(f) ==
  \A s \in Declared(f) : HasNext(f, s) \/ f.kind[s] \in {"final", "human"}
==============================================================================
