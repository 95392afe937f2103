----------------------------- MODULE MCGraphRun -----------------------------
(***************************************************************************)
(* Small instances of GraphRun for TLC.                                    *)
(***************************************************************************)
EXTENDS GraphRun

Entry(to, reason) == [to |-> to, reason |-> reason]

\* An agent that plans or asks for the signature, a shell gate that sends
\* failures back, a human state whose first entry asks for more work, and a
\* human state that ends the run.
Rework ==
  [initial |-> "plan",
   kind |-> [plan |-> "agent", gate |-> "shell", ask |-> "human",
             sign |-> "human", end |-> "final"],
   next |-> [plan |-> <<Entry("gate", "text"), Entry("sign", "text")>>,
             gate |-> <<Entry("ask", "pass"), Entry("plan", "fail")>>,
             ask  |-> <<Entry("plan", "none")>>,
             sign |-> <<Entry("end", "none")>>,
             end  |-> <<>>]]

\* The same file after an edit that leaves `plan` without entries.
DeadEnd == [Rework EXCEPT !.next["plan"] = <<>>]

\* The same file after an edit that has an agent answer instead of a human.
Unattended ==
  [Rework EXCEPT !.kind["ask"] = "agent",
                 !.next["ask"] = <<Entry("plan", "text"), Entry("sign", "text")>>]

MCStates == {"plan", "gate", "ask", "sign", "end"}
OnlyRework == {Rework}
Edits == {Rework, DeadEnd, Unattended}
ReworkOrUnattended == {Rework, Unattended}
==============================================================================
