----------------------------- MODULE MCHandoff -----------------------------
(* What people say to a run, and what a conversation writes down of what    *)
(* they say.  Only one of the two is at work in a behaviour.                *)
EXTENDS Handoff, AuditLog

(* A script whose run belongs to an issue, and one without; a terminal.     *)
MCSituations ==
    {[quiet |-> FALSE, tty |-> FALSE, numeric |-> n] : n \in BOOLEAN}
        \cup {[quiet |-> q, tty |-> TRUE, numeric |-> q] : q \in BOOLEAN}

Untouched == how = [quiet |-> FALSE, tty |-> FALSE, numeric |-> FALSE]
             /\ clock = 1 /\ phase = "driving"

MCInit == HandoffInit /\ AuditInit
MCNext ==
    \/ entries = <<>> /\ HandoffNext /\ UNCHANGED avars
    \/ Untouched /\ AuditNext /\ UNCHANGED hvars
MCSpec == MCInit /\ [][MCNext]_<<hvars, avars>>
=============================================================================
