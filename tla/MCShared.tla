------------------------------ MODULE MCShared ------------------------------
(* One run and many who work at it: two processes that resume it, or the    *)
(* people who answer it and the log of what they say.  The processes and    *)
(* the people are not at work in one behaviour.                            *)
EXTENDS MCGraphRun, MCHandoff

Unstarted == launches = 0

SharedInit == Init /\ MCInit
SharedNext ==
    \/ Untouched /\ entries = <<>> /\ Next /\ UNCHANGED <<hvars, avars>>
    \/ Unstarted /\ MCNext /\ UNCHANGED vars
SharedSpec == SharedInit /\ [][SharedNext]_<<vars, hvars, avars>>
=============================================================================
