------------------------------ MODULE MCDriver ------------------------------
(* The driver of a graph run, and what its steps are made of: a task, a     *)
(* transport of an agent, the reading of a reply.  Either the driver is at  *)
(* work in a behaviour, or one of these.                                    *)
EXTENDS MCGraphRun, MCExecutor

Unlaunched == launches = 0
AtAgents(A) == Unlaunched /\ A /\ UNCHANGED vars

MCInit ==
    \/ AgentsIdle /\ AgentInit /\ Init
    \/ OneAgent /\ AgentInit /\ Init
MCNext ==
    \/ AgentsIdle /\ Next /\ UNCHANGED agentVars
    \/ AtAgents(AgentNext)

(* The fairness of the driver, and of a task. *)
MCSpec ==
    /\ MCInit /\ [][MCNext]_<<vars, agentVars>>
    /\ \A p \in Procs : WF_vars(AgentsIdle /\ Work(p))
    /\ WF_taskVars(AtAgents(AtTask(Reader)))
    /\ WF_taskVars(AtAgents(AtTask(Caller)))
    /\ WF_taskVars(AtAgents(AtTask(World)))
=============================================================================
