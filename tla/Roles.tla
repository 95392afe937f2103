------------------------------- MODULE Roles -------------------------------
(***************************************************************************)
(* Who plays a role, and with what (src/src/resolver.rs, and the role       *)
(* functions of flow_api in src/src/runner/mod.rs).  An override of the     *)
(* command line is [role, agent, model, backend] with one of the last three *)
(* set; their order is that of the command line.                            *)
(***************************************************************************)
EXTENDS FlowFile, FiniteSetsExt

ParseRoleOverride(o) ==
    /\ o.role # "" /\ o.agent # ""
    /\ o.model # <<>> => ValidateModelFormat(o.model)
    /\ o.backend \in Policies \cup {None}

ValidateRoleOverrides(overrides, flow, cfg) ==
    \A i \in DOMAIN overrides :
        overrides[i].role \in DOMAIN flow.roles \cup DOMAIN cfg.roles

ProjectBackendToRuntime(policy) == IF policy = "api" THEN "api" ELSE "claude-cli"

(* The first agent that the command line names for a role binds it, but the *)
(* last model and the last backend.                                         *)
Given(overrides, role) == {i \in DOMAIN overrides : overrides[i].role = role}
AgentGiven(overrides, role) ==
    LET named == {i \in Given(overrides, role) : overrides[i].agent # None}
    IN IF named = {} THEN None ELSE overrides[Min(named)].agent
ModelGiven(overrides, role) ==
    LET given == {i \in Given(overrides, role) : overrides[i].model # <<>>}
    IN IF given = {} THEN <<>> ELSE overrides[Max(given)].model
BackendGiven(overrides, role) ==
    LET given == {i \in Given(overrides, role) : overrides[i].backend # None}
    IN IF given = {} THEN None ELSE overrides[Max(given)].backend

(* Command line, flow, project; None if no layer has one.                   *)
ResolveRoleAgent(role, flowAgent, cfg, overrides) ==
    IF AgentGiven(overrides, role) # None THEN AgentGiven(overrides, role)
    ELSE IF flowAgent # None THEN flowAgent
    ELSE IF role \in DOMAIN cfg.roles THEN cfg.roles[role].agent
    ELSE None

NoRole == [agent |-> None, model |-> <<>>, backend |-> None, overlay |-> NoOverlay]
ProjectRole(cfg, role) == IF role \in DOMAIN cfg.roles THEN cfg.roles[role] ELSE NoRole

(* Mutant: the arguments are those of the backend in the agent's file. *)
CascadeOfAgent(role, flowAgent, agent, cfg, overrides) ==
    LET project == ProjectRole(cfg, role)
        policy == IF BackendGiven(overrides, role) # None
                  THEN BackendGiven(overrides, role) ELSE project.backend
    IN [agent |-> ResolveRoleAgent(role, flowAgent, cfg, overrides),
        model |-> IF ModelGiven(overrides, role) # <<>> THEN ModelGiven(overrides, role)
                  ELSE IF project.model # <<>> THEN project.model
                  ELSE agent.model,
        backend |-> IF policy # None THEN ProjectBackendToRuntime(policy) ELSE agent.backend,
        extra |-> IF agent.backend \in DOMAIN agent.extra THEN agent.extra[agent.backend]
                  ELSE <<>>]

(* The cascade of one role.  `defaults.backend` of the project changes the  *)
(* label of the backend, never the backend.                                 *)
ResolveCascade(role, flowAgent, agent, cfg, overrides) ==
    LET project == ProjectRole(cfg, role)
        policy == IF BackendGiven(overrides, role) # None
                  THEN BackendGiven(overrides, role) ELSE project.backend
        backend == IF policy # None THEN ProjectBackendToRuntime(policy)
                   ELSE agent.backend
    IN [agent |-> ResolveRoleAgent(role, flowAgent, cfg, overrides),
        model |-> IF ModelGiven(overrides, role) # <<>> THEN ModelGiven(overrides, role)
                  ELSE IF project.model # <<>> THEN project.model
                  ELSE agent.model,
        backend |-> backend,
        extra |-> IF backend \in DOMAIN agent.extra THEN agent.extra[backend] ELSE <<>>]

---------------------------------------------------------------------------
(* The steps of flow_api::execute_flow that deal with roles.               *)

ApplyRoleAgentOverrides(flow, cfg, overrides) ==
    LET decided == [r \in DOMAIN flow.roles |->
                       ResolveRoleAgent(r, flow.roles[r], cfg, overrides)]
    IN [flow EXCEPT !.roles = decided,
                    !.steps = [i \in DOMAIN @ |->
                        IF @[i].role \in DOMAIN decided
                        THEN [@[i] EXCEPT !.agent = decided[flow.steps[i].role]] ELSE @[i]]]

(* An overlay replaces model, backend and, backend by backend, arguments;   *)
(* its rules follow those of the agent, without doubles.                    *)
Merge(agent, overlay) ==
    LET rules == overlay.rules
        Known(i) == ToSet(agent.rules) \cup {rules[j] : j \in 1 .. i - 1}
        added == FlattenSeq([i \in DOMAIN rules |->
                     IF rules[i] \in Known(i) THEN <<>> ELSE <<rules[i]>>])
    IN [agent EXCEPT
        !.model = IF overlay.model # <<>> THEN overlay.model ELSE @,
        !.backend = IF overlay.backend # None THEN overlay.backend ELSE @,
        !.extra = Over(overlay.extra, @),
        !.rules = @ \o added]

(* What the banner and the audit say that an overlay changed.               *)
Summary(agent, overlay) ==
    [rules |-> Len(Merge(agent, overlay).rules) - Len(agent.rules),
     model |-> overlay.model # <<>>, backend |-> overlay.backend # None,
     extra |-> DOMAIN overlay.extra]

(* `pairs` are the <<role, agent>> bindings in use.  Overlays change the    *)
(* agent itself: two roles of one agent must agree on theirs.               *)
ApplyRoleOverlays(agents, pairs, cfg) ==
    LET Overlay(p) == ProjectRole(cfg, p[1]).overlay
        layered == {p \in pairs : Overlay(p) # NoOverlay}
        Of(id) == {p \in layered : p[2] = id}
    IN IF \E p, q \in layered : p[2] = q[2] /\ Overlay(p) # Overlay(q) THEN Err
       ELSE Ok([agents |-> [id \in DOMAIN agents |->
                               IF Of(id) = {} THEN agents[id]
                               ELSE Merge(agents[id], Overlay(CHOOSE p \in Of(id) : TRUE))],
                summaries |-> [r \in {p[1] : p \in layered} |->
                    LET p == CHOOSE q \in layered : q[1] = r
                    IN Summary(agents[p[2]], Overlay(p))]])

UsedRoles(flow) == {flow.steps[i].role : i \in DOMAIN flow.steps} \ {None}

BuildResolvedRoles(flow, agents, cfg, overrides) ==
    [r \in UsedRoles(flow) |->
        ResolveCascade(r, flow.roles[r], agents[flow.roles[r]], cfg, overrides)]

(* Mutant: a role's model and backend win over the step's own. *)
ApplyAlways(flow, resolved) ==
    [flow EXCEPT !.steps = [i \in DOMAIN @ |->
        IF @[i].role = None THEN @[i]
        ELSE [@[i] EXCEPT !.model = resolved[flow.steps[i].role].model,
                          !.backend = resolved[flow.steps[i].role].backend]]]

(* What a step says itself stays.                                          *)
ApplyResolvedRolesToSteps(flow, resolved) ==
    LET Bound(s) == IF s.role = None THEN s
                    ELSE [s EXCEPT
                          !.model = IF @ = <<>> THEN resolved[s.role].model ELSE @,
                          !.backend = IF @ = None THEN resolved[s.role].backend ELSE @]
    IN [flow EXCEPT !.steps = [i \in DOMAIN @ |-> Bound(@[i])]]
=============================================================================
