------------------------------ MODULE FlowFile ------------------------------
(***************************************************************************)
(* Flow files and agent files (src/src/config.rs): which are accepted, and  *)
(* what they become.  A raw flow is what the YAML parser returns; `near`    *)
(* maps the files around a flow, as sequences of path components, to        *)
(* [text, outside], `outside` if the name is a link out of the directory.   *)
(* A flow of shape "graph" has its states as steps.  `turns` and `timeout`  *)
(* are -1 when absent.                                                      *)
(***************************************************************************)
EXTENDS ProjectConfig
D == INSTANCE Dag

DefaultModel == <<"sonnet">>
DefaultBackend == "claude-cli"
Unset == -1

IsShell(step) == step.run # <<>>
IsConversation(step) == step.agents # <<>>

ValidateExtraArgs(extra) == DOMAIN extra \subseteq ArgsKeys

(* What the YAML parser returns.  The steps of a flow are the entries of a  *)
(* map, so no id comes twice; a Markdown file is a graph.                   *)
IsRawStep(s) ==
    /\ DOMAIN s = {"id", "type", "agent", "role", "run", "task", "taskFile", "model",
                   "backend", "extra", "agents", "turns", "timeout", "input", "needs",
                   "final", "human"}
    /\ s.id \in Nat /\ s.role \in STRING /\ s.agent \in STRING
    /\ s.run \in Texts /\ s.task \in Texts
    /\ s.model \in Seq(STRING) /\ s.backend \in Backends \cup {None}
    /\ IsExtra(s.extra) /\ s.agents \in Seq(STRING) /\ s.input \in Seq(Nat)

IsRawFlow(f) ==
    /\ DOMAIN f = {"name", "shape", "ext", "sound", "version", "prompt", "promptFile",
                   "model", "backend", "roles", "steps"}
    /\ f.prompt \in Texts
    /\ f.model \in Seq(STRING) /\ f.backend \in Backends \cup {None}
    /\ \A r \in DOMAIN f.roles : f.roles[r] \in STRING \ {None}
    /\ Len(f.steps) \in Nat /\ DOMAIN f.steps = 1 .. Len(f.steps)
    /\ \A i \in DOMAIN f.steps : IsRawStep(f.steps[i])
    /\ \A i, j \in DOMAIN f.steps : f.steps[i].id = f.steps[j].id => i = j
    /\ f.ext = "md" => f.shape = "graph"

IsAgentFile(a) ==
    /\ a.model \in Seq(STRING) /\ a.backend \in Backends \cup {None}
    /\ a.rules \in Seq(STRING) /\ a.skills \in Seq(STRING) /\ IsExtra(a.extra)

---------------------------------------------------------------------------
(* Prompts in files of their own.                                          *)

ResolvePromptField(value, file, near) ==
    IF file = <<>> THEN Ok(value)
    ELSE IF /\ value = <<>>
            /\ ~Contains(file, "..") /\ Head(file) # "/"
            /\ file \in DOMAIN near /\ ~near[file].outside
         THEN Ok(near[file].text) ELSE Err

ResolveExternalPrompts(raw, near) ==
    LET prompt == ResolvePromptField(raw.prompt, raw.promptFile, near)
        Task(i) == ResolvePromptField(raw.steps[i].task, raw.steps[i].taskFile, near)
    IN IF prompt.ok /\ \A i \in DOMAIN raw.steps : Task(i).ok
       THEN Ok([raw EXCEPT !.prompt = prompt.val,
                           !.steps = [i \in DOMAIN raw.steps |->
                                         [raw.steps[i] EXCEPT !.task = Task(i).val]]])
       ELSE Err

---------------------------------------------------------------------------
(* Linear flows.                                                           *)

ConversationOk(s) ==
    /\ s.agent = None /\ s.role = None /\ s.run = <<>>
    /\ s.model = <<>> /\ s.backend = None /\ s.extra = NoArgs
    /\ Len(s.agents) >= 2 /\ ~Contains(s.agents, "") /\ IsInjective(s.agents)
    /\ s.turns > 0

ShellOk(s) == s.task = <<>> /\ s.model = <<>> /\ s.backend = None /\ s.extra = NoArgs

OneKind(s) ==
    LET kinds == (IF s.agent # None THEN {"agent"} ELSE {})
                 \cup (IF s.role # None THEN {"role"} ELSE {})
                 \cup (IF s.run # <<>> THEN {"run"} ELSE {})
    IN Cardinality(kinds) = 1

(* A role binds in the flow file first, then in the project.                *)
StepOk(s, bound) ==
    IF s.type = "conversation" THEN ConversationOk(s)
    ELSE /\ s.type \in {None, "agent", "shell"}
         /\ s.agents = <<>> /\ s.turns = Unset /\ s.timeout = Unset
         /\ OneKind(s) /\ ValidateExtraArgs(s.extra)
         /\ IsShell(s) => ShellOk(s)
         /\ s.role # None => s.role \in bound

(* `overrides` are the bare arguments that name a role of the file.  A role *)
(* of the project enters the table of the flow when a step uses it.         *)
ValidateAndResolve(raw, overrides, project) ==
    LET own == [r \in DOMAIN raw.roles |-> IF r \in DOMAIN overrides THEN overrides[r]
                                           ELSE raw.roles[r]]
        used == {raw.steps[i].role : i \in DOMAIN raw.steps} \ {None}
        more == (used \ DOMAIN own) \cap DOMAIN project
        roles == [r \in DOMAIN own \cup more |->
                     IF r \in DOMAIN own THEN own[r] ELSE project[r]]
    IN IF /\ raw.version = "1"
          /\ \A r \in DOMAIN own : own[r] # ""
          /\ DOMAIN raw.roles \cap ExtractPlaceholders(raw.prompt) = {}
          /\ D!UnknownSteps(raw.steps) = {}
          /\ \A i \in DOMAIN raw.steps : StepOk(raw.steps[i], DOMAIN roles)
       THEN Ok([raw EXCEPT
                !.roles = roles,
                !.model = IF @ = <<>> THEN DefaultModel ELSE @,
                !.backend = IF @ = None THEN DefaultBackend ELSE @,
                !.steps = [i \in DOMAIN raw.steps |->
                    IF raw.steps[i].role = None THEN raw.steps[i]
                    ELSE [raw.steps[i] EXCEPT !.agent = roles[raw.steps[i].role]]]])
       ELSE Err

LoadLinear(raw, near, overrides, project) ==
    LET inlined == ResolveExternalPrompts(raw, near)
    IN IF inlined.ok THEN ValidateAndResolve(inlined.val, overrides, project) ELSE Err

---------------------------------------------------------------------------
(* Graph flows, and files of either kind.  `sound` stands for the checks of *)
(* the graph validator, which GraphFlow states.                             *)

GraphStateOk(s) == s.extra # NoArgs => /\ ~IsShell(s) /\ ~s.final /\ ~s.human
                                       /\ ValidateExtraArgs(s.extra)

LoadGraph(raw, near) ==
    IF raw.sound /\ \A i \in DOMAIN raw.steps : GraphStateOk(raw.steps[i])
    THEN IF raw.ext = "md" THEN Ok(raw) ELSE ResolveExternalPrompts(raw, near)
    ELSE Err

(* A Markdown file is a graph; a YAML file must be one or the other.  The   *)
(* loader of `kuro run`, `kuro validate` and the tools reads prompt files   *)
(* and knows no project roles; the inventory's does the opposite.           *)
LoadAnyFromPath(raw, near) ==
    IF raw.ext = "md" \/ raw.shape = "graph" THEN LoadGraph(raw, near)
    ELSE IF raw.shape = "linear" THEN LoadLinear(raw, near, NoArgs, NoArgs)
    ELSE Err

LoadAnyForInventory(raw, project) ==
    IF raw.ext = "md" \/ raw.shape = "graph"
    THEN LoadGraph([raw EXCEPT !.ext = "md"], NoArgs)
    ELSE IF raw.shape = "linear" THEN ValidateAndResolve(raw, NoArgs, project)
    ELSE Err

(* Roles that nothing on disk binds; a raw flow will do.                    *)
UnboundRoles(flow, project) ==
    LET used == {flow.steps[i].role : i \in DOMAIN flow.steps} \ {None}
        own == IF flow.shape = "graph" THEN {} ELSE DOMAIN flow.roles
    IN used \ (own \cup DOMAIN project)

---------------------------------------------------------------------------
(* Agent files.                                                            *)

ResolveAgentModel(raw, default, cfg) ==
    IF raw.tier # None THEN ResolveTier(cfg, raw.tier)
    ELSE Ok(IF raw.model # <<>> THEN raw.model ELSE default)

(* `seed` and `path` are where the file was found.                         *)
LoadAgentFile(seeds, dirs, id, model, backend, cfg) ==
    LET at == Find(seeds, {p \in DOMAIN dirs : id \in DOMAIN dirs[p].agents})
        path == seeds[at.val].path
        raw == dirs[path].agents[id]
        resolved == ResolveAgentModel(raw, model, cfg)
    IN IF ~at.ok THEN Err
       ELSE IF at.val = 0 THEN Err
       ELSE IF id \in dirs[path].broken THEN Err
       ELSE IF resolved.ok /\ ValidateExtraArgs(raw.extra)
       THEN Ok([id |-> id, model |-> resolved.val,
                backend |-> IF raw.backend # None THEN raw.backend ELSE backend,
                rules |-> raw.rules, skills |-> raw.skills, extra |-> raw.extra,
                path |-> path])
       ELSE Err

(* The agents that a flow's steps name.                                     *)
AgentsOfFlow(flow) ==
    UNION {IF IsShell(flow.steps[i]) THEN {}
           ELSE IF IsConversation(flow.steps[i]) THEN ToSet(flow.steps[i].agents)
           ELSE {flow.steps[i].agent} : i \in DOMAIN flow.steps}

LoadAgents(ids, seeds, dirs, model, backend, cfg) ==
    LET Load(id) == LoadAgentFile(seeds, dirs, id, model, backend, cfg)
    IN IF \A id \in ids : Load(id).ok THEN Ok([id \in ids |-> Load(id).val]) ELSE Err
=============================================================================
