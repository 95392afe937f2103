------------------------------- MODULE Setup -------------------------------
(***************************************************************************)
(* From a command line to the agents it starts: `kuro run` (execute_flow    *)
(* and execute_graph_flow_setup of src/src/runner/mod.rs), `kuro task`      *)
(* (src/src/main.rs) and `kuro chat` (src/src/chat.rs).  Every stage reads  *)
(* what the ones before left in `plan`, and may refuse.                     *)
(*                                                                          *)
(* A world is what the program finds: the command [cmd, source, task, vars, *)
(* bare, overrides, agents, include], the three configuration files, the    *)
(* seed directories, the skills and the prompt files around the flow.       *)
(***************************************************************************)
EXTENDS Roles, Inventory

CONSTANTS Worlds, World(_)

VARIABLES world, stage, plan, call
setupVars == <<world, stage, plan, call>>

W == World(world)

(* A command line as clap and the binary take it apart, and directories and *)
(* files as the YAML parser returns them.                                   *)
IsCommand(w) ==
    /\ w.cmd \in {"run", "task", "chat"} /\ w.include \in BOOLEAN
    /\ w.source.kind \in {"file", "name", "auto"} /\ IsRawFlow(w.source.flow)
    /\ w.task \in Texts /\ w.agents \in Seq(STRING)
    /\ w.cmd = "chat" => DOMAIN w.agents = {1}
    /\ \A v \in DOMAIN w.vars : w.vars[v] \in Texts
    /\ \A k \in DOMAIN w.bare : /\ w.bare[k] \in Texts /\ w.bare[k] # <<>>
                                /\ w.bare[k][1][2] # None
    /\ w.overrides \in Seq([role : STRING, agent : STRING, model : Seq(STRING),
                             backend : Policies \cup {None}])

IsWorld(w) ==
    /\ IsCommand(w)
    /\ DOMAIN w.files = 1 .. 3 /\ \A i \in 1 .. 3 : IsRawConfig(w.files[i])
    /\ \A p \in DOMAIN w.dirs : LET d == w.dirs[p] IN
          /\ d.guide \in BOOLEAN
          /\ \A id \in DOMAIN d.agents : IsAgentFile(d.agents[id])
          /\ DOMAIN d.flows \subseteq STRING \X {"yaml", "yml", "md"}
          /\ \A f \in DOMAIN d.flows : IsRawFlow(d.flows[f]) /\ d.flows[f].ext = f[2]
    /\ \A f \in DOMAIN w.near : w.near[f].text \in Texts

ASSUME WorldAssumption == \A w \in Worlds : IsWorld(World(w))

NoCall == [step |-> 0, agent |-> None, argv |-> <<>>, seed |-> <<>>]

PlanFields == {"cfg", "raw", "vars", "flow", "args", "task", "agents", "summaries",
               "audit", "guide", "rules", "skills"}

Init ==
    /\ world \in Worlds
    /\ stage = "begin"
    /\ plan = [f \in PlanFields |-> None]
    /\ call = NoCall

(* A stage ends with what it adds to the plan, or the command is refused.   *)
Stage(from, result, to) ==
    /\ stage = from
    /\ IF result.ok THEN stage' = to /\ plan' = Over(result.val, plan)
       ELSE stage' = "refused" /\ plan' = plan
    /\ UNCHANGED <<world, call>>

Seeds == plan.cfg.seeds
Shape(f) == IF f.ext = "md" THEN "graph" ELSE f.shape

---------------------------------------------------------------------------
(* The stages that all commands share, and those of `kuro run`.            *)

LoadProject ==
    LET cfg == LoadOptional(W.files, W.dirs)
    IN Stage("begin",
             IF cfg.ok THEN Ok([cfg |-> cfg.val]) ELSE Err,
             IF W.cmd = "run" THEN "locate" ELSE "named")

(* Flows by name: a YAML file in any seed, then a Markdown file.            *)
NamedFlow(name) ==
    LET At(ext) == Find(Seeds, {p \in DOMAIN W.dirs : <<name, ext>> \in DOMAIN W.dirs[p].flows})
        Flow(ext) == W.dirs[Seeds[At(ext).val].path].flows[<<name, ext>>]
    IN IF ~At("yaml").ok THEN {}
       ELSE IF At("yaml").val # 0 THEN {Flow("yaml")}
       ELSE IF ~At("md").ok \/ At("md").val = 0 THEN {} ELSE {Flow("md")}

(* Without a name the only flow there is, from the first seed that has it;  *)
(* of two files with that name the one the directory lists first.           *)
OnlyFlow ==
    LET in == [i \in {j \in DOMAIN Seeds : /\ Seeds[j].kind = "local"
                                           /\ Seeds[j].path \in DOMAIN W.dirs}
                 |-> W.dirs[Seeds[i].path].flows]
        names == UNION {{f[1] : f \in DOMAIN in[i]} : i \in DOMAIN in}
        having == {i \in DOMAIN in : DOMAIN in[i] # {}}
        first == CHOOSE i \in having : \A j \in having : i <= j
    IN IF Cardinality(names) = 1 THEN {in[first][f] : f \in DOMAIN in[first]} ELSE {}

FlowsOf(source) ==
    CASE source.kind = "file" -> {source.flow}
      [] source.kind = "name" -> NamedFlow(source.name)
      [] source.kind = "auto" -> OnlyFlow

Locate ==
    /\ stage = "locate"
    /\ IF FlowsOf(W.source) = {} THEN Stage("locate", Err, "preflight")
       ELSE \E f \in FlowsOf(W.source) :
               Stage("locate", Ok([raw |-> f, vars |-> Over(W.vars, plan.cfg.vars)]), "preflight")

(* The file is loaded once to see what it is; nothing is known of the roles *)
(* of the project here.                                                     *)
Preflight ==
    LET any == LoadAnyFromPath(plan.raw, W.near)
    IN Stage("preflight", IF any.ok THEN Ok([flow |-> any.val]) ELSE Err,
             IF Shape(plan.raw) = "graph" THEN "graph bind" ELSE "parse")

(* Bare arguments that name a role of the file rebind it; the others are    *)
(* variables that no other variable yields to.                              *)
Parse ==
    LET rebinds == DOMAIN W.bare \cap DOMAIN plan.raw.roles
        args == [k \in DOMAIN W.bare \ rebinds |-> W.bare[k]]
        legacy == [k \in rebinds |-> W.bare[k][1][2]]
        warned == args = NoArgs \/ ValidateAndResolve(plan.raw, NoArgs, NoArgs).ok
        flow == LoadLinear(plan.raw, W.near, legacy, RoleAgentMap(plan.cfg))
    IN Stage("parse",
             IF warned /\ flow.ok
             THEN Ok([flow |-> flow.val, args |-> args, vars |-> Over(plan.vars, args)])
             ELSE Err, "cascade")

Cascade ==
    Stage("cascade",
          IF ValidateRoleOverrides(W.overrides, plan.flow, plan.cfg)
          THEN Ok([flow |-> ApplyRoleAgentOverrides(plan.flow, plan.cfg, W.overrides)])
          ELSE Err, "substitute")

Substitute ==
    LET f == plan.flow
        Text1(text) == Fill(text, plan.vars, f.roles)
        Run(text) == FillCommand(text, plan.vars, f.roles)
        all == /\ Text1(f.prompt).ok
               /\ \A i \in DOMAIN f.steps : Text1(f.steps[i].task).ok /\ Run(f.steps[i].run).ok
        task == ResolveTask(W.task, Text1(f.prompt).val, plan.args, plan.vars, f.roles)
        steps == [i \in DOMAIN f.steps |->
                     [f.steps[i] EXCEPT !.task = Text1(@).val, !.run = Run(@).val]]
    IN Stage("substitute",
             IF ~all THEN Err ELSE IF ~task.ok THEN Err
             ELSE Ok([flow |-> [f EXCEPT !.prompt = Text1(@).val, !.steps = steps],
                      task |-> task.val]), "load")

Load ==
    LET agents == LoadAgents(AgentsOfFlow(plan.flow), Seeds, W.dirs,
                             plan.flow.model, plan.flow.backend, plan.cfg)
    IN Stage("load", IF agents.ok THEN Ok([agents |-> agents.val]) ELSE Err, "overlay")

RolePairs(steps) ==
    {<<steps[i].role, steps[i].agent>> : i \in {j \in DOMAIN steps : steps[j].role # None}}

Overlay ==
    LET over == ApplyRoleOverlays(plan.agents, RolePairs(plan.flow.steps), plan.cfg)
    IN Stage("overlay", over, "audit")

Audit ==
    Stage("audit",
          Ok([audit |-> BuildResolvedRoles(plan.flow, plan.agents, plan.cfg, W.overrides)]),
          "bind")

Bind ==
    Stage("bind",
          IF Len(D!Kahn(plan.flow.steps)) = Len(plan.flow.steps)
          THEN Ok([flow |-> ApplyResolvedRolesToSteps(plan.flow, plan.audit)]) ELSE Err,
          "context")

(* The guide, the rules and the skills of all agents.                       *)
Gathered(guide, withSkills) ==
    LET rules == LoadRules(plan.agents, Seeds, W.dirs)
        skills == IF withSkills THEN LoadSkills(plan.agents, W.skills) ELSE Ok(NoArgs)
    IN IF guide.ok /\ rules.ok /\ skills.ok
       THEN Ok([guide |-> guide.val, rules |-> rules.val, skills |-> skills.val])
       ELSE Err

Context ==
    Stage("context", Gathered(LoadGuide(Seeds, W.dirs), TRUE), "started")

---------------------------------------------------------------------------
(* Graph flows: the roles are bound first, from the command line or the     *)
(* project, agent by agent; model and backend stay those of the agent.      *)

Staffed(s) == ~s.final /\ ~s.human /\ ~IsShell(s)

GraphBind ==
    LET f == plan.flow
        staffed == {i \in DOMAIN f.steps : Staffed(f.steps[i])}
        Agent(r) == ResolveRoleAgent(r, None, plan.cfg, W.overrides)
        used == {f.steps[i].role : i \in staffed}
        (* Of two agents for a role that no state has, the last one stays. *)
        Naming(r) == {i \in Given(W.overrides, r) : W.overrides[i].agent # None}
        named == {r \in {W.overrides[i].role : i \in DOMAIN W.overrides} : Naming(r) # {}}
        roles == Over([r \in named |-> W.overrides[Max(Naming(r))].agent],
                      Over([r \in used |-> Agent(r)], RoleAgentMap(plan.cfg)))
    IN Stage("graph bind",
             IF \A r \in used : r # None /\ Agent(r) # None
             THEN Ok([flow |-> [f EXCEPT !.roles = roles,
                          !.steps = [i \in DOMAIN f.steps |->
                              IF i \in staffed
                              THEN [f.steps[i] EXCEPT !.agent = Agent(f.steps[i].role)]
                              ELSE [f.steps[i] EXCEPT !.role = None]]]])
             ELSE Err, "graph substitute")

GraphSubstitute ==
    LET f == plan.flow
        Text1(text) == Fill(text, plan.vars, f.roles)
        Run(text) == SubstituteVars(text, plan.vars)
        all == /\ Text1(f.prompt).ok
               /\ \A i \in DOMAIN f.steps : Text1(f.steps[i].task).ok /\ Run(f.steps[i].run).ok
        task == IF W.task # <<>> THEN Text1(W.task) ELSE Text1(f.prompt)
        steps == [i \in DOMAIN f.steps |->
                     [f.steps[i] EXCEPT !.task = Text1(@).val, !.run = Run(@).val]]
    IN Stage("graph substitute",
             IF ~all THEN Err ELSE IF ~task.ok THEN Err
             ELSE Ok([flow |-> [f EXCEPT !.steps = steps], task |-> task.val]), "graph load")

GraphLoad ==
    LET steps == plan.flow.steps
        ids == {steps[i].agent : i \in {j \in DOMAIN steps : Staffed(steps[j])}}
        agents == LoadAgents(ids, Seeds, W.dirs, DefaultModel, DefaultBackend, plan.cfg)
    IN Stage("graph load",
             IF agents.ok THEN ApplyRoleOverlays(agents.val, RolePairs(steps), plan.cfg)
             ELSE Err, "graph context")

GraphContext ==
    Stage("graph context", Gathered(LoadGuide(Seeds, W.dirs), FALSE), "started")

---------------------------------------------------------------------------
(* `kuro task` and `kuro chat`: agents by name.                            *)

BareStep == [id |-> 1, type |-> None, agent |-> None, role |-> None, run |-> <<>>,
             task |-> <<>>, taskFile |-> <<>>, model |-> <<>>, backend |-> None,
             extra |-> NoArgs, agents |-> <<>>, turns |-> Unset, timeout |-> Unset,
             input |-> <<>>, needs |-> <<>>, final |-> FALSE, human |-> FALSE]

(* Every agent reads what the one before wrote.                             *)
TaskSteps(names) ==
    [i \in DOMAIN names |-> [BareStep EXCEPT !.id = i, !.agent = names[i],
                                !.input = IF i = 1 THEN <<>> ELSE <<i - 1>>]]

Named ==
    LET agents == LoadAgents(ToSet(W.agents), Seeds, W.dirs, DefaultModel, DefaultBackend,
                             plan.cfg)
        ready == /\ agents.ok
                 /\ W.cmd = "chat" =>
                        \A id \in DOMAIN agents.val : agents.val[id].backend # "api"
    IN Stage("named",
             IF ready THEN Ok([agents |-> agents.val, task |-> W.task,
                               flow |-> [shape |-> W.cmd, steps |-> TaskSteps(W.agents)]])
             ELSE Err, "named context")

NamedContext ==
    Stage("named context",
          Gathered(LoadGuideForTask(Seeds, W.dirs, W.include), TRUE), "started")

---------------------------------------------------------------------------
(* A step of the run starts; LinearRun and GraphRun say which one is next.  *)

System(agent) == BuildSystemPrompt(agent, plan.guide, plan.rules, plan.skills)

Calls(step, id, argv, seed) ==
    call' = [step |-> step.id, agent |-> id, argv |-> argv, seed |-> seed]

CallAgent(i) ==
    LET s == plan.flow.steps[i]
        agent == plan.agents[s.agent]
        model == IF s.model # <<>> THEN s.model ELSE agent.model
        backend == IF s.backend # None THEN s.backend ELSE agent.backend
        user == BuildUserPrompt(plan.task, s)
    IN /\ ~IsShell(s) /\ ~IsConversation(s) /\ plan.flow.shape \in {"linear", "task"}
       /\ Calls(s, s.agent, BuildCommand(backend, model, System(agent), user,
                                         ResolveExtraArgs(s, agent, backend)), <<>>)
       /\ UNCHANGED <<world, stage, plan>>

CallShell(i) ==
    LET s == plan.flow.steps[i]
    IN /\ IsShell(s) /\ plan.flow.shape \in {"linear", "graph"}
       /\ Calls(s, None, Flags(<<"sh", "-c">>) \o Text(<<<<"run", s.run>>>>), <<>>)
       /\ UNCHANGED <<world, stage, plan>>

(* A conversation speaks with claude only, and learns of any other backend  *)
(* now.                                                                     *)
CallConversation(i) ==
    LET s == plan.flow.steps[i]
    IN /\ ~IsShell(s) /\ IsConversation(s) /\ plan.flow.shape = "linear"
       /\ IF \A id \in ToSet(s.agents) : plan.agents[id].backend = "claude-cli"
          THEN \E id \in ToSet(s.agents) :
                  LET agent == plan.agents[id]
                  IN /\ Calls(s, id, BuildClaudeInteractive(agent.model, System(agent),
                                         ResolveExtraArgs(BareStep, agent, "claude-cli")),
                              BuildUserPrompt(plan.task, s))
                     /\ UNCHANGED stage
          ELSE stage' = "failed" /\ UNCHANGED call
       /\ UNCHANGED <<world, plan>>

CallState(i) ==
    LET s == plan.flow.steps[i]
        agent == plan.agents[s.agent]
    IN /\ plan.flow.shape = "graph" /\ Staffed(s)
       /\ IF agent.backend = "api" THEN stage' = "failed" /\ UNCHANGED call
          ELSE \E prior \in {0} \cup D!Ids(plan.flow.steps) :
                  /\ Calls(s, s.agent, BuildCommand(agent.backend, agent.model, System(agent),
                                           BuildStateUserPrompt(plan.task, s, prior),
                                           ResolveExtraArgs(s, agent, agent.backend)), <<>>)
                  /\ UNCHANGED stage
       /\ UNCHANGED <<world, plan>>

CallChat ==
    LET s == plan.flow.steps[1]
        agent == plan.agents[s.agent]
    IN /\ plan.flow.shape = "chat"
       /\ Calls(s, s.agent, BuildChat(agent.backend, agent.model, System(agent),
                                      ResolveExtraArgs(s, agent, agent.backend)), <<>>)
       /\ UNCHANGED <<world, stage, plan>>

Call ==
    /\ stage = "started"
    /\ \/ CallChat
       \/ \E i \in DOMAIN plan.flow.steps :
             CallAgent(i) \/ CallShell(i) \/ CallConversation(i) \/ CallState(i)

Next ==
    \/ LoadProject \/ Locate \/ Preflight \/ Parse \/ Cascade \/ Substitute \/ Load
    \/ Overlay \/ Audit \/ Bind \/ Context
    \/ GraphBind \/ GraphSubstitute \/ GraphLoad \/ GraphContext
    \/ Named \/ NamedContext
    \/ Call

Spec == Init /\ [][Next]_setupVars

---------------------------------------------------------------------------
(* Properties.  They read the world and the command lines, not the plan.   *)

Started == stage = "started" /\ call.agent # None
Raw == CHOOSE i \in DOMAIN plan.raw.steps : plan.raw.steps[i].id = call.step
RawStep == plan.raw.steps[Raw]
LinearRole == Started /\ plan.flow.shape = "linear" /\ RawStep.role # None

FirstOf(layers, unset) ==
    LET given == {i \in DOMAIN layers : layers[i] # unset}
    IN IF given = {} THEN unset ELSE layers[Min(given)]

(* What the command line says of a role, override by override.              *)
AgentLayers(overrides, role) ==
    [i \in DOMAIN overrides |-> IF overrides[i].role = role THEN overrides[i].agent ELSE None]
ModelLayers(overrides, role) ==
    [i \in DOMAIN overrides |-> IF overrides[i].role = role THEN overrides[i].model ELSE <<>>]
BackendLayers(overrides, role) ==
    [i \in DOMAIN overrides |-> IF overrides[i].role = role THEN overrides[i].backend ELSE None]

(* Files are those of the first seed that has them. *)
SeedWith(seeds, having) ==
    FirstOf([i \in DOMAIN seeds |-> IF seeds[i].kind = "local" /\ seeds[i].path \in having
                                    THEN seeds[i].path ELSE None], None)
AgentSeed(seeds, dirs, id) ==
    SeedWith(seeds, {p \in DOMAIN dirs : id \in DOMAIN dirs[p].agents})
RuleSeed(seeds, dirs, r) == SeedWith(seeds, {p \in DOMAIN dirs : r \in dirs[p].rules})
GuideSeed(seeds, dirs) == SeedWith(seeds, {p \in DOMAIN dirs : dirs[p].guide})
FileOf(seeds, dirs, id) == dirs[AgentSeed(seeds, dirs, id)].agents[id]

(* Who may play a role of a linear flow: the agent that the command line     *)
(* names, in an override or a bare argument, or else the one of the flow    *)
(* file or that of the project.                                             *)
Asked(w, raw, role) ==
    FirstOf(AgentLayers(w.overrides, role)
            \o <<IF role \in DOMAIN w.bare /\ role \in DOMAIN raw.roles
                 THEN w.bare[role][1][2] ELSE None>>, None)
FlowRole(raw, role) == IF role \in DOMAIN raw.roles THEN raw.roles[role] ELSE None
Players(w, raw, cfg, role) ==
    IF Asked(w, raw, role) # None THEN {Asked(w, raw, role)}
    ELSE {FlowRole(raw, role), ProjectRole(cfg, role).agent} \ {None}

(* The overlay of an agent: that of a role it plays in this run.            *)
OverlaidBy(pairs, cfg, id) ==
    LET layers == {ProjectRole(cfg, p[1]).overlay : p \in {q \in pairs : q[2] = id}}
                      \ {NoOverlay}
    IN IF layers = {} THEN NoOverlay ELSE CHOOSE o \in layers : TRUE
Overlaid(id) == OverlaidBy(IF plan.flow.shape \in {"task", "chat"} THEN {}
                           ELSE RolePairs(plan.flow.steps), plan.cfg, id)

(* What an agent runs with, below its role.                                 *)
AgentModel(file, over, cfg, default) ==
    FirstOf(<<over.model, IF file.tier # None THEN cfg.tiers[file.tier] ELSE <<>>,
              file.model, default, DefaultModel>>, <<>>)
AgentBackend(file, over, default) ==
    FirstOf(<<over.backend, file.backend, default, DefaultBackend>>, None)
AgentArgs(file, over, backend) ==
    IF backend \in DOMAIN over.extra THEN over.extra[backend]
    ELSE IF backend \in DOMAIN file.extra THEN file.extra[backend]
    ELSE <<>>

(* What a step with a role is to run with, every layer above and below its  *)
(* agent in its place.                                                      *)
Meant ==
    LET s == RawStep
        file == FileOf(Seeds, W.dirs, call.agent)
        over == Overlaid(call.agent)
        role == ProjectRole(plan.cfg, s.role)
        policy == FirstOf(Reverse(BackendLayers(W.overrides, s.role)) \o <<role.backend>>, None)
        backend == FirstOf(<<s.backend,
                             IF policy = "cli" THEN "claude-cli" ELSE policy,
                             AgentBackend(file, over, plan.raw.backend)>>, None)
    IN [backend |-> backend,
        model |-> FirstOf(<<s.model>> \o Reverse(ModelLayers(W.overrides, s.role))
                          \o <<role.model, AgentModel(file, over, plan.cfg, plan.raw.model)>>,
                          <<>>),
        extra |-> IF s.extra = NoArgs THEN AgentArgs(file, over, backend)
                  ELSE IF backend \in DOMAIN s.extra THEN s.extra[backend] ELSE <<>>]

(* The members of s of these kinds are those of t, in their order and side   *)
(* by side.                                                                 *)
Together(s, kinds, t) ==
    \E n \in 0 .. Len(s) :
        /\ {i \in DOMAIN s : s[i][1] \in kinds} = n + 1 .. n + Len(t)
        /\ \A i \in DOMAIN t : s[n + i] = t[i]

Program(backend) == CASE backend = "claude-cli" -> "claude" [] backend = "codex" -> "codex"
                      [] backend = "ollama" -> "ollama" [] backend = "api" -> "POST"

(* The command line starts the program of the backend, with the model (less *)
(* the provider, for claude) and the extra arguments.                       *)
Starts(argv, meant) ==
    /\ argv[1] = <<"flag", Program(meant.backend)>>
    /\ \A i \in DOMAIN argv : argv[i][1] = "model" =>
           \/ argv[i][2] = meant.model
           \/ meant.backend = "claude-cli" /\ <<"claude">> \o argv[i][2] = meant.model
    /\ meant.backend # "api" => Together(argv, {"arg"}, Args(meant.extra))

TextsOf(argv) == {argv[i][2] : i \in {j \in DOMAIN argv : argv[j][1] = "text"}}
Told == UNION {ToSet(text) : text \in TextsOf(call.argv)}

(* Invariant: a step with a role runs as the agent that the command line    *)
(* names, or else the flow file or the project, whichever of the two goes    *)
(* first; and that agent on the backend, with the model and the arguments   *)
(* of the topmost layer that says something: the step, the command line,    *)
(* the project role, its overlay, the agent's tier or file, the flow's      *)
(* defaults, the built-in ones.                                             *)
CascadeHolds ==
    LinearRole =>
        /\ call.agent \in Players(W, plan.raw, plan.cfg, RawStep.role)
        /\ Starts(call.argv, Meant)

(* Invariant: what the audit of the run says about a role is what a step of  *)
(* that role that sets nothing itself is started with.                       *)
AuditIsTrue ==
    LinearRole /\ RawStep.model = <<>> /\ RawStep.backend = None /\ RawStep.extra = NoArgs
        => /\ call.agent = plan.audit[RawStep.role].agent
           /\ Starts(call.argv, plan.audit[RawStep.role])

(* Invariant: an agent, whatever starts it, is told every rule of its file   *)
(* and of its overlay, every skill except in a graph flow, and its persona,  *)
(* from the first seeds that have them, and never the guide of the project   *)
(* in a task that did not ask for it.                                        *)
PersonaWhole ==
    LET file == FileOf(Seeds, W.dirs, call.agent)
    IN Started =>
        /\ \A r \in ToSet(file.rules) \cup ToSet(Overlaid(call.agent).rules) :
              <<"rule", r, RuleSeed(Seeds, W.dirs, r)>> \in Told
        /\ plan.flow.shape # "graph" => \A n \in ToSet(file.skills) : <<"skill", n>> \in Told
        /\ <<"persona", call.agent, AgentSeed(Seeds, W.dirs, call.agent)>> \in Told
        /\ (\E part \in Told : part[1] = "guide") <=>
              /\ W.cmd = "run" \/ W.include
              /\ GuideSeed(Seeds, W.dirs) # None

(* Invariant: no agent and no shell is handed a placeholder of a variable or *)
(* a role (a role not in the command of a state) that a text of the flow    *)
(* file or of the command line held itself.  Of one that the value of a     *)
(* variable or of an argument holds nothing is said.                        *)
FilledIn ==
    LET parts == Told \cup ToSet(call.seed)
        Left(kinds, kind) == UNION {Names(kind, p[2]) : p \in {q \in parts : q[1] \in kinds}}
        In(kind, values) == UNION {Names(kind, values[v]) : v \in DOMAIN values}
        Held(kind) == In(kind, W.vars) \cup In(kind, plan.cfg.vars) \cup In(kind, W.bare)
        kinds == {"task", "step"} \cup IF plan.flow.shape = "linear" THEN {"run"} ELSE {}
    IN (stage = "started" /\ call.step # 0 /\ W.cmd = "run") =>
        /\ Left({"task", "step", "run"}, "var") \subseteq Held("var")
        /\ Left(kinds, "role") \subseteq Held("role")

(* `kuro context` and list_agents list what runs.  A started agent is       *)
(* listed, and it and the rules it is told come from the seeds that the     *)
(* listing shows for them.                                                  *)
PartsListed ==
    LET context == ResolveContext(plan.cfg, W.dirs)
        Shown(p, kind) == <<kind, p[2]>> \notin W.dirs[p[3]].hidden
    IN Started => \A p \in Told :
          /\ p[1] = "persona" /\ Shown(p, "agents") =>
                p[2] \in ListAgents(context) /\ context.agents[p[2]].seed = p[3]
          /\ p[1] = "rule" /\ Shown(p, "rules") => context.rules[p[2]].seed = p[3]

(* The files that `kuro run n` can find and those that say they are n.      *)
NamedForTheirFlow(n) ==
    \A p \in DOMAIN W.dirs :
        /\ <<"flows", n>> \notin W.dirs[p].hidden
        /\ \A f \in DOMAIN W.dirs[p].flows :
              (f[1] = n <=> W.dirs[p].flows[f].name = n) /\ (f[1] = n => f[2] # "yml")

(* A flow run by its name is the one that `kuro context` and list_flows     *)
(* show to win, unless that is a Markdown file above a YAML file, and the   *)
(* roles listed as unresolved, but for those of human states, are bound on  *)
(* the command line.                                                        *)
NamedIsListed ==
    LET context == ResolveContext(plan.cfg, W.dirs)
        n == W.source.name
        won == W.dirs[context.flows[n].seed].flows
        raw == plan.raw
        staffing == {raw.steps[i].role : i \in {j \in DOMAIN raw.steps : Staffed(raw.steps[j])}}
    IN Started /\ W.cmd = "run" /\ W.source.kind = "name" /\ NamedForTheirFlow(n) =>
        \/ raw.ext = "yaml" /\ DOMAIN won \cap ({n} \X {"yaml", "yml", "md"}) = {<<n, "md">>}
        \/ /\ <<n, raw.ext>> \in DOMAIN won /\ raw = won[<<n, raw.ext>>]
           /\ \E f \in ListFlows(context) :
                 /\ f.name = n /\ f.steps = D!Ids(raw.steps)
                 /\ \A r \in f.unresolved \cap staffing : AgentGiven(W.overrides, r) # None

(* Invariant: the listings tell what runs, agents with their rules and       *)
(* flows, although the inventory walks the seeds by itself; with the two     *)
(* exceptions that EffectiveIsLoaded names: a file that its walk does not   *)
(* come across, and a Markdown flow in a seed above that of a YAML flow.    *)
ListedIsLoaded == PartsListed /\ NamedIsListed

(* Invariant: load_agent hands out the system prompt that the runner gives   *)
(* to the agent, unless a role lays something over it: the parts stand side *)
(* by side in one text of the command line, and in no other.                *)
HandedIsTold ==
    LET handed == LoadAgent(call.agent, W.cmd = "run" \/ W.include, plan.cfg, W.dirs, W.skills)
        system == {"guide", "rule", "skill", "persona"}
        Told1(text) == /\ Together(text, system, handed.val)
                       /\ \A other \in TextsOf(call.argv) \ {text} :
                             \A p \in ToSet(other) : p[1] \notin system
    IN Started /\ call.agent # "" /\ Overlaid(call.agent) = NoOverlay
         /\ plan.flow.shape # "graph" =>
            handed.ok /\ \E text \in TextsOf(call.argv) : Told1(text)

---------------------------------------------------------------------------
(* What the repository says of the program, and the code does not do.      *)

(* docs/graph-flows.md, resolver.rs: the project's agent of a role goes      *)
(* before the one that the flow file has for it.                            *)
ProjectAboveFlow ==
    LET bound == ProjectRole(plan.cfg, RawStep.role).agent
    IN LinearRole /\ Asked(W, plan.raw, RawStep.role) = None /\ bound # None
          => call.agent = bound

(* context.rs, main.rs: the "effective" view is what the runner actually     *)
(* loads.  A rule comes from the seed that is shown for it, and a flow run   *)
(* by its name is one of the seed shown for that name.                      *)
EffectiveIsLoaded ==
    LET context == ResolveContext(plan.cfg, W.dirs)
        n == W.source.name
        Held(p) == {W.dirs[p].flows[f] : f \in DOMAIN W.dirs[p].flows}
    IN Started =>
        /\ \A p \in Told : p[1] = "rule" =>
              p[2] \in DOMAIN context.rules /\ context.rules[p[2]].seed = p[3]
        /\ W.cmd = "run" /\ W.source.kind = "name" =>
              n \in DOMAIN context.flows /\ plan.raw \in Held(context.flows[n].seed)
=============================================================================
