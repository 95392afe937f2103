----------------------------- MODULE AgentCall -----------------------------
(***************************************************************************)
(* What an agent is started with: its system prompt, its user prompt and    *)
(* the command line (src/src/executor/mod.rs, src/src/skills.rs,            *)
(* src/src/chat.rs, and the prompt functions of src/src/runner).  A prompt  *)
(* is a sequence of parts, an argument of a command line is <<kind, value>>. *)
(***************************************************************************)
EXTENDS FlowFile

---------------------------------------------------------------------------
(* Context files.                                                          *)

(* The guide is optional; <<>> if no seed has one. *)
LoadGuide(seeds, dirs) ==
    LET at == Find(seeds, {p \in DOMAIN dirs : dirs[p].guide})
    IN IF ~at.ok THEN Err
       ELSE Ok(IF at.val = 0 THEN <<>> ELSE <<<<"guide", seeds[at.val].path>>>>)

(* `kuro task` and `kuro chat` leave it out unless asked for. *)
LoadGuideForTask(seeds, dirs, include) ==
    IF include THEN LoadGuide(seeds, dirs) ELSE Ok(<<>>)

(* Every rule of every agent, from the first seed that has it. *)
LoadRules(agents, seeds, dirs) ==
    LET names == UNION {ToSet(agents[id].rules) : id \in DOMAIN agents}
        At(r) == Find(seeds, {p \in DOMAIN dirs : r \in dirs[p].rules})
    IN IF \A r \in names : At(r).ok THEN
           IF \A r \in names : At(r).val # 0
           THEN Ok([r \in names |-> seeds[At(r).val].path]) ELSE Err
       ELSE Err

(* Skills lie in .kuro, whatever the seeds say; a directory without a       *)
(* Markdown file is no skill.  `skills` maps the directories to their files. *)
ResolveSkill(name, skills) == name \in DOMAIN skills /\ skills[name] # {}

CollectSkillNames(agents) == UNION {ToSet(agents[id].skills) : id \in DOMAIN agents}

LoadSkills(agents, skills) ==
    LET names == CollectSkillNames(agents)
    IN IF \A n \in names : ResolveSkill(n, skills)
       THEN Ok([n \in names |-> skills[n]]) ELSE Err

---------------------------------------------------------------------------
(* Prompts.                                                                *)

(* Guide, rules, skills, persona.  What is not in a cache is left out.     *)
BuildSystemPrompt(agent, guide, rules, skills) ==
    LET Rule(r) == IF r \in DOMAIN rules THEN <<<<"rule", r, rules[r]>>>> ELSE <<>>
        Skill(n) == IF n \in DOMAIN skills THEN <<<<"skill", n>>>> ELSE <<>>
    IN guide \o FlattenSeq([i \in DOMAIN agent.rules |-> Rule(agent.rules[i])])
             \o FlattenSeq([i \in DOMAIN agent.skills |-> Skill(agent.skills[i])])
             \o <<<<"persona", agent.id, agent.path>>>>

Part(kind, text) == IF text = <<>> THEN <<>> ELSE <<<<kind, text>>>>

BuildUserPrompt(task, step) ==
    <<<<"task", task>>>> \o Part("step", step.task)
        \o [i \in DOMAIN step.input |-> <<"output of", step.input[i]>>]

(* A state sees the output of the state before, and the menu of its edges.  *)
BuildStateUserPrompt(task, state, prior) ==
    Part("task", task) \o Part("step", state.task)
        \o (IF prior = 0 THEN <<>> ELSE <<<<"output of", prior>>>>) \o <<<<"menu">>>>

(* The arguments of the step stand for all of the agent's, even when they   *)
(* have none for the backend in use.                                        *)
ResolveExtraArgs(step, agent, backend) ==
    LET layer == IF step.extra # NoArgs THEN step.extra ELSE agent.extra
    IN IF backend \in DOMAIN layer THEN layer[backend] ELSE <<>>

---------------------------------------------------------------------------
(* Command lines.                                                          *)

Flags(names) == [i \in DOMAIN names |-> <<"flag", names[i]>>]
Model(model) == <<<<"model", model>>>>
Text(parts) == <<<<"text", parts>>>>
Args(extra) == [i \in DOMAIN extra |-> <<"arg", extra[i]>>]

Preamble == <<<<"preamble">>>>

ClaudeCliModel(model) ==
    IF Len(model) > 1 /\ model[1] = "claude" THEN Tail(model) ELSE model

BuildClaude(model, system, user, extra) ==
    Flags(<<"claude", "--print", "--model">>) \o Model(ClaudeCliModel(model))
        \o Flags(<<"--output-format", "stream-json", "--system-prompt">>)
        \o Text(Preamble \o system) \o Args(extra) \o Text(user)

(* The session of a conversation gets its prompts over a pipe. *)
BuildClaudeInteractive(model, system, extra) ==
    Flags(<<"claude", "--model">>) \o Model(ClaudeCliModel(model))
        \o Flags(<<"--input-format", "stream-json", "--output-format", "stream-json",
                   "--system-prompt">>)
        \o Text(Preamble \o system) \o Args(extra)

BuildClaudeChat(model, system, extra) ==
    Flags(<<"claude", "--model">>) \o Model(ClaudeCliModel(model))
        \o Flags(<<"--append-system-prompt">>) \o Text(Preamble \o system) \o Args(extra)

(* A sandbox or approval flag of the user replaces the default one. *)
Overriding == {"--full-auto", "--sandbox", "-s", "--ask-for-approval", "-a",
               "--sandbox=", "--ask-for-approval="}
Settings == {"sandbox_mode=", "approval_policy="}
OverridesFullAuto(extra) ==
    \E i \in DOMAIN extra :
        \/ extra[i] \in Overriding
        \/ extra[i] = "-c" /\ i < Len(extra) /\ extra[i + 1] \in Settings

CodexModel(model) ==
    IF model = <<"default">> THEN <<>> ELSE Flags(<<"-m">>) \o Model(model)

BuildCodex(model, system, user, extra) ==
    Flags(<<"codex", "exec">>)
        \o (IF OverridesFullAuto(extra) THEN <<>> ELSE Flags(<<"--full-auto">>))
        \o CodexModel(model) \o Args(extra) \o Text(system \o user)

BuildCodexChat(model, system, extra) ==
    Flags(<<"codex">>) \o CodexModel(model) \o Args(extra) \o Text(system)

BuildOllama(model, system, user, extra) ==
    Flags(<<"ollama", "run">>) \o Model(model) \o Args(extra) \o Text(system \o user)

BuildOllamaChat(model, system, extra) ==
    Flags(<<"ollama", "run">>) \o Model(model) \o Flags(<<"--system">>) \o Text(system)
        \o Args(extra)

(* Backend api: no command, a request with the same prompts and no extras.  *)
ApiRequest(model, system, user) ==
    Flags(<<"POST">>) \o Model(model) \o Text(system) \o Text(user)

BuildCommand(backend, model, system, user, extra) ==
    CASE backend = "claude-cli" -> BuildClaude(model, system, user, extra)
      [] backend = "codex" -> BuildCodex(model, system, user, extra)
      [] backend = "ollama" -> BuildOllama(model, system, user, extra)
      [] backend = "api" -> ApiRequest(model, system, user)

BuildChat(backend, model, system, extra) ==
    CASE backend = "claude-cli" -> BuildClaudeChat(model, system, extra)
      [] backend = "codex" -> BuildCodexChat(model, system, extra)
      [] backend = "ollama" -> BuildOllamaChat(model, system, extra)
=============================================================================
