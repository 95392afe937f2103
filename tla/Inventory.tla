----------------------------- MODULE Inventory -----------------------------
(***************************************************************************)
(* What the project says it has: `kuro context` (src/src/context.rs) and    *)
(* the tools list_agents, list_flows and load_agent of the MCP server       *)
(* (src/src/mcp/discovery.rs).  They walk the seeds on their own, and never *)
(* start anything; whether they tell what would be started is a question.   *)
(* A seed is shown as its path.  `broken` of a directory are the agents     *)
(* whose file cannot be parsed, `hidden` the names <<kind, name>> that the   *)
(* walks of the inventory do not come across: rules and flows in            *)
(* subdirectories, and files that have no name before the dot.              *)
(***************************************************************************)
EXTENDS AgentCall

---------------------------------------------------------------------------
(* One seed.                                                               *)

AgentsIn(dir) ==
    {id \in DOMAIN dir.agents \ dir.broken : <<"agents", id>> \notin dir.hidden}
RulesIn(dir) == {r \in dir.rules : <<"rules", r>> \notin dir.hidden}

Rank(ext) == CASE ext = "yaml" -> 0 [] ext = "yml" -> 1 [] ext = "md" -> 2

(* A flow file is listed if it loads with the roles of the project, or if   *)
(* it has a role that nothing binds, whatever else keeps it from loading.   *)
FlowEntries(raw, project) ==
    LET open == UnboundRoles(raw, project)
    IN IF \/ LoadAnyForInventory(raw, project).ok
          \/ raw.shape \in {"linear", "both"} /\ open # {}
       THEN {[name |-> raw.name, steps |-> D!Ids(raw.steps), unresolved |-> open]}
       ELSE {}

(* Of the files with one stem the best extension stands for all, even when  *)
(* it does not load.                                                        *)
FlowsIn(dir, project) ==
    LET best == {f \in DOMAIN dir.flows :
                    /\ <<"flows", f[1]>> \notin dir.hidden
                    /\ \A g \in DOMAIN dir.flows : g[1] = f[1] => Rank(f[2]) <= Rank(g[2])}
    IN UNION {FlowEntries(dir.flows[f], project) : f \in best}

(* A seed that is remote, or not there, adds nothing.                       *)
SeedContribution(seed, dirs, project) ==
    IF seed.kind = "local" /\ seed.path \in DOMAIN dirs
    THEN LET dir == dirs[seed.path]
         IN [display |-> seed.path, exists |-> TRUE, agents |-> AgentsIn(dir),
             rules |-> RulesIn(dir), flows |-> FlowsIn(dir, project)]
    ELSE [display |-> seed.path, exists |-> FALSE, agents |-> {}, rules |-> {}, flows |-> {}]

---------------------------------------------------------------------------
(* The cascade.                                                            *)

NamesOf(contribution, kind) ==
    CASE kind = "agents" -> contribution.agents
      [] kind = "rules" -> contribution.rules
      [] kind = "flows" -> {f.name : f \in contribution.flows}

(* Mutant: the last seed that has a name wins. *)
EffectiveLast(seeds, kind) ==
    LET Has(n) == {i \in DOMAIN seeds : n \in NamesOf(seeds[i], kind)}
        Winner(n) == CHOOSE i \in Has(n) : \A j \in Has(n) : j <= i
    IN [n \in UNION {NamesOf(seeds[i], kind) : i \in DOMAIN seeds} |->
           [seed |-> seeds[Winner(n)].display,
            shadows |-> {seeds[i].display : i \in Has(n)} \ {seeds[Winner(n)].display}]]

(* The first seed that has a name wins and shadows the others.              *)
EffectiveFor(seeds, kind) ==
    LET Has(n) == {i \in DOMAIN seeds : n \in NamesOf(seeds[i], kind)}
        Winner(n) == CHOOSE i \in Has(n) : \A j \in Has(n) : i <= j
    IN [n \in UNION {NamesOf(seeds[i], kind) : i \in DOMAIN seeds} |->
           [seed |-> seeds[Winner(n)].display,
            shadows |-> {seeds[i].display : i \in Has(n)} \ {seeds[Winner(n)].display}]]

ResolveContext(cfg, dirs) ==
    LET seeds == [i \in DOMAIN cfg.seeds |->
                     SeedContribution(cfg.seeds[i], dirs, RoleAgentMap(cfg))]
    IN [seeds |-> seeds,
        agents |-> EffectiveFor(seeds, "agents"),
        rules |-> EffectiveFor(seeds, "rules"),
        flows |-> EffectiveFor(seeds, "flows")]

(* list_agents and list_flows: the winners without their seeds.             *)
ListAgents(context) == UNION {context.seeds[i].agents : i \in DOMAIN context.seeds}
ListFlows(context) ==
    LET seeds == context.seeds
        Wins(i, f) == \A j \in 1 .. i - 1 : f.name \notin NamesOf(seeds[j], "flows")
    IN UNION {{f \in seeds[i].flows : Wins(i, f)} : i \in DOMAIN seeds}

(* Mutant: the guide is handed out to those who left it out. *)
LoadAgentGuided(name, include, cfg, dirs, skills) ==
    LET agent == LoadAgentFile(cfg.seeds, dirs, name, <<"claude-sonnet-4-5">>,
                               "claude-cli", cfg)
        one == [id \in {name} |-> agent.val]
        guide == LoadGuide(cfg.seeds, dirs)
        rules == LoadRules(one, cfg.seeds, dirs)
        skill == LoadSkills(one, skills)
    IN IF name = "" \/ ~agent.ok THEN Err
       ELSE IF guide.ok /\ rules.ok /\ skill.ok
       THEN Ok(BuildSystemPrompt(agent.val, guide.val, rules.val, skill.val))
       ELSE Err

(* load_agent: the parts a client joins to get the prompt of the runner.    *)
LoadAgent(name, include, cfg, dirs, skills) ==
    LET agent == LoadAgentFile(cfg.seeds, dirs, name, <<"claude-sonnet-4-5">>,
                               "claude-cli", cfg)
        one == [id \in {name} |-> agent.val]
        guide == LoadGuideForTask(cfg.seeds, dirs, include)
        rules == LoadRules(one, cfg.seeds, dirs)
        skill == LoadSkills(one, skills)
    IN IF name = "" \/ ~agent.ok THEN Err
       ELSE IF guide.ok /\ rules.ok /\ skill.ok
       THEN Ok(BuildSystemPrompt(agent.val, guide.val, rules.val, skill.val))
       ELSE Err
=============================================================================
