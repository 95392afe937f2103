------------------------------ MODULE MCSetup ------------------------------
(***************************************************************************)
(* The worlds of the runs: every combination of a project file, an order of *)
(* the seeds, a command, role overrides and bare arguments.  Two agents are *)
(* in two seeds; a role is bound, or overlaid, in all the places that can.  *)
(* The scanner of Markdown flows runs in behaviours of its own.             *)
(***************************************************************************)
EXTENDS Setup, FlowMarkdown

Lit(x) == <<"lit", x>>
Words(x) == <<Lit(x)>>

---------------------------------------------------------------------------
(* What is on disk.                                                        *)

Agent(model, tier, backend, rules, skills, extra) ==
    [model |-> model, tier |-> tier, backend |-> backend, rules |-> rules,
     skills |-> skills, extra |-> extra]
Ada == Agent(<<>>, "fast", None, <<"style">>, <<"git">>,
             [b \in {"codex"} |-> <<"-c", "effort=high">>])
OtherAda == Agent(<<"opus">>, None, None, <<"house">>, <<>>, NoArgs)
Bob == Agent(<<"claude", "haiku">>, None, "codex", <<"style", "house">>, <<>>,
             [b \in {"codex", "claude-cli"} |->
                 IF b = "codex" THEN <<"--sandbox", "ro">> ELSE <<"--quiet">>])

Step(id) == [BareStep EXCEPT !.id = id]
Lead == [Step(1) EXCEPT !.role = "lead",
            !.task = <<Lit("ask"), <<"role", "lead">>, <<"var", "topic">>>>]
Second == [Step(2) EXCEPT !.agent = "bob", !.model = <<"own">>, !.backend = "ollama",
              !.input = <<1>>, !.extra = [b \in {"codex"} |-> <<"-a">>]]
Script == [Step(3) EXCEPT !.run = <<Lit("echo"), <<"var", "topic">>, <<"role", "lead">>>>]
Talk == [Step(4) EXCEPT !.type = "conversation", !.agents = <<"ada", "bob">>, !.turns = 2]
Third == [Step(5) EXCEPT !.role = "lead", !.backend = "codex", !.needs = <<1>>]

Flow(name, shape, roles, backend, steps) ==
    [name |-> name, shape |-> shape, ext |-> "yaml", sound |-> TRUE, version |-> "1",
     prompt |-> <<<<"var", "topic">>, <<"role", "lead">>>>, promptFile |-> <<>>,
     model |-> <<>>, backend |-> backend, roles |-> roles, steps |-> steps]
Bound == [r \in {"lead"} |-> "bob"]
Linear == Flow("l", "linear", Bound, None, <<Lead, Second, Script, Talk>>)
Asking == [Flow("l", "linear", Bound, "ollama", <<Lead, Third>>) EXCEPT
              !.prompt = <<<<"arg", "mood">>>> \o @]
Unbound == Flow("l", "linear", NoArgs, None, <<Lead, Second>>)
Graph == Flow("g", "graph", NoArgs, None,
              <<Lead, [Script EXCEPT !.run = <<<<"var", "topic">>>>],
                [Step(6) EXCEPT !.human = TRUE], [Step(7) EXCEPT !.final = TRUE],
                [Step(8) EXCEPT !.role = "help", !.task = <<<<"role", "lead">>>>,
                                !.extra = [b \in {"codex"} |-> <<"-c", "k=v">>]]>>)
Filed == [Asking EXCEPT !.prompt = <<>>, !.promptFile = <<"p.md">>]
Near == [f \in {<<"p.md">>} |-> [text |-> <<Lit("from file"), <<"var", "topic">>>>,
                                 outside |-> FALSE]]

Dir(agents, rules, guide, flows) ==
    [agents |-> agents, broken |-> {}, rules |-> rules, guide |-> guide, flows |-> flows,
     hidden |-> {<<"rules", "team/safety">>}]
Kuro == Dir([a \in {"ada"} |-> Ada], {"style"}, TRUE,
            [f \in {<<"l", "yaml">>, <<"g", "yaml">>} |->
                IF f[1] = "l" THEN Linear ELSE Graph])
Shared == Dir([a \in {"ada", "bob"} |-> IF a = "ada" THEN OtherAda ELSE Bob],
              {"style", "house", "team/safety"}, FALSE,
              [f \in {<<"g", "md">>, <<"l", "md">>} |->
                  [Graph EXCEPT !.ext = "md", !.name = f[1]]])
Koto == Dir([a \in {"ada", "bob"} |-> IF a = "ada" THEN Ada ELSE Bob],
            {"style", "house"}, FALSE,
            [f \in {<<"l", "yaml">>, <<"l", "md">>} |->
                IF f[2] = "md" THEN [Graph EXCEPT !.ext = "md", !.name = "l"] ELSE Linear])
Nowhere == [Unbound EXCEPT !.name = "nowhere", !.steps[1].needs = <<9>>]
Damaged == [Dir([a \in {"bob"} |-> Bob], {}, FALSE,
                [f \in {<<"nowhere", "yaml">>} |-> [Nowhere EXCEPT !.steps[1].role = "ghost"]])
            EXCEPT !.broken = {"bob"}]
Dirs == [p \in {".kuro", ".koto", "shared", "damaged"} |->
            CASE p = ".kuro" -> Kuro [] p = ".koto" -> Koto
              [] p = "shared" -> Shared [] p = "damaged" -> Damaged]

Entry(path) == [path |-> path, repo |-> None]
Entries == [damaged |-> <<Entry("damaged"), Entry(".kuro"), Entry("shared")>>,
            kuro |-> <<Entry(".kuro"), Entry("shared")>>,
            shared |-> <<Entry("shared"), Entry(".kuro")>>,
            only |-> <<Entry("shared")>>,
            remote |-> <<Entry(".kuro"), [path |-> None, repo |-> "far"]>>,
            old |-> <<>>]

Role(agent, model, backend, overlay) ==
    [agent |-> agent, model |-> model, backend |-> backend, overlay |-> overlay]
Layer == [model |-> <<"layered">>, backend |-> "codex", rules |-> <<"team/safety", "style">>,
          extra |-> [b \in {"codex"} |-> <<"-c", "sandbox_mode=">>]]
Rules == [NoOverlay EXCEPT !.rules = <<"house">>]
Roles == [plain |-> Role("ada", <<>>, None, NoOverlay),
          priced |-> Role("ada", <<"p", "big">>, "cli", Rules),
          metered |-> Role("bob", <<>>, "api", NoOverlay),
          layered |-> Role("ada", <<>>, None, Layer),
          alone |-> Role("ada", <<>>, None, NoOverlay),
          empty |-> Role("", <<>>, None, NoOverlay)]
Config(kind) ==
    [NoConfig EXCEPT !.there = TRUE,
        !.tiers = [t \in {"fast"} |-> <<"claude", "sonnet4">>],
        !.vars = [v \in {"topic"} |-> IF kind \in {"priced", "layered"}
                                      THEN <<Lit("of"), <<"role", "lead">>>>
                                      ELSE Words("tea")],
        !.roles = [r \in IF kind = "alone" THEN {"lead"} ELSE {"lead", "help"} |->
                      IF r = "lead" THEN Roles[kind] ELSE Role("bob", <<>>, None, NoOverlay)]]

---------------------------------------------------------------------------
(* Commands.                                                               *)

Given1(kind, role, x) ==
    [role |-> role, agent |-> IF kind = "agent" THEN x ELSE None,
     model |-> IF kind = "model" THEN x ELSE <<>>,
     backend |-> IF kind = "backend" THEN x ELSE None]
Overrides == [none |-> <<>>,
              twice |-> <<Given1("agent", "lead", "ada"), Given1("agent", "lead", "bob"),
                          Given1("model", "lead", <<"c", "one">>),
                          Given1("model", "lead", <<"c", "two">>)>>,
              agent |-> <<Given1("agent", "lead", "bob")>>,
              backend |-> <<Given1("backend", "lead", "api"),
                            Given1("backend", "lead", "cli")>>,
              help |-> <<Given1("agent", "help", "ada")>>,
              unknown |-> <<Given1("agent", "who", "ada")>>]

Bare == [none |-> NoArgs,
         mood |-> [k \in {"mood"} |-> Words("calm")],
         lead |-> [k \in {"lead", "mood"} |-> IF k = "lead" THEN Words("ada")
                                              ELSE Words("calm")]]

Source(kind, flow) == [kind |-> kind, name |-> flow.name, flow |-> flow]
Command(cmd, source, task, agents, include) ==
    [cmd |-> cmd, source |-> source, task |-> task, agents |-> agents, include |-> include]
Run(flow, task) == Command("run", Source("file", flow), task, <<>>, FALSE)
Commands == [asking |-> Run(Asking, <<>>),
             told |-> Run(Unbound, <<Lit("do"), <<"role", "lead">>>>),
             graph |-> Run(Graph, <<>>),
             filed |-> Run(Filed, <<>>),
             named |-> Command("run", Source("name", Linear), <<>>, <<>>, FALSE),
             states |-> Command("run", Source("name", Graph), <<>>, <<>>, FALSE),
             auto |-> Command("run", Source("auto", Linear), <<>>, <<>>, FALSE),
             task |-> Command("task", Source("auto", Linear), Words("do"),
                              <<"ada", "bob">>, TRUE),
             chat |-> Command("chat", Source("auto", Linear), <<>>, <<"ada">>, FALSE)]

MCWorlds == {w \in [seeds : DOMAIN Entries, config : DOMAIN Roles, command : DOMAIN Commands,
                    overrides : DOMAIN Overrides, bare : DOMAIN Bare] :
                w.command \in {"task", "chat"} => w.overrides = "none" /\ w.bare = "none"}

(* The old file is read when there is no other, and seeds stay implicit.    *)
MCWorld(w) ==
    LET file == [Config(w.config) EXCEPT !.seeds = Entries[w.seeds]]
        c == Commands[w.command]
    IN [cmd |-> c.cmd, source |-> c.source, task |-> c.task, agents |-> c.agents,
        include |-> c.include, vars |-> NoArgs, bare |-> Bare[w.bare],
        overrides |-> Overrides[w.overrides], dirs |-> Dirs, near |-> Near,
        skills |-> [s \in {"git"} |-> {"git.md"}],
        files |-> IF w.seeds = "old" THEN <<NoConfig, NoConfig, file>>
                  ELSE <<file, NoConfig, NoConfig>>]

---------------------------------------------------------------------------
(* Documents: per phase of the scanner the lines that it tells apart.       *)

MdLine(kind, text) == [kind |-> kind, text |-> text, to |-> Absent, why |-> <<>>]
Arrow(to, why, text) == [kind |-> "arrow", text |-> text, to |-> to, why |-> why]
Blank == MdLine("blank", "")
Rule == MdLine("rule", "")
Heading(id) == MdLine("h2", id)
Prose == MdLine("text", "x")
Linked == Arrow("b", <<"ok">>, <<"[", "B", "]", "(", "#", ")", ":", "ok">>)
Targetless == Arrow(Absent, <<>>, <<":", "x">>)
Format(version) == MdLine("format", version)
MCLines(phase) ==
    CASE phase = "before frontmatter" -> {Blank, Rule, Prose}
      [] phase = "frontmatter" -> {Rule, Format("kuromaku-flow/v1"), Format("v2")}
      [] phase = "flow header" -> {Blank, Rule, MdLine("h1", "F"), Prose}
      [] phase = "flow prompt" -> {Blank, Rule, Heading("a"), Prose, Linked}
      [] OTHER -> {Blank, Rule, Heading("A"), Heading("B"), MdLine("role", "dev"),
                   MdLine("final", "done"), MdLine("next", ""), Prose, MdLine("star", ""),
                   Linked, Targetless}

MCMaxLines == 9

AnyWorld == CHOOSE w \in Worlds : TRUE
MCInit == Init /\ MdInit
MCNext ==
    \/ doc = <<>> /\ Next /\ UNCHANGED mdVars
    \/ stage = "begin" /\ world = AnyWorld /\ MdNext /\ UNCHANGED setupVars
MCSpec == MCInit /\ [][MCNext]_<<world, stage, plan, call, doc, parser>>
=============================================================================
