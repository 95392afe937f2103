# kuromaku: verification project

kuromaku (`kuro`) runs *flows*: a flow is a set of coding-agent tasks, ordered
as a list (linear flow) or connected as a graph (graph flow) with shell gates
and human handoffs. This directory holds TLA+ models of the program, the TLC
configurations that check them on small instances, and TLAPS proofs of theorems
that hold for all instances. Paths in this text are relative to the root of the
repository.

## 1. Inventory

| component | code | state it keeps | operations | correct when |
|---|---|---|---|---|
| graph run driver | `src/runner/graph.rs` `run_graph_flow`, `src/runner/mod.rs` `execute_graph_flow_setup`, `resume_run_with_input`, `execute_graph_flow_resume_setup` | loop variables: position, step counter, visit map, one-shot skip flag, prior state, pending human input, results | run, resume, visit a state, retry a malformed reply, route by exit code, pause, inline prompt, write outcome | the manifest is a walk of the graph, complete and backed by files; budgets bound every run; a human gate is passed only with consent; a completed run is final |
| graph flow schema and validator | `src/core/graph_flow.rs`, `src/core/validator.rs`, `src/config_md.rs` | the Markdown scanner's fields of the state it reads | parse, validate | no accepted flow lets the driver leave the graph; a document is read as it was meant |
| run directory | `src/stack.rs` | `steps/NN-id.{md,txt}`, `steps/NN-id.meta.yaml`, `manifest.yaml` | write a step, look a step up by id, write and read the manifest, purge | meta files refer to content files; what a manifest lists is on disk; runs do not meet |
| interactive reader | `src/runner/graph_interactive.rs` | what stdin buffers | read a body | what was typed answers one prompt |
| local executor | `src/executor/local.rs`, `stream_json.rs` | a map of running tasks, a reader and a buffer per task | spawn, status, wait, stop | an output is the whole of what was said in UTF-8; `wait` and `stop` never hold one task both |
| agent transport | `src/executor/transport.rs` | a child, its stdin behind a lock, a parser task, a channel of events | send, receive, close, drop | lines cross the pipes whole, up to one that is not UTF-8 |
| message router and conversation steps | `src/messaging/router.rs`, `audit.rs`, `src/runner/mod.rs` `run_conversation_step` | reader tasks, event channel, turn count, last result per agent, audit log | broadcast, deliver, terminate for one of five reasons | convergence means agreement on the same conversation; the log tells what happened in order |
| linear runner | `src/runner/mod.rs`, `src/dag.rs` | the results of the steps so far | order the steps, choose a directory, run them, comment, write the manifest | a step runs after everything it depends on, and reads what that wrote |
| decision parser | `src/runner/decision.rs` | the position and the string state of a scan | choose the decision object in a reply | of several objects the last well-formed one counts |
| MCP server and sessions | `src/mcp/server.rs`, `protocol.rs`, `session.rs`, `execution.rs`, `messaging.rs` | dispatches in flight, the registry of runs | read a frame, dispatch, run a flow, send a message, drain | every request has one answer; no run is cut off; slots are given back |
| MCP discovery and workflow tools | `src/mcp/discovery.rs`, `workflow.rs`, `tools.rs` | none | list, load, report | a report says what the step said; listings tell what would run |
| configuration | `src/config.rs`, `koto_config.rs`, `init.rs` | files | parse, validate, scaffold | nothing ill-formed is accepted |
| role and seed resolution | `src/resolver.rs`, `skills.rs`, `context.rs`, `src/executor/mod.rs` | none | look up along the seed cascade, build command lines | an agent runs with what the topmost layer says; first seed wins, everywhere |
| notifications | `src/notify/github.rs` | none of its own | comment, read comments | a comment answers one pause |
| terminal, chat, direct model calls, `main` | `src/ui.rs`, `chat.rs`, `llm.rs`, `main.rs` | none | | |

How they interact. `kuro run` creates a run directory and spawns a driver task;
the driver calls the executor for each agent and each shell command and the run
directory for each step. The executor's task is awaited without a deadline.
When the driver reaches a human state it either returns `Paused` (the setup
function then writes a manifest with `status: paused`) or, under the inline
policy, calls the interactive reader. `kuro resume` is another process: it
shares nothing with the first one but the directory. A conversation step starts
one transport session per agent, gives them to the router, and publishes the
router's human accessor in the run state, where the MCP tool `send_message`
finds it. The MCP server polls all its calls in one task; a call that runs a
flow waits for the task of that run and holds a slot of the session meanwhile.
Before any of this the command line, three configuration files, the seed
directories and the flow file are resolved to one command line per agent.

What is hard here: the state of a run is split between a process's memory and
files written one after another without a lock or a rename; every failure path
of the driver returns without touching the manifest, so recovery relies on what
an earlier pause wrote; loops make step ids ambiguous; a resume re-creates half
of the driver's state (counter, steps) and resets the other half (visits, prior
state); a directory name is tested before it is created; the router merges
several streams, a timer and a human, and decides the end from state it
collected earlier; a line that is not UTF-8 ends a reader as the end of the pipe
does, and nobody is told; the server's client may leave at any time; a role is bound in six places by passes whose
order matters; scanners of replies, reports and documents keep state from line
to line. The hazards, each with its line and the properties that cover it, are
in `PROJECT.json`.

## 2. Modules

| module | models | state |
|---|---|---|
| `GraphFlow` | graph flows and the parser's hard errors | none; `ValidFlow` is what a loaded flow satisfies, `NoDeadEnds` what a fresh run demands in addition |
| `GraphRun` | one graph run: its directory, its processes, its operator | see below |
| `RunWalk` | what a graph run promises, without files and processes | `phase`, `trail`, `consent`, `kept` |
| `Router` | one conversation step: router, reader tasks, agents, human channel and its senders, setup and end of the step | see below |
| `Discourse` | what a conversation promises, without channels and tasks | `said`, `reason` |
| `AuditLog` | the writer and the reader of the message log, with appends that fail | `entries`, `disk`, `open`, `turn`, `count` |
| `Dag` | `validate_dag`: merged needs, Kahn's algorithm, the search for a cycle; and what a right answer is | none |
| `LinearRun` | linear runs that start in one second, fail, die, are cancelled or purged | see below |
| `Schedule` | what a linear run promises | `plan`, `done`, `phase` |
| `Executor` | one task of the local executor | see below |
| `Transport` | one transport of a conversation | see below |
| `DecisionParser` | the scan of a reply, byte by byte | `idx`, `depth`, string state, blocks, `verdict` |
| `McpServer` | sessions of the MCP server | see below |
| `Workflow` | the parsers of the workflow tools | none |
| `Handoff` | what people say to a run that waits: comments, typed lines, resumes | see below |
| `ProjectConfig`, `FlowFile`, `Template`, `Roles`, `AgentCall`, `Inventory` | configuration, flow and agent files, placeholders, the role cascade, prompts and command lines, listings; operators only | none |
| `Setup` | `kuro run`, `kuro task`, `kuro chat` up to the start of each agent, built from the six modules above | `stage`, `plan`, `call` |
| `FlowMarkdown` | the scanner of Markdown flows, line by line | `doc`, `parser` |

`MC*` modules are the instances for TLC, `*Proofs` modules hold the theorems,
`SequenceLemmas` what several of them need of sequences.
`MCExecutor`, `MCDriver`, `MCShared`, `MCSetup` and `MCHandoff` put machines side
by side whose states are disjoint in the models; in a behaviour only one of them
moves, so a run checks each of them and never their product. Where one stands
on another in the code, the upper model assumes what the lower one shows:
`GraphRun` that a task returns an output or fails (`Executor`), `Router` that a
transport hands over what was said, in order, up to a line it cannot read
(`Transport`).

### 2.1 GraphRun and the code

| in the model | in the code |
|---|---|
| `content`, `meta` | `steps/NN-id.md` or `.txt`, `steps/NN-id.meta.yaml`; `full` says that a file was written to its end, `by` which launch wrote it |
| `manifest` | `manifest.yaml`: `none`, `torn`, `paused`, `done`; its steps; the state it paused at |
| `launches`, `life` | how many processes were started on the run, and which of them a process is |
| `pc` | where `run_graph_flow` stands; `idle` is "no process" |
| `at`, `num`, `visits`, `skip`, `hin`, `prior` | `current_id`, `step_counter`, `visit_counts`, `skip_pause_once`, `pending_human_input`, `prior_state` |
| `base`, `done` | `prior_steps` of a resume, `results` of this launch |
| `pend`, `ctx` | the step being written, the artifact an agent was handed |

`Start` and `Resume` are the two commands; `Visit` enters an agent or shell
state, charges both budgets and truncates the content file as the executor
does; `Decide`, `AskAgain` and `AgentFails` are the reply with its one retry;
`ShellExits` routes by exit code. `WriteContent`, `WriteMeta`,
`TruncateManifest` and `FlushManifest` keep the order of the file system calls,
so that `Crash` can stand between any two of them and leave a torn file. Every
error return is `Fail`: nothing is written on the way out. Step names, prompts
and texts are abstracted to the identity of the writer.

`RunWalk` is what a user is told: a run walks the graph, passes a gate only by
a consent, and a failed launch falls back to what the last pause kept
(`WalkRefined`). A consent given at one state may be used up at a later one,
where an edit of the flow has put an agent in the first one's place: that is
what the code does, and what finding `gate_skipped` is about.

### 2.2 LinearRun, Dag and Schedule

| in the model | in the code |
|---|---|
| `dag` | what `validate_dag` returns: an order, an unknown reference, or a cycle |
| `pc`, `num`, `ctx`, `results` | the task of a run, `i` of the loop, the inputs read for the current step, `results` |
| `dir`, `dirs` | the directory name a run chose (`unique_run_path`), those that exist |
| `content`, `meta`, `manifest`, `audit` | the files of each directory, with who wrote them |
| `cancel` | `RunState.cancel` |
| `posts` | the outputs that became comments |
| `purge` | `kuro stack purge`, which plans, asks and removes |
| `twins` | history: runs that chose a name another run had chosen and not created |

One action stands for one step of the task: `Reject`, `PickName`, `MakeLayout`,
`Launch`, `BeginStep` (reads the inputs), one `Returns` for each kind of step,
`StepFails`, `WriteContent`, `WriteMeta`, `PostComment`, `WriteManifest`.
`Cancel`, `Crash`, `PlanPurge` and `AnswerPurge` may come in between.
`MakeLayout` makes the directory and may fail to write the audit into it, which
is a warning and no more. `Dag`
has Kahn's algorithm and the search for the cycle as functions of the flow, and
`RightAnswer`, which says what both should return without any algorithm.
`Schedule` is the partial order a run promises to respect.

### 2.3 Executor, Transport and DecisionParser

`Executor` is one task of `LocalExecutor`. `entry` is the task's place in the
`processes` map, which both `Reap` (in `wait`) and `Stop` remove; `child` is
the shell, and `written` what it and its background children have put in the
pipe; `reader`, `taken`, `buf`, `override` and `file` are the reader task, which
pushes to the buffer before it writes to the file (`ReadLine`, `WriteFile`).
It ends (`ReaderEnds`) at the end of the pipe or at the first line that is not
UTF-8 (`text` is how many come before it), and then the pipe has no reader;
`caller` and `answer` are `spawn` followed by `wait`; `stopper` and `told` are
another holder of the executor who calls `stop` and `status`.

`Transport` is one `StreamJsonTransport`: a `send` writes its line in pieces and
flushes it (`WriteHead`, `WriteTail`), and the router sends one after the other;
`wire` is what arrived at the agent, `oks` how many sends answered Ok; `parser`,
`parsed`, `channel` and `received` are the reader task and `recv`. The parser ends
at the end of the agent's output or at a line that is not UTF-8. `owner` is the
life of the transport, with its three ends: dropped, closed, and dropped because
the next participant could not be spawned.

`DecisionParser` scans a reply symbol by symbol, as `top_level_json_objects`
scans bytes: a brace outside a string opens or closes a block, a quote toggles a
string, a backslash escapes. `Parsed` is `parse_agent_decision`, which takes the
last block that decodes, and `ValidateTransition` is `validate_transition`. A text
over an alphabet of braces (`"open"` and `"close"`), quote, backslash and letters
stands for every reply.

### 2.4 Router and Discourse

| in the model | in the code |
|---|---|
| `scene` | whether stdin is a terminal, a run state is there, an MCP server runs the step; what agents and humans will do |
| `mind`, `inbox`, `ears`, `speech`, `outbox` | an agent: whether it is thinking, is heard no more (`mute`, after a line its transport could not read) or has exited; its stdin, the human messages it has read, its output parsed by the transport |
| `reader`, `hold` | the reader tasks of `router.rs`, and the event one of them could not push |
| `pc`, `events`, `todo`, `turns`, `last`, `log`, `reason` | the loop, the event channel, the deliveries of the current broadcast, `turns`, `latest_result_by_agent`, the log, why it ended |
| `human`, `slot`, `stdin`, `lines`, `calls` | the human channel and its senders: the slot of the run state, the terminal's forwarder, `send_message` calls |

`Receive`, `Hear`, `TimeOut`, `AgentsGone` and `HumanGone` are the branches of
the `select!`; `Deliver` is one blocking write of a broadcast, `Judge` what the
router does after the last of them: cap, then convergence. `StopReading` and
`Push` are a reader that sees the end or the cancellation; `Publish`, `Begin`,
`SpawnFails` and `ClearRouter` the setup and the end of the step; `Call` and
`Inject` the two halves of a `send_message`. A result is reduced to "agrees" or
"does not"; other fragments to "note". `Discourse` is the step without channels:
utterances, and five reasons for an end.

### 2.5 McpServer and Workflow

All dispatches of the server are polled by one task, so what a dispatch does
between two `await`s is one action; runs are tasks of their own and interleave.
`loop`, `pipe` and `read` are the stdio loop (`serving`, `draining` after EOF,
`ended`, `aborted`); `pc`, `code` and `dest` one dispatch per frame, with the
answer it made and the conversation it addressed; `out` the frames on stdout;
`slots` is `SessionState.runs`; `run`, `chan` and `heard` are the runs, as far
as a client can tell them apart, with the channel of their current router.
`Launch` registers a run and starts it, `Joined` is the end of the wait in every
way a task can end (a panic included) with the drop of the slot; `Snapshot` and
`Inject` are the two halves of `send_message`; `Drained` is the wait for
the dispatches in flight after EOF. `Workflow` has the parsers that find
verdict, findings and commit in the record of a step; a line of a report is a
heading, a bullet or neither, and a word. The loop over the lines of a section is a
recursive function (`Gather`), so that the prover can speak of it; the definition it is
compared with, `FindingsAreBullets`, knows only the positions of the lines.

### 2.6 Handoff and AuditLog

`Handoff` is the operator's side of a graph run: `clock` counts fractions of a
second, because GitHub dates by the second and the run does not; `issue` holds
the comments, `keyboard` what was typed and not read, `saved` the time of
the pause, `answers` what the human steps say and where each came from.
`ReachHuman`, `SavePause`, `AnswerPrompt`, `EndOfInput`, `Finish` and `FailRun`
are the run; `ResumeWith` is a resume with all the sources of a text
(`--message`, `--message-file`, stdin, comments) in the order of the code.

`AuditLog` is the writer and the reader of the message log. An append is a
write of the line and one of the line break, and either can fail; the
conversation goes on. `turn` moves before the append, `count` after.

### 2.7 Setup, FlowMarkdown and their operators

`Setup` is the chain of passes over one `plan`, with one action per pass, each
of which may refuse the command: `begin` (configuration), `locate` (the flow),
`preflight`, `parse`, `cascade` (placeholders), `substitute`, `load` (agents),
`overlay` (roles), `audit`, `bind`, `context`, `started`, and then one `Call…`
for each command line. Graph flows and the named agents of `kuro task` and
`kuro chat` have passes of their own, because the code has. The passes are
built from operators that translate one module each: `ProjectConfig` (the three
configuration files and their merge), `FlowFile` (what of a flow or an agent
file is accepted), `Template` (placeholders), `Roles` (who a role is),
`AgentCall` (prompt, skills, command line), `Inventory` (what `kuro context`
and `list_flows` show, what `load_agent` hands out). Names, prompts and models are
members of small sets; what matters is which layer a value came from.

The files of a world are directories with agents, rules, flows and a guide.
`broken` are the agents whose file does not parse. `hidden` are the names that a
run finds and the walks of the inventory do not come across: a rule `team/safety`
in a subdirectory, a file that has no name before the dot. A flow says its own
name in the file, and that name, not the file's, is what the inventory lists.

`FlowMarkdown` reads a document line by line, one action per phase of the
scanner. A line is a kind and a text; of a transition line the tokens are kept.

## 3. Runs

| run | instance | checks |
|---|---|---|
| `graph_run` | one process at a time, three launches, a flow of five states (a loop with a gate and a human state), edited at any pause into a dead end or so that an agent stands where the run paused, 5 steps, 2 visits; beside it shells that write three or five lines in either format, one of them perhaps not UTF-8, exit with 0 or 1, leave a child behind that writes or holds the pipe, cannot open or write their file; an agent that is sent two lines; every text of four symbols before every decision | `ManifestBacked`, `ManifestIsWalk`, `BudgetSpansResumes`, `PriorRecorded`, `CompletedIsFinal`, `DriverEnds`, `WalkRefined`; `WholeOutput`, `WaitReturns`, `LinesWhole`, `LastObjectWins` |
| `shared_run` | two processes on one directory, three launches; beside it two seconds of three ticks, two comments, three typed lines, two human states; a log of four entries with two faults | `MetaBacked`, `PausedNumbering`, `ManifestComplete`; `HeardOnce`, `AnswersComplete`, `AuditTells` |
| `router` | two agents, three turns, every channel and pipe with room for one, four scenes: a script with agents that may exit or fall mute, an MCP server with one caller, one with two callers at once, a caller without a run state | `OfferedInOrder`, `LastWordsHeard`, `RouterEnds`, `CallAnswered`, `DiscourseRefined` |
| `linear_run` | all 512 dependency relations on three steps, flows with unknown and duplicate references, a conversation with faults, an audit that cannot be written, and two runs of one flow within a second with faults and a purge | `OrderIsRight`, `RunsApart`, `NeverStarved`, `ManifestComplete`, `RunsEnd`, `ScheduleRefined` |
| `setup` | 4608 worlds; Markdown documents of up to nine lines | `CascadeHolds`, `AuditIsTrue`, `PersonaWhole`, `FilledIn`, `ListedIsLoaded`, `HandedIsTold`, `ReadAsWritten` |
| `mcp_session` | three frames in flight, runs with up to two conversations, a channel with room for one, reports of up to five lines | `OneResponse`, `LineKeepsItsTalk`, `NoRunCutOff`, `ReportIsRead`, `CallEnds` |
| `stale_context`, `gate_skipped`, `stale_convergence`, `role_order`, `listing`, `same_second` | see 3.3 | each one statement of the repository that the code does not keep |

Each property has a mutant in `PROJECT.json`: a plausible bug in one definition
under which TLC finds the property violated in the same run.

### 3.1 Bounds

`graph_run`: five steps let the loop go round twice with an answer each, so the
step budget and the visit budget are both reached, and three launches allow a
pause, a failed or torn resume and another resume. `MaxSteps` and `MaxVisits`
are parameters of the code too (30 and 5), and nothing depends on their
values. `shared_run` needs no more than two resumes of one pause that overlap;
the theorems of section 4 hold for any number, and that of `PriorRecorded`,
which `graph_run` checks with the edits of the flow, for any number of
processes too. `router`: a channel of one is
full as soon as anything is in it, so every place where a task can block is
reached; two agents are enough for a result that overtakes a broadcast.
`linear_run`: three steps have every shape of cycle and of sharing, and each
step lists its references in an order that is not that of the ids; that the
order is right for any flow is proved. Two runs are enough to choose
the same name. The tasks of `graph_run`: three lines have a first, a middle and a last; the
shell may exit before, between and after them. Four symbols give every nesting,
string and escape before the block that counts. `setup`: the layers (command
line, flow, project, seeds) are each present or absent, each with a value of its
own, in every combination that can interact; among the seeds one stands above
another that has the same names, one has a damaged agent and a flow that cannot
load, one has its flow in Markdown only and one in both forms. `mcp_session`: a run with
two conversations and two messages is the least in which a message can reach
the wrong conversation. The people of `shared_run`: two seconds separate "same
second" from "later second".

Counters that the code leaves unbounded are bounded by guards: `MaxLaunch`,
`MaxInline`, `MaxLines`, `MaxFrames`, `MaxTime`, `MaxComments`, `MaxTyped`,
`MaxAnswers`, `MaxEntries`, `MaxFaults`.

Deadlock is checked in `Router`. The other machines stop when there is nothing
left to do (all launches used up, all runs ended, the server gone, the child
reaped, the document read), and say `CHECK_DEADLOCK FALSE`; that a driver does not
stop on the way is `DriverEnds`.

### 3.2 Fairness

- `GraphRun`: a live process goes on, and its agents and commands end, as the
  code has no deadline for them. Nothing is asked of the operator
  (`DriverEnds`).
- `Router`: the tasks that the scheduler runs are fair, and an agent reads its
  stdin; that it answers is not assumed, since the idle timer ends the wait.
  `RouterEnds` and `CallAnswered` need the second assumption (see 3.4).
- `LinearRun`: a run whose step returns goes on (`RunsEnd`).
- `Executor`: reader and caller are polled, the shell ends what it writes. A
  background child that holds the pipe owes nothing, and `WaitReturns` excludes
  it by name: the code waits for it for ever.
- `McpServer`: dispatches that can go on are polled, runs are scheduled, a
  conversation ends (as `RouterEnds` says), and a run returns or fails, though no
  deadline sees to that (`local.rs:192`). The client may stop sending and keep
  stdin open, but it reads stdout: a dispatch waits at `server.rs:299` for as long
  as that pipe is full (`CallEnds`).

### 3.3 Findings

Six runs expect a violation; each quotes the sentence it refutes.

- `stale_context` (`PriorContextFresh`): an agent is handed the artifact of an
  earlier visit of the state the driver came from. `read_run_step_content`
  takes the first meta file in directory order that ends in the state's id.
- `stale_convergence` (`ConvergedOnLatest`): a conversation converges on a human
  message no agent had read. The results that count as the answer to it were
  given before, and were still on their way.
- `gate_skipped` (`TransitIsFirst`): a resumed driver passes a human state long
  after its first iteration, without a pause and without an answer. The flag that
  lets it through the state it paused at is cleared only where a human state is
  passed; if an edit of the flow has put an agent in that place, it stays armed.
- `role_order` (`ProjectAboveFlow`): the documentation and the module's own
  comment put the project's binding of a role above that of the flow file, the
  code the flow's above the project's. `CascadeHolds` leaves the order of the two
  open and asks for the rest of the cascade.
- `listing` (`EffectiveIsLoaded`): what `kuro context` and `list_flows` show as what
  the runner would load is not always that. Rules in subdirectories are told to
  agents and not shown, and a Markdown flow above a YAML flow of the same name is
  shown and not run. `ListedIsLoaded` is about all the rest.
- `same_second` (`SameSecondHeard`): a comment written after the pause in the
  same second is not heard. The comparison is `>=` on purpose, but GitHub has
  whole seconds and the pause does not.

### 3.4 Observations

Seen while modelling, in the models as the code has them, and not runs of
their own: no sentence of the repository denies most of them, and where one does,
the case is small or next to one that has a run.

*Graph runs.* Two resumes of one paused run: the slower one rewrites the
manifest of a completed run (`mod.rs:3803`–`3806`; `CompletedIsFinal` is
therefore stated for one process). A flow is not checked against its pause when
it is resumed (`mod.rs:3842`–`3857`); besides `gate_skipped`, an edit that makes the
paused state an agent keeps the answer of the resume back until a human state is
passed (`PriorRecorded`). An
inline answer is a file, not an entry of the manifest (`graph.rs:132`), and it
advances the step counter without a look at the budget (`graph.rs:473`). A meta
file torn by a crash makes later resumes that visit the state fail
(`stack.rs:401`); the comment at `stack.rs:443` says that the meta file is
written first, the content file is. `read_run` and `run_flow` report a paused
run as "done" (`stack.rs:411`).

*Conversations.* A broadcast waits for ever for an agent that does not read its
stdin, and no timer is armed meanwhile (`router.rs:495`). Ctrl-D ends the
forwarder but leaves a sender in the slot (`mod.rs:1048`). After a failed spawn
of a participant its accessor stays published (`mod.rs:1079`). A message that
was "delivered" is lost if the conversation ends before the router takes it. A
torn audit line merges with the next one, which counts, and the log cannot be
read; a whole line whose break failed does not count. An agent that writes a line
which is not UTF-8 is heard no more (`transport.rs:159`) and is sent what the others
say all the same: to the router its silence looks like an exit. What is on its way
when a conversation ends otherwise than by its agents' leaving is dropped.

*People.* What is typed after the blank line that ends an inline answer answers
the next prompt. A comment between the fetch of a resume and the next pause
answers neither. When the issue cannot be fetched, a resume takes the first
entry without a word. `--message ""` hides text piped into stdin.

*Configuration.* Overlays mutate an agent in place, so that a second step with the same agent sees them. Explicit
`seeds: [.kuro/]` in a legacy configuration come back swapped. `defaults.backend`
of the resolver never takes effect. Graph flows ignore the model and
backend of a role and unknown names in `--role`. A backend that cannot run
conversations or API calls is found after the run has started (`mod.rs:2791`).
The comment at `mod.rs:2970`–`2972` puts variables first "so a `{{roles.X}}`
placeholder cannot accidentally be produced by var expansion"; with that order a
role placeholder in the value of a variable is filled, and it would stay as it is
with the other. `FilledIn` says nothing of placeholders that values bring in. The
pre-flight of `kuro run` parses a flow without the project's roles
(`mod.rs:2847`) and any error there refuses the run, so a linear flow whose role only
the project binds is refused, though `config.rs:415`–`418` says that such a flow
need not redeclare the role and the inventory lists it.

*Listings.* A listing takes the seed order first and the extension second, a
run tries YAML in all seeds before Markdown (`context.rs:30`; `listing`). Flows are listed by the name in the file and run by the name of the
file, so a flow that calls itself otherwise is listed as one that cannot be run,
and two that call themselves the same shadow each other in the listing only
(`NamedForTheirFlow`). A broken agent in the higher seed is skipped by a listing
and fails a run, so no agent starts and `PartsListed` holds. `.yml` files are
listed and cannot be run by name. Rules in subdirectories are found by a run and
not listed (`listing`). A flow with an unbound role is listed as lacking just that,
whatever else keeps it from loading (`context.rs:626`; the comment at
`config.rs:489` has it told apart). The role of a human state is listed as unresolved,
although nothing ever looks it up. Graph flows get no skills, although
`load_agent` says that it shows the prompt of the runner; `HandedIsTold` leaves
them out.

*Scanners.* A line with a lone `*` after the heading of a state panics the
Markdown parser (`config_md.rs:345`). `### Next` straight after the metadata
becomes the body. A lone quote in a snippet hides the decision
(`decision.rs:65`). `### ` and `- ` in a fenced block split the findings of a
report. Prose between two bullets is kept with the finding before it, although the
comment of the parser says that noise between bullets is dropped
(`workflow.rs:533`–`535`); `ReportIsRead` says nothing of a section with such prose.
`output_for` takes the first record of a step that ran twice.

*Server.* `show_output` by flow name does not find the run of a graph flow
(`mod.rs:2181`). Runs of workflow tools are not registered, so `send_message`
calls them inactive. An error while reading stdin drops the dispatches in
flight.

*Executor.* A task that is waited for is already gone from the map: `status`
says `Completed`. An artifact that cannot be opened leaves the child running
(`local.rs:110`). A line that is not UTF-8 ends the reader (`local.rs:145`): what
follows is lost, an agent that goes on writing may die of the closed pipe, and one
that does not is reported as a success whose output is cut short. The comment at
`local.rs:216`–`218` has all output in the buffers before they are read. `WholeOutput`
asks for what came before that line.

## 4. Proofs

Eight modules hold theorems. All but `AcceptsRightly` are of the form `Spec => []P`,
`Spec => [][A]_vars` or a refinement, for every value of the constants that the
named assumptions of the module allow; TLC evaluates the assumptions in the runs.

| theorem | states | module | assumes |
|---|---|---|---|
| `TypeCorrect` | `[]TypeOK` | `GraphRunProofs`, `RouterProofs`, `LinearRunProofs`, `McpServerProofs`, `ExecutorProofs` | |
| `ContentBeforeMeta` | `[]MetaBacked` | `GraphRunProofs` | |
| `ContextOnDisk` | `[]PriorRecorded` | `GraphRunProofs` | |
| `DoneIsFinal` | `CompletedIsFinal` | `GraphRunProofs` | one process |
| `NumbersContinue` | `[]PausedNumbering` | `GraphRunProofs` | |
| `BudgetIsTheRuns` | `[]BudgetSpansResumes` | `GraphRunProofs` | |
| `NothingLeftOut` | `[]ManifestComplete` | `GraphRunProofs` | |
| `ListedIsOnDisk` | `[]ManifestBacked` | `GraphRunProofs` | one process |
| `ManifestsAreWalks` | `[]ManifestIsWalk` | `GraphRunProofs` | |
| `WalkIsImplemented` | `GraphRun` implements `RunWalk` | `GraphRunProofs` | one process |
| `CapIsHard`, `LastWords` | `[]TurnsCapped`, `[]LastWordsHeard` | `RouterProofs` | |
| `BroadcastInOrder` | `[]OfferedInOrder` | `RouterProofs` | |
| `RefinesDiscourse` | `Router` implements `Discourse` | `RouterProofs` | |
| `OrderKept` | every accepted flow is run in a topological order | `LinearRunProofs` | |
| `ManifestsComplete`, `InputsThere`, `RunsDoNotMeet` | `[]ManifestComplete`, `[]NeverStarved`, `[]RunsApart` | `LinearRunProofs` | |
| `KeepsSchedule` | `LinearRun` implements `Schedule` | `LinearRunProofs` | |
| `AcceptsRightly` | `validate_dag` accepts exactly the flows without unknown references and cycles, and its order is topological | `LinearRunProofs` | the flow is one the parser returns |
| `OrderRight` | `[]OrderIsRight`: that, and that a refusal names a missing step or a cycle that is one | `LinearRunProofs` | |
| `NoRunLeft`, `DeliveredOnce`, `OneResponseEach` | `[]NoRunCutOff`, `[]LineKeepsItsTalk`, `[]OneResponse` | `McpServerProofs` | |
| `ReportsRead` | `[]ReportIsRead` | `McpServerProofs` | `RecordsAssumption`: records are sequences of lines |
| `SlotsExact` | the registry holds exactly the runs a call waits for | `McpServerProofs` | |
| `OneTakerHolds`, `LinesStayWhole` | `[]OneTaker`, `[]LinesWhole` | `ExecutorProofs` | |
| `OutputIsWhole` | `[]WholeOutput` | `ExecutorProofs` | |
| `LastBlockWins` | `[]LastObjectWins` | `ExecutorProofs` | |
| `LogTells` | `[]AuditTells` | `HandoffProofs` | |
| `NothingHeardTwice`, `CommentsComplete` | `[]HeardOnce`, `[]AnswersComplete` | `HandoffProofs` | |
| `SetupInvariant` | `[]SetupInv`: what every stage leaves to the next | `SetupProofs` | `WorldAssumption`: a world is files and a command line |
| `CascadeIsRun`, `AuditHolds` | `[]CascadeHolds`, `[]AuditIsTrue` | `SetupProofs` | `WorldAssumption` |
| `PersonaHolds`, `PlaceholdersFilled` | `[]PersonaWhole`, `[]FilledIn` | `SetupProofs` | `WorldAssumption` |
| `ListingHolds`, `HandingHolds` | `[]ListedIsLoaded`, `[]HandedIsTold` | `SetupProofs` | `WorldAssumption` |

None of them assumes anything of how a flow file is edited between a pause and a
resume: states may be gone, have other edges or be of another kind.

### 4.1 The arguments

*GraphRun.* `TypeInv` is the type invariant with the relation between `pc`, the
kind of the current state and the record being written. `BackedInv` adds that a
process between the two writes of a step has its content file on disk, which is
why a crash between them leaves no orphan meta file. `ThreadInv` follows
`prior` through a resume and an inline answer to the record under the counter, and
the answer of a resume that waits behind an armed flag (`AnswerWaits`) to the
record of the last prior step.
`CountInv` says of what a process *would* list, `base \o done`, what
`PausedNumbering` and `BudgetSpansResumes` say of a manifest: numbered from
one, as many as the counter, no more work than the budget. It has to be about
the process because a manifest is only what some process listed last. `KeptIInv`
adds that no process writes under a number the manifest has, which is what
overwriting comes to, and needs a single process; `ListIInv` that every
record of a launch is in its list, which does not. Crashes are in all of them.

`LedInv` says of that same list that each entry leads to the next, and the last
to the state the driver is at. "Leads to" passes through human states that left
no entry, any number of them, so it is a closure; stated as membership in every
set that is closed under the first edges of human states, it needs no recursion,
and a step of the driver through a human state preserves it by definition. The
answer of a resume counts as a step of a human state even where an edit has
given that state another kind (`Edited`, `HeadLed`).

`WalkIsImplemented` maps a run to the one process that works on it (`Walker`), or
to its manifest when none does. A visit moves the walk when its meta file is
written and truncating the manifest is `Forget`, so that a crash is `FallBack`, or
`Lose` when nothing is kept. `WalkAt` and `Inside` relate what the process
has in memory to what the mapping shows: the trail is `base \o done`, the
consent is the armed pass, the prompt or the answer that is being written.
There is one lemma for each action, saying which step of the walk it is.

*Router.* `HoldInv`, `TurnInv` and `ReaderInv`: a reader waits with an event in
its hand only while it sends, the turn count is the number of agents' utterances in the
log and stays below the cap while another may come, and a reader stops only after its agent left with
nothing unsaid, or on cancellation. `TallyInv` counts: while the loop runs, every
fragment of an agent is in one place, its transport, its reader's hands, the event
channel or the log, so that when all readers have stopped and the channel is empty
all of them are in the log (`LastWordsHeard`). `OfferedInOrder` compares what the log says to
others with what it offers to an agent, plus what the current broadcast still
has to deliver: inductive once no agent is twice in `todo` (`OfferInv`).
`TalkInv` relates `turns` and `last`, which the router keeps, to the utterances of the log,
from which `Discourse` computes whether the talk has settled: `last` of an agent is
the last thing it said since the last human message (`Opens`, `Remembers`).
`TurnsCapped` is part of what `DiscourseRefined` says, so no run checks it by itself.

*LinearRun.* `DagInv` (`dag` is the answer of `validate_dag`, so that
`AcceptsRightly` speaks of it) and `PlaceInv` (the results of a run are the first steps of
the order); `FilesInv` (what a directory has for every run that works in it);
`ApartInv` (a directory belongs to one run, outside `twins`). `twins` is a
history variable: no guard reads it.

*Dag.* The loop is a recursive function on the number of rounds, so the
invariant `KahnInv` is proved of every round by taking the least round at
which it would fail. It says that a step's degree is the number of
its entries still waiting, that order and queue have no repetitions and are
disjoint, and that a step is in one of them exactly if all it needs is ordered.
Acceptance then means that all are ordered, and refusal that the rest,
each needing another of the rest, is a knot.

The search for the cycle is a recursive function on a number of rounds too, and
what has to be shown is that the number suffices. `Work` counts the roots
tried, the steps entered, the steps left and the entries looked at; every round
that is not the last makes it grow (`SearchStep`), and it cannot exceed the bound of
`FindCycle`. So the search ends over (`Over`) or with a cycle. `SearchInv` says that the
path is a chain of needs and that what a finished step needs is finished
(`Settled`); a search that is over without a cycle has finished every step, and then
nothing is a knot. The refusal came from one, so a cycle is found, and it is
a part of the path that leads back to its beginning.

*McpServer.* `WaitInv` (who waits has a run, who has left has none),
`LineInv` (where a delivered line is), `ReplyInv` (which answers stdout
has). A dispatch that was dropped exists only in an aborted server.
`RecordInv` says that an answer with a result belongs to a run that has written its
records. The rest of `ReportIsRead` is about the parser alone: `ReadTo` is what its
loop has before a line, the findings of the bullets that are closed (`Listed`, each
at its rank) and the lines of the open one; `Closed` shows what trimming an
open bullet adds, `SectionIs` that a section is an interval of lines, and the loop
keeps `ReadTo` up to the least line at which it would not.

*Executor, Transport, AuditLog.* `Taken` (whoever removed the map's entry is
the only one past that point), `WireInv` and `HeardInv` (on the wire stand two
pieces for each send that answered Ok, and one more only while a send is going on
or after the agent's end; what was received and what waits in the channel is what
was parsed, and an ended parser has parsed all there was or all before the first
line it could not read), `InFile` and `Counted` (each piece in the file is of an
entry and a round; a count is a line). `OutputInv` is `WholeOutput` for the lines
taken so far: buffer, override and file are those that the first `taken` lines
make, up to the write in hand.

*DecisionParser.* A reply that ends in a decision splits at some byte (`Splits`).
For every such split, `Tracks` says where the scan must be: in the prose before it `depth`
is the number of braces open, because balanced prose without quotes never
enters a string; in the decision `start` is its first byte and the string
state is given by the position alone, which is where the three kinds of reason
matter; behind it nothing opens again, so the decision is the last block, and the
last block that decodes is the one taken.

*Handoff.* `HandoffInv` keeps, with `answers`, from when each was: comments of an
answer are of the time from its pause to its fetch, the next pause is later
than the fetch, so no comment is in two (`FromIssue`, `Until`); lines of an
answer lie below those still in the keyboard (`FromTerminal`). That a fetch is
sorted and complete is a fact about its filters and its sort by second, proved from
what `FlattenSeq` computes (`SequenceLemmas`).

*Setup.* The state of a setup is its whole history, in `plan`, so the invariant
is about what one stage leaves to another. `Found` has one predicate per stage,
`Located`, `Parsed`, `Cascaded`, `Substituted`, `Loaded`, `Layered`, `Audited`,
`BoundSteps` and `LinearStarted` for a linear flow, five for a graph, two for
`kuro task` and `kuro chat`; each keeps of the one before what a later stage or a
property needs: where the flow was found (`NamedIn`), that it was readable
without the project's roles (`Readable`), that every state of an agent has one
(`Employed`), from which seeds the guide, the rules and the skills come
(`Gathers`), which placeholders are left and who brought them (`Brings`). `CallIs`
ties a call to the step and the agent of the plan that it starts. There is one
lemma per stage, and `SetupStep` puts them together.

The properties then follow from the last predicate alone, by lemmas about the
operators. `Does` and `Working` say what the command line of each kind of call
amounts to for a given system prompt, whatever the backend does with it (a flag, a
preamble, one text or two: `Voiced`). A cascade is a nested choice of the first layer that
says something, and is compared with the topmost of a sequence of layers.
Placeholders: substitution replaces text by text, so what is left after a pass is
what the pass does not know and what its values bring in, and the three passes
compose. Listings: `EffectiveIs` says that the walk's winner is the
first seed that has the name, which is also what `Find` returns to the runner;
for flows the two orders differ, and `NamedIsListedHolds` takes the least seed that
lists the name and the seed the run found it in, and shows them equal or the
one Markdown and the other YAML.

`ListedIsLoaded` is the conjunction of `PartsListed` (agents and rules) and
`NamedIsListed` (flows), proved apart. The proof brought hypotheses into the open
that they now state: `NamedIsListed` speaks of flows whose files carry their names,
in every seed, and of the roles of states that somebody works in; `PartsListed` of
rules that the walk comes across. What they leave out is in 3.4. `IsCommand` says
that a chat has one agent, as the command line demands.

### 4.2 Only model-checked

Liveness (`DriverEnds`, `RouterEnds`, `CallAnswered`, `RunsEnd`, `WaitReturns`,
`CallEnds`) is out of the prover's reach. Among the invariants only
`ReadAsWritten` is left to TLC: it compares the scanner of Markdown flows, one
line at a time, with a definition by the positions of headings, rules and
arrows in the whole document, and what links them is an induction over the lines
with a case for each pair of phase and kind of line; the run has every document
of up to nine lines, enough to reach every phase. `FlattenSeq` is used for
filters where a proof needs them, because the prover has the definition of it and
not that of `SelectSeq`.

## 5. What is left

Worth adding: a proof of `ReadAsWritten`, with the document as its invariant, as
for `ReportIsRead`; the issue banner; conversations of three agents with unequal
speed.

Not modelled:

- `ui.rs`, banners, the wording of errors and logs: no state.
- `kuro init`: it writes templates once.
- YAML and JSON syntax, the wire format of MCP and of model providers, HTTP.
- The validator's warnings and its walk to unreachable states (`run_validate`):
  they change nothing that a driver does.
- The issue banner and the layout of posts and transcripts.
- The listing of runs and the legacy root of the stack: read only.
- The second resolution of roles by `execute_graph_flow_resume_setup`, which
  repeats that of the first launch from the files of the moment.
- Installation of skills (`kuro pull`).
