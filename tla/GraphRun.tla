------------------------------ MODULE GraphRun ------------------------------
(***************************************************************************)
(* One run of a graph flow: its run directory, the kuro processes that     *)
(* drive it, and the operator who starts, answers and resumes it.          *)
(*                                                                         *)
(* A process executes run_graph_flow in memory and leaves two kinds of     *)
(* traces on disk: a content file and a meta file for every step it        *)
(* completes, and one manifest.yaml when it reaches a final state or       *)
(* pauses at a human state. A later `kuro resume` starts from the paused   *)
(* manifest alone. A process may die between any two steps.                *)
(***************************************************************************)
EXTENDS GraphFlow, FiniteSets

CONSTANTS
  Procs,      \* kuro processes that may work on the run directory
  StateId,    \* every state id some version of the flow declares
  Flows,      \* the versions of the flow file that may be on disk
  Policies,   \* human-handoff policies of fresh runs: "pause", "inline"
  MaxSteps,   \* DEFAULT_MAX_STEPS
  MaxVisits,  \* DEFAULT_MAX_VISITS_PER_STATE
  MaxLaunch,  \* bound: processes started on this run, over its life
  MaxInline,  \* bound: step number up to which the operator types a body
  NoState     \* Option::None where a state id is expected

ASSUME FlowAssumption ==
  \A f \in Flows :
    /\ DOMAIN f = {"initial", "kind", "next"}
    /\ Declared(f) \subseteq StateId
    /\ DOMAIN f.next = Declared(f)
    /\ f.kind \in [Declared(f) -> StateKinds]
    /\ f.next \in [Declared(f) -> Seq([to : Declared(f), reason : STRING])]
    /\ ValidFlow(f)

ASSUME BoundAssumption ==
  /\ MaxSteps \in Nat /\ MaxVisits \in Nat
  /\ MaxLaunch \in Nat /\ MaxInline \in Nat
  /\ Policies \subseteq {"pause", "inline"}
  /\ NoState \notin StateId

VARIABLES
  \* the run directory
  content,   \* steps/NN-id.md and .txt: {[num, id, by, full]}
  meta,      \* steps/NN-id.meta.yaml: step records
  manifest,  \* manifest.yaml
  launches,  \* processes started so far; 0 = the directory does not exist
  \* each process
  pc, flow, policy, life,        \* where it is, and what it was started with
  at, num, visits, skip, hin, prior,  \* the driver's loop variables
  base, done,                    \* prior_steps of a resume, and results
  pend, ctx                      \* the record being written, the artifact read

diskVars   == <<content, meta, manifest>>
launchVars == <<launches, flow, policy, life>>
loopVars   == <<at, num, visits, skip, hin, prior>>
stepVars   == <<base, done>>
vars == <<diskVars, launchVars, pc, loopVars, stepVars, pend, ctx>>

OptState == StateId \cup {NoState}

StepRecords ==
  [num : Nat, id : StateId, kind : {"graph", "shell", "human", "torn"},
   by : 1..MaxLaunch, input : OptState, to : OptState]

NoRecord == [num |-> 0, id |-> NoState, kind |-> "none",
             by |-> 0, input |-> NoState, to |-> NoState]

NoContext == [num |-> 0, by |-> 0]

NoManifest == [status |-> "none", steps |-> <<>>, at |-> NoState]

Torn == [status |-> "torn", steps |-> <<>>, at |-> NoState]

NoFlow == [initial |-> NoState, kind |-> <<>>, next |-> <<>>]

Unvisited == [s \in StateId |-> 0]

\* Opening a step file for writing replaces a file of the same name.
Put(files, r) ==
  {x \in files : ~(x.num = r.num /\ x.id = r.id)} \cup {r}

File(r, full) == [num |-> r.num, id |-> r.id, by |-> r.by, full |-> full]

\* What read_run_step_content may return for a step id: it takes the first
\* matching meta file in directory order, whatever its step number.
Candidates(id) == {m \in meta : m.id = id}

ContentAt(m) == {c \in content : c.num = m.num /\ c.id = m.id}

-----------------------------------------------------------------------------
(* Processes that end, and processes that start.                            *)

\* The in-memory state of a process is gone when it returns or dies.
Vanish(p) ==
  /\ pc'     = [pc EXCEPT ![p] = "idle"]
  /\ flow'   = [flow EXCEPT ![p] = NoFlow]
  /\ policy' = [policy EXCEPT ![p] = "pause"]
  /\ life'   = [life EXCEPT ![p] = 0]
  /\ at'     = [at EXCEPT ![p] = NoState]
  /\ num'    = [num EXCEPT ![p] = 0]
  /\ visits' = [visits EXCEPT ![p] = Unvisited]
  /\ skip'   = [skip EXCEPT ![p] = FALSE]
  /\ hin'    = [hin EXCEPT ![p] = NoState]
  /\ prior'  = [prior EXCEPT ![p] = NoState]
  /\ base'   = [base EXCEPT ![p] = <<>>]
  /\ done'   = [done EXCEPT ![p] = <<>>]
  /\ pend'   = [pend EXCEPT ![p] = NoRecord]
  /\ ctx'    = [ctx EXCEPT ![p] = NoContext]
  /\ UNCHANGED launches

\* An Err return: nothing is written on the way out.
Fail(p) == Vanish(p) /\ UNCHANGED diskVars

\* kuro run: a directory of its own, no manifest, the driver at `initial`.
Start(p) ==
  /\ pc[p] = "idle" /\ launches = 0 /\ launches < MaxLaunch
  /\ launches' = 1
  /\ life' = [life EXCEPT ![p] = 1]
  /\ \E f \in Flows, hh \in Policies :
       /\ NoDeadEnds(f)
       /\ flow'   = [flow EXCEPT ![p] = f]
       /\ policy' = [policy EXCEPT ![p] = hh]
       /\ at'     = [at EXCEPT ![p] = f.initial]
  /\ pc' = [pc EXCEPT ![p] = "spawned"]
  /\ UNCHANGED <<diskVars, num, visits, skip, hin, prior, stepVars, pend, ctx>>

\* The synthetic step of a resume: numbered after the manifest's steps and
\* named after the paused state.
HumanRecord(n, id, by) ==
  [num |-> n, id |-> id, kind |-> "human", by |-> by,
   input |-> NoState, to |-> NoState]

\* Mutant: the status check of a resume only rejects a missing manifest.
ResumeAny(p) ==
  /\ pc[p] = "idle" /\ launches > 0 /\ launches < MaxLaunch
  /\ manifest.status \in {"paused", "done"}
  /\ launches' = launches + 1
  /\ life'   = [life EXCEPT ![p] = launches + 1]
  /\ \E f \in Flows : flow' = [flow EXCEPT ![p] = f]
  /\ at'   = [at EXCEPT ![p] = manifest.at]
  /\ base' = [base EXCEPT ![p] = manifest.steps]
  /\ skip' = [skip EXCEPT ![p] = TRUE]
  /\ pc'   = [pc EXCEPT ![p] = "spawned"]
  /\ UNCHANGED <<diskVars, policy, num, visits, hin, prior, done, pend, ctx>>

\* kuro resume: reads the manifest, loads whatever the flow file holds now,
\* and writes the operator's input as a step before the driver is spawned.
\* Without input (only a run tied to an issue may resume so) nothing is
\* written. Every other answer is a refusal that leaves the run as it was.
Resume(p) ==
  /\ pc[p] = "idle" /\ launches > 0 /\ launches < MaxLaunch
  /\ manifest.status = "paused"
  /\ launches' = launches + 1
  /\ life'   = [life EXCEPT ![p] = launches + 1]
  /\ policy' = [policy EXCEPT ![p] = "pause"]
  /\ \E f \in Flows : flow' = [flow EXCEPT ![p] = f]
  /\ at'   = [at EXCEPT ![p] = manifest.at]
  /\ base' = [base EXCEPT ![p] = manifest.steps]
  /\ skip' = [skip EXCEPT ![p] = TRUE]
  /\ \/ /\ pend' = [pend EXCEPT ![p] =
              HumanRecord(Len(manifest.steps) + 1, manifest.at, launches + 1)]
        /\ pc'   = [pc EXCEPT ![p] = "content"]
     \/ /\ pc'   = [pc EXCEPT ![p] = "spawned"]
        /\ UNCHANGED pend
  /\ UNCHANGED <<diskVars, num, visits, hin, prior, done, ctx>>

\* The spawned task: cancelled before it begins (or unable to create the
\* layout of its directory), or the driver's prologue.
Cancel(p) == pc[p] = "spawned" /\ Fail(p)

\* Mutants: the step counter of a resume starts at 0, or one too low.
DriveFrom(p, n) ==
  /\ pc[p] = "spawned"
  /\ num' = [num EXCEPT ![p] = n]
  /\ pc'  = [pc EXCEPT ![p] = "loop"]
  /\ UNCHANGED <<diskVars, launchVars, at, visits, skip, hin, prior,
                 stepVars, pend, ctx>>

DriveUnseeded(p) == DriveFrom(p, 0)

DriveShort(p) == DriveFrom(p, Len(base[p]) - 1)

Drive(p) ==
  /\ pc[p] = "spawned"
  /\ num' = [num EXCEPT ![p] = Len(base[p])]
  /\ pc'  = [pc EXCEPT ![p] = "loop"]
  /\ UNCHANGED <<diskVars, launchVars, at, visits, skip, hin, prior,
                 stepVars, pend, ctx>>

\* Killed, panicked, out of power or unable to write, at any point of its
\* life. A file that was being written may be left truncated.
Crash(p) ==
  /\ pc[p] # "idle"
  /\ Vanish(p)
  /\ \/ UNCHANGED <<content, meta>>
     \/ /\ pc[p] = "content"
        /\ content' = Put(content, File(pend[p], FALSE))
        /\ UNCHANGED meta
     \/ /\ pc[p] = "meta"
        /\ meta' = Put(meta, [pend[p] EXCEPT !.kind = "torn"])
        /\ UNCHANGED content
  /\ UNCHANGED manifest

-----------------------------------------------------------------------------
(* The head of the driver's loop.                                           *)

Kind(p) == flow[p].kind[at[p]]

Known(p) == at[p] \in Declared(flow[p])

AtHead(p, kinds) == pc[p] = "loop" /\ Known(p) /\ Kind(p) \in kinds

\* What the next visit of an agent or shell state would count up to.
OverBudget(p) == num[p] + 1 > MaxSteps \/ visits[p][at[p]] + 1 > MaxVisits

\* The lookup finds nothing, or a meta file it cannot parse.
ContextUnreadable(p) ==
  /\ prior[p] # NoState
  /\ \/ Candidates(prior[p]) = {}
     \/ \E m \in Candidates(prior[p]) : m.kind = "torn"

\* The driver's own errors at the head of the loop. (A human state without
\* entries pauses; it is the resume or the inline prompt that needs one.)
Stuck(p) ==
  \/ ~Known(p)
  \/ Kind(p) \in {"agent", "shell"} /\ (~HasNext(flow[p], at[p]) \/ OverBudget(p))
  \/ Kind(p) = "human" /\ ~HasNext(flow[p], at[p])
       /\ (skip[p] \/ policy[p] = "inline")

GiveUp(p) ==
  /\ pc[p] = "loop"
  /\ \/ Stuck(p)
     \/ AtHead(p, {"agent"}) /\ ContextUnreadable(p)
  /\ Fail(p)

\* A final state, or a human state under the pause policy: the outcome goes
\* to the manifest.
Conclude(p) ==
  /\ \/ AtHead(p, {"final"})
     \/ AtHead(p, {"human"}) /\ ~skip[p] /\ policy[p] = "pause"
  /\ pc' = [pc EXCEPT ![p] = "manifest"]
  /\ UNCHANGED <<diskVars, launchVars, loopVars, stepVars, pend, ctx>>

\* skip_pause_once: a resumed driver walks through the first human state.
PassThrough(p) ==
  /\ AtHead(p, {"human"}) /\ skip[p] /\ ~Stuck(p)
  /\ skip'  = [skip EXCEPT ![p] = FALSE]
  /\ prior' = [prior EXCEPT ![p] = hin[p]]
  /\ hin'   = [hin EXCEPT ![p] = NoState]
  /\ at'    = [at EXCEPT ![p] = FirstNext(flow[p], at[p])]
  /\ UNCHANGED <<diskVars, launchVars, pc, num, visits, stepVars, pend, ctx>>

OpenPrompt(p) ==
  /\ AtHead(p, {"human"}) /\ ~skip[p] /\ policy[p] = "inline" /\ ~Stuck(p)
  /\ pc' = [pc EXCEPT ![p] = "prompt"]
  /\ UNCHANGED <<diskVars, launchVars, loopVars, stepVars, pend, ctx>>

\* An agent or shell state is entered: the budgets are charged, an agent is
\* handed an artifact of the state the driver came from, and the executor
\* truncates the step's content file before it streams into it.
Visit(p) ==
  LET s == at[p]
      r == [num |-> num[p] + 1, id |-> s, by |-> life[p]]
  IN
  /\ AtHead(p, {"agent", "shell"}) /\ ~Stuck(p)
  /\ num'    = [num EXCEPT ![p] = @ + 1]
  /\ visits' = [visits EXCEPT ![p][s] = @ + 1]
  /\ IF Kind(p) = "agent" /\ prior[p] # NoState
     THEN \E m \in Candidates(prior[p]) : \E c \in ContentAt(m) :
            m.kind # "torn" /\
            ctx' = [ctx EXCEPT ![p] = [num |-> c.num, by |-> c.by]]
     ELSE ctx' = [ctx EXCEPT ![p] = NoContext]
  /\ content' = Put(content, File(r, FALSE))
  /\ pc' = [pc EXCEPT ![p] = Kind(p)]
  /\ UNCHANGED <<meta, manifest, launchVars, at, skip, hin, prior, stepVars, pend>>

-----------------------------------------------------------------------------
(* Work: an agent's reply, a shell command's exit code, an operator's body.  *)

Record(p, kind, input, to) ==
  [num |-> num[p], id |-> at[p], kind |-> kind, by |-> life[p],
   input |-> input, to |-> to]

Persist(p, r) ==
  /\ pend' = [pend EXCEPT ![p] = r]
  /\ pc'   = [pc EXCEPT ![p] = "content"]
  /\ ctx'  = [ctx EXCEPT ![p] = NoContext]
  /\ UNCHANGED <<diskVars, launchVars, loopVars, stepVars>>

\* Mutant: the reply's target is not validated against the menu.
DecideFreely(p) ==
  /\ pc[p] \in {"agent", "retry"}
  /\ \E t \in Declared(flow[p]) :
        Persist(p, Record(p, "graph", prior[p], t))

\* The reply parses and names one of the offered targets.
Decide(p) ==
  /\ pc[p] \in {"agent", "retry"}
  /\ \E t \in Targets(flow[p], at[p]) :
        Persist(p, Record(p, "graph", prior[p], t))

\* Mutant: every malformed reply earns another attempt.
AskForever(p) ==
  /\ pc[p] \in {"agent", "retry"}
  /\ pc' = [pc EXCEPT ![p] = IF pc[p] = "agent" THEN "retry" ELSE "agent"]
  /\ UNCHANGED <<diskVars, launchVars, loopVars, stepVars, pend, ctx>>

\* Malformed, or an unknown target: one more attempt with a note.
AskAgain(p) ==
  /\ pc[p] = "agent"
  /\ pc' = [pc EXCEPT ![p] = "retry"]
  /\ UNCHANGED <<diskVars, launchVars, loopVars, stepVars, pend, ctx>>

\* Malformed twice, or the executor failed.
AgentFails(p) == pc[p] \in {"agent", "retry"} /\ Fail(p)

\* The exit code picks the entry before the step is persisted.
ShellExits(p) ==
  /\ pc[p] = "shell"
  /\ \E word \in {"pass", "fail"} :
        Persist(p, Record(p, "shell", NoState, RoutedTo(flow[p], at[p], word)))

ShellFails(p) == pc[p] = "shell" /\ Fail(p)

\* The inline prompt: a body becomes a step numbered after the current one.
\* An I/O error of the prompt is an error of the run.
PromptBody(p) ==
  /\ pc[p] = "prompt" /\ num[p] < MaxInline
  /\ Persist(p, HumanRecord(num[p] + 1, at[p], life[p]))

\* An empty body writes nothing and drops the context.
PromptEmpty(p) ==
  /\ pc[p] = "prompt"
  /\ prior' = [prior EXCEPT ![p] = NoState]
  /\ at'    = [at EXCEPT ![p] = FirstNext(flow[p], at[p])]
  /\ pc'    = [pc EXCEPT ![p] = "loop"]
  /\ UNCHANGED <<diskVars, launchVars, num, visits, skip, hin, stepVars, pend, ctx>>

PromptFails(p) == pc[p] = "prompt" /\ Fail(p)

-----------------------------------------------------------------------------
(* Writing a step: the content file, then the meta file, then the driver's   *)
(* own bookkeeping.                                                          *)

\* Mutant: the meta file is written first.
WriteMetaFirst(p) ==
  /\ pc[p] = "content"
  /\ meta' = Put(meta, pend[p])
  /\ pc' = [pc EXCEPT ![p] = "meta"]
  /\ UNCHANGED <<content, manifest, launchVars, loopVars, stepVars, pend, ctx>>

WriteContent(p) ==
  /\ pc[p] = "content"
  /\ content' = Put(content, File(pend[p], TRUE))
  /\ pc' = [pc EXCEPT ![p] = "meta"]
  /\ UNCHANGED <<meta, manifest, launchVars, loopVars, stepVars, pend, ctx>>

\* The step of an agent or a shell command joins the results and the driver
\* follows its edge.
FollowEdge(p) ==
  /\ done'  = [done EXCEPT ![p] = Append(@, pend[p])]
  /\ prior' = [prior EXCEPT ![p] = at[p]]
  /\ at'    = [at EXCEPT ![p] = pend[p].to]
  /\ pc'    = [pc EXCEPT ![p] = "loop"]
  /\ UNCHANGED <<base, num, visits, skip, hin>>

\* Mutant: the synthetic step is written but not added to prior_steps.
JoinNothing(p) ==
  /\ hin' = [hin EXCEPT ![p] = at[p]]
  /\ pc'  = [pc EXCEPT ![p] = "spawned"]
  /\ UNCHANGED <<stepVars, at, num, visits, skip, prior>>

\* A resume's synthetic step joins prior_steps.
JoinPrior(p) ==
  /\ base' = [base EXCEPT ![p] = Append(@, pend[p])]
  /\ hin'  = [hin EXCEPT ![p] = at[p]]
  /\ pc'   = [pc EXCEPT ![p] = "spawned"]
  /\ UNCHANGED <<done, at, num, visits, skip, prior>>

\* Mutant: the inline step does not move the counter.
LeaveUncounted(p) ==
  /\ prior' = [prior EXCEPT ![p] = at[p]]
  /\ at'    = [at EXCEPT ![p] = FirstNext(flow[p], at[p])]
  /\ pc'    = [pc EXCEPT ![p] = "loop"]
  /\ UNCHANGED <<stepVars, num, visits, skip, hin>>

\* The inline step moves the counter and the context, not the results.
LeaveInline(p) ==
  /\ num'   = [num EXCEPT ![p] = @ + 1]
  /\ prior' = [prior EXCEPT ![p] = at[p]]
  /\ at'    = [at EXCEPT ![p] = FirstNext(flow[p], at[p])]
  /\ pc'    = [pc EXCEPT ![p] = "loop"]
  /\ UNCHANGED <<stepVars, visits, skip, hin>>

WriteMeta(p) ==
  /\ pc[p] = "meta"
  /\ meta' = Put(meta, pend[p])
  /\ \/ pend[p].kind # "human" /\ FollowEdge(p)
     \/ pend[p].kind = "human" /\ skip[p] /\ JoinPrior(p)
     \/ pend[p].kind = "human" /\ ~skip[p] /\ LeaveInline(p)
  /\ pend' = [pend EXCEPT ![p] = NoRecord]
  /\ UNCHANGED <<content, manifest, launchVars, ctx>>

-----------------------------------------------------------------------------
(* The manifest: truncated, then written; the process returns.               *)

TruncateManifest(p) ==
  /\ pc[p] = "manifest"
  /\ manifest' = Torn
  /\ pc' = [pc EXCEPT ![p] = "flush"]
  /\ UNCHANGED <<content, meta, launchVars, loopVars, stepVars, pend, ctx>>

\* Mutants: the manifest lists this launch's steps only, or puts them first.
FlushSteps(p, steps) ==
  /\ pc[p] = "flush"
  /\ manifest' = [status |-> IF Kind(p) = "final" THEN "done" ELSE "paused",
                  steps  |-> steps, at |-> at[p]]
  /\ Vanish(p)
  /\ UNCHANGED <<content, meta>>

FlushResults(p) == FlushSteps(p, done[p])

FlushSwapped(p) == FlushSteps(p, done[p] \o base[p])

FlushManifest(p) ==
  /\ pc[p] = "flush"
  /\ manifest' = [status |-> IF Kind(p) = "final" THEN "done" ELSE "paused",
                  steps  |-> base[p] \o done[p],
                  at     |-> at[p]]
  /\ Vanish(p)
  /\ UNCHANGED <<content, meta>>

-----------------------------------------------------------------------------

Init ==
  /\ content = {} /\ meta = {} /\ manifest = NoManifest /\ launches = 0
  /\ pc     = [p \in Procs |-> "idle"]
  /\ flow   = [p \in Procs |-> NoFlow]
  /\ policy = [p \in Procs |-> "pause"]
  /\ life   = [p \in Procs |-> 0]
  /\ at     = [p \in Procs |-> NoState]
  /\ num    = [p \in Procs |-> 0]
  /\ visits = [p \in Procs |-> Unvisited]
  /\ skip   = [p \in Procs |-> FALSE]
  /\ hin    = [p \in Procs |-> NoState]
  /\ prior  = [p \in Procs |-> NoState]
  /\ base   = [p \in Procs |-> <<>>]
  /\ done   = [p \in Procs |-> <<>>]
  /\ pend   = [p \in Procs |-> NoRecord]
  /\ ctx    = [p \in Procs |-> NoContext]

\* What a live process does next by itself, its agents and commands included.
Work(p) ==
  \/ Drive(p) \/ GiveUp(p) \/ Conclude(p) \/ PassThrough(p) \/ OpenPrompt(p) \/ Visit(p)
  \/ Decide(p) \/ AskAgain(p) \/ AgentFails(p) \/ ShellExits(p) \/ ShellFails(p)
  \/ WriteContent(p) \/ WriteMeta(p) \/ TruncateManifest(p) \/ FlushManifest(p)

\* What its operator and its environment do to it.
Prompted(p) == PromptBody(p) \/ PromptEmpty(p) \/ PromptFails(p)

Next ==
  \E p \in Procs :
    \/ Start(p) \/ Resume(p) \/ Cancel(p) \/ Crash(p)
    \/ Work(p) \/ Prompted(p)

\* Nobody works on the run any more and nobody will: the model is at rest.
AtRest ==
  /\ \A p \in Procs : pc[p] = "idle"
  /\ launches = MaxLaunch \/ (launches > 0 /\ manifest.status # "paused")
  /\ UNCHANGED vars

Spec == Init /\ [][Next \/ AtRest]_vars

\* A live process keeps running, its agents reply or fail and its commands
\* end: the executor waits for both without a deadline. Nothing is assumed of
\* the operator, who may leave a prompt or a paused run alone for ever.
Fairness == \A p \in Procs : WF_vars(Work(p))

FairSpec == Spec /\ Fairness

-----------------------------------------------------------------------------
(* Properties.                                                              *)

ControlPoints ==
  {"idle", "spawned", "loop", "agent", "retry", "shell", "prompt",
   "content", "meta", "manifest", "flush"}

ContentFiles == [num : Nat, id : StateId, by : 1..MaxLaunch, full : BOOLEAN]

DiskTypeOK ==
  /\ content \in SUBSET ContentFiles
  /\ meta \in SUBSET StepRecords
  /\ manifest \in [status : {"none", "torn", "paused", "done"},
                   steps : Seq(StepRecords), at : OptState]
  /\ launches \in 0..MaxLaunch

ProcTypeOK ==
  /\ pc     \in [Procs -> ControlPoints]
  /\ flow   \in [Procs -> Flows \cup {NoFlow}]
  /\ policy \in [Procs -> {"pause", "inline"}]
  /\ life   \in [Procs -> 0..MaxLaunch]

LoopTypeOK ==
  /\ at     \in [Procs -> OptState]
  /\ num    \in [Procs -> Nat]
  /\ visits \in [Procs -> [StateId -> Nat]]
  /\ skip   \in [Procs -> BOOLEAN]
  /\ hin    \in [Procs -> OptState]
  /\ prior  \in [Procs -> OptState]

StepTypeOK ==
  /\ base \in [Procs -> Seq(StepRecords)]
  /\ done \in [Procs -> Seq(StepRecords)]
  /\ pend \in [Procs -> StepRecords \cup {NoRecord}]
  /\ ctx  \in [Procs -> [num : Nat, by : 0..MaxLaunch]]

\* Every variable has its type.
TypeOK == DiskTypeOK /\ ProcTypeOK /\ LoopTypeOK /\ StepTypeOK

\* The version of the flow a process was started with gives a state that was
\* paused at to an agent, a shell command or the end.
Regated(p, s) == s \in Declared(flow[p]) /\ flow[p].kind[s] # "human"

\* The state a driver came from has left its record on disk, under the number
\* the driver's counter stands at: the artifact the next agent is due exists,
\* through retries, resumes with a synthetic step and inline answers. Where an
\* edit has given the paused state another kind, the answer of the resume, the
\* last of the prior steps, may turn up later: behind the next human state.
PriorRecorded ==
  \A p \in Procs : pc[p] = "loop" /\ prior[p] # NoState =>
    \E m \in meta :
      /\ m.id = prior[p]
      /\ m.num = num[p] \/ (m.num = Len(base[p]) /\ Regated(p, prior[p]))

\* A meta file never refers to a content file that is not there, whatever
\* write was interrupted and whoever else writes to the directory.
MetaBacked ==
  \A m \in meta : \E c \in content : c.num = m.num /\ c.id = m.id

\* Every step a manifest lists is on disk as listed, and its content file is
\* complete and of the process that listed it: no later launch, failed or
\* not, has overwritten it.
ManifestBacked ==
  \A i \in 1..Len(manifest.steps) :
    LET r == manifest.steps[i] IN r \in meta /\ File(r, TRUE) \in content

\* A paused manifest numbers its steps 1, 2, 3...: their count, which a resume
\* continues from, is the number of the last one.
PausedNumbering ==
  manifest.status = "paused" =>
    \A i \in 1..Len(manifest.steps) : manifest.steps[i].num = i

\* Where a human state leads: its first entry, in whichever version of the
\* flow file the run was resumed with.
PassedTo(s) ==
  {FirstNext(f, s) :
     f \in {g \in Flows : s \in Declared(g) /\ g.kind[s] = "human" /\ HasNext(g, s)}}

\* The states that are not human in every version: an answer given there may
\* be followed by the work an edit has put in the place of the question.
Edited == {s \in StateId : \E f \in Flows : s \in Declared(f) /\ f.kind[s] # "human"}

Follows(step) ==
  IF step.kind = "human" THEN PassedTo(step.id) \cup (Edited \cap {step.id})
  ELSE {step.to}

\* From a step on, a state is reached through human states alone, passed
\* without an answer that was kept: it is in every set of states that holds
\* what follows the step and is left by no human state.
LeadsTo(step, s) ==
  \A X \in SUBSET StateId :
    Follows(step) \subseteq X /\ (\A t \in X : PassedTo(t) \subseteq X) => s \in X

\* Consecutive steps of a manifest are joined by an edge of the flow, or by
\* the first edge of an answered human state, and by the first edges of the
\* human states passed in between, across every resume and failed attempt. An
\* answered state that an edit has given to an agent or a command is entered
\* instead of left.
ManifestIsWalk ==
  \A i \in 1..(Len(manifest.steps) - 1) :
    LeadsTo(manifest.steps[i], manifest.steps[i + 1].id)

\* A manifest leaves out no step of the launch that wrote it, nor of the
\* operator's answers given to a resume.
ManifestComplete ==
  manifest.status \in {"paused", "done"} /\ manifest.steps # <<>> =>
    LET last == manifest.steps[Len(manifest.steps)].by
    IN  \A m \in meta :
          m.by = last /\ (m.kind = "human" => last > 1) =>
            m \in {manifest.steps[i] : i \in 1..Len(manifest.steps)}

\* max_steps is a budget of the run, not of a launch: a resume does not renew
\* it. The work a manifest lists never exceeds it.
BudgetSpansResumes ==
  Cardinality({i \in 1..Len(manifest.steps) : manifest.steps[i].kind # "human"})
    <= MaxSteps

\* A completed run is final.
CompletedIsFinal ==
  [][manifest.status = "done" => manifest'.status = "done"]_vars

\* The artifact handed to an agent is the one its immediate predecessor in
\* this walk has written.
PriorContextFresh ==
  \A p \in Procs : pc[p] \in {"agent", "retry"} /\ prior[p] # NoState =>
    ctx[p].num = num[p] - 1

\* "On the FIRST iteration only, a human-handoff state is treated as a transit
\* point rather than a pause": a resumed driver that has worked since it was
\* started pauses at the next human state.
TransitIsFirst ==
  [][\A p \in Procs : PassThrough(p) => done[p] = <<>>]_vars

\* Between two interactions with its operator a driver takes finitely many
\* steps: loops run into the visit cap or the step budget.
DriverEnds ==
  \A p \in Procs :
    pc[p] \notin {"idle", "prompt"} ~> pc[p] \in {"idle", "prompt"}

-----------------------------------------------------------------------------
(* The run as its operator sees it, when one process at a time works on it.  *)

Walker == CHOOSE p \in Procs : TRUE

Walking == pc[Walker] # "idle"

Trail(steps) ==
  [i \in 1..Len(steps) |-> [id |-> steps[i].id, work |-> steps[i].kind # "human"]]

Phase ==
  IF Walking THEN "walking"
  ELSE IF launches = 0 THEN "absent"
  ELSE IF manifest.status \in {"paused", "done"} THEN manifest.status
  ELSE "lost"

Walk == INSTANCE RunWalk WITH
  MaxTrail <- MaxSteps, Nowhere <- NoState,
  phase   <- Phase,
  flow    <- IF Walking THEN flow[Walker] ELSE NoState,
  at      <- at[Walker],
  trail   <- Trail(base[Walker] \o done[Walker]),
  consent <- skip[Walker] \/ pc[Walker] = "prompt" \/ pend[Walker].kind = "human",
  kept    <- IF manifest.status \in {"paused", "done"}
             THEN [at |-> manifest.at, trail |-> Trail(manifest.steps)]
             ELSE [at |-> NoState, trail |-> <<>>]

\* The processes, files and failures of this module implement the walk.
WalkRefined == Walk!Spec
==============================================================================
