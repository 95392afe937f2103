------------------------------ MODULE LinearRun ------------------------------
(***************************************************************************)
(* Linear flows: `kuro run` started several times in one project, within    *)
(* the same second, each run on its own task; the run directories they      *)
(* choose, create and fill; and `kuro stack purge` next to them.  Models    *)
(* execute_flow from validate_dag on, run_to_completion and                 *)
(* run_steps_with_state of src/src/runner/mod.rs with unique_run_path,      *)
(* init_run_layout and write_run_step, and cmd_stack_purge of main.rs.      *)
(***************************************************************************)
EXTENDS Dag

CONSTANTS
    Runs,     \* the `kuro run` processes
    Scenes    \* [flow |-> a sequence of steps, cast |-> the runs that start,
              \*  faults |-> whether runs fail, die or are cancelled and the
              \*             operator purges]

Nobody == 0

ASSUME RunsAssumption == IsFiniteSet(Runs) /\ Nobody \notin Runs
ASSUME FlowsAssumption == \A s \in Scenes : IsFlow(s.flow)

VARIABLES
    scene,
    dag,       \* what validate_dag returns for the flow; every run asks it
    pc,        \* run -> where its task stands
    dir,       \* run -> the number of its directory name; 0 before it has one
    num,       \* run -> `i` of the loop over the ordered steps
    ctx,       \* run -> the bodies its current step was given
    results,   \* run -> ids of `results`
    cancel,    \* run -> RunState.cancel
    dirs,      \* the directories that exist
    content,   \* directory -> step -> who wrote the body, and whether all of it
    meta,      \* directory -> step -> who wrote the meta file
    manifest,  \* directory -> who wrote manifest.yaml, and the steps it lists
    audit,     \* directory -> who wrote resolution-audit.txt
    posts,     \* the step outputs that became comments
    purge,     \* where `kuro stack purge` stands
    twins      \* history: runs whose name was taken but not yet created

vars == <<scene, dag, pc, dir, num, ctx, results, cancel, dirs, content, meta,
          manifest, audit, posts, purge, twins>>
disk == <<dirs, content, meta, manifest, audit>>

NoBody == [by |-> Nobody, full |-> FALSE]
Body(r) == [by |-> r, full |-> TRUE]
Torn(r) == [by |-> r, full |-> FALSE]
NoManifest == [by |-> Nobody, steps |-> <<>>]

Names == 1 .. Cardinality(Runs)     \* base, base-2, base-3, ...
Bodies == {NoBody} \cup {Body(r) : r \in Runs} \cup {Torn(r) : r \in Runs}

flow == scene.flow
Order == dag.order
Steps == Ids(flow)
Ended == {"done", "failed", "starved", "absent"}

(* The step a run is at; agents and conversations read their inputs, agents *)
(* on a command line and shell steps stream into the body while they run.   *)
Current(r) == StepOf(flow, Order[num[r]])
ReadsInputs(step) == step.kind # "shell"
Streams(step) == step.kind \in {"agent", "shell"}

Go(r, l) == pc' = [pc EXCEPT ![r] = l]

Init ==
    /\ scene \in Scenes
    /\ dag = ValidateDag(scene.flow)
    /\ pc = [r \in Runs |-> IF r \in scene.cast THEN "idle" ELSE "absent"]
    /\ dir = [r \in Runs |-> 0]
    /\ num = [r \in Runs |-> 1]
    /\ ctx = [r \in Runs |-> <<>>]
    /\ results = [r \in Runs |-> <<>>]
    /\ cancel = [r \in Runs |-> FALSE]
    /\ dirs = {}
    /\ content = [d \in Names |-> [s \in Steps |-> NoBody]]
    /\ meta = [d \in Names |-> [s \in Steps |-> Nobody]]
    /\ manifest = [d \in Names |-> NoManifest]
    /\ audit = [d \in Names |-> Nobody]
    /\ posts = {}
    /\ purge = "idle"
    /\ twins = {}

---------------------------------------------------------------------------
(* Setup, on the caller's task.                                            *)

(* Mutant: the collision check is left out. *)
BaseName == 1

(* unique_run_path: the first name in base, base-2, ... that is free now.   *)
FreeName == CHOOSE n \in Names \ dirs : \A m \in Names \ dirs : n <= m

Reject(r) ==
    /\ pc[r] = "idle" /\ ~dag.ok
    /\ Go(r, "failed")
    /\ UNCHANGED <<scene, dag, dir, num, ctx, results, cancel, disk, posts, purge, twins>>

PickName(r) ==
    /\ pc[r] = "idle" /\ dag.ok
    /\ LET rivals == {q \in Runs : dir[q] = FreeName /\ pc[q] = "named"}
       IN twins' = IF rivals = {} THEN twins ELSE twins \cup rivals \cup {r}
    /\ dir' = [dir EXCEPT ![r] = FreeName]
    /\ Go(r, "named")
    /\ UNCHANGED <<scene, dag, num, ctx, results, cancel, disk, posts, purge>>

(* init_run_layout does not mind a directory that is there already.  The    *)
(* audit is written after it; that this fails, with what was there kept or  *)
(* gone, is worth a warning and no more.                                    *)
MakeLayout(r) ==
    /\ pc[r] = "named"
    /\ dirs' = dirs \cup {dir[r]}
    /\ \E by \in IF scene.faults THEN {r, Nobody, audit[dir[r]]} ELSE {r} :
          audit' = [audit EXCEPT ![dir[r]] = by]
    /\ Go(r, "spawned")
    /\ UNCHANGED <<scene, dag, dir, num, ctx, results, cancel, content, meta, manifest,
                   posts, purge, twins>>

(* RunHandle::cancel, by whoever holds the handle: before the task runs, or *)
(* (bound of the model) while a step is at work.                            *)
Cancel(r) ==
    /\ scene.faults /\ pc[r] \in {"spawned", "working"} /\ ~cancel[r]
    /\ cancel' = [cancel EXCEPT ![r] = TRUE]
    /\ UNCHANGED <<scene, dag, pc, dir, num, ctx, results, disk, posts, purge, twins>>

---------------------------------------------------------------------------
(* The spawned task.                                                       *)

(* Mutant: a task that was cancelled is left where it is. *)
LaunchIfWanted(r) ==
    /\ pc[r] = "spawned" /\ ~cancel[r]
    /\ Go(r, "step")
    /\ dirs' = dirs \cup {dir[r]}
    /\ UNCHANGED <<scene, dag, dir, num, ctx, results, cancel, content, meta, manifest,
                   audit, posts, purge, twins>>

(* The flag is looked at here and nowhere else. *)
Launch(r) ==
    /\ pc[r] = "spawned"
    /\ IF cancel[r]
       THEN Go(r, "failed") /\ UNCHANGED dirs
       ELSE Go(r, "step") /\ dirs' = dirs \cup {dir[r]}
    /\ UNCHANGED <<scene, dag, dir, num, ctx, results, cancel, content, meta, manifest,
                   audit, posts, purge, twins>>

(* build_user_prompt, then the body is created empty by a step that streams *)
(* into it.  An input that was never recorded ends the run.                 *)
BeginStep(r) ==
    /\ pc[r] = "step" /\ num[r] <= Len(Order)
    /\ LET step == Current(r)
           d == dir[r]
           there(s) == meta[d][s] # Nobody /\ content[d][s] # NoBody
       IN IF ReadsInputs(step) /\ \E s \in ToSet(step.input) : ~there(s)
          THEN /\ Go(r, "starved")
               /\ UNCHANGED <<ctx, dirs, content>>
          ELSE /\ ctx' = [ctx EXCEPT ![r] =
                     IF ReadsInputs(step)
                     THEN [k \in DOMAIN step.input |-> content[d][step.input[k]]]
                     ELSE <<>>]
               /\ dirs' = dirs \cup {d}
               /\ content' = IF Streams(step) THEN [content EXCEPT ![d][step.id] = Torn(r)]
                                              ELSE content
               /\ Go(r, "working")
    /\ UNCHANGED <<scene, dag, dir, num, results, cancel, meta, manifest, audit, posts,
                   purge, twins>>

(* What a step waits for ends well. *)
Returns(r, kind) ==
    /\ pc[r] = "working" /\ Current(r).kind = kind /\ Go(r, "body")
    /\ UNCHANGED <<scene, dag, dir, num, ctx, results, cancel, disk, posts, purge, twins>>

AgentAnswers(r) == Returns(r, "agent")      \* run_step_via_executor
ModelAnswers(r) == Returns(r, "api")        \* run_step_via_api
CommandExits(r) == Returns(r, "shell")      \* with status 0
ConversationEnds(r) == Returns(r, "talk")   \* for whatever reason

(* Every `?` of the loop: a non-zero exit, an agent or a transport that does *)
(* not start, an API error, a failed write.  Nothing is cleaned up.          *)
StepFails(r) ==
    /\ scene.faults /\ pc[r] \in {"step", "working", "body", "meta"}
    /\ Go(r, "failed")
    /\ UNCHANGED <<scene, dag, dir, num, ctx, results, cancel, disk, posts, purge, twins>>

(* write_run_step, first half: the directory is made again if need be. *)
WriteContent(r) ==
    /\ pc[r] = "body"
    /\ dirs' = dirs \cup {dir[r]}
    /\ content' = [content EXCEPT ![dir[r]][Current(r).id] = Body(r)]
    /\ Go(r, "meta")
    /\ UNCHANGED <<scene, dag, dir, num, ctx, results, cancel, meta, manifest, audit, posts,
                   purge, twins>>

(* Second half, and the step's result.  Conversations never comment. *)
WriteMeta(r) ==
    /\ pc[r] = "meta"
    /\ IF dir[r] \notin dirs
       THEN Go(r, "failed") /\ UNCHANGED <<num, results, meta>>
       ELSE /\ meta' = [meta EXCEPT ![dir[r]][Current(r).id] = r]
            /\ IF Current(r).post /\ Current(r).kind # "talk"
               THEN Go(r, "post") /\ UNCHANGED <<num, results>>
               ELSE /\ Go(r, "step")
                    /\ num' = [num EXCEPT ![r] = @ + 1]
                    /\ results' = [results EXCEPT ![r] = Append(@, Current(r).id)]
    /\ UNCHANGED <<scene, dag, dir, ctx, cancel, dirs, content, manifest, audit, posts,
                   purge, twins>>

(* Mutant: a comment that fails ends the step, not the run. *)
PostOrSkip(r) ==
    /\ pc[r] = "post"
    /\ \/ /\ posts' = posts \cup {<<r, Current(r).id>>}
          /\ results' = [results EXCEPT ![r] = Append(@, Current(r).id)]
       \/ UNCHANGED <<posts, results>>
    /\ num' = [num EXCEPT ![r] = @ + 1]
    /\ Go(r, "step")
    /\ UNCHANGED <<scene, dag, dir, ctx, cancel, disk, purge, twins>>

(* try_post_step_comment: whatever comes of it, the run goes on. *)
PostComment(r) ==
    /\ pc[r] = "post"
    /\ \E posted \in {{<<r, Current(r).id>>}, {}} : posts' = posts \cup posted
    /\ num' = [num EXCEPT ![r] = @ + 1]
    /\ results' = [results EXCEPT ![r] = Append(@, Current(r).id)]
    /\ Go(r, "step")
    /\ UNCHANGED <<scene, dag, dir, ctx, cancel, disk, purge, twins>>

(* Mutant: one step short. *)
WriteManifestEarly(r) ==
    /\ pc[r] = "step" /\ num[r] >= Len(Order)
    /\ dirs' = dirs \cup {dir[r]}
    /\ manifest' = [manifest EXCEPT ![dir[r]] = [by |-> r, steps |-> results[r]]]
    /\ Go(r, "done")
    /\ UNCHANGED <<scene, dag, dir, num, ctx, results, cancel, content, meta, audit, posts,
                   purge, twins>>

WriteManifest(r) ==
    /\ pc[r] = "step" /\ num[r] > Len(Order)
    /\ dirs' = dirs \cup {dir[r]}
    /\ manifest' = [manifest EXCEPT ![dir[r]] = [by |-> r, steps |-> results[r]]]
    /\ Go(r, "done")
    /\ UNCHANGED <<scene, dag, dir, num, ctx, results, cancel, content, meta, audit, posts,
                   purge, twins>>

(* The process dies; the directory cannot tell this from a failure. *)
Crash(r) ==
    /\ scene.faults /\ pc[r] \notin Ended \cup {"idle"}
    /\ Go(r, "failed")
    /\ UNCHANGED <<scene, dag, dir, num, ctx, results, cancel, disk, posts, purge, twins>>

---------------------------------------------------------------------------
(* `kuro stack purge`: the report, the operator's answer, the removal of    *)
(* all that is there by then.                                               *)

PlanPurge ==
    /\ scene.faults /\ purge = "idle" /\ dirs # {}
    /\ purge' = "asked"
    /\ UNCHANGED <<scene, dag, pc, dir, num, ctx, results, cancel, disk, posts, twins>>

AnswerPurge ==
    /\ purge = "asked"
    /\ \/ purge' = "idle" /\ UNCHANGED disk
       \/ /\ purge' = "purged"
          /\ dirs' = {}
          /\ content' = [d \in Names |-> [s \in Steps |-> NoBody]]
          /\ meta' = [d \in Names |-> [s \in Steps |-> Nobody]]
          /\ manifest' = [d \in Names |-> NoManifest]
          /\ audit' = [d \in Names |-> Nobody]
    /\ UNCHANGED <<scene, dag, pc, dir, num, ctx, results, cancel, posts, twins>>

---------------------------------------------------------------------------

RunStep(r) ==
    \/ Reject(r) \/ PickName(r) \/ MakeLayout(r) \/ Launch(r) \/ BeginStep(r)
    \/ AgentAnswers(r) \/ ModelAnswers(r) \/ CommandExits(r) \/ ConversationEnds(r)
    \/ WriteContent(r) \/ WriteMeta(r) \/ PostComment(r)
    \/ WriteManifest(r)

Next ==
    \/ \E r \in Runs : RunStep(r) \/ StepFails(r) \/ Crash(r) \/ Cancel(r)
    \/ PlanPurge \/ AnswerPurge

(* Tasks are scheduled, and what the executor waits for ends (Returns). *)
Fairness == \A r \in Runs : WF_vars(RunStep(r))

Spec == Init /\ [][Next]_vars /\ Fairness

---------------------------------------------------------------------------

TypeOK ==
    /\ scene \in Scenes
    /\ pc \in [Runs -> {"idle", "named", "spawned", "step", "working", "body", "meta",
                        "post"} \cup Ended]
    /\ dir \in [Runs -> Names \cup {0}]
    /\ num \in [Runs -> Nat \ {0}]
    /\ results \in [Runs -> Seq(Steps)]
    /\ \A r \in Runs : ToSet(ctx[r]) \subseteq Bodies
    /\ cancel \in [Runs -> BOOLEAN]
    /\ dirs \subseteq Names
    /\ content \in [Names -> [Steps -> Bodies]]
    /\ meta \in [Names -> [Steps -> Runs \cup {Nobody}]]
    /\ manifest \in [Names -> [by : Runs \cup {Nobody}, steps : Seq(Steps)]]
    /\ audit \in [Names -> Runs \cup {Nobody}]
    /\ posts \subseteq Runs \X Steps
    /\ purge \in {"idle", "asked", "purged"} /\ twins \subseteq Runs

(***************************************************************************)
(* validate_dag answers right for every flow of the scenes (RightAnswer,    *)
(* module Dag), and no run gets past setup when it refuses.                 *)
(***************************************************************************)
OrderIsRight ==
    /\ RightAnswer(flow, dag)
    /\ \A r \in Runs : dir[r] # 0 => ~Knotted(flow)

(***************************************************************************)
(* Two runs share a directory only if one chose the name while the other    *)
(* had chosen and not created it (the window the comment of unique_run_path *)
(* concedes).  Outside of it, and unless the project is purged, the bodies   *)
(* a step is given are complete and of its own run, and a finished run      *)
(* keeps what it wrote: bodies, meta files, manifest and, unless it could   *)
(* not be written, the audit, whatever was started in the same second.      *)
(***************************************************************************)
RunsApart ==
    purge # "purged" =>
        \A r \in Runs \ twins :
            /\ ToSet(ctx[r]) \subseteq {Body(r)}
            /\ pc[r] = "done" =>
                 /\ manifest[dir[r]].by = r /\ audit[dir[r]] \in {r, Nobody}
                 /\ \A s \in Steps : content[dir[r]][s] = Body(r) /\ meta[dir[r]][s] = r

(***************************************************************************)
(* A step never misses an input: inputs order the steps, and files do not   *)
(* go away but by a purge.  This holds for runs that share a directory too. *)
(***************************************************************************)
NeverStarved == \A r \in Runs : pc[r] = "starved" => purge = "purged"

(***************************************************************************)
(* A manifest that a run wrote lists every step of the flow, in the order   *)
(* in which they were run: a comment that could not be posted, a            *)
(* cancellation that came late or a purge in between leaves no gap.         *)
(***************************************************************************)
ManifestComplete ==
    \A d \in Names : manifest[d].by # Nobody => manifest[d].steps = Order

(***************************************************************************)
(* Every run that is started ends, if what it waits for ends.               *)
(***************************************************************************)
RunsEnd == \A r \in Runs : []<>(pc[r] \in Ended)

(* The schedule that the runs keep. *)
Plan == [s \in Steps |-> Deps(flow, s)]
Completed == [r \in Runs |-> ToSet(results[r])]
Phase ==
    [r \in Runs |->
        CASE pc[r] \in {"idle", "named", "spawned", "absent"} -> "waiting"
          [] pc[r] = "done" -> "finished"
          [] pc[r] \in {"failed", "starved"} -> "stopped"
          [] OTHER -> "running"]

Sched == INSTANCE Schedule WITH plan <- Plan, done <- Completed, phase <- Phase

(***************************************************************************)
(* Every run completes steps only after what they need, begins no plan that *)
(* cannot be done and finishes with all of them.                            *)
(***************************************************************************)
ScheduleRefined == Sched!Spec
=============================================================================
