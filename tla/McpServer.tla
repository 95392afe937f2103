----------------------------- MODULE McpServer -----------------------------
(***************************************************************************)
(* `kuro mcp`: the stdio loop, its dispatches in flight, the registry of    *)
(* active runs, the runs themselves as far as a client can tell them apart, *)
(* and the tools that start a run, look at one, or talk into one.  Models   *)
(* src/src/mcp/ (server, protocol, tools, session, execution, messaging and *)
(* the shape of workflow) with RunState and RouterAccessor of the runner.   *)
(*                                                                         *)
(* All dispatches are polled by one task: what a dispatch does between two  *)
(* awaits is one action.  Runs are tasks of their own and interleave.       *)
(* Frame n carries the id n, if it carries one; its dispatch is call n, the *)
(* run it starts is run n.                                                 *)
(***************************************************************************)
EXTENDS Workflow

CONSTANTS
    Scenes,   \* [script |-> the frames the client sends,
              \*  talks |-> conversation steps per run, faults |-> which of
              \*  "stdin", "stdout", "run" may fail, shapes |-> flows there are,
              \*  records |-> what the keyed step of a workflow records,
              \*  visit by visit]
    MaxFrames,\* the most a client of any scene sends
    Room      \* capacity of the channel behind a RouterAccessor

ASSUME BoundsAssumption ==
    /\ Room \in Nat \ {0}
    /\ MaxFrames \in Nat
    /\ \A s \in Scenes : Len(s.script) \in 0 .. MaxFrames /\ s.talks \in Nat

(* A record is a report, line by line. *)
ASSUME RecordsAssumption ==
    \A s \in Scenes : s.records \in Seq(Seq([bullet : BOOLEAN, says : STRING]))

VARIABLES
    scene,
    loop,     \* "serving", "draining" (stdin at EOF), "ended", "aborted"
    pipe,     \* stdout: "up", "down"
    read,     \* how many of the client's lines were read
    pc,       \* per call: "none", "ready", "await", "send", "reply",
              \* "over", "dropped"
    code,     \* per call: the response it made
    dest,     \* per call: the run, and the conversation of it, it addressed
    out,      \* the frames on stdout
    slots,    \* SessionState.runs
    run,      \* per run: [at, talk, shape, manifest, records]
    chan,     \* per run: the lines in its accessor's channel
    heard     \* per run: the lines its routers took, with the conversation

loopVars == <<loop, pipe, read>>
callVars == <<pc, code, dest>>
runVars  == <<run, chan, heard>>
vars == <<scene, loopVars, callVars, out, slots, runVars>>

Calls == 1 .. MaxFrames
Read  == 1 .. read
frames == scene.script
Alive == loop \in {"serving", "draining"}

NoCode  == [id |-> 0, says |-> "nothing"]
Nowhere == <<0, 0>>

Methods == {"initialize", "tools/list", "ping", "tools/call"}
Runners == {"run_flow", "workflow"}
Tools   == Runners \cup {"send_message", "show_output", "discovery"}

InFlight(n) == pc[n] \in {"ready", "await", "send", "reply"}

(* Where a run is: it works, publishes an accessor and spawns the agents of *)
(* a conversation, holds it, has left the router's loop, has dropped the    *)
(* router, and takes the accessor back; at last it writes the manifest.  A  *)
(* conversation whose agents cannot be spawned leaves its accessor behind.  *)
Published(n) == run[n].at \in {"seating", "talk", "deaf", "gone", "wreck"}
Listening(n, talk) == run[n].talk = talk /\ run[n].at \in {"seating", "talk", "deaf"}
Active(n)  == run[n].at \notin {"none", "returned", "failed", "wreck"}

NoRun == [at |-> "none", talk |-> 0, shape |-> "none", manifest |-> FALSE,
          records |-> <<>>]

Init ==
    /\ scene \in Scenes
    /\ loop = "serving" /\ pipe = "up" /\ read = 0
    /\ pc = [n \in Calls |-> "none"]
    /\ code = [n \in Calls |-> NoCode]
    /\ dest = [n \in Calls |-> Nowhere]
    /\ out = <<>> /\ slots = {}
    /\ run = [n \in Calls |-> NoRun]
    /\ chan = [n \in Calls |-> <<>>]
    /\ heard = [n \in Calls |-> <<>>]

---------------------------------------------------------------------------
(* The loop.                                                               *)

(* A line that is not blank becomes a dispatch of its own. *)
ReadFrame ==
    /\ loop = "serving" /\ read < Len(frames)
    /\ read' = read + 1
    /\ pc' = [pc EXCEPT ![read'] = "ready"]
    /\ UNCHANGED <<scene, loop, pipe, code, dest, out, slots, runVars>>

\* Mutant: EOF ends the server as well.
EofEnds ==
    /\ loop = "serving"
    /\ loop' = "ended"
    /\ UNCHANGED <<scene, pipe, read, callVars, out, slots, runVars>>

Eof ==
    /\ loop = "serving"
    /\ loop' = "draining"
    /\ UNCHANGED <<scene, pipe, read, callVars, out, slots, runVars>>

(* A failed read returns at once: the dispatches are dropped where they     *)
(* stand, and with them the slots they hold.                               *)
ReadFails ==
    /\ loop = "serving" /\ "stdin" \in scene.faults
    /\ loop' = "aborted"
    /\ pc' = [n \in Calls |-> IF InFlight(n) THEN "dropped" ELSE pc[n]]
    /\ slots' = {}
    /\ UNCHANGED <<scene, pipe, read, code, dest, out, runVars>>

Drained ==
    /\ loop = "draining" /\ \A n \in Calls : ~InFlight(n)
    /\ loop' = "ended"
    /\ UNCHANGED <<scene, pipe, read, callVars, out, slots, runVars>>

---------------------------------------------------------------------------
(* Dispatch.                                                               *)

Answer(n, says) ==
    /\ pc' = [pc EXCEPT ![n] = "reply"]
    /\ code' = [code EXCEPT ![n] = [id |-> n, says |-> says]]

Ready(n) == Alive /\ pc[n] = "ready"

(* Neither an object nor, without a method, a request: the answer carries   *)
(* the id if one could be read.                                            *)
ParseError(n) ==
    /\ Ready(n) /\ frames[n].method = "unreadable"
    /\ pc' = [pc EXCEPT ![n] = "reply"]
    /\ code' = [code EXCEPT ![n] = [id |-> IF frames[n].id THEN n ELSE 0,
                                    says |-> "parse_error"]]
    /\ UNCHANGED <<scene, loopVars, dest, out, slots, runVars>>

\* Mutant: a notification is answered like a request.
NotifiedAloud(n) ==
    /\ Ready(n) /\ frames[n].method # "unreadable" /\ ~frames[n].id
    /\ Answer(n, "ok")
    /\ UNCHANGED <<scene, loopVars, dest, out, slots, runVars>>

Notified(n) ==
    /\ Ready(n) /\ frames[n].method # "unreadable" /\ ~frames[n].id
    /\ pc' = [pc EXCEPT ![n] = "over"]
    /\ UNCHANGED <<scene, loopVars, code, dest, out, slots, runVars>>

Request(n) == Ready(n) /\ frames[n].method # "unreadable" /\ frames[n].id

(* What dispatch and handle_tools_call say before a tool works, in their    *)
(* order; "" when a tool has to work.                                      *)
Verdict(f) ==
    CASE f.method \notin Methods -> "method_not_found"
      [] f.flaw = "params" /\ f.method \in {"initialize", "tools/call"} -> "invalid_params"
      [] f.method # "tools/call" -> "ok"
      [] f.tool \notin Tools -> "unknown_tool"
      [] f.flaw = "arguments" -> "invalid_params"
      [] f.tool = "discovery" -> "ok"
      [] OTHER -> ""

Instant(n) ==
    /\ Request(n) /\ Verdict(frames[n]) # ""
    /\ Answer(n, Verdict(frames[n]))
    /\ UNCHANGED <<scene, loopVars, dest, out, slots, runVars>>

Called(n, tools) == Request(n) /\ Verdict(frames[n]) = "" /\ frames[n].tool \in tools

(* A workflow tool first looks for the steps it keys off in the flow it is   *)
(* going to run: one that is missing, or a flow that does not load, ends    *)
(* the call before there is a run.                                         *)
PreflightFails(n) ==
    /\ Called(n, {"workflow"}) /\ "run" \in scene.faults
    /\ \E why \in {"flow_missing", "internal_error"} : Answer(n, why)
    /\ UNCHANGED <<scene, loopVars, dest, out, slots, runVars>>

(* classify_setup_error. *)
SetupFails(n) ==
    /\ Called(n, Runners) /\ "run" \in scene.faults
    /\ \E why \in {"flow_missing", "invalid_params", "internal_error"} : Answer(n, why)
    /\ UNCHANGED <<scene, loopVars, dest, out, slots, runVars>>

(* execute_flow spawns the run; run_flow registers its router view before it *)
(* awaits, in the same poll.  The workflow tools do not register.          *)
Launch(n) ==
    /\ Called(n, Runners)
    /\ \E shape \in scene.shapes :
          run' = [run EXCEPT ![n] = [NoRun EXCEPT !.at = "busy", !.shape = shape]]
    /\ slots' = IF frames[n].tool = "run_flow" THEN slots \cup {n} ELSE slots
    /\ pc' = [pc EXCEPT ![n] = "await"]
    /\ UNCHANGED <<scene, loopVars, code, dest, out, chan, heard>>

(* await_completion: the answer is made and the slot guard dropped.  The    *)
(* answer of a workflow tool carries what it makes of the run's records,    *)
(* which are final by then.                                                *)
Outcome(n) ==
    Answer(n, IF run[n].at # "returned" THEN "internal_error"
              ELSE IF frames[n].tool = "run_flow" THEN "done" ELSE "result")

Result(n) == BuildResult(run[n].records)

\* Mutant: a run that fails never wakes the call that waits for it.
JoinedReturned(n) ==
    /\ Alive /\ pc[n] = "await" /\ run[n].at = "returned"
    /\ Outcome(n)
    /\ slots' = slots \ {n}
    /\ UNCHANGED <<scene, loopVars, dest, out, runVars>>

Joined(n) ==
    /\ Alive /\ pc[n] = "await" /\ ~Active(n)
    /\ Outcome(n)
    /\ slots' = slots \ {n}
    /\ UNCHANGED <<scene, loopVars, dest, out, runVars>>

---------------------------------------------------------------------------
(* send_message.                                                           *)

Live == {n \in slots : Published(n)}

(* live_routers: with exactly one, its sender is cloned. *)
Snapshot(n) ==
    /\ Called(n, {"send_message"})
    /\ IF Cardinality(Live) = 1
       THEN /\ dest' = [dest EXCEPT ![n] = LET m == CHOOSE m \in Live : TRUE
                                           IN <<m, run[m].talk>>]
            /\ pc' = [pc EXCEPT ![n] = "send"]
            /\ UNCHANGED code
       ELSE /\ Answer(n, "conversation_inactive")
            /\ UNCHANGED dest
    /\ UNCHANGED <<scene, loopVars, out, slots, runVars>>

Target(n) == dest[n][1]

\* Mutant: the accessor is looked up again when there is room.
InjectLate(n) ==
    /\ Alive /\ pc[n] = "send"
    /\ Listening(Target(n), run[Target(n)].talk) /\ Len(chan[Target(n)]) < Room
    /\ chan' = [chan EXCEPT ![Target(n)] = Append(@, n)]
    /\ Answer(n, "delivered")
    /\ UNCHANGED <<scene, loopVars, dest, out, slots, run, heard>>

(* The send waits for room; a channel without its receiver refuses. *)
Inject(n) ==
    /\ Alive /\ pc[n] = "send"
    /\ Listening(Target(n), dest[n][2]) /\ Len(chan[Target(n)]) < Room
    /\ chan' = [chan EXCEPT ![Target(n)] = Append(@, n)]
    /\ Answer(n, "delivered")
    /\ UNCHANGED <<scene, loopVars, dest, out, slots, run, heard>>

Refused(n) ==
    /\ Alive /\ pc[n] = "send" /\ ~Listening(Target(n), dest[n][2])
    /\ Answer(n, "conversation_inactive")
    /\ UNCHANGED <<scene, loopVars, dest, out, slots, runVars>>

---------------------------------------------------------------------------
(* show_output.                                                            *)

(* read_run under the stack the caller names.  With a flow name the file is *)
(* loaded as a linear flow for its stack.path, which a graph flow is not.  *)
Status(m, byFlow) ==
    CASE byFlow /\ run[m].shape = "graph" -> "internal_error"
      [] ~byFlow /\ run[m].shape = "custom" -> "run_not_found"
      [] run[m].manifest -> "done"
      [] OTHER -> "running"

ShowOutput(n) ==
    /\ Called(n, {"show_output"})
    /\ \/ \E m \in Calls, byFlow \in BOOLEAN :
             /\ run[m] # NoRun
             /\ dest' = [dest EXCEPT ![n] = <<m, IF byFlow THEN 1 ELSE 0>>]
             /\ Answer(n, Status(m, byFlow))
       \/ Answer(n, "run_not_found") /\ UNCHANGED dest
    /\ UNCHANGED <<scene, loopVars, out, slots, runVars>>

---------------------------------------------------------------------------
(* write_response: one frame at a time under the mutex; a frame that cannot *)
(* be written is logged and forgotten.                                     *)

WriteFrame(n) ==
    /\ Alive /\ pc[n] = "reply"
    /\ pc' = [pc EXCEPT ![n] = "over"]
    /\ \/ pipe = "up" /\ out' = Append(out, code[n]) /\ UNCHANGED pipe
       \/ "stdout" \in scene.faults /\ pipe' = "down" /\ UNCHANGED out
    /\ UNCHANGED <<scene, loop, read, code, dest, slots, runVars>>

---------------------------------------------------------------------------
(* The runs.                                                               *)

Rest == UNCHANGED <<scene, loopVars, callVars, out, slots>>

Moves(n, from, to) ==
    /\ Alive /\ run[n].at = from
    /\ run' = [run EXCEPT ![n].at = to]

(* A conversation step publishes an accessor to a channel of its own. *)
OpenTalk(n) ==
    /\ Alive /\ run[n].at = "busy" /\ run[n].shape # "graph" /\ run[n].talk < scene.talks
    /\ run' = [run EXCEPT ![n].at = "seating", ![n].talk = @ + 1]
    /\ chan' = [chan EXCEPT ![n] = <<>>]
    /\ UNCHANGED heard /\ Rest

SeatFails(n) ==
    /\ "run" \in scene.faults /\ Moves(n, "seating", "wreck")
    /\ chan' = [chan EXCEPT ![n] = <<>>]
    /\ UNCHANGED heard /\ Rest

Seated(n)   == Moves(n, "seating", "talk") /\ UNCHANGED <<chan, heard>> /\ Rest

Hear(n) ==
    /\ Alive /\ run[n].at = "talk" /\ chan[n] # <<>>
    /\ chan' = [chan EXCEPT ![n] = Tail(@)]
    /\ heard' = [heard EXCEPT ![n] = Append(@, [call |-> Head(chan[n]), talk |-> run[n].talk])]
    /\ UNCHANGED run /\ Rest

LoopStops(n) == Moves(n, "talk", "deaf") /\ UNCHANGED <<chan, heard>> /\ Rest

(* router.run returns and drops the receiver with what is in it ... *)
Hangup(n) ==
    /\ Moves(n, "deaf", "gone")
    /\ chan' = [chan EXCEPT ![n] = <<>>]
    /\ UNCHANGED heard /\ Rest

(* ... and the step takes the accessor back. *)
ClearRouter(n) == Moves(n, "gone", "busy") /\ UNCHANGED <<chan, heard>> /\ Rest

Fails(n) == "run" \in scene.faults /\ Moves(n, "busy", "failed") /\ UNCHANGED <<chan, heard>> /\ Rest

WriteManifest(n) ==
    /\ Alive /\ run[n].at = "busy"
    /\ run' = [run EXCEPT ![n].at = "written", ![n].manifest = TRUE,
                          ![n].records = scene.records]
    /\ UNCHANGED <<chan, heard>> /\ Rest

Returns(n) == Moves(n, "written", "returned") /\ UNCHANGED <<chan, heard>> /\ Rest

---------------------------------------------------------------------------
Dispatch(n) ==
    \/ ParseError(n) \/ Notified(n) \/ Instant(n)
    \/ PreflightFails(n) \/ SetupFails(n) \/ Launch(n) \/ Joined(n)
    \/ Snapshot(n) \/ Inject(n) \/ Refused(n) \/ ShowOutput(n)
    \/ WriteFrame(n)

RunStep(n) ==
    \/ OpenTalk(n) \/ SeatFails(n) \/ Seated(n) \/ Hear(n) \/ LoopStops(n)
    \/ Hangup(n) \/ ClearRouter(n) \/ Fails(n) \/ WriteManifest(n) \/ Returns(n)

Next ==
    \/ ReadFrame \/ Eof \/ ReadFails \/ Drained
    \/ \E n \in Calls : Dispatch(n) \/ RunStep(n)

Spec == Init /\ [][Next]_vars

(* The task polls every dispatch that can go on, and the scheduler every    *)
(* run; a conversation ends, as the router's does (Router!RouterEnds).  A   *)
(* run returns or fails: no agent or command of it works for ever, though   *)
(* no deadline sees to that.  The client may stop sending and keep stdin    *)
(* open, but it reads stdout: a dispatch waits at server.rs:299 for as long *)
(* as the pipe is full.                                                    *)
Fairness ==
    /\ \A n \in Calls :
          /\ WF_vars(Dispatch(n))
          /\ WF_vars(Seated(n) \/ SeatFails(n) \/ LoopStops(n))
          /\ WF_vars(Hangup(n) \/ ClearRouter(n))
          /\ WF_vars(OpenTalk(n) \/ WriteManifest(n) \/ Returns(n))
    /\ WF_vars(Drained)

FairSpec == Spec /\ Fairness

---------------------------------------------------------------------------
Says == {"nothing", "parse_error", "method_not_found", "invalid_params", "unknown_tool",
         "ok", "flow_missing", "internal_error", "done", "result", "delivered",
         "conversation_inactive", "run_not_found", "running"}
Codes   == [id : 0 .. MaxFrames, says : Says]
Shapes  == {"none"} \cup UNION {s.shapes : s \in Scenes}
Records == {<<>>} \cup {s.records : s \in Scenes}

RunStates ==
    [at : {"none", "busy", "seating", "talk", "deaf", "gone", "wreck", "failed",
           "written", "returned"},
     talk : Nat, shape : Shapes, manifest : BOOLEAN, records : Records]

TypeOK ==
    /\ scene \in Scenes
    /\ loop \in {"serving", "draining", "ended", "aborted"}
    /\ pipe \in {"up", "down"}
    /\ read \in 0 .. Len(frames)
    /\ pc \in [Calls -> {"none", "ready", "await", "send", "reply", "over", "dropped"}]
    /\ code \in [Calls -> Codes]
    /\ dest \in [Calls -> (0 .. MaxFrames) \X Nat]
    /\ out \in Seq(Codes)
    /\ slots \subseteq Calls
    /\ run \in [Calls -> RunStates]
    /\ chan \in [Calls -> Seq(Calls)]
    /\ \A n \in Calls : Len(chan[n]) <= Room
    /\ heard \in [Calls -> Seq([call : Calls, talk : Nat])]

Asks(n) == frames[n].id \/ frames[n].method = "unreadable"
Entries(n) == {k \in DOMAIN out : out[k] = code[n]}

(* Every request is answered once at most, with its own id; a notification  *)
(* never is; and when the server has returned after EOF and stdout took     *)
(* everything, no request is without its answer (server.rs: the drain after *)
(* the loop).                                                              *)
OneResponse ==
    /\ \A n \in Read : code[n].id = n => Cardinality(Entries(n)) <= 1
    /\ \A k \in DOMAIN out : out[k].id = 0 \/ frames[out[k].id].id
    /\ loop = "ended" /\ pipe = "up" =>
          Len(out) = Cardinality({n \in Read : Asks(n)})

(* The registry holds exactly the runs some run_flow call is waiting for,   *)
(* however that call ended (SlotGuard).                                    *)
SlotsInFlight ==
    slots = {n \in Calls : pc[n] = "await" /\ frames[n].tool = "run_flow"}

(* A line a client was told is delivered went to the one conversation that  *)
(* was live when the call looked, is taken there at most once, and is lost  *)
(* only together with that conversation (live_routers, inject).            *)
LineKeepsItsTalk ==
    /\ \A m \in Calls : \A k \in DOMAIN heard[m] :
          dest[heard[m][k].call] = <<m, heard[m][k].talk>>
    /\ \A n \in Read : code[n].says = "delivered" =>
          LET m == Target(n)
              took == {k \in DOMAIN heard[m] : heard[m][k].call = n}
              waits == {k \in DOMAIN chan[m] : chan[m][k] = n}
          IN /\ Cardinality(took) + Cardinality(waits) <= 1
             /\ Listening(m, dest[n][2]) => took \cup waits # {}

(* No run is cut off in the middle by a server that ended well: it waits    *)
(* for the dispatches, and they for their runs.                            *)
NoRunCutOff == loop = "ended" => \A n \in Calls : ~Active(n)

(* What a workflow tool reports is what the run recorded for its step: its   *)
(* findings are the bullets of their section, whole, in order, and none of  *)
(* another section, whatever stands between a bullet and the next (of a     *)
(* section with prose there nothing is said); its verdict is the first the  *)
(* record gives, whatever follows it (workflow.rs:522-532, 496-507).        *)
ReportIsRead ==
    \A n \in Read : pc[n] = "reply" /\ code[n].says = "result" =>
        LET report == OutputFor(scene.records)
        IN /\ \A name \in Headings :
                 Noisy(report, name)
                     \/ FindingsAreBullets(report, name, Result(n).findings[name])
           /\ \A k \in DOMAIN report :
                 report[k].says \in Verdicts /\ report[k].says # Result(n).verdict =>
                     \E j \in 1 .. k - 1 : report[j].says = Result(n).verdict

(* Every frame the server took is dealt with, unless a failed read ends the *)
(* server: a call never waits for ever, for room in a channel nobody reads  *)
(* least of all.                                                           *)
CallEnds ==
    \A n \in Calls :
        pc[n] = "ready" ~> (loop = "aborted" \/ pc[n] = "over")

=============================================================================
