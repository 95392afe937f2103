------------------------------- MODULE Router -------------------------------
(***************************************************************************)
(* One conversation step: the router, its reader tasks, the agents behind  *)
(* their transports, and the human who may interject.                      *)
(*                                                                         *)
(* A reader task per agent moves fragments from the agent's transport into *)
(* one bounded event channel. The router takes an event at a time, logs    *)
(* it, and broadcasts a result to the other agents before it looks whether *)
(* the conversation is over. Human lines arrive through a second bounded   *)
(* channel, fed by the terminal and by send_message calls, which find the  *)
(* channel's sender in the slot of the run state.                          *)
(***************************************************************************)
EXTENDS Integers, Sequences, FiniteSets, SequencesExt

CONSTANTS
  Roster,    \* the participants, in the order the step declares them
  Callers,   \* send_message calls over the life of the conversation
  Scenes,    \* the settings in which the step runs, see Scene
  MaxTurns,  \* RouterConfig.max_turns
  EventCap,  \* capacity of the event channel
  HumanCap,  \* capacity of the human channel
  PipeCap    \* what fits into the stdin pipe of an agent

Agents == {Roster[i] : i \in 1..Len(Roster)}

\* tty: stdin is a terminal. published: the step runs under a RunHandle, so
\* its run state has a slot for the accessor. serving: an MCP server runs it.
\* The rest bounds what the environment does: the lines that are typed, the
\* calls that are made, the fragments each agent emits and of which kind, and
\* whether agents may exit or become unreadable.
Scene ==
  [tty : BOOLEAN, published : BOOLEAN, serving : BOOLEAN,
   lines : Nat, callers : SUBSET Callers, speech : Nat,
   voice : SUBSET {"talk", "done", "note"},
   mortal : BOOLEAN]

ASSUME RosterAssumption ==
  /\ Roster \in Seq(Agents)
  /\ Len(Roster) >= 2
  /\ \A i, j \in 1..Len(Roster) : Roster[i] = Roster[j] => i = j
  /\ Agents \cap {"seed", "human", "router"} = {}

ASSUME CapAssumption ==
  /\ MaxTurns \in Nat \ {0} /\ EventCap \in Nat \ {0}
  /\ HumanCap \in Nat \ {0} /\ PipeCap \in Nat \ {0}
  /\ Scenes \subseteq Scene

VARIABLES
  scene,
  \* the agents and their transports
  mind,    \* an agent: "idle", "thinking" about what it has read, "exited", or
           \* "mute": its transport's parser met a line that it could not read
  inbox,   \* messages in its stdin pipe
  outbox,  \* fragments its transport has parsed and nobody has received
  ears,    \* human messages it has read
  speech,  \* fragments its transport has parsed
  \* the reader tasks
  reader, hold,
  \* the router
  pc, events, todo, turns, last, log, reason,
  \* the human side
  human, stdin, lines, slot, calls

agentVars  == <<mind, inbox, outbox, ears, speech>>
readerVars == <<reader, hold>>
routerVars == <<pc, events, todo, turns, last, log, reason>>
humanVars  == <<human, stdin, lines, slot, calls>>
vars == <<scene, agentVars, readerVars, routerVars, humanVars>>

Silence == [from |-> "router", kind |-> "none", text |-> "none", ears |-> 0]

Seed == [from |-> "seed", text |-> "talk"]

\* A fragment of an agent: a result that agrees or not, or a note, which
\* stands for text deltas and tool announcements.
Fragments ==
  [from : Agents, kind : {"result"}, text : {"talk", "done"}, ears : Nat]
    \cup [from : Agents, kind : {"note"}, text : {"none"}, ears : Nat]

Utterance(e) == [from |-> e.from, text |-> e.text]

Entry(kind, who, said) == [kind |-> kind, who |-> who, said |-> said]

\* The readers are told to stop and the receiver of the event channel is
\* dropped when the loop has ended; that of the human channel when run returns.
Cancelled == pc = "join"

\* Mutant: the receiver of the event channel lives until run returns.
EventsOpenLong == pc \in {"deliver", "select", "join"}

EventsOpen == pc \in {"deliver", "select"}

HumanOpen == pc \in {"setup", "deliver", "select", "join"}

HasHumanChannel == scene.published \/ scene.tty

\* Who holds a sender of the human channel: the slot, the terminal's
\* forwarder, and every call that took a copy from the slot.
Senders ==
  (IF slot THEN {"slot"} ELSE {})
    \cup (IF stdin \in {"reading", "sending"} THEN {"stdin"} ELSE {})
    \cup {c \in Callers : calls[c] = "sending"}

-----------------------------------------------------------------------------
(* The agents behind their transports: external, and of no interest once the *)
(* loop has ended and nothing they say is received.                         *)

Attached == pc \in {"deliver", "select"}

\* An agent takes the next message off its stdin.
Listen(a) ==
  /\ Attached /\ mind[a] # "exited" /\ inbox[a] # <<>>
  /\ inbox' = [inbox EXCEPT ![a] = Tail(@)]
  /\ mind'  = [mind EXCEPT ![a] = IF @ = "mute" THEN @ ELSE "thinking"]
  /\ ears'  = [ears EXCEPT ![a] = IF Head(inbox[a]).from = "human" THEN @ + 1 ELSE @]
  /\ UNCHANGED <<scene, outbox, speech, readerVars, routerVars, humanVars>>

\* Its turn ends with one result.
Reply(a) ==
  /\ Attached /\ mind[a] = "thinking" /\ speech[a] < scene.speech
  /\ speech' = [speech EXCEPT ![a] = @ + 1]
  /\ \E t \in scene.voice \ {"note"} :
       outbox' = [outbox EXCEPT ![a] = Append(@,
         [from |-> a, kind |-> "result", text |-> t, ears |-> ears[a]])]
  /\ mind' = [mind EXCEPT ![a] = "idle"]
  /\ UNCHANGED <<scene, inbox, ears, readerVars, routerVars, humanVars>>

Note(a) ==
  /\ Attached /\ mind[a] = "thinking" /\ speech[a] < scene.speech
  /\ "note" \in scene.voice
  /\ speech'  = [speech EXCEPT ![a] = @ + 1]
  /\ outbox' = [outbox EXCEPT ![a] = Append(@,
       [from |-> a, kind |-> "note", text |-> "none", ears |-> ears[a]])]
  /\ UNCHANGED <<scene, mind, inbox, ears, readerVars, routerVars, humanVars>>

\* A line that is no text ends its transport's parser, and with it all that is
\* heard of the agent; it is still sent what the others say.
Garble(a) ==
  /\ scene.mortal /\ Attached /\ mind[a] \in {"idle", "thinking"}
  /\ mind' = [mind EXCEPT ![a] = "mute"]
  /\ UNCHANGED <<scene, inbox, outbox, ears, speech, readerVars, routerVars, humanVars>>

Exit(a) ==
  /\ scene.mortal /\ Attached /\ mind[a] # "exited"
  /\ mind'  = [mind EXCEPT ![a] = "exited"]
  /\ inbox' = [inbox EXCEPT ![a] = <<>>]
  /\ UNCHANGED <<scene, outbox, ears, speech, readerVars, routerVars, humanVars>>

-----------------------------------------------------------------------------
(* The reader task of an agent.                                             *)

\* It receives a fragment and sends it on: at once if the event channel has
\* room, else it holds the fragment and waits.
Carry(a) ==
  /\ reader[a] = "recv" /\ outbox[a] # <<>> /\ EventsOpen
  /\ outbox' = [outbox EXCEPT ![a] = Tail(@)]
  /\ \/ /\ Len(events) < EventCap
        /\ events' = Append(events, Head(outbox[a]))
        /\ UNCHANGED readerVars
     \/ /\ Len(events) = EventCap
        /\ hold'   = [hold EXCEPT ![a] = Head(outbox[a])]
        /\ reader' = [reader EXCEPT ![a] = "send"]
        /\ UNCHANGED events
  /\ UNCHANGED <<scene, mind, inbox, ears, speech, pc, todo, turns, last, log, reason,
                 humanVars>>

Push(a) ==
  /\ reader[a] = "send" /\ EventsOpen /\ Len(events) < EventCap
  /\ events' = Append(events, hold[a])
  /\ hold'   = [hold EXCEPT ![a] = Silence]
  /\ reader' = [reader EXCEPT ![a] = "recv"]
  /\ UNCHANGED <<scene, agentVars, pc, todo, turns, last, log, reason, humanVars>>

\* Mutant: the wait for room ends with the child, the fragment still in hand.
StopMidSend(a) ==
  /\ \/ reader[a] = "recv" /\ outbox[a] = <<>> /\ mind[a] \in {"exited", "mute"}
     \/ reader[a] = "recv" /\ Cancelled
     \/ reader[a] = "send" /\ (Cancelled \/ mind[a] = "exited")
  /\ reader' = [reader EXCEPT ![a] = "stopped"]
  /\ hold'   = [hold EXCEPT ![a] = Silence]
  /\ UNCHANGED <<scene, agentVars, routerVars, humanVars>>

\* The end of what its transport hears, the cancel signal, or a send into the
\* closed channel. While a send waits for room the cancel signal is not looked
\* at.
StopReading(a) ==
  /\ \/ reader[a] = "recv" /\ outbox[a] = <<>> /\ mind[a] \in {"exited", "mute"}
     \/ reader[a] = "recv" /\ Cancelled
     \/ reader[a] = "send" /\ Cancelled /\ ~EventsOpen
  /\ reader' = [reader EXCEPT ![a] = "stopped"]
  /\ hold'   = [hold EXCEPT ![a] = Silence]
  /\ UNCHANGED <<scene, agentVars, routerVars, humanVars>>

-----------------------------------------------------------------------------
(* The router.                                                              *)

\* The accessor is published before the transports are spawned.
Publish ==
  /\ pc = "setup" /\ slot = FALSE /\ scene.published
  /\ slot' = TRUE
  /\ UNCHANGED <<scene, agentVars, readerVars, routerVars, human, stdin, lines, calls>>

\* All transports are up and the readers attached: the seed goes to all.
Begin ==
  /\ pc = "setup" /\ slot = scene.published
  /\ pc'   = "deliver"
  /\ todo' = [to |-> Roster, said |-> Seed]
  /\ reader' = [a \in Agents |-> "recv"]
  /\ UNCHANGED <<scene, agentVars, hold, events, turns, last, log, reason, humanVars>>

\* A transport cannot be spawned: the step returns without clearing the slot.
SpawnFails ==
  /\ pc = "setup" /\ slot = scene.published
  /\ pc' = "failed"
  /\ human' = <<>>
  /\ UNCHANGED <<scene, agentVars, readerVars, events, todo, turns, last, log, reason,
                 stdin, lines, slot, calls>>

\* Everybody but one agent, in the order of the roster.
Others(a) ==
  LET k == CHOOSE i \in 1..Len(Roster) : Roster[i] = a
  IN  SubSeq(Roster, 1, k - 1) \o SubSeq(Roster, k + 1, Len(Roster))

\* One event off the channel. A result is counted, remembered and on its way
\* to the others; anything else is only logged.
Receive ==
  /\ pc = "select" /\ events # <<>>
  /\ events' = Tail(events)
  /\ LET e == Head(events) IN
     \/ /\ e.kind = "result"
        /\ log'   = Append(log, Entry("in", e.from, Utterance(e)))
        /\ turns' = turns + 1
        /\ last'  = [last EXCEPT ![e.from] = e]
        /\ todo'  = [to |-> Others(e.from), said |-> Utterance(e)]
        /\ pc'    = "deliver"
     \/ /\ e.kind = "note"
        /\ log' = Append(log, Entry("note", e.from, Utterance(e)))
        /\ UNCHANGED <<turns, last, todo, pc>>
  /\ UNCHANGED <<scene, agentVars, readerVars, reason, humanVars>>

\* The select is biased: the human channel is looked at when the event
\* channel has nothing to offer.
Quiet ==
  /\ pc = "select" /\ events = <<>>
  /\ \E a \in Agents : reader[a] # "stopped"

\* Mutant: a human message leaves the latest results alone.
HearSoftly ==
  /\ Quiet /\ human # <<>>
  /\ human' = Tail(human)
  /\ log'   = Append(log, Entry("in", "human", [from |-> "human", text |-> Head(human)]))
  /\ todo'  = [to |-> Roster, said |-> [from |-> "human", text |-> Head(human)]]
  /\ pc'    = "deliver"
  /\ UNCHANGED <<scene, agentVars, readerVars, events, turns, last, reason,
                 stdin, lines, slot, calls>>

\* A human message opens a new round and goes to all.
Hear ==
  /\ Quiet /\ human # <<>>
  /\ human' = Tail(human)
  /\ log'   = Append(log, Entry("in", "human", [from |-> "human", text |-> Head(human)]))
  /\ last'  = [a \in Agents |-> Silence]
  /\ todo'  = [to |-> Roster, said |-> [from |-> "human", text |-> Head(human)]]
  /\ pc'    = "deliver"
  /\ UNCHANGED <<scene, agentVars, readerVars, events, turns, reason,
                 stdin, lines, slot, calls>>

\* Mutant: the first failed send ends the broadcast.
DeliverOrQuit ==
  /\ pc = "deliver" /\ todo.to # <<>>
  /\ LET a == Head(todo.to) IN
     \/ /\ mind[a] # "exited" /\ Len(inbox[a]) < PipeCap
        /\ inbox' = [inbox EXCEPT ![a] = Append(@, todo.said)]
        /\ log'   = Append(log, Entry("out", a, todo.said))
        /\ todo'  = [todo EXCEPT !.to = Tail(@)]
     \/ /\ mind[a] = "exited"
        /\ log' = Append(log, Entry("failed", a, todo.said))
        /\ todo' = [todo EXCEPT !.to = <<>>]
        /\ UNCHANGED inbox
  /\ UNCHANGED <<scene, mind, outbox, ears, speech, readerVars, pc, events, turns, last,
                 reason, humanVars>>

\* One send of the broadcast: it waits for room in the agent's pipe. A send
\* to an agent that is gone fails and the broadcast goes on.
Deliver ==
  /\ pc = "deliver" /\ todo.to # <<>>
  /\ LET a == Head(todo.to) IN
     \/ /\ mind[a] # "exited" /\ Len(inbox[a]) < PipeCap
        /\ inbox' = [inbox EXCEPT ![a] = Append(@, todo.said)]
        /\ log'   = Append(log, Entry("out", a, todo.said))
     \/ /\ mind[a] = "exited"
        /\ log' = Append(log, Entry("failed", a, todo.said))
        /\ UNCHANGED inbox
  /\ todo' = [todo EXCEPT !.to = Tail(@)]
  /\ UNCHANGED <<scene, mind, outbox, ears, speech, readerVars, pc, events, turns, last,
                 reason, humanVars>>

\* The loop ends: the reason is logged, the event channel closed, the readers
\* told to stop.
Stop(r) ==
  /\ reason' = r
  /\ log'    = Append(log, Entry("end", "router", [from |-> "router", text |-> r]))
  /\ events' = <<>>
  /\ pc'     = "join"

Unanimous == \A a \in Agents : last[a].text = "done"

\* What the end of a loop iteration leaves alone.
Rest == UNCHANGED <<scene, agentVars, readerVars, turns, last, humanVars>>

NoTodo == [to |-> <<>>, said |-> Seed]

\* After a broadcast: a result may end the conversation, the cap on turns
\* first. The seed and human messages never do.
Judge ==
  /\ pc = "deliver" /\ todo.to = <<>> /\ todo' = NoTodo
  /\ \/ /\ todo.said.from \in Agents /\ turns >= MaxTurns
        /\ Stop("max_turns")
     \/ /\ todo.said.from \in Agents /\ turns < MaxTurns /\ Unanimous
        /\ Stop("convergence")
     \/ /\ todo.said.from \notin Agents \/ ~(turns >= MaxTurns \/ Unanimous)
        /\ pc' = "select"
        /\ UNCHANGED <<events, log, reason>>
  /\ Rest

\* The timer of this iteration, which is polled first.
TimeOut == pc = "select" /\ Stop("timeout") /\ UNCHANGED todo /\ Rest

\* Every reader has dropped its sender and the channel is drained.
AgentsGone ==
  /\ pc = "select" /\ events = <<>>
  /\ \A a \in Agents : reader[a] = "stopped"
  /\ Stop("all_agents_closed") /\ UNCHANGED todo /\ Rest

HumanGone ==
  /\ Quiet /\ HasHumanChannel /\ human = <<>> /\ Senders = {}
  /\ Stop("human_closed") /\ UNCHANGED todo /\ Rest

\* All readers have been joined: run returns and its receivers are dropped.
Return ==
  /\ pc = "join" /\ \A a \in Agents : reader[a] = "stopped"
  /\ pc' = "over"
  /\ human' = <<>>
  /\ UNCHANGED <<scene, agentVars, readerVars, events, todo, turns, last, log, reason,
                 stdin, lines, slot, calls>>

\* The step clears the slot; after a failed setup the end of the run does.
ClearRouter ==
  /\ pc \in {"over", "failed"}
  /\ pc'   = "done"
  /\ slot' = FALSE
  /\ UNCHANGED <<scene, agentVars, readerVars, events, todo, turns, last, log, reason,
                 human, stdin, lines, calls>>

-----------------------------------------------------------------------------
(* The human side.                                                         *)

\* A line is typed at the terminal; the forwarder skips a blank one.
Type ==
  /\ stdin = "reading" /\ lines < scene.lines
  /\ stdin' = "sending" /\ lines' = lines + 1
  /\ UNCHANGED <<scene, agentVars, readerVars, routerVars, human, slot, calls>>

\* It goes into the channel when there is room. The forwarder ends when the
\* channel turns out to be closed.
Forward ==
  /\ stdin = "sending"
  /\ \/ /\ HumanOpen /\ Len(human) < HumanCap
        /\ human' = Append(human, "stdin")
        /\ stdin' = "reading"
     \/ /\ ~HumanOpen
        /\ stdin' = "gone"
        /\ UNCHANGED human
  /\ UNCHANGED <<scene, agentVars, readerVars, routerVars, lines, slot, calls>>

\* The end of the terminal's input ends the forwarder.
CtrlD ==
  /\ stdin = "reading" /\ stdin' = "gone"
  /\ UNCHANGED <<scene, agentVars, readerVars, routerVars, human, lines, slot, calls>>

\* send_message looks into the slot of the one run of its session.
Call(c) ==
  /\ scene.serving /\ c \in scene.callers /\ calls[c] = "idle"
  /\ calls' = [calls EXCEPT ![c] = IF slot THEN "sending" ELSE "inactive"]
  /\ UNCHANGED <<scene, agentVars, readerVars, routerVars, human, stdin, lines, slot>>

\* Mutant: a call waits on, whether or not the channel is closed.
InjectIfOpen(c) ==
  /\ calls[c] = "sending"
  /\ HumanOpen /\ Len(human) < HumanCap
  /\ human' = Append(human, c)
  /\ calls' = [calls EXCEPT ![c] = "delivered"]
  /\ UNCHANGED <<scene, agentVars, readerVars, routerVars, stdin, lines, slot>>

\* The call's line goes into the channel when there is room; a closed channel
\* is reported as the lack of a conversation.
Inject(c) ==
  /\ calls[c] = "sending"
  /\ \/ /\ HumanOpen /\ Len(human) < HumanCap
        /\ human' = Append(human, c)
        /\ calls' = [calls EXCEPT ![c] = "delivered"]
     \/ /\ ~HumanOpen
        /\ calls' = [calls EXCEPT ![c] = "inactive"]
        /\ UNCHANGED human
  /\ UNCHANGED <<scene, agentVars, readerVars, routerVars, stdin, lines, slot>>

-----------------------------------------------------------------------------

Init ==
  /\ scene \in Scenes
  /\ mind   = [a \in Agents |-> "idle"]
  /\ inbox  = [a \in Agents |-> <<>>]
  /\ outbox = [a \in Agents |-> <<>>]
  /\ ears   = [a \in Agents |-> 0]
  /\ speech  = [a \in Agents |-> 0]
  /\ reader = [a \in Agents |-> "unborn"]
  /\ hold   = [a \in Agents |-> Silence]
  /\ pc = "setup" /\ events = <<>> /\ todo = NoTodo /\ turns = 0
  /\ last = [a \in Agents |-> Silence]
  /\ log = <<>> /\ reason = "none"
  /\ human = <<>> /\ lines = 0 /\ slot = FALSE
  /\ stdin = IF scene.tty THEN "reading" ELSE "absent"
  /\ calls = [c \in Callers |-> "idle"]

RouterStep ==
  \/ Publish \/ Begin \/ Receive \/ Hear \/ Deliver \/ Judge
  \/ TimeOut \/ AgentsGone \/ HumanGone \/ Return \/ ClearRouter

ReaderStep(a) == Carry(a) \/ Push(a) \/ StopReading(a)

AgentStep(a) == Listen(a) \/ Reply(a) \/ Note(a) \/ Garble(a) \/ Exit(a)

HumanStep ==
  \/ Type \/ Forward \/ CtrlD
  \/ \E c \in Callers : Call(c) \/ Inject(c)

\* The step is over, every call has its answer and the terminal is closed.
AtRest ==
  /\ pc = "done" /\ stdin \in {"absent", "gone"}
  /\ scene.serving => \A c \in scene.callers : calls[c] \in {"delivered", "inactive"}
  /\ UNCHANGED vars

Next ==
  \/ RouterStep \/ SpawnFails \/ HumanStep
  \/ \E a \in Agents : ReaderStep(a) \/ AgentStep(a)

Spec == Init /\ [][Next \/ AtRest]_vars

\* The runtime runs every task that is ready, and the timer fires if nothing
\* else happens. Agents owe nothing: they may fall silent or hang.
TaskFairness ==
  /\ WF_vars(RouterStep)
  /\ \A a \in Agents : WF_vars(ReaderStep(a))
  /\ WF_vars(Forward)
  /\ \A c \in Callers : WF_vars(Inject(c))

\* Agents that read what they are sent, whatever else they do or leave.
FairSpec == Spec /\ TaskFairness /\ \A a \in Agents : WF_vars(Listen(a))

-----------------------------------------------------------------------------
(* Properties.                                                              *)

Results == {e \in Fragments : e.kind = "result"}

Reasons == {"none", "max_turns", "convergence", "timeout", "human_closed",
            "all_agents_closed"}

Utterances ==
  [from : Agents \cup {"seed", "human", "router"},
   text : {"talk", "done", "none", "stdin"} \cup Callers \cup Reasons]

TransportTypeOK ==
  /\ mind   \in [Agents -> {"idle", "thinking", "mute", "exited"}]
  /\ inbox  \in [Agents -> Seq(Utterances)]
  /\ outbox \in [Agents -> Seq(Fragments)]
  /\ ears   \in [Agents -> Nat]
  /\ speech  \in [Agents -> 0..scene.speech]
  /\ reader \in [Agents -> {"unborn", "recv", "send", "stopped"}]
  /\ hold   \in [Agents -> Fragments \cup {Silence}]
  /\ \A a \in Agents : Len(inbox[a]) <= PipeCap

LoopTypeOK ==
  /\ pc     \in {"setup", "deliver", "select", "join", "over", "done", "failed"}
  /\ events \in Seq(Fragments) /\ Len(events) <= EventCap
  /\ todo   \in [to : Seq(Agents), said : Utterances]
  /\ turns  \in Nat
  /\ last   \in [Agents -> Results \cup {Silence}]
  /\ log    \in Seq([kind : {"in", "note", "out", "failed", "end"},
                     who : Agents \cup {"human", "router"}, said : Utterances])
  /\ reason \in Reasons

HumanTypeOK ==
  /\ scene \in Scenes
  /\ human \in Seq(Callers \cup {"stdin"}) /\ Len(human) <= HumanCap
  /\ stdin \in {"absent", "reading", "sending", "gone"}
  /\ lines \in 0..scene.lines
  /\ slot \in BOOLEAN
  /\ calls \in [Callers -> {"idle", "sending", "delivered", "inactive"}]

\* Every variable has its type and no channel exceeds its capacity.
TypeOK == TransportTypeOK /\ LoopTypeOK /\ HumanTypeOK

\* What an entry of the log says to the others than a, what it offers to a: one
\* utterance or none.
SaysTo(a, x) == IF x.kind = "in" /\ x.said.from # a THEN <<x.said>> ELSE <<>>

Offers(a, x) == IF x.kind \in {"out", "failed"} /\ x.who = a THEN <<x.said>> ELSE <<>>

SaidToOthers(a) == FlattenSeq([i \in DOMAIN log |-> SaysTo(a, log[i])])

Offered(a) == FlattenSeq([i \in DOMAIN log |-> Offers(a, log[i])])

Awaits(a) == \E i \in 1..Len(todo.to) : todo.to[i] = a

\* The router is a broadcast: every agent is offered the seed and then all that the
\* others and the human say, once, in the order in which it was said, the
\* last utterance before the end included.
OfferedInOrder ==
  \A a \in Agents : pc \notin {"setup", "failed", "done"} \/ log # <<>> =>
    Offered(a) \o (IF Awaits(a) THEN <<todo.said>> ELSE <<>>)
      = <<Seed>> \o SaidToOthers(a)

\* The cap on turns is hard: no agent utterance is logged beyond it.
TurnsCapped ==
  Cardinality({i \in 1..Len(log) : log[i].kind = "in" /\ log[i].who \in Agents})
    <= MaxTurns

\* The entries of the log that a fragment of a left there.
HeardOf(a) == {i \in 1..Len(log) : log[i].kind \in {"in", "note"} /\ log[i].who = a}

\* If the conversation ends because all agents have left, every fragment that
\* the transport of any of them had parsed is in the log: none was left in the
\* transport, in the hands of a reader task that waited for room, or in the
\* event channel, which is dropped at the end.
LastWordsHeard ==
  reason = "all_agents_closed" =>
    \A a \in Agents : Cardinality(HeardOf(a)) = speech[a]

\* A convergence is about the latest human message: every agent had read it
\* when it agreed.
ConvergedOnLatest ==
  reason = "convergence" =>
    \A a \in Agents : last[a].ears =
      Cardinality({i \in 1..Len(log) : log[i].kind = "in" /\ log[i].who = "human"})

\* A conversation that has begun returns to its step.
RouterEnds == EventsOpen ~> pc = "done"

\* A send_message call is answered.
CallAnswered ==
  \A c \in Callers : calls[c] = "sending" ~> calls[c] \in {"delivered", "inactive"}

-----------------------------------------------------------------------------
(* The conversation without its machinery.                                  *)

\* A human line is talk, whatever it says.
Plain(u) == [from |-> u.from, text |-> IF u.from = "human" THEN "talk" ELSE u.text]

Uttered(x) == IF x.kind = "in" THEN <<Plain(x.said)>> ELSE <<>>

Talk == INSTANCE Discourse WITH
  said <- FlattenSeq([i \in DOMAIN log |-> Uttered(log[i])])

\* The router's log and its end are those of a discourse.
DiscourseRefined == Talk!Spec
==============================================================================
