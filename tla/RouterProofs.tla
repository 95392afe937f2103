---------------------------- MODULE RouterProofs ----------------------------
(***************************************************************************)
(* Theorems about Router, for every roster, every set of scenes and calls, *)
(* and every capacity of the channels.                                     *)
(***************************************************************************)
EXTENDS Router, SequenceLemmas, FiniteSetTheorems

-----------------------------------------------------------------------------
(* The roster.                                                              *)

\* A roster entry is an agent, and the others are agents.
LEMMA OthersAreAgents ==
  ASSUME NEW a \in Agents
  PROVE  Others(a) \in Seq(Agents)
<1> DEFINE k == CHOOSE i \in 1..Len(Roster) : Roster[i] = a
<1>1. k \in 1..Len(Roster)
  BY DEF Agents
<1>2. Roster \in Seq(Agents) /\ Len(Roster) \in Nat
  BY RosterAssumption, LenProperties
<1>3. \A i \in 1..Len(Roster) : Roster[i] \in Agents
  BY DEF Agents
<1>4. /\ SubSeq(Roster, 1, k - 1) \in Seq(Agents)
      /\ SubSeq(Roster, k + 1, Len(Roster)) \in Seq(Agents)
  <2>1. k - 1 \in Int /\ k + 1 \in Int /\ Len(Roster) \in Int /\ 1 \in Int
    BY <1>1, <1>2
  <2>2. \A i \in 1..(k - 1) : Roster[i] \in Agents
    BY <1>1, <1>2, <1>3
  <2>3. \A i \in (k + 1)..Len(Roster) : Roster[i] \in Agents
    BY <1>1, <1>2, <1>3
  <2>4. SubSeq(Roster, 1, k - 1) \in Seq(Agents)
    BY <2>1, <2>2, SubSeqProperties
  <2>5. SubSeq(Roster, k + 1, Len(Roster)) \in Seq(Agents)
    BY <2>1, <2>3, SubSeqProperties
  <2> QED BY <2>4, <2>5
<1>5. SubSeq(Roster, 1, k - 1) \o SubSeq(Roster, k + 1, Len(Roster)) \in Seq(Agents)
  BY <1>4, ConcatProperties
<1> QED BY <1>5 DEF Others

-----------------------------------------------------------------------------
(* Type correctness.                                                        *)

\* A reader that waits to send holds a fragment.
HoldInv == \A a \in Agents : reader[a] = "send" => hold[a] \in Fragments

TypeInv == TypeOK /\ HoldInv

LogKinds == {"in", "note", "out", "failed", "end"}

Entries == [kind : LogKinds, who : Agents \cup {"human", "router"}, said : Utterances]

USE DEF TypeInv, HoldInv, TypeOK, TransportTypeOK, LoopTypeOK, HumanTypeOK,
        agentVars, readerVars, routerVars, humanVars, Entries, LogKinds

LEMMA InitTypes == Init => TypeInv
<1> SUFFICES ASSUME Init PROVE TypeInv
  OBVIOUS
<1>1. scene \in Scene
  BY CapAssumption DEF Init
<1>2. TransportTypeOK /\ HoldInv
  <2>1. /\ inbox \in [Agents -> Seq(Utterances)] /\ outbox \in [Agents -> Seq(Fragments)]
        /\ \A a \in Agents : Len(inbox[a]) <= PipeCap
    BY CapAssumption, EmptySeq DEF Init
  <2>2. 0 \in 0..scene.speech
    BY <1>1 DEF Scene
  <2>3. HoldInv
    BY DEF Init
  <2> QED BY <2>1, <2>2, <2>3 DEF Init
<1>3. LoopTypeOK
  BY CapAssumption, EmptySeq DEF Init, NoTodo, Seed, Utterances, Reasons
<1>4. HumanTypeOK
  <2>1. human \in Seq(Callers \cup {"stdin"}) /\ Len(human) <= HumanCap
    BY CapAssumption, EmptySeq DEF Init
  <2>2. lines \in 0..scene.lines
    BY <1>1 DEF Init, Scene
  <2>3. stdin \in {"absent", "reading", "sending", "gone"}
    <3>1. scene.tty \in BOOLEAN
      BY <1>1 DEF Scene
    <3> QED BY <3>1 DEF Init
  <2>4. /\ scene \in Scenes /\ slot \in BOOLEAN
        /\ calls \in [Callers -> {"idle", "sending", "delivered", "inactive"}]
    BY DEF Init
  <2> QED BY <2>1, <2>2, <2>3, <2>4
<1> QED BY <1>2, <1>3, <1>4

\* A logged entry keeps the log typed.
LEMMA LogAppend ==
  ASSUME log \in Seq(Entries), NEW kind \in LogKinds,
         NEW who \in Agents \cup {"human", "router"}, NEW said \in Utterances
  PROVE  Append(log, Entry(kind, who, said)) \in Seq(Entries)
<1>1. Entry(kind, who, said) \in Entries
  BY DEF Entry
<1> QED BY <1>1, AppendProperties

LEMMA AgentTypes ==
  ASSUME TypeInv, NEW a \in Agents, AgentStep(a)
  PROVE  TypeInv'
<1>0. scene \in Scene
  BY CapAssumption
<1>1. CASE Listen(a)
  <2>1. Tail(inbox[a]) \in Seq(Utterances) /\ Len(Tail(inbox[a])) <= PipeCap
    BY <1>1, CapAssumption, HeadTailProperties, LenProperties DEF Listen
  <2> QED BY SMTT(40), <1>1, <2>1 DEF Listen
<1>2. CASE Reply(a)
  <2>1. PICK t \in scene.voice \ {"note"} :
          outbox' = [outbox EXCEPT ![a] = Append(@,
             [from |-> a, kind |-> "result", text |-> t, ears |-> ears[a]])]
    BY <1>2 DEF Reply
  <2>2. t \in {"talk", "done"}
    BY <1>0 DEF Scene
  <2>3. [from |-> a, kind |-> "result", text |-> t, ears |-> ears[a]] \in Fragments
    BY <2>2 DEF Fragments
  <2>4. outbox' \in [Agents -> Seq(Fragments)]
    BY <2>1, <2>3, AppendProperties
  <2>5. speech' \in [Agents -> 0..scene.speech]
    BY SMTT(30), <1>0, <1>2 DEF Reply, Scene
  <2> QED BY <1>2, <2>4, <2>5 DEF Reply
<1>3. CASE Note(a)
  <2>1. [from |-> a, kind |-> "note", text |-> "none", ears |-> ears[a]] \in Fragments
    BY DEF Fragments
  <2>2. outbox' \in [Agents -> Seq(Fragments)]
    BY <1>3, <2>1, AppendProperties DEF Note
  <2>3. speech' \in [Agents -> 0..scene.speech]
    BY SMTT(30), <1>0, <1>3 DEF Note, Scene
  <2> QED BY <1>3, <2>2, <2>3 DEF Note
<1>4. CASE Exit(a)
  BY SMTT(30), <1>4, CapAssumption, EmptySeq DEF Exit
<1>5. CASE Garble(a)
  BY <1>5 DEF Garble
<1> QED BY <1>1, <1>2, <1>3, <1>4, <1>5 DEF AgentStep

LEMMA ReaderTypes ==
  ASSUME TypeInv, NEW a \in Agents, ReaderStep(a)
  PROVE  TypeInv'
<1>1. CASE Carry(a)
  <2>1. Head(outbox[a]) \in Fragments /\ Tail(outbox[a]) \in Seq(Fragments)
    BY <1>1, HeadTailProperties DEF Carry
  <2>2. CASE Len(events) < EventCap /\ events' = Append(events, Head(outbox[a]))
             /\ UNCHANGED readerVars
    <3>1. events' \in Seq(Fragments) /\ Len(events') <= EventCap
      BY <2>1, <2>2, CapAssumption, AppendProperties, LenProperties
    <3> QED BY <1>1, <2>1, <2>2, <3>1 DEF Carry
  <2>3. CASE /\ hold'   = [hold EXCEPT ![a] = Head(outbox[a])]
             /\ reader' = [reader EXCEPT ![a] = "send"]
             /\ UNCHANGED events
    BY <1>1, <2>1, <2>3 DEF Carry
  <2> QED BY <1>1, <2>2, <2>3 DEF Carry
<1>2. CASE Push(a)
  <2>1. events' \in Seq(Fragments) /\ Len(events') <= EventCap
    BY <1>2, CapAssumption, AppendProperties, LenProperties DEF Push
  <2> QED BY <1>2, <2>1 DEF Push
<1>3. CASE StopReading(a)
  BY <1>3 DEF StopReading
<1> QED BY <1>1, <1>2, <1>3 DEF ReaderStep

\* The end of the loop keeps the types.
LEMMA StopTypes ==
  ASSUME TypeInv, NEW r \in Reasons, Stop(r), Rest, todo' \in {todo, NoTodo}
  PROVE  TypeInv'
<1>1. [from |-> "router", text |-> r] \in Utterances
  BY DEF Utterances
<1>2. log' \in Seq(Entries)
  BY <1>1, LogAppend DEF Stop
<1>3. events' \in Seq(Fragments) /\ Len(events') <= EventCap
  BY CapAssumption, EmptySeq DEF Stop
<1>4. NoTodo \in [to : Seq(Agents), said : Utterances]
  BY EmptySeq DEF NoTodo, Seed, Utterances
<1>5. LoopTypeOK'
  BY <1>2, <1>3, <1>4 DEF Stop, Rest
<1> QED BY <1>5 DEF Rest

LEMMA ReceiveTypes ==
  ASSUME TypeInv, Receive
  PROVE  TypeInv'
<1> DEFINE e == Head(events)
<1>1. e \in Fragments /\ events' \in Seq(Fragments) /\ Len(events') <= EventCap
  BY CapAssumption, HeadTailProperties, LenProperties DEF Receive
<1>2. Utterance(e) \in Utterances /\ e.from \in Agents
  BY <1>1 DEF Fragments, Utterance, Utterances
<1>3. CASE /\ e.kind = "result"
           /\ log'   = Append(log, Entry("in", e.from, Utterance(e)))
           /\ turns' = turns + 1
           /\ last'  = [last EXCEPT ![e.from] = e]
           /\ todo'  = [to |-> Others(e.from), said |-> Utterance(e)]
           /\ pc'    = "deliver"
  <2>1. e \in Results
    BY <1>1, <1>3 DEF Results
  <2>2. log' \in Seq(Entries)
    BY <1>2, <1>3, LogAppend
  <2>3. todo' \in [to : Seq(Agents), said : Utterances]
    BY <1>2, <1>3, OthersAreAgents
  <2>4. last' \in [Agents -> Results \cup {Silence}]
    BY <1>3, <2>1
  <2>5. UNCHANGED <<scene, agentVars, readerVars, reason, humanVars>>
    BY DEF Receive
  <2>6. turns' \in Nat /\ reason' \in Reasons /\ pc' = "deliver"
    BY <1>3, <2>5
  <2>7. LoopTypeOK'
    BY <1>1, <2>2, <2>3, <2>4, <2>6
  <2> QED BY <2>5, <2>7
<1>4. CASE /\ log' = Append(log, Entry("note", e.from, Utterance(e)))
           /\ UNCHANGED <<turns, last, todo, pc>>
  <2>1. log' \in Seq(Entries)
    BY <1>2, <1>4, LogAppend
  <2> QED BY <1>1, <1>4, <2>1 DEF Receive
<1> QED BY <1>3, <1>4 DEF Receive

LEMMA HearTypes ==
  ASSUME TypeInv, Hear
  PROVE  TypeInv'
<1> DEFINE u == [from |-> "human", text |-> Head(human)]
<1>1. /\ Head(human) \in Callers \cup {"stdin"}
      /\ human' \in Seq(Callers \cup {"stdin"}) /\ Len(human') <= HumanCap
  BY CapAssumption, HeadTailProperties, LenProperties DEF Hear
<1>2. u \in Utterances
  BY <1>1 DEF Utterances
<1>3. log' \in Seq(Entries)
  BY <1>2, LogAppend DEF Hear
<1>4. Roster \in Seq(Agents)
  BY RosterAssumption
<1>5. todo' \in [to : Seq(Agents), said : Utterances]
  BY <1>2, <1>4 DEF Hear
<1> QED BY <1>1, <1>3, <1>5 DEF Hear

LEMMA DeliverTypes ==
  ASSUME TypeInv, Deliver
  PROVE  TypeInv'
<1> DEFINE a == Head(todo.to)
<1>1. a \in Agents /\ Tail(todo.to) \in Seq(Agents) /\ todo.said \in Utterances
  BY HeadTailProperties DEF Deliver
<1>2. todo' \in [to : Seq(Agents), said : Utterances]
  BY <1>1 DEF Deliver
<1>3. CASE /\ Len(inbox[a]) < PipeCap
           /\ inbox' = [inbox EXCEPT ![a] = Append(@, todo.said)]
           /\ log'   = Append(log, Entry("out", a, todo.said))
  <2>0. /\ Append(inbox[a], todo.said) \in Seq(Utterances)
        /\ Len(Append(inbox[a], todo.said)) = Len(inbox[a]) + 1
    BY <1>1, AppendProperties
  <2>1. inbox' \in [Agents -> Seq(Utterances)] /\ \A b \in Agents : Len(inbox'[b]) <= PipeCap
    <3>1. Len(inbox[a]) \in Nat
      BY <1>1, LenProperties
    <3>2. inbox' \in [Agents -> Seq(Utterances)]
      BY <1>1, <1>3, <2>0
    <3>3. Len(inbox[a]) + 1 <= PipeCap
      BY <1>3, <3>1, CapAssumption
    <3>4. ASSUME NEW b \in Agents PROVE Len(inbox'[b]) <= PipeCap
      <4>1. CASE b = a
        BY <1>1, <1>3, <2>0, <3>3, <4>1
      <4>2. CASE b # a
        BY <1>3, <4>2
      <4> QED BY <4>1, <4>2
    <3> QED BY <3>2, <3>4
  <2>2. log' \in Seq(Entries)
    BY <1>1, <1>3, LogAppend
  <2> QED BY <1>2, <2>1, <2>2 DEF Deliver
<1>4. CASE /\ log' = Append(log, Entry("failed", a, todo.said))
           /\ UNCHANGED inbox
  <2>1. log' \in Seq(Entries)
    BY <1>1, <1>4, LogAppend
  <2> QED BY <1>2, <1>4, <2>1 DEF Deliver
<1> QED BY <1>3, <1>4 DEF Deliver

LEMMA JudgeTypes ==
  ASSUME TypeInv, Judge
  PROVE  TypeInv'
<1>1. CASE Stop("max_turns")
  BY <1>1, StopTypes DEF Judge, Reasons
<1>2. CASE Stop("convergence")
  BY <1>2, StopTypes DEF Judge, Reasons
<1>3. CASE pc' = "select" /\ UNCHANGED <<events, log, reason>>
  <2>1. todo' \in [to : Seq(Agents), said : Utterances]
    BY EmptySeq DEF Judge, NoTodo, Seed, Utterances
  <2> QED BY <1>3, <2>1 DEF Judge, Rest
<1> QED BY <1>1, <1>2, <1>3 DEF Judge

LEMMA RouterTypes ==
  ASSUME TypeInv, RouterStep \/ SpawnFails
  PROVE  TypeInv'
<1>1. CASE Publish
  BY <1>1 DEF Publish
<1>2. CASE Begin
  <2>1. todo' \in [to : Seq(Agents), said : Utterances]
    BY <1>2, RosterAssumption DEF Begin, Seed, Utterances
  <2> QED BY <1>2, <2>1 DEF Begin
<1>3. CASE TimeOut
  BY <1>3, StopTypes DEF TimeOut, Reasons
<1>4. CASE AgentsGone
  BY <1>4, StopTypes DEF AgentsGone, Reasons
<1>5. CASE HumanGone
  BY <1>5, StopTypes DEF HumanGone, Reasons
<1>6. CASE Return
  BY <1>6, CapAssumption, EmptySeq DEF Return
<1>7. CASE ClearRouter
  BY <1>7 DEF ClearRouter
<1>8. CASE SpawnFails
  BY <1>8, CapAssumption, EmptySeq DEF SpawnFails
<1> QED BY <1>1, <1>2, <1>3, <1>4, <1>5, <1>6, <1>7, <1>8, ReceiveTypes, HearTypes,
           DeliverTypes, JudgeTypes DEF RouterStep

\* A line put into the human channel when it has room.
LEMMA HumanAppend ==
  ASSUME TypeInv, Len(human) < HumanCap, NEW x \in Callers \cup {"stdin"}
  PROVE  /\ Append(human, x) \in Seq(Callers \cup {"stdin"})
         /\ Len(Append(human, x)) <= HumanCap
<1>1. /\ Append(human, x) \in Seq(Callers \cup {"stdin"})
      /\ Len(Append(human, x)) = Len(human) + 1
  BY AppendProperties
<1>2. Len(human) \in Nat
  BY LenProperties
<1> QED BY <1>1, <1>2, CapAssumption

LEMMA HumanTypes ==
  ASSUME TypeInv, HumanStep
  PROVE  TypeInv'
<1>0. scene \in Scene
  BY CapAssumption
<1>1. CASE Type
  BY <1>0, <1>1 DEF Type, Scene
<1>2. CASE Forward
  <2>1. human' \in Seq(Callers \cup {"stdin"}) /\ Len(human') <= HumanCap
    BY ZenonT(60), <1>2, HumanAppend DEF Forward
  <2> QED BY <1>2, <2>1 DEF Forward
<1>3. CASE CtrlD
  BY <1>3 DEF CtrlD
<1>4. ASSUME NEW c \in Callers, Call(c) PROVE TypeInv'
  BY <1>4 DEF Call
<1>5. ASSUME NEW c \in Callers, Inject(c) PROVE TypeInv'
  <2>0. ASSUME Len(human) < HumanCap, human' = Append(human, c)
        PROVE  human' \in Seq(Callers \cup {"stdin"}) /\ Len(human') <= HumanCap
    BY <2>0, HumanAppend
  <2>1. human' \in Seq(Callers \cup {"stdin"}) /\ Len(human') <= HumanCap
    BY <1>5, <2>0 DEF Inject
  <2>2. calls' \in [Callers -> {"idle", "sending", "delivered", "inactive"}]
    BY <1>5 DEF Inject
  <2>3. UNCHANGED <<scene, agentVars, readerVars, routerVars, stdin, lines, slot>>
    BY <1>5 DEF Inject
  <2> QED BY <2>1, <2>2, <2>3
<1> QED BY <1>1, <1>2, <1>3, <1>4, <1>5 DEF HumanStep

\* Every step keeps the types.
LEMMA StepTypes == TypeInv /\ [Next \/ AtRest]_vars => TypeInv'
<1> SUFFICES ASSUME TypeInv, [Next \/ AtRest]_vars PROVE TypeInv'
  OBVIOUS
<1>1. CASE Next
  BY <1>1, RouterTypes, HumanTypes, ReaderTypes, AgentTypes DEF Next
<1>2. CASE UNCHANGED vars
  BY <1>2 DEF vars
<1> QED BY <1>1, <1>2 DEF AtRest

LEMMA TypeInvHolds == Spec => []TypeInv
  BY InitTypes, StepTypes, PTL DEF Spec

\* Every variable keeps its type and no channel exceeds its capacity.
THEOREM TypeCorrect == Spec => []TypeOK
<1>1. TypeInv => TypeOK
  OBVIOUS
<1> QED BY <1>1, TypeInvHolds, PTL

-----------------------------------------------------------------------------
(* The cap on turns.                                                        *)

\* The entries of the log that an agent said.
AgentTurns == {i \in 1..Len(log) : log[i].kind = "in" /\ log[i].who \in Agents}

\* The counter counts, and it is below the cap wherever another turn may be
\* received: in the select, and while a broadcast is under way that does not
\* end in a look at the cap.
TurnInv ==
  /\ turns = Cardinality(AgentTurns)
  /\ turns <= MaxTurns
  /\ pc \in {"setup", "select"} => turns < MaxTurns
  /\ pc = "deliver" /\ todo.said.from \notin Agents => turns < MaxTurns

\* Who is no agent: "human" and "router" never count as a turn.
LEMMA NotAgents == "human" \notin Agents /\ "router" \notin Agents /\ "seed" \notin Agents
  BY RosterAssumption

LEMMA LongerInterval ==
  ASSUME NEW n \in Nat
  PROVE  1..(n + 1) = 1..n \cup {n + 1}
  OBVIOUS

\* What a new entry of the log does to the turns in it.
LEMMA TurnAppended ==
  ASSUME TypeInv, NEW x \in Entries, log' = Append(log, x)
  PROVE  /\ x.kind = "in" /\ x.who \in Agents =>
              Cardinality(AgentTurns') = Cardinality(AgentTurns) + 1
         /\ ~(x.kind = "in" /\ x.who \in Agents) => AgentTurns' = AgentTurns
<1>1. log \in Seq(Entries) /\ Len(log) \in Nat
  BY LenProperties
<1>2. /\ Len(log') = Len(log) + 1
      /\ \A i \in 1..Len(log) : log'[i] = log[i]
      /\ log'[Len(log) + 1] = x
  BY <1>1, AppendProperties
<1>3. 1..Len(log') = 1..Len(log) \cup {Len(log) + 1}
  <2>1. 1..(Len(log) + 1) = 1..Len(log) \cup {Len(log) + 1}
    BY <1>1, LongerInterval
  <2> QED BY <1>2, <2>1, Zenon
<1>4. ASSUME x.kind = "in", x.who \in Agents
      PROVE  Cardinality(AgentTurns') = Cardinality(AgentTurns) + 1
  <2>1. AgentTurns' = AgentTurns \cup {Len(log) + 1}
    BY <1>2, <1>3, <1>4 DEF AgentTurns
  <2>2. Len(log) + 1 \notin AgentTurns
    BY <1>1 DEF AgentTurns
  <2>3. IsFiniteSet(AgentTurns)
    <3>1. IsFiniteSet(1..Len(log))
      BY <1>1, FS_Interval
    <3> QED BY <3>1, FS_Subset DEF AgentTurns
  <2> QED BY <2>1, <2>2, <2>3, FS_AddElement
<1>5. ASSUME ~(x.kind = "in" /\ x.who \in Agents)
      PROVE  AgentTurns' = AgentTurns
  BY <1>2, <1>3, <1>5 DEF AgentTurns
<1> QED BY <1>4, <1>5

\* A step that appends what no agent said, or nothing, leaves the turns alone.
LEMMA TurnsKept ==
  ASSUME TypeInv, UNCHANGED turns, turns = Cardinality(AgentTurns),
         \/ UNCHANGED log
         \/ \E kind \in LogKinds, who \in Agents \cup {"human", "router"}, said \in Utterances :
              /\ kind # "in" \/ who = "human"
              /\ log' = Append(log, Entry(kind, who, said))
  PROVE  turns' = Cardinality(AgentTurns')
<1>1. CASE UNCHANGED log
  BY <1>1 DEF AgentTurns
<1>2. ASSUME NEW kind \in LogKinds, NEW who \in Agents \cup {"human", "router"},
             NEW said \in Utterances, kind # "in" \/ who = "human",
             log' = Append(log, Entry(kind, who, said))
      PROVE  turns' = Cardinality(AgentTurns')
  <2>1. Entry(kind, who, said) \in Entries
    BY DEF Entry
  <2>2. ~(Entry(kind, who, said).kind = "in" /\ Entry(kind, who, said).who \in Agents)
    BY <1>2, NotAgents DEF Entry
  <2> QED BY <1>2, <2>1, <2>2, TurnAppended
<1> QED BY <1>1, <1>2

LEMMA InitTurns == Init => TurnInv
<1> SUFFICES ASSUME Init PROVE TurnInv
  OBVIOUS
<1>1. AgentTurns = {}
  BY EmptySeq DEF Init, AgentTurns
<1>2. Cardinality(AgentTurns) = 0
  BY <1>1, FS_EmptySet
<1> QED BY <1>2, CapAssumption DEF Init, TurnInv

LEMMA ReceiveTurns ==
  ASSUME TypeInv, TurnInv, Receive
  PROVE  TurnInv'
<1> DEFINE e == Head(events)
<1>1. e \in Fragments /\ e.from \in Agents
  BY HeadTailProperties DEF Receive, Fragments
<1>2. Utterance(e) \in Utterances
  BY <1>1 DEF Fragments, Utterance, Utterances
<1>3. CASE /\ log'   = Append(log, Entry("in", e.from, Utterance(e)))
           /\ turns' = turns + 1
           /\ todo'  = [to |-> Others(e.from), said |-> Utterance(e)]
           /\ pc'    = "deliver"
  <2>1. Entry("in", e.from, Utterance(e)) \in Entries
    BY <1>1, <1>2 DEF Entry
  <2>2. Cardinality(AgentTurns') = Cardinality(AgentTurns) + 1
    BY <1>1, <1>3, <2>1, TurnAppended DEF Entry
  <2>3. todo'.said.from \in Agents
    BY <1>1, <1>3 DEF Utterance
  <2>4. turns < MaxTurns
    BY DEF Receive, TurnInv
  <2> QED BY <1>3, <2>2, <2>3, <2>4, CapAssumption DEF TurnInv
<1>4. CASE /\ log' = Append(log, Entry("note", e.from, Utterance(e)))
           /\ UNCHANGED <<turns, last, todo, pc>>
  <2>1. turns' = Cardinality(AgentTurns')
    BY <1>1, <1>2, <1>4, TurnsKept DEF TurnInv
  <2> QED BY <1>4, <2>1 DEF TurnInv
<1> QED BY <1>3, <1>4 DEF Receive

LEMMA DeliverTurns ==
  ASSUME TypeInv, TurnInv, Deliver
  PROVE  TurnInv'
<1>1. Head(todo.to) \in Agents /\ todo.said \in Utterances
  BY HeadTailProperties DEF Deliver
<1>2. turns' = Cardinality(AgentTurns')
  BY <1>1, TurnsKept DEF Deliver, TurnInv
<1>3. todo'.said = todo.said
  BY DEF Deliver
<1> QED BY <1>2, <1>3 DEF Deliver, TurnInv

LEMMA HearTurns ==
  ASSUME TypeInv, TurnInv, Hear
  PROVE  TurnInv'
<1>1. [from |-> "human", text |-> Head(human)] \in Utterances
  BY HeadTailProperties DEF Hear, Utterances
<1>2. turns' = Cardinality(AgentTurns')
  BY <1>1, TurnsKept DEF Hear, TurnInv
<1> QED BY <1>2 DEF Hear, Quiet, TurnInv

\* The end of the loop appends an entry of the router.
LEMMA StopTurns ==
  ASSUME TypeInv, TurnInv, NEW r \in Reasons, Stop(r), Rest
  PROVE  TurnInv'
<1>1. [from |-> "router", text |-> r] \in Utterances
  BY DEF Utterances
<1>2. turns' = Cardinality(AgentTurns')
  BY <1>1, TurnsKept DEF Stop, Rest, TurnInv
<1> QED BY <1>2 DEF Stop, Rest, TurnInv

LEMMA JudgeTurns ==
  ASSUME TypeInv, TurnInv, Judge
  PROVE  TurnInv'
<1>1. CASE Stop("max_turns") \/ Stop("convergence")
  BY <1>1, StopTurns DEF Judge, Reasons
<1>2. CASE /\ todo.said.from \notin Agents \/ ~(turns >= MaxTurns \/ Unanimous)
           /\ pc' = "select"
           /\ UNCHANGED <<events, log, reason>>
  <2>1. turns < MaxTurns
    BY <1>2, CapAssumption DEF Judge, TurnInv
  <2>2. turns' = Cardinality(AgentTurns')
    BY <1>2, TurnsKept DEF Judge, Rest, TurnInv
  <2> QED BY <1>2, <2>1, <2>2 DEF Judge, Rest, TurnInv
<1> QED BY <1>1, <1>2 DEF Judge

\* Every step keeps the count.
LEMMA StepTurns == TypeInv /\ TurnInv /\ [Next \/ AtRest]_vars => TurnInv'
<1> SUFFICES ASSUME TypeInv, TurnInv, [Next \/ AtRest]_vars PROVE TurnInv'
  OBVIOUS
<1>1. ASSUME UNCHANGED <<log, turns>>, pc' = pc, todo' = todo PROVE TurnInv'
  BY <1>1 DEF TurnInv, AgentTurns
<1>2. CASE SpawnFails \/ Return \/ ClearRouter
  BY <1>2 DEF SpawnFails, Return, ClearRouter, TurnInv, AgentTurns
<1>3. CASE Begin
  BY <1>3 DEF Begin, TurnInv, AgentTurns
<1>4. CASE TimeOut \/ AgentsGone \/ HumanGone
  BY <1>4, StopTurns DEF TimeOut, AgentsGone, HumanGone, Reasons
<1>5. CASE HumanStep
  BY <1>1, <1>5 DEF HumanStep, Type, Forward, CtrlD, Call, Inject
<1>6. ASSUME NEW a \in Agents, ReaderStep(a) \/ AgentStep(a) PROVE TurnInv'
  BY <1>1, <1>6 DEF ReaderStep, Carry, Push, StopReading, AgentStep, Listen, Reply, Note,
     Garble, Exit
<1>7. CASE Publish
  BY <1>1, <1>7 DEF Publish
<1>8. CASE UNCHANGED vars
  BY <1>1, <1>8 DEF vars
<1> QED BY <1>2, <1>3, <1>4, <1>5, <1>6, <1>7, <1>8, ReceiveTurns, DeliverTurns, HearTurns,
           JudgeTurns DEF Next, RouterStep, AtRest

\* The cap is hard: however results, notes and human lines interleave, the log
\* holds at most max_turns utterances of agents.
THEOREM CapIsHard == Spec => []TurnsCapped
<1>1. TypeInv /\ TurnInv => TurnsCapped
  BY DEF TurnInv, TurnsCapped, AgentTurns
<1> QED BY <1>1, InitTypes, InitTurns, StepTypes, StepTurns, PTL DEF Spec

-----------------------------------------------------------------------------
(* The last words of an agent.                                              *)

\* As long as the loop runs, a reader has stopped only when its transport has
\* nothing more to give; and no reason is given before the loop ends.
ReaderInv ==
  /\ \A a \in Agents : reader[a] = "stopped" /\ pc \in {"setup", "deliver", "select"} =>
       mind[a] \in {"exited", "mute"} /\ outbox[a] = <<>>
  /\ pc = "setup" => \A a \in Agents : reader[a] = "unborn"
  /\ pc \in {"setup", "deliver", "select"} => reason = "none"

LEMMA InitReaders == Init => ReaderInv
  BY DEF Init, ReaderInv

LEMMA AgentReaders ==
  ASSUME TypeInv, ReaderInv, NEW a \in Agents, ReaderStep(a) \/ AgentStep(a)
  PROVE  ReaderInv'
<1>1. CASE Listen(a) \/ Exit(a) \/ Garble(a)
  BY <1>1 DEF Listen, Exit, Garble, Attached, ReaderInv
<1>2. CASE Reply(a) \/ Note(a)
  <2>1. pc \in {"deliver", "select"} /\ mind[a] = "thinking" /\ reader[a] # "stopped"
    BY <1>2 DEF Reply, Note, Attached, ReaderInv
  <2>2. UNCHANGED <<pc, reader, reason>>
    BY <1>2 DEF Reply, Note, readerVars, routerVars
  <2>3. \A b \in Agents : b # a => mind'[b] = mind[b] /\ outbox'[b] = outbox[b]
    BY <1>2 DEF Reply, Note
  <2> QED BY <2>1, <2>2, <2>3 DEF ReaderInv
<1>3. CASE Carry(a)
  BY SMTT(30), <1>3 DEF Carry, EventsOpen, ReaderInv
<1>4. CASE Push(a)
  BY <1>4 DEF Push, EventsOpen, ReaderInv
<1>5. CASE StopReading(a)
  BY <1>5 DEF StopReading, Cancelled, EventsOpen, ReaderInv
<1> QED BY <1>1, <1>2, <1>3, <1>4, <1>5 DEF ReaderStep, AgentStep

LEMMA RouterReaders ==
  ASSUME TypeInv, ReaderInv, RouterStep \/ SpawnFails
  PROVE  ReaderInv'
<1>1. ASSUME NEW r \in Reasons, Stop(r), Rest PROVE ReaderInv'
  BY <1>1 DEF Stop, Rest, ReaderInv
<1>2. CASE TimeOut \/ HumanGone \/ AgentsGone
  BY <1>1, <1>2 DEF TimeOut, HumanGone, AgentsGone, Reasons
<1>3. CASE Judge
  BY <1>1, <1>3 DEF Judge, Rest, Reasons, ReaderInv
<1>4. CASE Begin
  BY <1>4 DEF Begin, ReaderInv
<1>5. CASE Receive \/ Hear \/ Deliver
  BY <1>5 DEF Receive, Hear, Quiet, Deliver, ReaderInv
<1>6. CASE Publish \/ SpawnFails \/ Return \/ ClearRouter
  BY <1>6 DEF Publish, SpawnFails, Return, ClearRouter, ReaderInv
<1> QED BY <1>2, <1>3, <1>4, <1>5, <1>6 DEF RouterStep

LEMMA StepReaders == TypeInv /\ ReaderInv /\ [Next \/ AtRest]_vars => ReaderInv'
<1> SUFFICES ASSUME TypeInv, ReaderInv, [Next \/ AtRest]_vars PROVE ReaderInv'
  OBVIOUS
<1>1. CASE HumanStep
  BY <1>1 DEF HumanStep, Type, Forward, CtrlD, Call, Inject, ReaderInv
<1>2. CASE UNCHANGED vars
  BY <1>2 DEF vars, ReaderInv
<1> QED BY <1>1, <1>2, AgentReaders, RouterReaders DEF Next, AtRest

\* Places of a fragment on its way: the event channel and the reader's hands.
EventsOf(a) == {i \in 1..Len(events) : events[i].from = a}

InHand(a) == IF reader[a] = "send" THEN 1 ELSE 0

Tally(a) ==
  Cardinality(HeardOf(a)) + Cardinality(EventsOf(a)) + InHand(a) + Len(outbox[a]) = speech[a]

\* While the loop runs, every fragment of an agent is in exactly one place: the
\* transport, the reader's hands, the event channel or the log. What a reader
\* or a transport holds is the agent's own.
TallyInv ==
  /\ \A a \in Agents : reader[a] = "send" => hold[a].from = a
  /\ \A a \in Agents : \A i \in 1..Len(outbox[a]) : outbox[a][i].from = a
  /\ pc \in {"setup", "deliver", "select"} => \A a \in Agents : Tally(a)
  /\ LastWordsHeard

\* The places at which a sequence has an element of T, and how they are counted
\* when it grows at its end and shrinks at its head.
Places(s, T) == {i \in 1..Len(s) : s[i] \in T}

LEMMA PlacesFinite ==
  ASSUME NEW E, NEW s \in Seq(E), NEW T
  PROVE  IsFiniteSet(Places(s, T)) /\ Cardinality(Places(s, T)) \in Nat
<1>1. IsFiniteSet(1..Len(s))
  BY LenProperties, FS_Interval
<1>2. IsFiniteSet(Places(s, T))
  BY <1>1, FS_Subset DEF Places
<1> QED BY <1>2, FS_CardinalityType

LEMMA PlacesAppend ==
  ASSUME NEW E, NEW s \in Seq(E), NEW x \in E, NEW T
  PROVE  Cardinality(Places(Append(s, x), T)) =
           Cardinality(Places(s, T)) + (IF x \in T THEN 1 ELSE 0)
<1>1. /\ Len(s) \in Nat /\ Len(Append(s, x)) = Len(s) + 1
      /\ \A i \in 1..Len(s) : Append(s, x)[i] = s[i]
      /\ Append(s, x)[Len(s) + 1] = x
  BY AppendProperties, LenProperties
<1>2. 1..(Len(s) + 1) = 1..Len(s) \cup {Len(s) + 1}
  BY <1>1, LongerInterval
<1>3. Places(Append(s, x), T) =
        IF x \in T THEN Places(s, T) \cup {Len(s) + 1} ELSE Places(s, T)
  BY <1>1, <1>2 DEF Places
<1>4. Len(s) + 1 \notin Places(s, T)
  BY <1>1 DEF Places
<1>5. IsFiniteSet(Places(s, T)) /\ Cardinality(Places(s, T)) \in Nat
  BY PlacesFinite
<1>6. CASE x \in T
  BY <1>3, <1>4, <1>5, <1>6, FS_AddElement
<1>7. CASE x \notin T
  BY <1>3, <1>5, <1>7
<1> QED BY <1>6, <1>7

LEMMA PlacesTail ==
  ASSUME NEW E, NEW s \in Seq(E), s # <<>>, NEW T
  PROVE  Cardinality(Places(s, T)) =
           Cardinality(Places(Tail(s), T)) + (IF Head(s) \in T THEN 1 ELSE 0)
<1> DEFINE P == Places(s, T) \ {1}
           Q == Places(Tail(s), T)
           f == [i \in Q |-> i + 1]
<1>1. /\ Len(s) \in Nat \ {0} /\ Tail(s) \in Seq(E) /\ Len(Tail(s)) = Len(s) - 1
      /\ \A i \in 1..Len(s) - 1 : Tail(s)[i] = s[i + 1]
      /\ Head(s) = s[1]
  BY HeadTailProperties, LenProperties, EmptySeq
<1>2. f \in [Q -> P]
  BY <1>1 DEF Places
<1>3. f \in Bijection(Q, P)
  <2>1. \A i, j \in Q : f[i] = f[j] => i = j
    BY <1>1 DEF Places
  <2>2. \A k \in P : \E i \in Q : f[i] = k
    <3> SUFFICES ASSUME NEW k \in P PROVE \E i \in Q : f[i] = k
      OBVIOUS
    <3>1. k \in 2..Len(s) /\ s[k] \in T
      BY <1>1 DEF Places
    <3>2. k - 1 \in Q
      BY <1>1, <3>1 DEF Places
    <3>3. f[k - 1] = k
      BY <3>1, <3>2
    <3> QED BY <3>2, <3>3
  <2> HIDE DEF f, P, Q
  <2> QED BY <1>2, <2>1, <2>2 DEF Bijection, Injection, Surjection, IsInjective
<1>4. IsFiniteSet(Q) /\ Cardinality(P) = Cardinality(Q)
  <2>1. IsFiniteSet(Q)
    BY <1>1, PlacesFinite
  <2> HIDE DEF f, P, Q
  <2> QED BY <1>3, <2>1, FS_Bijection DEF ExistsBijection
<1>5. IsFiniteSet(Places(s, T)) /\ Cardinality(Places(s, T)) \in Nat
  BY PlacesFinite
<1>6. Cardinality(P) = IF 1 \in Places(s, T) THEN Cardinality(Places(s, T)) - 1
                       ELSE Cardinality(Places(s, T))
  BY <1>5, FS_RemoveElement
<1>7. 1 \in Places(s, T) <=> Head(s) \in T
  BY <1>1 DEF Places
<1> QED BY <1>4, <1>5, <1>6, <1>7

\* What a heard fragment looks like in the log and in the event channel.
HeardBy(a) == {x \in Entries : x.kind \in {"in", "note"} /\ x.who = a}
SentBy(a) == {e \in Fragments : e.from = a}

Counted(a) ==
  /\ Cardinality(HeardOf(a)) \in Nat /\ Cardinality(EventsOf(a)) \in Nat
  /\ Len(outbox[a]) \in Nat /\ speech[a] \in Nat

LEMMA TallyPlaces ==
  ASSUME TypeInv, NEW a \in Agents
  PROVE  /\ HeardOf(a) = Places(log, HeardBy(a)) /\ EventsOf(a) = Places(events, SentBy(a))
         /\ Cardinality(HeardOf(a)) \in Nat /\ Cardinality(EventsOf(a)) \in Nat
         /\ Len(outbox[a]) \in Nat /\ speech[a] \in Nat
<1>1. log \in Seq(Entries) /\ events \in Seq(Fragments) /\ outbox[a] \in Seq(Fragments)
  OBVIOUS
<1>2. \A i \in 1..Len(log) : log[i] \in Entries
  <2> HIDE DEF Entries
  <2> QED BY <1>1, LenProperties, ElementOfSeq
<1>3. \A i \in 1..Len(events) : events[i] \in Fragments
  BY <1>1, LenProperties, ElementOfSeq
<1>4. HeardOf(a) = Places(log, HeardBy(a))
  BY <1>2 DEF HeardOf, HeardBy, Places
<1>5. EventsOf(a) = Places(events, SentBy(a))
  BY <1>3 DEF EventsOf, SentBy, Places
<1>6. Cardinality(HeardOf(a)) \in Nat /\ Cardinality(EventsOf(a)) \in Nat
  BY <1>1, <1>4, <1>5, PlacesFinite
<1>7. Len(outbox[a]) \in Nat /\ speech[a] \in Nat
  BY <1>1, LenProperties, CapAssumption DEF Scene
<1> QED BY <1>4, <1>5, <1>6, <1>7

\* What one more entry of the log, and one more or one less event, count.
LEMMA LogCounts ==
  ASSUME TypeInv, NEW a \in Agents, NEW x \in Entries, log' = Append(log, x)
  PROVE  Cardinality(HeardOf(a)') =
           Cardinality(HeardOf(a)) + (IF x.kind \in {"in", "note"} /\ x.who = a THEN 1 ELSE 0)
<1>1. log \in Seq(Entries) /\ Append(log, x) \in Seq(Entries)
  BY AppendProperties
<1>2. \A i \in 1..Len(Append(log, x)) : Append(log, x)[i] \in Entries
  <2> HIDE DEF Entries
  <2> QED BY <1>1, LenProperties, ElementOfSeq
<1>3. HeardOf(a)' = Places(Append(log, x), HeardBy(a))
  BY <1>2 DEF HeardOf, HeardBy, Places
<1>4. Cardinality(Places(Append(log, x), HeardBy(a))) =
        Cardinality(Places(log, HeardBy(a))) + (IF x \in HeardBy(a) THEN 1 ELSE 0)
  <2> HIDE DEF Entries, HeardBy, TypeInv
  <2> QED BY <1>1, PlacesAppend
<1>5. x \in HeardBy(a) <=> x.kind \in {"in", "note"} /\ x.who = a
  BY DEF HeardBy
<1> QED BY <1>3, <1>4, <1>5, TallyPlaces

LEMMA EventAdded ==
  ASSUME TypeInv, NEW a \in Agents, NEW e \in Fragments, events' = Append(events, e)
  PROVE  Cardinality(EventsOf(a)') =
           Cardinality(EventsOf(a)) + (IF e.from = a THEN 1 ELSE 0)
<1>1. events \in Seq(Fragments) /\ Append(events, e) \in Seq(Fragments)
  BY AppendProperties
<1>2. \A i \in 1..Len(Append(events, e)) : Append(events, e)[i] \in Fragments
  BY <1>1, LenProperties, ElementOfSeq
<1>3. EventsOf(a)' = Places(Append(events, e), SentBy(a))
  BY <1>2 DEF EventsOf, SentBy, Places
<1>4. Cardinality(Places(Append(events, e), SentBy(a))) =
        Cardinality(Places(events, SentBy(a))) + (IF e \in SentBy(a) THEN 1 ELSE 0)
  BY <1>1, PlacesAppend
<1> QED BY <1>3, <1>4, TallyPlaces DEF SentBy

LEMMA EventTaken ==
  ASSUME TypeInv, NEW a \in Agents, events # <<>>, events' = Tail(events)
  PROVE  Cardinality(EventsOf(a)) =
           Cardinality(EventsOf(a)') + (IF Head(events).from = a THEN 1 ELSE 0)
<1>1. events \in Seq(Fragments) /\ Head(events) \in Fragments /\ Tail(events) \in Seq(Fragments)
  BY HeadTailProperties
<1>2. \A i \in 1..Len(Tail(events)) : Tail(events)[i] \in Fragments
  BY <1>1, LenProperties, ElementOfSeq
<1>3. EventsOf(a)' = Places(Tail(events), SentBy(a))
  BY <1>2 DEF EventsOf, SentBy, Places
<1>4. Cardinality(Places(events, SentBy(a))) =
        Cardinality(Places(Tail(events), SentBy(a))) + (IF Head(events) \in SentBy(a) THEN 1 ELSE 0)
  BY <1>1, PlacesTail
<1> QED BY <1>1, <1>3, <1>4, TallyPlaces DEF SentBy

LEMMA InitTally == Init => TallyInv
<1> SUFFICES ASSUME Init PROVE TallyInv
  OBVIOUS
<1>1. \A a \in Agents : HeardOf(a) = {} /\ EventsOf(a) = {}
  BY EmptySeq DEF Init, HeardOf, EventsOf
<1>2. Cardinality({}) = 0
  BY FS_EmptySet
<1>4. \A a \in Agents : outbox[a] = <<>> /\ reader[a] = "unborn" /\ speech[a] = 0
  BY DEF Init
<1>3. ASSUME NEW a \in Agents PROVE Tally(a)
  <2>1. Cardinality(HeardOf(a)) = 0 /\ Cardinality(EventsOf(a)) = 0
    BY <1>1, <1>2
  <2>2. Len(outbox[a]) = 0 /\ InHand(a) = 0 /\ speech[a] = 0
    BY <1>4, EmptySeq DEF InHand
  <2> QED BY <2>1, <2>2 DEF Tally
<1>5. reason = "none"
  BY DEF Init
<1> QED BY <1>3, <1>4, <1>5, EmptySeq DEF TallyInv, LastWordsHeard

\* A step that moves no fragment keeps the count.
LEMMA TallySame ==
  ASSUME TypeInv, TallyInv, UNCHANGED <<log, events, outbox, speech>>, NEW a \in Agents,
         (reader[a] = "send") <=> (reader'[a] = "send")
  PROVE  Tally(a)' = Tally(a)
<1>1. HeardOf(a)' = HeardOf(a) /\ EventsOf(a)' = EventsOf(a)
  BY DEF HeardOf, EventsOf
<1> QED BY <1>1 DEF Tally, InHand

LEMMA AgentTallies ==
  ASSUME TypeInv, ReaderInv, TallyInv, NEW a \in Agents, AgentStep(a)
  PROVE  TallyInv'
<1>0. pc \in {"deliver", "select"} /\ UNCHANGED <<pc, reader, hold, log, events, reason>>
  BY DEF AgentStep, Listen, Reply, Note, Exit, Garble, Attached
<1>1. CASE Listen(a) \/ Exit(a) \/ Garble(a)
  <2>1. UNCHANGED <<outbox, speech>>
    BY <1>1 DEF Listen, Exit, Garble
  <2>2. \A b \in Agents : Tally(b)' = Tally(b)
    BY <1>0, <2>1, TallySame
  <2> QED BY <1>0, <2>1, <2>2 DEF TallyInv, ReaderInv, LastWordsHeard
<1>2. CASE Reply(a) \/ Note(a)
  <2>1. PICK e \in Fragments : e.from = a /\ outbox' = [outbox EXCEPT ![a] = Append(@, e)]
    <3>0. scene \in Scene
      BY CapAssumption
    <3>1. CASE Reply(a)
      <4>1. PICK t \in scene.voice \ {"note"} :
              outbox' = [outbox EXCEPT ![a] = Append(@,
                 [from |-> a, kind |-> "result", text |-> t, ears |-> ears[a]])]
        BY <3>1 DEF Reply
      <4>2. [from |-> a, kind |-> "result", text |-> t, ears |-> ears[a]] \in Fragments
        BY <3>0 DEF Fragments, Scene
      <4> QED BY <4>1, <4>2
    <3>2. CASE Note(a)
      <4>1. [from |-> a, kind |-> "note", text |-> "none", ears |-> ears[a]] \in Fragments
        BY DEF Fragments
      <4> QED BY <3>2, <4>1 DEF Note
    <3> QED BY <1>2, <3>1, <3>2
  <2>2. speech' = [speech EXCEPT ![a] = @ + 1]
    BY <1>2 DEF Reply, Note
  <2>3. /\ outbox[a] \in Seq(Fragments) /\ outbox'[a] = Append(outbox[a], e)
        /\ speech'[a] = speech[a] + 1
        /\ \A b \in Agents : b # a => outbox'[b] = outbox[b] /\ speech'[b] = speech[b]
    BY <2>1, <2>2
  <2>4. /\ Len(outbox'[a]) = Len(outbox[a]) + 1
        /\ \A i \in 1..Len(outbox'[a]) : outbox'[a][i].from = a
    <3>1. /\ Len(outbox[a]) \in Nat /\ Len(outbox'[a]) = Len(outbox[a]) + 1
          /\ \A i \in 1..Len(outbox[a]) : outbox'[a][i] = outbox[a][i]
          /\ outbox'[a][Len(outbox[a]) + 1] = e
      BY <2>3, AppendProperties, LenProperties
    <3>2. 1..Len(outbox'[a]) = 1..Len(outbox[a]) \cup {Len(outbox[a]) + 1}
      BY <3>1, LongerInterval
    <3>3. \A i \in 1..Len(outbox[a]) : outbox[a][i].from = a
      BY DEF TallyInv
    <3> QED BY <2>1, <3>1, <3>2, <3>3
  <2>5. \A b \in Agents : HeardOf(b)' = HeardOf(b) /\ EventsOf(b)' = EventsOf(b)
                          /\ InHand(b)' = InHand(b)
    BY <1>0 DEF HeardOf, EventsOf, InHand
  <2>6. ASSUME NEW b \in Agents PROVE Tally(b)'
    <3>1. Tally(b)
      BY <1>0 DEF TallyInv
    <3>2. InHand(b) \in Nat /\ Counted(b)
      BY TallyPlaces DEF InHand, Counted
    <3>3. CASE b = a
      <4>1. /\ Len(outbox'[b]) = Len(outbox[b]) + 1
            /\ speech'[b] = speech[b] + 1
        BY <2>3, <2>4, <3>3
      <4>2. UNCHANGED <<HeardOf(b), EventsOf(b), InHand(b)>>
        BY <2>5
      <4> HIDE DEF TypeInv
      <4> QED BY <3>1, <3>2, <4>1, <4>2 DEF Tally, Counted
    <3>4. CASE b # a
      BY <2>3, <2>5, <3>1, <3>4 DEF Tally
    <3> QED BY <3>3, <3>4
  <2>7. ASSUME NEW b \in Agents, NEW i \in 1..Len(outbox'[b])
        PROVE  outbox'[b][i].from = b
    <3>1. CASE b = a
      BY <2>4, <3>1
    <3>2. CASE b # a
      <4>1. outbox'[b] = outbox[b]
        BY <2>3, <3>2
      <4> QED BY <4>1, <2>7 DEF TallyInv
    <3> QED BY <3>1, <3>2
  <2>8. LastWordsHeard'
    <3> HIDE DEF TypeInv
    <3>1. reason = "none" /\ reason' = reason
      BY <1>0, <2>3 DEF ReaderInv
    <3> QED BY <3>1 DEF LastWordsHeard
  <2>9. \A b \in Agents : reader'[b] = "send" => hold'[b].from = b
    BY <1>0 DEF TallyInv
  <2> HIDE DEF TypeInv, Tally, LastWordsHeard
  <2> QED BY <2>6, <2>7, <2>8, <2>9 DEF TallyInv
<1> QED BY <1>1, <1>2 DEF AgentStep

LEMMA ReaderTallies ==
  ASSUME TypeInv, ReaderInv, TallyInv, NEW a \in Agents, ReaderStep(a)
  PROVE  TallyInv'
<1>0. UNCHANGED <<pc, log, speech, reason>>
  BY DEF ReaderStep, Carry, Push, StopReading
<1>h. \A b \in Agents : HeardOf(b)' = HeardOf(b)
  BY <1>0 DEF HeardOf
<1>1. CASE Carry(a)
  <2>1. /\ pc \in {"deliver", "select"} /\ reader[a] = "recv"
        /\ outbox[a] \in Seq(Fragments) /\ outbox[a] # <<>>
        /\ outbox' = [outbox EXCEPT ![a] = Tail(@)]
    BY <1>1 DEF Carry, EventsOpen
  <2>2. /\ Head(outbox[a]) \in Fragments /\ Head(outbox[a]).from = a
        /\ Len(outbox'[a]) = Len(outbox[a]) - 1
        /\ \A i \in 1..Len(outbox'[a]) : outbox'[a][i].from = a
    <3>1. /\ Len(outbox[a]) \in Nat \ {0} /\ Head(outbox[a]) = outbox[a][1]
          /\ Head(outbox[a]) \in Fragments
          /\ Len(Tail(outbox[a])) = Len(outbox[a]) - 1
          /\ \A i \in 1..Len(outbox[a]) - 1 : Tail(outbox[a])[i] = outbox[a][i + 1]
      BY <2>1, HeadTailProperties, LenProperties, EmptySeq
    <3>2. \A i \in 1..Len(outbox[a]) : outbox[a][i].from = a
      BY DEF TallyInv
    <3>3. outbox'[a] = Tail(outbox[a])
      BY <2>1
    <3> HIDE DEF TypeInv
    <3>4. Head(outbox[a]) \in Fragments /\ Head(outbox[a]).from = a
      <4>1. 1 \in 1..Len(outbox[a])
        BY <3>1
      <4> QED BY <3>1, <3>2, <4>1
    <3>5. Len(outbox'[a]) = Len(outbox[a]) - 1
      BY <3>1, <3>3
    <3>6. ASSUME NEW i \in 1..Len(outbox'[a]) PROVE outbox'[a][i].from = a
      <4>1. i \in 1..Len(outbox[a]) - 1 /\ i + 1 \in 1..Len(outbox[a])
        BY <3>1, <3>5
      <4>2. outbox'[a][i] = outbox[a][i + 1]
        BY <3>1, <3>3, <4>1
      <4> QED BY <3>2, <4>1, <4>2
    <3> QED BY <3>4, <3>5, <3>6
  <2>3. \A b \in Agents : b # a => outbox'[b] = outbox[b]
    BY <2>1
  <2>4. CASE events' = Append(events, Head(outbox[a])) /\ UNCHANGED readerVars
    <3>1. \A b \in Agents : Cardinality(EventsOf(b)') =
             Cardinality(EventsOf(b)) + (IF a = b THEN 1 ELSE 0)
      BY <2>2, <2>4, EventAdded
    <3>2. ASSUME NEW b \in Agents PROVE Tally(b)'
      <4>1. Tally(b) /\ InHand(b) \in Nat /\ InHand(b)' = InHand(b)
        BY <2>1, <2>4 DEF TallyInv, InHand, readerVars
      <4>2. Counted(b) /\ UNCHANGED <<speech, HeardOf(b)>>
        BY <1>0, <1>h, TallyPlaces DEF Counted
      <4>3. CASE b = a
        <5>1. Len(outbox'[b]) = Len(outbox[b]) - 1
          BY <2>2, <4>3
        <5>2. Cardinality(EventsOf(b)') = Cardinality(EventsOf(b)) + 1
          BY <3>1, <4>3
        <5> HIDE DEF TypeInv
        <5> QED BY <4>1, <4>2, <5>1, <5>2 DEF Tally, Counted
      <4>4. CASE b # a
        <5>1. outbox'[b] = outbox[b]
          BY <2>3, <4>4
        <5>2. Cardinality(EventsOf(b)') = Cardinality(EventsOf(b))
          BY <3>1, <4>2, <4>4 DEF Counted
        <5> HIDE DEF TypeInv
        <5> QED BY <4>1, <4>2, <5>1, <5>2 DEF Tally
      <4> QED BY <4>3, <4>4
    <3> QED BY <1>0, <2>1, <2>2, <2>3, <2>4, <3>2 DEF TallyInv, ReaderInv, LastWordsHeard, HeardOf, readerVars
  <2>5. CASE /\ hold'   = [hold EXCEPT ![a] = Head(outbox[a])]
             /\ reader' = [reader EXCEPT ![a] = "send"]
             /\ UNCHANGED events
    <3>1. \A b \in Agents : EventsOf(b)' = EventsOf(b)
      BY <2>5 DEF EventsOf
    <3>2. ASSUME NEW b \in Agents PROVE Tally(b)'
      <4>1. Tally(b) /\ InHand(b) \in Nat
        BY <2>1 DEF TallyInv, InHand
      <4>2. InHand(b)' = InHand(b) + (IF a = b THEN 1 ELSE 0)
        BY <2>1, <2>5 DEF InHand
      <4>3. Counted(b) /\ UNCHANGED <<speech, HeardOf(b)>>
        BY <1>0, <1>h, TallyPlaces DEF Counted
      <4>4. CASE b = a
        <5>1. Len(outbox'[b]) = Len(outbox[b]) - 1
          BY <2>2, <4>4
        <5>2. InHand(b)' = InHand(b) + 1
          BY <4>2, <4>4
        <5> HIDE DEF TypeInv
        <5> QED BY <3>1, <4>1, <4>3, <5>1, <5>2 DEF Tally, Counted
      <4>5. CASE b # a
        <5>1. outbox'[b] = outbox[b]
          BY <2>3, <4>5
        <5>2. InHand(b)' = InHand(b)
          BY <4>1, <4>2, <4>5
        <5> HIDE DEF TypeInv
        <5> QED BY <3>1, <4>1, <4>3, <5>1, <5>2 DEF Tally
      <4> QED BY <4>4, <4>5
    <3>3. \A b \in Agents : reader'[b] = "send" => hold'[b].from = b
      BY <2>2, <2>5 DEF TallyInv
    <3>4. LastWordsHeard'
      BY <1>0, <1>h DEF TallyInv, ReaderInv, LastWordsHeard
    <3> QED BY <1>0, <2>1, <2>2, <2>3, <3>2, <3>3, <3>4 DEF TallyInv
  <2> QED BY <1>1, <2>4, <2>5 DEF Carry
<1>2. CASE Push(a)
  <2>1. /\ pc \in {"deliver", "select"} /\ reader[a] = "send" /\ UNCHANGED outbox
        /\ hold[a] \in Fragments /\ hold[a].from = a
        /\ events' = Append(events, hold[a])
        /\ hold'   = [hold EXCEPT ![a] = Silence]
        /\ reader' = [reader EXCEPT ![a] = "recv"]
    BY <1>2 DEF Push, EventsOpen, agentVars, TallyInv
  <2>2. \A b \in Agents : Cardinality(EventsOf(b)') =
           Cardinality(EventsOf(b)) + (IF a = b THEN 1 ELSE 0)
    BY <2>1, EventAdded
  <2>3. ASSUME NEW b \in Agents PROVE Tally(b)'
    <3>1. Tally(b) /\ InHand(b)' \in Nat
      BY <2>1 DEF TallyInv, InHand
    <3>2. InHand(b) = InHand(b)' + (IF a = b THEN 1 ELSE 0)
      BY <2>1 DEF InHand
    <3>3. Counted(b) /\ UNCHANGED <<speech, HeardOf(b), outbox>>
      BY <1>0, <1>h, <2>1, TallyPlaces DEF Counted
    <3>4. CASE b = a
      BY <2>2, <3>1, <3>2, <3>3, <3>4 DEF Tally, Counted
    <3>5. CASE b # a
      BY <2>2, <3>1, <3>2, <3>3, <3>5 DEF Tally, Counted
    <3> QED BY <3>4, <3>5
  <2>4. \A b \in Agents : reader'[b] = "send" => hold'[b].from = b
    BY <2>1 DEF TallyInv
  <2>5. LastWordsHeard'
    BY <1>0, <1>h DEF TallyInv, ReaderInv, LastWordsHeard
  <2> QED BY <1>0, <2>1, <2>3, <2>4, <2>5 DEF TallyInv
<1>3. CASE StopReading(a)
  <2>1. /\ UNCHANGED <<events, outbox>>
        /\ reader' = [reader EXCEPT ![a] = "stopped"]
        /\ hold'   = [hold EXCEPT ![a] = Silence]
        /\ pc \in {"setup", "deliver", "select"} => reader[a] = "recv"
    BY <1>3 DEF StopReading, Cancelled, agentVars, routerVars
  <2>2. pc \in {"setup", "deliver", "select"} =>
          \A b \in Agents : (reader[b] = "send") <=> (reader'[b] = "send")
    BY <2>1
  <2>3. pc \in {"setup", "deliver", "select"} => \A b \in Agents : Tally(b)' = Tally(b)
    BY <1>0, <2>1, <2>2, TallySame
  <2>4. \A b \in Agents : reader'[b] = "send" => hold'[b].from = b
    BY <2>1 DEF TallyInv
  <2>5. LastWordsHeard'
    BY <1>0, <1>h DEF TallyInv, ReaderInv, LastWordsHeard
  <2> QED BY <1>0, <2>1, <2>3, <2>4, <2>5 DEF TallyInv
<1> QED BY <1>1, <1>2, <1>3 DEF ReaderStep

\* The end of the loop: it says in the log why, and the count is complete when
\* the reason is that all have left.
LEMMA StopTallies ==
  ASSUME TypeInv, TallyInv, pc \in {"deliver", "select"}, NEW r \in Reasons, Stop(r), Rest,
         r = "all_agents_closed" => \A a \in Agents : Cardinality(HeardOf(a)) = speech[a]
  PROVE  TallyInv'
<1> DEFINE x == Entry("end", "router", [from |-> "router", text |-> r])
<1>1. x \in Entries /\ x.kind = "end"
  BY DEF Entry, Utterances
<1>2. log' = Append(log, x) /\ reason' = r /\ pc' = "join"
  BY DEF Stop
<1>3. UNCHANGED <<reader, hold, outbox, speech>>
  BY DEF Rest, agentVars, readerVars
<1> HIDE DEF x, Entries
<1>4. ASSUME NEW a \in Agents PROVE Cardinality(HeardOf(a)') = Cardinality(HeardOf(a))
  <2>1. Counted(a)
    BY TallyPlaces DEF Counted
  <2>2. Cardinality(HeardOf(a)') = Cardinality(HeardOf(a)) + 0
    BY <1>1, <1>2, LogCounts
  <2> QED BY <2>1, <2>2 DEF Counted
<1>5. LastWordsHeard'
  BY <1>2, <1>3, <1>4 DEF LastWordsHeard
<1> QED BY <1>2, <1>3, <1>5 DEF TallyInv

LEMMA GoneTallies ==
  ASSUME TypeInv, ReaderInv, TallyInv, AgentsGone
  PROVE  TallyInv'
<1>1. pc = "select" /\ events = <<>> /\ \A a \in Agents : reader[a] = "stopped"
  BY DEF AgentsGone
<1>2. ASSUME NEW a \in Agents PROVE Cardinality(HeardOf(a)) = speech[a]
  <2>1. Tally(a) /\ outbox[a] = <<>>
    BY <1>1 DEF TallyInv, ReaderInv
  <2>2. EventsOf(a) = {}
    BY <1>1, EmptySeq DEF EventsOf
  <2>3. Cardinality(EventsOf(a)) = 0 /\ InHand(a) = 0 /\ Len(outbox[a]) = 0
    BY <1>1, <2>1, <2>2, FS_EmptySet, EmptySeq DEF InHand
  <2> QED BY <2>1, <2>3, TallyPlaces DEF Tally
<1>3. Stop("all_agents_closed") /\ Rest /\ "all_agents_closed" \in Reasons
  BY DEF AgentsGone, Reasons
<1> QED BY <1>1, <1>2, <1>3, StopTallies

LEMMA ReceiveTallies ==
  ASSUME TypeInv, ReaderInv, TallyInv, Receive
  PROVE  TallyInv'
<1> DEFINE e == Head(events)
<1>1. /\ pc = "select" /\ events # <<>> /\ events' = Tail(events)
      /\ pc' \in {"deliver", "select"}
      /\ UNCHANGED <<outbox, speech, reader, hold, reason>>
  BY DEF Receive, agentVars, readerVars
<1>2. e \in Fragments
  BY <1>1, HeadTailProperties
<1>3. PICK x \in Entries : log' = Append(log, x) /\ x.kind \in {"in", "note"} /\ x.who = e.from
  <2>1. Utterance(e) \in Utterances /\ e.from \in Agents
    BY <1>2 DEF Fragments, Utterance, Utterances
  <2>2. /\ Entry("in", e.from, Utterance(e)) \in Entries
        /\ Entry("note", e.from, Utterance(e)) \in Entries
    BY <2>1 DEF Entry
  <2>3. \/ log' = Append(log, Entry("in", e.from, Utterance(e)))
        \/ log' = Append(log, Entry("note", e.from, Utterance(e)))
    BY DEF Receive
  <2> QED BY <2>2, <2>3 DEF Entry
<1> HIDE DEF e, Entries
<1>4. \A a \in Agents : Cardinality(HeardOf(a)') =
        Cardinality(HeardOf(a)) + (IF e.from = a THEN 1 ELSE 0)
  BY <1>3, LogCounts
<1>5. \A a \in Agents : Cardinality(EventsOf(a)) =
        Cardinality(EventsOf(a)') + (IF e.from = a THEN 1 ELSE 0)
  BY <1>1, EventTaken DEF e
<1>6. ASSUME NEW a \in Agents PROVE Tally(a)'
  <2>1. Tally(a) /\ InHand(a) \in Nat /\ InHand(a)' = InHand(a)
    BY <1>1 DEF TallyInv, InHand
  <2>2. Cardinality(EventsOf(a)') \in Nat
    <3>1. Tail(events) \in Seq(Fragments)
      BY <1>1, HeadTailProperties
    <3>2. \A i \in 1..Len(Tail(events)) : Tail(events)[i] \in Fragments
      BY <3>1, LenProperties, ElementOfSeq
    <3>3. EventsOf(a)' = Places(Tail(events), SentBy(a))
      BY <1>1, <3>2 DEF EventsOf, SentBy, Places
    <3> QED BY <3>1, <3>3, PlacesFinite
  <2>3. Counted(a) /\ UNCHANGED <<outbox, speech>>
    BY <1>1, TallyPlaces DEF Counted
  <2>4. CASE e.from = a
    BY <1>4, <1>5, <2>1, <2>2, <2>3, <2>4 DEF Tally, Counted
  <2>5. CASE e.from # a
    BY <1>4, <1>5, <2>1, <2>2, <2>3, <2>5 DEF Tally, Counted
  <2> QED BY <2>4, <2>5
<1>7. reason' # "all_agents_closed" /\ reason' = "none"
  BY <1>1 DEF ReaderInv
<1> QED BY <1>1, <1>6, <1>7 DEF TallyInv, ReaderInv, LastWordsHeard

\* What the human says and what is sent is nobody's fragment.
LEMMA OutTallies ==
  ASSUME TypeInv, ReaderInv, TallyInv, Hear \/ Deliver
  PROVE  TallyInv'
<1>1. /\ pc \in {"deliver", "select"} /\ pc' \in {"deliver", "select"}
      /\ UNCHANGED <<events, outbox, speech, reader, hold, reason>>
  BY DEF Hear, Quiet, Deliver, agentVars, readerVars
<1>2. PICK x \in Entries : log' = Append(log, x)
                           /\ ~(x.kind \in {"in", "note"} /\ x.who \in Agents)
  <2>1. CASE Hear
    <3>1. Head(human) \in Callers \cup {"stdin"}
      BY <2>1, HeadTailProperties DEF Hear
    <3>2. [from |-> "human", text |-> Head(human)] \in Utterances
      BY <3>1 DEF Utterances
    <3>3. Entry("in", "human", [from |-> "human", text |-> Head(human)]) \in Entries
      BY <3>2 DEF Entry
    <3> QED BY <2>1, <3>3, NotAgents DEF Hear, Entry
  <2>2. CASE Deliver
    <3>1. Head(todo.to) \in Agents /\ todo.said \in Utterances
      BY <2>2, HeadTailProperties DEF Deliver
    <3>2. /\ Entry("out", Head(todo.to), todo.said) \in Entries
          /\ Entry("failed", Head(todo.to), todo.said) \in Entries
      BY <3>1 DEF Entry
    <3>3. \/ log' = Append(log, Entry("out", Head(todo.to), todo.said))
          \/ log' = Append(log, Entry("failed", Head(todo.to), todo.said))
      BY <2>2 DEF Deliver
    <3> QED BY <3>2, <3>3 DEF Entry
  <2> QED BY <2>1, <2>2
<1> HIDE DEF Entries
<1>3. ASSUME NEW a \in Agents PROVE Cardinality(HeardOf(a)') = Cardinality(HeardOf(a))
  <2>1. Counted(a)
    BY TallyPlaces DEF Counted
  <2>2. Cardinality(HeardOf(a)') = Cardinality(HeardOf(a)) + 0
    BY <1>2, LogCounts
  <2> QED BY <2>1, <2>2 DEF Counted
<1>4. ASSUME NEW a \in Agents PROVE Tally(a)'
  <2>1. Tally(a) /\ InHand(a)' = InHand(a) /\ EventsOf(a)' = EventsOf(a)
    BY <1>1 DEF TallyInv, InHand, EventsOf
  <2> QED BY <1>1, <1>3, <2>1 DEF Tally
<1>5. reason' = "none"
  BY <1>1 DEF ReaderInv
<1> QED BY <1>1, <1>4, <1>5 DEF TallyInv, ReaderInv, LastWordsHeard

LEMMA RouterTallies ==
  ASSUME TypeInv, ReaderInv, TallyInv, RouterStep \/ SpawnFails
  PROVE  TallyInv'
<1>1. CASE TimeOut \/ HumanGone
  BY <1>1, StopTallies DEF TimeOut, HumanGone, Quiet, Reasons
<1>2. CASE Judge
  <2>1. ASSUME NEW r \in {"max_turns", "convergence"}, Stop(r) PROVE TallyInv'
    BY <1>2, <2>1, StopTallies DEF Judge, Reasons
  <2>2. CASE pc' = "select" /\ UNCHANGED <<events, log, reason>>
    <3>1. UNCHANGED <<log, events, outbox, speech, reader, hold, reason>> /\ pc = "deliver"
      BY <1>2, <2>2 DEF Judge, Rest, agentVars, readerVars
    <3>2. \A a \in Agents : Tally(a)' = Tally(a)
      BY <3>1, TallySame
    <3> QED BY <2>2, <3>1, <3>2 DEF TallyInv, ReaderInv, LastWordsHeard
  <2> QED BY <1>2, <2>1, <2>2 DEF Judge
<1>3. CASE Begin
  <2>1. /\ pc = "setup" /\ UNCHANGED <<log, events, outbox, speech, hold, reason>>
        /\ reader' = [a \in Agents |-> "recv"]
    BY <1>3 DEF Begin, agentVars
  <2>2. \A a \in Agents : reader[a] # "send"
    BY <2>1 DEF ReaderInv
  <2>3. \A a \in Agents : Tally(a)' = Tally(a)
    BY <2>1, <2>2, TallySame
  <2> QED BY <2>1, <2>3 DEF TallyInv, ReaderInv, LastWordsHeard
<1>4. CASE Publish \/ SpawnFails \/ Return \/ ClearRouter
  <2>1. UNCHANGED <<log, events, outbox, speech, reader, hold, reason>>
    BY <1>4 DEF Publish, SpawnFails, Return, ClearRouter, agentVars, readerVars, routerVars
  <2>2. \A a \in Agents : Tally(a)' = Tally(a)
    BY <2>1, TallySame
  <2>3. pc' \in {"setup", "deliver", "select"} => pc \in {"setup", "deliver", "select"}
    BY <1>4 DEF Publish, SpawnFails, Return, ClearRouter, routerVars
  <2> QED BY <2>1, <2>2, <2>3 DEF TallyInv, ReaderInv, LastWordsHeard, HeardOf
<1> HIDE DEF TypeInv
<1> QED BY <1>1, <1>2, <1>3, <1>4, GoneTallies, ReceiveTallies, OutTallies DEF RouterStep

LEMMA StepTallies == TypeInv /\ ReaderInv /\ TallyInv /\ [Next \/ AtRest]_vars => TallyInv'
<1> SUFFICES ASSUME TypeInv, ReaderInv, TallyInv, [Next \/ AtRest]_vars PROVE TallyInv'
  OBVIOUS
<1>1. CASE HumanStep \/ UNCHANGED vars
  <2>1. UNCHANGED <<pc, log, events, outbox, speech, reader, hold, reason>>
    BY <1>1 DEF HumanStep, Type, Forward, CtrlD, Call, Inject, vars, agentVars, readerVars,
                routerVars
  <2>2. \A a \in Agents : Tally(a)' = Tally(a)
    BY <2>1, TallySame
  <2> QED BY <2>1, <2>2 DEF TallyInv, ReaderInv, LastWordsHeard, HeardOf
<1> HIDE DEF TypeInv
<1> QED BY <1>1, AgentTallies, ReaderTallies, RouterTallies DEF Next, AtRest

\* When the conversation ends because all agents have left, everything that
\* their transports had parsed is in the log.
THEOREM LastWords == Spec => []LastWordsHeard
<1>1. TallyInv => LastWordsHeard
  BY DEF TallyInv
<1> QED BY <1>1, InitTypes, InitReaders, InitTally, StepTypes, StepReaders, StepTallies, PTL
        DEF Spec

-----------------------------------------------------------------------------
(* What is offered to whom, in which order.                                 *)

\* Entries that differ in their places differ in who they are for.
Distinct(s) == \A i, j \in 1..Len(s) : s[i] = s[j] => i = j

\* A broadcast that is not over waits in the deliver state, and it addresses
\* nobody twice; from the first entry of the log on, what an agent was offered,
\* and the utterance under way if it still awaits it, are what was said to it.
OfferInv ==
  /\ pc \in {"setup", "failed"} => log = <<>>
  /\ pc # "deliver" => todo.to = <<>>
  /\ Distinct(todo.to)
  /\ OfferedInOrder

\* What one more entry of the log says and offers to an agent.
LEMMA LogGrows ==
  ASSUME TypeInv, NEW a \in Agents, NEW x \in Entries, log' = Append(log, x)
  PROVE  /\ Offered(a) \in Seq(Utterances) /\ SaidToOthers(a) \in Seq(Utterances)
         /\ Offered(a)' = Offered(a) \o Offers(a, x)
         /\ SaidToOthers(a)' = SaidToOthers(a) \o SaysTo(a, x)
<1> DEFINE f == [e \in Entries |-> Offers(a, e)]
           g == [e \in Entries |-> SaysTo(a, e)]
           L == Append(log, x)
<1>1. ASSUME NEW e \in Entries
      PROVE  Offers(a, e) \in Seq(Utterances) /\ SaysTo(a, e) \in Seq(Utterances)
  <2>1. e.said \in Utterances
    OBVIOUS
  <2>2. <<e.said>> \in Seq(Utterances) /\ <<>> \in Seq(Utterances)
    BY <2>1, Singleton, EmptySeq
  <2> QED BY <2>2 DEF Offers, SaysTo
<1>2. /\ \A e \in Entries : f[e] \in Seq(Utterances)
      /\ \A e \in Entries : g[e] \in Seq(Utterances)
  BY <1>1
<1>3. log \in Seq(Entries) /\ L \in Seq(Entries)
  BY AppendProperties
<1>4. /\ \A i \in DOMAIN log : log[i] \in Entries
      /\ \A i \in DOMAIN L : L[i] \in Entries
  <2>1. ASSUME NEW s \in Seq(Entries), NEW i \in DOMAIN s PROVE s[i] \in Entries
    <3> HIDE DEF Entries
    <3>1. i \in 1..Len(s)
      BY LenProperties
    <3> QED BY <3>1, ElementOfSeq
  <2> QED BY <1>3, <2>1
<1>5. Offered(a) = FlatMap(f, log) /\ SaidToOthers(a) = FlatMap(g, log)
  <2>1. /\ [i \in DOMAIN log |-> f[log[i]]] = [i \in DOMAIN log |-> Offers(a, log[i])]
        /\ [i \in DOMAIN log |-> g[log[i]]] = [i \in DOMAIN log |-> SaysTo(a, log[i])]
    BY <1>4
  <2> QED BY <2>1 DEF Offered, SaidToOthers, FlatMap
<1>6. Offered(a)' = FlatMap(f, L) /\ SaidToOthers(a)' = FlatMap(g, L)
  <2>1. /\ [i \in DOMAIN L |-> f[L[i]]] = [i \in DOMAIN L |-> Offers(a, L[i])]
        /\ [i \in DOMAIN L |-> g[L[i]]] = [i \in DOMAIN L |-> SaysTo(a, L[i])]
    BY <1>4
  <2> QED BY <2>1 DEF Offered, SaidToOthers, FlatMap
<1>7. f[x] = Offers(a, x) /\ g[x] = SaysTo(a, x)
  OBVIOUS
<1> HIDE DEF f, g, Entries, TypeInv
<1>8. FlatMap(f, log) \in Seq(Utterances) /\ FlatMap(f, L) = FlatMap(f, log) \o f[x]
  BY <1>2, <1>3, FlatMapAppend
<1>9. FlatMap(g, log) \in Seq(Utterances) /\ FlatMap(g, L) = FlatMap(g, log) \o g[x]
  BY <1>2, <1>3, FlatMapAppend
<1> QED BY <1>5, <1>6, <1>7, <1>8, <1>9

\* Types are not looked into from here on, except for the broadcast and the log.
LEMMA BroadcastTyped ==
  ASSUME TypeInv
  PROVE  /\ todo.to \in Seq(Agents) /\ todo.said \in Utterances
         /\ log \in Seq(Entries) /\ events \in Seq(Fragments)
         /\ human \in Seq(Callers \cup {"stdin"})
OBVIOUS

LEMMA EntryTyped ==
  ASSUME NEW kind \in LogKinds, NEW who \in Agents \cup {"human", "router"},
         NEW said \in Utterances
  PROVE  /\ Entry(kind, who, said) \in Entries
         /\ Entry(kind, who, said).kind = kind /\ Entry(kind, who, said).who = who
         /\ Entry(kind, who, said).said = said
BY DEF Entry

HIDE DEF TypeInv, HoldInv, TypeOK, TransportTypeOK, LoopTypeOK, HumanTypeOK, Entries

\* The roster names every agent once.
LEMMA RosterDistinct ==
  /\ Distinct(Roster)
  /\ \A a \in Agents : \E i \in 1..Len(Roster) : Roster[i] = a
  BY RosterAssumption DEF Distinct, Agents

\* The others are everybody else, each once.
LEMMA OthersDistinct ==
  ASSUME NEW a \in Agents
  PROVE  /\ Distinct(Others(a))
         /\ \A b \in Agents : (\E i \in 1..Len(Others(a)) : Others(a)[i] = b) <=> b # a
<1> DEFINE k == CHOOSE i \in 1..Len(Roster) : Roster[i] = a
           n == Len(Roster)
           s == SubSeq(Roster, 1, k - 1)
           t == SubSeq(Roster, k + 1, n)
<1>1. k \in 1..n /\ Roster[k] = a
  BY RosterDistinct
<1>2. Roster \in Seq(Agents) /\ n \in Nat /\ \A i \in 1..n : Roster[i] \in Agents
  BY RosterAssumption, LenProperties DEF Agents
<1>3. Others(a) = s \o t
  BY DEF Others
<1> HIDE DEF k
<1>4. /\ s \in Seq(Agents) /\ Len(s) = k - 1 /\ \A i \in 1..(k - 1) : s[i] = Roster[i]
  <2>1. k - 1 \in Int /\ 1 \in Int /\ \A i \in 1..(k - 1) : Roster[i] \in Agents
    BY <1>1, <1>2
  <2>2. /\ s \in Seq(Agents)
        /\ Len(s) = IF 1 <= k - 1 THEN (k - 1) - 1 + 1 ELSE 0
        /\ \A i \in 1..(k - 1) - 1 + 1 : s[i] = Roster[1 + i - 1]
    BY <2>1, SubSeqProperties
  <2> QED BY <1>1, <1>2, <2>2
<1>5. /\ t \in Seq(Agents) /\ Len(t) = n - k /\ \A i \in 1..(n - k) : t[i] = Roster[k + i]
  <2>1. k + 1 \in Int /\ n \in Int /\ \A i \in (k + 1)..n : Roster[i] \in Agents
    BY <1>1, <1>2
  <2>2. /\ t \in Seq(Agents)
        /\ Len(t) = IF k + 1 <= n THEN n - (k + 1) + 1 ELSE 0
        /\ \A i \in 1..n - (k + 1) + 1 : t[i] = Roster[(k + 1) + i - 1]
    BY <2>1, SubSeqProperties
  <2> QED BY <1>1, <1>2, <2>2
<1> HIDE DEF s, t
<1>6. Len(s \o t) = n - 1
  BY <1>1, <1>2, <1>4, <1>5, ConcatProperties
<1>7. \A i \in 1..(n - 1) : (s \o t)[i] = IF i < k THEN Roster[i] ELSE Roster[i + 1]
  <2>1. ASSUME NEW i \in 1..(n - 1)
        PROVE  (s \o t)[i] = IF i < k THEN Roster[i] ELSE Roster[i + 1]
    <3>1. (s \o t)[i] = IF i <= Len(s) THEN s[i] ELSE t[i - Len(s)]
      BY <1>1, <1>2, <1>4, <1>5, ConcatProperties
    <3>2. CASE i < k
      BY <1>1, <1>2, <1>4, <3>1, <3>2
    <3>3. CASE ~(i < k)
      <4>1. ~(i <= Len(s)) /\ i - Len(s) \in 1..(n - k) /\ k + (i - Len(s)) = i + 1
        BY <1>1, <1>2, <1>4, <3>3
      <4> QED BY <1>5, <3>1, <3>3, <4>1
    <3> QED BY <3>2, <3>3
  <2> QED BY <2>1
<1> HIDE DEF n
<1>8. Distinct(Roster) /\ Len(Roster) = n
  BY RosterDistinct DEF n
<1>9. Distinct(s \o t)
  BY <1>1, <1>2, <1>6, <1>7, <1>8 DEF Distinct
<1>10. ASSUME NEW b \in Agents
       PROVE  (\E i \in 1..Len(s \o t) : (s \o t)[i] = b) <=> b # a
  <2>1. ASSUME NEW i \in 1..Len(s \o t), (s \o t)[i] = b PROVE b # a
    BY <1>1, <1>2, <1>6, <1>7, <1>8, <2>1 DEF Distinct
  <2>2. ASSUME b # a PROVE \E i \in 1..Len(s \o t) : (s \o t)[i] = b
    <3>1. PICK j \in 1..n : Roster[j] = b
      BY <1>8, RosterDistinct
    <3>2. j # k
      BY <1>1, <2>2, <3>1
    <3>3. CASE j < k
      <4>1. j \in 1..(n - 1)
        BY <1>1, <1>2, <3>1, <3>3
      <4> QED BY <1>6, <1>7, <3>1, <3>3, <4>1
    <3>4. CASE j > k
      <4>1. j - 1 \in 1..(n - 1) /\ ~(j - 1 < k) /\ (j - 1) + 1 = j
        BY <1>1, <1>2, <3>1, <3>4
      <4> QED BY <1>6, <1>7, <3>1, <4>1
    <3> QED BY <1>1, <1>2, <3>1, <3>2, <3>3, <3>4
  <2> QED BY <2>1, <2>2
<1> QED BY <1>3, <1>9, <1>10
\* Nothing changes that the invariant is about.
LEMMA OfferSame ==
  ASSUME OfferInv, log' = log, todo' = todo, pc' = pc
  PROVE  OfferInv'
<1>1. ASSUME NEW a \in Agents
      PROVE  /\ Offered(a)' = Offered(a) /\ SaidToOthers(a)' = SaidToOthers(a)
             /\ Awaits(a)' = Awaits(a)
  BY DEF Offered, SaidToOthers, Awaits
<1> QED BY <1>1 DEF OfferInv, OfferedInOrder, Distinct

\* An entry that says nothing to the agents and offers them nothing.
LEMMA OfferAside ==
  ASSUME TypeInv, OfferInv, NEW x \in Entries, log' = Append(log, x),
         x.kind \in {"note", "end"}, pc \notin {"setup", "failed", "done"},
         pc' \in {"select", "join"}, pc # pc' => pc' = "join",
         todo.to = <<>>, todo' \in {todo, NoTodo}
  PROVE  OfferInv'
<1>1. todo'.to = <<>> /\ ~ \E i \in 1..Len(todo'.to) : TRUE
  BY EmptySeq DEF NoTodo
<1>2. \A a \in Agents : ~Awaits(a) /\ ~Awaits(a)'
  BY <1>1, EmptySeq DEF Awaits
<1>3. ASSUME NEW a \in Agents
      PROVE  Offered(a)' \o (IF Awaits(a)' THEN <<todo'.said>> ELSE <<>>)
               = <<Seed>> \o SaidToOthers(a)'
  <2>1. Offers(a, x) = <<>> /\ SaysTo(a, x) = <<>>
    BY DEF Offers, SaysTo
  <2>2. Offered(a)' = Offered(a) /\ SaidToOthers(a)' = SaidToOthers(a)
    <3>1. /\ Offered(a) \in Seq(Utterances) /\ SaidToOthers(a) \in Seq(Utterances)
          /\ Offered(a)' = Offered(a) \o Offers(a, x)
          /\ SaidToOthers(a)' = SaidToOthers(a) \o SaysTo(a, x)
      BY LogGrows
    <3> QED BY <2>1, <3>1, ConcatEmptySeq
  <2>3. Offered(a) \o (IF Awaits(a) THEN <<todo.said>> ELSE <<>>)
          = <<Seed>> \o SaidToOthers(a)
    BY DEF OfferInv, OfferedInOrder
  <2>4. Offered(a) \o <<>> = <<Seed>> \o SaidToOthers(a)
    BY <1>2, <2>3
  <2> QED BY <1>2, <2>2, <2>4
<1>4. Distinct(todo'.to)
  BY <1>1 DEF Distinct
<1> QED BY <1>1, <1>3, <1>4 DEF OfferInv, OfferedInOrder

\* What is said is on its way to all but the speaker, if it is an agent.
LEMMA OfferSaid ==
  ASSUME TypeInv, OfferInv, pc = "select", pc' = "deliver",
         NEW u \in Utterances, NEW who \in Agents \cup {"human"}, u.from = who,
         log' = Append(log, Entry("in", who, u)),
         NEW to, todo' = [to |-> to, said |-> u], Distinct(to),
         \A a \in Agents : (\E i \in 1..Len(to) : to[i] = a) <=> a # who
  PROVE  OfferInv'
<1>0. Entry("in", who, u) \in Entries
  BY EntryTyped DEF LogKinds
<1>1. todo'.said = u /\ todo'.to = to
  OBVIOUS
<1>2. todo.to = <<>>
  BY DEF OfferInv
<1>3. ASSUME NEW a \in Agents
      PROVE  Offered(a)' \o (IF Awaits(a)' THEN <<todo'.said>> ELSE <<>>)
               = <<Seed>> \o SaidToOthers(a)'
  <2>1. Offers(a, Entry("in", who, u)) = <<>>
    BY DEF Offers, Entry
  <2>2. SaysTo(a, Entry("in", who, u)) = IF a # who THEN <<u>> ELSE <<>>
    BY DEF SaysTo, Entry
  <2>3. Awaits(a)' <=> a # who
    BY <1>1 DEF Awaits
  <2>4. Offered(a) \o <<>> = <<Seed>> \o SaidToOthers(a)
    <3>1. ~Awaits(a)
      BY <1>2, EmptySeq DEF Awaits
    <3>2. Offered(a) \o (IF Awaits(a) THEN <<todo.said>> ELSE <<>>)
            = <<Seed>> \o SaidToOthers(a)
      BY DEF OfferInv, OfferedInOrder
    <3> QED BY <3>1, <3>2
  <2>5. /\ Offered(a) \in Seq(Utterances) /\ SaidToOthers(a) \in Seq(Utterances)
        /\ Offered(a)' = Offered(a) \o <<>>
        /\ SaidToOthers(a)' = SaidToOthers(a) \o (IF a # who THEN <<u>> ELSE <<>>)
    <3>1. /\ Offered(a) \in Seq(Utterances) /\ SaidToOthers(a) \in Seq(Utterances)
          /\ Offered(a)' = Offered(a) \o Offers(a, Entry("in", who, u))
          /\ SaidToOthers(a)' = SaidToOthers(a) \o SaysTo(a, Entry("in", who, u))
      BY <1>0, LogGrows
    <3> QED BY <2>1, <2>2, <3>1
  <2>6. Offered(a) \o <<>> = Offered(a)
    BY <2>5, ConcatEmptySeq
  <2>7. SaidToOthers(a) \o <<>> = SaidToOthers(a)
    BY <2>5, ConcatEmptySeq
  <2>8. (<<Seed>> \o SaidToOthers(a)) \o <<u>> = <<Seed>> \o (SaidToOthers(a) \o <<u>>)
    <3>1. Seed \in Utterances
      BY DEF Seed, Utterances
    <3>2. <<Seed>> \in Seq(Utterances) /\ <<u>> \in Seq(Utterances)
      BY <3>1, Singleton
    <3> QED BY <2>5, <3>2, ConcatAssociative
  <2>9. CASE a # who
    BY <1>1, <2>3, <2>4, <2>5, <2>6, <2>8, <2>9
  <2>10. CASE a = who
    BY <1>1, <2>3, <2>4, <2>5, <2>6, <2>7, <2>10
  <2> QED BY <2>9, <2>10
<1> QED BY <1>1, <1>3 DEF OfferInv, OfferedInOrder

\* One send less to go: who it was for has been offered what it awaited.
LEMMA DeliverOffers ==
  ASSUME TypeInv, OfferInv, Deliver
  PROVE  OfferInv'
<1> DEFINE h == Head(todo.to)
<1>1. /\ h \in Agents /\ Tail(todo.to) \in Seq(Agents) /\ todo.said \in Utterances
      /\ h = todo.to[1] /\ Len(todo.to) \in Nat \ {0}
      /\ Len(Tail(todo.to)) = Len(todo.to) - 1
      /\ \A i \in 1..Len(Tail(todo.to)) : Tail(todo.to)[i] = todo.to[i + 1]
  <2>1. todo.to \in Seq(Agents) /\ todo.to # <<>> /\ todo.said \in Utterances
    BY BroadcastTyped DEF Deliver
  <2> QED BY <2>1, HeadTailProperties, EmptySeq
<1>2. todo'.to = Tail(todo.to) /\ todo'.said = todo.said /\ pc' = "deliver" /\ pc = "deliver"
  BY DEF Deliver
<1>3. PICK x \in Entries : /\ x.kind \in {"out", "failed"} /\ x.who = h /\ x.said = todo.said
                           /\ log' = Append(log, x)
  <2>1. PICK kind \in {"out", "failed"} : log' = Append(log, Entry(kind, h, todo.said))
    BY DEF Deliver
  <2>2. kind \in LogKinds /\ h \in Agents \cup {"human", "router"}
    BY <1>1 DEF LogKinds
  <2>3. LET x == Entry(kind, h, todo.said)
        IN  x \in Entries /\ x.kind = kind /\ x.who = h /\ x.said = todo.said
    BY <1>1, <2>2, EntryTyped
  <2> QED BY <2>1, <2>3
<1>4. Distinct(todo.to)
  BY DEF OfferInv
<1>5. Distinct(Tail(todo.to))
  <2>1. SUFFICES ASSUME NEW i \in 1..Len(Tail(todo.to)), NEW j \in 1..Len(Tail(todo.to)),
                        Tail(todo.to)[i] = Tail(todo.to)[j]
                 PROVE  i = j
    BY DEF Distinct
  <2>2. /\ i + 1 \in 1..Len(todo.to) /\ j + 1 \in 1..Len(todo.to)
        /\ todo.to[i + 1] = todo.to[j + 1]
    BY <1>1, <2>1
  <2>3. i + 1 = j + 1
    BY <1>4, <2>2 DEF Distinct
  <2> QED BY <1>1, <2>3
<1>6. ASSUME NEW a \in Agents
      PROVE  Offered(a)' \o (IF Awaits(a)' THEN <<todo'.said>> ELSE <<>>)
               = <<Seed>> \o SaidToOthers(a)'
  <2>1. /\ Offered(a) \in Seq(Utterances) /\ SaidToOthers(a) \in Seq(Utterances)
        /\ Offered(a)' = Offered(a) \o Offers(a, x)
        /\ SaidToOthers(a)' = SaidToOthers(a) \o SaysTo(a, x)
    BY <1>3, LogGrows
  <2>2. SaysTo(a, x) = <<>> /\ Offers(a, x) = IF a = h THEN <<todo.said>> ELSE <<>>
    BY <1>3 DEF SaysTo, Offers
  <2>3. Offered(a) \o <<>> = Offered(a) /\ SaidToOthers(a) \o <<>> = SaidToOthers(a)
    BY <2>1, ConcatEmptySeq
  <2>4. Offered(a) \o (IF Awaits(a) THEN <<todo.said>> ELSE <<>>)
          = <<Seed>> \o SaidToOthers(a)
    BY <1>2 DEF OfferInv, OfferedInOrder
  <2>5. CASE a = h
    <3>1. Awaits(a)
      BY <1>1, <2>5 DEF Awaits
    <3>2. ~Awaits(a)'
      <4>1. SUFFICES ASSUME NEW i \in 1..Len(Tail(todo.to)), Tail(todo.to)[i] = a
                     PROVE  FALSE
        BY <1>2 DEF Awaits
      <4>2. i + 1 \in 1..Len(todo.to) /\ 1 \in 1..Len(todo.to) /\ todo.to[i + 1] = todo.to[1]
        BY <1>1, <2>5, <4>1
      <4>3. i + 1 = 1
        BY <1>4, <4>2 DEF Distinct
      <4> QED BY <1>1, <4>3
    <3>3. Offered(a)' \in Seq(Utterances)
      <4>1. <<todo.said>> \in Seq(Utterances)
        BY <1>1, Singleton
      <4> QED BY <2>1, <2>2, <2>5, <4>1, ConcatProperties
    <3>4. Offered(a)' \o <<>> = Offered(a)'
      BY <3>3, ConcatEmptySeq
    <3> QED BY <2>1, <2>2, <2>3, <2>4, <2>5, <3>1, <3>2, <3>4
  <2>6. CASE a # h
    <3>1. Awaits(a)' <=> Awaits(a)
      <4>1. ASSUME Awaits(a) PROVE Awaits(a)'
        <5>1. PICK i \in 1..Len(todo.to) : todo.to[i] = a
          BY <4>1 DEF Awaits
        <5>2. i # 1
          BY <1>1, <2>6, <5>1
        <5>4. i - 1 \in 1..Len(Tail(todo.to)) /\ (i - 1) + 1 = i
          BY <1>1, <5>2
        <5>3. Tail(todo.to)[i - 1] = a
          BY <1>1, <5>1, <5>4
        <5> QED BY <1>2, <5>4, <5>3 DEF Awaits
      <4>2. ASSUME Awaits(a)' PROVE Awaits(a)
        <5>1. PICK i \in 1..Len(Tail(todo.to)) : Tail(todo.to)[i] = a
          BY <1>2, <4>2 DEF Awaits
        <5>2. i + 1 \in 1..Len(todo.to) /\ todo.to[i + 1] = a
          BY <1>1, <5>1
        <5> QED BY <5>2 DEF Awaits
      <4> QED BY <4>1, <4>2
    <3>2. Offered(a)' = Offered(a) /\ SaidToOthers(a)' = SaidToOthers(a)
      BY <2>1, <2>2, <2>3, <2>6
    <3> QED BY <1>2, <2>4, <3>1, <3>2
  <2> QED BY <2>5, <2>6
<1> QED BY <1>2, <1>5, <1>6 DEF OfferInv, OfferedInOrder
\* The end of the loop, seen from the broadcast.
LEMMA StopOffers ==
  ASSUME TypeInv, OfferInv, NEW r \in Reasons, Stop(r), pc \in {"deliver", "select"},
         todo.to = <<>>, todo' \in {todo, NoTodo}
  PROVE  OfferInv'
<1>1. [from |-> "router", text |-> r] \in Utterances
  BY DEF Utterances
<1>2. LET x == Entry("end", "router", [from |-> "router", text |-> r])
      IN  x \in Entries /\ x.kind = "end"
  BY <1>1, EntryTyped DEF LogKinds
<1> QED BY <1>2, OfferAside DEF Stop

LEMMA InitOffers == Init => OfferInv
<1> SUFFICES ASSUME Init PROVE OfferInv
  OBVIOUS
<1>1. pc = "setup" /\ log = <<>> /\ todo.to = <<>>
  BY DEF Init, NoTodo
<1> QED BY <1>1, EmptySeq DEF OfferInv, OfferedInOrder, Distinct

\* The seed is on its way to everybody.
LEMMA BeginOffers ==
  ASSUME TypeInv, OfferInv, Begin
  PROVE  OfferInv'
<1>1. /\ log' = log /\ log = <<>> /\ pc' = "deliver" /\ todo'.to = Roster /\ todo'.said = Seed
  BY DEF Begin, OfferInv
<1>2. ASSUME NEW a \in Agents
      PROVE  Offered(a)' \o (IF Awaits(a)' THEN <<todo'.said>> ELSE <<>>)
               = <<Seed>> \o SaidToOthers(a)'
  <2>1. Awaits(a)'
    BY <1>1, RosterDistinct DEF Awaits
  <2>2. Offered(a)' = <<>> /\ SaidToOthers(a)' = <<>>
    <3>1. /\ [i \in DOMAIN log' |-> Offers(a, log'[i])] = <<>>
          /\ [i \in DOMAIN log' |-> SaysTo(a, log'[i])] = <<>>
      BY <1>1
    <3>2. FlattenSeq(<<>>) = <<>>
      <4>1. <<>> \in Seq(Seq({}))
        BY EmptySeq
      <4> QED BY <4>1, EmptySeq, FlatAppend
    <3> QED BY <3>1, <3>2 DEF Offered, SaidToOthers
  <2>3. <<>> \o <<Seed>> = <<Seed>> /\ <<Seed>> \o <<>> = <<Seed>>
    <3>1. <<Seed>> \in Seq({Seed})
      BY Singleton
    <3> QED BY <3>1, ConcatEmptySeq
  <2> QED BY <1>1, <2>1, <2>2, <2>3
<1> QED BY <1>1, <1>2, RosterDistinct DEF OfferInv, OfferedInOrder

LEMMA ReceiveOffers ==
  ASSUME TypeInv, OfferInv, Receive
  PROVE  OfferInv'
<1> DEFINE e == Head(events)
<1>1. e \in Fragments
  BY BroadcastTyped, HeadTailProperties DEF Receive
<1>2. /\ e.from \in Agents /\ Utterance(e) \in Utterances /\ Utterance(e).from = e.from
      /\ pc = "select" /\ todo.to = <<>>
  BY <1>1 DEF Fragments, Utterance, Utterances, Receive, OfferInv
<1>3. CASE /\ log'   = Append(log, Entry("in", e.from, Utterance(e)))
           /\ todo'  = [to |-> Others(e.from), said |-> Utterance(e)]
           /\ pc'    = "deliver"
  <2> DEFINE to == Others(e.from)
  <2>1. /\ Distinct(to)
        /\ \A a \in Agents : (\E i \in 1..Len(to) : to[i] = a) <=> a # e.from
    BY <1>2, OthersDistinct
  <2> HIDE DEF e, to
  <2> QED BY <1>2, <1>3, <2>1, OfferSaid DEF to
<1>4. CASE /\ log' = Append(log, Entry("note", e.from, Utterance(e)))
           /\ UNCHANGED <<todo, pc>>
  <2>1. LET x == Entry("note", e.from, Utterance(e))
        IN  x \in Entries /\ x.kind = "note"
    BY <1>2, EntryTyped DEF LogKinds
  <2> QED BY <1>2, <1>4, <2>1, OfferAside
<1> QED BY <1>3, <1>4 DEF Receive

LEMMA HearOffers ==
  ASSUME TypeInv, OfferInv, Hear
  PROVE  OfferInv'
<1> DEFINE u == [from |-> "human", text |-> Head(human)]
<1>1. u \in Utterances /\ u.from = "human"
  BY BroadcastTyped, HeadTailProperties DEF Hear, Utterances
<1>2. /\ pc = "select" /\ pc' = "deliver" /\ log' = Append(log, Entry("in", "human", u))
      /\ todo' = [to |-> Roster, said |-> u]
  BY DEF Hear, Quiet
<1>3. /\ Distinct(Roster)
      /\ \A a \in Agents : (\E i \in 1..Len(Roster) : Roster[i] = a) <=> a # "human"
  BY RosterDistinct, NotAgents
<1> HIDE DEF u
<1> QED BY <1>1, <1>2, <1>3, OfferSaid

LEMMA JudgeOffers ==
  ASSUME TypeInv, OfferInv, Judge
  PROVE  OfferInv'
<1>1. pc = "deliver" /\ todo.to = <<>> /\ todo' = NoTodo
  BY DEF Judge
<1>2. ASSUME NEW r \in {"max_turns", "convergence"}, Stop(r) PROVE OfferInv'
  BY <1>1, <1>2, StopOffers DEF Reasons
<1>3. CASE pc' = "select" /\ UNCHANGED log
  <2>1. todo'.to = <<>>
    BY <1>1 DEF NoTodo
  <2>2. ASSUME NEW a \in Agents
        PROVE  /\ Offered(a)' = Offered(a) /\ SaidToOthers(a)' = SaidToOthers(a)
               /\ ~Awaits(a)' /\ ~Awaits(a)
    BY <1>1, <1>3, <2>1, EmptySeq DEF Offered, SaidToOthers, Awaits
  <2>3. Distinct(todo'.to)
    BY <2>1, EmptySeq DEF Distinct
  <2> QED BY <1>1, <1>3, <2>1, <2>2, <2>3 DEF OfferInv, OfferedInOrder
<1> QED BY <1>2, <1>3 DEF Judge

\* Every step of a conversation keeps the broadcast in order.
LEMMA StepOffers == TypeInv /\ OfferInv /\ [Next \/ AtRest]_vars => OfferInv'
<1> SUFFICES ASSUME TypeInv, OfferInv, [Next \/ AtRest]_vars PROVE OfferInv'
  OBVIOUS
<1>1. CASE TimeOut \/ AgentsGone \/ HumanGone
  BY <1>1, StopOffers DEF TimeOut, AgentsGone, HumanGone, Quiet, OfferInv, Reasons
<1>2. ASSUME UNCHANGED <<log, todo>>, pc' = "failed", pc = "setup" PROVE OfferInv'
  BY <1>2 DEF OfferInv, OfferedInOrder, Distinct
<1>3. ASSUME UNCHANGED <<log, todo>>, \/ pc = "join" /\ pc' = "over"
                                      \/ pc \in {"over", "failed"} /\ pc' = "done"
      PROVE  OfferInv'
  <2>1. ASSUME NEW a \in Agents
        PROVE  /\ Offered(a)' = Offered(a) /\ SaidToOthers(a)' = SaidToOthers(a)
               /\ Awaits(a)' = Awaits(a)
    BY <1>3 DEF Offered, SaidToOthers, Awaits
  <2> QED BY <1>3, <2>1 DEF OfferInv, OfferedInOrder, Distinct
<1>4. CASE SpawnFails \/ Return \/ ClearRouter
  BY <1>2, <1>3, <1>4 DEF SpawnFails, Return, ClearRouter
<1>5. CASE HumanStep \/ Publish
  BY <1>5, OfferSame DEF HumanStep, Type, Forward, CtrlD, Call, Inject, Publish, routerVars
<1>6. ASSUME NEW a \in Agents, ReaderStep(a) \/ AgentStep(a) PROVE OfferInv'
  BY <1>6, OfferSame DEF ReaderStep, Carry, Push, StopReading, AgentStep, Listen, Reply,
     Note, Garble, Exit, routerVars
<1>7. CASE UNCHANGED vars
  BY <1>7, OfferSame DEF vars, routerVars
<1> QED BY <1>1, <1>4, <1>5, <1>6, <1>7, BeginOffers, ReceiveOffers, HearOffers,
           DeliverOffers, JudgeOffers DEF Next, RouterStep, AtRest

\* The router is a broadcast: every agent is offered the seed and then all that
\* the others and the human say, once, in the order in which it was said,
\* whichever agents are gone and whichever reason ends the conversation.
THEOREM BroadcastInOrder == Spec => []OfferedInOrder
<1>1. OfferInv => OfferedInOrder
  BY DEF OfferInv
<1> QED BY <1>1, InitTypes, InitOffers, StepTypes, StepOffers, PTL DEF Spec
-----------------------------------------------------------------------------
(* The conversation behind the machinery.                                   *)

\* What agents and the human have said, as the discourse sees it.
Said == FlattenSeq([i \in DOMAIN log |-> Uttered(log[i])])

Word == [from : Agents \cup {"human"}, text : {"talk", "done"}]

\* What one more entry of the log adds to it.
LEMMA SaidGrows ==
  ASSUME TypeInv, NEW x \in Entries, log' = Append(log, x)
  PROVE  Said \in Seq(Utterances) /\ Said' = Said \o Uttered(x)
<1> DEFINE f == [e \in Entries |-> Uttered(e)]
<1>1. ASSUME NEW e \in Entries PROVE Uttered(e) \in Seq(Utterances)
  <2>1. Plain(e.said) \in Utterances
    BY DEF Entries, Plain, Utterances
  <2>2. <<Plain(e.said)>> \in Seq(Utterances) /\ <<>> \in Seq(Utterances)
    BY <2>1, Singleton, EmptySeq
  <2> QED BY <2>2 DEF Uttered
<1>2. \A e \in Entries : f[e] \in Seq(Utterances)
  BY <1>1
<1>3. log \in Seq(Entries) /\ Append(log, x) \in Seq(Entries)
  BY BroadcastTyped, AppendProperties
<1>4. /\ \A i \in DOMAIN log : log[i] \in Entries
      /\ \A i \in DOMAIN Append(log, x) : Append(log, x)[i] \in Entries
  <2>1. ASSUME NEW s \in Seq(Entries), NEW i \in DOMAIN s PROVE s[i] \in Entries
    <3>1. i \in 1..Len(s)
      BY LenProperties
    <3> QED BY <3>1, ElementOfSeq
  <2> QED BY <1>3, <2>1
<1>5. Said = FlatMap(f, log)
  <2>1. [i \in DOMAIN log |-> f[log[i]]] = [i \in DOMAIN log |-> Uttered(log[i])]
    BY <1>4
  <2> QED BY <2>1 DEF Said, FlatMap
<1>6. Said' = FlatMap(f, Append(log, x))
  <2> DEFINE L == Append(log, x)
  <2>1. [i \in DOMAIN L |-> f[L[i]]] = [i \in DOMAIN L |-> Uttered(L[i])]
    BY <1>4
  <2> QED BY <2>1 DEF Said, FlatMap
<1>7. f[x] = Uttered(x)
  OBVIOUS
<1> HIDE DEF f
<1>8. FlatMap(f, log) \in Seq(Utterances) /\ FlatMap(f, Append(log, x)) = FlatMap(f, log) \o f[x]
  BY <1>2, <1>3, FlatMapAppend
<1> QED BY <1>5, <1>6, <1>7, <1>8

\* The round that k opens: k is 0 or the last utterance that is no agent's.
Opens(s, k) ==
  /\ k \in 0..Len(s)
  /\ k > 0 => s[k].from \notin Agents
  /\ \A i \in (k + 1)..Len(s) : s[i].from \in Agents

LEMMA RoundStartIs ==
  ASSUME NEW s \in Seq(Word), NEW k, Opens(s, k)
  PROVE  Talk!RoundStart(s) = k
<1>1. Len(s) \in Nat /\ k \in 0..Len(s)
  BY LenProperties DEF Opens
<1>2. ASSUME NEW j, Opens(s, j) PROVE j = k
  <2>1. j \in 0..Len(s)
    BY <1>2 DEF Opens
  <2>2. ~(j < k)
    <3>1. ASSUME j < k PROVE FALSE
      <4>1. k > 0 /\ k \in (j + 1)..Len(s)
        BY <1>1, <2>1, <3>1
      <4> QED BY <1>2, <4>1 DEF Opens
    <3> QED BY <3>1
  <2>3. ~(k < j)
    <3>1. ASSUME k < j PROVE FALSE
      <4>1. j > 0 /\ j \in (k + 1)..Len(s)
        BY <1>1, <2>1, <3>1
      <4> QED BY <1>2, <4>1 DEF Opens
    <3> QED BY <3>1
  <2> QED BY <1>1, <2>1, <2>2, <2>3
<1>3. Talk!RoundStart(s) = CHOOSE j \in 0..Len(s) : Opens(s, j)
  BY DEF Talk!RoundStart, Opens
<1>4. k \in 0..Len(s) /\ Opens(s, k)
  BY <1>1
<1>5. Opens(s, CHOOSE j \in 0..Len(s) : Opens(s, j))
  BY <1>4
<1> QED BY <1>2, <1>3, <1>5

\* What the router remembers of a is what a said last in the round k opens.
Remembers(s, k, a, said) ==
  \/ /\ said = "none"
     /\ \A i \in (k + 1)..Len(s) : s[i].from # a
  \/ \E i \in (k + 1)..Len(s) :
       /\ s[i].from = a /\ s[i].text = said
       /\ \A j \in (i + 1)..Len(s) : s[j].from # a

\* All agree just if what is remembered of everyone is an agreement.
LEMMA AgreedIs ==
  ASSUME NEW s \in Seq(Word), NEW k, Opens(s, k), NEW f,
         \A a \in Agents : Remembers(s, k, a, f[a])
  PROVE  Talk!Agreed(s) <=> \A a \in Agents : f[a] = "done"
<1>1. Len(s) \in Nat /\ k \in 0..Len(s) /\ Talk!RoundStart(s) = k
  BY RoundStartIs, LenProperties DEF Opens
<1>2. Talk!Agreed(s) <=>
        \A a \in Agents : \E i \in (k + 1)..Len(s) :
          /\ s[i].from = a /\ s[i].text = "done"
          /\ \A j \in (i + 1)..Len(s) : s[j].from # a
  BY <1>1 DEF Talk!Agreed
<1>3. ASSUME NEW a \in Agents
      PROVE  f[a] = "done" <=>
               \E i \in (k + 1)..Len(s) :
                 /\ s[i].from = a /\ s[i].text = "done"
                 /\ \A j \in (i + 1)..Len(s) : s[j].from # a
  <2>1. ASSUME f[a] = "done"
        PROVE  \E i \in (k + 1)..Len(s) :
                 /\ s[i].from = a /\ s[i].text = "done"
                 /\ \A j \in (i + 1)..Len(s) : s[j].from # a
    BY <2>1 DEF Remembers
  <2>2. ASSUME NEW i \in (k + 1)..Len(s), s[i].from = a, s[i].text = "done",
               \A j \in (i + 1)..Len(s) : s[j].from # a
        PROVE  f[a] = "done"
    <3>1. PICK m \in (k + 1)..Len(s) : /\ s[m].from = a /\ s[m].text = f[a]
                                       /\ \A j \in (m + 1)..Len(s) : s[j].from # a
      BY <2>2 DEF Remembers
    <3>2. ~(i < m)
      <4>1. ASSUME i < m PROVE m \in (i + 1)..Len(s)
        BY <1>1, <4>1
      <4> QED BY <2>2, <3>1, <4>1
    <3>3. ~(m < i)
      <4>1. ASSUME m < i PROVE i \in (m + 1)..Len(s)
        BY <1>1, <4>1
      <4> QED BY <2>2, <3>1, <4>1
    <3>4. i = m
      BY <1>1, <3>2, <3>3
    <3> QED BY <2>2, <3>1, <3>4
  <2> QED BY <2>1, <2>2
<1> QED BY <1>2, <1>3

\* An utterance appended, of an agent or of the human.
LEMMA SpokenOn ==
  ASSUME NEW s \in Seq(Word), NEW k, Opens(s, k), NEW f, NEW a \in Agents, NEW t,
         [from |-> a, text |-> t] \in Word,
         \A b \in Agents : Remembers(s, k, b, f[b])
  PROVE  LET u == Append(s, [from |-> a, text |-> t])
         IN  /\ Opens(u, k) /\ Remembers(u, k, a, t)
             /\ \A b \in Agents : b # a => Remembers(u, k, b, f[b])
<1> DEFINE w == [from |-> a, text |-> t]
           u == Append(s, w)
           n == Len(s)
<1>1. /\ n \in Nat /\ k \in 0..n /\ Len(u) = n + 1 /\ u[n + 1] = w
      /\ \A i \in 1..n : u[i] = s[i]
  BY AppendProperties, LenProperties DEF Opens
<1>2. w.from = a /\ w.text = t
  OBVIOUS
<1> HIDE DEF u, w, n
<1>3. Opens(u, k)
  <2>1. k > 0 => u[k].from \notin Agents
    BY <1>1 DEF Opens
  <2>2. ASSUME NEW i \in (k + 1)..(n + 1) PROVE u[i].from \in Agents
    <3>1. CASE i = n + 1
      BY <1>1, <1>2, <3>1
    <3>2. CASE i # n + 1
      <4>1. i \in 1..n /\ i \in (k + 1)..Len(s)
        BY <1>1, <3>2 DEF n
      <4> QED BY <1>1, <4>1 DEF Opens
    <3> QED BY <3>1, <3>2
  <2> QED BY <1>1, <2>1, <2>2 DEF Opens
<1>4. Remembers(u, k, a, t)
  <2>1. n + 1 \in (k + 1)..Len(u) /\ (n + 1 + 1)..Len(u) = {}
    BY <1>1
  <2> QED BY <1>1, <1>2, <2>1 DEF Remembers
<1>5. ASSUME NEW b \in Agents, b # a PROVE Remembers(u, k, b, f[b])
  <2>1. Remembers(s, k, b, f[b])
    OBVIOUS
  <2>2. ASSUME f[b] = "none", \A i \in (k + 1)..Len(s) : s[i].from # b
        PROVE  \A i \in (k + 1)..Len(u) : u[i].from # b
    BY <1>1, <1>2, <1>5, <2>2 DEF n
  <2>3. ASSUME NEW i \in (k + 1)..Len(s), s[i].from = b, s[i].text = f[b],
               \A j \in (i + 1)..Len(s) : s[j].from # b
        PROVE  /\ i \in (k + 1)..Len(u) /\ u[i].from = b /\ u[i].text = f[b]
               /\ \A j \in (i + 1)..Len(u) : u[j].from # b
    <3>1. i \in 1..n /\ i \in (k + 1)..Len(u)
      BY <1>1 DEF n
    <3>2. ASSUME NEW j \in (i + 1)..Len(u) PROVE u[j].from # b
      <4>1. CASE j = n + 1
        BY <1>1, <1>2, <1>5, <4>1
      <4>2. CASE j # n + 1
        <5>1. j \in 1..n /\ j \in (i + 1)..Len(s)
          BY <1>1, <3>1, <4>2 DEF n
        <5> QED BY <1>1, <2>3, <5>1
      <4> QED BY <4>1, <4>2
    <3> QED BY <1>1, <2>3, <3>1, <3>2
  <2> QED BY <2>1, <2>2, <2>3 DEF Remembers
<1> QED BY <1>3, <1>4, <1>5 DEF u, w

LEMMA InterjectedOn ==
  ASSUME NEW s \in Seq(Word)
  PROVE  LET u == Append(s, [from |-> "human", text |-> "talk"])
         IN  /\ Opens(u, Len(u))
             /\ \A b \in Agents : Remembers(u, Len(u), b, "none")
<1> DEFINE w == [from |-> "human", text |-> "talk"]
           u == Append(s, w)
<1>1. Len(u) = Len(s) + 1 /\ u[Len(s) + 1] = w /\ Len(s) \in Nat
  BY AppendProperties, LenProperties DEF Word
<1>2. w.from \notin Agents
  BY NotAgents
<1> HIDE DEF u, w
<1>3. (Len(u) + 1)..Len(u) = {}
  BY <1>1
<1> QED BY <1>1, <1>2, <1>3 DEF Opens, Remembers, u, w

\* The instance counts as we do.
LEMMA SameCount == ASSUME NEW S PROVE Talk!Cardinality(S) = Cardinality(S)
BY DEF Talk!Cardinality, Cardinality

\* An utterance appended counts as a turn if an agent said it.
LEMMA TurnsOn ==
  ASSUME NEW s \in Seq(Word), NEW w \in Word
  PROVE  Talk!Turns(Append(s, w)) = Talk!Turns(s) + (IF w.from \in Agents THEN 1 ELSE 0)
<1> DEFINE u == Append(s, w)
           n == Len(s)
           T(x) == {i \in 1..Len(x) : x[i].from \in Agents}
<1>1. n \in Nat /\ Len(u) = n + 1 /\ u[n + 1] = w /\ \A i \in 1..n : u[i] = s[i]
  BY AppendProperties, LenProperties
<1> HIDE DEF u, n, T
<1>2. 1..(n + 1) = 1..n \cup {n + 1} /\ IsFiniteSet(1..n)
  BY <1>1, LongerInterval, FS_Interval
<1>3. T(s) \subseteq 1..n /\ IsFiniteSet(T(s)) /\ n + 1 \notin T(s)
  <2>1. T(s) \subseteq 1..n
    BY DEF T, n
  <2>2. n + 1 \notin 1..n
    BY <1>1
  <2> QED BY <1>2, <2>1, <2>2, FS_Subset
<1>4. Cardinality(T(s)) \in Nat
  BY <1>3, FS_CardinalityType
<1>5. Talk!Turns(u) = Cardinality(T(u)) /\ Talk!Turns(s) = Cardinality(T(s))
  BY SameCount DEF Talk!Turns, T
<1>6. CASE w.from \in Agents
  <2>1. T(u) = T(s) \cup {n + 1}
    <3>1. T(u) = {i \in 1..n \cup {n + 1} : u[i].from \in Agents}
      BY <1>1, <1>2 DEF T
    <3>2. T(s) = {i \in 1..n : u[i].from \in Agents}
      BY <1>1 DEF T, n
    <3>3. \A i : i \in T(u) <=> i \in T(s) \cup {n + 1}
      BY <1>1, <1>6, <3>1, <3>2
    <3> QED BY <3>3
  <2>2. Cardinality(T(u)) = Cardinality(T(s)) + 1
    BY <1>3, <2>1, FS_AddElement
  <2> QED BY <1>6, <1>5, <2>2 DEF u
<1>7. CASE w.from \notin Agents
  <2>1. T(u) = T(s)
    <3>1. T(u) = {i \in 1..n \cup {n + 1} : u[i].from \in Agents}
      BY <1>1, <1>2 DEF T
    <3>2. T(s) = {i \in 1..n : u[i].from \in Agents}
      BY <1>1 DEF T, n
    <3>3. \A i : i \in T(u) <=> i \in T(s)
      BY <1>1, <1>7, <3>1, <3>2
    <3> QED BY <3>3
  <2> QED BY <1>4, <1>7, <1>5, <2>1 DEF u
<1> QED BY <1>6, <1>7
\* Where the router may receive another utterance.
Listening ==
  \/ pc \in {"setup", "select"}
  \/ pc = "deliver" /\ todo.said.from \notin Agents

\* The router's counter and memory are those of what was said, and while it
\* listens the conversation is not settled.
TalkInv ==
  /\ Said \in Seq(Word)
  /\ turns = Talk!Turns(Said)
  /\ \E k \in Nat : /\ Opens(Said, k)
                    /\ \A a \in Agents : Remembers(Said, k, a, last[a].text)
  /\ Listening => ~Unanimous

\* What the router sees of the end is the end of the discourse.
LEMMA SettledIs ==
  ASSUME TalkInv
  PROVE  Talk!Settled(Said) <=> turns >= MaxTurns \/ Unanimous
<1> DEFINE f == [a \in Agents |-> last[a].text]
<1>1. PICK k \in Nat : /\ Opens(Said, k)
                       /\ \A a \in Agents : Remembers(Said, k, a, last[a].text)
  BY DEF TalkInv
<1>2. \A a \in Agents : f[a] = last[a].text
  OBVIOUS
<1> HIDE DEF f
<1>3. Talk!Agreed(Said) <=> \A a \in Agents : f[a] = "done"
  BY <1>1, <1>2, AgreedIs DEF TalkInv
<1> QED BY <1>2, <1>3 DEF Talk!Settled, Unanimous, TalkInv

LEMMA NobodyAgrees == ~ \A a \in Agents : Silence.text = "done"
<1>1. \E a : a \in Agents
  BY RosterAssumption DEF Agents
<1> QED BY <1>1 DEF Silence

LEMMA InitTalk == Init => TalkInv /\ Talk!Init
<1> SUFFICES ASSUME Init PROVE TalkInv /\ Talk!Init
  OBVIOUS
<1>1. log = <<>> /\ turns = 0 /\ reason = "none" /\ \A a \in Agents : last[a] = Silence
  BY DEF Init
<1>2. Said = <<>>
  <2>1. [i \in DOMAIN log |-> Uttered(log[i])] = <<>>
    BY <1>1
  <2>2. FlattenSeq(<<>>) = <<>>
    <3>1. <<>> \in Seq(Seq({}))
      BY EmptySeq
    <3> QED BY <3>1, EmptySeq, FlatAppend
  <2> QED BY <2>1, <2>2 DEF Said
<1>3. Said \in Seq(Word) /\ Len(Said) = 0
  BY <1>2, EmptySeq
<1>4. Talk!Turns(Said) = 0
  <2>1. {i \in 1..Len(Said) : Said[i].from \in Agents} = {}
    BY <1>3
  <2> QED BY <2>1, SameCount, FS_EmptySet DEF Talk!Turns
<1>5. Opens(Said, 0) /\ \A a \in Agents : Remembers(Said, 0, a, last[a].text)
  BY <1>1, <1>3 DEF Opens, Remembers, Silence
<1>6. ~Unanimous
  BY <1>1, NobodyAgrees DEF Unanimous
<1>7. Talk!Init
  BY <1>1, <1>2 DEF Talk!Init, Said
<1> QED BY <1>1, <1>3, <1>4, <1>5, <1>6, <1>7 DEF TalkInv

\* An entry that is no utterance says nothing.
LEMMA SaidSame ==
  ASSUME TypeInv, \/ log' = log
                  \/ \E x \in Entries : x.kind # "in" /\ log' = Append(log, x)
  PROVE  Said' = Said
<1>1. CASE log' = log
  BY <1>1 DEF Said
<1>2. ASSUME NEW x \in Entries, x.kind # "in", log' = Append(log, x) PROVE Said' = Said
  <2>1. Said \in Seq(Utterances) /\ Said' = Said \o Uttered(x)
    BY <1>2, SaidGrows
  <2>2. Uttered(x) = <<>>
    BY <1>2 DEF Uttered
  <2> QED BY <2>1, <2>2, ConcatEmptySeq
<1> QED BY <1>1, <1>2

LEMMA TalkKept ==
  ASSUME TalkInv, Said' = Said, turns' = turns, last' = last,
         Listening' => Listening \/ ~Unanimous
  PROVE  TalkInv'
<1>1. Talk!Turns(Said)' = Talk!Turns(Said)
  BY DEF Talk!Turns
<1>2. PICK k \in Nat : /\ Opens(Said, k)
                       /\ \A a \in Agents : Remembers(Said, k, a, last[a].text)
  BY DEF TalkInv
<1>3. /\ Opens(Said, k)' /\ \A a \in Agents : Remembers(Said, k, a, last[a].text)'
  BY <1>2 DEF Opens, Remembers
<1>4. Unanimous' = Unanimous
  BY DEF Unanimous
<1> QED BY <1>1, <1>2, <1>3, <1>4 DEF TalkInv

\* A result is an utterance of the discourse.
LEMMA ReceiveTalks ==
  ASSUME TypeInv, TurnInv, ReaderInv, TalkInv, Receive
  PROVE  TalkInv' /\ (Talk!Speak \/ UNCHANGED <<Said, reason>>)
<1> DEFINE e == Head(events)
           w == [from |-> e.from, text |-> e.text]
<1>1. e \in Fragments
  BY BroadcastTyped, HeadTailProperties DEF Receive
<1>2. e.from \in Agents /\ Utterance(e) \in Utterances /\ Utterance(e) = w
  BY <1>1 DEF Fragments, Utterance, Utterances
<1>3. pc = "select" /\ reason' = reason /\ reason = "none" /\ turns < MaxTurns /\ Listening
  BY DEF Receive, ReaderInv, TurnInv, Listening
<1>4. CASE /\ e.kind = "result"
           /\ log'   = Append(log, Entry("in", e.from, Utterance(e)))
           /\ turns' = turns + 1
           /\ last'  = [last EXCEPT ![e.from] = e]
           /\ todo'  = [to |-> Others(e.from), said |-> Utterance(e)]
           /\ pc'    = "deliver"
  <2>1. e.text \in {"talk", "done"}
    BY <1>1, <1>4 DEF Fragments
  <2>2. w \in Word
    BY <1>2, <2>1 DEF Word
  <2>3. Said' = Append(Said, w)
    <3> DEFINE x == Entry("in", e.from, w)
    <3>1. x \in Entries /\ x.kind = "in" /\ x.said = w
      BY <1>2, EntryTyped DEF LogKinds
    <3>2. Uttered(x) = <<w>>
      <4>1. w.from # "human"
        BY <1>2, NotAgents
      <4>2. Plain(w) = w
        BY <4>1 DEF Plain
      <4> QED BY <3>1, <4>2 DEF Uttered
    <3>3. Said' = Said \o <<w>>
      BY <1>2, <1>4, <3>1, <3>2, SaidGrows
    <3>4. Append(Said, w) = Said \o <<w>>
      BY <2>2, AppendIsConcat DEF TalkInv
    <3> QED BY <3>3, <3>4
  <2>4. Talk!Speak
    <3>1. ~Unanimous /\ ~(turns >= MaxTurns)
      <4>1. turns \in Nat
        BY DEF TypeInv, TypeOK, LoopTypeOK
      <4> QED BY <1>3, <4>1, CapAssumption DEF TalkInv
    <3>2. ~Talk!Settled(Said)
      BY <3>1, SettledIs
    <3> QED BY <1>2, <1>3, <2>1, <2>3, <3>2 DEF Talk!Speak, Said
  <2>5. TalkInv'
    <3> DEFINE s == Said
               f == [a \in Agents |-> last[a].text]
    <3>1. PICK k \in Nat : /\ Opens(Said, k)
                           /\ \A a \in Agents : Remembers(Said, k, a, last[a].text)
      BY DEF TalkInv
    <3>2. \A a \in Agents : Remembers(Said, k, a, f[a])
      BY <3>1
    <3>3. \A a \in Agents : last'[a].text = IF a = e.from THEN e.text ELSE f[a]
      <4>1. last \in [Agents -> Results \cup {Silence}]
        BY DEF TypeInv, TypeOK, LoopTypeOK
      <4> QED BY <1>4, <4>1
    <3> HIDE DEF f
    <3>4. /\ Opens(Append(Said, w), k) /\ Remembers(Append(Said, w), k, e.from, e.text)
          /\ \A b \in Agents : b # e.from => Remembers(Append(Said, w), k, b, f[b])
      <4>1. Said \in Seq(Word)
        BY DEF TalkInv
      <4> HIDE DEF e
      <4> QED BY <1>2, <2>2, <3>1, <3>2, <4>1, SpokenOn
    <3>5. /\ Opens(Said', k)
          /\ \A a \in Agents : Remembers(Said', k, a, last'[a].text)
      BY <2>3, <3>3, <3>4
    <3>6. Talk!Turns(Append(Said, w)) = Talk!Turns(Said) + 1
      <4>1. Said \in Seq(Word) /\ w.from \in Agents
        BY <1>2 DEF TalkInv
      <4> HIDE DEF w
      <4> QED BY <2>2, <4>1, TurnsOn
    <3>7. turns' = Talk!Turns(Said')
      BY <1>4, <2>3, <3>6 DEF TalkInv
    <3>8. Said' \in Seq(Word)
      BY <2>2, <2>3, AppendProperties DEF TalkInv
    <3>9. ~Listening'
      BY <1>2, <1>4 DEF Listening
    <3> QED BY <3>5, <3>7, <3>8, <3>9 DEF TalkInv
  <2> QED BY <2>4, <2>5
<1>5. CASE /\ log' = Append(log, Entry("note", e.from, Utterance(e)))
           /\ UNCHANGED <<turns, last, todo, pc>>
  <2> DEFINE x == Entry("note", e.from, Utterance(e))
  <2>1. x \in Entries /\ x.kind = "note"
    BY <1>2, EntryTyped DEF LogKinds
  <2>2. Said' = Said
    <3> HIDE DEF e, w
    <3> QED BY <1>5, <2>1, SaidSame
  <2> QED BY <1>3, <1>5, <2>2, TalkKept DEF Listening
<1> QED BY <1>4, <1>5 DEF Receive
\* The conversation is not settled where the router breaks off or listens.
LEMMA Unsettled ==
  ASSUME TypeInv, TurnInv, TalkInv, pc = "select"
  PROVE  ~Talk!Settled(Said)
<1>1. Listening /\ turns < MaxTurns /\ turns \in Nat
  BY DEF Listening, TurnInv, TypeInv, TypeOK, LoopTypeOK
<1>2. ~Unanimous /\ ~(turns >= MaxTurns)
  BY <1>1, CapAssumption DEF TalkInv
<1> QED BY <1>2, SettledIs

\* A line of the human opens a round of the discourse.
LEMMA HearTalks ==
  ASSUME TypeInv, TurnInv, ReaderInv, TalkInv, Hear
  PROVE  TalkInv' /\ Talk!Interject
<1> DEFINE u == [from |-> "human", text |-> Head(human)]
           w == [from |-> "human", text |-> "talk"]
           x == Entry("in", "human", u)
<1>1. u \in Utterances /\ w \in Word
  BY BroadcastTyped, HeadTailProperties DEF Hear, Utterances, Word
<1>2. /\ pc = "select" /\ reason' = reason /\ reason = "none" /\ turns' = turns
      /\ log' = Append(log, x) /\ last' = [a \in Agents |-> Silence]
  BY DEF Hear, Quiet, ReaderInv
<1>3. x \in Entries /\ x.kind = "in" /\ x.said = u
  BY <1>1, EntryTyped DEF LogKinds
<1>4. Uttered(x) = <<w>>
  BY <1>3 DEF Uttered, Plain
<1>5. Said' = Append(Said, w)
  <2>1. Said' = Said \o Uttered(x)
    <3> HIDE DEF x
    <3> QED BY <1>2, <1>3, SaidGrows
  <2>2. Append(Said, w) = Said \o <<w>>
    BY <1>1, AppendIsConcat DEF TalkInv
  <2> QED BY <1>4, <2>1, <2>2
<1>6. Talk!Interject
  BY <1>2, <1>5, Unsettled DEF Talk!Interject, Said
<1>7. TalkInv'
  <2>1. Said \in Seq(Word) /\ Len(Append(Said, w)) \in Nat
    BY <1>1, AppendProperties, LenProperties DEF TalkInv
  <2>2. /\ Opens(Append(Said, w), Len(Append(Said, w)))
        /\ \A b \in Agents : Remembers(Append(Said, w), Len(Append(Said, w)), b, "none")
    BY <2>1, InterjectedOn
  <2>3. \A b \in Agents : last'[b].text = "none"
    BY <1>2 DEF Silence
  <2>4. ~Unanimous'
    BY <1>2, NobodyAgrees DEF Unanimous
  <2>5. Talk!Turns(Append(Said, w)) = Talk!Turns(Said) + 0
    <3>1. w.from \notin Agents
      BY NotAgents
    <3> HIDE DEF w
    <3> QED BY <1>1, <2>1, <3>1, TurnsOn
  <2>6. turns' = Talk!Turns(Said')
    <3>1. turns \in Nat
      BY DEF TypeInv, TypeOK, LoopTypeOK
    <3> QED BY <1>2, <1>5, <2>5, <3>1 DEF TalkInv
  <2>7. Said' \in Seq(Word)
    BY <1>1, <1>5, <2>1, AppendProperties
  <2>8. \E k \in Nat : /\ Opens(Said', k)
                       /\ \A a \in Agents : Remembers(Said', k, a, last'[a].text)
    BY <1>5, <2>1, <2>2, <2>3
  <2> QED BY <2>4, <2>6, <2>7, <2>8 DEF TalkInv
<1> QED BY <1>6, <1>7

\* The end of the loop is no utterance.
LEMMA StopTalks ==
  ASSUME TypeInv, TalkInv, NEW r \in Reasons, Stop(r), Rest
  PROVE  TalkInv' /\ Said' = Said /\ reason' = r
<1>1. [from |-> "router", text |-> r] \in Utterances
  BY DEF Utterances
<1>2. PICK x \in Entries : x.kind # "in" /\ log' = Append(log, x)
  <2>1. LET x == Entry("end", "router", [from |-> "router", text |-> r])
        IN  x \in Entries /\ x.kind = "end"
    BY <1>1, EntryTyped DEF LogKinds
  <2> QED BY <2>1 DEF Stop
<1>3. Said' = Said
  BY <1>2, SaidSame
<1>4. turns' = turns /\ last' = last /\ pc' = "join" /\ reason' = r
  BY DEF Stop, Rest
<1> QED BY <1>3, <1>4, TalkKept DEF Listening

LEMMA JudgeTalks ==
  ASSUME TypeInv, TurnInv, ReaderInv, TalkInv, Judge
  PROVE  TalkInv' /\ (Talk!Settle \/ UNCHANGED <<Said, reason>>)
<1>1. pc = "deliver" /\ reason = "none" /\ todo' = NoTodo /\ turns \in Nat
  BY DEF Judge, ReaderInv, TypeInv, TypeOK, LoopTypeOK
<1>2. ASSUME turns >= MaxTurns, Stop("max_turns"), Rest
      PROVE  TalkInv' /\ Talk!Settle
  <2>1. TalkInv' /\ Said' = Said /\ reason' = "max_turns"
    BY <1>2, StopTalks DEF Reasons
  <2>2. Talk!Turns(Said) >= MaxTurns /\ Talk!Settled(Said)
    BY <1>2, SettledIs DEF TalkInv
  <2> QED BY <1>1, <2>1, <2>2 DEF Talk!Settle, Said
<1>3. ASSUME turns < MaxTurns, Unanimous, Stop("convergence"), Rest
      PROVE  TalkInv' /\ Talk!Settle
  <2>1. TalkInv' /\ Said' = Said /\ reason' = "convergence"
    BY <1>3, StopTalks DEF Reasons
  <2>2. ~(Talk!Turns(Said) >= MaxTurns) /\ Talk!Settled(Said)
    BY <1>1, <1>3, SettledIs, CapAssumption DEF TalkInv
  <2> QED BY <1>1, <2>1, <2>2 DEF Talk!Settle, Said
<1>4. ASSUME todo.said.from \notin Agents \/ ~(turns >= MaxTurns \/ Unanimous),
             UNCHANGED <<log, reason>>, Rest
      PROVE  TalkInv' /\ UNCHANGED <<Said, reason>>
  <2>1. Said' = Said
    BY <1>4, SaidSame
  <2>2. Listening \/ ~Unanimous
    BY <1>1, <1>4 DEF Listening
  <2> QED BY <1>4, <2>1, <2>2, TalkKept DEF Rest
<1> QED BY <1>2, <1>3, <1>4 DEF Judge

\* Deliveries say nothing new.
LEMMA DeliverTalks ==
  ASSUME TypeInv, TalkInv, Deliver
  PROVE  TalkInv' /\ UNCHANGED <<Said, reason>>
<1>1. todo.to \in Seq(Agents) /\ todo.to # <<>> /\ todo.said \in Utterances
  BY BroadcastTyped DEF Deliver
<1>2. PICK x \in Entries : x.kind # "in" /\ log' = Append(log, x)
  <2>1. Head(todo.to) \in Agents
    BY <1>1, HeadTailProperties
  <2>2. PICK kind \in {"out", "failed"} :
           log' = Append(log, Entry(kind, Head(todo.to), todo.said))
    BY DEF Deliver
  <2>3. LET x == Entry(kind, Head(todo.to), todo.said)
        IN  x \in Entries /\ x.kind = kind
    BY <1>1, <2>1, EntryTyped DEF LogKinds
  <2> QED BY <2>2, <2>3
<1>3. Said' = Said
  BY <1>2, SaidSame
<1>4. /\ turns' = turns /\ last' = last /\ reason' = reason /\ pc' = pc
      /\ todo'.said = todo.said
  BY DEF Deliver
<1> QED BY <1>3, <1>4, TalkKept DEF Listening

\* Every step of the router and its tasks is a step of the discourse or none.
LEMMA StepTalk ==
  TypeInv /\ TurnInv /\ ReaderInv /\ TalkInv /\ [Next \/ AtRest]_vars =>
    TalkInv' /\ (Talk!Next \/ UNCHANGED <<Said, reason>>)
<1> SUFFICES ASSUME TypeInv, TurnInv, ReaderInv, TalkInv, [Next \/ AtRest]_vars
             PROVE  TalkInv' /\ (Talk!Next \/ UNCHANGED <<Said, reason>>)
  OBVIOUS
<1>1. ASSUME NEW r \in {"timeout", "human_closed", "all_agents_closed"},
             pc = "select", Stop(r), Rest
      PROVE  TalkInv' /\ Talk!BreakOff
  <2>1. TalkInv' /\ Said' = Said /\ reason' = r
    BY <1>1, StopTalks DEF Reasons
  <2>2. reason = "none" /\ ~Talk!Settled(Said)
    BY <1>1, Unsettled DEF ReaderInv
  <2> QED BY <2>1, <2>2 DEF Talk!BreakOff, Said
<1>2. CASE TimeOut \/ AgentsGone \/ HumanGone
  BY <1>1, <1>2 DEF TimeOut, AgentsGone, HumanGone, Quiet, Talk!Next
<1>3. ASSUME log' = log, turns' = turns, last' = last, reason' = reason,
             Listening' => Listening
      PROVE  TalkInv' /\ UNCHANGED <<Said, reason>>
  BY <1>3, SaidSame, TalkKept
<1>4. CASE SpawnFails \/ Return \/ ClearRouter
  BY <1>3, <1>4 DEF SpawnFails, Return, ClearRouter, Listening
<1>5. CASE HumanStep \/ Publish
  BY <1>3, <1>5 DEF HumanStep, Type, Forward, CtrlD, Call, Inject, Publish, routerVars,
     Listening
<1>6. ASSUME NEW a \in Agents, ReaderStep(a) \/ AgentStep(a)
      PROVE  TalkInv' /\ UNCHANGED <<Said, reason>>
  BY <1>3, <1>6 DEF ReaderStep, Carry, Push, StopReading, AgentStep, Listen, Reply,
     Note, Garble, Exit, routerVars, Listening
<1>7. CASE UNCHANGED vars
  BY <1>3, <1>7 DEF vars, routerVars, Listening
<1>8. CASE Begin
  BY <1>3, <1>8 DEF Begin, Listening
<1> QED BY <1>2, <1>4, <1>5, <1>6, <1>7, <1>8, ReceiveTalks, HearTalks, DeliverTalks,
           JudgeTalks DEF Next, RouterStep, AtRest, Talk!Next

\* The router with its readers, channels and agents implements the discourse:
\* what it logs is one sequence of utterances, and it ends for the reason, and
\* at the utterance, that the discourse ends with.
THEOREM RefinesDiscourse == Spec => DiscourseRefined
<1>1. Init => TypeInv /\ TurnInv /\ ReaderInv /\ TalkInv /\ Talk!Init
  BY InitTypes, InitTurns, InitReaders, InitTalk
<1>2. TypeInv /\ TurnInv /\ ReaderInv /\ TalkInv /\ [Next \/ AtRest]_vars =>
        (TypeInv /\ TurnInv /\ ReaderInv /\ TalkInv)'
  BY StepTypes, StepTurns, StepReaders, StepTalk
<1>3. TypeInv /\ TurnInv /\ ReaderInv /\ TalkInv /\ [Next \/ AtRest]_vars =>
        [Talk!Next]_(Talk!vars)
  BY StepTalk DEF Talk!vars, Said
<1> QED BY <1>1, <1>2, <1>3, PTL DEF Spec, DiscourseRefined, Talk!Spec
==============================================================================
