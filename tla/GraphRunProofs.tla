--------------------------- MODULE GraphRunProofs ---------------------------
(***************************************************************************)
(* Theorems about GraphRun, for every flow, every number of processes and  *)
(* every bound.                                                            *)
(***************************************************************************)
EXTENDS GraphRun, SequenceTheorems, FiniteSetTheorems, TLAPS

-----------------------------------------------------------------------------
(* The inductive invariant.                                                 *)

\* A live process runs a version of the flow, and at the control points where
\* it uses its position, the position is a state of that version.
FlowPlaced(p) ==
  /\ pc[p] # "idle" => flow[p] \in Flows /\ life[p] \in 1..MaxLaunch
  /\ pc[p] \in {"agent", "retry", "shell", "prompt", "manifest", "flush"} => Known(p)
  /\ pc[p] = "shell" => Kind(p) = "shell"
  /\ pc[p] = "prompt" => HasNext(flow[p], at[p]) /\ ~skip[p]

\* A record that is being written is one, and an inline answer is written at
\* a state with a way out.
PendPlaced(p) ==
  /\ pc[p] \in {"content", "meta"} => pend[p] \in StepRecords
  /\ pc[p] \in {"content", "meta"} /\ pend[p].kind = "human" /\ ~skip[p] =>
       Known(p) /\ HasNext(flow[p], at[p])

\* A paused manifest names a state.
PausePlaced == manifest.status = "paused" => manifest.at \in StateId

TypeInv ==
  /\ TypeOK
  /\ \A p \in Procs : FlowPlaced(p) /\ PendPlaced(p)
  /\ PausePlaced

-----------------------------------------------------------------------------
(* Flows.                                                                    *)

\* The first entry of a state leads to a declared state.
LEMMA FirstNextDeclared ==
  ASSUME NEW f \in Flows, NEW s \in Declared(f), HasNext(f, s)
  PROVE  FirstNext(f, s) \in Declared(f)
<1>1. f.next[s] \in Seq([to : Declared(f), reason : STRING])
  BY FlowAssumption
<1>2. 1 \in 1..Len(f.next[s])
  BY <1>1, LenProperties DEF HasNext
<1>3. f.next[s][1] \in [to : Declared(f), reason : STRING]
  BY <1>1, <1>2, ElementOfSeq
<1> QED BY <1>3 DEF FirstNext

\* Every entry of a state leads to a declared state.
LEMMA TargetsDeclared ==
  ASSUME NEW f \in Flows, NEW s \in Declared(f)
  PROVE  Targets(f, s) \subseteq Declared(f)
<1>1. f.next[s] \in Seq([to : Declared(f), reason : STRING])
  BY FlowAssumption
<1>2. \A i \in 1..Len(f.next[s]) : f.next[s][i] \in [to : Declared(f), reason : STRING]
  BY <1>1, ElementOfSeq
<1> QED BY <1>2 DEF Targets

\* Both exits of a shell state lead to a declared state.
LEMMA RoutedToDeclared ==
  ASSUME NEW f \in Flows, NEW s \in Declared(f), f.kind[s] = "shell",
         NEW word \in {"pass", "fail"}
  PROVE  RoutedTo(f, s, word) \in Declared(f)
<1> DEFINE n == f.next[s]
           tagged == {i \in 1..Len(n) : n[i].reason = word}
<1>1. n \in Seq([to : Declared(f), reason : STRING])
  BY FlowAssumption
<1>2. Len(n) = 2 /\ Reasons(f, s) = {"pass", "fail"}
  BY FlowAssumption DEF ValidFlow, StateSemantics
<1>3. tagged # {} /\ tagged \subseteq {1, 2}
  BY <1>2 DEF Reasons
<1>4. \E i \in tagged : \A j \in tagged : i <= j
  BY <1>3
<1>5. (CHOOSE i \in tagged : \A j \in tagged : i <= j) \in tagged
  BY <1>4
<1>6. n[CHOOSE i \in tagged : \A j \in tagged : i <= j] \in [to : Declared(f), reason : STRING]
  BY <1>1, <1>5, ElementOfSeq
<1> QED BY <1>6 DEF RoutedTo

\* A declared state is a state id.
LEMMA DeclaredIsId == \A f \in Flows : Declared(f) \subseteq StateId
  BY FlowAssumption

-----------------------------------------------------------------------------
(* Type correctness.                                                         *)

USE DEF TypeInv, TypeOK, DiskTypeOK, ProcTypeOK, LoopTypeOK, StepTypeOK,
        diskVars, launchVars, loopVars, stepVars, OptState

\* The initial state has its types.
LEMMA InitTypes == Init => TypeInv
  BY BoundAssumption, EmptySeq DEF Init, FlowPlaced, PendPlaced, PausePlaced, NoManifest,
     ControlPoints, Unvisited, NoContext

\* A process that ends leaves typed variables.
LEMMA VanishTypes ==
  ASSUME NEW p \in Procs, TypeInv, Vanish(p)
  PROVE  /\ (ProcTypeOK /\ LoopTypeOK /\ StepTypeOK)'
         /\ \A q \in Procs : (FlowPlaced(q) /\ PendPlaced(q))'
<1>1. (ProcTypeOK /\ LoopTypeOK /\ StepTypeOK)'
  BY BoundAssumption, EmptySeq DEF Vanish, ControlPoints, Unvisited, NoContext
<1>2. ASSUME NEW q \in Procs PROVE (FlowPlaced(q) /\ PendPlaced(q))'
  BY DEF Vanish, FlowPlaced, PendPlaced, Known, Kind
<1> QED BY <1>1, <1>2

LEMMA FailTypes ==
  ASSUME NEW p \in Procs, TypeInv, Fail(p)
  PROVE  TypeInv'
  BY VanishTypes DEF Fail, Vanish, PausePlaced

LEMMA StartTypes ==
  ASSUME NEW p \in Procs, TypeInv, Start(p)
  PROVE  TypeInv'
<1>1. 1 \in 1..MaxLaunch
  BY BoundAssumption DEF Start
<1>2. PICK f \in Flows, hh \in Policies :
        /\ flow'   = [flow EXCEPT ![p] = f]
        /\ policy' = [policy EXCEPT ![p] = hh]
        /\ at'     = [at EXCEPT ![p] = f.initial]
  BY DEF Start
<1>3. f.initial \in StateId /\ hh \in {"pause", "inline"}
  BY FlowAssumption, BoundAssumption DEF ValidFlow
<1>4. DiskTypeOK' /\ LoopTypeOK' /\ StepTypeOK' /\ PausePlaced'
  BY <1>1, <1>2, <1>3 DEF Start, PausePlaced
<1>5. ProcTypeOK'
  BY <1>1, <1>2, <1>3 DEF Start, ControlPoints
<1>6. ASSUME NEW q \in Procs PROVE (FlowPlaced(q) /\ PendPlaced(q))'
  BY <1>1, <1>2 DEF Start, FlowPlaced, PendPlaced, Known, Kind
<1> QED BY <1>4, <1>5, <1>6

LEMMA ResumeTypes ==
  ASSUME NEW p \in Procs, TypeInv, Resume(p)
  PROVE  TypeInv'
<1>1. launches + 1 \in 1..MaxLaunch /\ manifest.at \in StateId
  BY BoundAssumption DEF Resume, PausePlaced
<1>2. manifest.steps \in Seq(StepRecords)
  OBVIOUS
<1>3. HumanRecord(Len(manifest.steps) + 1, manifest.at, launches + 1) \in StepRecords
  BY <1>1, <1>2, LenProperties DEF HumanRecord, StepRecords
<1>4. PICK f \in Flows : flow' = [flow EXCEPT ![p] = f]
  BY DEF Resume
<1>5. DiskTypeOK' /\ PausePlaced'
  BY <1>1 DEF Resume, PausePlaced
<1>6. ProcTypeOK'
  <2>1. pc' = [pc EXCEPT ![p] = "content"] \/ pc' = [pc EXCEPT ![p] = "spawned"]
    BY DEF Resume
  <2>2. pc' \in [Procs -> ControlPoints]
    BY <2>1 DEF ControlPoints
  <2>3. life' \in [Procs -> 0..MaxLaunch]
    BY <1>1 DEF Resume
  <2> QED BY <1>4, <2>2, <2>3 DEF Resume
<1>7. LoopTypeOK'
  BY <1>1 DEF Resume
<1>8. StepTypeOK'
  <2>1. pend' \in [Procs -> StepRecords \cup {NoRecord}]
    <3> DEFINE r == HumanRecord(Len(manifest.steps) + 1, manifest.at, launches + 1)
    <3>1. pend' = [pend EXCEPT ![p] = r] \/ pend' = pend
      BY DEF Resume
    <3> HIDE DEF r
    <3> QED BY <1>3, <3>1 DEF r
  <2>2. base' \in [Procs -> Seq(StepRecords)]
    BY <1>2 DEF Resume
  <2> QED BY <2>1, <2>2 DEF Resume
<1>9. ASSUME NEW q \in Procs PROVE (FlowPlaced(q) /\ PendPlaced(q))'
  BY SMTT(40), <1>1, <1>3, <1>4 DEF Resume, FlowPlaced, PendPlaced, Known, Kind
<1> QED BY <1>5, <1>6, <1>7, <1>8, <1>9

LEMMA DriveTypes ==
  ASSUME NEW p \in Procs, TypeInv, Drive(p)
  PROVE  TypeInv'
  BY LenProperties DEF Drive, FlowPlaced, PendPlaced, PausePlaced, ControlPoints, Known, Kind

LEMMA ConcludeTypes ==
  ASSUME NEW p \in Procs, TypeInv, Conclude(p)
  PROVE  TypeInv'
  BY DEF Conclude, AtHead, FlowPlaced, PendPlaced, PausePlaced, ControlPoints, Known, Kind

LEMMA PassThroughTypes ==
  ASSUME NEW p \in Procs, TypeInv, PassThrough(p)
  PROVE  TypeInv'
  BY ZenonT(60), FirstNextDeclared, DeclaredIsId DEF PassThrough, Stuck, AtHead, FlowPlaced, PendPlaced, PausePlaced, ControlPoints, Known, Kind

LEMMA OpenPromptTypes ==
  ASSUME NEW p \in Procs, TypeInv, OpenPrompt(p)
  PROVE  TypeInv'
  BY DEF OpenPrompt, Stuck, AtHead, FlowPlaced, PendPlaced, PausePlaced, ControlPoints, Known, Kind

\* Opening a file keeps the directory a set of files.
LEMMA PutTypes ==
  ASSUME NEW S, NEW files \in SUBSET S, NEW r \in S
  PROVE  Put(files, r) \in SUBSET S
  BY DEF Put

LEMMA VisitTypes ==
  ASSUME NEW p \in Procs, TypeInv, Visit(p)
  PROVE  TypeInv'
<1> DEFINE s == at[p]
           r == [num |-> num[p] + 1, id |-> s, by |-> life[p]]
<1>1. pc[p] = "loop" /\ Known(p) /\ Kind(p) \in {"agent", "shell"}
  BY DEF Visit, AtHead
<1>2. flow[p] \in Flows /\ life[p] \in 1..MaxLaunch /\ s \in StateId
  BY <1>1, DeclaredIsId DEF FlowPlaced, Known
<1>3. content' \in SUBSET ContentFiles
  <2>1. File(r, FALSE) \in ContentFiles
    BY <1>2 DEF File, ContentFiles
  <2>2. content' = Put(content, File(r, FALSE))
    BY DEF Visit
  <2> QED BY <2>1, <2>2 DEF Put
<1>4. ctx' \in [Procs -> [num : Nat, by : 0..MaxLaunch]]
  <2>1. ASSUME NEW c \in content PROVE [num |-> c.num, by |-> c.by] \in [num : Nat, by : 0..MaxLaunch]
    BY BoundAssumption DEF ContentFiles
  <2>2. NoContext \in [num : Nat, by : 0..MaxLaunch]
    BY BoundAssumption DEF NoContext
  <2>3. CASE ctx' = [ctx EXCEPT ![p] = NoContext]
    BY <2>2, <2>3
  <2>4. CASE \E c \in content : ctx' = [ctx EXCEPT ![p] = [num |-> c.num, by |-> c.by]]
    BY <2>1, <2>4
  <2> QED BY <2>3, <2>4 DEF Visit, ContentAt
<1>5. DiskTypeOK' /\ PausePlaced'
  BY <1>3 DEF Visit, PausePlaced
<1>6. ProcTypeOK'
  BY <1>1 DEF Visit, ControlPoints
<1>7. LoopTypeOK'
  BY SMTT(40), <1>2 DEF Visit
<1>8. StepTypeOK'
  BY <1>4 DEF Visit
<1>9. ASSUME NEW q \in Procs PROVE (FlowPlaced(q) /\ PendPlaced(q))'
  BY <1>1 DEF Visit, FlowPlaced, PendPlaced, Known, Kind
<1> QED BY <1>5, <1>6, <1>7, <1>8, <1>9

LEMMA PersistTypes ==
  ASSUME NEW p \in Procs, TypeInv, NEW r, Persist(p, r), r \in StepRecords,
         pc[p] # "idle",
         r.kind = "human" => Known(p) /\ HasNext(flow[p], at[p])
  PROVE  TypeInv'
<1>1. NoContext \in [num : Nat, by : 0..MaxLaunch]
  BY BoundAssumption DEF NoContext
<1>2. TypeOK' /\ PausePlaced'
  BY <1>1 DEF Persist, ControlPoints, PausePlaced
<1>3. ASSUME NEW q \in Procs PROVE (FlowPlaced(q) /\ PendPlaced(q))'
  BY DEF Persist, FlowPlaced, PendPlaced, Known, Kind
<1> QED BY <1>2, <1>3

LEMMA DecideTypes ==
  ASSUME NEW p \in Procs, TypeInv, Decide(p)
  PROVE  TypeInv'
<1>1. PICK t \in Targets(flow[p], at[p]) : Persist(p, Record(p, "graph", prior[p], t))
  BY DEF Decide
<1>2. flow[p] \in Flows /\ life[p] \in 1..MaxLaunch /\ Known(p) /\ pc[p] # "idle"
  BY DEF Decide, FlowPlaced
<1>3. t \in StateId /\ at[p] \in StateId
  BY <1>2, TargetsDeclared, DeclaredIsId DEF Known
<1>4. Record(p, "graph", prior[p], t) \in StepRecords
  BY <1>2, <1>3 DEF Record, StepRecords
<1> QED BY <1>1, <1>2, <1>4, PersistTypes DEF Record

LEMMA ShellExitsTypes ==
  ASSUME NEW p \in Procs, TypeInv, ShellExits(p)
  PROVE  TypeInv'
<1>1. PICK word \in {"pass", "fail"} :
        Persist(p, Record(p, "shell", NoState, RoutedTo(flow[p], at[p], word)))
  BY DEF ShellExits
<1>2. flow[p] \in Flows /\ life[p] \in 1..MaxLaunch /\ Known(p)
        /\ Kind(p) = "shell" /\ pc[p] # "idle"
  BY DEF ShellExits, FlowPlaced
<1>3. RoutedTo(flow[p], at[p], word) \in StateId /\ at[p] \in StateId
  BY <1>2, RoutedToDeclared, DeclaredIsId DEF Known, Kind
<1>4. Record(p, "shell", NoState, RoutedTo(flow[p], at[p], word)) \in StepRecords
  BY <1>2, <1>3 DEF Record, StepRecords
<1> QED BY <1>1, <1>2, <1>4, PersistTypes DEF Record

LEMMA PromptBodyTypes ==
  ASSUME NEW p \in Procs, TypeInv, PromptBody(p)
  PROVE  TypeInv'
<1>1. flow[p] \in Flows /\ life[p] \in 1..MaxLaunch /\ Known(p)
        /\ HasNext(flow[p], at[p]) /\ pc[p] # "idle"
  BY DEF PromptBody, FlowPlaced
<1>2. at[p] \in StateId
  BY <1>1, DeclaredIsId DEF Known
<1>3. HumanRecord(num[p] + 1, at[p], life[p]) \in StepRecords
  BY <1>1, <1>2 DEF HumanRecord, StepRecords
<1> QED BY <1>1, <1>3, PersistTypes DEF PromptBody

LEMMA PromptEmptyTypes ==
  ASSUME NEW p \in Procs, TypeInv, PromptEmpty(p)
  PROVE  TypeInv'
  BY ZenonT(30), FirstNextDeclared, DeclaredIsId DEF PromptEmpty, FlowPlaced, PendPlaced, PausePlaced, ControlPoints, Known, Kind

LEMMA AskAgainTypes ==
  ASSUME NEW p \in Procs, TypeInv, AskAgain(p)
  PROVE  TypeInv'
  BY DEF AskAgain, FlowPlaced, PendPlaced, PausePlaced, ControlPoints, Known, Kind

LEMMA WriteContentTypes ==
  ASSUME NEW p \in Procs, TypeInv, WriteContent(p)
  PROVE  TypeInv'
<1>1. pend[p] \in StepRecords
  BY DEF WriteContent, PendPlaced
<1>2. File(pend[p], TRUE) \in ContentFiles
  BY <1>1 DEF File, ContentFiles, StepRecords
<1>3. content' \in SUBSET ContentFiles
  <2>1. content' = Put(content, File(pend[p], TRUE))
    BY DEF WriteContent
  <2> QED BY <1>2, <2>1 DEF Put
<1>4. TypeOK' /\ PausePlaced'
  BY <1>3 DEF WriteContent, ControlPoints, PausePlaced
<1>5. ASSUME NEW q \in Procs PROVE (FlowPlaced(q) /\ PendPlaced(q))'
  BY DEF WriteContent, FlowPlaced, PendPlaced, Known, Kind
<1> QED BY <1>4, <1>5

LEMMA WriteMetaTypes ==
  ASSUME NEW p \in Procs, TypeInv, WriteMeta(p)
  PROVE  TypeInv'
<1>1. pend[p] \in StepRecords /\ flow[p] \in Flows /\ NoRecord \notin StepRecords
  BY DEF WriteMeta, FlowPlaced, PendPlaced, NoRecord, StepRecords
<1>2. Put(meta, pend[p]) \in SUBSET StepRecords
  BY <1>1, PutTypes
<1>3. DiskTypeOK' /\ PausePlaced'
  BY <1>2 DEF WriteMeta, PausePlaced
<1>4. CASE FollowEdge(p)
  <2>1. pend[p].to \in OptState
    BY <1>1 DEF StepRecords
  <2>2. TypeOK'
    BY <1>1, <1>3, <1>4, <2>1, AppendProperties DEF WriteMeta, FollowEdge, ControlPoints
  <2>3. ASSUME NEW q \in Procs PROVE (FlowPlaced(q) /\ PendPlaced(q))'
    BY <1>4 DEF WriteMeta, FollowEdge, FlowPlaced, PendPlaced, Known, Kind
  <2> QED BY <1>3, <2>2, <2>3
<1>5. CASE JoinPrior(p)
  <2>2. TypeOK'
    BY <1>1, <1>3, <1>5, AppendProperties DEF WriteMeta, JoinPrior, ControlPoints
  <2>3. ASSUME NEW q \in Procs PROVE (FlowPlaced(q) /\ PendPlaced(q))'
    BY <1>5 DEF WriteMeta, JoinPrior, FlowPlaced, PendPlaced, Known, Kind
  <2> QED BY <1>3, <2>2, <2>3
<1>6. CASE pend[p].kind = "human" /\ ~skip[p] /\ LeaveInline(p)
  <2>1. FirstNext(flow[p], at[p]) \in StateId
    BY <1>1, <1>6, FirstNextDeclared, DeclaredIsId DEF WriteMeta, PendPlaced, Known
  <2>2. TypeOK'
    BY SMTT(30), <1>1, <1>3, <1>6, <2>1 DEF WriteMeta, LeaveInline, ControlPoints
  <2>3. ASSUME NEW q \in Procs PROVE (FlowPlaced(q) /\ PendPlaced(q))'
    BY <1>6 DEF WriteMeta, LeaveInline, FlowPlaced, PendPlaced, Known, Kind
  <2> QED BY <1>3, <2>2, <2>3
<1> QED BY <1>4, <1>5, <1>6 DEF WriteMeta

LEMMA TruncateManifestTypes ==
  ASSUME NEW p \in Procs, TypeInv, TruncateManifest(p)
  PROVE  TypeInv'
  BY EmptySeq DEF TruncateManifest, Torn, FlowPlaced, PendPlaced, PausePlaced, ControlPoints, Known, Kind

LEMMA FlushManifestTypes ==
  ASSUME NEW p \in Procs, TypeInv, FlushManifest(p)
  PROVE  TypeInv'
<1>1. flow[p] \in Flows /\ at[p] \in StateId
  BY DeclaredIsId DEF FlushManifest, FlowPlaced, Known
<1>2. base[p] \o done[p] \in Seq(StepRecords)
  BY ConcatProperties
<1>3. DiskTypeOK' /\ PausePlaced'
  BY <1>1, <1>2 DEF FlushManifest, Vanish, PausePlaced
<1> QED BY <1>3, VanishTypes DEF FlushManifest

LEMMA CrashTypes ==
  ASSUME NEW p \in Procs, TypeInv, Crash(p)
  PROVE  TypeInv'
<1>1. pc[p] \in {"content", "meta"} => pend[p] \in StepRecords
  BY DEF PendPlaced
<1>2. content' \in SUBSET ContentFiles
  <2>1. CASE pc[p] = "content" /\ content' = Put(content, File(pend[p], FALSE))
    <3>1. File(pend[p], FALSE) \in ContentFiles
      BY <1>1, <2>1 DEF File, ContentFiles, StepRecords
    <3> QED BY <2>1, <3>1 DEF Put
  <2> QED BY <2>1 DEF Crash
<1>3. meta' \in SUBSET StepRecords
  <2> DEFINE torn == [pend[p] EXCEPT !.kind = "torn"]
  <2>1. CASE pc[p] = "meta" /\ meta' = Put(meta, torn)
    <3>1. torn \in StepRecords
      BY <1>1, <2>1 DEF StepRecords
    <3> QED BY <2>1, <3>1, PutTypes
  <2> QED BY <2>1 DEF Crash
<1>4. DiskTypeOK' /\ PausePlaced'
  BY <1>2, <1>3 DEF Crash, Vanish, PausePlaced
<1> QED BY <1>4, VanishTypes DEF Crash

LEMMA StutterTypes == TypeInv /\ UNCHANGED vars => TypeInv'
  BY DEF vars, FlowPlaced, PendPlaced, PausePlaced, Known, Kind

LEMMA NextTypes == TypeInv /\ [Next \/ AtRest]_vars => TypeInv'
<1> SUFFICES ASSUME TypeInv, [Next \/ AtRest]_vars PROVE TypeInv'
  OBVIOUS
<1>1. CASE UNCHANGED vars \/ AtRest
  BY <1>1, StutterTypes DEF AtRest
<1>2. ASSUME NEW p \in Procs,
             Start(p) \/ Resume(p) \/ Cancel(p) \/ Crash(p) \/ Prompted(p)
      PROVE  TypeInv'
  BY <1>2, StartTypes, ResumeTypes, CrashTypes, FailTypes, PromptBodyTypes, PromptEmptyTypes
  DEF Cancel, Prompted, PromptFails
<1>3. ASSUME NEW p \in Procs, Work(p)
      PROVE  TypeInv'
  BY <1>3, DriveTypes, FailTypes, ConcludeTypes, PassThroughTypes, OpenPromptTypes,
     VisitTypes, DecideTypes, AskAgainTypes, ShellExitsTypes, WriteContentTypes,
     WriteMetaTypes, TruncateManifestTypes, FlushManifestTypes
  DEF Work, GiveUp, AgentFails, ShellFails
<1> QED BY <1>1, <1>2, <1>3 DEF Next

\* Every variable keeps its type, whatever the flow, the processes and the
\* bounds.
THEOREM TypeCorrect == Spec => []TypeOK
<1>1. TypeInv => TypeOK
  OBVIOUS
<1> QED BY <1>1, InitTypes, NextTypes, PTL DEF Spec

\* Every reachable state satisfies the inductive invariant.
THEOREM TypeInvariant == Spec => []TypeInv
  BY InitTypes, NextTypes, PTL DEF Spec

-----------------------------------------------------------------------------
(* Content before meta.                                                      *)

SameStep(x, y) == x.num = y.num /\ x.id = y.id

HasStep(files, r) == \E x \in files : SameStep(x, r)

\* A process about to write a meta file has its content file on disk.
PendBacked(p) == pc[p] = "meta" => HasStep(content, pend[p])

BackedInv == MetaBacked /\ \A p \in Procs : PendBacked(p)

\* Opening a file for a step keeps every step of the directory, and adds one.
LEMMA PutSteps ==
  ASSUME NEW files, NEW r
  PROVE  /\ \A x \in files : HasStep(Put(files, r), x)
         /\ HasStep(Put(files, r), r)
         /\ \A x \in Put(files, r) : x \in files \/ x = r
  BY DEF Put, HasStep, SameStep

\* What every step of the run does to the two kinds of files.
StepsKept == \A x \in content : HasStep(content', x)

MetaFromPend ==
  \A m \in meta' :
    HasStep(meta, m) \/ \E p \in Procs : pc[p] = "meta" /\ SameStep(pend[p], m)

PendFromContent ==
  \A q \in Procs : pc'[q] = "meta" =>
    \/ pc[q] = "meta" /\ pend'[q] = pend[q]
    \/ HasStep(content', pend'[q])

FileDiscipline == StepsKept /\ MetaFromPend /\ PendFromContent

LEMMA DisciplineSuffices == BackedInv /\ FileDiscipline => BackedInv'
<1> SUFFICES ASSUME BackedInv, FileDiscipline PROVE BackedInv'
  OBVIOUS
<1> USE DEF FileDiscipline
<1>1. MetaBacked'
  <2> SUFFICES ASSUME NEW m \in meta' PROVE HasStep(content', m)
    BY DEF MetaBacked, HasStep, SameStep
  <2>1. HasStep(content, m)
    BY DEF BackedInv, MetaBacked, PendBacked, MetaFromPend, HasStep, SameStep
  <2> QED BY <2>1 DEF StepsKept, HasStep, SameStep
<1>2. ASSUME NEW q \in Procs PROVE PendBacked(q)'
  BY DEF BackedInv, PendBacked, StepsKept, PendFromContent, HasStep, SameStep
<1> QED BY <1>1, <1>2 DEF BackedInv

\* A step that touches no step file and starts no meta file.
Quiet ==
  /\ UNCHANGED <<content, meta>>
  /\ \A q \in Procs : pc'[q] = "meta" => pc[q] = "meta" /\ pend'[q] = pend[q]

LEMMA QuietDiscipline == Quiet => FileDiscipline
  BY DEF Quiet, FileDiscipline, StepsKept, MetaFromPend, PendFromContent, HasStep, SameStep

LEMMA VanishQuiet ==
  ASSUME NEW p \in Procs, TypeInv, Vanish(p)
  PROVE  \A q \in Procs : pc'[q] = "meta" => pc[q] = "meta" /\ pend'[q] = pend[q]
  BY DEF Vanish

LEMMA PersistQuiet ==
  ASSUME NEW p \in Procs, TypeInv, NEW r, Persist(p, r)
  PROVE  Quiet
  BY DEF Persist, Quiet

LEMMA QuietActions ==
  ASSUME NEW p \in Procs, TypeInv,
         \/ Start(p) \/ Resume(p) \/ Fail(p) \/ Drive(p) \/ Conclude(p) \/ PassThrough(p)
         \/ OpenPrompt(p) \/ Decide(p) \/ AskAgain(p) \/ ShellExits(p) \/ PromptBody(p)
         \/ PromptEmpty(p) \/ TruncateManifest(p) \/ FlushManifest(p)
  PROVE  Quiet
<1>1. CASE Start(p) \/ Resume(p)
  BY SMTT(30), <1>1 DEF Start, Resume, Quiet
<1>2. CASE Fail(p) \/ FlushManifest(p)
  BY <1>2, VanishQuiet DEF Fail, FlushManifest, Quiet
<1>3. CASE Drive(p) \/ Conclude(p) \/ PassThrough(p) \/ OpenPrompt(p) \/ AskAgain(p)
  BY <1>3 DEF Drive, Conclude, PassThrough, OpenPrompt, AskAgain, Quiet
<1>4. CASE Decide(p) \/ ShellExits(p) \/ PromptBody(p)
  BY <1>4, PersistQuiet DEF Decide, ShellExits, PromptBody
<1>5. CASE PromptEmpty(p) \/ TruncateManifest(p)
  BY <1>5 DEF PromptEmpty, TruncateManifest, Quiet
<1> QED BY <1>1, <1>2, <1>3, <1>4, <1>5

LEMMA VisitDiscipline ==
  ASSUME NEW p \in Procs, TypeInv, Visit(p)
  PROVE  FileDiscipline
<1>1. StepsKept
  <2>1. PICK r : content' = Put(content, File(r, FALSE))
    BY DEF Visit
  <2> QED BY <2>1, PutSteps DEF StepsKept
<1>2. MetaFromPend
  BY DEF Visit, MetaFromPend, HasStep, SameStep
<1>3. PendFromContent
  BY DEF Visit, AtHead, PendFromContent
<1> QED BY <1>1, <1>2, <1>3 DEF FileDiscipline

LEMMA WriteContentDiscipline ==
  ASSUME NEW p \in Procs, TypeInv, WriteContent(p)
  PROVE  FileDiscipline
<1>1. StepsKept
  BY PutSteps DEF WriteContent, StepsKept
<1>2. MetaFromPend
  BY DEF WriteContent, MetaFromPend, HasStep, SameStep
<1>3. HasStep(content', pend[p])
  BY PutSteps DEF WriteContent, File, HasStep, SameStep
<1>4. PendFromContent
  BY <1>3 DEF WriteContent, PendFromContent
<1> QED BY <1>1, <1>2, <1>4 DEF FileDiscipline

LEMMA WriteMetaDiscipline ==
  ASSUME NEW p \in Procs, TypeInv, WriteMeta(p)
  PROVE  FileDiscipline
<1>1. StepsKept
  BY DEF WriteMeta, StepsKept, HasStep, SameStep
<1>2. MetaFromPend
  BY PutSteps DEF WriteMeta, MetaFromPend, HasStep, SameStep
<1>3. pc' = [pc EXCEPT ![p] = "loop"] \/ pc' = [pc EXCEPT ![p] = "spawned"]
  BY DEF WriteMeta, FollowEdge, JoinPrior, LeaveInline
<1>4. PendFromContent
  BY SMTT(30), <1>3 DEF WriteMeta, PendFromContent
<1> QED BY <1>1, <1>2, <1>4 DEF FileDiscipline

LEMMA CrashDiscipline ==
  ASSUME NEW p \in Procs, TypeInv, Crash(p)
  PROVE  FileDiscipline
<1>1. StepsKept
  <2>1. CASE content' = content
    BY <2>1 DEF StepsKept, HasStep, SameStep
  <2>2. CASE content' = Put(content, File(pend[p], FALSE))
    BY <2>2, PutSteps DEF StepsKept
  <2> QED BY <2>1, <2>2 DEF Crash
<1>2. MetaFromPend
  <2>1. CASE meta' = meta
    BY <2>1 DEF MetaFromPend, HasStep, SameStep
  <2>2. CASE pc[p] = "meta" /\ meta' = Put(meta, [pend[p] EXCEPT !.kind = "torn"])
    <3>1. SameStep(pend[p], [pend[p] EXCEPT !.kind = "torn"])
      BY <2>2 DEF SameStep, PendPlaced, StepRecords
    <3> QED BY <2>2, <3>1, PutSteps DEF MetaFromPend, HasStep, SameStep
  <2> QED BY <2>1, <2>2 DEF Crash
<1>3. PendFromContent
  BY VanishQuiet DEF Crash, PendFromContent
<1> QED BY <1>1, <1>2, <1>3 DEF FileDiscipline

LEMMA NextDiscipline == TypeInv /\ [Next \/ AtRest]_vars => FileDiscipline
<1> SUFFICES ASSUME TypeInv, [Next \/ AtRest]_vars PROVE FileDiscipline
  OBVIOUS
<1>1. CASE UNCHANGED vars \/ AtRest
  BY <1>1, QuietDiscipline DEF AtRest, vars, Quiet
<1>2. ASSUME NEW p \in Procs,
             Start(p) \/ Resume(p) \/ Cancel(p) \/ Crash(p) \/ Prompted(p)
      PROVE  FileDiscipline
  BY <1>2, QuietActions, QuietDiscipline, CrashDiscipline DEF Cancel, Prompted, PromptFails
<1>3. ASSUME NEW p \in Procs, Work(p)
      PROVE  FileDiscipline
  BY <1>3, QuietActions, QuietDiscipline, VisitDiscipline, WriteContentDiscipline,
     WriteMetaDiscipline
  DEF Work, GiveUp, AgentFails, ShellFails
<1> QED BY <1>1, <1>2, <1>3 DEF Next

\* No meta file is ever without its content file: not after an interrupted
\* write, and not when several processes write to one run directory.
THEOREM ContentBeforeMeta == Spec => []MetaBacked
<1>1. Init => BackedInv
  BY DEF Init, BackedInv, MetaBacked, PendBacked
<1>2. TypeInv /\ BackedInv /\ [Next \/ AtRest]_vars => BackedInv'
  BY NextDiscipline, DisciplineSuffices
<1>3. BackedInv => MetaBacked
  BY DEF BackedInv
<1> QED BY <1>1, <1>2, <1>3, TypeInvariant, PTL DEF Spec

-----------------------------------------------------------------------------
(* The thread of context from one state to the next.                         *)

StepOnDisk(id, n) == \E m \in meta : m.id = id /\ m.num = n

\* What a driver came from is on disk, under its counter, or it is the answer
\* of the resume that an edit of the flow has kept back.
PriorOnDisk(p) ==
  pc[p] = "loop" /\ prior[p] # NoState =>
    \/ StepOnDisk(prior[p], num[p])
    \/ StepOnDisk(prior[p], Len(base[p])) /\ Regated(p, prior[p])

\* The skip permission is held until the first human state is left, and the
\* synthetic step waits for that moment.
SkipPlaced(p) ==
  /\ skip[p] => pc[p] \notin {"idle", "prompt"}
  /\ hin[p] # NoState => skip[p]
  /\ pc[p] \in {"idle", "spawned"} => prior[p] = NoState
  /\ pc[p] \in {"content", "meta"} /\ pend[p].kind = "human" /\ skip[p] => prior[p] = NoState

\* The synthetic step is on disk where the driver's counter will start. The
\* driver is at its state, or has entered it as a state of another kind.
HumanOnDisk(p) ==
  hin[p] # NoState =>
    /\ StepOnDisk(hin[p], Len(base[p]))
    /\ \/ pc[p] = "spawned" /\ at[p] = hin[p]
       \/ pc[p] = "loop" /\ at[p] = hin[p] /\ num[p] = Len(base[p])
       \/ Regated(p, hin[p])

\* The record being written is that of the driver's position, under the number
\* its counter will have.
PendNumbered(p) ==
  pc[p] \in {"content", "meta"} =>
    /\ pend[p].id = at[p]
    /\ pend[p].kind # "human" => pend[p].num = num[p]
    /\ pend[p].kind = "human" =>
         pend[p].num = IF skip[p] THEN Len(base[p]) + 1 ELSE num[p] + 1

\* Only human and final states end in a manifest, and a driver that may still
\* skip does not stop at a human one.
EndPlaced(p) ==
  pc[p] \in {"manifest", "flush"} => Kind(p) = "final" \/ (Kind(p) = "human" /\ ~skip[p])

ThreadAt(p) ==
  PriorOnDisk(p) /\ SkipPlaced(p) /\ HumanOnDisk(p) /\ PendNumbered(p) /\ EndPlaced(p)

ThreadInv == \A p \in Procs : ThreadAt(p)

\* Every step recorded on disk stays recorded.
MetaKept == \A m \in meta : HasStep(meta', m)

\* A step of one process leaves the others where they are.
Framed(q) ==
  /\ pc'[q] = pc[q] /\ flow'[q] = flow[q] /\ at'[q] = at[q] /\ num'[q] = num[q]
  /\ skip'[q] = skip[q] /\ hin'[q] = hin[q] /\ prior'[q] = prior[q]
  /\ base'[q] = base[q] /\ pend'[q] = pend[q]

Step(p) ==
  Start(p) \/ Resume(p) \/ Cancel(p) \/ Crash(p) \/ Work(p) \/ Prompted(p)

LEMMA StepKeepsMeta ==
  ASSUME NEW p \in Procs, TypeInv, Step(p)
  PROVE  MetaKept
<1>1. CASE WriteMeta(p)
  BY <1>1, PutSteps DEF WriteMeta, MetaKept
<1>2. CASE Crash(p)
  <2>1. CASE meta' = meta
    BY <2>1 DEF MetaKept, HasStep, SameStep
  <2>2. CASE meta' = Put(meta, [pend[p] EXCEPT !.kind = "torn"])
    BY <2>2, PutSteps DEF MetaKept
  <2> QED BY <1>2, <2>1, <2>2 DEF Crash
<1>3. CASE WriteContent(p) \/ Visit(p)
  BY <1>3 DEF WriteContent, Visit, MetaKept, HasStep, SameStep
<1>4. CASE Quiet
  BY <1>4 DEF Quiet, MetaKept, HasStep, SameStep
<1> QED
  BY <1>1, <1>2, <1>3, <1>4, QuietActions
  DEF Step, Work, Prompted, Cancel, GiveUp, AgentFails, ShellFails, PromptFails

LEMMA VanishFrames ==
  ASSUME NEW p \in Procs, TypeInv, Vanish(p), NEW q \in Procs \ {p}
  PROVE  Framed(q)
  BY DEF Vanish, Framed

LEMMA PersistFrames ==
  ASSUME NEW p \in Procs, TypeInv, NEW r, Persist(p, r), NEW q \in Procs \ {p}
  PROVE  Framed(q)
  BY DEF Persist, Framed

LEMMA StepFrames ==
  ASSUME NEW p \in Procs, TypeInv, Step(p), NEW q \in Procs \ {p}
  PROVE  Framed(q)
<1>1. CASE Start(p)
  BY <1>1 DEF Start, Framed
<1>2. CASE Resume(p)
  BY SMTT(30), <1>2 DEF Resume, Framed
<1>3. CASE Vanish(p)
  BY <1>3, VanishFrames
<1>4. CASE Drive(p) \/ Conclude(p) \/ OpenPrompt(p) \/ AskAgain(p)
  BY <1>4 DEF Drive, Conclude, OpenPrompt, AskAgain, Framed
<1>5. CASE PassThrough(p) \/ PromptEmpty(p)
  BY SMTT(30), <1>5 DEF PassThrough, PromptEmpty, Framed
<1>6. CASE Visit(p)
  BY <1>6 DEF Visit, Framed
<1>7. CASE Decide(p) \/ ShellExits(p) \/ PromptBody(p)
  BY <1>7, PersistFrames DEF Decide, ShellExits, PromptBody
<1>8. CASE WriteContent(p) \/ TruncateManifest(p)
  BY <1>8 DEF WriteContent, TruncateManifest, Framed
<1>9. CASE WriteMeta(p)
  BY SMTT(30), <1>9 DEF WriteMeta, FollowEdge, JoinPrior, LeaveInline, Framed
<1> QED
  BY <1>1, <1>2, <1>3, <1>4, <1>5, <1>6, <1>7, <1>8, <1>9
  DEF Step, Work, Prompted, Cancel, Crash, Fail, GiveUp, AgentFails, ShellFails,
      PromptFails, FlushManifest

LEMMA StepStays ==
  ASSUME NEW id, NEW n, StepOnDisk(id, n), MetaKept
  PROVE  \E m \in meta' : m.id = id /\ m.num = n
  BY DEF StepOnDisk, MetaKept, HasStep, SameStep

LEMMA ThreadFramed ==
  ASSUME NEW q \in Procs, ThreadAt(q), Framed(q), MetaKept
  PROVE  ThreadAt(q)'
<1>1. ASSUME NEW id, NEW n, StepOnDisk(id, n) PROVE StepOnDisk(id, n)'
  BY <1>1, StepStays DEF StepOnDisk
<1>2. PriorOnDisk(q)' /\ HumanOnDisk(q)'
  BY <1>1 DEF ThreadAt, PriorOnDisk, HumanOnDisk, Framed, Regated
<1>3. SkipPlaced(q)' /\ PendNumbered(q)' /\ EndPlaced(q)'
  BY DEF ThreadAt, SkipPlaced, PendNumbered, EndPlaced, Framed, Known, Kind
<1> QED BY <1>2, <1>3 DEF ThreadAt

USE DEF ThreadAt, PriorOnDisk, SkipPlaced, HumanOnDisk, PendNumbered, EndPlaced

LEMMA VanishThread ==
  ASSUME NEW p \in Procs, TypeInv, Vanish(p)
  PROVE  ThreadAt(p)'
  BY DEF Vanish

LEMMA StartThread ==
  ASSUME NEW p \in Procs, TypeInv, ThreadAt(p), Start(p)
  PROVE  ThreadAt(p)'
  BY DEF Start

LEMMA ResumeThread ==
  ASSUME NEW p \in Procs, TypeInv, ThreadAt(p), Resume(p)
  PROVE  ThreadAt(p)'
<1>1. pc[p] = "idle" /\ prior[p] = NoState /\ hin[p] = NoState
  BY DEF Resume
<1>2. /\ pc'[p] \in {"content", "spawned"} /\ skip'[p] = TRUE
      /\ at'[p] = manifest.at /\ base'[p] = manifest.steps
      /\ prior'[p] = NoState /\ hin'[p] = NoState
      /\ pc'[p] = "content" => pend'[p] =
           HumanRecord(Len(manifest.steps) + 1, manifest.at, launches + 1)
  BY <1>1 DEF Resume
<1>3. PendNumbered(p)'
  BY <1>2 DEF HumanRecord
<1> QED BY <1>2, <1>3

\* A step that leaves the files, the position and the waiting answer alone.
LEMMA AnswerWaits ==
  ASSUME NEW p \in Procs, HumanOnDisk(p), meta' = meta, hin'[p] = hin[p], base'[p] = base[p],
         flow'[p] = flow[p], at'[p] = at[p], num'[p] = num[p],
         hin[p] # NoState /\ ~Regated(p, hin[p]) => pc'[p] = pc[p]
  PROVE  HumanOnDisk(p)'
  BY DEF HumanOnDisk, Regated, StepOnDisk

LEMMA DriveThread ==
  ASSUME NEW p \in Procs, TypeInv, ThreadAt(p), Drive(p)
  PROVE  ThreadAt(p)'
<1>1. /\ pc[p] = "spawned" /\ pc'[p] = "loop" /\ num'[p] = Len(base[p]) /\ meta' = meta
      /\ at' = at /\ skip' = skip /\ hin' = hin /\ prior' = prior /\ base' = base
      /\ flow' = flow
  BY DEF Drive
<1>2. HumanOnDisk(p)'
  BY <1>1 DEF StepOnDisk, Regated
<1> QED BY <1>1, <1>2

LEMMA ConcludeThread ==
  ASSUME NEW p \in Procs, TypeInv, ThreadAt(p), Conclude(p)
  PROVE  ThreadAt(p)'
<1>1. /\ pc[p] = "loop" /\ pc'[p] = "manifest" /\ meta' = meta /\ UNCHANGED loopVars
      /\ base' = base /\ flow' = flow /\ Known(p)
      /\ Kind(p) = "final" \/ (Kind(p) = "human" /\ ~skip[p])
  BY DEF Conclude, AtHead
<1>2. hin[p] # NoState => Regated(p, hin[p])
  BY <1>1 DEF Regated, Known, Kind
<1>3. HumanOnDisk(p)'
  BY <1>1, <1>2, AnswerWaits
<1>4. EndPlaced(p)'
  BY <1>1 DEF Kind
<1> QED BY <1>1, <1>3, <1>4

LEMMA PassThroughThread ==
  ASSUME NEW p \in Procs, TypeInv, ThreadAt(p), PassThrough(p)
  PROVE  ThreadAt(p)'
<1>1. /\ pc[p] = "loop" /\ pc'[p] = "loop" /\ meta' = meta /\ num' = num /\ base' = base
      /\ flow' = flow /\ prior'[p] = hin[p] /\ hin'[p] = NoState /\ ~skip'[p]
  BY DEF PassThrough, AtHead
<1>2. PriorOnDisk(p)'
  BY <1>1 DEF StepOnDisk, Regated
<1> QED BY <1>1, <1>2

LEMMA OpenPromptThread ==
  ASSUME NEW p \in Procs, TypeInv, ThreadAt(p), OpenPrompt(p)
  PROVE  ThreadAt(p)'
  BY DEF OpenPrompt, AtHead

LEMMA VisitThread ==
  ASSUME NEW p \in Procs, TypeInv, ThreadAt(p), Visit(p)
  PROVE  ThreadAt(p)'
<1>1. /\ pc[p] = "loop" /\ pc'[p] \in {"agent", "shell"} /\ meta' = meta /\ at' = at
      /\ skip' = skip /\ hin' = hin /\ base' = base /\ flow' = flow
      /\ Known(p) /\ Kind(p) \in {"agent", "shell"}
  BY DEF Visit, AtHead
<1>2. hin[p] # NoState => Regated(p, hin[p])
  BY <1>1 DEF Regated, Known, Kind
<1>3. HumanOnDisk(p)'
  BY <1>1, <1>2 DEF StepOnDisk, Regated
<1> QED BY <1>1, <1>3

\* Work on the step of a driver that is past its answered state.
LEMMA PersistThread ==
  ASSUME NEW p \in Procs, TypeInv, ThreadAt(p), NEW r, Persist(p, r),
         pc[p] \in {"agent", "retry", "shell", "prompt"}, r.id = at[p],
         r.num = IF r.kind = "human" THEN num[p] + 1 ELSE num[p],
         r.kind = "human" => pc[p] = "prompt"
  PROVE  ThreadAt(p)'
<1>1. /\ pc'[p] = "content" /\ pend'[p] = r /\ meta' = meta /\ UNCHANGED loopVars
      /\ base' = base /\ flow' = flow
  BY DEF Persist
<1>2. HumanOnDisk(p)'
  BY <1>1, AnswerWaits
<1>3. PendNumbered(p)'
  BY <1>1
<1> QED BY <1>1, <1>2, <1>3

LEMMA DecideThread ==
  ASSUME NEW p \in Procs, TypeInv, ThreadAt(p),
         Decide(p) \/ ShellExits(p) \/ PromptBody(p)
  PROVE  ThreadAt(p)'
  BY PersistThread DEF Decide, ShellExits, PromptBody, Record, HumanRecord

LEMMA AskAgainThread ==
  ASSUME NEW p \in Procs, TypeInv, ThreadAt(p), AskAgain(p)
  PROVE  ThreadAt(p)'
<1>1. /\ pc[p] = "agent" /\ pc'[p] = "retry" /\ meta' = meta /\ UNCHANGED loopVars
      /\ base' = base /\ flow' = flow
  BY DEF AskAgain
<1>2. HumanOnDisk(p)'
  BY <1>1, AnswerWaits
<1> QED BY <1>1, <1>2

LEMMA PromptEmptyThread ==
  ASSUME NEW p \in Procs, TypeInv, ThreadAt(p), PromptEmpty(p)
  PROVE  ThreadAt(p)'
  BY DEF PromptEmpty

LEMMA WriteContentThread ==
  ASSUME NEW p \in Procs, TypeInv, ThreadAt(p), WriteContent(p)
  PROVE  ThreadAt(p)'
<1>1. /\ pc[p] = "content" /\ pc'[p] = "meta" /\ meta' = meta /\ UNCHANGED loopVars
      /\ base' = base /\ flow' = flow /\ pend' = pend
  BY DEF WriteContent
<1>2. HumanOnDisk(p)'
  BY <1>1, AnswerWaits
<1>3. PendNumbered(p)'
  BY <1>1
<1> QED BY <1>1, <1>2, <1>3

LEMMA WriteMetaThread ==
  ASSUME NEW p \in Procs, TypeInv, ThreadAt(p), WriteMeta(p)
  PROVE  ThreadAt(p)'
<1>1. \E m \in meta' : m.id = at[p] /\ m.num = pend[p].num
  <2>1. HasStep(meta', pend[p])
    BY PutSteps DEF WriteMeta
  <2> QED BY <2>1 DEF WriteMeta, HasStep, SameStep
<1>2. CASE pend[p].kind # "human" /\ FollowEdge(p)
  <2>1. pc[p] = "meta" /\ pend[p].num = num[p]
    BY <1>2 DEF WriteMeta
  <2>2. /\ pc'[p] = "loop" /\ prior'[p] = at[p] /\ num'[p] = num[p] /\ skip'[p] = skip[p]
        /\ hin'[p] = hin[p] /\ base'[p] = base[p] /\ flow'[p] = flow[p]
    BY <1>2 DEF WriteMeta, FollowEdge
  <2>3. PriorOnDisk(p)'
    BY <1>1, <2>1, <2>2 DEF StepOnDisk
  <2>4. hin[p] # NoState => StepOnDisk(hin[p], Len(base[p]))' /\ Regated(p, hin[p])
    <3>1. ASSUME hin[p] # NoState PROVE StepOnDisk(hin[p], Len(base[p])) /\ Regated(p, hin[p])
      BY <2>1, <3>1
    <3>2. MetaKept
      BY StepKeepsMeta DEF Step, Work
    <3>3. hin[p] # NoState => \E m \in meta' : m.id = hin[p] /\ m.num = Len(base[p])
      <4> HIDE DEF StepOnDisk, MetaKept
      <4> QED BY <3>1, <3>2, StepStays
    <3> QED BY <2>2, <3>1, <3>3 DEF StepOnDisk
  <2>5. HumanOnDisk(p)'
    BY <2>2, <2>4 DEF StepOnDisk, Regated
  <2> QED BY <2>1, <2>2, <2>3, <2>5
<1>3. CASE pend[p].kind = "human" /\ skip[p] /\ JoinPrior(p)
  <2>1. pend[p] \in StepRecords
    BY DEF WriteMeta, PendPlaced
  <2>2. Len(base'[p]) = Len(base[p]) + 1
    BY <1>3, <2>1, AppendProperties DEF JoinPrior
  <2>3. /\ pc'[p] = "spawned" /\ hin'[p] = at[p] /\ skip'[p] /\ at'[p] = at[p]
    BY <1>3 DEF WriteMeta, JoinPrior
  <2>4. pend[p].id = at[p] /\ pend[p].num = Len(base[p]) + 1
    BY <1>3 DEF WriteMeta
  <2>5. HumanOnDisk(p)'
    BY <1>1, <2>2, <2>3, <2>4 DEF StepOnDisk
  <2>6. prior'[p] = NoState
    BY <1>3 DEF WriteMeta, JoinPrior
  <2> QED BY <2>3, <2>5, <2>6
<1>4. CASE pend[p].kind = "human" /\ ~skip[p] /\ LeaveInline(p)
  <2>1. pend[p].num = num[p] + 1 /\ hin[p] = NoState
    BY <1>4 DEF WriteMeta
  <2>2. /\ pc'[p] = "loop" /\ prior'[p] = at[p] /\ num'[p] = num[p] + 1
        /\ ~skip'[p] /\ hin'[p] = NoState
    BY <1>4, <2>1 DEF WriteMeta, LeaveInline
  <2> QED BY <1>1, <2>1, <2>2 DEF StepOnDisk
<1> QED BY <1>2, <1>3, <1>4 DEF WriteMeta

LEMMA TruncateManifestThread ==
  ASSUME NEW p \in Procs, TypeInv, ThreadAt(p), TruncateManifest(p)
  PROVE  ThreadAt(p)'
<1>1. /\ pc[p] = "manifest" /\ pc'[p] = "flush" /\ meta' = meta /\ UNCHANGED loopVars
      /\ base' = base /\ flow' = flow
  BY DEF TruncateManifest
<1>2. HumanOnDisk(p)'
  BY <1>1, AnswerWaits
<1>3. EndPlaced(p)'
  BY <1>1 DEF Kind
<1> QED BY <1>1, <1>2, <1>3

LEMMA StepThread ==
  ASSUME NEW p \in Procs, TypeInv, ThreadAt(p), Step(p)
  PROVE  ThreadAt(p)'
<1> HIDE DEF ThreadAt, TypeInv
<1> QED
  BY VanishThread, StartThread, ResumeThread, DriveThread, ConcludeThread, PassThroughThread,
     OpenPromptThread, VisitThread, DecideThread, AskAgainThread, PromptEmptyThread,
     WriteContentThread, WriteMetaThread, TruncateManifestThread
  DEF Step, Work, Prompted, Cancel, Crash, Fail, GiveUp, AgentFails, ShellFails,
      PromptFails, FlushManifest

LEMMA NextThread ==
  TypeInv /\ ThreadInv /\ [Next \/ AtRest]_vars => ThreadInv'
<1> SUFFICES ASSUME TypeInv, ThreadInv, [Next \/ AtRest]_vars PROVE ThreadInv'
  OBVIOUS
<1>1. CASE UNCHANGED vars \/ AtRest
  <2>1. UNCHANGED vars
    BY <1>1 DEF AtRest
  <2>2. ASSUME NEW q \in Procs PROVE ThreadAt(q)'
    BY <2>1 DEF vars, ThreadInv, StepOnDisk, Known, Kind, Regated
  <2> QED BY <2>2 DEF ThreadInv
<1>2. ASSUME NEW p \in Procs, Step(p) PROVE ThreadInv'
  <2>1. ASSUME NEW q \in Procs PROVE ThreadAt(q)'
    <3>1. CASE q = p
      BY <1>2, <3>1, StepThread DEF ThreadInv
    <3>2. CASE q # p
      BY <1>2, <3>2, StepKeepsMeta, StepFrames, ThreadFramed DEF ThreadInv
    <3> QED BY <3>1, <3>2
  <2> QED BY <2>1 DEF ThreadInv
<1> QED BY <1>1, <1>2 DEF Next, Step

\* The artifact the next agent is due is on disk under the driver's counter,
\* through retries, inline answers, any number of resumes and any edits of the
\* flow; an edit that gives the paused state another kind keeps the answer of
\* the resume back, but does not lose it.
THEOREM ContextOnDisk == Spec => []PriorRecorded
<1>1. Init => ThreadInv
  BY DEF Init, ThreadInv
<1>2. TypeInv /\ ThreadInv /\ [Next \/ AtRest]_vars => ThreadInv'
  BY NextThread
<1>3. ThreadInv => PriorRecorded
  BY DEF ThreadInv, PriorRecorded, StepOnDisk
<1> QED BY <1>1, <1>2, <1>3, TypeInvariant, PTL DEF Spec

-----------------------------------------------------------------------------
(* One process at a time.                                                    *)

OneProcess == \A p, q \in Procs : p = q

\* A run that is done has no process left to change it.
DoneInv ==
  /\ launches = 0 => manifest = NoManifest
  /\ \A p \in Procs : pc[p] # "idle" => launches # 0
  /\ \A p \in Procs : pc[p] = "flush" => manifest = Torn
  /\ manifest.status = "done" => \A p \in Procs : pc[p] = "idle"

LEMMA StepDone ==
  ASSUME OneProcess, NEW p \in Procs, TypeInv, DoneInv, Step(p)
  PROVE  DoneInv' /\ (manifest.status = "done" => manifest' = manifest)
<1>1. \A q \in Procs : q = p
  BY DEF OneProcess
<1>2. CASE Start(p)
  BY <1>1, <1>2 DEF Start, DoneInv, NoManifest
<1>3. CASE Resume(p)
  BY <1>1, <1>3 DEF Resume, DoneInv, NoManifest
<1>4. CASE TruncateManifest(p)
  BY <1>1, <1>4 DEF TruncateManifest, DoneInv, Torn
<1>5. CASE FlushManifest(p)
  BY <1>1, <1>5 DEF FlushManifest, Vanish, DoneInv, Torn, NoManifest
<1>6. CASE Vanish(p) /\ UNCHANGED manifest
  BY <1>1, <1>6 DEF Vanish, DoneInv
<1>7. CASE /\ pc[p] # "idle" /\ pc[p] # "flush" /\ pc'[p] # "flush"
           /\ UNCHANGED <<manifest, launches>>
  BY <1>1, <1>7 DEF DoneInv
<1>8. CASE Drive(p) \/ Conclude(p) \/ OpenPrompt(p) \/ AskAgain(p) \/ PassThrough(p)
  BY <1>7, <1>8 DEF Drive, Conclude, OpenPrompt, AskAgain, PassThrough, AtHead
<1>11. CASE Visit(p)
  <2>1. pc[p] = "loop" /\ pc'[p] \in {"agent", "shell"} /\ UNCHANGED <<manifest, launches>>
    BY <1>11 DEF Visit, AtHead
  <2> QED BY <1>7, <2>1
<1>9. CASE Decide(p) \/ ShellExits(p) \/ PromptBody(p) \/ PromptEmpty(p)
  BY <1>7, <1>9 DEF Decide, ShellExits, PromptBody, PromptEmpty, Persist
<1>10. CASE WriteContent(p) \/ WriteMeta(p)
  BY <1>7, <1>10 DEF WriteContent, WriteMeta, FollowEdge, JoinPrior, LeaveInline
<1> QED
  BY <1>2, <1>3, <1>4, <1>5, <1>6, <1>8, <1>9, <1>10, <1>11
  DEF Step, Work, Prompted, Cancel, Crash, Fail, GiveUp, AgentFails, ShellFails, PromptFails

\* When at most one process works on the directory, a completed run is final:
\* its manifest is never rewritten, not even in passing.
THEOREM DoneIsFinal ==
  ASSUME OneProcess
  PROVE  Spec => CompletedIsFinal
<1>1. Init => DoneInv
  BY DEF Init, DoneInv, NoManifest
<1>2. TypeInv /\ DoneInv /\ [Next \/ AtRest]_vars =>
        DoneInv' /\ (manifest.status = "done" => manifest' = manifest)
  <2> SUFFICES ASSUME TypeInv, DoneInv, [Next \/ AtRest]_vars
               PROVE  DoneInv' /\ (manifest.status = "done" => manifest' = manifest)
    OBVIOUS
  <2>1. CASE UNCHANGED vars \/ AtRest
    BY <2>1 DEF AtRest, vars, DoneInv
  <2>2. CASE Next
    BY <2>2, StepDone DEF Next, Step
  <2> QED BY <2>1, <2>2
<1>3. TypeInv /\ DoneInv /\ [Next \/ AtRest]_vars =>
        [manifest.status = "done" => manifest'.status = "done"]_vars
  BY <1>2
<1> QED BY <1>1, <1>2, <1>3, TypeInvariant, PTL DEF Spec, CompletedIsFinal


-----------------------------------------------------------------------------
(* The steps a process would list in its manifest.                          *)

Results(p) == base[p] \o done[p]

WorkSteps(s) == {i \in 1..Len(s) : s[i].kind # "human"}

WorkOf(s) == Cardinality(WorkSteps(s))

Numbered(s) == \A i \in 1..Len(s) : s[i].num = i

\* Some work is done in the name of the current step, or its record is being
\* written.
Working(p) ==
  \/ pc[p] \in {"agent", "retry", "shell"}
  \/ pc[p] \in {"content", "meta"} /\ pend[p].kind # "human"

\* The operator's answer to a pause is being written.
Answering(p) == pc[p] \in {"content", "meta"} /\ pend[p].kind = "human" /\ skip[p]

-----------------------------------------------------------------------------
(* The inductive invariant.                                                 *)

\* A process that has not entered the loop has no results of its own.
Fresh(p) ==
  /\ pc[p] = "idle" => base[p] = <<>>
  /\ pc[p] \in {"idle", "spawned"} \/ Answering(p) => done[p] = <<>>

\* The record being written carries the number the counter stands for.
PendCounted(p) ==
  pc[p] \in {"content", "meta"} =>
    /\ pend[p].kind # "human" => pend[p].num = num[p]
    /\ pend[p].kind = "human" /\ skip[p] => pend[p].num = Len(base[p]) + 1

\* The counter never falls behind the results, so the budget bounds them.
Budgeted(p) ==
  /\ Working(p) => Len(Results(p)) + 1 <= num[p] /\ num[p] <= MaxSteps
  /\ pc[p] \notin {"idle", "spawned"} /\ ~Working(p) /\ ~Answering(p) =>
       Len(Results(p)) <= num[p]
  /\ WorkOf(Results(p)) <= MaxSteps

\* Under the pause policy the counter is the number of the last step.
Exact(p) ==
  policy[p] = "pause" =>
    /\ Numbered(Results(p))
    /\ Working(p) => num[p] = Len(Results(p)) + 1
    /\ pc[p] \in {"loop", "manifest", "flush"} => num[p] = Len(Results(p))
    /\ pc[p] # "prompt"
    /\ pc[p] \in {"content", "meta"} /\ pend[p].kind = "human" => skip[p]

\* Only the pause policy pauses.
EndsRight(p) ==
  pc[p] \in {"manifest", "flush"} /\ Kind(p) # "final" => policy[p] = "pause"

CountAt(p) == Fresh(p) /\ PendCounted(p) /\ Budgeted(p) /\ Exact(p) /\ EndsRight(p)

ManifestCounted ==
  /\ manifest.status = "paused" => Numbered(manifest.steps)
  /\ WorkOf(manifest.steps) <= MaxSteps

CountInv == ManifestCounted /\ \A p \in Procs : CountAt(p)

-----------------------------------------------------------------------------
(* Sequences of steps.                                                      *)

LEMMA WorkBounded ==
  ASSUME NEW s \in Seq(StepRecords)
  PROVE  IsFiniteSet(WorkSteps(s)) /\ WorkOf(s) \in Nat /\ WorkOf(s) <= Len(s)
<1>1. Len(s) \in Nat
  BY LenProperties
<1>2. IsFiniteSet(1..Len(s)) /\ Cardinality(1..Len(s)) = Len(s)
  BY SMTT(30), <1>1, FS_Interval
<1>3. WorkSteps(s) \in SUBSET (1..Len(s))
  BY DEF WorkSteps
<1>4. IsFiniteSet(WorkSteps(s)) /\ Cardinality(WorkSteps(s)) <= Cardinality(1..Len(s))
  BY <1>2, <1>3, FS_Subset
<1>5. Cardinality(WorkSteps(s)) \in Nat
  BY <1>4, FS_CardinalityType
<1> QED BY <1>2, <1>4, <1>5 DEF WorkOf

\* An operator's answer is no work.
LEMMA AnswerIsFree ==
  ASSUME NEW s \in Seq(StepRecords), NEW r \in StepRecords, r.kind = "human"
  PROVE  WorkOf(Append(s, r)) = WorkOf(s)
<1>1. WorkSteps(Append(s, r)) = WorkSteps(s)
  BY LenProperties, AppendProperties DEF WorkSteps
<1> QED BY <1>1 DEF WorkOf

LEMMA AppendNumbered ==
  ASSUME NEW s \in Seq(StepRecords), NEW r \in StepRecords,
         Numbered(s), r.num = Len(s) + 1
  PROVE  Numbered(Append(s, r))
  BY LenProperties, AppendProperties DEF Numbered

LEMMA EmptyCounts == WorkOf(<<>>) = 0 /\ Numbered(<<>>) /\ <<>> \in Seq(StepRecords) /\ Len(<<>>) = 0
<1>1. WorkSteps(<<>>) = {}
  BY DEF WorkSteps
<1>2. Numbered(<<>>) /\ <<>> \in Seq(StepRecords) /\ Len(<<>>) = 0
  BY EmptySeq DEF Numbered
<1> QED BY <1>1, <1>2, FS_EmptySet DEF WorkOf

\* Appending to either part of the results, when it is the last one, appends
\* to the results.
LEMMA AppendToResults ==
  ASSUME NEW b \in Seq(StepRecords), NEW d \in Seq(StepRecords), NEW r \in StepRecords
  PROVE  /\ b \o Append(d, r) = Append(b \o d, r)
         /\ Append(b, r) \o <<>> = Append(b \o <<>>, r)
<1>1. <<r>> \in Seq(StepRecords)
  OBVIOUS
<1>2. b \o d \in Seq(StepRecords) /\ Append(b, r) \in Seq(StepRecords)
  BY ConcatProperties, AppendProperties
<1>3. b \o (d \o <<r>>) = (b \o d) \o <<r>>
  BY <1>1, ConcatAssociative
<1>4. Append(d, r) = d \o <<r>> /\ Append(b \o d, r) = (b \o d) \o <<r>>
  BY <1>2, AppendIsConcat
<1>5. Append(b, r) \o <<>> = Append(b, r) /\ b \o <<>> = b
  BY <1>2, ConcatEmptySeq
<1> QED BY <1>3, <1>4, <1>5

-----------------------------------------------------------------------------
(* One step of one process.                                                  *)

\* What most steps do: the results stay as they are.
ResultsKept(p) == base'[p] = base[p] /\ done'[p] = done[p]

LEMMA ResultsAreSteps ==
  ASSUME NEW p \in Procs, TypeInv
  PROVE  /\ base[p] \in Seq(StepRecords) /\ done[p] \in Seq(StepRecords)
         /\ Results(p) \in Seq(StepRecords)
         /\ Len(base[p]) \in Nat /\ Len(Results(p)) \in Nat /\ num[p] \in Nat
         /\ WorkOf(Results(p)) \in Nat /\ MaxSteps \in Nat
<1>1. base[p] \in Seq(StepRecords) /\ done[p] \in Seq(StepRecords) /\ num[p] \in Nat
  BY DEF TypeInv, TypeOK, StepTypeOK, LoopTypeOK
<1>2. Results(p) \in Seq(StepRecords)
  BY <1>1, ConcatProperties DEF Results
<1> QED BY <1>1, <1>2, LenProperties, WorkBounded, BoundAssumption

USE DEF TypeInv, TypeOK, DiskTypeOK, ProcTypeOK, LoopTypeOK, StepTypeOK,
        diskVars, launchVars, loopVars, stepVars, OptState,
        CountAt, Fresh, PendCounted, Budgeted, Exact, EndsRight, Working, Answering

LEMMA VanishCount ==
  ASSUME NEW p \in Procs, TypeInv, Vanish(p)
  PROVE  CountAt(p)'
<1>1. pc'[p] = "idle" /\ base'[p] = <<>> /\ done'[p] = <<>>
  BY DEF Vanish
<1>2. Results(p)' = <<>>
  BY <1>1, EmptySeq, ConcatEmptySeq DEF Results
<1>3. WorkOf(Results(p))' <= MaxSteps /\ Numbered(Results(p))'
  BY <1>2, EmptyCounts, BoundAssumption
<1> QED BY <1>1, <1>3

LEMMA StartCount ==
  ASSUME NEW p \in Procs, TypeInv, CountAt(p), Start(p)
  PROVE  CountAt(p)'
<1>1. pc'[p] = "spawned" /\ pc[p] = "idle" /\ ResultsKept(p)
  BY DEF Start, ResultsKept
<1>2. base[p] = <<>> /\ done[p] = <<>>
  BY <1>1
<1>3. Results(p)' = <<>>
  BY <1>1, <1>2, EmptySeq, ConcatEmptySeq DEF Results, ResultsKept
<1>4. WorkOf(Results(p))' <= MaxSteps /\ Numbered(Results(p))'
  BY <1>3, EmptyCounts, BoundAssumption
<1> QED BY <1>1, <1>2, <1>4 DEF ResultsKept

\* A resume takes its numbers from the manifest.
LEMMA ResumeCount ==
  ASSUME NEW p \in Procs, TypeInv, CountAt(p), ManifestCounted, Resume(p)
  PROVE  CountAt(p)'
<1>1. /\ base'[p] = manifest.steps /\ done'[p] = <<>> /\ skip'[p] = TRUE
      /\ manifest.status = "paused" /\ manifest.steps \in Seq(StepRecords)
  BY DEF Resume
<1>2. Results(p)' = manifest.steps
  BY <1>1, ConcatEmptySeq DEF Results
<1>3. WorkOf(Results(p))' <= MaxSteps /\ Numbered(Results(p))'
  BY <1>1, <1>2 DEF ManifestCounted
<1>4. CASE pc'[p] = "spawned"
  BY <1>1, <1>3, <1>4
<1>5. CASE /\ pc'[p] = "content"
           /\ pend'[p] = HumanRecord(Len(manifest.steps) + 1, manifest.at, launches + 1)
  BY SMTT(30), <1>1, <1>3, <1>5 DEF HumanRecord
<1> QED BY <1>4, <1>5 DEF Resume

LEMMA DriveCount ==
  ASSUME NEW p \in Procs, TypeInv, CountAt(p), Drive(p)
  PROVE  CountAt(p)'
<1>1. /\ pc[p] = "spawned" /\ pc'[p] = "loop" /\ ResultsKept(p)
      /\ num'[p] = Len(base[p]) /\ policy'[p] = policy[p]
  BY DEF Drive, ResultsKept
<1>2. Results(p) = base[p] /\ Results(p)' = Results(p)
  BY <1>1, ConcatEmptySeq DEF Results, ResultsKept
<1>3. Len(base[p]) \in Nat
  BY ResultsAreSteps
<1> QED BY <1>1, <1>2, <1>3

\* Steps of the driver that leave its counter and its results alone.
LEMMA MoveCount ==
  ASSUME NEW p \in Procs, TypeInv, CountAt(p),
         Conclude(p) \/ PassThrough(p) \/ OpenPrompt(p) \/ PromptEmpty(p)
           \/ AskAgain(p) \/ WriteContent(p) \/ TruncateManifest(p)
  PROVE  CountAt(p)'
<1>1. /\ ResultsKept(p) /\ num'[p] = num[p] /\ policy'[p] = policy[p]
      /\ pend'[p] = pend[p] /\ flow'[p] = flow[p]
  BY DEF Conclude, PassThrough, OpenPrompt, PromptEmpty, AskAgain, WriteContent,
         TruncateManifest, ResultsKept
<1>2. Results(p)' = Results(p)
  BY <1>1 DEF Results, ResultsKept
<1>3. CASE Conclude(p)
  <2>1. pc[p] = "loop" /\ pc'[p] = "manifest" /\ at'[p] = at[p] /\ skip'[p] = skip[p]
    BY <1>3 DEF Conclude, AtHead
  <2>2. Kind(p) = "final" \/ policy[p] = "pause"
    BY <1>3 DEF Conclude, AtHead
  <2> QED BY <1>1, <1>2, <2>1, <2>2 DEF Kind
<1>4. CASE PassThrough(p)
  <2>1. pc[p] = "loop" /\ pc'[p] = "loop"
    BY <1>4 DEF PassThrough, AtHead
  <2> QED BY <1>1, <1>2, <2>1
<1>5. CASE OpenPrompt(p)
  <2>1. pc[p] = "loop" /\ pc'[p] = "prompt" /\ policy[p] = "inline"
    BY <1>5 DEF OpenPrompt, AtHead
  <2> QED BY <1>1, <1>2, <2>1
<1>6. CASE PromptEmpty(p)
  <2>1. pc[p] = "prompt" /\ pc'[p] = "loop"
    BY <1>6 DEF PromptEmpty
  <2> QED BY <1>1, <1>2, <2>1
<1>7. CASE AskAgain(p)
  <2>1. pc[p] = "agent" /\ pc'[p] = "retry"
    BY <1>7 DEF AskAgain
  <2> QED BY <1>1, <1>2, <2>1
<1>8. CASE WriteContent(p)
  <2>1. pc[p] = "content" /\ pc'[p] = "meta" /\ skip'[p] = skip[p]
    BY <1>8 DEF WriteContent
  <2> QED BY <1>1, <1>2, <2>1 DEF ResultsKept
<1>9. CASE TruncateManifest(p)
  <2>1. pc[p] = "manifest" /\ pc'[p] = "flush" /\ at'[p] = at[p] /\ skip'[p] = skip[p]
    BY <1>9 DEF TruncateManifest
  <2> QED BY <1>1, <1>2, <2>1 DEF Kind
<1> QED BY <1>3, <1>4, <1>5, <1>6, <1>7, <1>8, <1>9

\* Entering a state charges the budget, which refuses beforehand.
LEMMA VisitCount ==
  ASSUME NEW p \in Procs, TypeInv, CountAt(p), Visit(p)
  PROVE  CountAt(p)'
<1>1. /\ pc[p] = "loop" /\ pc'[p] \in {"agent", "shell"} /\ ResultsKept(p)
      /\ num'[p] = num[p] + 1 /\ policy'[p] = policy[p]
  BY DEF Visit, AtHead, ResultsKept
<1>2. Results(p)' = Results(p)
  BY <1>1 DEF Results, ResultsKept
<1>3. ~(num[p] + 1 > MaxSteps)
  BY DEF Visit, AtHead, Stuck, OverBudget
<1>4. num[p] \in Nat /\ MaxSteps \in Nat /\ Len(Results(p)) \in Nat
  BY ResultsAreSteps
<1>5. Len(Results(p)) <= num[p] /\ WorkOf(Results(p)) <= MaxSteps
  BY <1>1
<1>6. Fresh(p)' /\ PendCounted(p)' /\ EndsRight(p)'
  BY <1>1
<1>7. Budgeted(p)'
  BY SMTT(30), <1>1, <1>2, <1>3, <1>4, <1>5
<1>8. Exact(p)'
  <2>1. policy[p] = "pause" => Numbered(Results(p)) /\ num[p] = Len(Results(p))
    BY <1>1
  <2> QED BY <1>1, <1>2, <2>1
<1> QED BY <1>6, <1>7, <1>8

LEMMA PersistCount ==
  ASSUME NEW p \in Procs, TypeInv, CountAt(p),
         Decide(p) \/ ShellExits(p) \/ PromptBody(p)
  PROVE  CountAt(p)'
<1>1. /\ ResultsKept(p) /\ pc'[p] = "content"
      /\ num'[p] = num[p] /\ policy'[p] = policy[p] /\ skip'[p] = skip[p]
  BY DEF Decide, ShellExits, PromptBody, Persist, ResultsKept
<1>2. Results(p)' = Results(p)
  BY <1>1 DEF Results, ResultsKept
<1>3. CASE Decide(p) \/ ShellExits(p)
  <2>1. pc[p] \in {"agent", "retry", "shell"}
    BY <1>3 DEF Decide, ShellExits
  <2>2. pend'[p].kind # "human" /\ pend'[p].num = num[p]
    BY <1>3 DEF Decide, ShellExits, Persist, Record
  <2> QED BY <1>1, <1>2, <2>1, <2>2
<1>4. CASE PromptBody(p)
  <2>1. pc[p] = "prompt" /\ pend'[p].kind = "human" /\ ~skip[p]
    BY <1>4 DEF PromptBody, Persist, HumanRecord, FlowPlaced
  <2> QED BY <1>1, <1>2, <2>1
<1> QED BY <1>3, <1>4

LEMMA FollowEdgeResults ==
  ASSUME NEW p \in Procs, TypeInv, WriteMeta(p), FollowEdge(p)
  PROVE  Results(p)' = Append(Results(p), pend[p])
<1>1. base'[p] = base[p] /\ done'[p] = Append(done[p], pend[p])
  BY DEF WriteMeta, FollowEdge
<1>2. pend[p] \in StepRecords
  BY DEF WriteMeta, PendPlaced
<1>3. base[p] \in Seq(StepRecords) /\ done[p] \in Seq(StepRecords)
  BY ResultsAreSteps
<1> HIDE DEF TypeInv
<1>4. base[p] \o Append(done[p], pend[p]) = Append(base[p] \o done[p], pend[p])
  BY <1>2, <1>3, AppendToResults
<1> QED BY <1>1, <1>4 DEF Results

LEMMA JoinPriorResults ==
  ASSUME NEW p \in Procs, TypeInv, WriteMeta(p), JoinPrior(p), done[p] = <<>>
  PROVE  Results(p)' = Append(Results(p), pend[p]) /\ Results(p) = base[p]
<1>1. base'[p] = Append(base[p], pend[p]) /\ done'[p] = <<>>
  BY DEF WriteMeta, JoinPrior
<1>2. pend[p] \in StepRecords
  BY DEF WriteMeta, PendPlaced
<1>3. base[p] \in Seq(StepRecords) /\ done[p] \in Seq(StepRecords)
  BY ResultsAreSteps
<1> HIDE DEF TypeInv
<1>4. Append(base[p], pend[p]) \o <<>> = Append(base[p] \o <<>>, pend[p])
  BY <1>2, <1>3, AppendToResults
<1>5. base[p] \o <<>> = base[p]
  BY <1>3, ConcatEmptySeq
<1> QED BY <1>1, <1>4, <1>5 DEF Results

\* A finished step of an agent or a command: one more result, within budget.
LEMMA FollowEdgeCount ==
  ASSUME NEW p \in Procs, TypeInv, CountAt(p), WriteMeta(p),
         pend[p].kind # "human", FollowEdge(p)
  PROVE  CountAt(p)'
<1>1. /\ pc[p] = "meta" /\ pc'[p] = "loop" /\ num'[p] = num[p] /\ policy'[p] = policy[p]
      /\ base'[p] = base[p] /\ done'[p] = Append(done[p], pend[p])
  BY DEF WriteMeta, FollowEdge
<1>2. pend[p] \in StepRecords
  BY <1>1 DEF PendPlaced
<1>3. Results(p)' = Append(Results(p), pend[p])
  BY FollowEdgeResults
<1>4. /\ Len(Results(p)) \in Nat /\ num[p] \in Nat /\ MaxSteps \in Nat
      /\ Results(p) \in Seq(StepRecords)
  BY ResultsAreSteps
<1>5. Len(Append(Results(p), pend[p])) = Len(Results(p)) + 1
  BY <1>2, <1>4, AppendProperties
<1>6. Append(Results(p), pend[p]) \in Seq(StepRecords)
  BY <1>2, <1>4, AppendProperties
<1>7. Len(Results(p)) + 1 <= num[p] /\ num[p] <= MaxSteps /\ pend[p].num = num[p]
  BY <1>1
<1>8. WorkOf(Append(Results(p), pend[p])) <= MaxSteps
  <2>1. /\ WorkOf(Append(Results(p), pend[p])) \in Nat
        /\ WorkOf(Append(Results(p), pend[p])) <= Len(Results(p)) + 1
    BY <1>5, <1>6, WorkBounded
  <2> QED BY <1>4, <1>7, <2>1
<1>9. ASSUME policy[p] = "pause"
      PROVE  Numbered(Append(Results(p), pend[p])) /\ num[p] = Len(Results(p)) + 1
  <2>1. Numbered(Results(p)) /\ num[p] = Len(Results(p)) + 1
    BY <1>1, <1>9
  <2> QED BY <1>2, <1>4, <1>7, <2>1, AppendNumbered
<1> QED BY <1>1, <1>3, <1>4, <1>5, <1>7, <1>8, <1>9

\* The operator's answer to a pause: one more step, but no work.
LEMMA JoinPriorCount ==
  ASSUME NEW p \in Procs, TypeInv, CountAt(p), WriteMeta(p),
         pend[p].kind = "human", skip[p], JoinPrior(p)
  PROVE  CountAt(p)'
<1>1. /\ pc[p] = "meta" /\ pc'[p] = "spawned" /\ policy'[p] = policy[p]
      /\ base'[p] = Append(base[p], pend[p]) /\ done'[p] = done[p] /\ done[p] = <<>>
  BY DEF WriteMeta, JoinPrior
<1>2. pend[p] \in StepRecords
  BY <1>1 DEF PendPlaced
<1>3. Results(p)' = Append(Results(p), pend[p]) /\ Results(p) = base[p]
  BY <1>1, JoinPriorResults
<1>4. Results(p) \in Seq(StepRecords)
  BY ResultsAreSteps
<1>5. WorkOf(Append(Results(p), pend[p])) = WorkOf(Results(p))
  BY <1>2, <1>4, AnswerIsFree
<1>6. pend[p].num = Len(Results(p)) + 1
  BY <1>1, <1>3
<1>7. policy[p] = "pause" => Numbered(Append(Results(p), pend[p]))
  BY <1>2, <1>4, <1>6, AppendNumbered
<1> QED BY <1>1, <1>3, <1>5, <1>7

\* An inline answer moves the counter past the results.
LEMMA LeaveInlineCount ==
  ASSUME NEW p \in Procs, TypeInv, CountAt(p), WriteMeta(p),
         pend[p].kind = "human", ~skip[p], LeaveInline(p)
  PROVE  CountAt(p)'
<1>1. /\ pc[p] = "meta" /\ pc'[p] = "loop" /\ num'[p] = num[p] + 1
      /\ policy'[p] = policy[p] /\ ResultsKept(p)
  BY DEF WriteMeta, LeaveInline, ResultsKept
<1>2. Results(p)' = Results(p)
  BY <1>1 DEF Results, ResultsKept
<1>3. Len(Results(p)) \in Nat /\ num[p] \in Nat
  BY ResultsAreSteps
<1> QED BY <1>1, <1>2, <1>3

LEMMA StepCount ==
  ASSUME NEW p \in Procs, TypeInv, CountAt(p), ManifestCounted, Step(p)
  PROVE  CountAt(p)'
<1> HIDE DEF CountAt, TypeInv
<1> QED
  BY VanishCount, StartCount, ResumeCount, DriveCount, MoveCount, VisitCount, PersistCount,
     FollowEdgeCount, JoinPriorCount, LeaveInlineCount
  DEF Step, Work, Prompted, Cancel, Crash, Fail, GiveUp, AgentFails, ShellFails,
      PromptFails, FlushManifest, WriteMeta

-----------------------------------------------------------------------------
(* The others, and the manifest.                                             *)

LEMMA StepOthers ==
  ASSUME NEW p \in Procs, TypeInv, Step(p), NEW q \in Procs \ {p}
  PROVE  done'[q] = done[q] /\ policy'[q] = policy[q] /\ life'[q] = life[q]
<1>1. CASE Start(p) \/ Resume(p)
  BY <1>1 DEF Start, Resume
<1>2. CASE Vanish(p)
  BY <1>2 DEF Vanish
<1>3. CASE Drive(p) \/ Conclude(p) \/ PassThrough(p) \/ OpenPrompt(p) \/ Visit(p)
  BY <1>3 DEF Drive, Conclude, PassThrough, OpenPrompt, Visit
<1>4. CASE Decide(p) \/ ShellExits(p) \/ PromptBody(p) \/ PromptEmpty(p) \/ AskAgain(p)
  BY <1>4 DEF Decide, ShellExits, PromptBody, PromptEmpty, AskAgain, Persist
<1>5. CASE WriteContent(p) \/ WriteMeta(p) \/ TruncateManifest(p)
  BY <1>5 DEF WriteContent, WriteMeta, TruncateManifest, FollowEdge, JoinPrior, LeaveInline
<1> QED
  BY <1>1, <1>2, <1>3, <1>4, <1>5
  DEF Step, Work, Prompted, Cancel, Crash, Fail, GiveUp, AgentFails, ShellFails,
      PromptFails, FlushManifest

LEMMA CountFramed ==
  ASSUME NEW q \in Procs, CountAt(q), Framed(q), done'[q] = done[q], policy'[q] = policy[q]
  PROVE  CountAt(q)'
<1>1. Results(q)' = Results(q)
  BY DEF Results, Framed
<1> QED BY <1>1 DEF Framed, Kind

LEMMA StepManifest ==
  ASSUME NEW p \in Procs, TypeInv, CountAt(p), ManifestCounted, Step(p)
  PROVE  ManifestCounted'
<1>1. CASE UNCHANGED manifest
  BY <1>1 DEF ManifestCounted
<1>2. CASE TruncateManifest(p)
  BY <1>2, EmptyCounts, BoundAssumption DEF TruncateManifest, Torn, ManifestCounted
<1>3. CASE FlushManifest(p)
  <2>1. /\ pc[p] = "flush" /\ manifest'.steps = Results(p)
        /\ manifest'.status = "paused" => Kind(p) # "final"
    BY <1>3 DEF FlushManifest, Results
  <2> QED BY <2>1 DEF ManifestCounted
<1> QED
  BY <1>1, <1>2, <1>3
  DEF Step, Work, Prompted, Cancel, Crash, Fail, GiveUp, AgentFails, ShellFails,
      PromptFails, Start, Resume, Drive, Conclude, PassThrough, OpenPrompt, Visit,
      Decide, AskAgain, ShellExits, Persist, PromptBody, PromptEmpty, WriteContent, WriteMeta

LEMMA InitCount == Init => CountInv
<1> SUFFICES ASSUME Init PROVE CountInv
  OBVIOUS
<1>1. ManifestCounted
  BY EmptyCounts, BoundAssumption DEF Init, NoManifest, ManifestCounted
<1>2. ASSUME NEW p \in Procs PROVE CountAt(p)
  <2>1. pc[p] = "idle" /\ base[p] = <<>> /\ done[p] = <<>>
    BY DEF Init
  <2>2. Results(p) = <<>>
    BY <2>1, EmptySeq, ConcatEmptySeq DEF Results
  <2> QED BY <2>1, <2>2, EmptyCounts, BoundAssumption
<1> QED BY <1>1, <1>2 DEF CountInv

LEMMA NextCount == TypeInv /\ CountInv /\ [Next \/ AtRest]_vars => CountInv'
<1> SUFFICES ASSUME TypeInv, CountInv, [Next \/ AtRest]_vars PROVE CountInv'
  OBVIOUS
<1>1. CASE UNCHANGED vars \/ AtRest
  <2>1. UNCHANGED vars
    BY <1>1 DEF AtRest
  <2>2. ASSUME NEW q \in Procs PROVE CountAt(q)'
    <3>1. Framed(q) /\ done'[q] = done[q] /\ policy'[q] = policy[q]
      BY <2>1 DEF vars, Framed
    <3> QED BY <3>1, CountFramed DEF CountInv
  <2> QED BY <2>1, <2>2 DEF vars, CountInv, ManifestCounted
<1>2. ASSUME NEW p \in Procs, Step(p) PROVE CountInv'
  <2> HIDE DEF CountAt, TypeInv
  <2>1. ASSUME NEW q \in Procs PROVE CountAt(q)'
    <3>1. CASE q = p
      BY <1>2, <3>1, StepCount DEF CountInv
    <3>2. CASE q # p
      BY <1>2, <3>2, StepFrames, StepOthers, CountFramed DEF CountInv
    <3> QED BY <3>1, <3>2
  <2>2. ManifestCounted'
    BY <1>2, StepManifest DEF CountInv
  <2> QED BY <2>1, <2>2 DEF CountInv
<1> QED BY <1>1, <1>2 DEF Next, Step

-----------------------------------------------------------------------------

\* A paused manifest numbers its steps 1, 2, 3..., whoever else works on the
\* directory and however often the run was resumed: the count a resume
\* continues from is the number of the last step, so its steps overwrite none.
THEOREM NumbersContinue == Spec => []PausedNumbering
<1>1. CountInv => PausedNumbering
  BY DEF CountInv, ManifestCounted, PausedNumbering, Numbered
<1> QED BY <1>1, InitCount, NextCount, TypeInvariant, PTL DEF Spec

\* The step budget is the run's: over all its launches together, a manifest
\* never lists more work than max_steps.
THEOREM BudgetIsTheRuns == Spec => []BudgetSpansResumes
<1>1. CountInv => BudgetSpansResumes
  BY DEF CountInv, ManifestCounted, BudgetSpansResumes, WorkOf, WorkSteps
<1> QED BY <1>1, InitCount, NextCount, TypeInvariant, PTL DEF Spec

-----------------------------------------------------------------------------
(* What a manifest lists stays on disk, when one process at a time works on  *)
(* the directory.                                                            *)

OnDisk(r) == r \in meta /\ File(r, TRUE) \in content

\* The number up to which files of the directory are not touched again: a
\* process writes under higher ones only.
Floor(p) ==
  IF pc[p] = "spawned" \/ Answering(p) THEN Len(base[p])
  ELSE IF Working(p) THEN num[p] - 1 ELSE num[p]

Under(s, n) == \A i \in 1..Len(s) : s[i].num <= n

AllOnDisk(s) == \A i \in 1..Len(s) : OnDisk(s[i])

\* An inline answer is numbered after the current step.
AnswerAhead(p) ==
  pc[p] \in {"content", "meta"} /\ pend[p].kind = "human" /\ ~skip[p] =>
    pend[p].num = num[p] + 1

KeptAt(p) ==
  /\ AllOnDisk(Results(p))
  /\ AnswerAhead(p)
  /\ pc[p] = "meta" => File(pend[p], TRUE) \in content
  /\ pc[p] # "idle" => Under(Results(p), Floor(p)) /\ Under(manifest.steps, Floor(p))

KeptInv == AllOnDisk(manifest.steps) /\ \A p \in Procs : KeptAt(p)

\* A write above the floor leaves what is listed alone.
LEMMA PutAbove ==
  ASSUME NEW files, NEW x \in files, NEW y, x.num # y.num
  PROVE  x \in Put(files, y)
  BY DEF Put

\* What one step writes to the directory.
WritesAbove(p) ==
  /\ \A c \in content : c.num <= Floor(p) => c \in content'
  /\ \A m \in meta : m.num <= Floor(p) => m \in meta'

LEMMA AboveKeeps ==
  ASSUME NEW p \in Procs, WritesAbove(p), NEW s, AllOnDisk(s), Under(s, Floor(p))
  PROVE  AllOnDisk(s)'
  BY DEF WritesAbove, AllOnDisk, Under, OnDisk, File

LEMMA FloorIsNat ==
  ASSUME NEW p \in Procs, TypeInv, CountAt(p)
  PROVE  Floor(p) \in Int /\ num[p] \in Nat /\ Len(base[p]) \in Nat
  BY ResultsAreSteps DEF Floor

\* A record is written above the floor.
LEMMA PendAbove ==
  ASSUME NEW p \in Procs, TypeInv, CountAt(p), AnswerAhead(p), pc[p] \in {"content", "meta"}
  PROVE  pend[p].num \in Nat /\ pend[p].num > Floor(p)
<1>1. pend[p] \in StepRecords
  BY DEF PendPlaced
<1>2. pend[p].num \in Nat
  BY <1>1 DEF StepRecords
<1> QED BY SMTT(30), <1>2, FloorIsNat DEF AnswerAhead, Floor

LEMMA ContentAbove ==
  ASSUME NEW p \in Procs, TypeInv, CountAt(p), AnswerAhead(p), pc[p] = "content",
         NEW full \in BOOLEAN, content' = Put(content, File(pend[p], full)), meta' = meta
  PROVE  WritesAbove(p)
<1>1. pend[p].num \in Nat /\ pend[p].num > Floor(p) /\ Floor(p) \in Int
  BY PendAbove, FloorIsNat
<1>2. ASSUME NEW c \in content, c.num <= Floor(p) PROVE c \in content'
  <2>1. c.num \in Nat
    BY DEF ContentFiles
  <2>2. File(pend[p], full).num = pend[p].num
    BY DEF File
  <2> QED BY <1>1, <1>2, <2>1, <2>2, PutAbove
<1> QED BY <1>2 DEF WritesAbove

LEMMA MetaAbove ==
  ASSUME NEW p \in Procs, TypeInv, CountAt(p), AnswerAhead(p), pc[p] = "meta",
         NEW r, r.num = pend[p].num, meta' = Put(meta, r), content' = content
  PROVE  WritesAbove(p)
<1>1. pend[p].num \in Nat /\ pend[p].num > Floor(p) /\ Floor(p) \in Int
  BY PendAbove, FloorIsNat
<1>2. ASSUME NEW m \in meta, m.num <= Floor(p) PROVE m \in meta'
  <2>1. m.num \in Nat
    BY DEF StepRecords
  <2> QED BY <1>1, <1>2, <2>1, PutAbove
<1> QED BY <1>2 DEF WritesAbove

LEMMA QuietAbove ==
  ASSUME NEW p \in Procs, UNCHANGED <<content, meta>>
  PROVE  WritesAbove(p)
  BY DEF WritesAbove

LEMMA StepAbove ==
  ASSUME NEW p \in Procs, TypeInv, CountAt(p), AnswerAhead(p), Step(p)
  PROVE  WritesAbove(p)
<1>1. CASE WriteContent(p)
  <2>1. /\ pc[p] = "content" /\ content' = Put(content, File(pend[p], TRUE))
        /\ meta' = meta
    BY <1>1 DEF WriteContent
  <2> QED BY <2>1, ContentAbove
<1>2. CASE WriteMeta(p)
  <2>1. pc[p] = "meta" /\ meta' = Put(meta, pend[p]) /\ content' = content
    BY <1>2 DEF WriteMeta
  <2> QED BY <2>1, MetaAbove
<1>3. CASE Visit(p)
  <2> DEFINE r == [num |-> num[p] + 1, id |-> at[p], by |-> life[p]]
             f == File(r, FALSE)
  <2>1. content' = Put(content, f) /\ meta' = meta /\ pc[p] = "loop"
    BY <1>3 DEF Visit, AtHead
  <2>2. f.num = num[p] + 1 /\ Floor(p) = num[p] /\ num[p] \in Nat
    BY <2>1, FloorIsNat DEF File, Floor
  <2>3. ASSUME NEW c \in content, c.num <= Floor(p) PROVE c \in content'
    <3>1. c.num \in Nat
      BY DEF ContentFiles
    <3> HIDE DEF f
    <3>2. c.num # f.num
      BY <2>2, <2>3, <3>1
    <3> QED BY <2>1, <3>2, PutAbove
  <2> QED BY <2>1, <2>3 DEF WritesAbove
<1>4. CASE Crash(p)
  <2>1. CASE UNCHANGED <<content, meta>>
    BY <2>1, QuietAbove
  <2>2. CASE pc[p] = "content" /\ content' = Put(content, File(pend[p], FALSE)) /\ meta' = meta
    BY <2>2, ContentAbove
  <2>3. CASE pc[p] = "meta" /\ meta' = Put(meta, [pend[p] EXCEPT !.kind = "torn"])
               /\ content' = content
    <3>1. pend[p] \in StepRecords
      BY <2>3 DEF PendPlaced
    <3>2. [pend[p] EXCEPT !.kind = "torn"].num = pend[p].num
      BY <3>1 DEF StepRecords
    <3> QED BY <2>3, <3>2, MetaAbove
  <2> QED BY <1>4, <2>1, <2>2, <2>3 DEF Crash
<1>5. CASE UNCHANGED <<content, meta>>
  BY <1>5, QuietAbove
<1> QED
  BY <1>1, <1>2, <1>3, <1>4, <1>5
  DEF Step, Work, Prompted, Cancel, Fail, GiveUp, AgentFails, ShellFails,
      PromptFails, Start, Resume, Drive, Conclude, PassThrough, OpenPrompt,
      Decide, AskAgain, ShellExits, Persist, PromptBody, PromptEmpty, TruncateManifest,
      FlushManifest

LEMMA UnderMore ==
  ASSUME NEW s \in Seq(StepRecords), NEW m \in Int, NEW n \in Int, m <= n, Under(s, m)
  PROVE  Under(s, n)
<1> SUFFICES ASSUME NEW i \in 1..Len(s) PROVE s[i].num <= n
  BY DEF Under
<1>1. s[i] \in StepRecords
  BY ElementOfSeq
<1>2. s[i].num \in Nat /\ s[i].num <= m
  BY <1>1 DEF Under, StepRecords
<1> QED BY <1>2

LEMMA UnderAppend ==
  ASSUME NEW s \in Seq(StepRecords), NEW r \in StepRecords, NEW n \in Int,
         Under(s, n), r.num <= n
  PROVE  Under(Append(s, r), n)
  BY LenProperties, AppendProperties DEF Under

LEMMA UnderItsLast ==
  ASSUME NEW s \in Seq(StepRecords), NEW r \in StepRecords, NEW n \in Int,
         Under(s, n), n = r.num
  PROVE  Under(Append(s, r), n)
  BY UnderAppend

LEMMA EmptyKept == \A n : Under(<<>>, n) /\ AllOnDisk(<<>>)
  BY EmptySeq DEF Under, AllOnDisk

LEMMA FloorIsNatAfter ==
  ASSUME NEW p \in Procs, TypeInv'
  PROVE  Floor(p)' \in Int
<1>1. base'[p] \in Seq(StepRecords) /\ num'[p] \in Nat
  OBVIOUS
<1>2. Len(base'[p]) \in Nat
  BY <1>1, LenProperties
<1> QED BY <1>1, <1>2 DEF Floor

\* A step that adds no result and does not lower the floor keeps what is
\* listed on disk.
LEMMA OnwardKept ==
  ASSUME NEW p \in Procs, TypeInv, TypeInv', CountAt(p), CountAt(p)', KeptAt(p),
         WritesAbove(p), ResultsKept(p), pc[p] # "idle", Floor(p) <= Floor(p)',
         manifest' = manifest
  PROVE  /\ AllOnDisk(Results(p))'
         /\ Under(Results(p), Floor(p))' /\ Under(manifest.steps, Floor(p))'
<1>1. Floor(p) \in Int /\ Floor(p)' \in Int
  BY FloorIsNat, FloorIsNatAfter
<1>2. Results(p)' = Results(p) /\ Results(p) \in Seq(StepRecords)
  BY ResultsAreSteps DEF Results, ResultsKept
<1>3. AllOnDisk(Results(p))'
  BY <1>2, AboveKeeps DEF KeptAt, AllOnDisk, OnDisk
<1>4. Under(Results(p), Floor(p))'
  BY <1>1, <1>2, UnderMore DEF KeptAt
<1>5. manifest.steps \in Seq(StepRecords)
  OBVIOUS
<1>6. Under(manifest.steps, Floor(p)')
  BY <1>1, <1>5, UnderMore DEF KeptAt
<1> QED BY <1>3, <1>4, <1>6

LEMMA VanishKept ==
  ASSUME NEW p \in Procs, TypeInv, Vanish(p)
  PROVE  KeptAt(p)'
<1>1. pc'[p] = "idle" /\ base'[p] = <<>> /\ done'[p] = <<>>
  BY DEF Vanish
<1>2. Results(p)' = <<>>
  BY <1>1, EmptySeq, ConcatEmptySeq DEF Results
<1>3. AllOnDisk(Results(p))'
  BY <1>2, EmptySeq DEF AllOnDisk
<1> QED BY <1>1, <1>3 DEF KeptAt, AnswerAhead

LEMMA StartKept ==
  ASSUME NEW p \in Procs, TypeInv, CountAt(p), manifest = NoManifest, Start(p)
  PROVE  KeptAt(p)'
<1>1. pc'[p] = "spawned" /\ pc[p] = "idle" /\ ResultsKept(p) /\ manifest' = manifest
  BY DEF Start, ResultsKept
<1>2. base[p] = <<>> /\ done[p] = <<>>
  BY <1>1
<1>3. Results(p)' = <<>>
  BY <1>1, <1>2, EmptySeq, ConcatEmptySeq DEF Results, ResultsKept
<1>4. AllOnDisk(Results(p))' /\ Under(Results(p), Floor(p))' /\ Under(manifest.steps, Floor(p))'
  BY <1>1, <1>3, EmptySeq DEF AllOnDisk, Under, NoManifest
<1> QED BY <1>1, <1>4 DEF KeptAt, AnswerAhead

LEMMA ResumeKept ==
  ASSUME NEW p \in Procs, TypeInv, CountAt(p), ManifestCounted, AllOnDisk(manifest.steps),
         Resume(p)
  PROVE  KeptAt(p)'
<1>1. /\ base'[p] = manifest.steps /\ done'[p] = <<>> /\ skip'[p] = TRUE
      /\ manifest.status = "paused" /\ manifest.steps \in Seq(StepRecords)
      /\ UNCHANGED <<content, meta, manifest>>
  BY DEF Resume
<1>2. Results(p)' = manifest.steps
  BY <1>1, ConcatEmptySeq DEF Results
<1>3. AllOnDisk(Results(p))'
  BY <1>1, <1>2 DEF AllOnDisk, OnDisk
<1>4. Under(manifest.steps, Len(manifest.steps))
  BY <1>1, LenProperties DEF ManifestCounted, Numbered, Under
<1>5. CASE pc'[p] = "spawned"
  <2>1. Floor(p)' = Len(manifest.steps)
    BY <1>1, <1>5 DEF Floor
  <2> QED BY <1>1, <1>2, <1>3, <1>4, <1>5, <2>1 DEF KeptAt, AnswerAhead
<1>6. CASE /\ pc'[p] = "content"
           /\ pend'[p] = HumanRecord(Len(manifest.steps) + 1, manifest.at, launches + 1)
  <2>1. Floor(p)' = Len(manifest.steps)
    BY <1>1, <1>6 DEF Floor, HumanRecord
  <2> QED BY <1>1, <1>2, <1>3, <1>4, <1>6, <2>1 DEF KeptAt, AnswerAhead
<1> QED BY <1>5, <1>6 DEF Resume

\* Steps of the driver outside the writing of a record.
LEMMA MoveKept ==
  ASSUME NEW p \in Procs, TypeInv, TypeInv', CountAt(p), CountAt(p)', KeptAt(p),
         WritesAbove(p),
         \/ Drive(p) \/ Conclude(p) \/ PassThrough(p) \/ OpenPrompt(p) \/ PromptEmpty(p)
         \/ AskAgain(p) \/ Visit(p)
  PROVE  KeptAt(p)'
<1>1. /\ ResultsKept(p) /\ pc[p] # "idle" /\ manifest' = manifest
      /\ pc'[p] \notin {"idle", "content", "meta"}
  BY ZenonT(30) DEF Drive, Conclude, PassThrough, OpenPrompt, PromptEmpty, AskAgain, Visit, AtHead,
         ResultsKept
<1>2. Floor(p)' = Floor(p)
  <2>1. CASE Drive(p)
    BY <2>1 DEF Drive, Floor
  <2>2. CASE Visit(p)
    <3>1. /\ pc[p] = "loop" /\ pc'[p] \in {"agent", "shell"} /\ num'[p] = num[p] + 1
          /\ num[p] \in Nat
      BY <2>2 DEF Visit, AtHead
    <3>2. Floor(p) = num[p]
      BY <3>1 DEF Floor
    <3>3. Floor(p)' = num'[p] - 1
      BY <3>1 DEF Floor
    <3> QED BY <3>1, <3>2, <3>3
  <2>3. CASE Conclude(p) \/ PassThrough(p) \/ OpenPrompt(p)
    <3>1. pc[p] = "loop" /\ pc'[p] \in {"manifest", "loop", "prompt"} /\ num'[p] = num[p]
      BY <2>3 DEF Conclude, PassThrough, OpenPrompt, AtHead
    <3> QED BY <3>1 DEF Floor
  <2>4. CASE PromptEmpty(p) \/ AskAgain(p)
    BY ZenonT(30), <2>4 DEF PromptEmpty, AskAgain, Floor
  <2> QED BY <2>1, <2>2, <2>3, <2>4
<1>3. Floor(p) \in Int
  BY FloorIsNat
<1> HIDE DEF TypeInv, CountAt
<1>4. /\ AllOnDisk(Results(p))'
      /\ Under(Results(p), Floor(p))' /\ Under(manifest.steps, Floor(p))'
  BY <1>1, <1>2, <1>3, OnwardKept
<1>5. AnswerAhead(p)'
  BY <1>1 DEF AnswerAhead
<1> QED BY <1>1, <1>4, <1>5 DEF KeptAt

LEMMA TruncateKept ==
  ASSUME NEW p \in Procs, TypeInv, CountAt(p), KeptAt(p), TruncateManifest(p)
  PROVE  KeptAt(p)'
<1>1. /\ ResultsKept(p) /\ pc[p] = "manifest" /\ pc'[p] = "flush" /\ manifest' = Torn
      /\ num'[p] = num[p] /\ UNCHANGED <<content, meta>>
  BY DEF TruncateManifest, ResultsKept
<1>2. Results(p)' = Results(p) /\ Floor(p)' = Floor(p)
  BY <1>1 DEF Results, ResultsKept, Floor
<1> QED BY <1>1, <1>2, EmptyKept DEF KeptAt, AnswerAhead, AllOnDisk, OnDisk, Torn

LEMMA PersistKept ==
  ASSUME NEW p \in Procs, TypeInv, TypeInv', CountAt(p), CountAt(p)', KeptAt(p),
         WritesAbove(p), Decide(p) \/ ShellExits(p) \/ PromptBody(p) \/ WriteContent(p)
  PROVE  KeptAt(p)'
<1>1. /\ ResultsKept(p) /\ pc[p] # "idle" /\ manifest' = manifest
      /\ num'[p] = num[p] /\ skip'[p] = skip[p]
  BY DEF Decide, ShellExits, PromptBody, Persist, WriteContent, ResultsKept
<1>2. Floor(p)' = Floor(p) /\ AnswerAhead(p)'
  <2>1. CASE Decide(p) \/ ShellExits(p)
    <3>1. /\ pc[p] \in {"agent", "retry", "shell"} /\ pc'[p] = "content"
          /\ pend'[p].kind # "human"
      BY SMTT(30), <2>1 DEF Decide, ShellExits, Persist, Record
    <3> QED BY <1>1, <3>1 DEF Floor, AnswerAhead
  <2>2. CASE PromptBody(p)
    <3>1. /\ pc[p] = "prompt" /\ pc'[p] = "content" /\ ~skip[p]
          /\ pend'[p].kind = "human" /\ pend'[p].num = num[p] + 1
      BY <2>2 DEF PromptBody, Persist, HumanRecord, FlowPlaced
    <3> QED BY <1>1, <3>1 DEF Floor, AnswerAhead
  <2>3. CASE WriteContent(p)
    <3>1. pc[p] = "content" /\ pc'[p] = "meta" /\ pend'[p] = pend[p]
      BY <2>3 DEF WriteContent
    <3> QED BY <1>1, <3>1 DEF Floor, AnswerAhead, KeptAt, ResultsKept
  <2> QED BY <2>1, <2>2, <2>3
<1>3. Floor(p) \in Int
  BY FloorIsNat
<1>4. pc'[p] = "meta" => File(pend'[p], TRUE) \in content'
  <2>1. CASE Decide(p) \/ ShellExits(p) \/ PromptBody(p)
    BY <2>1 DEF Decide, ShellExits, PromptBody, Persist
  <2>2. CASE WriteContent(p)
    BY <2>2 DEF WriteContent, Put
  <2> QED BY <2>1, <2>2
<1> HIDE DEF TypeInv, CountAt
<1>5. /\ AllOnDisk(Results(p))'
      /\ Under(Results(p), Floor(p))' /\ Under(manifest.steps, Floor(p))'
  BY <1>1, <1>2, <1>3, OnwardKept
<1> QED BY <1>2, <1>4, <1>5 DEF KeptAt

\* On disk once the step is taken.
ThenOnDisk(r) == r \in meta' /\ File(r, TRUE) \in content'

\* The record that was just written is on disk, whole.
LEMMA WrittenOnDisk ==
  ASSUME NEW p \in Procs, KeptAt(p), WriteMeta(p)
  PROVE  ThenOnDisk(pend[p])
  BY DEF KeptAt, WriteMeta, Put, ThenOnDisk

\* An index of a longer sequence is the new one or an old one.
LEMMA LastOrBefore ==
  ASSUME NEW S, NEW s \in Seq(S), NEW x \in S, NEW i \in 1..Len(Append(s, x))
  PROVE  \/ i = Len(s) + 1 /\ Append(s, x)[i] = x
         \/ i \in 1..Len(s) /\ Append(s, x)[i] = s[i]
<1>1. Len(s) \in Nat /\ Len(Append(s, x)) = Len(s) + 1
  BY LenProperties, AppendProperties
<1>2. i = Len(s) + 1 \/ i \in 1..Len(s)
  BY <1>1
<1> QED BY <1>2, AppendProperties

\* A written record joins the results as the last of their numbers.
LEMMA JoinKept ==
  ASSUME NEW p \in Procs, TypeInv, TypeInv', CountAt(p), KeptAt(p), WritesAbove(p),
         WriteMeta(p), Results(p)' = Append(Results(p), pend[p]),
         Floor(p)' = pend[p].num, Floor(p) <= Floor(p)',
         pc'[p] \notin {"idle", "content", "meta"}
  PROVE  KeptAt(p)'
<1>1. pend[p] \in StepRecords /\ pc[p] = "meta" /\ manifest' = manifest
  BY DEF WriteMeta, PendPlaced
<1>2. Floor(p) \in Int /\ Floor(p)' \in Int
  BY FloorIsNat, FloorIsNatAfter
<1>3. Results(p) \in Seq(StepRecords) /\ Len(Results(p)) \in Nat
  BY ResultsAreSteps
<1>4. AllOnDisk(Results(p))'
  <2>1. \A i \in 1..Len(Results(p)) : ThenOnDisk(Results(p)[i])
    <3>1. \A i \in 1..Len(Results(p)) : OnDisk(Results(p)[i]) /\ Results(p)[i].num <= Floor(p)
      BY <1>1 DEF KeptAt, AllOnDisk, Under
    <3> QED BY <3>1 DEF WritesAbove, OnDisk, ThenOnDisk, File
  <2>2. ThenOnDisk(pend[p])
    BY WrittenOnDisk
  <2>3. ASSUME NEW i \in 1..Len(Append(Results(p), pend[p]))
        PROVE  ThenOnDisk(Append(Results(p), pend[p])[i])
    <3>1. \/ i = Len(Results(p)) + 1 /\ Append(Results(p), pend[p])[i] = pend[p]
          \/ i \in 1..Len(Results(p)) /\ Append(Results(p), pend[p])[i] = Results(p)[i]
      BY <1>1, <1>3, LastOrBefore
    <3> QED BY <2>1, <2>2, <3>1
  <2> QED BY <2>3 DEF AllOnDisk, OnDisk, ThenOnDisk
<1>5. Under(Results(p), Floor(p))'
  <2>1. Under(Results(p), Floor(p)')
    <3>1. Under(Results(p), Floor(p))
      BY <1>1 DEF KeptAt
    <3> QED BY <1>2, <1>3, <3>1, UnderMore
  <2>2. Under(Append(Results(p), pend[p]), Floor(p)')
    BY Zenon, <1>1, <1>2, <1>3, <2>1, UnderItsLast
  <2> QED BY <2>2
<1>6. Under(manifest.steps, Floor(p))'
  <2>1. manifest.steps \in Seq(StepRecords)
    OBVIOUS
  <2>2. Under(manifest.steps, Floor(p)')
    BY <1>1, <1>2, <2>1, UnderMore DEF KeptAt
  <2> QED BY <1>1, <2>2
<1> QED BY <1>4, <1>5, <1>6 DEF KeptAt, AnswerAhead

LEMMA WriteMetaKept ==
  ASSUME NEW p \in Procs, TypeInv, TypeInv', CountAt(p), CountAt(p)', KeptAt(p),
         WritesAbove(p), WriteMeta(p)
  PROVE  KeptAt(p)'
<1>1. pend[p] \in StepRecords /\ pc[p] = "meta"
  BY DEF WriteMeta, PendPlaced
<1>2. /\ base[p] \in Seq(StepRecords) /\ done[p] \in Seq(StepRecords)
      /\ num[p] \in Nat /\ Len(base[p]) \in Nat
  BY ResultsAreSteps
<1>3. CASE pend[p].kind # "human" /\ FollowEdge(p)
  <2>1. pc'[p] = "loop" /\ num'[p] = num[p]
    BY <1>3 DEF WriteMeta, FollowEdge
  <2>2. Results(p)' = Append(Results(p), pend[p])
    BY <1>3, FollowEdgeResults
  <2>3. Floor(p)' = num[p] /\ Floor(p) = num[p] - 1 /\ pend[p].num = num[p]
    BY <1>1, <1>3, <2>1 DEF Floor
  <2> HIDE DEF TypeInv, CountAt
  <2> QED BY <1>2, <2>1, <2>2, <2>3, JoinKept
<1>4. CASE pend[p].kind = "human" /\ skip[p] /\ JoinPrior(p)
  <2>1. /\ pc'[p] = "spawned" /\ done[p] = <<>>
        /\ base'[p] = Append(base[p], pend[p]) /\ done'[p] = done[p]
    BY <1>1, <1>4 DEF WriteMeta, JoinPrior
  <2>2. Results(p)' = Append(Results(p), pend[p])
    BY <1>4, <2>1, JoinPriorResults
  <2>3. Len(base'[p]) = Len(base[p]) + 1
    BY <1>1, <1>2, <2>1, AppendProperties
  <2>4. Floor(p)' = Len(base[p]) + 1 /\ Floor(p) = Len(base[p])
    BY <1>1, <1>4, <2>1, <2>3 DEF Floor
  <2>5. pend[p].num = Len(base[p]) + 1
    BY <1>1, <1>4
  <2> HIDE DEF TypeInv, CountAt
  <2> QED BY <1>2, <2>1, <2>2, <2>4, <2>5, JoinKept
<1>5. CASE pend[p].kind = "human" /\ ~skip[p] /\ LeaveInline(p)
  <2>1. /\ pc'[p] = "loop" /\ num'[p] = num[p] + 1 /\ ResultsKept(p)
        /\ manifest' = manifest
    BY <1>5 DEF WriteMeta, LeaveInline, ResultsKept
  <2>2. Floor(p) = num[p]
    BY <1>1, <1>5 DEF Floor
  <2>3. Floor(p)' = num[p] + 1
    BY <2>1 DEF Floor
  <2>4. Floor(p) <= Floor(p)'
    BY <1>2, <2>2, <2>3
  <2> HIDE DEF TypeInv, CountAt
  <2>5. /\ AllOnDisk(Results(p))'
        /\ Under(Results(p), Floor(p))' /\ Under(manifest.steps, Floor(p))'
    BY <1>1, <2>1, <2>4, OnwardKept
  <2> QED BY <2>1, <2>5 DEF KeptAt, AnswerAhead
<1> QED BY <1>3, <1>4, <1>5 DEF WriteMeta

LEMMA StepKept ==
  ASSUME NEW p \in Procs, TypeInv, TypeInv', CountAt(p), CountAt(p)', KeptAt(p),
         ManifestCounted, DoneInv, AllOnDisk(manifest.steps), Step(p)
  PROVE  KeptAt(p)'
<1>1. WritesAbove(p)
  BY StepAbove DEF KeptAt
<1>2. Start(p) => manifest = NoManifest
  BY DEF Start, DoneInv
<1> HIDE DEF CountAt, TypeInv
<1> QED
  BY <1>1, <1>2, VanishKept, StartKept, ResumeKept, MoveKept, TruncateKept, PersistKept,
     WriteMetaKept
  DEF Step, Work, Prompted, Cancel, Crash, Fail, GiveUp, AgentFails, ShellFails,
      PromptFails, FlushManifest

LEMMA StepKeepsListed ==
  ASSUME NEW p \in Procs, TypeInv, CountAt(p), KeptAt(p), AllOnDisk(manifest.steps), Step(p)
  PROVE  AllOnDisk(manifest.steps)'
<1>1. WritesAbove(p)
  BY StepAbove DEF KeptAt
<1>2. CASE UNCHANGED <<manifest, content, meta>>
  BY <1>2 DEF AllOnDisk, OnDisk
<1>3. CASE pc[p] # "idle" /\ manifest' = manifest
  <2>1. AllOnDisk(manifest.steps) /\ Under(manifest.steps, Floor(p))
    BY <1>3 DEF KeptAt
  <2> QED BY <1>1, <1>3, <2>1 DEF WritesAbove, AllOnDisk, Under, OnDisk, File
<1>4. CASE TruncateManifest(p)
  BY <1>4, EmptySeq DEF TruncateManifest, Torn, AllOnDisk
<1>5. CASE FlushManifest(p)
  <2>1. manifest'.steps = Results(p) /\ UNCHANGED <<content, meta>>
    BY <1>5 DEF FlushManifest, Results
  <2> QED BY <2>1 DEF KeptAt, AllOnDisk, OnDisk
<1>6. CASE Start(p) \/ Resume(p)
  BY <1>2, <1>6 DEF Start, Resume
<1>7. CASE Cancel(p) \/ GiveUp(p) \/ AgentFails(p) \/ ShellFails(p) \/ PromptFails(p)
  BY <1>2, <1>7 DEF Cancel, GiveUp, AgentFails, ShellFails, PromptFails, Fail
<1>8. CASE Drive(p) \/ Conclude(p) \/ PassThrough(p) \/ OpenPrompt(p) \/ Visit(p) \/ Crash(p)
  BY <1>3, <1>8 DEF Drive, Conclude, PassThrough, OpenPrompt, Visit, Crash, AtHead
<1>9. CASE Decide(p) \/ AskAgain(p) \/ ShellExits(p) \/ PromptBody(p) \/ PromptEmpty(p)
             \/ WriteContent(p) \/ WriteMeta(p)
  BY <1>3, <1>9 DEF Decide, AskAgain, ShellExits, PromptBody, PromptEmpty, Persist,
                   WriteContent, WriteMeta
<1> QED BY <1>4, <1>5, <1>6, <1>7, <1>8, <1>9 DEF Step, Work, Prompted

LEMMA InitKept == Init => KeptInv
<1> SUFFICES ASSUME Init PROVE KeptInv
  OBVIOUS
<1>1. ASSUME NEW p \in Procs PROVE KeptAt(p)
  <2>1. pc[p] = "idle" /\ base[p] = <<>> /\ done[p] = <<>>
    BY DEF Init
  <2>2. Results(p) = <<>>
    BY <2>1, EmptySeq, ConcatEmptySeq DEF Results
  <2> QED BY <2>1, <2>2, EmptyKept DEF KeptAt, AnswerAhead
<1>2. AllOnDisk(manifest.steps)
  BY EmptyKept DEF Init, NoManifest
<1> QED BY <1>1, <1>2 DEF KeptInv

KeptIInv == TypeInv /\ CountInv /\ DoneInv /\ KeptInv

\* Every step a manifest lists is on disk as listed, with the content its own
\* launch wrote, when one process at a time works on the directory: no later
\* launch, crashed, failed or resumed again, overwrites a listed step.
THEOREM ListedIsOnDisk ==
  ASSUME OneProcess
  PROVE  Spec => []ManifestBacked
<1>1. Init => KeptIInv
  <2>1. Init => DoneInv
    BY DEF Init, DoneInv, NoManifest
  <2> QED BY <2>1, InitTypes, InitCount, InitKept DEF KeptIInv
<1>2. KeptIInv /\ [Next \/ AtRest]_vars => KeptIInv'
  <2> SUFFICES ASSUME KeptIInv, [Next \/ AtRest]_vars PROVE KeptIInv'
    OBVIOUS
  <2> HIDE DEF TypeInv, CountAt
  <2>1. TypeInv' /\ CountInv'
    BY NextTypes, NextCount DEF KeptIInv
  <2>2. CASE UNCHANGED vars \/ AtRest
    <3>1. UNCHANGED vars
      BY <2>2 DEF AtRest
    <3>2. DoneInv'
      BY <3>1 DEF vars, DoneInv, KeptIInv
    <3>3. ASSUME NEW q \in Procs PROVE KeptAt(q)'
      BY <3>1 DEF vars, KeptIInv, KeptInv, KeptAt, AllOnDisk, OnDisk, Under, AnswerAhead,
             Floor, Results
    <3>4. AllOnDisk(manifest.steps)'
      BY <3>1 DEF vars, KeptIInv, KeptInv, AllOnDisk, OnDisk
    <3> QED BY <2>1, <3>2, <3>3, <3>4 DEF KeptIInv, KeptInv
  <2>3. ASSUME NEW p \in Procs, Step(p) PROVE KeptIInv'
    <3>1. CountAt(p) /\ CountAt(p)' /\ KeptAt(p) /\ ManifestCounted /\ DoneInv
            /\ AllOnDisk(manifest.steps) /\ TypeInv
      BY <2>1 DEF KeptIInv, CountInv, KeptInv
    <3>2. DoneInv'
      BY <2>3, <3>1, StepDone
    <3>3. KeptAt(p)'
      BY <2>1, <2>3, <3>1, StepKept
    <3>4. AllOnDisk(manifest.steps)'
      BY <2>3, <3>1, StepKeepsListed
    <3>5. \A q \in Procs : q = p
      BY DEF OneProcess
    <3> QED BY <2>1, <3>2, <3>3, <3>4, <3>5 DEF KeptIInv, KeptInv
  <2> QED BY <2>2, <2>3 DEF Next, Step
<1>3. KeptIInv => ManifestBacked
  BY DEF KeptIInv, KeptInv, AllOnDisk, OnDisk, ManifestBacked
<1> QED BY <1>1, <1>2, <1>3, PTL DEF Spec

-----------------------------------------------------------------------------
(* What is on disk of a launch is listed by its manifest, whoever else works *)
(* on the directory.                                                         *)

Alive(p) == pc[p] # "idle"

\* No process drives this launch, and none will.
Gone(l) == l <= launches /\ \A q \in Procs : Alive(q) => life[q] # l

ListsAll(l, s) ==
  \A m \in meta : m.by = l /\ (m.kind = "human" => l > 1) =>
    \E i \in 1..Len(s) : s[i] = m

LastBy(s) == s[Len(s)].by

EndsWell(s) == s # <<>> => Gone(LastBy(s)) /\ ListsAll(LastBy(s), s)

\* A launch is one process, and only the first may prompt inline.
LifeAt(p) ==
  /\ Alive(p) => life[p] \in 1..launches
  /\ Alive(p) /\ policy[p] = "inline" => life[p] = 1
  /\ pc[p] \in {"content", "meta"} => pend[p].by = life[p]

ListAt(p) ==
  Alive(p) =>
    /\ ListsAll(life[p], Results(p))
    /\ Results(p) # <<>> /\ LastBy(Results(p)) # life[p] => EndsWell(Results(p))

OneLifeEach == \A p, q \in Procs : p # q /\ Alive(p) /\ Alive(q) => life[p] # life[q]

MetaOfLaunches == \A m \in meta : m.by <= launches

LifeInv == MetaOfLaunches /\ OneLifeEach /\ \A p \in Procs : LifeAt(p)

ListInv == EndsWell(manifest.steps) /\ \A p \in Procs : ListAt(p)

\* What a step writes, it writes in the name of its own launch.
MetaOfOwn(p) == \A m \in meta' : m \in meta \/ (Alive(p) /\ m.by = life[p])

\* A process that starts is a launch of its own.
LifeStep(p) ==
  \/ launches' = launches /\ (pc'[p] # "idle" => Alive(p) /\ life'[p] = life[p])
  \/ launches' = launches + 1 /\ life'[p] = launches + 1

OthersStay(p) ==
  \A q \in Procs \ {p} :
    /\ pc'[q] = pc[q] /\ life'[q] = life[q] /\ policy'[q] = policy[q]
    /\ pend'[q] = pend[q] /\ base'[q] = base[q] /\ done'[q] = done[q]

LEMMA PutNew ==
  ASSUME NEW files, NEW r, NEW x \in Put(files, r)
  PROVE  x \in files \/ x = r
  BY DEF Put

LEMMA StepOwn ==
  ASSUME NEW p \in Procs, TypeInv, LifeAt(p), Step(p)
  PROVE  MetaOfOwn(p)
<1>1. CASE WriteMeta(p)
  BY <1>1, PutNew DEF WriteMeta, MetaOfOwn, LifeAt, Alive
<1>2. CASE Crash(p)
  <2>1. CASE meta' = meta
    BY <2>1 DEF MetaOfOwn
  <2>2. CASE pc[p] = "meta" /\ meta' = Put(meta, [pend[p] EXCEPT !.kind = "torn"])
    <3>1. pend[p] \in StepRecords /\ pend[p].by = life[p] /\ Alive(p)
      BY <2>2 DEF PendPlaced, LifeAt, Alive
    <3>2. [pend[p] EXCEPT !.kind = "torn"].by = life[p]
      BY <3>1 DEF StepRecords
    <3> QED BY <2>2, <3>1, <3>2, PutNew DEF MetaOfOwn
  <2> QED BY <1>2, <2>1, <2>2 DEF Crash
<1>3. CASE meta' = meta
  BY <1>3 DEF MetaOfOwn
<1> QED
  BY <1>1, <1>2, <1>3
  DEF Step, Work, Prompted, Cancel, Fail, GiveUp, AgentFails, ShellFails,
      PromptFails, Start, Resume, Drive, Conclude, PassThrough, OpenPrompt, Visit,
      Decide, AskAgain, ShellExits, Persist, PromptBody, PromptEmpty, WriteContent,
      TruncateManifest, FlushManifest

LEMMA StepLife ==
  ASSUME NEW p \in Procs, TypeInv, Step(p)
  PROVE  LifeStep(p)
<1>1. CASE Start(p) \/ Resume(p)
  BY <1>1 DEF Start, Resume, LifeStep
<1>2. CASE Vanish(p)
  BY <1>2 DEF Vanish, LifeStep
<1>3. CASE Drive(p) \/ Conclude(p) \/ PassThrough(p) \/ OpenPrompt(p) \/ Visit(p)
  BY <1>3 DEF Drive, Conclude, PassThrough, OpenPrompt, Visit, AtHead, LifeStep, Alive
<1>4. CASE Decide(p) \/ ShellExits(p) \/ PromptBody(p) \/ PromptEmpty(p) \/ AskAgain(p)
  BY <1>4 DEF Decide, ShellExits, PromptBody, PromptEmpty, AskAgain, Persist, LifeStep, Alive
<1>5. CASE WriteContent(p) \/ WriteMeta(p) \/ TruncateManifest(p)
  BY <1>5 DEF WriteContent, WriteMeta, TruncateManifest, LifeStep, Alive
<1> QED
  BY <1>1, <1>2, <1>3, <1>4, <1>5
  DEF Step, Work, Prompted, Cancel, Crash, Fail, GiveUp, AgentFails, ShellFails,
      PromptFails, FlushManifest

LEMMA StepStay ==
  ASSUME NEW p \in Procs, TypeInv, Step(p)
  PROVE  OthersStay(p)
<1> HIDE DEF TypeInv
<1> QED BY StepFrames, StepOthers DEF OthersStay, Framed

\* The launch numbers.
LEMMA StepLaunches ==
  ASSUME NEW p \in Procs, TypeInv, LifeInv, Step(p)
  PROVE  MetaOfLaunches' /\ OneLifeEach'
<1>1. MetaOfOwn(p) /\ LifeStep(p) /\ OthersStay(p)
  BY StepOwn, StepLife, StepStay DEF LifeInv
<1>2. launches \in Nat /\ launches' \in {launches, launches + 1}
  BY <1>1 DEF LifeStep
<1>3. \A q \in Procs : Alive(q) => life[q] \in 1..launches
  BY DEF LifeInv, LifeAt
<1>4. MetaOfLaunches'
  <2> SUFFICES ASSUME NEW m \in meta' PROVE m.by <= launches'
    BY DEF MetaOfLaunches
  <2>1. CASE m \in meta
    <3>1. m.by \in Nat /\ m.by <= launches
      BY <2>1 DEF LifeInv, MetaOfLaunches, StepRecords
    <3> QED BY <1>2, <3>1
  <2>2. CASE Alive(p) /\ m.by = life[p]
    BY <1>2, <1>3, <2>2
  <2> QED BY <1>1, <2>1, <2>2 DEF MetaOfOwn
<1>5. OneLifeEach'
  <2>1. ASSUME NEW q \in Procs, q # p, pc'[p] # "idle", pc'[q] # "idle"
        PROVE  life'[p] # life'[q]
    <3>1. Alive(q) /\ life'[q] = life[q] /\ life[q] \in 1..launches
      BY <1>1, <1>3, <2>1 DEF OthersStay, Alive
    <3>2. CASE Alive(p) /\ life'[p] = life[p]
      BY <2>1, <3>1, <3>2 DEF LifeInv, OneLifeEach
    <3>3. CASE life'[p] = launches + 1
      BY <1>2, <3>1, <3>3
    <3> QED BY <1>1, <2>1, <3>2, <3>3 DEF LifeStep
  <2>2. ASSUME NEW q \in Procs, NEW r \in Procs, q # r, pc'[q] # "idle", pc'[r] # "idle"
        PROVE  life'[q] # life'[r]
    <3>1. CASE q = p \/ r = p
      BY <2>1, <2>2, <3>1
    <3>2. CASE q # p /\ r # p
      <4>1. /\ pc'[q] = pc[q] /\ life'[q] = life[q]
            /\ pc'[r] = pc[r] /\ life'[r] = life[r]
        BY <1>1, <3>2 DEF OthersStay
      <4>2. OneLifeEach
        BY DEF LifeInv
      <4> QED BY <2>2, <4>1, <4>2 DEF OneLifeEach, Alive
    <3> QED BY <3>1, <3>2
  <2> QED BY <2>2 DEF OneLifeEach, Alive
<1> QED BY <1>4, <1>5

LEMMA StepLifeAt ==
  ASSUME NEW p \in Procs, TypeInv, LifeInv, CountAt(p), Step(p), NEW q \in Procs
  PROVE  LifeAt(q)'
<1>1. LifeStep(p) /\ OthersStay(p) /\ LifeAt(p) /\ LifeAt(q)
  BY StepLife, StepStay DEF LifeInv
<1>2. launches \in Nat /\ launches' \in {launches, launches + 1}
  BY <1>1 DEF LifeStep
<1>3. CASE q # p
  <2>1. \A k \in 1..launches : k \in 1..launches'
    BY SMTT(30), <1>2
  <2> QED BY <1>1, <1>3, <2>1 DEF LifeAt, OthersStay, Alive
<1>4. CASE q = p
  <2>1. pc'[p] # "idle" => life'[p] \in 1..launches'
    <3>1. CASE launches' = launches /\ (pc'[p] # "idle" => Alive(p) /\ life'[p] = life[p])
      BY <1>1, <3>1 DEF LifeAt
    <3>2. CASE launches' = launches + 1 /\ life'[p] = launches + 1
      <4>1. launches + 1 \in 1..(launches + 1)
        BY <1>2
      <4> QED BY <3>2, <4>1
    <3> QED BY <1>1, <3>1, <3>2 DEF LifeStep
  <2>2. CASE Start(p)
    BY <1>4, <2>1, <2>2 DEF Start, LifeAt, Alive
  <2>3. CASE Resume(p)
    BY <1>4, <2>1, <2>3 DEF Resume, LifeAt, Alive, HumanRecord
  <2>4. CASE Vanish(p)
    BY <1>4, <2>4 DEF Vanish, LifeAt, Alive
  <2>5. CASE Drive(p) \/ Conclude(p) \/ PassThrough(p) \/ OpenPrompt(p) \/ Visit(p)
              \/ PromptEmpty(p) \/ AskAgain(p) \/ TruncateManifest(p)
    <3>1. /\ pc[p] # "idle" /\ policy'[p] = policy[p] /\ life'[p] = life[p]
          /\ pc'[p] \notin {"content", "meta"}
      BY <2>5 DEF Drive, Conclude, PassThrough, OpenPrompt, Visit, PromptEmpty, AskAgain,
                TruncateManifest, AtHead
    <3> QED BY <1>1, <1>4, <2>1, <3>1 DEF LifeAt, Alive
  <2>6. CASE Decide(p) \/ ShellExits(p) \/ PromptBody(p)
    <3>1. /\ pc[p] # "idle" /\ policy'[p] = policy[p] /\ life'[p] = life[p]
          /\ pend'[p].by = life[p]
      BY SMTT(30), <2>6 DEF Decide, ShellExits, PromptBody, Persist, Record, HumanRecord
    <3> QED BY <1>1, <1>4, <2>1, <3>1 DEF LifeAt, Alive
  <2>7. CASE WriteContent(p)
    BY <1>1, <1>4, <2>1, <2>7 DEF WriteContent, LifeAt, Alive
  <2>8. CASE WriteMeta(p)
    <3>1. /\ pc[p] = "meta" /\ policy'[p] = policy[p] /\ life'[p] = life[p]
          /\ pc'[p] \in {"loop", "spawned"}
      BY <2>8 DEF WriteMeta, FollowEdge, JoinPrior, LeaveInline
    <3> QED BY <1>1, <1>4, <2>1, <3>1 DEF LifeAt, Alive
  <2> QED
    BY <2>2, <2>3, <2>4, <2>5, <2>6, <2>7, <2>8
    DEF Step, Work, Prompted, Cancel, Crash, Fail, GiveUp, AgentFails, ShellFails,
        PromptFails, FlushManifest
<1> QED BY <1>3, <1>4

-----------------------------------------------------------------------------

\* Once gone, a launch stays gone, and nothing more is written of it.
LEMMA GoneStays ==
  ASSUME NEW p \in Procs, TypeInv, LifeInv, Step(p), NEW l, Gone(l), l \in Nat
  PROVE  /\ l <= launches' /\ \A q \in Procs : pc'[q] # "idle" => life'[q] # l
         /\ \A m \in meta' : m.by = l => m \in meta
<1>1. MetaOfOwn(p) /\ LifeStep(p) /\ OthersStay(p)
  BY StepOwn, StepLife, StepStay DEF LifeInv
<1>2. launches \in Nat /\ launches' \in {launches, launches + 1}
  BY <1>1 DEF LifeStep
<1>3. ASSUME NEW q \in Procs, pc'[q] # "idle" PROVE life'[q] # l
  <2>1. CASE q # p
    BY <1>1, <1>3, <2>1 DEF OthersStay, Gone, Alive
  <2>2. CASE q = p
    BY <1>1, <1>2, <1>3, <2>2 DEF LifeStep, Gone, Alive
  <2> QED BY <2>1, <2>2
<1>4. \A m \in meta' : m.by = l => m \in meta
  BY <1>1 DEF MetaOfOwn, Gone
<1> QED BY <1>2, <1>3, <1>4 DEF Gone

LEMMA EndsWellStays ==
  ASSUME NEW p \in Procs, TypeInv, LifeInv, Step(p),
         NEW s \in Seq(StepRecords), EndsWell(s)
  PROVE  EndsWell(s)'
<1> SUFFICES ASSUME s # <<>> PROVE (Gone(LastBy(s)) /\ ListsAll(LastBy(s), s))'
  BY DEF EndsWell
<1>1. Gone(LastBy(s)) /\ ListsAll(LastBy(s), s)
  BY DEF EndsWell
<1>2. LastBy(s) \in Nat
  <2>1. Len(s) \in 1..Len(s)
    BY EmptySeq, LenProperties
  <2>2. s[Len(s)] \in StepRecords
    BY <2>1, ElementOfSeq
  <2> QED BY SMTT(30), <2>2 DEF LastBy, StepRecords
<1> HIDE DEF TypeInv
<1>3. /\ LastBy(s) <= launches' /\ \A q \in Procs : pc'[q] # "idle" => life'[q] # LastBy(s)
      /\ \A m \in meta' : m.by = LastBy(s) => m \in meta
  BY <1>1, <1>2, GoneStays
<1>4. Gone(LastBy(s))'
  BY <1>3 DEF Gone, Alive, LastBy
<1>5. ListsAll(LastBy(s), s)'
  BY <1>1, <1>3 DEF ListsAll, LastBy
<1> QED BY <1>4, <1>5

\* Another process, whose launch this step does not write for.
LEMMA OthersList ==
  ASSUME NEW p \in Procs, TypeInv, LifeInv, Step(p), NEW q \in Procs \ {p}, ListAt(q)
  PROVE  ListAt(q)'
<1>1. MetaOfOwn(p) /\ LifeStep(p) /\ OthersStay(p)
  BY StepOwn, StepLife, StepStay DEF LifeInv
<1>2. /\ pc'[q] = pc[q] /\ life'[q] = life[q] /\ Results(q)' = Results(q)
      /\ Results(q) \in Seq(StepRecords)
  BY <1>1, ResultsAreSteps DEF OthersStay, Results
<1> HIDE DEF TypeInv
<1> SUFFICES ASSUME Alive(q) PROVE ListAt(q)'
  BY <1>2 DEF ListAt, Alive
<1>3. \A m \in meta' : m.by = life[q] => m \in meta
  BY <1>1 DEF MetaOfOwn, LifeInv, OneLifeEach
<1>4. ListsAll(life[q], Results(q))'
  BY <1>2, <1>3 DEF ListAt, ListsAll
<1>5. Results(q) # <<>> /\ LastBy(Results(q)) # life[q] => EndsWell(Results(q))'
  <2> SUFFICES ASSUME EndsWell(Results(q)) PROVE EndsWell(Results(q))'
    BY DEF ListAt
  <2> DEFINE s == Results(q)
  <2>1. s \in Seq(StepRecords) /\ EndsWell(s) /\ s' = s
    BY <1>2
  <2> HIDE DEF s
  <2>2. \A t \in Seq(StepRecords) : EndsWell(t) => EndsWell(t)'
    BY EndsWellStays
  <2> QED BY <2>1, <2>2 DEF s, EndsWell, LastBy, ListsAll
<1> QED BY <1>2, <1>4, <1>5 DEF ListAt, LastBy

LEMMA EndsWellThen ==
  ASSUME NEW p \in Procs, TypeInv, LifeInv, Step(p), NEW q \in Procs,
         Results(q)' \in Seq(StepRecords), EndsWell(Results(q)')
  PROVE  EndsWell(Results(q))'
<1> HIDE DEF TypeInv
<1>1. \A t \in Seq(StepRecords) : EndsWell(t) => EndsWell(t)'
  BY EndsWellStays
<1> QED BY <1>1 DEF EndsWell, LastBy, ListsAll

\* A new process lists what its manifest lists, and has written nothing.
LEMMA BeginList ==
  ASSUME NEW p \in Procs, TypeInv, LifeInv, CountAt(p), EndsWell(manifest.steps),
         Start(p) \/ Resume(p)
  PROVE  ListAt(p)'
<1>1. \A m \in meta : m.by \in 1..launches
  BY DEF LifeInv, MetaOfLaunches, StepRecords
<1>2. life'[p] = launches + 1 /\ meta' = meta /\ launches \in Nat
  BY DEF Start, Resume
<1>3. ListsAll(life[p], Results(p))'
  BY <1>1, <1>2 DEF ListsAll
<1>4. CASE Start(p)
  <2>1. base'[p] = <<>> /\ done'[p] = <<>>
    BY <1>4 DEF Start
  <2>2. Results(p)' = <<>>
    BY <2>1, EmptySeq, ConcatEmptySeq DEF Results
  <2> QED BY <1>3, <2>2 DEF ListAt
<1>5. CASE Resume(p)
  <2>1. base'[p] = manifest.steps /\ done'[p] = <<>> /\ manifest.steps \in Seq(StepRecords)
    BY <1>5 DEF Resume
  <2>2. Results(p)' = manifest.steps
    BY <2>1, ConcatEmptySeq DEF Results
  <2>3. Step(p)
    BY <1>5 DEF Step
  <2> HIDE DEF TypeInv, CountAt
  <2>4. EndsWell(Results(p))'
    BY <2>1, <2>2, <2>3, EndsWellThen
  <2> QED BY <1>3, <2>4 DEF ListAt
<1> QED BY <1>4, <1>5

LEMMA StillList ==
  ASSUME NEW p \in Procs, TypeInv, LifeInv, ListAt(p), Step(p), Alive(p),
         ResultsKept(p), life'[p] = life[p],
         \A m \in meta' : m \in meta \/ (m.kind = "human" /\ life[p] = 1)
  PROVE  ListAt(p)'
<1>1. Results(p)' = Results(p) /\ Results(p) \in Seq(StepRecords)
  BY ResultsAreSteps DEF Results, ResultsKept
<1> HIDE DEF TypeInv
<1>2. ListsAll(life[p], Results(p))'
  BY <1>1 DEF ListAt, ListsAll
<1>3. Results(p) # <<>> /\ LastBy(Results(p)) # life[p] => EndsWell(Results(p))'
  BY <1>1, EndsWellThen DEF ListAt
<1> QED BY <1>1, <1>2, <1>3 DEF ListAt, LastBy

LEMMA JoinList ==
  ASSUME NEW p \in Procs, TypeInv, LifeInv, ListAt(p), WriteMeta(p),
         Results(p)' = Append(Results(p), pend[p])
  PROVE  ListAt(p)'
<1>1. /\ pend[p] \in StepRecords /\ pend[p].by = life[p] /\ Alive(p)
      /\ life'[p] = life[p] /\ meta' = Put(meta, pend[p])
  BY DEF WriteMeta, PendPlaced, LifeInv, LifeAt, Alive
<1>2. Results(p) \in Seq(StepRecords) /\ Len(Results(p)) \in Nat
  BY ResultsAreSteps
<1> HIDE DEF TypeInv
<1> DEFINE s == Results(p)
           t == Append(s, pend[p])
<1>3. /\ Len(t) = Len(s) + 1 /\ t[Len(s) + 1] = pend[p]
      /\ \A i \in 1..Len(s) : t[i] = s[i]
  BY <1>1, <1>2, AppendProperties
<1>4. ASSUME NEW m \in meta', m.by = life[p], m.kind = "human" => life[p] > 1
      PROVE  \E i \in 1..Len(t) : t[i] = m
  <2>1. CASE m = pend[p]
    <3>1. Len(s) + 1 \in 1..Len(t)
      BY <1>2, <1>3
    <3> QED BY <1>3, <2>1, <3>1
  <2>2. CASE m \in meta
    <3>1. PICK i \in 1..Len(s) : s[i] = m
      BY <1>1, <1>4, <2>2 DEF ListAt, ListsAll
    <3>2. i \in 1..Len(t)
      BY <1>2, <1>3
    <3> QED BY <1>3, <3>1, <3>2
  <2> QED BY <1>1, <2>1, <2>2, PutNew
<1>5. LastBy(t) = life[p]
  BY <1>1, <1>3 DEF LastBy
<1> HIDE DEF t
<1>6. ListsAll(life[p], Results(p))' /\ LastBy(Results(p)') = life[p]
  BY <1>1, <1>4, <1>5 DEF ListsAll, t
<1> QED BY <1>1, <1>6 DEF ListAt, LastBy

LEMMA StepList ==
  ASSUME NEW p \in Procs, TypeInv, LifeInv, CountAt(p), ListAt(p),
         EndsWell(manifest.steps), Step(p)
  PROVE  ListAt(p)'
<1>1. CASE Vanish(p)
  BY <1>1 DEF Vanish, ListAt, Alive
<1>2. CASE Start(p) \/ Resume(p)
  BY <1>2, BeginList
<1>3. CASE WriteMeta(p)
  <2>1. CASE FollowEdge(p)
    BY <1>3, <2>1, FollowEdgeResults, JoinList
  <2>2. CASE pend[p].kind = "human" /\ skip[p] /\ JoinPrior(p)
    <3>1. done[p] = <<>>
      BY <1>3, <2>2 DEF WriteMeta
    <3> HIDE DEF CountAt, TypeInv
    <3> QED BY <1>3, <2>2, <3>1, JoinPriorResults, JoinList
  <2>3. CASE pend[p].kind = "human" /\ ~skip[p] /\ LeaveInline(p)
    <3>1. pc[p] = "meta" /\ ResultsKept(p) /\ life'[p] = life[p] /\ meta' = Put(meta, pend[p])
      BY <1>3, <2>3 DEF WriteMeta, LeaveInline, ResultsKept
    <3>2. policy[p] = "inline"
      BY <2>3, <3>1
    <3>3. life[p] = 1 /\ Alive(p)
      BY <3>1, <3>2 DEF LifeInv, LifeAt, Alive
    <3>4. \A m \in meta' : m \in meta \/ (m.kind = "human" /\ life[p] = 1)
      BY <2>3, <3>1, <3>3, PutNew
    <3> HIDE DEF CountAt, TypeInv
    <3> QED BY <3>1, <3>3, <3>4, StillList
  <2> QED BY <1>3, <2>1, <2>2, <2>3 DEF WriteMeta
<1>4. CASE ResultsKept(p) /\ life'[p] = life[p] /\ meta' = meta /\ pc[p] # "idle"
  BY <1>4, StillList DEF Alive
<1>5. CASE Drive(p) \/ Conclude(p) \/ PassThrough(p) \/ OpenPrompt(p) \/ Visit(p)
  BY <1>4, <1>5 DEF Drive, Conclude, PassThrough, OpenPrompt, Visit, AtHead, ResultsKept
<1>6. CASE Decide(p) \/ ShellExits(p) \/ PromptBody(p) \/ PromptEmpty(p) \/ AskAgain(p)
             \/ WriteContent(p) \/ TruncateManifest(p)
  BY <1>4, <1>6 DEF Decide, ShellExits, PromptBody, PromptEmpty, AskAgain, Persist,
                   WriteContent, TruncateManifest, ResultsKept
<1> QED
  BY <1>1, <1>2, <1>3, <1>5, <1>6
  DEF Step, Work, Prompted, Cancel, Crash, Fail, GiveUp, AgentFails, ShellFails,
      PromptFails, FlushManifest

LEMMA FlushEndsWell ==
  ASSUME NEW p \in Procs, TypeInv, LifeInv, ListAt(p), FlushManifest(p)
  PROVE  EndsWell(manifest.steps)'
<1>1. /\ manifest'.steps = Results(p) /\ pc[p] = "flush" /\ pc'[p] = "idle"
      /\ UNCHANGED <<content, meta, launches>>
  BY DEF FlushManifest, Vanish, Results
<1>2. OthersStay(p) /\ Step(p)
  BY StepStay DEF Step, Work
<1>3. Results(p) \in Seq(StepRecords)
  BY ResultsAreSteps
<1>4. CASE Results(p) # <<>> /\ LastBy(Results(p)) = life[p]
  <2>1. life[p] <= launches
    BY <1>1 DEF LifeInv, LifeAt, Alive
  <2>2. ASSUME NEW q \in Procs, pc'[q] # "idle" PROVE life'[q] # life[p]
    <3>1. q # p /\ pc[p] # "idle"
      BY <1>1, <2>2
    <3>2. Alive(q) /\ life'[q] = life[q] /\ Alive(p)
      BY <1>2, <2>2, <3>1 DEF OthersStay, Alive
    <3> QED BY <3>1, <3>2 DEF LifeInv, OneLifeEach
  <2>3. ListsAll(life[p], Results(p))
    BY <1>1 DEF ListAt, Alive
  <2> QED BY <1>1, <1>4, <2>1, <2>2, <2>3 DEF EndsWell, Gone, ListsAll, LastBy, Alive
<1>5. CASE EndsWell(Results(p))
  <2> DEFINE s == Results(p)
  <2> HIDE DEF s, TypeInv
  <2>1. \A t \in Seq(StepRecords) : EndsWell(t) => EndsWell(t)'
    BY <1>2, EndsWellStays
  <2> QED BY <1>1, <1>3, <1>5, <2>1 DEF EndsWell, LastBy, ListsAll
<1>6. CASE Results(p) = <<>>
  BY <1>1, <1>6 DEF EndsWell
<1> QED BY <1>1, <1>4, <1>5, <1>6 DEF ListAt, Alive

LEMMA StepEndsWell ==
  ASSUME NEW p \in Procs, TypeInv, LifeInv, ListAt(p), EndsWell(manifest.steps), Step(p)
  PROVE  EndsWell(manifest.steps)'
<1>1. CASE manifest' = manifest
  <2>1. manifest.steps \in Seq(StepRecords)
    OBVIOUS
  <2> HIDE DEF TypeInv
  <2>2. \A t \in Seq(StepRecords) : EndsWell(t) => EndsWell(t)'
    BY EndsWellStays
  <2> QED BY <1>1, <2>1, <2>2 DEF EndsWell, LastBy, ListsAll
<1>2. CASE TruncateManifest(p)
  BY <1>2 DEF TruncateManifest, Torn, EndsWell
<1>3. CASE FlushManifest(p)
  BY <1>3, FlushEndsWell
<1> QED
  BY <1>1, <1>2, <1>3
  DEF Step, Work, Prompted, Cancel, Crash, Fail, GiveUp, AgentFails, ShellFails,
      PromptFails, Start, Resume, Drive, Conclude, PassThrough, OpenPrompt, Visit,
      Decide, AskAgain, ShellExits, Persist, PromptBody, PromptEmpty, WriteContent, WriteMeta

ListIInv == TypeInv /\ CountInv /\ LifeInv /\ ListInv

LEMMA InitList == Init => LifeInv /\ ListInv
  BY DEF Init, NoManifest, LifeInv, MetaOfLaunches, OneLifeEach, LifeAt, ListInv, ListAt,
         EndsWell, Alive

LEMMA NextList == ListIInv /\ [Next \/ AtRest]_vars => ListIInv'
<1> SUFFICES ASSUME ListIInv, [Next \/ AtRest]_vars PROVE ListIInv'
  OBVIOUS
<1> HIDE DEF TypeInv, CountAt
<1>1. TypeInv' /\ CountInv'
  BY NextTypes, NextCount DEF ListIInv
<1>2. CASE UNCHANGED vars \/ AtRest
  <2>1. UNCHANGED vars
    BY <1>2 DEF AtRest
  <2>2. LifeInv'
    BY <2>1 DEF vars, ListIInv, LifeInv, MetaOfLaunches, OneLifeEach, LifeAt, Alive
  <2>3. ListInv'
    <3>1. EndsWell(manifest.steps)'
      BY <2>1 DEF vars, ListIInv, ListInv, EndsWell, Gone, ListsAll, LastBy, Alive
    <3>2. ASSUME NEW q \in Procs PROVE ListAt(q)'
      <4>1. Results(q)' = Results(q) /\ life' = life /\ pc' = pc /\ meta' = meta
              /\ launches' = launches
        BY <2>1 DEF vars, Results
      <4> QED BY <4>1 DEF ListIInv, ListInv, ListAt, EndsWell, Gone, ListsAll, LastBy, Alive
    <3> QED BY <3>1, <3>2 DEF ListInv
  <2> QED BY <1>1, <2>2, <2>3 DEF ListIInv
<1>3. ASSUME NEW p \in Procs, Step(p) PROVE ListIInv'
  <2>1. /\ TypeInv /\ CountAt(p) /\ LifeInv /\ EndsWell(manifest.steps)
        /\ \A q \in Procs : ListAt(q)
    BY DEF ListIInv, CountInv, ListInv
  <2>2. MetaOfLaunches' /\ OneLifeEach'
    BY <1>3, <2>1, StepLaunches
  <2>3. ASSUME NEW q \in Procs PROVE LifeAt(q)'
    BY <1>3, <2>1, StepLifeAt
  <2>4. ASSUME NEW q \in Procs PROVE ListAt(q)'
    <3>1. CASE q = p
      BY <1>3, <2>1, <3>1, StepList
    <3>2. CASE q # p
      BY <1>3, <2>1, <3>2, OthersList
    <3> QED BY <3>1, <3>2
  <2>5. EndsWell(manifest.steps)'
    BY <1>3, <2>1, StepEndsWell
  <2> QED BY <1>1, <2>2, <2>3, <2>4, <2>5 DEF ListIInv, LifeInv, ListInv
<1> QED BY <1>2, <1>3 DEF Next, Step

\* A manifest leaves out no step of the launch that wrote it, nor of the
\* answers given to a resume: what is on disk of the launch that ends the list
\* is in the list, even when several processes race on the directory.
THEOREM NothingLeftOut == Spec => []ManifestComplete
<1>1. Init => ListIInv
  BY InitTypes, InitCount, InitList DEF ListIInv
<1>2. ListIInv => ManifestComplete
  BY ZenonT(30) DEF ListIInv, ListInv, EndsWell, ListsAll, LastBy, ManifestComplete
<1> QED BY <1>1, <1>2, NextList, PTL DEF Spec

HIDE DEF TypeInv, TypeOK, DiskTypeOK, ProcTypeOK, LoopTypeOK, StepTypeOK,
         diskVars, launchVars, loopVars, stepVars, OptState,
         CountAt, Fresh, PendCounted, Budgeted, Exact, EndsRight, Working, Answering

-----------------------------------------------------------------------------
(* The run as its operator sees it, when one process at a time works on it.  *)

\* What a driver does at a control point, it does at a state of that kind.
WalkAt(p) ==
  /\ pc[p] = "idle" => at[p] = NoState
  /\ pc[p] \notin {"content", "meta"} => pend[p].kind # "human"
  /\ pc[p] \in {"agent", "retry"} => Kind(p) = "agent"
  /\ pc[p] = "prompt" => Kind(p) = "human"
  /\ pc[p] \in {"content", "meta"} /\ pend[p].kind # "human" =>
       Kind(p) \in {"agent", "shell"} /\ pend[p].to \in Targets(flow[p], at[p])
  /\ pc[p] \in {"content", "meta"} /\ pend[p].kind = "human" /\ ~skip[p] =>
       Kind(p) = "human"

\* Both exits of a shell state are among its entries.
LEMMA RoutedToTarget ==
  ASSUME NEW f \in Flows, NEW s \in Declared(f), f.kind[s] = "shell",
         NEW word \in {"pass", "fail"}
  PROVE  RoutedTo(f, s, word) \in Targets(f, s)
<1> DEFINE n == f.next[s]
           tagged == {i \in 1..Len(n) : n[i].reason = word}
<1>1. Len(n) = 2 /\ Reasons(f, s) = {"pass", "fail"}
  BY FlowAssumption DEF ValidFlow, StateSemantics
<1>2. tagged # {} /\ tagged \subseteq {1, 2}
  BY <1>1 DEF Reasons
<1>3. \E i \in tagged : \A j \in tagged : i <= j
  BY <1>2
<1>4. (CHOOSE i \in tagged : \A j \in tagged : i <= j) \in tagged
  BY <1>3
<1> HIDE DEF n
<1>5. n[CHOOSE i \in tagged : \A j \in tagged : i <= j].to \in {n[i].to : i \in 1..Len(n)}
  BY <1>4
<1> QED BY <1>5 DEF RoutedTo, Targets, n

LEMMA StepWalkAt ==
  ASSUME NEW p \in Procs, TypeInv, WalkAt(p), Step(p)
  PROVE  WalkAt(p)'
<1> USE DEF TypeInv, TypeOK, DiskTypeOK, ProcTypeOK, LoopTypeOK, StepTypeOK,
            diskVars, launchVars, loopVars, stepVars
<1>1. CASE Vanish(p)
  BY <1>1 DEF Vanish, WalkAt, NoRecord
<1>2. CASE Start(p)
  BY <1>2 DEF Start, WalkAt
<1>3. CASE Resume(p)
  <2>1. skip'[p] = TRUE /\ pc'[p] \in {"content", "spawned"}
    BY <1>3 DEF Resume
  <2>2. pc'[p] = "content" => pend'[p].kind = "human"
    BY <1>3 DEF Resume, HumanRecord
  <2>3. pc'[p] = "spawned" => pend'[p].kind # "human"
    BY <1>3 DEF Resume, WalkAt
  <2> QED BY <2>1, <2>2, <2>3 DEF WalkAt
<1>4. CASE Drive(p) \/ Conclude(p) \/ PassThrough(p) \/ PromptEmpty(p)
  BY <1>4 DEF Drive, Conclude, PassThrough, PromptEmpty, AtHead, WalkAt
<1>5. CASE OpenPrompt(p) \/ AskAgain(p) \/ TruncateManifest(p)
  BY <1>5 DEF OpenPrompt, AskAgain, TruncateManifest, AtHead, Kind, WalkAt
<1>6. CASE Visit(p)
  <2>1. /\ pc[p] = "loop" /\ pc'[p] = Kind(p) /\ Kind(p) \in {"agent", "shell"}
        /\ Kind(p)' = Kind(p) /\ pend' = pend
    BY <1>6 DEF Visit, AtHead, Kind
  <2> QED BY <2>1 DEF WalkAt
<1>7. CASE Decide(p)
  <2>1. PICK t \in Targets(flow[p], at[p]) : Persist(p, Record(p, "graph", prior[p], t))
    BY <1>7 DEF Decide
  <2>2. /\ pc[p] \in {"agent", "retry"} /\ pc'[p] = "content" /\ Kind(p)' = Kind(p)
        /\ flow' = flow /\ at' = at /\ pend'[p] = Record(p, "graph", prior[p], t)
    BY <1>7, <2>1 DEF Decide, Persist, Kind
  <2> QED BY <2>2 DEF WalkAt, Record
<1>8. CASE ShellExits(p)
  <2>1. PICK word \in {"pass", "fail"} :
          Persist(p, Record(p, "shell", NoState, RoutedTo(flow[p], at[p], word)))
    BY <1>8 DEF ShellExits
  <2>2. /\ pc[p] = "shell" /\ pc'[p] = "content" /\ Kind(p)' = Kind(p) /\ flow' = flow
        /\ at' = at /\ pend'[p] = Record(p, "shell", NoState, RoutedTo(flow[p], at[p], word))
    BY <1>8, <2>1 DEF ShellExits, Persist, Kind
  <2>3. RoutedTo(flow[p], at[p], word) \in Targets(flow[p], at[p]) /\ Kind(p) = "shell"
    BY <2>2, RoutedToTarget DEF FlowPlaced, Known, Kind
  <2> QED BY <2>2, <2>3 DEF WalkAt, Record
<1>9. CASE PromptBody(p)
  <2>1. /\ pc[p] = "prompt" /\ pc'[p] = "content" /\ Kind(p)' = Kind(p)
        /\ pend'[p].kind = "human"
    BY <1>9 DEF PromptBody, Persist, Kind, HumanRecord
  <2> QED BY <2>1 DEF WalkAt
<1>10. CASE WriteContent(p)
  BY <1>10 DEF WriteContent, WalkAt, Kind
<1>11. CASE WriteMeta(p)
  <2>1. pc'[p] \in {"loop", "spawned"} /\ pend'[p] = NoRecord
    BY <1>11 DEF WriteMeta, FollowEdge, JoinPrior, LeaveInline
  <2> QED BY <2>1 DEF WalkAt, NoRecord
<1> QED
  BY <1>1, <1>2, <1>3, <1>4, <1>5, <1>6, <1>7, <1>8, <1>9, <1>10, <1>11
  DEF Step, Work, Prompted, Cancel, Crash, Fail, GiveUp, AgentFails, ShellFails,
      PromptFails, FlushManifest

\* What a trail shows of a step, and the work in it.
Shown(r) == [id |-> r.id, work |-> r.kind # "human"]

LEMMA TrailOf ==
  ASSUME NEW s \in Seq(StepRecords)
  PROVE  /\ Trail(s) \in Seq([id : StateId, work : BOOLEAN]) /\ Len(Trail(s)) = Len(s)
         /\ \A i \in 1..Len(s) : Trail(s)[i] = Shown(s[i])
<1>1. Len(s) \in Nat /\ \A i \in 1..Len(s) : s[i] \in StepRecords
  BY LenProperties, ElementOfSeq
<1>2. \A i \in 1..Len(s) : Trail(s)[i] = Shown(s[i])
  BY DEF Trail, Shown
<1>3. Trail(s) \in [1..Len(s) -> [id : StateId, work : BOOLEAN]]
  <2>1. \A i \in 1..Len(s) : Shown(s[i]) \in [id : StateId, work : BOOLEAN]
    <3>1. \A r \in StepRecords : r.id \in StateId
      BY DEF StepRecords
    <3> QED BY <1>1, <3>1, Zenon DEF Shown
  <2> QED BY <2>1 DEF Trail, Shown
<1>4. Trail(s) \in Seq([id : StateId, work : BOOLEAN]) /\ Len(Trail(s)) = Len(s)
  <2> DEFINE S == [id : StateId, work : BOOLEAN]
             u == Trail(s)
             n == Len(s)
  <2>1. u \in [1..n -> S] /\ n \in Nat
    BY <1>1, <1>3
  <2> HIDE DEF S, u, n
  <2>2. u \in Seq(S) /\ Len(u) = n
    BY <2>1, IsASeq, LenProperties
  <2> QED BY <2>2 DEF S, u, n
<1> QED BY <1>2, <1>4

LEMMA TrailAppend ==
  ASSUME NEW s \in Seq(StepRecords), NEW r \in StepRecords
  PROVE  Trail(Append(s, r)) = Append(Trail(s), Shown(r))
<1> DEFINE S == [id : StateId, work : BOOLEAN]
           t == Append(s, r)
<1>1. /\ t \in Seq(StepRecords) /\ Len(s) \in Nat /\ Len(t) = Len(s) + 1
      /\ \A i \in 1..Len(s) : t[i] = s[i]
      /\ t[Len(s) + 1] = r
  BY AppendProperties, LenProperties
<1> HIDE DEF t
<1>2. /\ Trail(s) \in Seq(S) /\ Len(Trail(s)) = Len(s)
      /\ \A i \in 1..Len(s) : Trail(s)[i] = Shown(s[i])
  BY TrailOf
<1>3. /\ Trail(t) \in Seq(S) /\ Len(Trail(t)) = Len(t)
      /\ \A i \in 1..Len(t) : Trail(t)[i] = Shown(t[i])
  BY <1>1, TrailOf
<1>4. Shown(r) \in S
  <2>1. Len(s) + 1 \in 1..Len(t)
    BY <1>1
  <2>2. Trail(t)[Len(s) + 1] \in S
    BY <1>3, <2>1, ElementOfSeq
  <2> QED BY <1>1, <1>3, <2>1, <2>2
<1> HIDE DEF S
<1>5. /\ Append(Trail(s), Shown(r)) \in Seq(S)
      /\ Len(Append(Trail(s), Shown(r))) = Len(s) + 1
      /\ \A i \in 1..Len(s) : Append(Trail(s), Shown(r))[i] = Trail(s)[i]
      /\ Append(Trail(s), Shown(r))[Len(s) + 1] = Shown(r)
  BY <1>2, <1>4, AppendProperties
<1>6. ASSUME NEW i \in 1..(Len(s) + 1) PROVE Trail(t)[i] = Append(Trail(s), Shown(r))[i]
  <2>1. CASE i \in 1..Len(s)
    BY <1>1, <1>2, <1>3, <1>5, <2>1
  <2>2. CASE i = Len(s) + 1
    BY <1>1, <1>3, <1>5, <2>2
  <2>3. Len(s) \in Nat
    BY <1>1
  <2>4. i \in 1..Len(s) \/ i = Len(s) + 1
    BY <2>3
  <2> QED BY <2>1, <2>2, <2>4
<1>7. Trail(t) = Append(Trail(s), Shown(r))
  BY <1>1, <1>3, <1>5, <1>6, SeqEqual
<1> QED BY <1>7 DEF t

LEMMA NoTrail == Trail(<<>>) = <<>>
<1>1. <<>> \in Seq(StepRecords) /\ Len(<<>>) = 0
  BY EmptySeq
<1>2. Trail(<<>>) \in Seq([id : StateId, work : BOOLEAN]) /\ Len(Trail(<<>>)) = 0
  BY <1>1, TrailOf
<1> QED BY <1>2, EmptySeq

\* The walk counts the work of its trail as the driver does.
LEMMA WorkedIs ==
  ASSUME NEW s \in Seq(StepRecords)
  PROVE  Walk!Worked(Trail(s)) = WorkOf(s)
<1>1. {i \in 1..Len(Trail(s)) : Trail(s)[i].work} = WorkSteps(s)
  <2>1. ASSUME NEW i PROVE (i \in 1..Len(Trail(s)) /\ Trail(s)[i].work) <=> i \in WorkSteps(s)
    <3>1. Len(Trail(s)) = Len(s) /\ (i \in 1..Len(s) => Trail(s)[i] = Shown(s[i]))
      BY TrailOf
    <3>2. Shown(s[i]).work <=> s[i].kind # "human"
      BY DEF Shown
    <3> QED BY <3>1, <3>2 DEF WorkSteps
  <2> QED BY <2>1
<1>2. \A S : Walk!Cardinality(S) = Cardinality(S)
  BY DEF Walk!Cardinality, Cardinality
<1> QED BY <1>1, <1>2 DEF Walk!Worked, WorkOf

LEMMA SameGraph ==
  ASSUME NEW f, NEW s
  PROVE  /\ Walk!Targets(f, s) = Targets(f, s)
         /\ Walk!FirstNext(f, s) = FirstNext(f, s)
         /\ Walk!NoDeadEnds(f) = NoDeadEnds(f)
BY DEF Walk!Targets, Targets, Walk!FirstNext, FirstNext, Walk!NoDeadEnds, NoDeadEnds,
       Walk!HasNext, HasNext, Walk!Declared, Declared

-----------------------------------------------------------------------------
(* The walk's variables, as this module computes them.                       *)

WFlow    == IF Walking THEN flow[Walker] ELSE NoState
WTrail   == Trail(Results(Walker))
WConsent == skip[Walker] \/ pc[Walker] = "prompt" \/ pend[Walker].kind = "human"
WKept    == IF manifest.status \in {"paused", "done"}
            THEN [at |-> manifest.at, trail |-> Trail(manifest.steps)]
            ELSE [at |-> NoState, trail |-> <<>>]

WalkView == <<Phase, WFlow, at[Walker], WTrail, WConsent, WKept>>

LEMMA ViewIs == Walk!vars = WalkView
  BY DEF Walk!vars, WalkView, WFlow, WTrail, WConsent, WKept, Results

\* What one process that is at work shows of the walk.
LEMMA Living ==
  ASSUME NEW p \in Procs, Walker = p, pc[p] # "idle"
  PROVE  /\ Phase = "walking" /\ WFlow = flow[p] /\ WTrail = Trail(Results(p))
         /\ WConsent = (skip[p] \/ pc[p] = "prompt" \/ pend[p].kind = "human")
  BY DEF Phase, Walking, WFlow, WTrail, WConsent

LEMMA LivingAfter ==
  ASSUME NEW p \in Procs, Walker = p, pc'[p] # "idle"
  PROVE  /\ Phase' = "walking" /\ WFlow' = flow'[p] /\ WTrail' = Trail(Results(p)')
         /\ WConsent' = (skip'[p] \/ pc'[p] = "prompt" \/ pend'[p].kind = "human")
  BY DEF Phase, Walking, WFlow, WTrail, WConsent, Results, Trail

\* A step inside the walk: the process lives on and keeps its flow.
Inside(p) ==
  pc[p] # "idle" /\ pc'[p] # "idle" /\ flow'[p] = flow[p]

LEMMA InsideShows ==
  ASSUME NEW p \in Procs, Walker = p, Inside(p)
  PROVE  /\ Phase = "walking" /\ Phase' = Phase
         /\ WFlow = flow[p] /\ WFlow' = WFlow
         /\ WTrail = Trail(Results(p)) /\ WTrail' = Trail(Results(p)')
         /\ WConsent = (skip[p] \/ pc[p] = "prompt" \/ pend[p].kind = "human")
         /\ WConsent' = (skip'[p] \/ pc'[p] = "prompt" \/ pend'[p].kind = "human")
  BY Living, LivingAfter DEF Inside

LEMMA KeptStays ==
  ASSUME manifest' = manifest
  PROVE  WKept' = WKept
  BY DEF WKept, Trail

\* A process that is gone leaves nothing of its walk but what was kept.
LEMMA VanishShows ==
  ASSUME NEW p \in Procs, Walker = p, TypeInv, Vanish(p)
  PROVE  /\ WFlow' = NoState /\ at'[Walker] = NoState /\ WTrail' = <<>>
         /\ WConsent' = FALSE /\ launches' = launches
         /\ Phase' = IF launches = 0 THEN "absent"
                     ELSE IF manifest'.status \in {"paused", "done"}
                          THEN manifest'.status ELSE "lost"
<1>1. /\ pc'[p] = "idle" /\ at'[p] = NoState /\ base'[p] = <<>> /\ done'[p] = <<>>
      /\ skip'[p] = FALSE /\ pend'[p] = NoRecord /\ launches' = launches
  BY DEF Vanish, TypeInv, TypeOK, ProcTypeOK, LoopTypeOK, StepTypeOK
<1>2. Results(p)' = <<>>
  BY <1>1, EmptySeq, ConcatEmptySeq DEF Results
<1>3. WTrail' = Trail(<<>>)
  BY <1>2 DEF WTrail, Trail
<1>4. ~Walking'
  BY <1>1 DEF Walking
<1>5. WConsent' = FALSE
  BY <1>1 DEF WConsent, NoRecord
<1> QED BY <1>1, <1>3, <1>4, <1>5, NoTrail DEF WFlow, Phase

-----------------------------------------------------------------------------
(* Each step of the process, as a step of the walk.                          *)

WalkInv(p) ==
  /\ TypeInv /\ CountAt(p) /\ ThreadAt(p) /\ DoneInv /\ WalkAt(p)

LEMMA StartWalks ==
  ASSUME NEW p \in Procs, Walker = p, WalkInv(p), Start(p)
  PROVE  Walk!Begin
<1>1. PICK f \in Flows : NoDeadEnds(f) /\ flow'[p] = f /\ at'[p] = f.initial
  BY DEF Start, WalkInv, TypeInv, TypeOK, ProcTypeOK, LoopTypeOK
<1>2. /\ pc[p] = "idle" /\ pc'[p] = "spawned" /\ launches = 0 /\ manifest' = manifest
      /\ skip' = skip /\ pend' = pend /\ base' = base /\ done' = done
  BY DEF Start, diskVars, stepVars, WalkInv, TypeInv, TypeOK, ProcTypeOK
<1>3. ~skip[p] /\ pend[p].kind # "human"
  BY <1>2 DEF WalkInv, ThreadAt, SkipPlaced, WalkAt
<1>4. Phase = "absent" /\ Phase' = "walking" /\ WFlow' = f /\ at'[Walker] = f.initial
  BY <1>1, <1>2 DEF Phase, Walking, WFlow
<1>5. WTrail' = WTrail /\ WConsent' = WConsent /\ WKept' = WKept
  BY <1>2, <1>3, KeptStays DEF WTrail, WConsent, Results, Trail
<1>6. Walk!NoDeadEnds(f)
  BY <1>1, SameGraph
<1> QED BY <1>4, <1>5, <1>6 DEF Walk!Begin, WFlow, WTrail, WConsent, WKept, Results

LEMMA ResumeWalks ==
  ASSUME NEW p \in Procs, Walker = p, WalkInv(p), Resume(p)
  PROVE  Walk!Reopen
<1>1. PICK f \in Flows : flow'[p] = f
  BY DEF Resume, WalkInv, TypeInv, TypeOK, ProcTypeOK
<1>2. /\ pc[p] = "idle" /\ pc'[p] # "idle" /\ launches # 0 /\ manifest' = manifest
      /\ manifest.status = "paused" /\ skip'[p] = TRUE /\ at'[p] = manifest.at
      /\ base'[p] = manifest.steps /\ done'[p] = done[p]
      /\ manifest.steps \in Seq(StepRecords)
  BY DEF Resume, diskVars, WalkInv, TypeInv, TypeOK, DiskTypeOK, ProcTypeOK, LoopTypeOK,
         StepTypeOK
<1>3. done[p] = <<>>
  BY <1>2 DEF WalkInv, CountAt, Fresh
<1>4. Results(p)' = manifest.steps
  BY <1>2, <1>3, ConcatEmptySeq DEF Results
<1>5. Phase = "paused"
  BY <1>2 DEF Phase, Walking
<1>6. /\ Phase' = "walking" /\ WFlow' = flow'[p] /\ WTrail' = Trail(Results(p)')
      /\ WConsent' = TRUE
  BY <1>2, LivingAfter
<1>7. WKept = [at |-> manifest.at, trail |-> Trail(manifest.steps)] /\ WKept' = WKept
  BY <1>2, KeptStays DEF WKept
<1>8. WKept.at = manifest.at /\ WKept.trail = Trail(manifest.steps)
  BY <1>7
<1>9. at'[Walker] = WKept.at /\ WTrail' = WKept.trail /\ WFlow' \in Flows
  BY <1>1, <1>2, <1>4, <1>6, <1>8
<1> QED BY <1>5, <1>6, <1>7, <1>9 DEF Walk!Reopen, WFlow, WTrail, WConsent, WKept, Results

\* The process is gone: back to the last pause, or nowhere to go.
LEMMA VanishWalks ==
  ASSUME NEW p \in Procs, Walker = p, WalkInv(p), pc[p] # "idle",
         Vanish(p), manifest' = manifest
  PROVE  Walk!FallBack \/ Walk!Lose
<1>1. launches # 0 /\ manifest.status # "done"
  BY DEF WalkInv, DoneInv
<1>2. manifest.status \in {"none", "torn", "paused"}
  BY <1>1 DEF WalkInv, TypeInv, TypeOK, DiskTypeOK
<1>3. /\ WFlow' = NoState /\ at'[Walker] = NoState /\ WTrail' = <<>> /\ WConsent' = FALSE
      /\ Phase' = IF manifest.status \in {"paused", "done"} THEN manifest.status ELSE "lost"
  BY <1>1, VanishShows DEF WalkInv
<1>4. Phase = "walking" /\ WKept' = WKept
  BY Living, KeptStays
<1>5. CASE manifest.status = "paused"
  <2>1. WKept = [at |-> manifest.at, trail |-> Trail(manifest.steps)]
    BY <1>5 DEF WKept
  <2>2. manifest.at # NoState
    BY <1>5, BoundAssumption DEF WalkInv, TypeInv, PausePlaced
  <2>3. WKept # Walk!Nothing
    BY <2>1, <2>2 DEF Walk!Nothing
  <2>4. Phase' = "paused"
    BY <1>3, <1>5
  <2> QED BY <1>3, <1>4, <2>3, <2>4
          DEF Walk!FallBack, Walk!Leave, WFlow, WTrail, WConsent, WKept, Results
<1>6. CASE manifest.status \in {"none", "torn"}
  <2>1. WKept = Walk!Nothing
    BY <1>6 DEF WKept, Walk!Nothing
  <2>2. Phase' = "lost"
    BY <1>3, <1>6
  <2> QED BY <1>3, <1>4, <2>1, <2>2
          DEF Walk!Lose, Walk!Leave, WFlow, WTrail, WConsent, WKept, Results
<1> QED BY <1>2, <1>5, <1>6

\* Steps the operator does not see.
LEMMA QuietWalks ==
  ASSUME NEW p \in Procs, Walker = p, WalkInv(p),
         \/ Drive(p) \/ Conclude(p) \/ Visit(p) \/ Decide(p) \/ AskAgain(p)
         \/ ShellExits(p) \/ PromptBody(p) \/ WriteContent(p)
  PROVE  WalkView' = WalkView
<1>1. /\ Inside(p) /\ at' = at /\ manifest' = manifest /\ base' = base /\ done' = done
      /\ skip' = skip
  BY DEF Drive, Conclude, Visit, Decide, AskAgain, ShellExits, PromptBody, WriteContent,
         Persist, AtHead, Inside, WalkInv, TypeInv, TypeOK, ProcTypeOK,
         diskVars, launchVars, loopVars, stepVars
<1>2. (pc'[p] = "prompt" \/ pend'[p].kind = "human") =
      (pc[p] = "prompt" \/ pend[p].kind = "human")
  <2>1. CASE Drive(p) \/ Conclude(p) \/ AskAgain(p) \/ WriteContent(p)
    BY <2>1 DEF Drive, Conclude, AskAgain, AtHead, WriteContent, WalkInv, TypeInv, TypeOK,
                ProcTypeOK
  <2>2. CASE Visit(p)
    BY <2>2 DEF Visit, AtHead, WalkInv, TypeInv, TypeOK, ProcTypeOK
  <2>3. CASE Decide(p) \/ ShellExits(p)
    <3>1. pc[p] \in {"agent", "retry", "shell"} /\ pc'[p] = "content" /\ pend'[p].kind # "human"
      BY <2>3 DEF Decide, ShellExits, Persist, Record, WalkInv, TypeInv, TypeOK, ProcTypeOK,
                  StepTypeOK
    <3>2. pend[p].kind # "human"
      BY <3>1 DEF WalkInv, WalkAt
    <3> QED BY <3>1, <3>2
  <2>4. CASE PromptBody(p)
    <3>1. pc[p] = "prompt" /\ pend'[p].kind = "human"
      BY <2>4 DEF PromptBody, Persist, HumanRecord, WalkInv, TypeInv, TypeOK, StepTypeOK
    <3> QED BY <3>1
  <2> QED BY <2>1, <2>2, <2>3, <2>4
<1>3. Results(p)' = Results(p)
  BY <1>1 DEF Results
<1>4. Phase' = Phase /\ WFlow' = WFlow /\ WTrail' = WTrail /\ WKept' = WKept
  BY <1>1, <1>3, InsideShows, KeptStays
<1>5. WConsent' = WConsent
  BY <1>1, <1>2, InsideShows
<1> QED BY <1>1, <1>4, <1>5 DEF WalkView

LEMMA OpenPromptWalks ==
  ASSUME NEW p \in Procs, Walker = p, WalkInv(p), OpenPrompt(p)
  PROVE  Walk!Consent
<1>1. /\ Inside(p) /\ at' = at /\ manifest' = manifest /\ base' = base /\ done' = done
      /\ pc[p] = "loop" /\ pc'[p] = "prompt" /\ ~skip[p] /\ Kind(p) = "human"
  BY DEF OpenPrompt, AtHead, Inside, WalkInv, TypeInv, TypeOK, ProcTypeOK,
         diskVars, launchVars, loopVars, stepVars
<1>2. pend[p].kind # "human"
  BY <1>1 DEF WalkInv, WalkAt
<1>3. Results(p)' = Results(p)
  BY <1>1 DEF Results
<1>4. /\ Phase = "walking" /\ Phase' = Phase /\ WFlow' = WFlow /\ WTrail' = WTrail
      /\ WKept' = WKept
  BY <1>1, <1>3, InsideShows, KeptStays
<1>5. WConsent = FALSE /\ WConsent' = TRUE
  BY <1>1, <1>2, InsideShows
<1>6. WFlow.kind[at[Walker]] = "human"
  BY <1>1, InsideShows DEF Kind
<1> QED BY <1>1, <1>4, <1>5, <1>6
        DEF Walk!Consent, WFlow, WTrail, WConsent, WKept, Results

\* A human state is left with the operator's consent, along its first edge.
LEMMA GatePassed ==
  ASSUME NEW p \in Procs, Walker = p, Inside(p), Kind(p) = "human",
         skip[p] \/ pc[p] = "prompt" \/ pend[p].kind = "human",
         ~skip'[p], pc'[p] # "prompt", pend'[p].kind # "human",
         at'[p] = FirstNext(flow[p], at[p]),
         manifest' = manifest, base' = base, done' = done
  PROVE  Walk!PassGate
<1>1. Results(p)' = Results(p)
  BY DEF Results
<1>2. /\ Phase = "walking" /\ Phase' = Phase /\ WFlow = flow[p] /\ WFlow' = WFlow
      /\ WTrail' = WTrail /\ WKept' = WKept
  BY <1>1, InsideShows, KeptStays
<1>3. WConsent /\ WConsent' = FALSE
  BY InsideShows
<1>4. WFlow.kind[at[Walker]] = "human"
  BY <1>2 DEF Kind
<1>5. at'[Walker] = Walk!FirstNext(WFlow, at[Walker])
  BY <1>2, SameGraph
<1> QED BY <1>2, <1>3, <1>4, <1>5
        DEF Walk!PassGate, WFlow, WTrail, WConsent, WKept, Results

LEMMA GateWalks ==
  ASSUME NEW p \in Procs, Walker = p, WalkInv(p),
         \/ PassThrough(p) \/ PromptEmpty(p)
         \/ WriteMeta(p) /\ pend[p].kind = "human" /\ ~skip[p] /\ LeaveInline(p)
  PROVE  Walk!PassGate
<1>1. CASE PassThrough(p)
  <2>1. /\ Inside(p) /\ Kind(p) = "human" /\ skip[p] /\ ~skip'[p] /\ pc[p] = "loop"
        /\ pc'[p] = "loop" /\ pend' = pend /\ at'[p] = FirstNext(flow[p], at[p])
        /\ manifest' = manifest /\ base' = base /\ done' = done
    BY <1>1 DEF PassThrough, AtHead, Inside, WalkInv, TypeInv, TypeOK, ProcTypeOK, LoopTypeOK,
                diskVars, launchVars, stepVars
  <2>2. pend[p].kind # "human"
    BY <2>1 DEF WalkInv, WalkAt
  <2> QED BY <2>1, <2>2, GatePassed
<1>2. CASE PromptEmpty(p)
  <2>1. /\ Inside(p) /\ skip' = skip /\ pc[p] = "prompt"
        /\ pc'[p] = "loop" /\ pend' = pend /\ at'[p] = FirstNext(flow[p], at[p])
        /\ manifest' = manifest /\ base' = base /\ done' = done
    BY <1>2 DEF PromptEmpty, Inside, WalkInv, TypeInv, TypeOK, ProcTypeOK, LoopTypeOK,
                diskVars, launchVars, stepVars
  <2>2. pend[p].kind # "human" /\ ~skip[p] /\ Kind(p) = "human"
    BY <2>1 DEF WalkInv, WalkAt, ThreadAt, SkipPlaced
  <2> QED BY <2>1, <2>2, GatePassed
<1>3. CASE WriteMeta(p) /\ pend[p].kind = "human" /\ ~skip[p] /\ LeaveInline(p)
  <2>1. /\ Inside(p) /\ skip' = skip /\ pc[p] = "meta"
        /\ pc'[p] = "loop" /\ at'[p] = FirstNext(flow[p], at[p])
        /\ manifest' = manifest /\ base' = base /\ done' = done
    BY <1>3 DEF WriteMeta, LeaveInline, Inside, WalkInv, TypeInv, TypeOK, ProcTypeOK,
                LoopTypeOK, launchVars, stepVars
  <2>2. pend'[p].kind # "human"
    BY <1>3 DEF WriteMeta, NoRecord, WalkInv, TypeInv, TypeOK, StepTypeOK
  <2>3. Kind(p) = "human"
    BY <1>3, <2>1 DEF WalkInv, WalkAt
  <2> QED BY <1>3, <2>1, <2>2, <2>3, GatePassed
<1> QED BY <1>1, <1>2, <1>3

\* A step on the trail is shown as its state, and whether it was work.
LEMMA FollowWalks ==
  ASSUME NEW p \in Procs, Walker = p, WalkInv(p), WriteMeta(p),
         pend[p].kind # "human", FollowEdge(p)
  PROVE  Walk!Move
<1>1. /\ Inside(p) /\ skip' = skip /\ pc[p] = "meta" /\ pc'[p] = "loop"
      /\ at'[p] = pend[p].to /\ manifest' = manifest
  BY DEF WriteMeta, FollowEdge, Inside, WalkInv, TypeInv, TypeOK, ProcTypeOK,
         LoopTypeOK, launchVars
<1>2. pend'[p].kind # "human"
  BY DEF WriteMeta, NoRecord, WalkInv, TypeInv, TypeOK, StepTypeOK
<1>3. pend[p].id = at[p]
  BY <1>1 DEF WalkInv, ThreadAt, PendNumbered
<1>4. Kind(p) \in {"agent", "shell"} /\ pend[p].to \in Targets(flow[p], at[p])
  BY <1>1 DEF WalkInv, WalkAt
<1>5. /\ Results(p)' = Append(Results(p), pend[p]) /\ Results(p) \in Seq(StepRecords)
      /\ pend[p] \in StepRecords
  <2>1. pend[p] \in StepRecords
    BY <1>1 DEF WalkInv, TypeInv, PendPlaced
  <2> QED BY <2>1, FollowEdgeResults, ResultsAreSteps DEF WalkInv
<1>6. Trail(Results(p)') = Append(Trail(Results(p)), Shown(pend[p]))
  BY <1>5, TrailAppend
<1>7. Shown(pend[p]) = [id |-> at[Walker], work |-> TRUE]
  BY <1>3 DEF Shown
<1>8. Walk!Worked(WTrail) < MaxSteps
  <2>1. WorkOf(Results(p)) <= Len(Results(p)) /\ WorkOf(Results(p)) \in Nat
    BY <1>5, WorkBounded
  <2>2. Working(p)
    BY <1>1 DEF Working
  <2>3. Len(Results(p)) + 1 <= num[p] /\ num[p] <= MaxSteps
    BY <2>2 DEF WalkInv, CountAt, Budgeted
  <2>4. num[p] \in Nat /\ MaxSteps \in Nat /\ Len(Results(p)) \in Nat
    BY ResultsAreSteps DEF WalkInv
  <2>5. Walk!Worked(WTrail) = WorkOf(Results(p))
    BY <1>5, WorkedIs DEF WTrail
  <2> QED BY <2>1, <2>3, <2>4, <2>5
<1>9. /\ Phase = "walking" /\ Phase' = Phase /\ WFlow = flow[p] /\ WFlow' = WFlow
      /\ WTrail' = Append(WTrail, [id |-> at[Walker], work |-> TRUE])
      /\ WConsent' = WConsent /\ WKept' = WKept
  BY <1>1, <1>2, <1>6, <1>7, InsideShows, KeptStays
<1>10. WFlow.kind[at[Walker]] \in {"agent", "shell"}
  BY <1>4, <1>9 DEF Kind
<1>11. at'[Walker] \in Walk!Targets(WFlow, at[Walker])
  BY <1>1, <1>4, <1>9, SameGraph
<1> QED BY <1>8, <1>9, <1>10, <1>11
        DEF Walk!Move, WFlow, WTrail, WConsent, WKept, Results

LEMMA JoinWalks ==
  ASSUME NEW p \in Procs, Walker = p, WalkInv(p), WriteMeta(p),
         pend[p].kind = "human", skip[p], JoinPrior(p)
  PROVE  Walk!Answer
<1>1. /\ Inside(p) /\ skip' = skip /\ pc[p] = "meta" /\ pc'[p] = "spawned"
      /\ at' = at /\ manifest' = manifest
  BY DEF WriteMeta, JoinPrior, Inside, WalkInv, TypeInv, TypeOK, ProcTypeOK,
         LoopTypeOK, launchVars
<1>2. pend[p].id = at[p] /\ done[p] = <<>>
  BY <1>1 DEF WalkInv, ThreadAt, PendNumbered, CountAt, Fresh, Answering
<1>3. /\ Results(p)' = Append(Results(p), pend[p]) /\ Results(p) \in Seq(StepRecords)
      /\ pend[p] \in StepRecords
  <2>1. pend[p] \in StepRecords
    BY <1>1 DEF WalkInv, TypeInv, PendPlaced
  <2> QED BY <1>2, <2>1, JoinPriorResults, ResultsAreSteps DEF WalkInv
<1>4. Trail(Results(p)') = Append(Trail(Results(p)), Shown(pend[p]))
  BY <1>3, TrailAppend
<1>5. Shown(pend[p]) = [id |-> at[Walker], work |-> FALSE]
  BY <1>2 DEF Shown
<1>6. /\ Phase = "walking" /\ Phase' = Phase /\ WFlow' = WFlow
      /\ WTrail' = Append(WTrail, [id |-> at[Walker], work |-> FALSE])
      /\ WConsent = TRUE /\ WConsent' = TRUE /\ WKept' = WKept
  BY <1>1, <1>4, <1>5, InsideShows, KeptStays
<1> QED BY <1>1, <1>6 DEF Walk!Answer, WFlow, WTrail, WConsent, WKept, Results

LEMMA TruncateWalks ==
  ASSUME NEW p \in Procs, Walker = p, WalkInv(p), TruncateManifest(p)
  PROVE  Walk!Forget
<1>1. /\ Inside(p) /\ at' = at /\ skip' = skip /\ base' = base /\ done' = done /\ pend' = pend
      /\ pc[p] = "manifest" /\ pc'[p] = "flush" /\ manifest' = Torn
  BY DEF TruncateManifest, Inside, WalkInv, TypeInv, TypeOK, ProcTypeOK,
         launchVars, loopVars, stepVars
<1>2. pend[p].kind # "human" /\ (Kind(p) = "final" \/ (Kind(p) = "human" /\ ~skip[p]))
  BY <1>1 DEF WalkInv, WalkAt, ThreadAt, EndPlaced
<1>3. Results(p)' = Results(p)
  BY <1>1 DEF Results
<1>4. /\ Phase = "walking" /\ Phase' = Phase /\ WFlow = flow[p] /\ WFlow' = WFlow
      /\ WTrail' = WTrail /\ (~skip[p] => WConsent = FALSE) /\ WConsent' = WConsent
  BY <1>1, <1>2, <1>3, InsideShows
<1>5. WKept' = Walk!Nothing
  BY <1>1 DEF WKept, Torn, Walk!Nothing
<1>6. \/ WFlow.kind[at[Walker]] = "final"
      \/ WFlow.kind[at[Walker]] = "human" /\ WConsent = FALSE
  BY <1>2, <1>4 DEF Kind
<1> QED BY <1>1, <1>4, <1>5, <1>6 DEF Walk!Forget, WFlow, WTrail, WConsent, WKept, Results

LEMMA FlushWalks ==
  ASSUME NEW p \in Procs, Walker = p, WalkInv(p), FlushManifest(p)
  PROVE  Walk!Pause \/ Walk!Finish
<1>1. /\ pc[p] = "flush" /\ Vanish(p)
      /\ manifest' = [status |-> IF Kind(p) = "final" THEN "done" ELSE "paused",
                      steps  |-> Results(p), at |-> at[p]]
  BY DEF FlushManifest, Results
<1>2. pend[p].kind # "human" /\ (Kind(p) = "final" \/ (Kind(p) = "human" /\ ~skip[p]))
  BY <1>1 DEF WalkInv, WalkAt, ThreadAt, EndPlaced
<1>3. launches # 0
  BY <1>1 DEF WalkInv, DoneInv
<1>4. /\ Phase = "walking" /\ WFlow = flow[p] /\ WTrail = Trail(Results(p))
      /\ ~skip[p] => WConsent = FALSE
  BY <1>1, <1>2, Living
<1>5. WKept' = [at |-> at[Walker], trail |-> WTrail]
  <2>1. manifest'.status \in {"paused", "done"} /\ manifest'.at = at[p]
          /\ manifest'.steps = Results(p)
    BY <1>1
  <2>2. WKept' = [at |-> manifest'.at, trail |-> Trail(manifest'.steps)]
    BY <2>1 DEF WKept, Trail
  <2> QED BY <1>4, <2>1, <2>2
<1>6. /\ WFlow' = NoState /\ at'[Walker] = NoState /\ WTrail' = <<>> /\ WConsent' = FALSE
      /\ Phase' = IF Kind(p) = "final" THEN "done" ELSE "paused"
  <2>1. /\ WFlow' = NoState /\ at'[Walker] = NoState /\ WTrail' = <<>> /\ WConsent' = FALSE
        /\ Phase' = IF launches = 0 THEN "absent"
                    ELSE IF manifest'.status \in {"paused", "done"}
                         THEN manifest'.status ELSE "lost"
    BY <1>1, VanishShows DEF WalkInv
  <2> QED BY <1>1, <1>3, <2>1
<1>7. CASE Kind(p) = "final"
  <2>1. WFlow.kind[at[Walker]] = "final" /\ Phase' = "done"
    BY <1>4, <1>6, <1>7 DEF Kind
  <2>2. Walk!Finish
    BY <1>4, <1>5, <1>6, <2>1
    DEF Walk!Finish, Walk!Leave, WFlow, WTrail, WConsent, WKept, Results
  <2> QED BY <2>2
<1>8. CASE Kind(p) = "human" /\ ~skip[p]
  <2>1. WFlow.kind[at[Walker]] = "human" /\ WConsent = FALSE /\ Phase' = "paused"
    BY <1>4, <1>6, <1>8 DEF Kind
  <2>2. Walk!Pause
    BY <1>4, <1>5, <1>6, <2>1
    DEF Walk!Pause, Walk!Leave, WFlow, WTrail, WConsent, WKept, Results
  <2> QED BY <2>2
<1> QED BY <1>2, <1>7, <1>8

LEMMA StepWalks ==
  ASSUME NEW p \in Procs, Walker = p, WalkInv(p), Step(p)
  PROVE  Walk!Next \/ WalkView' = WalkView
<1>1. CASE Vanish(p) /\ pc[p] # "idle" /\ manifest' = manifest
  BY <1>1, VanishWalks DEF Walk!Next
<1>2. CASE WriteMeta(p)
  BY <1>2, GateWalks, FollowWalks, JoinWalks DEF WriteMeta, Walk!Next
<1>3. CASE Fail(p) /\ pc[p] # "idle"
  BY <1>1, <1>3 DEF Fail, diskVars
<1>4. CASE Cancel(p) \/ GiveUp(p) \/ AgentFails(p) \/ ShellFails(p) \/ PromptFails(p)
  BY <1>3, <1>4 DEF Cancel, GiveUp, AgentFails, ShellFails, PromptFails
<1>5. CASE Crash(p)
  BY <1>1, <1>5 DEF Crash
<1>6. CASE Start(p) \/ Resume(p)
  BY <1>6, StartWalks, ResumeWalks DEF Walk!Next
<1>7. CASE PassThrough(p) \/ PromptEmpty(p) \/ OpenPrompt(p)
  BY <1>7, GateWalks, OpenPromptWalks DEF Walk!Next
<1>8. CASE TruncateManifest(p) \/ FlushManifest(p)
  BY <1>8, TruncateWalks, FlushWalks DEF Walk!Next
<1>9. CASE \/ Drive(p) \/ Conclude(p) \/ Visit(p) \/ Decide(p) \/ AskAgain(p)
           \/ ShellExits(p) \/ PromptBody(p) \/ WriteContent(p)
  BY <1>9, QuietWalks
<1> QED BY <1>2, <1>4, <1>5, <1>6, <1>7, <1>8, <1>9 DEF Step, Work, Prompted

WalkIInv ==
  TypeInv /\ CountInv /\ ThreadInv /\ DoneInv /\ \A p \in Procs : WalkAt(p)

LEMMA InitWalks ==
  ASSUME Procs # {}
  PROVE  Init => WalkIInv /\ Walk!Init
<1> SUFFICES ASSUME Init PROVE WalkIInv /\ Walk!Init
  OBVIOUS
<1>1. TypeInv /\ CountInv
  BY InitTypes, InitCount
<1>2. ThreadInv /\ DoneInv
  BY DEF Init, ThreadInv, NoManifest, DoneInv, ThreadAt, PriorOnDisk, SkipPlaced,
         HumanOnDisk, PendNumbered, EndPlaced
<1>3. \A p \in Procs : WalkAt(p)
  BY DEF Init, WalkAt, NoRecord
<1>4. Walker \in Procs
  BY DEF Walker
<1>5. /\ pc[Walker] = "idle" /\ at[Walker] = NoState /\ base[Walker] = <<>>
      /\ done[Walker] = <<>> /\ skip[Walker] = FALSE /\ pend[Walker] = NoRecord
      /\ launches = 0 /\ manifest = NoManifest
  BY <1>4 DEF Init
<1>6. Results(Walker) = <<>>
  BY <1>5, EmptySeq, ConcatEmptySeq DEF Results
<1>7. Phase = "absent" /\ WFlow = NoState /\ WConsent = FALSE
  BY <1>5 DEF Phase, Walking, WFlow, WConsent, NoRecord
<1>8. WTrail = <<>>
  BY <1>6, NoTrail DEF WTrail
<1>9. WKept = Walk!Nothing
  BY <1>5 DEF WKept, NoManifest, Walk!Nothing
<1>10. Walk!Init
  BY <1>5, <1>7, <1>8, <1>9 DEF Walk!Init, WFlow, WTrail, WConsent, WKept, Results
<1> QED BY <1>1, <1>2, <1>3, <1>10 DEF WalkIInv

LEMMA NextWalks ==
  ASSUME OneProcess, Procs # {}
  PROVE  WalkIInv /\ [Next \/ AtRest]_vars => WalkIInv' /\ [Walk!Next]_(Walk!vars)
<1> SUFFICES ASSUME WalkIInv, [Next \/ AtRest]_vars
             PROVE  WalkIInv' /\ [Walk!Next]_(Walk!vars)
  OBVIOUS
<1>1. TypeInv' /\ CountInv' /\ ThreadInv'
  BY NextTypes, NextCount, NextThread DEF WalkIInv
<1>2. CASE UNCHANGED vars \/ AtRest
  <2>1. UNCHANGED vars
    BY <1>2 DEF AtRest
  <2>2. DoneInv' /\ \A p \in Procs : WalkAt(p)'
    BY <2>1 DEF vars, diskVars, launchVars, loopVars, stepVars, DoneInv, WalkAt, Kind, WalkIInv
  <2>3. WalkView' = WalkView
    BY <2>1 DEF vars, diskVars, launchVars, loopVars, stepVars, WalkView, Phase, Walking, WFlow,
                WTrail, WConsent, WKept, Results, Trail
  <2>4. UNCHANGED Walk!vars
    BY <2>3, ViewIs DEF Walk!vars, WalkView, WFlow, WTrail, WConsent, WKept, Results
  <2> QED BY <1>1, <2>2, <2>4 DEF WalkIInv
<1>3. ASSUME NEW p \in Procs, Step(p) PROVE WalkIInv' /\ [Walk!Next]_(Walk!vars)
  <2>1. Walker = p /\ \A q \in Procs : q = p
    BY DEF Walker, OneProcess
  <2>2. WalkInv(p)
    BY DEF WalkIInv, WalkInv, CountInv, ThreadInv
  <2>3. DoneInv'
    BY <1>3, <2>2, StepDone DEF WalkInv
  <2>4. \A q \in Procs : WalkAt(q)'
    BY <1>3, <2>1, <2>2, StepWalkAt DEF WalkInv
  <2>5. Walk!Next \/ WalkView' = WalkView
    BY <1>3, <2>1, <2>2, StepWalks
  <2>6. [Walk!Next]_(Walk!vars)
    BY <2>5, ViewIs DEF Walk!vars, WalkView, WFlow, WTrail, WConsent, WKept, Results
  <2> QED BY <1>1, <2>3, <2>4, <2>6 DEF WalkIInv
<1> QED BY <1>2, <1>3 DEF Next, Step

\* The run directory, the processes and their failures implement the walk the
\* operator is promised, when one process at a time works on the directory,
\* whatever is done to the flow file between pause and resume: every move
\* follows an edge of the flow, every gate is passed with a consent of its
\* own, a failed process falls back to what was kept or loses the run.
THEOREM WalkIsImplemented ==
  ASSUME OneProcess, Procs # {}
  PROVE  Spec => WalkRefined
<1>1. Init => WalkIInv /\ Walk!Init
  BY InitWalks
<1>2. WalkIInv /\ [Next \/ AtRest]_vars => WalkIInv' /\ [Walk!Next]_(Walk!vars)
  BY NextWalks
<1> QED BY <1>1, <1>2, PTL DEF Spec, WalkRefined, Walk!Spec

-----------------------------------------------------------------------------
(* A manifest is a walk through the flow.                                    *)

LEMMA FollowsLead ==
  ASSUME NEW step, NEW s \in Follows(step)
  PROVE  LeadsTo(step, s)
  BY DEF LeadsTo

LEMMA PassingLeads ==
  ASSUME NEW step, NEW s, LeadsTo(step, s), NEW t \in PassedTo(s)
  PROVE  LeadsTo(step, t)
  BY DEF LeadsTo

\* Each step leads to the next one.
WalkSteps(s) == \A i \in 1..(Len(s) - 1) : LeadsTo(s[i], s[i + 1].id)

LastStep(s) == s[Len(s)]

LEMMA WalkLonger ==
  ASSUME NEW s \in Seq(StepRecords), NEW r \in StepRecords, WalkSteps(s),
         s # <<>> => LeadsTo(LastStep(s), r.id)
  PROVE  WalkSteps(Append(s, r)) /\ LastStep(Append(s, r)) = r /\ Append(s, r) # <<>>
<1> DEFINE t == Append(s, r)
<1>1. /\ Len(s) \in Nat /\ Len(t) = Len(s) + 1 /\ t[Len(s) + 1] = r
      /\ \A i \in 1..Len(s) : t[i] = s[i]
  <2>1. Len(s) \in Nat /\ Len(t) = Len(s) + 1
    BY AppendProperties, LenProperties
  <2>2. t[Len(s) + 1] = r /\ \A i \in 1..Len(s) : t[i] = s[i]
    BY AppendProperties
  <2> QED BY <2>1, <2>2
<1> HIDE DEF t
<1>2. ASSUME NEW i \in 1..(Len(t) - 1) PROVE LeadsTo(t[i], t[i + 1].id)
  <2>1. CASE i \in 1..(Len(s) - 1)
    <3>1. i \in 1..Len(s) /\ i + 1 \in 1..Len(s)
      BY <1>1, <2>1
    <3>2. LeadsTo(s[i], s[i + 1].id)
      BY <2>1 DEF WalkSteps
    <3> QED BY <1>1, <3>1, <3>2
  <2>2. CASE i = Len(s) /\ Len(s) # 0
    <3>1. s # <<>> /\ i \in 1..Len(s)
      BY <1>1, <2>2, EmptySeq
    <3>2. LeadsTo(s[i], r.id)
      BY <2>2, <3>1 DEF LastStep
    <3> QED BY <1>1, <2>2, <3>1, <3>2
  <2>3. i \in 1..(Len(s) - 1) \/ (i = Len(s) /\ Len(s) # 0)
    BY <1>1
  <2> QED BY <2>1, <2>2, <2>3
<1>3. t # <<>> /\ LastStep(t) = r
  BY <1>1, EmptySeq DEF LastStep
<1> QED BY <1>2, <1>3 DEF WalkSteps, t

LEMMA NoWalk == WalkSteps(<<>>)
  BY EmptySeq DEF WalkSteps

-----------------------------------------------------------------------------

\* The last result leads to where the driver is, or it is the answer to the
\* human state the driver is about to walk through.
LedAt(p) ==
  /\ WalkSteps(Results(p))
  /\ pc[p] # "idle" /\ Results(p) # <<>> =>
       \/ LeadsTo(LastStep(Results(p)), at[p])
       \/ /\ skip[p] /\ pc[p] \in {"spawned", "loop"}
          /\ LastStep(Results(p)).kind = "human"
          /\ LastStep(Results(p)).id = at[p]

ManifestLed ==
  /\ WalkSteps(manifest.steps)
  /\ manifest.status = "paused" /\ manifest.steps # <<>> =>
       LeadsTo(LastStep(manifest.steps), manifest.at)

LedInv == ManifestLed /\ \A p \in Procs : LedAt(p)

LEMMA LedStays ==
  ASSUME NEW p \in Procs, LedAt(p), Results(p)' = Results(p),
         pc'[p] # "idle" => pc[p] # "idle" /\ at'[p] = at[p] /\ skip'[p] = skip[p],
         pc[p] \in {"spawned", "loop"} => pc'[p] \in {"idle", "spawned", "loop"}
  PROVE  LedAt(p)'
<1>1. WalkSteps(Results(p))' /\ LastStep(Results(p))' = LastStep(Results(p))
  BY DEF LedAt
<1> QED BY <1>1 DEF LedAt

\* A driver that stops walking at a state has been led to it: to a human state
\* by an edge, and to one that was human when it was answered by the edit.
LEMMA HeadLed ==
  ASSUME NEW p \in Procs, TypeInv, LedAt(p), pc[p] = "loop", Known(p),
         Kind(p) # "human" \/ ~skip[p], Results(p)' = Results(p), at'[p] = at[p]
  PROVE  LedAt(p)'
<1>1. ASSUME Results(p) # <<>> PROVE LeadsTo(LastStep(Results(p)), at[p])
  <2>1. CASE skip[p] /\ LastStep(Results(p)).kind = "human" /\ LastStep(Results(p)).id = at[p]
    <3>1. flow[p] \in Flows /\ at[p] \in StateId
      BY DeclaredIsId DEF TypeInv, FlowPlaced, Known
    <3>2. at[p] \in Edited
      BY <2>1, <3>1 DEF Edited, Known, Kind
    <3>3. at[p] \in Follows(LastStep(Results(p)))
      BY <2>1, <3>2 DEF Follows
    <3> QED BY <3>3, FollowsLead
  <2> QED BY <1>1, <2>1 DEF LedAt
<1>2. WalkSteps(Results(p))' /\ LastStep(Results(p))' = LastStep(Results(p))
  BY DEF LedAt
<1> QED BY <1>1, <1>2 DEF LedAt

\* Nobody has worked on a process that is gone.
LEMMA VanishLed ==
  ASSUME NEW p \in Procs, TypeInv, Vanish(p)
  PROVE  LedAt(p)'
<1>1. pc'[p] = "idle" /\ base'[p] = <<>> /\ done'[p] = <<>>
  BY DEF Vanish, TypeInv, TypeOK, ProcTypeOK, StepTypeOK
<1>2. Results(p)' = <<>>
  BY <1>1, EmptySeq, ConcatEmptySeq DEF Results
<1>3. WalkSteps(Results(p))'
  BY <1>2, EmptySeq DEF WalkSteps
<1> QED BY <1>1, <1>3 DEF LedAt

LEMMA StartLed ==
  ASSUME NEW p \in Procs, TypeInv, CountAt(p), Start(p)
  PROVE  LedAt(p)'
<1>1. pc[p] = "idle" /\ base'[p] = base[p] /\ done'[p] = done[p]
  BY DEF Start, stepVars
<1>2. base[p] = <<>> /\ done[p] = <<>>
  BY <1>1 DEF CountAt, Fresh
<1>3. Results(p)' = <<>>
  BY <1>1, <1>2, EmptySeq, ConcatEmptySeq DEF Results
<1>4. WalkSteps(Results(p))'
  BY <1>3, NoWalk
<1> QED BY <1>3, <1>4 DEF LedAt

\* A resume continues where the manifest paused.
LEMMA ResumeLed ==
  ASSUME NEW p \in Procs, TypeInv, CountAt(p), ManifestLed, Resume(p)
  PROVE  LedAt(p)'
<1>1. /\ pc[p] = "idle" /\ base'[p] = manifest.steps /\ done'[p] = done[p]
      /\ at'[p] = manifest.at /\ manifest.status = "paused"
      /\ manifest.steps \in Seq(StepRecords)
  BY DEF Resume, TypeInv, TypeOK, DiskTypeOK, ProcTypeOK, LoopTypeOK, StepTypeOK
<1>2. done[p] = <<>>
  BY <1>1 DEF CountAt, Fresh
<1>3. Results(p)' = manifest.steps
  BY <1>1, <1>2, ConcatEmptySeq DEF Results
<1>4. WalkSteps(Results(p))'
  BY <1>3 DEF ManifestLed
<1>5. Results(p)' # <<>> => LeadsTo(LastStep(Results(p)'), at'[p])
  BY <1>1, <1>3 DEF ManifestLed
<1> QED BY <1>4, <1>5 DEF LedAt

\* A human state that is walked through leads on.
LEMMA PassLed ==
  ASSUME NEW p \in Procs, TypeInv, LedAt(p), pc[p] # "idle",
         Known(p), Kind(p) = "human", HasNext(flow[p], at[p]),
         at'[p] = FirstNext(flow[p], at[p]), Results(p)' = Results(p)
  PROVE  LedAt(p)'
<1>1. at'[p] \in PassedTo(at[p])
  <2>1. flow[p] \in Flows
    BY DEF TypeInv, FlowPlaced
  <2> QED BY <2>1 DEF PassedTo, Known, Kind
<1>2. ASSUME Results(p) # <<>> PROVE LeadsTo(LastStep(Results(p)), at'[p])
  <2>1. CASE LeadsTo(LastStep(Results(p)), at[p])
    BY <1>1, <2>1, PassingLeads
  <2>2. CASE LastStep(Results(p)).kind = "human" /\ LastStep(Results(p)).id = at[p]
    <3>1. at'[p] \in Follows(LastStep(Results(p)))
      BY <1>1, <2>2 DEF Follows
    <3> QED BY <3>1, FollowsLead
  <2> QED BY <1>2, <2>1, <2>2 DEF LedAt
<1>3. WalkSteps(Results(p))'
  BY DEF LedAt
<1> QED BY <1>2, <1>3 DEF LedAt

LEMMA GateLed ==
  ASSUME NEW p \in Procs, TypeInv, ThreadAt(p), WalkAt(p), LedAt(p),
         \/ PassThrough(p) \/ PromptEmpty(p)
         \/ WriteMeta(p) /\ pend[p].kind = "human" /\ ~skip[p] /\ LeaveInline(p)
  PROVE  LedAt(p)'
<1>1. /\ pc[p] \in {"loop", "prompt", "meta"} /\ at'[p] = FirstNext(flow[p], at[p])
      /\ base'[p] = base[p] /\ done'[p] = done[p]
  BY DEF PassThrough, PromptEmpty, WriteMeta, LeaveInline, AtHead, stepVars,
         TypeInv, TypeOK, LoopTypeOK
<1>2. Results(p)' = Results(p)
  BY <1>1 DEF Results
<1>3. Known(p) /\ Kind(p) = "human" /\ HasNext(flow[p], at[p])
  <2>1. CASE PassThrough(p)
    BY <2>1 DEF PassThrough, AtHead, Stuck
  <2>2. CASE PromptEmpty(p)
    BY <2>2 DEF PromptEmpty, WalkAt, TypeInv, FlowPlaced
  <2>3. CASE WriteMeta(p) /\ pend[p].kind = "human" /\ ~skip[p]
    BY <2>3 DEF WriteMeta, WalkAt, TypeInv, PendPlaced
  <2> QED BY <2>1, <2>2, <2>3
<1> QED BY <1>1, <1>2, <1>3, PassLed

LEMMA FollowLed ==
  ASSUME NEW p \in Procs, TypeInv, ThreadAt(p), LedAt(p), WriteMeta(p),
         pend[p].kind # "human", FollowEdge(p)
  PROVE  LedAt(p)'
<1>1. pc[p] = "meta" /\ at'[p] = pend[p].to /\ pend[p].id = at[p]
  BY DEF WriteMeta, FollowEdge, ThreadAt, PendNumbered, TypeInv, TypeOK, LoopTypeOK
<1>2. pend[p] \in StepRecords /\ Results(p) \in Seq(StepRecords)
  BY <1>1, ResultsAreSteps DEF TypeInv, PendPlaced
<1>3. Results(p)' = Append(Results(p), pend[p])
  BY FollowEdgeResults
<1>4. Results(p) # <<>> => LeadsTo(LastStep(Results(p)), pend[p].id)
  BY <1>1 DEF LedAt
<1>5. /\ WalkSteps(Append(Results(p), pend[p]))
      /\ LastStep(Append(Results(p), pend[p])) = pend[p]
  BY <1>2, <1>4, WalkLonger DEF LedAt
<1>6. LeadsTo(pend[p], at'[p])
  BY <1>1, FollowsLead DEF Follows
<1> QED BY <1>3, <1>5, <1>6 DEF LedAt

LEMMA JoinLed ==
  ASSUME NEW p \in Procs, TypeInv, CountAt(p), ThreadAt(p), LedAt(p), WriteMeta(p),
         pend[p].kind = "human", skip[p], JoinPrior(p)
  PROVE  LedAt(p)'
<1>1. /\ pc[p] = "meta" /\ pc'[p] = "spawned" /\ at'[p] = at[p] /\ skip'[p] = skip[p]
      /\ pend[p].id = at[p] /\ done[p] = <<>>
  BY DEF WriteMeta, JoinPrior, ThreadAt, PendNumbered, CountAt, Fresh, Answering,
         TypeInv, TypeOK, ProcTypeOK
<1>2. pend[p] \in StepRecords /\ Results(p) \in Seq(StepRecords)
  BY <1>1, ResultsAreSteps DEF TypeInv, PendPlaced
<1>3. Results(p)' = Append(Results(p), pend[p])
  BY <1>1, JoinPriorResults
<1>4. Results(p) # <<>> => LeadsTo(LastStep(Results(p)), pend[p].id)
  BY <1>1 DEF LedAt
<1>5. /\ WalkSteps(Append(Results(p), pend[p]))
      /\ LastStep(Append(Results(p), pend[p])) = pend[p]
  BY <1>2, <1>4, WalkLonger DEF LedAt
<1> QED BY <1>1, <1>3, <1>5 DEF LedAt

LEMMA StepLed ==
  ASSUME NEW p \in Procs, TypeInv, CountAt(p), ThreadAt(p), WalkAt(p), ManifestLed, LedAt(p),
         Step(p)
  PROVE  LedAt(p)'
<1>1. CASE Vanish(p)
  BY <1>1, VanishLed
<1>2. CASE Fail(p) \/ Crash(p) \/ FlushManifest(p)
  BY <1>1, <1>2 DEF Fail, Crash, FlushManifest
<1>3. CASE Start(p) \/ Resume(p)
  BY <1>3, StartLed, ResumeLed
<1>4. CASE WriteMeta(p) \/ PassThrough(p) \/ PromptEmpty(p)
  BY <1>4, GateLed, FollowLed, JoinLed DEF WriteMeta
<1>5. CASE Conclude(p) \/ OpenPrompt(p) \/ Visit(p)
  <2>1. /\ pc[p] = "loop" /\ Known(p) /\ (Kind(p) # "human" \/ ~skip[p])
        /\ at' = at /\ base' = base /\ done' = done
    BY <1>5 DEF Conclude, OpenPrompt, Visit, AtHead, loopVars, stepVars
  <2> QED BY <2>1, HeadLed DEF Results
<1>6. CASE \/ Drive(p) \/ Decide(p) \/ AskAgain(p) \/ ShellExits(p) \/ PromptBody(p)
           \/ WriteContent(p) \/ TruncateManifest(p)
  <2>1. /\ pc[p] # "idle" /\ at' = at /\ skip' = skip /\ base' = base /\ done' = done
        /\ pc[p] = "spawned" => pc'[p] = "loop"
        /\ pc[p] # "loop"
    BY <1>6 DEF Drive, Decide, AskAgain, ShellExits, PromptBody, WriteContent, TruncateManifest,
                Persist, loopVars, stepVars, TypeInv, TypeOK, ProcTypeOK
  <2> QED BY <2>1, LedStays DEF Results
<1> QED
  BY <1>2, <1>3, <1>4, <1>5, <1>6
  DEF Step, Work, Prompted, Cancel, GiveUp, AgentFails, ShellFails, PromptFails

LEMMA StepManifestLed ==
  ASSUME NEW p \in Procs, TypeInv, ManifestLed, LedAt(p), Step(p)
  PROVE  ManifestLed'
<1>1. CASE UNCHANGED manifest
  BY <1>1 DEF ManifestLed
<1>2. CASE TruncateManifest(p)
  BY <1>2, NoWalk DEF TruncateManifest, Torn, ManifestLed
<1>3. CASE FlushManifest(p)
  <2>1. pc[p] = "flush" /\ manifest'.steps = Results(p) /\ manifest'.at = at[p]
    BY <1>3 DEF FlushManifest, Results
  <2>2. WalkSteps(Results(p)) /\ (Results(p) # <<>> => LeadsTo(LastStep(Results(p)), at[p]))
    BY <2>1 DEF LedAt
  <2> QED BY <2>1, <2>2 DEF ManifestLed
<1> QED
  BY <1>1, <1>2, <1>3
  DEF Step, Work, Prompted, Cancel, Crash, Fail, GiveUp, AgentFails, ShellFails, diskVars,
      PromptFails, Start, Resume, Drive, Conclude, PassThrough, OpenPrompt, Visit,
      Decide, AskAgain, ShellExits, Persist, PromptBody, PromptEmpty, WriteContent, WriteMeta

LedIInv == TypeInv /\ CountInv /\ ThreadInv /\ LedInv /\ \A p \in Procs : WalkAt(p)

LEMMA InitLed == Init => LedIInv
<1> SUFFICES ASSUME Init PROVE LedIInv
  OBVIOUS
<1>1. TypeInv /\ CountInv
  BY InitTypes, InitCount
<1>2. ThreadInv
  BY DEF Init, ThreadInv, ThreadAt, PriorOnDisk, SkipPlaced,
         HumanOnDisk, PendNumbered, EndPlaced
<1>3. \A p \in Procs : WalkAt(p)
  BY DEF Init, WalkAt, NoRecord
<1>4. ASSUME NEW p \in Procs PROVE LedAt(p)
  <2>1. pc[p] = "idle" /\ base[p] = <<>> /\ done[p] = <<>>
    BY DEF Init
  <2>2. Results(p) = <<>>
    BY <2>1, EmptySeq, ConcatEmptySeq DEF Results
  <2> QED BY <2>1, <2>2, NoWalk DEF LedAt
<1>5. ManifestLed
  BY NoWalk DEF Init, NoManifest, ManifestLed
<1> QED BY <1>1, <1>2, <1>3, <1>4, <1>5 DEF LedIInv, LedInv

LEMMA NextLed ==
  LedIInv /\ [Next \/ AtRest]_vars => LedIInv'
<1> SUFFICES ASSUME LedIInv, [Next \/ AtRest]_vars PROVE LedIInv'
  OBVIOUS
<1>1. TypeInv' /\ CountInv' /\ ThreadInv'
  BY NextTypes, NextCount, NextThread DEF LedIInv
<1>2. CASE UNCHANGED vars \/ AtRest
  <2>1. UNCHANGED vars
    BY <1>2 DEF AtRest
  <2>2. \A p \in Procs : WalkAt(p)'
    BY <2>1 DEF vars, launchVars, loopVars, WalkAt, Kind, LedIInv
  <2>3. ASSUME NEW p \in Procs PROVE LedAt(p)'
    BY <2>1, LedStays DEF vars, loopVars, stepVars, Results, LedIInv, LedInv
  <2>4. ManifestLed'
    BY <2>1 DEF vars, diskVars, ManifestLed, LedIInv, LedInv
  <2> QED BY <1>1, <2>2, <2>3, <2>4 DEF LedIInv, LedInv
<1>3. ASSUME NEW p \in Procs, Step(p) PROVE LedIInv'
  <2>1. /\ TypeInv /\ CountAt(p) /\ ThreadAt(p) /\ WalkAt(p) /\ ManifestLed /\ LedAt(p)
    BY DEF LedIInv, LedInv, CountInv, ThreadInv
  <2>2. ASSUME NEW q \in Procs PROVE LedAt(q)' /\ WalkAt(q)'
    <3>1. CASE q = p
      BY <1>3, <2>1, <3>1, StepLed, StepWalkAt
    <3>2. CASE q # p
      <4>1. Framed(q) /\ done'[q] = done[q]
        BY <1>3, <2>1, <3>2, StepFrames, StepOthers
      <4>2. LedAt(q) /\ WalkAt(q)
        BY DEF LedIInv, LedInv
      <4>3. LedAt(q)'
        BY <4>1, <4>2, LedStays DEF Framed, Results
      <4>4. WalkAt(q)'
        BY <4>1, <4>2 DEF Framed, WalkAt, Kind
      <4> QED BY <4>3, <4>4
    <3> QED BY <3>1, <3>2
  <2>3. ManifestLed'
    BY <1>3, <2>1, StepManifestLed
  <2> QED BY <1>1, <2>2, <2>3 DEF LedIInv, LedInv
<1> QED BY <1>2, <1>3 DEF Next, Step

\* Each step a manifest lists leads to the next one along the flow's edges,
\* through no more than human states passed without an answer, across
\* resumes, inline answers and failed launches, whoever else works on the
\* directory and however the flow is edited.
THEOREM ManifestsAreWalks == Spec => []ManifestIsWalk
<1>1. LedIInv => ManifestIsWalk
  BY DEF LedIInv, LedInv, ManifestLed, WalkSteps, ManifestIsWalk
<1> QED BY <1>1, InitLed, NextLed, PTL DEF Spec
============================================================================
