--------------------------- MODULE ExecutorProofs ---------------------------
(***************************************************************************)
(* Theorems about Executor, for every task: whatever it prints, whatever   *)
(* its shell leaves behind and whoever else holds the executor; about       *)
(* Transport, for every conversation with an agent: any number of senders,  *)
(* and lines that hold any number of fragments; and about DecisionParser,   *)
(* for every reply, however long.                                          *)
(***************************************************************************)
EXTENDS Executor, Transport, DecisionParser, SequenceLemmas, FiniteSetTheorems

(* A task is in `processes` from its registration until one of the two      *)
(* takes it; a stop that took it leaves nothing for a wait to take.         *)
Taken ==
    /\ entry => caller = "spawned" /\ stopper = "idle"
    /\ caller = "idle" => child = "none"
    /\ caller \in {"idle", "opening", "refused"} => stopper = "idle"
    /\ caller \in {"idle", "opening", "refused"} <=> reader = "none"
    /\ stopper \in {"killing", "stopped"} => caller \in {"spawned", "returned"}
    /\ stopper = "stopped" => child # "alive"


IInv == TaskTypes /\ Taken

LEMMA LinesAreLines ==
    ASSUME TaskTypes
    PROVE  Len(Lines) \in Nat
  <1>1. Lines \in Seq([event : STRING, text : STRING])
    BY TasksAssumption DEF TaskTypes, Lines
  <1> QED BY <1>1, LenProperties

LEMMA InitHolds == TaskInit => IInv
  <1> SUFFICES ASSUME TaskInit PROVE IInv
    OBVIOUS
  <1>1. Lines \in Seq([event : STRING, text : STRING])
    BY TasksAssumption DEF TaskInit, Lines
  <1>2. Len(Lines) \in Nat
    BY <1>1, LenProperties
  <1>3. TaskTypes
    <2>1. entry \in BOOLEAN
      BY DEF TaskInit
    <2>2. written \in 0 .. Len(Lines) /\ taken \in 0 .. written
      BY <1>2 DEF TaskInit
    <2> QED BY <2>1, <2>2 DEF TaskInit, TaskTypes
  <1> QED BY <1>3 DEF TaskInit, IInv, Taken

(* Every step keeps the types: one clause of TaskTypes at a time moves.        *)
LEMMA NextTypes == TaskTypes /\ [TaskNext]_taskVars => TaskTypes'
  <1> SUFFICES ASSUME TaskTypes, [TaskNext]_taskVars PROVE TaskTypes'
    OBVIOUS
  <1>0. Len(Lines) \in Nat
    BY LinesAreLines
  <1> USE DEF TaskTypes, Lines
  <1>1. CASE UNCHANGED taskVars
    BY <1>1 DEF taskVars
  <1>2. CASE Emit
    <2>1. child' \in {child, "broken"} /\ written < Len(Lines) /\ written' = written + 1
      BY <1>2 DEF Emit
    <2>2. UNCHANGED <<task, entry, taken, reader, caller, stopper, told>>
      BY <1>2 DEF Emit
    <2> QED BY <1>0, <2>1, <2>2
  <1>3. CASE ReadLine
    <2>1. taken < written /\ taken' = taken + 1 /\ reader' \in {"reading", "writing"}
      BY <1>3 DEF ReadLine
    <2>2. UNCHANGED <<task, entry, child, written, caller, stopper, told>>
      BY <1>3 DEF ReadLine
    <2> QED BY <1>0, <2>1, <2>2
  <1>4. CASE ShellEnds \/ SpawnChild \/ OpenFails \/ Register
    BY <1>4 DEF ShellEnds, SpawnChild, OpenFails, Register
  <1>5. CASE WriteFile \/ ReaderEnds
    BY <1>5 DEF WriteFile, ReaderEnds
  <1>6. CASE WaitBegins \/ NotFound \/ Reap \/ Return
    BY <1>6 DEF WaitBegins, NotFound, Reap, Return
  <1>7. CASE AskStatus \/ Stop \/ Kill
    BY <1>7 DEF AskStatus, Stop, Kill
  <1> QED BY <1>1, <1>2, <1>3, <1>4, <1>5, <1>6, <1>7 DEF TaskNext, Reader, Caller, World

LEMMA NextTaken == TaskTypes /\ Taken /\ [TaskNext]_taskVars => Taken'
  <1> SUFFICES ASSUME TaskTypes, Taken, [TaskNext]_taskVars PROVE Taken'
    OBVIOUS
  <1> USE DEF Taken
  <1>1. CASE UNCHANGED taskVars
    BY <1>1 DEF taskVars
  <1>2. CASE Reader
    <2>1. reader' # "none" /\ reader # "none"
      BY <1>2 DEF Reader, ReadLine, WriteFile, ReaderEnds
    <2>2. UNCHANGED <<entry, child, caller, stopper>>
      BY <1>2 DEF Reader, ReadLine, WriteFile, ReaderEnds
    <2> QED BY <2>1, <2>2
  <1>3. CASE World
    <2>1. child # "none" /\ child' # "none" /\ (child # "alive" => child' # "alive")
      BY <1>3 DEF World, Emit, ShellEnds
    <2>2. UNCHANGED <<entry, reader, caller, stopper>>
      BY <1>3 DEF World, Emit, ShellEnds
    <2> QED BY <2>1, <2>2
  <1>4. CASE SpawnChild \/ OpenFails \/ Register
    BY <1>4 DEF SpawnChild, OpenFails, Register
  <1>5. CASE WaitBegins
    BY <1>5 DEF WaitBegins
  <1>9. CASE NotFound
    <2>1. ~entry /\ ~entry' /\ caller = "spawned" /\ caller' = "returned"
      BY <1>9 DEF NotFound
    <2>2. UNCHANGED <<child, reader, stopper>>
      BY <1>9 DEF NotFound
    <2> QED BY <2>1, <2>2
  <1>10. CASE Reap \/ Return
    <2>1. /\ ~entry /\ ~entry'
          /\ caller \in {"waiting", "draining"} /\ caller' \in {"draining", "returned"}
      BY <1>10 DEF Reap, Return
    <2>2. UNCHANGED <<child, reader, stopper>>
      BY <1>10 DEF Reap, Return
    <2> QED BY <2>1, <2>2
  <1>6. CASE AskStatus
    BY <1>6 DEF AskStatus
  <1>7. CASE Stop
    BY <1>7 DEF Stop
  <1>8. CASE Kill
    BY <1>8 DEF Kill
  <1> QED BY <1>1, <1>2, <1>3, <1>4, <1>5, <1>6, <1>7, <1>8, <1>9, <1>10 DEF TaskNext, Caller

(* Every variable keeps its type: in particular the reader never takes a    *)
(* line nobody wrote, and nobody writes more than the task has to say.      *)
THEOREM TypeCorrect == TaskSpec => []TaskTypes
  <1>1. TaskInit => TaskTypes
    BY InitHolds DEF IInv
  <1> QED BY <1>1, NextTypes, PTL DEF TaskSpec

(* wait and stop never both hold the task, in any order of the two calls,   *)
(* of the exit of the shell and of what its background children print.      *)
THEOREM OneTakerHolds == TaskSpec => []OneTaker
  <1>1. IInv /\ [TaskNext]_taskVars => IInv'
    BY NextTypes, NextTaken DEF IInv
  <1>2. IInv => OneTaker
    BY DEF IInv, TaskTypes, Taken, OneTaker
  <1> QED BY <1>1, <1>2, InitHolds, PTL DEF TaskSpec

---------------------------------------------------------------------------
(* The output of a task.                                                   *)

Winner(n) == IF task.format = "json" /\ ResultsTo(n) # {}
             THEN <<Lines[Max(ResultsTo(n))].text>> ELSE NoOverride

(* The buffer is what was taken, the override the last result of it, the    *)
(* file the buffer but for the line about to be written; and a wait answers *)
(* when the reader has ended, which it does when it has taken every line    *)
(* that it can: nobody holds the pipe, or the next line is not UTF-8.       *)
OutputInv ==
    /\ buf = TextsTo(taken)
    /\ override = Winner(taken)
    /\ reader = "writing" => taken \in 1 .. Len(Lines)
    /\ task.writes /\ reader # "aborted" =>
          buf = file \o (IF reader = "writing" THEN Texts(Line) ELSE <<>>)
    /\ file \in Seq(STRING)
    /\ taken <= task.text
    /\ reader = "ended" => taken = task.text
    /\ answer.kind = "output" =>
          /\ caller = "returned" /\ reader = "ended" /\ stopper \in {"idle", "late"}
          /\ answer.out = Stdout

LEMMA LineTyped ==
    ASSUME TaskTypes
    PROVE  /\ Len(Lines) \in Nat /\ DOMAIN Lines = 1 .. Len(Lines)
           /\ \A k \in 1 .. Len(Lines) : Lines[k] \in [event : STRING, text : STRING]
           /\ task.text \in 0 .. Len(Lines)
  <1>1. Lines \in Seq([event : STRING, text : STRING])
    BY TasksAssumption DEF TaskTypes, Lines
  <1>2. task.text \in 0 .. Len(Lines)
    BY TasksAssumption DEF TaskTypes, Lines
  <1> QED BY <1>1, <1>2, LenProperties

(* One line holds at most one fragment, and a result is no text.            *)
LEMMA FragmentsOfLine ==
    ASSUME NEW line \in [event : STRING, text : STRING]
    PROVE  /\ Texts(line) \in Seq(STRING)
           /\ IF task.format # "raw" /\ line.event = "result" /\ line.text # NoText
              THEN /\ \E k \in DOMAIN Fragments(line) : Fragments(line)[k].is = "result"
                   /\ Fragments(line)[1].text = line.text
              ELSE ~ \E k \in DOMAIN Fragments(line) : Fragments(line)[k].is = "result"
  <1> DEFINE frags == Fragments(line)
             s == [k \in DOMAIN frags |->
                      IF frags[k].is = "text" THEN <<frags[k].text>> ELSE <<>>]
             Frag == [is : {"text", "tool", "result"}, text : STRING]
  <1>1. \/ frags = <<>>
        \/ \E i \in {"text", "tool", "result"} : frags = <<[is |-> i, text |-> line.text]>>
    BY DEF Fragments, ParseLine
  <1>2. IF task.format # "raw" /\ line.event = "result" /\ line.text # NoText
        THEN frags = <<[is |-> "result", text |-> line.text]>>
        ELSE frags = <<>> \/ \E i \in {"text", "tool"} : frags = <<[is |-> i, text |-> line.text]>>
    BY DEF Fragments, ParseLine
  <1> HIDE DEF frags
  <1>3. frags \in Seq(Frag)
    <2>1. \A i \in {"text", "tool", "result"} : [is |-> i, text |-> line.text] \in Frag
      OBVIOUS
    <2> HIDE DEF Frag
    <2>2. \A i \in {"text", "tool", "result"} : <<[is |-> i, text |-> line.text]>> \in Seq(Frag)
      BY <2>1, Singleton
    <2> QED BY <1>1, <2>2, EmptySeq
  <1>4. DOMAIN frags = 1 .. Len(frags) /\ Len(frags) \in Nat
        /\ \A k \in 1 .. Len(frags) : frags[k] \in Frag
    BY <1>3, LenProperties
  <1>5. s \in Seq(Seq(STRING))
    <2>1. \A x \in Frag : (IF x.is = "text" THEN <<x.text>> ELSE <<>>) \in Seq(STRING)
      <3> TAKE x \in Frag
      <3>1. <<x.text>> \in Seq(STRING)
        BY Singleton
      <3> QED BY <3>1, EmptySeq
    <2> HIDE DEF Frag
    <2>2. \A k \in 1 .. Len(frags) : s[k] \in Seq(STRING)
      BY <1>4, <2>1
    <2> QED BY <1>4, <2>2, IsASeq
  <1>6. FlattenSeq(s) \in Seq(STRING)
    <2> HIDE DEF s
    <2> QED BY <1>5, FlatAppend, EmptySeq
  <1>7. Texts(line) \in Seq(STRING)
    BY <1>6 DEF Texts, s, frags
  <1>8. IF task.format # "raw" /\ line.event = "result" /\ line.text # NoText
        THEN 1 \in DOMAIN frags /\ frags[1].is = "result" /\ frags[1].text = line.text
        ELSE \A k \in DOMAIN frags : frags[k].is # "result"
    <2>1. ASSUME NEW i \in {"text", "tool", "result"}, frags = <<[is |-> i, text |-> line.text]>>
          PROVE  DOMAIN frags = {1} /\ frags[1].is = i /\ frags[1].text = line.text
      BY <2>1, Singleton
    <2>2. frags = <<>> => DOMAIN frags = {}
      OBVIOUS
    <2> QED BY <1>2, <2>1, <2>2
  <1> QED BY <1>7, <1>8 DEF frags

LEMMA TextsNext ==
    ASSUME TaskTypes, NEW n \in Nat, n < Len(Lines)
    PROVE  /\ Texts(Lines[n + 1]) \in Seq(STRING)
           /\ TextsTo(n) \in Seq(STRING)
           /\ TextsTo(n + 1) = TextsTo(n) \o Texts(Lines[n + 1])
  <1> DEFINE g == [k \in 1 .. Len(Lines) |-> Texts(Lines[k])]
  <1>1. \A k \in 1 .. n + 1 : k \in 1 .. Len(Lines) /\ g[k] = Texts(Lines[k])
    BY LineTyped
  <1>2. \A k \in 1 .. n + 1 : g[k] \in Seq(STRING)
    BY <1>1, LineTyped, FragmentsOfLine
  <1>3. /\ [k \in 1 .. n |-> g[k]] = [k \in 1 .. n |-> Texts(Lines[k])]
        /\ [k \in 1 .. n + 1 |-> g[k]] = [k \in 1 .. n + 1 |-> Texts(Lines[k])]
    BY <1>1
  <1>4. g[n + 1] = Texts(Lines[n + 1]) /\ g[n + 1] \in Seq(STRING)
    BY <1>1, <1>2
  <1> HIDE DEF g
  <1>5. /\ FlattenSeq([k \in 1 .. n |-> g[k]]) \in Seq(STRING)
        /\ FlattenSeq([k \in 1 .. n + 1 |-> g[k]]) =
              FlattenSeq([k \in 1 .. n |-> g[k]]) \o g[n + 1]
    BY <1>2, FlatLonger
  <1> QED BY <1>3, <1>4, <1>5 DEF TextsTo

LEMMA TextsTyped ==
    ASSUME TaskTypes
    PROVE  /\ TextsTo(0) = <<>>
           /\ \A n \in 0 .. Len(Lines) : TextsTo(n) \in Seq(STRING)
  <1>1. TextsTo(0) = <<>>
    <2>1. [k \in 1 .. 0 |-> Texts(Lines[k])] = <<>>
      OBVIOUS
    <2> QED BY <2>1, FlatAppend, EmptySeq DEF TextsTo
  <1>2. ASSUME NEW n \in 0 .. Len(Lines) PROVE TextsTo(n) \in Seq(STRING)
    <2>1. CASE n = 0
      BY <1>1, <2>1, EmptySeq
    <2>2. CASE n # 0
      <3>1. n - 1 \in Nat /\ n - 1 < Len(Lines) /\ n - 1 + 1 = n
        BY <2>2, LineTyped
      <3> DEFINE m == n - 1
      <3>2. m \in Nat /\ m < Len(Lines)
        BY <3>1
      <3> HIDE DEF m
      <3>3. TextsTo(m + 1) \in Seq(STRING)
        BY <3>2, TextsNext, ConcatProperties
      <3> QED BY <3>1, <3>3 DEF m
    <2> QED BY <2>1, <2>2
  <1> QED BY <1>1, <1>2

LEMMA MaxOf ==
    ASSUME NEW S, S \subseteq Nat, NEW x \in S, \A y \in S : y <= x
    PROVE  Max(S) = x
  <1>1. \A y \in S : x >= y
    OBVIOUS
  <1>2. \A z \in S : (\A y \in S : z >= y) => z = x
    OBVIOUS
  <1>3. Max(S) \in S /\ \A y \in S : Max(S) >= y
    BY <1>1 DEF Max
  <1> QED BY <1>2, <1>3

(* A bounded set of numbers has a largest. *)
LEMMA MaxExists ==
    ASSUME NEW n \in Nat, NEW S, S \subseteq 1 .. n, S # {}
    PROVE  Max(S) \in S
  <1> DEFINE T == {n - x : x \in S}
  <1>1. T \subseteq Nat /\ T # {}
    OBVIOUS
  <1>2. PICK d \in T : \A m \in T : d <= m
    <2> HIDE DEF T
    <2> QED BY <1>1, Least
  <1>3. PICK x \in S : d = n - x
    BY <1>2
  <1>4. \A y \in S : y <= x
    <2> TAKE y \in S
    <2>1. n - y \in T
      OBVIOUS
    <2>2. d <= n - y
      BY <1>2, <2>1
    <2> QED BY <1>3, <2>2
  <1>5. S \subseteq Nat
    OBVIOUS
  <1> QED BY <1>3, <1>4, <1>5, MaxOf

LEMMA ResultsAre ==
    ASSUME NEW m \in Nat, NEW k
    PROVE  k \in ResultsTo(m) <=> k \in 1 .. m /\ Lines[k].event = "result" /\ Lines[k].text # NoText
  BY Zenon DEF ResultsTo

(* The override follows the results as they come. *)
LEMMA WinnerNext ==
    ASSUME TaskTypes, NEW n \in Nat, n < Len(Lines)
    PROVE  LET line == Lines[n + 1]
           IN  Winner(n + 1) = IF \E k \in DOMAIN Fragments(line) : Fragments(line)[k].is = "result"
                               THEN <<Fragments(line)[1].text>> ELSE Winner(n)
  <1> DEFINE line == Lines[n + 1]
             new == \E k \in DOMAIN Fragments(line) : Fragments(line)[k].is = "result"
  <1>1. line \in [event : STRING, text : STRING]
    BY LineTyped
  <1>2. task.format \in {"raw", "json"}
    BY TasksAssumption DEF TaskTypes
  <1>3. /\ new <=> task.format = "json" /\ line.event = "result" /\ line.text # NoText
        /\ new => Fragments(line)[1].text = line.text
    BY <1>1, <1>2, FragmentsOfLine
  <1>4. ResultsTo(n + 1) \subseteq Nat /\ \A y \in ResultsTo(n + 1) : y <= n + 1
    BY ResultsAre
  <1>5. ASSUME new PROVE Winner(n + 1) = <<line.text>>
    <2>1. n + 1 \in ResultsTo(n + 1) /\ task.format = "json"
      BY <1>3, <1>5, ResultsAre
    <2>2. Max(ResultsTo(n + 1)) = n + 1
      BY <1>4, <2>1, MaxOf
    <2> QED BY <2>1, <2>2 DEF Winner
  <1>6. ASSUME ~new PROVE Winner(n + 1) = Winner(n)
    <2>1. task.format = "json" => \A k : k \in ResultsTo(n + 1) <=> k \in ResultsTo(n)
      BY <1>3, <1>6, ResultsAre
    <2>2. task.format = "json" => ResultsTo(n + 1) = ResultsTo(n)
      BY <2>1, Zenon
    <2> QED BY <2>2 DEF Winner
  <1> QED BY <1>3, <1>5, <1>6

LEMMA InitOutput == TaskInit => OutputInv
  <1> SUFFICES ASSUME TaskInit PROVE OutputInv
    OBVIOUS
  <1>1. TaskTypes
    BY InitHolds DEF IInv
  <1>2. ResultsTo(0) = {}
    BY DEF ResultsTo
  <1>3. <<>> \o <<>> = <<>> /\ <<>> \in Seq(STRING)
    BY EmptySeq
  <1> QED BY <1>1, <1>2, <1>3, TextsTyped, LineTyped DEF TaskInit, OutputInv, Winner, NoAnswer

LEMMA SceneStays ==
    ASSUME UNCHANGED task, NEW m \in Nat
    PROVE  TextsTo(m)' = TextsTo(m) /\ Winner(m)' = Winner(m)
  BY DEF TextsTo, Winner, ResultsTo, Texts, Fragments, ParseLine, Lines

(* What a step that neither reads, writes nor answers has to leave alone.   *)
LEMMA OutputStays ==
    ASSUME OutputInv,
           UNCHANGED <<task, taken, buf, override, file, answer>>,
           reader' = "writing" <=> reader = "writing",
           reader = "aborted" => reader' = "aborted",
           reader' = "ended" => reader = "ended",
           answer.kind = "output" => UNCHANGED <<caller, reader, stopper>>
    PROVE  OutputInv'
  <1>1. Lines' = Lines /\ TextsTo(taken)' = TextsTo(taken) /\ Winner(taken)' = Winner(taken)
        /\ Texts(Line)' = Texts(Line) /\ Stdout' = Stdout
    BY DEF TextsTo, Winner, ResultsTo, Texts, Fragments, ParseLine, Lines, Line, Stdout
  <1> QED BY <1>1 DEF OutputInv

LEMMA ReadOutput ==
    ASSUME TaskTypes, Taken, OutputInv, ReadLine
    PROVE  OutputInv'
  <1> DEFINE line == Lines[taken + 1]
             frags == Fragments(line)
  <1>1. /\ taken \in Nat /\ taken < Len(Lines) /\ Len(Lines) \in Nat
        /\ taken + 1 \in 1 .. Len(Lines) /\ taken + 1 <= task.text
    BY LineTyped DEF TaskTypes, ReadLine
  <1>2. /\ taken' = taken + 1 /\ buf' = buf \o Texts(line)
        /\ override' = IF \E k \in DOMAIN frags : frags[k].is = "result"
                       THEN <<frags[1].text>> ELSE override
        /\ reader' = IF Texts(line) = <<>> THEN "reading" ELSE "writing"
        /\ reader = "reading"
        /\ UNCHANGED <<task, entry, child, written, file, caller, answer, stopper, told>>
    BY DEF ReadLine
  <1>3. Lines' = Lines /\ Line' = line
    BY <1>2 DEF Lines, Line
  <1>5. TextsTo(taken)' = TextsTo(taken + 1) /\ Winner(taken)' = Winner(taken + 1)
    <2>1. PICK m \in Nat : m = taken + 1
      BY <1>1
    <2>2. TextsTo(m)' = TextsTo(m) /\ Winner(m)' = Winner(m)
      BY SceneStays, <1>2
    <2>3. TextsTo(taken)' = TextsTo(m)' /\ Winner(taken)' = Winner(m)'
      BY <1>2, <2>1 DEF TextsTo, Winner, ResultsTo
    <2> QED BY <2>1, <2>2, <2>3
  <1>6. buf' = TextsTo(taken)' /\ override' = Winner(taken)'
    BY <1>1, <1>2, <1>5, TextsNext, WinnerNext DEF OutputInv
  <1>7. task.writes => buf' = file \o (IF reader' = "writing" THEN Texts(line) ELSE <<>>)
    <2> SUFFICES ASSUME task.writes PROVE buf' = file \o Texts(line)
      BY <1>2
    <2>1. buf = file \o <<>> /\ file \in Seq(STRING)
      BY <1>2 DEF OutputInv
    <2> QED BY <1>2, <2>1, ConcatEmptySeq
  <1>8. answer.kind # "output"
    BY SMTT(30), <1>2 DEF OutputInv
  <1>9. Texts(Line)' = Texts(line)
    BY Zenon, <1>2, <1>3 DEF Texts, Fragments, ParseLine
  <1> HIDE DEF line, frags
  <1> QED BY <1>1, <1>2, <1>3, <1>6, <1>7, <1>8, <1>9 DEF OutputInv

LEMMA WriteOutput ==
    ASSUME TaskTypes, OutputInv, WriteFile
    PROVE  OutputInv'
  <1>1. /\ reader = "writing" /\ reader' = "reading"
        /\ UNCHANGED <<task, entry, child, written, taken, buf, override, caller, answer,
                       stopper, told>>
    BY DEF WriteFile
  <1>2. PICK wrote \in IF task.writes THEN {TRUE} ELSE BOOLEAN :
           file' = IF wrote THEN file \o Texts(Line) ELSE file
    BY DEF WriteFile
  <1>3. Line \in [event : STRING, text : STRING]
    BY <1>1, LineTyped DEF OutputInv, Line
  <1>4. Texts(Line) \in Seq(STRING) /\ file \in Seq(STRING)
    BY <1>3, FragmentsOfLine DEF OutputInv
  <1>5. file' \in Seq(STRING)
    BY <1>2, <1>4, ConcatProperties
  <1>6. task.writes => buf' = file' \o <<>>
    <2> SUFFICES ASSUME task.writes PROVE buf' = file' \o <<>>
      OBVIOUS
    <2>1. buf = file \o Texts(Line) /\ file' = file \o Texts(Line)
      BY <1>1, <1>2 DEF OutputInv
    <2> QED BY <1>1, <1>5, <2>1, ConcatEmptySeq
  <1>7. answer.kind # "output"
    BY <1>1 DEF OutputInv
  <1>8. TextsTo(taken)' = TextsTo(taken) /\ Winner(taken)' = Winner(taken)
    BY <1>1 DEF TextsTo, Winner, ResultsTo, Texts, Fragments, ParseLine, Lines
  <1> QED BY <1>1, <1>5, <1>6, <1>7, <1>8 DEF OutputInv

LEMMA NextOutput == TaskTypes /\ Taken /\ OutputInv /\ [TaskNext]_taskVars => OutputInv'
  <1> SUFFICES ASSUME TaskTypes, Taken, OutputInv, [TaskNext]_taskVars PROVE OutputInv'
    OBVIOUS
  <1>1. CASE UNCHANGED taskVars
    BY <1>1, OutputStays DEF taskVars
  <1>2. CASE ReaderEnds
    <2>1. /\ reader = "reading" /\ reader' = "ended"
          /\ IF taken = written THEN ~PipeOpen ELSE taken = task.text
          /\ UNCHANGED <<task, written, child, taken, buf, override, file, answer>>
      BY <1>2 DEF ReaderEnds
    <2>2. taken = task.text
      <3>1. CASE taken = written
        BY <2>1, <3>1, LineTyped DEF PipeOpen, TaskTypes, OutputInv
      <3>2. CASE taken # written
        BY <2>1, <3>2
      <3> QED BY <3>1, <3>2
    <2>3. answer.kind # "output"
      BY <2>1 DEF OutputInv
    <2>4. Lines' = Lines /\ TextsTo(taken)' = TextsTo(taken) /\ Winner(taken)' = Winner(taken)
      BY <2>1 DEF TextsTo, Winner, ResultsTo, Texts, Fragments, ParseLine, Lines
    <2> QED BY <2>1, <2>2, <2>3, <2>4 DEF OutputInv
  <1>3. CASE Emit
    BY <1>3, OutputStays DEF Emit
  <1>4. CASE ShellEnds
    BY <1>4, OutputStays DEF ShellEnds
  <1>5. CASE SpawnChild \/ OpenFails \/ Register
    <2>1. reader = "none" /\ answer.kind # "output"
      BY <1>5 DEF SpawnChild, OpenFails, Register, Taken, OutputInv
    <2> QED BY <1>5, <2>1, OutputStays DEF SpawnChild, OpenFails, Register
  <1>6. CASE WaitBegins \/ Reap
    <2>1. answer.kind # "output"
      BY <1>6 DEF WaitBegins, Reap, OutputInv
    <2> QED BY <1>6, <2>1, OutputStays DEF WaitBegins, Reap
  <1>7. CASE NotFound
    <2>1. /\ answer'.kind # "output"
          /\ UNCHANGED <<task, child, written, taken, reader, buf, override, file, stopper>>
      BY <1>7 DEF NotFound
    <2>2. Lines' = Lines /\ TextsTo(taken)' = TextsTo(taken) /\ Winner(taken)' = Winner(taken)
          /\ Texts(Line)' = Texts(Line)
      BY <2>1 DEF TextsTo, Winner, ResultsTo, Texts, Fragments, ParseLine, Lines, Line
    <2> QED BY <2>1, <2>2 DEF OutputInv
  <1>8. CASE Return
    <2>1. /\ answer' = WaitResult /\ caller' = "returned" /\ caller = "draining" /\ reader = "ended"
          /\ UNCHANGED <<task, child, written, taken, reader, buf, override, file, stopper>>
      BY <1>8 DEF Return
    <2>2. Lines' = Lines /\ TextsTo(taken)' = TextsTo(taken) /\ Winner(taken)' = Winner(taken)
          /\ Texts(Line)' = Texts(Line) /\ Stdout' = Stdout
      BY <2>1 DEF TextsTo, Winner, ResultsTo, Texts, Fragments, ParseLine, Lines, Line, Stdout
    <2>3. stopper \in {"idle", "late"}
      BY <2>1 DEF Taken, TaskTypes
    <2>4. answer'.kind = "output" => answer'.out = Stdout
      BY <2>1 DEF WaitResult
    <2> QED BY <2>1, <2>2, <2>3, <2>4 DEF OutputInv
  <1>9. CASE AskStatus
    BY <1>9, OutputStays DEF AskStatus
  <1>10. CASE Stop
    <2>1. answer.kind # "output"
      BY <1>10 DEF Stop, OutputInv
    <2> QED BY <1>10, <2>1, OutputStays DEF Stop
  <1>11. CASE Kill
    <2>1. answer.kind # "output"
      BY <1>11 DEF Kill, OutputInv
    <2>2. reader' = (IF reader = "ended" THEN reader ELSE "aborted") /\ reader' # "writing"
          /\ UNCHANGED <<task, written, taken, buf, override, file, answer>>
          /\ (child' = "alive" => child = "alive")
      BY <1>11 DEF Kill
    <2>3. Lines' = Lines /\ TextsTo(taken)' = TextsTo(taken) /\ Winner(taken)' = Winner(taken)
      BY <2>2 DEF TextsTo, Winner, ResultsTo, Texts, Fragments, ParseLine, Lines
    <2> QED BY <2>1, <2>2, <2>3 DEF OutputInv
  <1> QED BY <1>1, <1>2, <1>3, <1>4, <1>5, <1>6, <1>7, <1>8, <1>9, <1>10, <1>11,
             ReadOutput, WriteOutput DEF TaskNext, Reader, Caller, World

(* A result is no blank text: trim leaves it alone. *)
LEMMA TrimOne ==
    ASSUME NEW t \in STRING, t # NoText
    PROVE  Trim(<<t>>) = <<t>>
  <1>1. {k \in DOMAIN <<t>> : <<t>>[k] # NoText} = {1}
    BY Singleton
  <1>2. Min({1}) = 1 /\ Max({1}) = 1
    <2>1. {1} \subseteq Nat /\ 1 \in {1} /\ \A y \in {1} : y <= 1
      OBVIOUS
    <2>2. Max({1}) = 1
      BY <2>1, MaxOf
    <2>3. \E x \in {1} : \A y \in {1} : x <= y
      OBVIOUS
    <2>4. Min({1}) \in {1}
      BY <2>3 DEF Min
    <2> QED BY <2>2, <2>4
  <1>3. SubSeq(<<t>>, 1, 1) = <<t>>
    BY Singleton, SubSeqFull
  <1> QED BY <1>1, <1>2, <1>3 DEF Trim

(* What wait returns is made of every line that comes before the first that *)
(* is not UTF-8, whoever wrote it and whenever, and however the writes to   *)
(* the artifact went: the reader has taken just those lines when it ends,   *)
(* and the buffer, the override and the file are what they make of them.    *)
THEOREM OutputIsWhole == TaskSpec => []WholeOutput
  <1>1. TaskTypes /\ Taken /\ OutputInv => WholeOutput
    <2> DEFINE n == task.text
    <2> SUFFICES ASSUME TaskTypes, OutputInv, answer.kind = "output"
                 PROVE  /\ stopper \in {"idle", "late"}
                        /\ task.writes => file = TextsTo(n)
                        /\ answer.out = IF task.format = "json" /\ ResultsTo(n) # {}
                                        THEN <<Lines[Max(ResultsTo(n))].text>>
                                        ELSE Trim(TextsTo(n))
      BY DEF WholeOutput
    <2>0. n \in Nat /\ n <= Len(Lines)
      BY LineTyped
    <2>1. /\ stopper \in {"idle", "late"} /\ reader = "ended" /\ taken = n
          /\ buf = TextsTo(n) /\ override = Winner(n)
          /\ answer.out = Trim(IF override # NoOverride THEN override ELSE buf)
      BY DEF OutputInv, Stdout
    <2>2. task.writes => file = TextsTo(n)
      BY <2>1, ConcatEmptySeq DEF OutputInv
    <2>3. ASSUME task.format = "json", ResultsTo(n) # {}
          PROVE  answer.out = <<Lines[Max(ResultsTo(n))].text>>
      <3> DEFINE k == Max(ResultsTo(n))
      <3>1. k \in ResultsTo(n)
        <4>1. ResultsTo(n) \subseteq 1 .. n
          BY DEF ResultsTo
        <4> HIDE DEF n
        <4> QED BY <2>0, <2>3, <4>1, MaxExists
      <3>2. Lines[k].text \in STRING /\ Lines[k].text # NoText
        <4> HIDE DEF n, k
        <4>1. k \in 1 .. n /\ Lines[k].text # NoText
          BY <2>0, <3>1, ResultsAre
        <4>2. k \in 1 .. Len(Lines)
          BY <2>0, <4>1, LineTyped
        <4> QED BY <4>1, <4>2, LineTyped
      <3>3. override = <<Lines[k].text>>
        BY <2>1, <2>3 DEF Winner
      <3> HIDE DEF k, n
      <3>4. override # NoOverride
        BY <3>3 DEF NoOverride
      <3> QED BY <2>1, <3>2, <3>3, <3>4, TrimOne DEF k
    <2>4. ASSUME ~(task.format = "json" /\ ResultsTo(n) # {})
          PROVE  answer.out = Trim(TextsTo(n))
      BY <2>1, <2>4 DEF Winner
    <2> QED BY <2>1, <2>2, <2>3, <2>4
  <1>2. TaskInit => TaskTypes /\ Taken /\ OutputInv
    BY InitHolds, InitOutput DEF IInv
  <1>3. TaskTypes /\ Taken /\ OutputInv /\ [TaskNext]_taskVars => TaskTypes' /\ Taken' /\ OutputInv'
    BY NextTypes, NextTaken, NextOutput
  <1> QED BY <1>1, <1>2, <1>3, PTL DEF TaskSpec

---------------------------------------------------------------------------
(* The transport.                                                          *)

LEMMA SpokenNext ==
    ASSUME setting \in Settings, NEW n \in Nat, n < Len(setting.lines)
    PROVE  /\ Spoken(0) = <<>>
           /\ Spoken(n) \in Seq(STRING) /\ setting.lines[n + 1] \in Seq(STRING)
           /\ Spoken(n + 1) = Spoken(n) \o setting.lines[n + 1]
  <1> DEFINE lines == setting.lines
             s == SubSeq(lines, 1, n)
             t == SubSeq(lines, 1, n + 1)
             e == lines[n + 1]
  <1>1. lines \in Seq(Seq(STRING)) /\ Len(lines) \in Nat
    BY TransportAssumption, LenProperties
  <1>2. e \in Seq(STRING) /\ n + 1 \in 1 .. Len(lines)
    BY <1>1, LenProperties
  <1> HIDE DEF e
  <1>3. s \in Seq(Seq(STRING)) /\ Len(s) = n /\ \A i \in 1 .. n : s[i] = lines[i]
    BY <1>1, SubSeqProperties
  <1>4. t \in Seq(Seq(STRING)) /\ Len(t) = n + 1 /\ \A i \in 1 .. n + 1 : t[i] = lines[i]
    BY SMTT(30), <1>1, <1>2, SubSeqProperties
  <1>5. SubSeq(lines, 1, 0) = <<>>
    <2>1. SubSeq(lines, 1, 0) \in Seq(Seq(STRING)) /\ Len(SubSeq(lines, 1, 0)) = 0
      BY <1>1, SubSeqProperties
    <2> QED BY <2>1, EmptySeq
  <1>6. t = Append(s, e)
    <2> HIDE DEF s, t
    <2>1. /\ Append(s, e) \in Seq(Seq(STRING)) /\ Len(Append(s, e)) = n + 1
          /\ \A i \in 1 .. n : Append(s, e)[i] = s[i]
          /\ Append(s, e)[n + 1] = e
      BY <1>2, <1>3, AppendProperties
    <2>2. \A i \in 1 .. n + 1 : Append(s, e)[i] = t[i]
      <3> TAKE i \in 1 .. n + 1
      <3>1. i \in 1 .. n \/ i = n + 1
        OBVIOUS
      <3> QED BY <1>3, <1>4, <2>1, <3>1 DEF e
    <2> QED BY <1>4, <2>1, <2>2, SeqEqual
  <1> HIDE DEF s, t
  <1>7. FlattenSeq(<<>>) = <<>> /\ FlattenSeq(s) \in Seq(STRING) /\ FlattenSeq(t) = FlattenSeq(s) \o e
    BY <1>2, <1>3, <1>6, FlatAppend
  <1> QED BY <1>2, <1>5, <1>7 DEF Spoken, s, t, e

Ended == {"exited", "killed"}

Pieces == {"head", "tail"}

TransportTypes ==
    /\ setting \in Settings
    /\ agent \in {"none", "alive"} \cup Ended
    /\ said \in 0 .. Len(setting.lines) /\ parsed \in 0 .. said
    /\ sending \in BOOLEAN
    /\ oks \in Nat
    /\ wire \in Seq(Pieces)
    /\ parser \in {"none", "reading", "ended", "gone"}
    /\ channel \in Seq(STRING) /\ received \in Seq(STRING)
    /\ eof \in BOOLEAN
    /\ owner \in {"spawning", "using", "closing", "reaped", "closed", "dropped"}

(* Only the line that is being written, or that the agent's exit cut, has   *)
(* no tail, and it is the last of the wire: nobody writes to an agent that  *)
(* ended.                                                                   *)
Alternates(w) == \A k \in 1 .. Len(w) : w[k] = IF k % 2 = 1 THEN "head" ELSE "tail"

WireInv ==
    /\ Alternates(wire)
    /\ Len(wire) \in {2 * oks, 2 * oks + 1}
    /\ sending => Len(wire) = 2 * oks + 1 /\ agent # "none"
    /\ ~sending /\ agent \notin Ended => Len(wire) = 2 * oks
    /\ owner = "spawning" => agent = "none"

(* What was parsed is in the channel or received; an end is the last.       *)
HeardInv ==
    /\ owner # "dropped" => received \o channel = Spoken(parsed)
    /\ parsed <= setting.text
    /\ parser = "ended" => parsed = setting.text \/ (parsed = said /\ agent \in Ended)
    /\ eof => parser = "ended" /\ received = Spoken(parsed)
    /\ owner = "spawning" => parser = "none"

TransportInv == TransportTypes /\ WireInv /\ HeardInv

LEMMA LinesFinite ==
    TransportTypes => Len(setting.lines) \in Nat /\ setting.text \in 0 .. Len(setting.lines)
  BY TransportAssumption, LenProperties DEF TransportTypes

LEMMA TransportBegins == TInit => TransportInv
  <1> SUFFICES ASSUME TInit PROVE TransportInv
    OBVIOUS
  <1>1. Len(setting.lines) \in Nat /\ setting.text \in 0 .. Len(setting.lines)
    BY TransportAssumption, LenProperties DEF TInit
  <1>2. TransportTypes
    <2>1. <<>> \in Seq(STRING) /\ <<>> \in Seq(Pieces)
      BY EmptySeq
    <2>2. said \in 0 .. Len(setting.lines) /\ parsed \in 0 .. said /\ oks \in Nat
      BY <1>1 DEF TInit
    <2>3. eof \in BOOLEAN /\ sending \in BOOLEAN
      BY DEF TInit
    <2> QED BY <2>1, <2>2, <2>3 DEF TInit, TransportTypes
  <1>3. WireInv
    <2>1. Len(wire) = 0 /\ oks = 0 /\ sending = FALSE
      BY EmptySeq DEF TInit
    <2> QED BY <2>1 DEF TInit, WireInv, Alternates
  <1>4. SubSeq(setting.lines, 1, 0) = <<>>
    <2>1. setting.lines \in Seq(Seq(STRING))
      BY TransportAssumption DEF TInit
    <2>2. SubSeq(setting.lines, 1, 0) \in Seq(Seq(STRING)) /\ Len(SubSeq(setting.lines, 1, 0)) = 0
      BY <1>1, <2>1, SubSeqProperties
    <2> QED BY <2>2, EmptySeq
  <1>5. Spoken(0) = <<>>
    BY <1>4 DEF Spoken, FlattenSeq
  <1>6. HeardInv
    BY <1>1, <1>5, ConcatEmptySeq, EmptySeq DEF TInit, HeardInv
  <1> QED BY <1>2, <1>3, <1>6 DEF TransportInv

LEMMA TransportTypesKept == TransportTypes /\ [TNext]_tvars => TransportTypes'
  <1> SUFFICES ASSUME TransportTypes, [TNext]_tvars PROVE TransportTypes'
    OBVIOUS
  <1>1. Len(setting.lines) \in Nat
    BY LinesFinite
  <1> USE DEF TransportTypes, Ended, sendVars, hearVars
  <1>2. CASE UNCHANGED tvars
    BY <1>2 DEF tvars
  <1>3. CASE SpawnAgent
    BY <1>3 DEF SpawnAgent
  <1>4. CASE Send
    <2>1. wire' \in Seq(Pieces)
      <3>1. wire' = wire \/ \E x \in Pieces : wire' = Append(wire, x)
        BY <1>4 DEF Send, WriteHead, WriteTail, Pieces
      <3>2. wire \in Seq(Pieces)
        OBVIOUS
      <3>3. \A x \in Pieces : Append(wire, x) \in Seq(Pieces)
        BY <3>2, AppendProperties
      <3> QED BY <3>1, <3>2, <3>3
    <2>2. sending' \in BOOLEAN
      BY Zenon, <1>4 DEF Send, WriteHead, WriteTail
    <2>4. oks' \in Nat
      BY <1>4 DEF Send, WriteHead, WriteTail
    <2>3. UNCHANGED <<setting, agent, said, parsed, parser, channel, received, eof, owner>>
      BY <1>4 DEF Send, WriteHead, WriteTail
    <2> QED BY <2>1, <2>2, <2>3, <2>4
  <1>7. CASE Say
    BY <1>1, <1>7 DEF Say
  <1>8. CASE AgentExits
    BY <1>8 DEF AgentExits
  <1>9. CASE Parse
    <2>1. parsed \in Nat /\ parsed < Len(setting.lines)
      BY <1>1, <1>9 DEF Parse
    <2>2. setting.lines[parsed + 1] \in Seq(STRING)
      BY <2>1, SpokenNext
    <2>3. channel' \in Seq(STRING)
      <3>1. channel' = channel \/ channel' = channel \o setting.lines[parsed + 1]
        BY <1>9 DEF Parse
      <3> DEFINE e == setting.lines[parsed + 1]
      <3>2. e \in Seq(STRING) /\ channel \in Seq(STRING)
        BY <2>2
      <3> HIDE DEF e
      <3>3. channel \o e \in Seq(STRING)
        BY <3>2, ConcatProperties
      <3> QED BY <3>1, <3>2, <3>3 DEF e
    <2>4. parsed' \in 0 .. said /\ parser' \in {"reading", "gone"}
      BY <1>1, <1>9 DEF Parse
    <2> QED BY <1>9, <2>3, <2>4 DEF Parse
  <1>10. CASE ParserEnds
    BY <1>10 DEF ParserEnds
  <1>11. CASE Recv
    <2>1. channel' \in Seq(STRING) /\ received' \in Seq(STRING)
      <3>1. CASE channel # <<>>
        <4>1. received' = Append(received, Head(channel)) /\ channel' = Tail(channel)
          BY <1>11, <3>1 DEF Recv
        <4>2. Head(channel) \in STRING /\ Tail(channel) \in Seq(STRING)
          BY <3>1, HeadTailProperties
        <4> QED BY <4>1, <4>2, AppendProperties
      <3>2. CASE channel = <<>>
        BY <1>11, <3>2 DEF Recv
      <3> QED BY <3>1, <3>2
    <2> QED BY <1>11, <2>1 DEF Recv
  <1>12. CASE Drop
    <2>1. channel' \in Seq(STRING)
      BY <1>12, EmptySeq DEF Drop
    <2> QED BY <1>12, <2>1 DEF Drop
  <1>13. CASE CloseStdin \/ ReapAgent \/ Closed
    BY <1>13 DEF CloseStdin, ReapAgent, Closed
  <1> QED BY <1>2, <1>3, <1>4, <1>7, <1>8, <1>9, <1>10, <1>11, <1>12, <1>13
          DEF TNext, HearAgent, End

(* A piece more, of the kind that is due, and the pieces still alternate.   *)
LEMMA PieceMore ==
    ASSUME NEW w \in Seq(Pieces), Alternates(w), NEW n \in Nat, NEW x \in Pieces,
           \/ Len(w) = 2 * n /\ x = "head"
           \/ Len(w) = 2 * n + 1 /\ x = "tail"
    PROVE  Alternates(Append(w, x)) /\ Len(Append(w, x)) = Len(w) + 1
  <1>1. /\ Len(w) \in Nat /\ Len(Append(w, x)) = Len(w) + 1
        /\ \A k \in 1 .. Len(w) : Append(w, x)[k] = w[k]
        /\ Append(w, x)[Len(w) + 1] = x
    BY AppendProperties, LenProperties
  <1>2. x = IF (Len(w) + 1) % 2 = 1 THEN "head" ELSE "tail"
    <2>1. (2 * n + 1) % 2 = 1 /\ (2 * n + 1 + 1) % 2 = 0
      OBVIOUS
    <2> QED BY <2>1
  <1>3. ASSUME NEW k \in 1 .. Len(Append(w, x))
        PROVE  Append(w, x)[k] = IF k % 2 = 1 THEN "head" ELSE "tail"
    <2>1. k \in 1 .. Len(w) \/ k = Len(w) + 1
      BY <1>1
    <2> QED BY <1>1, <1>2, <2>1 DEF Alternates
  <1> QED BY <1>1, <1>3 DEF Alternates

LEMMA WireKept == TransportTypes /\ WireInv /\ [TNext]_tvars => WireInv'
  <1> SUFFICES ASSUME TransportTypes, WireInv, [TNext]_tvars PROVE WireInv'
    OBVIOUS
  <1>1. wire \in Seq(Pieces) /\ Len(wire) \in Nat /\ oks \in Nat /\ sending \in BOOLEAN
    BY LenProperties DEF TransportTypes
  <1>2. CASE WriteHead
    <2>1. ~sending /\ UNCHANGED <<agent, oks, owner>>
      BY <1>2 DEF WriteHead
    <2>2. CASE agent = "alive"
      <3>1. wire' = Append(wire, "head") /\ sending' = TRUE
        BY <1>2, <2>2 DEF WriteHead
      <3>2. Len(wire) = 2 * oks /\ "head" \in Pieces
        BY <2>1, <2>2 DEF WireInv, Ended, Pieces
      <3>3. Alternates(wire') /\ Len(wire') = 2 * oks + 1
        BY <1>1, <3>1, <3>2, PieceMore DEF WireInv
      <3> QED BY <2>1, <2>2, <3>1, <3>3 DEF WireInv
    <2>3. CASE agent # "alive"
      <3>1. UNCHANGED <<wire, sending>>
        BY <1>2, <2>3 DEF WriteHead
      <3> QED BY <2>1, <3>1 DEF WireInv, Alternates
    <2> QED BY <2>2, <2>3
  <1>3. CASE WriteTail
    <2>1. sending /\ sending' = FALSE /\ agent' = agent /\ Len(wire) = 2 * oks + 1
          /\ agent # "none" /\ owner' = owner
      BY <1>3 DEF WriteTail, WireInv
    <2>2. CASE agent = "alive"
      <3>1. wire' = Append(wire, "tail") /\ oks' = oks + 1 /\ "tail" \in Pieces
        BY <1>3, <2>2 DEF WriteTail, Pieces
      <3>2. Alternates(wire') /\ Len(wire') = 2 * oks'
        <4>1. Alternates(wire') /\ Len(wire') = Len(wire) + 1
          BY <1>1, <2>1, <3>1, PieceMore DEF WireInv
        <4> QED BY <1>1, <2>1, <3>1, <4>1
      <3> QED BY <2>1, <3>2 DEF WireInv
    <2>3. CASE agent # "alive"
      <3>1. UNCHANGED <<wire, oks>> /\ agent' \in Ended
        BY <1>3, <2>1, <2>3 DEF WriteTail, TransportTypes
      <3> QED BY <2>1, <3>1 DEF WireInv, Alternates
    <2> QED BY <2>2, <2>3
  <1>4. ASSUME UNCHANGED <<wire, oks, sending>>,
               agent' = "none" => agent = "none",
               agent \in Ended => agent' \in Ended,
               owner' = "spawning" => agent' = "none"
        PROVE  WireInv'
    BY <1>4 DEF WireInv, Alternates
  <1> USE DEF sendVars, hearVars, Ended
  <1>5. CASE UNCHANGED tvars
    BY <1>4, <1>5 DEF tvars, WireInv
  <1>6. CASE SpawnAgent
    BY <1>4, <1>6 DEF SpawnAgent, WireInv
  <1>7. CASE Say
    BY <1>4, <1>7 DEF Say, WireInv
  <1>8. CASE AgentExits
    <2>1. owner # "spawning"
      BY <1>8 DEF AgentExits, WireInv
    <2> QED BY <1>4, <1>8, <2>1 DEF AgentExits
  <1>9. CASE Parse \/ ParserEnds \/ Recv
    BY <1>4, <1>9 DEF Parse, ParserEnds, Recv, WireInv
  <1>10. CASE End
    BY <1>4, <1>10 DEF End, Drop, CloseStdin, ReapAgent, Closed
  <1> QED BY <1>2, <1>3, <1>5, <1>6, <1>7, <1>8, <1>9, <1>10 DEF TNext, Send, HearAgent

LEMMA HeardKept ==
    TransportTypes /\ WireInv /\ HeardInv /\ [TNext]_tvars => HeardInv'
  <1> SUFFICES ASSUME TransportTypes, WireInv, HeardInv, [TNext]_tvars PROVE HeardInv'
    OBVIOUS
  <1> USE DEF sendVars, hearVars
  <1>1. /\ Len(setting.lines) \in Nat /\ said \in Nat /\ parsed \in Nat
        /\ setting.text \in 0 .. Len(setting.lines)
    BY LinesFinite DEF TransportTypes
  <1>2. ASSUME UNCHANGED <<setting, said, parsed, parser, channel, received, eof>>,
               owner' = "dropped" => owner # "spawning",
               owner = "dropped" => owner' = "dropped",
               owner' = "spawning" => owner = "spawning",
               agent \in Ended => agent' \in Ended
        PROVE  HeardInv'
    BY <1>2 DEF HeardInv, Spoken
  <1>3. CASE UNCHANGED tvars
    BY <1>2, <1>3 DEF tvars
  <1>4. CASE SpawnAgent
    BY <1>4 DEF SpawnAgent, HeardInv, Spoken, Ended
  <1>5. CASE Send
    BY <1>2, <1>5 DEF Send, WriteHead, WriteTail
  <1>6. CASE Say
    BY <1>6 DEF Say, HeardInv, Spoken, Ended
  <1>7. CASE AgentExits
    BY <1>2, <1>7 DEF AgentExits, Ended
  <1>8. CASE Parse
    <2> DEFINE e == setting.lines[parsed + 1]
    <2>1. parser = "reading" /\ parsed' = parsed + 1 /\ UNCHANGED <<setting, received, owner, eof, said>>
      BY <1>8 DEF Parse
    <2>2. ~eof /\ parser' # "ended" /\ owner # "spawning" /\ parsed' <= setting.text
      BY <1>1, <1>8 DEF Parse, HeardInv
    <2>3. ASSUME owner # "dropped" PROVE received' \o channel' = Spoken(parsed + 1)
      <3>1. parsed < Len(setting.lines)
        BY <1>1, <1>8 DEF Parse, TransportTypes
      <3>2. /\ Spoken(parsed + 1) = Spoken(parsed) \o e
            /\ e \in Seq(STRING) /\ channel \in Seq(STRING) /\ received \in Seq(STRING)
        BY <1>1, <3>1, SpokenNext DEF TransportTypes
      <3>3. channel' = channel \o e
        BY <1>8, <2>3 DEF Parse
      <3> HIDE DEF e
      <3>4. received \o (channel \o e) = (received \o channel) \o e
        BY SMTT(30), <3>2, ConcatAssociative
      <3> QED BY <2>1, <2>3, <3>2, <3>3, <3>4 DEF HeardInv
    <2>4. Spoken(parsed)' = Spoken(parsed + 1)
      BY <2>1 DEF Spoken
    <2> QED BY <2>1, <2>2, <2>3, <2>4 DEF HeardInv
  <1>9. CASE ParserEnds
    BY <1>9 DEF ParserEnds, HeardInv, Spoken, Ended
  <1>10. CASE Recv
    <2>1. owner = "using" /\ UNCHANGED <<setting, said, parsed, parser, agent, owner>>
      BY <1>10 DEF Recv
    <2>2. received \o channel = Spoken(parsed) /\ received \in Seq(STRING) /\ channel \in Seq(STRING)
      BY <2>1 DEF HeardInv, TransportTypes
    <2>3. Spoken(parsed)' = Spoken(parsed)
      BY <2>1 DEF Spoken
    <2>4. CASE channel # <<>>
      <3>1. received' = Append(received, Head(channel)) /\ channel' = Tail(channel) /\ eof' = eof
        BY <1>10, <2>4 DEF Recv
      <3>2. received' \o channel' = received \o channel
        <4> DEFINE h == Head(channel)
        <4>1. channel = <<h>> \o Tail(channel) /\ h \in STRING /\ Tail(channel) \in Seq(STRING)
          BY <2>2, <2>4, HeadTailProperties, ConcatProperties
        <4> QED BY <2>2, <3>1, <4>1, AppendIsConcat, ConcatAssociative
      <3>3. ~eof
        <4>1. ASSUME eof PROVE FALSE
          <5>1. received = Spoken(parsed)
            BY <4>1 DEF HeardInv
          <5>2. received \o channel = received
            BY <2>2, <5>1
          <5>3. Len(received \o channel) = Len(received) + Len(channel) /\ Len(received) \in Nat
                /\ Len(channel) \in Nat /\ Len(channel) # 0
            BY <2>2, <2>4, ConcatProperties, LenProperties, EmptySeq
          <5> QED BY <5>2, <5>3
        <4> QED BY <4>1
      <3> QED BY <2>1, <2>2, <2>3, <3>1, <3>2, <3>3 DEF HeardInv
    <2>5. CASE channel = <<>>
      <3>1. parser = "ended" /\ eof' = TRUE /\ UNCHANGED <<received, channel>>
        BY <1>10, <2>5 DEF Recv
      <3>2. received = Spoken(parsed)
        BY <2>2, <2>5, ConcatEmptySeq
      <3> QED BY <2>1, <2>2, <2>3, <3>1, <3>2 DEF HeardInv
    <2> QED BY <2>4, <2>5
  <1>11. CASE Drop
    BY <1>11 DEF Drop, HeardInv, Spoken, Ended
  <1>12. CASE CloseStdin \/ ReapAgent \/ Closed
    BY <1>2, <1>12 DEF CloseStdin, ReapAgent, Closed, Ended
  <1> QED BY <1>3, <1>4, <1>5, <1>6, <1>7, <1>8, <1>9, <1>10, <1>11, <1>12
          DEF TNext, HearAgent, End

(* Lines cross the pipes of an agent whole, in either direction             *)
(* (transport.rs): a send that answers Ok has written its line, and no other *)
(* send leaves more than the head of one at the end; and recv returns what  *)
(* the agent said in order and without a gap, its end only after all that   *)
(* comes before a line that is not UTF-8.                                  *)
THEOREM LinesStayWhole == TSpec => []LinesWhole
  <1>1. TransportInv /\ [TNext]_tvars => TransportInv'
    BY TransportTypesKept, WireKept, HeardKept DEF TransportInv
  <1>2. TransportInv => LinesWhole
    <2> SUFFICES ASSUME TransportInv PROVE LinesWhole
      OBVIOUS
    <2>1. /\ Len(wire) \in {2 * oks, 2 * oks + 1}
          /\ \A k \in 1 .. Len(wire) : wire[k] = IF k % 2 = 1 THEN "head" ELSE "tail"
      BY DEF TransportInv, WireInv, Alternates
    <2>2. parsed \in Nat /\ said \in Nat /\ parsed <= said /\ setting.text \in Nat
      BY LinesFinite DEF TransportInv, TransportTypes
    <2>3. ASSUME eof
          PROVE  received = Spoken(IF said < setting.text THEN said ELSE setting.text)
      <3>1. received = Spoken(parsed) /\ parsed <= setting.text
            /\ (parsed = setting.text \/ parsed = said)
        BY <2>3 DEF TransportInv, HeardInv
      <3>2. parsed = IF said < setting.text THEN said ELSE setting.text
        BY <2>2, <3>1
      <3> QED BY <3>1, <3>2
    <2>4. owner # "dropped" => received \o channel = Spoken(parsed)
      BY DEF TransportInv, HeardInv
    <2> QED BY <2>1, <2>3, <2>4 DEF LinesWhole
  <1> QED BY TransportBegins, <1>1, <1>2, PTL DEF TSpec

----------------------------------------------------------------------------
(* The scan of a reply.                                                    *)

(* How often a byte is among the first n of a reply. *)
CountIn(w, b, n) == Cardinality({i \in 1 .. n : w[i] = b})

LEMMA CountStep ==
  ASSUME NEW w, NEW b, NEW n \in Nat
  PROVE  /\ CountIn(w, b, n) \in Nat
         /\ CountIn(w, b, n + 1) = IF w[n + 1] = b THEN CountIn(w, b, n) + 1 ELSE CountIn(w, b, n)
         /\ CountIn(w, b, 0) = 0
  <1> DEFINE A == {i \in 1 .. n : w[i] = b}
             C == {i \in 1 .. n + 1 : w[i] = b}
             m == n + 1
  <1>1. IsFiniteSet(1 .. n)
    BY FS_Interval
  <1>2. A \in SUBSET (1 .. n) /\ m \notin A
    OBVIOUS
  <1>3. C = IF w[m] = b THEN A \cup {m} ELSE A
    <2>1. \A i : i \in 1 .. m <=> (i \in 1 .. n \/ i = m)
      OBVIOUS
    <2> HIDE DEF m
    <2>2. \A i : i \in C <=> i \in A \/ (i = m /\ w[m] = b)
      BY <2>1 DEF m
    <2> QED BY <2>2
  <1>4. {i \in 1 .. 0 : w[i] = b} = {}
    OBVIOUS
  <1> HIDE DEF A, C, m
  <1>5. IsFiniteSet(A)
    BY <1>1, <1>2, FS_Subset
  <1>6. Cardinality(A) \in Nat /\ Cardinality(A \cup {m}) = Cardinality(A) + 1
    BY <1>2, <1>5, FS_CardinalityType, FS_AddElement
  <1>7. CountIn(w, b, n) = Cardinality(A) /\ CountIn(w, b, n + 1) = Cardinality(C)
    BY DEF CountIn, A, C
  <1>8. CountIn(w, b, 0) = 0
    BY <1>4, FS_EmptySet DEF CountIn
  <1> QED BY <1>3, <1>6, <1>7, <1>8 DEF m

(* The reply is prose that balances its braces and quotes nothing, a        *)
(* decision, and prose that opens no brace.                                *)
Splits(d, k) ==
    /\ k \in Nat /\ k + Len(d) <= Len(raw)
    /\ CountIn(raw, "open", k) = CountIn(raw, "close", k)
    /\ \A i \in 1 .. k : raw[i] # "q" /\ CountIn(raw, "open", i) >= CountIn(raw, "close", i)
    /\ SubSeq(raw, k + 1, k + Len(d)) = d
    /\ \A i \in 1 .. Len(d) : raw[k + i] = d[i]
    /\ \A i \in k + Len(d) + 1 .. Len(raw) : raw[i] # "open"

(* A prefix counts as much as the sequence counts before its end. *)
LEMMA PrefixCounts ==
  ASSUME NEW S, NEW w \in Seq(S), NEW k \in 0 .. Len(w), NEW b
  PROVE  /\ SubSeq(w, 1, k) \in Seq(S) /\ Len(SubSeq(w, 1, k)) = k
         /\ \A i \in 1 .. k : SubSeq(w, 1, k)[i] = w[i]
         /\ CountOf(SubSeq(w, 1, k), b) = CountIn(w, b, k)
  <1> DEFINE p == SubSeq(w, 1, k)
  <1>1. Len(w) \in Nat /\ \A i \in 1 .. k : i \in 1 .. Len(w) /\ w[i] \in S
    <2>1. Len(w) \in Nat
      BY LenProperties
    <2>2. \A i \in 1 .. k : i \in 1 .. Len(w)
      BY <2>1
    <2> QED BY <2>1, <2>2, ElementOfSeq
  <1>2. 1 \in Int /\ k \in Int
    BY <1>1
  <1>3. /\ p \in Seq(S) /\ Len(p) = IF 1 <= k THEN k - 1 + 1 ELSE 0
        /\ \A i \in 1 .. k - 1 + 1 : p[i] = w[1 + i - 1]
    BY <1>1, <1>2, SubSeqProperties
  <1> HIDE DEF p
  <1>4. Len(p) = k
    BY <1>1, <1>3
  <1>5. \A i \in 1 .. k : p[i] = w[i]
    <2>1. \A i \in 1 .. k : i \in 1 .. k - 1 + 1 /\ 1 + i - 1 = i
      BY <1>1
    <2> QED BY <1>3, <2>1
  <1>6. CountOf(p, b) = CountIn(w, b, k)
    <2>1. DOMAIN p = 1 .. k
      BY <1>3, <1>4, LenProperties
    <2>2. {i \in DOMAIN p : p[i] = b} = {i \in 1 .. k : w[i] = b}
      BY <1>5, <2>1
    <2> QED BY <2>2 DEF CountOf, CountIn
  <1> QED BY <1>3, <1>4, <1>5, <1>6 DEF p

(* The decision at byte k + 1 of the reply: the j-th byte of it is next.    *)
Within(d, k, j) ==
    /\ start = k + 1 /\ depth = 1
    /\ inString <=> (j \in 3 .. Len(d) - 2)
    /\ escaped <=> (Len(d) = 7 /\ j = 4)

(* What the scan knows of balanced prose.                                  *)
Before ==
    /\ ~inString /\ ~escaped
    /\ depth = CountIn(raw, "open", idx - 1) - CountIn(raw, "close", idx - 1)
    /\ start = 0 <=> depth = 0

After(d) == start = 0 /\ objects # <<>> /\ objects[Len(objects)] = d

Tracks(d, k) ==
    /\ idx <= k + 1 => Before
    /\ idx > k + 1 /\ idx <= k + Len(d) => Within(d, k, idx - k - 1)
    /\ idx > k + Len(d) => After(d)
    /\ verdict # NoVerdict => verdict = Named(d)

BlocksOf == UNION {{SubSeq(raw, k, l) : l \in DOMAIN raw} : k \in DOMAIN raw}

ScanTypes ==
    /\ raw \in Seq({raw[i] : i \in DOMAIN raw})
    /\ idx \in 1 .. Len(raw) + 1
    /\ start \in 0 .. Len(raw)
    /\ inString \in BOOLEAN /\ escaped \in BOOLEAN
    /\ depth \in Int
    /\ objects \in Seq(BlocksOf)

Judged ==
    /\ verdict # NoVerdict => idx > Len(raw)
    /\ verdict.kind = "decision" =>
          verdict.block \in BlocksOf /\ verdict.block[2] \in Allowed

(* The bytes of a decision. *)
LEMMA DecisionShape ==
  ASSUME NEW d \in Decisions
  PROVE  /\ \/ Len(d) = 3
            \/ Len(d) = 6 /\ d[3] = "q" /\ d[4] = "close" /\ d[5] = "q"
            \/ Len(d) = 7 /\ d[3] = "q" /\ d[4] = "b" /\ d[5] = "q" /\ d[6] = "q"
         /\ d[1] = "open" /\ d[Len(d)] = "close" /\ d[2] \notin {"open", "close", "q", "b"}
  <1>1. PICK e \in Edges, r \in ReasonTexts : d = Decision(e, r)
    BY DEF Decisions
  <1>2. e \notin {"open", "close", "q", "b"}
    BY RepliesAssumption
  <1> DEFINE S == {"open", "close", "q", "b", e}
             h == <<"open", e>>
             t == <<"close">>
  <1>3. h \in Seq(S) /\ Len(h) = 2 /\ h[1] = "open" /\ h[2] = e
    OBVIOUS
  <1>4. t \in Seq(S) /\ Len(t) = 1 /\ t[1] = "close"
    OBVIOUS
  <1>5. /\ r \in Seq(S)
        /\ \/ Len(r) = 0
           \/ Len(r) = 3 /\ r[1] = "q" /\ r[2] = "close" /\ r[3] = "q"
           \/ Len(r) = 4 /\ r[1] = "q" /\ r[2] = "b" /\ r[3] = "q" /\ r[4] = "q"
    <2>1. CASE r = <<>>
      BY <2>1
    <2>2. CASE r = <<"q", "close", "q">>
      BY <2>2
    <2>3. CASE r = <<"q", "b", "q", "q">>
      BY <2>3
    <2> QED BY <2>1, <2>2, <2>3 DEF ReasonTexts
  <1>6. d = (h \o r) \o t
    BY <1>1 DEF Decision
  <1> HIDE DEF S, h, t
  <1>7. /\ h \o r \in Seq(S) /\ Len(h \o r) = 2 + Len(r)
        /\ \A i \in 1 .. 2 + Len(r) : (h \o r)[i] = IF i <= 2 THEN h[i] ELSE r[i - 2]
    <2>1. /\ h \o r \in Seq(S) /\ Len(h \o r) = Len(h) + Len(r)
          /\ \A i \in 1 .. Len(h) + Len(r) : (h \o r)[i] = IF i <= Len(h) THEN h[i] ELSE r[i - Len(h)]
      BY <1>3, <1>5, ConcatProperties, Zenon
    <2> QED BY <1>3, <2>1
  <1> DEFINE g == h \o r
  <1> HIDE DEF g
  <1>8. /\ Len(d) = 3 + Len(r)
        /\ \A i \in 1 .. 3 + Len(r) : d[i] = IF i <= 2 + Len(r) THEN g[i] ELSE t[i - (2 + Len(r))]
    <2>1. g \in Seq(S) /\ Len(g) = 2 + Len(r) /\ d = g \o t
      BY <1>6, <1>7 DEF g
    <2>3. /\ Len(g \o t) = Len(g) + Len(t)
          /\ \A i \in 1 .. Len(g) + Len(t) : (g \o t)[i] = IF i <= Len(g) THEN g[i] ELSE t[i - Len(g)]
      <3>1. g \in Seq(S) /\ t \in Seq(S)
        BY <1>4, <2>1
      <3> QED BY <3>1, ConcatProperties, Zenon
    <2>2. /\ Len(d) = Len(g) + Len(t)
          /\ \A i \in 1 .. Len(g) + Len(t) : d[i] = IF i <= Len(g) THEN g[i] ELSE t[i - Len(g)]
      BY <2>1, <2>3, Zenon
    <2> QED BY <1>4, <1>5, <2>1, <2>2
  <1>9. \A i \in 1 .. 2 + Len(r) : g[i] = IF i <= 2 THEN h[i] ELSE r[i - 2]
    BY <1>7 DEF g
  <1> HIDE DEF g
  <1>a. Len(r) \in {0, 3, 4}
    BY <1>5
  <1>b. d[1] = "open" /\ d[2] = e
    BY <1>3, <1>8, <1>9, <1>a
  <1>c. d[Len(d)] = "close"
    BY <1>4, <1>8, <1>a
  <1>d. \A i \in 1 .. Len(r) : d[2 + i] = r[i]
    <2>1. ASSUME NEW i \in 1 .. Len(r) PROVE d[2 + i] = r[i]
      <3>1. 2 + i \in 1 .. 2 + Len(r) /\ ~(2 + i <= 2) /\ 2 + i <= 2 + Len(r) /\ 2 + i - 2 = i /\ 2 + i \in 1 .. 3 + Len(r)
        BY <1>a
      <3> DEFINE n == 2 + i
      <3>2. g[n] = r[n - 2]
        BY <1>9, <3>1
      <3>3. d[n] = g[n]
        BY <1>8, <3>1
      <3> QED BY <3>1, <3>2, <3>3
    <2> QED BY <2>1
  <1>e. CASE Len(r) = 0
    BY <1>2, <1>8, <1>b, <1>c, <1>e
  <1>f. CASE Len(r) = 3 /\ r[1] = "q" /\ r[2] = "close" /\ r[3] = "q"
    <2>1. d[2 + 1] = r[1] /\ d[2 + 2] = r[2] /\ d[2 + 3] = r[3]
      BY <1>d, <1>f
    <2> QED BY <1>2, <1>8, <1>b, <1>c, <1>f, <2>1
  <1>g. CASE Len(r) = 4 /\ r[1] = "q" /\ r[2] = "b" /\ r[3] = "q" /\ r[4] = "q"
    <2>1. d[2 + 1] = r[1] /\ d[2 + 2] = r[2] /\ d[2 + 3] = r[3] /\ d[2 + 4] = r[4]
      BY <1>d, <1>g
    <2> QED BY <1>2, <1>8, <1>b, <1>c, <1>g, <2>1
  <1> QED BY <1>5, <1>e, <1>f, <1>g

(* A reply that ends with a decision splits there. *)
LEMMA EndSplits ==
  ASSUME NEW d, Len(d) \in Nat, raw \in Seq({raw[i] : i \in DOMAIN raw}),
         NEW k \in 0 .. Len(raw), NEW l \in 0 .. Len(raw), k + Len(d) + l = Len(raw),
         Balanced(SubSeq(raw, 1, k)), ~Contains(SubSeq(raw, 1, k), "q"),
         SubSeq(raw, k + 1, k + Len(d)) = d,
         ~Contains(SubSeq(raw, k + Len(d) + 1, Len(raw)), "open")
  PROVE  Splits(d, k)
  <1> DEFINE S == {raw[i] : i \in DOMAIN raw}
             p == SubSeq(raw, 1, k)
             t == SubSeq(raw, k + Len(d) + 1, Len(raw))
             u == SubSeq(raw, k + 1, k + Len(d))
  <1>1. Len(raw) \in Nat /\ \A i \in 1 .. Len(raw) : raw[i] \in S
    BY LenProperties
  <1>r. raw \in Seq(S)
    OBVIOUS
  <1> HIDE DEF S
  <1>2. /\ p \in Seq(S) /\ Len(p) = k /\ \A i \in 1 .. k : p[i] = raw[i]
        /\ \A b : CountOf(p, b) = CountIn(raw, b, k)
    <2>1. /\ p \in Seq(S) /\ Len(p) = k /\ \A i \in 1 .. k : p[i] = raw[i]
      BY <1>r, PrefixCounts
    <2>2. ASSUME NEW b PROVE CountOf(p, b) = CountIn(raw, b, k)
      BY <1>r, PrefixCounts
    <2> QED BY <2>1, <2>2
  <1>0. Balanced(p) /\ ~Contains(p, "q") /\ u = d /\ ~Contains(t, "open")
    OBVIOUS
  <1> HIDE DEF p
  <1>3. \A i \in 1 .. k : raw[i] # "q"
    BY <1>0, <1>2 DEF Contains
  <1>4. ASSUME NEW i \in 1 .. k
        PROVE  CountIn(raw, "open", i) >= CountIn(raw, "close", i)
    <2> DEFINE q == SubSeq(p, 1, i)
    <2>1. DOMAIN p = 1 .. k
      BY <1>2, LenProperties
    <2>2. CountOf(q, "open") >= CountOf(q, "close")
      BY <1>0, <2>1 DEF Balanced
    <2>3. \A b : CountOf(q, b) = CountIn(p, b, i)
      <3>1. i \in 0 .. Len(p) /\ p \in Seq(S)
        BY <1>2
      <3> QED BY <3>1, PrefixCounts
    <2>4. ASSUME NEW b PROVE CountIn(p, b, i) = CountIn(raw, b, i)
      <3>1. \A j \in 1 .. i : p[j] = raw[j]
        BY <1>2
      <3>2. {j \in 1 .. i : p[j] = b} = {j \in 1 .. i : raw[j] = b}
        BY <3>1
      <3> QED BY <3>2 DEF CountIn
    <2> HIDE DEF q
    <2> QED BY <2>2, <2>3, <2>4
  <1>5. CountIn(raw, "open", k) = CountIn(raw, "close", k)
    BY <1>0, <1>2 DEF Balanced
  <1>b. \A m \in Nat \ {0}, n \in 0 .. Len(raw) :
          LET w == SubSeq(raw, m, n)
          IN /\ Len(w) = IF m <= n THEN n - m + 1 ELSE 0
             /\ \A i \in 1 .. n - m + 1 : w[i] = raw[m + i - 1]
    <2> TAKE m \in Nat \ {0}, n \in 0 .. Len(raw)
    <2>1. \A i \in m .. n : raw[i] \in S
      BY <1>1
    <2>2. m \in Int /\ n \in Int
      BY <1>1
    <2>3. /\ Len(SubSeq(raw, m, n)) = IF m <= n THEN n - m + 1 ELSE 0
          /\ \A i \in 1 .. n - m + 1 : SubSeq(raw, m, n)[i] = raw[m + i - 1]
      BY SMTT(30), <2>1, <2>2, SubSeqProperties
    <2> QED BY Zenon, <2>3
  <1>6. \A i \in 1 .. Len(d) : raw[k + i] = d[i]
    <2> DEFINE m == k + 1
               n == k + Len(d)
    <2>1. m \in Nat \ {0} /\ n \in 0 .. Len(raw) /\ n - m + 1 = Len(d)
      BY <1>1
    <2>4. u = SubSeq(raw, m, n)
      OBVIOUS
    <2>2. \A i \in 1 .. Len(d) : m + i - 1 = k + i
      OBVIOUS
    <2> HIDE DEF m, n
    <2>3. \A i \in 1 .. n - m + 1 : u[i] = raw[m + i - 1]
      BY <1>b, <2>1, <2>4
    <2> HIDE DEF u
    <2> QED BY <1>0, <2>1, <2>2, <2>3
  <1>7. \A i \in k + Len(d) + 1 .. Len(raw) : raw[i] # "open"
    <2> DEFINE m == k + Len(d) + 1
               n == Len(raw)
    <2>1. m \in Nat \ {0} /\ n \in 0 .. Len(raw) /\ n \in Nat
      BY <1>1
    <2>2. t = SubSeq(raw, m, n)
      OBVIOUS
    <2> HIDE DEF m, n
    <2>3. /\ Len(t) = IF m <= n THEN n - m + 1 ELSE 0
          /\ \A i \in 1 .. n - m + 1 : t[i] = raw[m + i - 1]
      BY <1>b, <2>1, <2>2
    <2> HIDE DEF t
    <2>4. ~\E i \in 1 .. Len(t) : t[i] = "open"
      BY <1>0 DEF Contains
    <2>5. ASSUME NEW i \in m .. n PROVE raw[i] # "open"
      <3>1. i - m + 1 \in 1 .. n - m + 1 /\ m + (i - m + 1) - 1 = i /\ m <= n
        BY <2>1
      <3>2. t[i - m + 1] = raw[i] /\ i - m + 1 \in 1 .. Len(t)
        BY <2>3, <3>1
      <3> QED BY <2>4, <3>2
    <2> QED BY <2>5 DEF m, n
  <1> QED BY <1>1, <1>3, <1>4, <1>5, <1>6, <1>7 DEF Splits

(* The next byte is counted. *)
LEMMA Counted ==
  ASSUME NEW b, idx \in Nat \ {0}
  PROVE  /\ CountIn(raw, b, idx - 1) \in Nat
         /\ CountIn(raw, b, idx) = CountIn(raw, b, idx - 1) + IF raw[idx] = b THEN 1 ELSE 0
  <1> DEFINE n == idx - 1
  <1>1. n \in Nat /\ n + 1 = idx
    OBVIOUS
  <1> HIDE DEF n
  <1>2. /\ CountIn(raw, b, n) \in Nat
        /\ CountIn(raw, b, n + 1) = IF raw[n + 1] = b THEN CountIn(raw, b, n) + 1 ELSE CountIn(raw, b, n)
    BY <1>1, CountStep
  <1> QED BY <1>1, <1>2 DEF n

(* In the prose before the decision. *)
LEMMA ProseStep ==
  ASSUME NEW d, NEW k \in Nat, Splits(d, k), Len(d) \in {3, 6, 7}, d[1] = "open",
         ScanTypes, idx <= k + 1, Before, ScanNext, verdict = NoVerdict, Len(raw) \in Nat
  PROVE  /\ idx' = idx + 1 /\ raw' = raw /\ verdict' = verdict
         /\ idx <= k => Before'
         /\ idx = k + 1 => start' = k + 1 /\ depth' = 1 /\ ~inString' /\ ~escaped'
  <1> DEFINE up(n) == CountIn(raw, "open", n)
             down(n) == CountIn(raw, "close", n)
  <1>1. idx \in Nat \ {0} /\ idx <= Len(raw)
    <2>1. k + Len(d) <= Len(raw)
      BY DEF Splits
    <2>2. idx \in 1 .. Len(raw) + 1
      BY DEF ScanTypes
    <2> QED BY <2>1, <2>2
  <1>2. /\ up(idx - 1) \in Nat /\ up(idx) = up(idx - 1) + IF raw[idx] = "open" THEN 1 ELSE 0
        /\ down(idx - 1) \in Nat /\ down(idx) = down(idx - 1) + IF raw[idx] = "close" THEN 1 ELSE 0
    BY <1>1, Counted
  <1>3. idx <= k => raw[idx] # "q" /\ up(idx) >= down(idx)
    BY <1>1 DEF Splits
  <1>4. idx = k + 1 => raw[idx] = "open" /\ up(idx - 1) = down(idx - 1)
    <2>1. \A i \in 1 .. Len(d) : raw[k + i] = d[i]
      BY DEF Splits
    <2>2. raw[k + 1] = d[1] /\ up(k) = down(k)
      BY <2>1 DEF Splits
    <2> QED BY <2>2
  <1>5. depth = up(idx - 1) - down(idx - 1) /\ ~inString /\ ~escaped /\ (start = 0 <=> depth = 0)
    BY DEF Before
  <1>6. ~ScanEnds /\ ~InString
    BY <1>1, <1>5 DEF ScanEnds, InString
  <1>7. ASSUME raw' = raw, ~inString', ~escaped',
               depth' = up(idx' - 1) - down(idx' - 1), start' = 0 <=> depth' = 0
        PROVE  Before'
    <2>1. \A b, n : CountIn(raw, b, n)' = CountIn(raw, b, n)
      BY <1>7 DEF CountIn
    <2> QED BY <1>7, <2>1 DEF Before
  <1> HIDE DEF up, down
  <1>8. CASE Outside
    <2>1. /\ start = 0 /\ idx' = idx + 1 /\ raw' = raw /\ verdict' = verdict
          /\ inString' = inString /\ escaped' = escaped
          /\ IF raw[idx] = "open" THEN start' = idx /\ depth' = 1 ELSE start' = start /\ depth' = depth
      BY <1>8 DEF Outside, Forward, Here
    <2>2. idx' - 1 = idx
      BY <1>1, <2>1
    <2> HIDE DEF Before
    <2> QED BY <1>1, <1>2, <1>3, <1>4, <1>5, <1>7, <2>1, <2>2
  <1>9. CASE InObject
    <2>1. /\ start # 0 /\ idx' = idx + 1 /\ raw' = raw /\ verdict' = verdict
          /\ inString' = (raw[idx] = "q") /\ escaped' = escaped
          /\ depth' = CASE raw[idx] = "open" -> depth + 1 [] raw[idx] = "close" -> depth - 1
                        [] OTHER -> depth
          /\ start' = IF depth' = 0 THEN 0 ELSE start
      BY <1>9 DEF InObject, Forward, Here
    <2>2. idx' - 1 = idx
      BY <1>1, <2>1
    <2>3. idx # k + 1
      BY <1>2, <1>4, <1>5, <2>1
    <2>4. depth' = depth + (IF raw[idx] = "open" THEN 1 ELSE 0) - IF raw[idx] = "close" THEN 1 ELSE 0
      BY <1>2, <1>5, <2>1
    <2>8. idx <= k
      BY <1>1, <2>3
    <2>5. idx <= k /\ ~inString' /\ ~escaped'
      BY <1>3, <1>5, <2>1, <2>8, Zenon
    <2>6. depth' = up(idx) - down(idx) /\ depth' >= 0
      BY <1>2, <1>3, <1>5, <2>4, <2>5
    <2>7. start' = 0 <=> depth' = 0
      <3>1. start # 0 /\ start' = IF depth' = 0 THEN 0 ELSE start
        BY <2>1
      <3> QED BY <3>1
    <2> QED BY <1>7, <2>1, <2>2, <2>3, <2>5, <2>6, <2>7
  <1> QED BY <1>6, <1>8, <1>9 DEF ScanNext

(* Within the decision, and from its last byte to behind it. *)
LEMMA DecisionStep ==
  ASSUME NEW d \in Decisions, NEW k \in Nat, Splits(d, k), ScanTypes, ScanNext,
         verdict = NoVerdict, Len(raw) \in Nat,
         NEW j \in Nat \ {0}, j < Len(d), idx = k + 1 + j, Within(d, k, j)
  PROVE  /\ idx' = idx + 1 /\ raw' = raw /\ verdict' = verdict
         /\ j + 1 < Len(d) => Within(d, k, j + 1)'
         /\ j + 1 = Len(d) => After(d)'
  <1>1. /\ Len(d) \in {3, 6, 7}
        /\ \/ Len(d) = 3
           \/ Len(d) = 6 /\ d[3] = "q" /\ d[4] = "close" /\ d[5] = "q"
           \/ Len(d) = 7 /\ d[3] = "q" /\ d[4] = "b" /\ d[5] = "q" /\ d[6] = "q"
        /\ d[1] = "open" /\ d[Len(d)] = "close" /\ d[2] \notin {"open", "close", "q", "b"}
    BY DecisionShape
  <1>2. /\ j + 1 \in 1 .. Len(d)
        /\ raw[idx] = d[j + 1]
        /\ idx \in 1 .. Len(raw)
    <2>1. j + 1 \in 1 .. Len(d) /\ k + (j + 1) = idx
      BY <1>1
    <2>2. k + Len(d) <= Len(raw) /\ \A i \in 1 .. Len(d) : raw[k + i] = d[i]
      BY DEF Splits
    <2> QED BY <1>1, <2>1, <2>2
  <1>3. /\ start = k + 1 /\ depth = 1
        /\ inString <=> (j \in 3 .. Len(d) - 2)
        /\ escaped <=> (Len(d) = 7 /\ j = 4)
    BY DEF Within
  <1>4. ~Outside /\ ~ScanEnds
    BY <1>2, <1>3 DEF Outside, ScanEnds
  <1>5. ASSUME start' = k + 1, depth' = 1,
               inString' <=> (j + 1 \in 3 .. Len(d) - 2),
               escaped' <=> (Len(d) = 7 /\ j + 1 = 4)
        PROVE  Within(d, k, j + 1)'
    BY <1>5 DEF Within
  <1>6. CASE InString
    <2>1. /\ inString /\ start' = start /\ depth' = depth
          /\ idx' = idx + 1 /\ raw' = raw /\ verdict' = verdict
          /\ escaped' <=> (~escaped /\ d[j + 1] = "b")
          /\ inString' <=> (escaped \/ d[j + 1] # "q")
      BY <1>2, <1>6 DEF InString, Forward, Here
    <2>2. j \in 3 .. Len(d) - 2
      BY <1>3, <2>1
    <2>3. CASE Len(d) = 6
      <3>1. \/ j = 3 /\ d[j + 1] = "close"
            \/ j = 4 /\ d[j + 1] = "q"
        BY <1>1, <2>2, <2>3
      <3>2. ~escaped
        BY <1>3, <2>3
      <3>3. ~escaped' /\ (inString' <=> j = 3)
        BY <2>1, <3>1, <3>2
      <3>4. inString' <=> (j + 1 \in 3 .. Len(d) - 2)
        BY <2>3, <3>1, <3>3
      <3>5. start' = k + 1 /\ depth' = 1 /\ j + 1 < Len(d)
        BY <1>3, <2>1, <2>3, <3>1
      <3> QED BY <1>5, <2>1, <2>3, <3>3, <3>4, <3>5
    <2>4. CASE Len(d) = 7
      <3>1. \/ j = 3 /\ d[j + 1] = "b"
            \/ j = 4 /\ d[j + 1] = "q"
            \/ j = 5 /\ d[j + 1] = "q"
        BY <1>1, <2>2, <2>4
      <3>2. escaped <=> j = 4
        BY <1>3, <2>4
      <3>3. (escaped' <=> j = 3) /\ (inString' <=> j # 5)
        BY <2>1, <3>1, <3>2
      <3>4. /\ inString' <=> (j + 1 \in 3 .. Len(d) - 2)
            /\ escaped' <=> (Len(d) = 7 /\ j + 1 = 4)
        BY <2>4, <3>1, <3>3
      <3>5. start' = k + 1 /\ depth' = 1 /\ j + 1 < Len(d)
        BY <1>3, <2>1, <2>4, <3>1
      <3> QED BY SMTT(30), <1>5, <2>1, <2>4, <3>4, <3>5
    <2> QED BY <1>1, <2>2, <2>3, <2>4
  <1>7. CASE InObject
    <2>1. /\ ~inString /\ idx' = idx + 1 /\ raw' = raw /\ verdict' = verdict
          /\ (inString' <=> d[j + 1] = "q") /\ (escaped' <=> escaped)
          /\ depth' = CASE d[j + 1] = "open" -> depth + 1 [] d[j + 1] = "close" -> depth - 1
                        [] OTHER -> depth
          /\ start' = IF depth' = 0 THEN 0 ELSE start
          /\ objects' = IF depth' = 0 THEN Append(objects, SubSeq(raw, start, idx)) ELSE objects
      BY <1>2, <1>7 DEF InObject, Forward, Here
    <2>2. j \notin 3 .. Len(d) - 2
      BY <1>3, <2>1
    <2>3. CASE j + 1 = Len(d)
      <3>1. d[j + 1] = "close"
        BY <1>1, <2>3
      <3>2. depth' = 0
        BY <1>3, <2>1, <3>1
      <3>3. start' = 0 /\ objects' = Append(objects, SubSeq(raw, start, idx))
        BY <2>1, <3>2
      <3>4. SubSeq(raw, start, idx) = d
        <4>1. idx = k + Len(d)
          BY <1>1, <2>3
        <4> QED BY SMTT(30), <1>3, <4>1 DEF Splits
      <3>5. objects' # <<>> /\ objects'[Len(objects')] = d
        <4>1. objects \in Seq(BlocksOf \cup {d})
          <5>1. objects \in Seq(BlocksOf)
            BY DEF ScanTypes
          <5> QED BY <5>1
        <4> QED BY <3>3, <3>4, <4>1, AppendProperties
      <3> QED BY <2>1, <2>3, <3>3, <3>5 DEF After
    <2>4. CASE j + 1 < Len(d)
      <3>1. \/ j = 1 /\ d[j + 1] \notin {"open", "close", "q", "b"}
            \/ j = 2 /\ d[j + 1] = "q" /\ Len(d) \in {6, 7}
        BY <1>1, <2>2, <2>4
      <3>2. depth' = 1 /\ start' = k + 1
        BY <1>3, <2>1, <3>1
      <3>3. ~escaped'
        BY <1>3, <2>1, <3>1
      <3>4. inString' <=> j = 2
        BY <2>1, <3>1
      <3>5. /\ inString' <=> (j + 1 \in 3 .. Len(d) - 2)
            /\ escaped' <=> (Len(d) = 7 /\ j + 1 = 4)
        BY <1>1, <2>4, <3>1, <3>3, <3>4
      <3> QED BY <1>5, <2>1, <2>4, <3>2, <3>5
    <2> QED BY <1>2, <2>3, <2>4
  <1> QED BY <1>4, <1>6, <1>7 DEF ScanNext

(* Behind the decision only prose is passed over. *)
LEMMA TailStep ==
  ASSUME NEW d, Len(d) \in {3, 6, 7}, NEW k \in Nat, Splits(d, k), ScanTypes, ScanNext,
         verdict = NoVerdict, Len(raw) \in Nat, idx > k + Len(d), After(d)
  PROVE  raw' = raw /\ After(d)'
  <1>1. start = 0 /\ objects # <<>> /\ objects[Len(objects)] = d
    BY DEF After
  <1>2. idx \in Nat
    BY DEF ScanTypes
  <1>3. CASE Outside
    <2>1. /\ idx <= Len(raw) /\ raw' = raw /\ objects' = objects
          /\ raw[idx] # "open" => start' = start
      BY <1>3 DEF Outside, Scanning, Forward, Here
    <2>2. idx \in k + Len(d) + 1 .. Len(raw)
      BY <1>2, <2>1
    <2>3. raw[idx] # "open"
      BY <2>2 DEF Splits
    <2> QED BY <1>1, <2>1, <2>3 DEF After
  <1>4. CASE InString \/ InObject
    BY <1>1, <1>4 DEF InString, InObject
  <1>5. CASE ScanEnds
    BY <1>1, <1>5 DEF ScanEnds, After
  <1> QED BY <1>3, <1>4, <1>5 DEF ScanNext

(* The last block of the reply is the one that is parsed. *)
LEMMA LastParsed ==
  ASSUME NEW d \in Decisions, After(d), ScanTypes
  PROVE  Parsed = [kind |-> "decision", block |-> d]
  <1> DEFINE good == {k \in DOMAIN objects : objects[k] \in Decisions}
  <1>1. objects # <<>> /\ objects[Len(objects)] = d
    BY DEF After
  <1>2. objects \in Seq(BlocksOf)
    BY DEF ScanTypes
  <1>3. Len(objects) \in Nat \ {0} /\ DOMAIN objects = 1 .. Len(objects)
    BY <1>1, <1>2, LenProperties, EmptySeq
  <1> DEFINE n == Len(objects)
  <1>4. n \in good /\ \A k \in good : k \in Nat /\ k <= n
    BY <1>1, <1>3
  <1> HIDE DEF good
  <1>5. Max(good) = n
    <2>1. \A x \in good : (\A y \in good : x >= y) => x = n
      BY <1>3, <1>4
    <2>2. \A y \in good : n >= y
      BY <1>3, <1>4
    <2> QED BY <1>4, <2>1, <2>2 DEF Max
  <1>6. Parsed = [kind |-> "decision", block |-> objects[Max(good)]]
    <2>1. good # {}
      BY <1>4
    <2> QED BY <1>1, <2>1 DEF Parsed, good
  <1> QED BY <1>1, <1>5, <1>6

(* What is parsed is a block of the reply. *)
LEMMA ParsedIsBlock ==
  ASSUME ScanTypes, Parsed.kind = "decision"
  PROVE  Parsed.block \in BlocksOf
  <1> DEFINE good == {k \in DOMAIN objects : objects[k] \in Decisions}
  <1>1. objects \in Seq(BlocksOf)
    BY DEF ScanTypes
  <1>2. Len(objects) \in Nat /\ DOMAIN objects = 1 .. Len(objects) /\ \A k \in 1 .. Len(objects) : objects[k] \in BlocksOf
    BY <1>1, LenProperties
  <1>3. objects # <<>> /\ good # {}
    BY DEF Parsed
  <1>4. Parsed = [kind |-> "decision", block |-> objects[Max(good)]]
    BY <1>3 DEF Parsed
  <1>5. good \subseteq 1 .. Len(objects)
    BY <1>2
  <1> HIDE DEF good
  <1>6. Max(good) \in good
    <2>2. \E n \in good : \A y \in good : n >= y
      BY <1>2, <1>3, <1>5, Greatest
    <2> QED BY <2>2 DEF Max
  <1> QED BY <1>2, <1>4, <1>5, <1>6

OnTrack == \A d \in Decisions : \A k \in Nat : Splits(d, k) => Tracks(d, k)
ScanInv == ScanTypes /\ Judged /\ OnTrack

LEMMA ScanStarts == ScanInit => ScanInv
  <1> SUFFICES ASSUME ScanInit PROVE ScanInv
    OBVIOUS
  <1>1. /\ raw \in Replies /\ idx = 1 /\ start = 0 /\ depth = 0 /\ inString = FALSE /\ escaped = FALSE
        /\ objects = <<>> /\ verdict = NoVerdict
    BY DEF ScanInit
  <1>2. raw \in Seq({raw[i] : i \in DOMAIN raw})
    BY <1>1, RepliesAssumption
  <1>3. Len(raw) \in Nat
    BY <1>2, LenProperties
  <1>4. ScanTypes
    <2>1. objects \in Seq(BlocksOf)
      BY <1>1, EmptySeq
    <2>2. inString \in BOOLEAN /\ escaped \in BOOLEAN
      BY <1>1
    <2>3. idx \in 1 .. Len(raw) + 1 /\ start \in 0 .. Len(raw) /\ depth \in Int
      BY <1>1, <1>3
    <2> QED BY <1>2, <2>1, <2>2, <2>3 DEF ScanTypes
  <1>5. Judged
    BY <1>1 DEF Judged, NoVerdict
  <1>6. ASSUME NEW d \in Decisions, NEW k \in Nat PROVE Tracks(d, k)
    <2>1. Len(d) \in {3, 6, 7}
      BY DecisionShape
    <2>2. CountIn(raw, "open", idx - 1) = 0 /\ CountIn(raw, "close", idx - 1) = 0
      <3>1. \A b : CountIn(raw, b, 0) = 0
        BY CountStep
      <3> QED BY <1>1, <3>1
    <2>3. Before
      BY <1>1, <2>2 DEF Before
    <2>4. ~(idx > k + 1) /\ ~(idx > k + Len(d)) /\ verdict = NoVerdict
      BY <1>1, <2>1
    <2> QED BY <2>3, <2>4 DEF Tracks
  <1> QED BY <1>4, <1>5, <1>6 DEF ScanInv, OnTrack

LEMMA ScanTypesStep ==
  ASSUME ScanTypes, [ScanNext]_scanVars
  PROVE  ScanTypes' /\ raw' = raw /\ BlocksOf' = BlocksOf
  <1>1. /\ raw \in Seq({raw[i] : i \in DOMAIN raw})
        /\ idx \in 1 .. Len(raw) + 1
        /\ start \in 0 .. Len(raw)
        /\ inString \in BOOLEAN /\ escaped \in BOOLEAN
        /\ depth \in Int
        /\ objects \in Seq(BlocksOf)
    BY DEF ScanTypes
  <1>2. Len(raw) \in Nat /\ DOMAIN raw = 1 .. Len(raw)
    BY <1>1, LenProperties
  <1>3. raw' = raw
    BY DEF ScanNext, Outside, InString, InObject, ScanEnds, Forward, scanVars
  <1>4. BlocksOf' = BlocksOf
    BY <1>3 DEF BlocksOf
  <1>5. raw' \in Seq({raw'[i] : i \in DOMAIN raw'})
    BY <1>1, <1>3
  <1> DEFINE B == BlocksOf
  <1>6. ASSUME idx' \in 1 .. Len(raw) + 1, start' \in 0 .. Len(raw),
               inString' \in BOOLEAN, escaped' \in BOOLEAN, depth' \in Int, objects' \in Seq(B)
        PROVE  ScanTypes'
    BY <1>3, <1>4, <1>5, <1>6 DEF ScanTypes
  <1>b. inString' \in BOOLEAN /\ escaped' \in BOOLEAN
    BY <1>1, Zenon DEF ScanNext, Outside, InString, InObject, ScanEnds, Forward, scanVars
  <1>7. CASE Outside
    <2>1. /\ idx <= Len(raw) /\ idx' = idx + 1 /\ objects' = objects
          /\ \/ start' = idx /\ depth' = 1
             \/ start' = start /\ depth' = depth
      BY <1>7 DEF Outside, Forward, Here, Scanning
    <2>2. idx' \in 1 .. Len(raw) + 1 /\ start' \in 0 .. Len(raw) /\ depth' \in Int
      BY <1>1, <1>2, <2>1
    <2>3. objects' \in Seq(B)
      BY <1>1, <2>1
    <2> QED BY <1>3, <1>4, <1>6, <1>b, <2>2, <2>3, Zenon
  <1>8. CASE InString
    <2>1. /\ idx <= Len(raw) /\ idx' = idx + 1 /\ objects' = objects /\ start' = start /\ depth' = depth
      BY <1>8 DEF InString, Forward, Here, Scanning
    <2>2. idx' \in 1 .. Len(raw) + 1
      BY <1>1, <1>2, <2>1
    <2>3. objects' \in Seq(B) /\ start' \in 0 .. Len(raw) /\ depth' \in Int
      BY <1>1, <2>1
    <2> QED BY <1>3, <1>4, <1>6, <1>b, <2>2, <2>3, Zenon
  <1>9. CASE InObject
    <2>1. /\ idx <= Len(raw) /\ start # 0 /\ idx' = idx + 1 /\ escaped' = escaped
          /\ depth' = CASE raw[idx] = "open" -> depth + 1 [] raw[idx] = "close" -> depth - 1
                        [] OTHER -> depth
          /\ start' = IF depth' = 0 THEN 0 ELSE start
          /\ objects' = IF depth' = 0 THEN Append(objects, SubSeq(raw, start, idx)) ELSE objects
      BY <1>9 DEF InObject, Forward, Here, Scanning
    <2>4. idx' \in 1 .. Len(raw) + 1 /\ start' \in 0 .. Len(raw)
      BY <1>1, <1>2, <2>1
    <2>5. depth' \in Int
      BY <1>1, <2>1
    <2>2. SubSeq(raw, start, idx) \in B
      <3>1. start \in DOMAIN raw /\ idx \in DOMAIN raw
        BY <1>1, <1>2, <2>1
      <3> DEFINE From(k) == {SubSeq(raw, k, l) : l \in DOMAIN raw}
      <3>2. SubSeq(raw, start, idx) \in From(start)
        BY <3>1
      <3>3. B = UNION {From(k) : k \in DOMAIN raw}
        BY DEF BlocksOf
      <3> HIDE DEF From, B
      <3> QED BY <3>1, <3>2, <3>3
    <2> DEFINE block == SubSeq(raw, start, idx)
    <2> HIDE DEF B, block
    <2>3. objects' \in Seq(B)
      <3>1. objects \in Seq(B) /\ block \in B /\ (objects' = Append(objects, block) \/ objects' = objects)
        BY <1>1, <2>1, <2>2 DEF B, block
      <3> QED BY <3>1, AppendProperties
    <2> QED BY <1>3, <1>4, <1>6, <1>b, <2>3, <2>4, <2>5, Zenon
  <1>10. CASE ScanEnds \/ UNCHANGED scanVars
    <2>1. idx' = idx /\ start' = start /\ depth' = depth /\ objects' = objects
      BY <1>10 DEF ScanEnds, scanVars
    <2>2. /\ idx' \in 1 .. Len(raw) + 1 /\ start' \in 0 .. Len(raw) /\ depth' \in Int
          /\ objects' \in Seq(B)
      BY <1>1, <2>1
    <2> QED BY <1>3, <1>4, <1>6, <1>b, <2>2, Zenon
  <1> QED BY <1>3, <1>4, <1>7, <1>8, <1>9, <1>10 DEF ScanNext

LEMMA JudgedStep ==
  ASSUME ScanTypes, Judged, [ScanNext]_scanVars
  PROVE  Judged'
  <1>1. raw' = raw /\ BlocksOf' = BlocksOf /\ ScanTypes'
    BY ScanTypesStep
  <1>2. CASE Outside \/ InString \/ InObject
    <2>1. verdict = NoVerdict /\ verdict' = verdict
      BY <1>2 DEF Outside, InString, InObject, Scanning, Forward
    <2> QED BY <1>1, <2>1 DEF Judged, NoVerdict
  <1>3. CASE ScanEnds
    <2>1. idx > Len(raw) /\ idx' = idx /\ verdict' = ValidateTransition(Parsed)
      BY <1>3 DEF ScanEnds
    <2>2. ASSUME verdict'.kind = "decision"
          PROVE  Parsed.kind = "decision" /\ verdict' = Parsed /\ Parsed.block[2] \in Allowed
      <3>1. Parsed = [kind |-> Parsed.kind, block |-> Parsed.block]
        BY DEF Parsed
      <3> DEFINE P == Parsed
      <3> HIDE DEF P
      <3>2. P = [kind |-> P.kind, block |-> P.block] /\ verdict' = ValidateTransition(P)
        BY <2>1, <3>1 DEF P
      <3>3. verdict' = IF P.kind = "decision" /\ P.block[2] \notin Allowed
                       THEN [P EXCEPT !.kind = "unknown"] ELSE P
        BY <3>2 DEF ValidateTransition
      <3>4. ~(P.kind = "decision" /\ P.block[2] \notin Allowed)
        <4> SUFFICES ASSUME P.kind = "decision" /\ P.block[2] \notin Allowed PROVE FALSE
          OBVIOUS
        <4>1. verdict'.kind = "unknown"
          BY <3>2, <3>3
        <4> QED BY <2>2, <4>1
      <3>5. verdict' = P
        BY <3>3, <3>4
      <3> QED BY <2>2, <3>4, <3>5 DEF P
    <2>3. verdict'.kind = "decision" => verdict'.block \in BlocksOf /\ verdict'.block[2] \in Allowed
      <3> SUFFICES ASSUME verdict'.kind = "decision"
                   PROVE  verdict'.block \in BlocksOf /\ verdict'.block[2] \in Allowed
        OBVIOUS
      <3>1. Parsed.kind = "decision" /\ verdict' = Parsed /\ Parsed.block[2] \in Allowed
        BY <2>2
      <3>2. Parsed.block \in BlocksOf
        BY <3>1, ParsedIsBlock
      <3> QED BY <3>1, <3>2
    <2> HIDE DEF BlocksOf
    <2> QED BY <1>1, <2>1, <2>3 DEF Judged
  <1>4. CASE UNCHANGED scanVars
    BY <1>1, <1>4 DEF Judged, scanVars
  <1> QED BY <1>2, <1>3, <1>4 DEF ScanNext

LEMMA SplitsStay ==
  ASSUME NEW d, NEW k, raw' = raw
  PROVE  Splits(d, k)' <=> Splits(d, k)
  <1>1. \A b, n : CountIn(raw, b, n)' = CountIn(raw, b, n)
    BY DEF CountIn
  <1> QED BY <1>1 DEF Splits

LEMMA TrackStep ==
  ASSUME ScanTypes, [ScanNext]_scanVars, NEW d \in Decisions, NEW k \in Nat, Splits(d, k), Tracks(d, k),
         Judged
  PROVE  Tracks(d, k)'
  <1>1. /\ Len(d) \in {3, 6, 7} /\ d[1] = "open"
        /\ d[2] \notin {"open", "close", "q", "b"}
    BY DecisionShape
  <1>2. raw \in Seq({raw[i] : i \in DOMAIN raw}) /\ idx \in 1 .. Len(raw) + 1
    BY DEF ScanTypes
  <1>3. Len(raw) \in Nat /\ idx \in Nat \ {0}
    BY <1>2, LenProperties
  <1>4. k + Len(d) <= Len(raw)
    BY DEF Splits
  <1> DEFINE m == k + 1
             n == k + Len(d)
  <1>5. m \in Nat /\ n \in Nat /\ m < n
    BY <1>1
  <1>6. ASSUME idx' = idx + 1, verdict' = NoVerdict,
               idx' <= m => Before',
               idx' > m /\ idx' <= n => Within(d, k, idx - k - 1)',
               idx' > n => After(d)'
        PROVE  Tracks(d, k)'
    BY <1>6 DEF Tracks
  <1>a. ASSUME NEW j, idx' - k - 1 = j, Within(d, k, j)'
        PROVE  Within(d, k, idx - k - 1)'
    BY <1>a DEF Within
  <1>7. CASE UNCHANGED scanVars
    <2>1. UNCHANGED <<raw, idx, start, depth, inString, escaped, objects, verdict>>
      BY <1>7 DEF scanVars
    <2>2. \A b, i : CountIn(raw, b, i)' = CountIn(raw, b, i)
      BY <2>1 DEF CountIn
    <2> QED BY <2>1, <2>2 DEF Tracks, Before, Within, After
  <1>8. CASE ScanNext /\ verdict # NoVerdict
    <2>1. FALSE
      BY <1>8 DEF ScanNext, Outside, InString, InObject, ScanEnds, Scanning
    <2> QED BY <2>1
  <1>9. CASE ScanEnds /\ verdict = NoVerdict
    <2>1. idx > Len(raw) /\ verdict' = ValidateTransition(Parsed)
          /\ UNCHANGED <<raw, idx, start, depth, inString, escaped, objects>>
      BY <1>9 DEF ScanEnds
    <2>2. idx > n /\ ~(idx <= m)
      BY <1>3, <1>4, <1>5, <2>1
    <2>3. After(d) /\ After(d)'
      BY <2>1, <2>2 DEF Tracks, After
    <2>4. Parsed = [kind |-> "decision", block |-> d]
      BY <2>3, LastParsed
    <2>5. verdict' = Named(d)
      BY <2>1, <2>4 DEF ValidateTransition, Named
    <2>6. idx' = idx
      BY <2>1
    <2>7. ~(idx' <= m) /\ ~(idx' <= n)
      BY <1>3, <1>5, <2>2, <2>6
    <2> QED BY <2>3, <2>5, <2>7 DEF Tracks
  <1>10. CASE ScanNext /\ ~ScanEnds /\ verdict = NoVerdict
    <2>0. /\ verdict' = NoVerdict /\ idx' = idx + 1
          /\ Len(raw) \in Nat
      BY <1>3, <1>10 DEF ScanNext, Outside, InString, InObject, Forward
    <2>1. CASE idx <= m
      <3>1. Before
        BY <2>1 DEF Tracks
      <3>2. /\ idx <= k => Before'
            /\ idx = k + 1 => start' = k + 1 /\ depth' = 1 /\ ~inString' /\ ~escaped'
        BY <1>1, <1>10, <2>0, <2>1, <3>1, ProseStep
      <3>3. CASE idx <= k
        <4>1. idx' <= m /\ idx' <= n
          BY <1>3, <1>5, <2>0, <3>3
        <4> QED BY <1>3, <1>5, <1>6, <2>0, <3>2, <3>3, <4>1
      <3>4. CASE idx = k + 1
        <4>1. idx' > m /\ idx' <= n /\ idx' - k - 1 = 1
          BY <1>1, <1>5, <2>0, <3>4
        <4>2. Within(d, k, 1)'
          BY <1>1, <3>2, <3>4 DEF Within
        <4>3. Within(d, k, idx - k - 1)'
          BY <1>a, <4>1, <4>2
        <4> QED BY <1>3, <1>5, <1>6, <2>0, <4>1, <4>3
      <3> QED BY <1>3, <2>1, <3>3, <3>4
    <2>2. CASE idx > m /\ idx <= n
      <3>1. PICK j \in Nat \ {0} : j = idx - k - 1 /\ j < Len(d) /\ idx = k + 1 + j
        BY <1>1, <1>3, <2>2
      <3>2. Within(d, k, j)
        BY <2>2, <3>1 DEF Tracks
      <3>3. /\ j + 1 < Len(d) => Within(d, k, j + 1)'
            /\ j + 1 = Len(d) => After(d)'
        BY <1>10, <2>0, <3>1, <3>2, DecisionStep
      <3>4. CASE j + 1 < Len(d)
        <4>1. idx' > m /\ idx' <= n
          BY <1>1, <1>3, <2>0, <3>1, <3>4
        <4>2. idx' - k - 1 = j + 1
          BY <1>3, <2>0, <3>1
        <4>3. Within(d, k, idx - k - 1)'
          BY <1>a, <3>3, <3>4, <4>2
        <4> QED BY <1>3, <1>5, <1>6, <2>0, <4>1, <4>3
      <3>5. CASE j + 1 = Len(d)
        <4>1. idx' > m /\ idx' > n
          BY <1>1, <1>3, <2>0, <3>1, <3>5
        <4> QED BY <1>3, <1>5, <1>6, <2>0, <3>3, <3>5, <4>1
      <3> QED BY <1>1, <3>1, <3>4, <3>5
    <2>3. CASE idx > n
      <3>1. After(d)
        BY <2>3 DEF Tracks
      <3>2. After(d)'
        BY <1>1, <1>10, <2>0, <2>3, <3>1, TailStep
      <3>3. ~(idx' <= m) /\ ~(idx' <= n)
        BY <1>3, <1>5, <2>0, <2>3
      <3> QED BY <1>6, <2>0, <3>2, <3>3
    <2> QED BY <1>3, <1>5, <2>1, <2>2, <2>3
  <1> QED BY <1>7, <1>8, <1>9, <1>10

(* A reply yields its last decision, and only one of its blocks that names  *)
(* an edge of the state (LastObjectWins).                                   *)
THEOREM LastBlockWins == ScanSpec => []LastObjectWins
  <1>1. ScanInit => ScanInv
    BY ScanStarts
  <1>2. ScanInv /\ [ScanNext]_scanVars => ScanInv'
    <2> SUFFICES ASSUME ScanInv, [ScanNext]_scanVars PROVE ScanInv'
      OBVIOUS
    <2>1. ScanTypes' /\ Judged' /\ raw' = raw
      BY ScanTypesStep, JudgedStep DEF ScanInv
    <2>2. ASSUME NEW d \in Decisions, NEW k \in Nat, Splits(d, k)' PROVE Tracks(d, k)'
      <3>1. Splits(d, k)
        BY <2>1, <2>2, SplitsStay
      <3> QED BY <3>1, TrackStep DEF ScanInv, OnTrack
    <2> QED BY <2>1, <2>2 DEF ScanInv, OnTrack
  <1>3. ScanInv => LastObjectWins
    <2> SUFFICES ASSUME ScanInv PROVE LastObjectWins
      OBVIOUS
    <2> DEFINE calm(p) == Balanced(p) /\ ~Contains(p, "q")
    <2>1. ASSUME NEW d \in Decisions, verdict # NoVerdict, EndsWith(calm, d)
          PROVE  verdict = Named(d)
      <3>1. PICK k \in 0 .. Len(raw), l \in 0 .. Len(raw) :
              /\ k + Len(d) + l = Len(raw)
              /\ calm(SubSeq(raw, 1, k))
              /\ SubSeq(raw, k + 1, k + Len(d)) = d
              /\ ~Contains(SubSeq(raw, k + Len(d) + 1, Len(raw)), "open")
        BY <2>1 DEF EndsWith
      <3>2. Len(d) \in Nat /\ raw \in Seq({raw[i] : i \in DOMAIN raw})
        BY DecisionShape DEF ScanInv, ScanTypes
      <3>3. Splits(d, k)
        BY <3>1, <3>2, EndSplits
      <3>4. Tracks(d, k)
        BY <3>3 DEF ScanInv, OnTrack
      <3> QED BY <2>1, <3>4 DEF Tracks
    <2>2. ASSUME verdict.kind = "decision"
          PROVE  /\ verdict.block[2] \in Allowed
                 /\ \E k \in DOMAIN raw : \E l \in DOMAIN raw : SubSeq(raw, k, l) = verdict.block
      BY <2>2 DEF ScanInv, Judged, BlocksOf
    <2> QED BY <2>1, <2>2 DEF LastObjectWins
  <1> QED BY <1>1, <1>2, <1>3, PTL DEF ScanSpec
=============================================================================
