------------------------------ MODULE Executor ------------------------------
(***************************************************************************)
(* One task of LocalExecutor: the shell it spawns, what that shell leaves   *)
(* behind in the background, the reader task that drains stdout into the    *)
(* buffer and the artifact file, the caller of spawn and wait, and another  *)
(* holder of the executor who asks for status or stops the task.  Models    *)
(* src/src/executor/local.rs and stream_json.rs; the run drivers give every *)
(* task an id of its own, so a second task shares nothing with this one.    *)
(***************************************************************************)
EXTENDS Integers, Sequences, SequencesExt, FiniteSetsExt

CONSTANT Tasks    \* [format |-> "raw" or "json", lines |-> what reaches stdout,
                  \*  text |-> how many lines come before the first that is not UTF-8,
                  \*  own |-> how many of the lines the shell itself writes,
                  \*  holds |-> whether its background children never close
                  \*            the pipe, code |-> exit code,
                  \*  opens |-> whether the artifact can be opened,
                  \*  writes |-> whether every write to it succeeds,
                  \*  other |-> whether somebody else asks and stops]

ASSUME TasksAssumption ==
    \A s \in Tasks :
        /\ s.format \in {"raw", "json"}
        /\ s.lines \in Seq([event : STRING, text : STRING])
        /\ s.text \in 0 .. Len(s.lines)
        /\ {s.holds, s.opens, s.writes, s.other} \subseteq BOOLEAN

VARIABLES
    task,
    entry,      \* the task is in `processes`
    child,      \* the shell: "none", "alive", "exited", "killed", or "broken"
                \* by a write to a pipe that nobody reads
    written,    \* lines that were written to stdout
    taken,      \* lines the reader has taken out of it
    reader,     \* "none", "reading", "writing" (buffer done, file not),
                \* "ended", "aborted"
    buf,        \* stdout_buf
    override,   \* result_override
    file,       \* the artifact file
    caller,     \* "idle", "opening", "spawned", "waiting", "draining",
                \* "returned", "refused"
    answer,     \* what wait returned
    stopper,    \* "idle", "killing", "stopped", "late"
    told        \* what status last said

taskVars == <<task, entry, child, written, taken, reader, buf, override, file,
          caller, answer, stopper, told>>

NoText == ""
NoAnswer == [kind |-> "none", out |-> <<>>]
NoOverride == <<>>

Lines == task.lines
Line == Lines[taken]

(* parse_line: an assistant event repeats what the deltas brought and is    *)
(* dropped, like system, user and unparsable lines and an empty result.     *)
ParseLine(line) ==
    CASE line.event = "delta" /\ line.text # NoText -> <<[is |-> "text", text |-> line.text]>>
      [] line.event = "tool" -> <<[is |-> "tool", text |-> line.text]>>
      [] line.event = "result" /\ line.text # NoText -> <<[is |-> "result", text |-> line.text]>>
      [] OTHER -> <<>>

(* What one line means for the buffer and the file. *)
Fragments(line) ==
    IF task.format = "raw" THEN <<[is |-> "text", text |-> line.text]>> ELSE ParseLine(line)

Texts(line) ==
    LET frags == Fragments(line)
    IN FlattenSeq([k \in DOMAIN frags |->
                      IF frags[k].is = "text" THEN <<frags[k].text>> ELSE <<>>])

TaskInit ==
    /\ task \in Tasks
    /\ entry = FALSE
    /\ child = "none"
    /\ written = 0
    /\ taken = 0
    /\ reader = "none"
    /\ buf = <<>>
    /\ override = NoOverride
    /\ file = <<>>
    /\ caller = "idle"
    /\ answer = NoAnswer
    /\ stopper = "idle"
    /\ told = "nothing"

---------------------------------------------------------------------------
(* The operating system: the shell and what it started.                    *)

(* The write end of stdout is open somewhere. *)
PipeOpen == child = "alive" \/ written < Len(Lines) \/ task.holds

(* A reader that has ended holds the pipe no longer: what is written then   *)
(* is lost, and its writer may die of it.                                  *)
Emit ==
    /\ child # "none" /\ written < Len(Lines)
    /\ child = "alive" \/ written >= task.own
    /\ written' = written + 1
    /\ child' \in {child} \cup (IF reader = "ended" /\ written < task.own
                               THEN {"broken"} ELSE {})
    /\ UNCHANGED <<task, entry, taken, reader, buf, override, file, caller,
                   answer, stopper, told>>

ShellEnds ==
    /\ child = "alive" /\ written >= task.own
    /\ child' = "exited"
    /\ UNCHANGED <<task, entry, written, taken, reader, buf, override, file, caller,
                   answer, stopper, told>>

---------------------------------------------------------------------------
(* spawn: the child first, then (an await later) the artifact file.        *)

SpawnChild ==
    /\ caller = "idle"
    /\ caller' = "opening"
    /\ child' = "alive"
    /\ UNCHANGED <<task, entry, written, taken, reader, buf, override, file, answer,
                   stopper, told>>

(* Nothing kills the child of a spawn that fails here. *)
OpenFails ==
    /\ caller = "opening" /\ ~task.opens
    /\ caller' = "refused"
    /\ UNCHANGED <<task, entry, child, written, taken, reader, buf, override, file,
                   answer, stopper, told>>

Register ==
    /\ caller = "opening" /\ task.opens
    /\ caller' = "spawned"
    /\ reader' = "reading"
    /\ entry' = TRUE
    /\ UNCHANGED <<task, child, written, taken, buf, override, file, answer, stopper, told>>

---------------------------------------------------------------------------
(* The stdout reader.                                                      *)

(* write_raw_line and write_fragment: the buffer under its lock ... *)
ReadLine ==
    /\ reader = "reading" /\ taken < written /\ taken < task.text
    /\ taken' = taken + 1
    /\ LET line == Lines[taken + 1]
           frags == Fragments(line)
       IN /\ buf' = buf \o Texts(line)
          /\ override' = IF \E k \in DOMAIN frags : frags[k].is = "result"
                         THEN <<frags[1].text>> ELSE override
          /\ reader' = IF Texts(line) = <<>> THEN "reading" ELSE "writing"
    /\ UNCHANGED <<task, entry, child, written, file, caller, answer, stopper, told>>

(* ... then the file, whose errors are swallowed. *)
WriteFile ==
    /\ reader = "writing"
    /\ \E wrote \in IF task.writes THEN {TRUE} ELSE BOOLEAN :
          file' = IF wrote THEN file \o Texts(Line) ELSE file
    /\ reader' = "reading"
    /\ UNCHANGED <<task, entry, child, written, taken, buf, override, caller, answer,
                   stopper, told>>

(* `while let Ok(Some(line))`: at the end of the pipe, or at a line that is *)
(* not UTF-8, with all that follows it unread.                             *)
ReaderEnds ==
    /\ reader = "reading"
    /\ IF taken = written THEN ~PipeOpen ELSE taken = task.text
    /\ reader' = "ended"
    /\ UNCHANGED <<task, entry, child, written, taken, buf, override, file, caller,
                   answer, stopper, told>>

---------------------------------------------------------------------------
(* wait: it takes the task out of `processes`, reaps the child, then drains *)
(* the readers.                                                            *)

WaitBegins ==
    /\ caller = "spawned" /\ entry
    /\ entry' = FALSE
    /\ caller' = "waiting"
    /\ UNCHANGED <<task, child, written, taken, reader, buf, override, file, answer,
                   stopper, told>>

NotFound ==
    /\ caller = "spawned" /\ ~entry
    /\ caller' = "returned"
    /\ answer' = [kind |-> "not found", out |-> <<>>]
    /\ UNCHANGED <<task, entry, child, written, taken, reader, buf, override, file,
                   stopper, told>>

Reap ==
    /\ caller = "waiting" /\ child \in {"exited", "broken"}
    /\ caller' = "draining"
    /\ UNCHANGED <<task, entry, child, written, taken, reader, buf, override, file,
                   answer, stopper, told>>

(* trim: blank text goes at both ends. *)
Trim(texts) ==
    LET solid == {k \in DOMAIN texts : texts[k] # NoText}
    IN IF solid = {} THEN <<>> ELSE SubSeq(texts, Min(solid), Max(solid))

Stdout == Trim(IF override # NoOverride THEN override ELSE buf)
Success == child = "exited" /\ task.code = 0
WaitResult == IF Success THEN [kind |-> "output", out |-> Stdout]
           ELSE [kind |-> "failed", out |-> <<>>]

(* Mutant: the buffers are read without waiting for the readers. *)
ReturnEarly ==
    /\ caller = "draining"
    /\ caller' = "returned"
    /\ answer' = WaitResult
    /\ UNCHANGED <<task, entry, child, written, taken, reader, buf, override, file,
                   stopper, told>>

Return ==
    /\ caller = "draining" /\ reader = "ended"
    /\ caller' = "returned"
    /\ answer' = WaitResult
    /\ UNCHANGED <<task, entry, child, written, taken, reader, buf, override, file,
                   stopper, told>>

---------------------------------------------------------------------------
(* status and stop, by another holder.                                     *)

(* A task that is not in `processes` is reported Completed. *)
AskStatus ==
    /\ task.other /\ caller # "idle" /\ told # "Completed"
    /\ told' = IF ~entry THEN "Completed"
               ELSE IF child = "alive" THEN "Running"
               ELSE IF Success THEN "Completed" ELSE "Failed"
    /\ told' # told
    /\ UNCHANGED <<task, entry, child, written, taken, reader, buf, override, file,
                   caller, answer, stopper>>

(* Mutant: the task stays in `processes` while it is killed. *)
StopInPlace ==
    /\ task.other /\ stopper = "idle" /\ caller \in {"spawned", "waiting", "draining"}
    /\ stopper' = IF entry THEN "killing" ELSE "late"
    /\ UNCHANGED <<task, entry, child, written, taken, reader, buf, override, file,
                   caller, answer, told>>

(* stop answers Ok too when wait has already taken the task. *)
Stop ==
    /\ task.other /\ stopper = "idle" /\ caller \in {"spawned", "waiting", "draining"}
    /\ stopper' = IF entry THEN "killing" ELSE "late"
    /\ entry' = FALSE
    /\ UNCHANGED <<task, child, written, taken, reader, buf, override, file, caller,
                   answer, told>>

Kill ==
    /\ stopper = "killing"
    /\ stopper' = "stopped"
    /\ child' = IF child = "alive" THEN "killed" ELSE child
    /\ reader' = IF reader = "ended" THEN reader ELSE "aborted"
    /\ UNCHANGED <<task, entry, written, taken, buf, override, file, caller, answer, told>>

---------------------------------------------------------------------------
Reader == ReadLine \/ WriteFile \/ ReaderEnds
Caller == SpawnChild \/ OpenFails \/ Register \/ WaitBegins \/ NotFound \/ Reap \/ Return
World == Emit \/ ShellEnds

TaskNext == Reader \/ Caller \/ World \/ AskStatus \/ Stop \/ Kill

(* The runtime polls the caller and the reader; a shell writes what it has  *)
(* to write and exits, and so does what it started, unless it holds on.     *)
TaskSpec == TaskInit /\ [][TaskNext]_taskVars /\ WF_taskVars(Reader)
            /\ WF_taskVars(Caller) /\ WF_taskVars(World) /\ WF_taskVars(Kill)

---------------------------------------------------------------------------
(* Correctness.                                                            *)

TaskTypes ==
    /\ task \in Tasks
    /\ entry \in BOOLEAN
    /\ child \in {"none", "alive", "exited", "killed", "broken"}
    /\ written \in 0 .. Len(Lines) /\ taken \in 0 .. written
    /\ reader \in {"none", "reading", "writing", "ended", "aborted"}
    /\ caller \in {"idle", "opening", "spawned", "waiting", "draining", "returned", "refused"}
    /\ stopper \in {"idle", "killing", "stopped", "late"}
    /\ told \in {"nothing", "Running", "Completed", "Failed"}

(* The text and the results of the first n lines. *)
TextsTo(n) == FlattenSeq([k \in 1 .. n |-> Texts(Lines[k])])
ResultsTo(n) == {k \in 1 .. n : Lines[k].event = "result" /\ Lines[k].text # NoText}

(* An output wait returns is made of all lines that come before the first    *)
(* that is not UTF-8, so of all lines if all of them are: it is the text of  *)
(* their last result event if the agent sent one, every piece of their text  *)
(* otherwise, whoever wrote it, whenever, and whatever happened to the       *)
(* artifact file on the way; the file is just as complete, unless a write    *)
(* failed; and nothing is returned for a task that was stopped first         *)
(* (local.rs:198-207: the readers are drained before the buffers are read).  *)
WholeOutput ==
    answer.kind = "output" =>
        LET n == task.text
        IN  /\ stopper \in {"idle", "late"}
            /\ task.writes => file = TextsTo(n)
            /\ answer.out = IF task.format = "json" /\ ResultsTo(n) # {}
                            THEN <<Lines[Max(ResultsTo(n))].text>> ELSE Trim(TextsTo(n))

(* wait and stop share the task between them: the shell is never killed      *)
(* under a wait in progress, and stop leaves no shell running once it is     *)
(* over and had the task.                                                    *)
OneTaker ==
    /\ caller \in {"waiting", "draining"} => stopper \in {"idle", "late"}
    /\ stopper = "stopped" => child # "alive"

(* A wait returns once the shell and everything it left holding its stdout   *)
(* are gone; only a background child that keeps the pipe keeps the caller.   *)
WaitReturns == (caller = "waiting" /\ ~task.holds) ~> (caller = "returned")
=============================================================================
