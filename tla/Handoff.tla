------------------------------ MODULE Handoff ------------------------------
(* What people say to a graph run that waits for them.                      *)
(*                                                                          *)
(* A run that reaches a human state either pauses, to be resumed with a     *)
(* text from the command line or with the comments its GitHub issue got     *)
(* since, or asks at the terminal.  People comment and type when they like, *)
(* before, while and after somebody waits for it.  GitHub dates a comment   *)
(* by the second, the run dates its pause more finely.                      *)
(*                                                                          *)
(* GraphRun has the files and the steps; here a run is the sequence of      *)
(* its answers.  The clocks of GitHub and of the run agree.                 *)
EXTENDS Naturals, Sequences, FiniteSets, SequencesExt

CONSTANTS
    Fraction,     \* ticks of the clock in a second
    MaxTime,      \* bound: the last tick
    MaxComments,  \* bound: comments in the issue
    MaxTyped,     \* bound: lines typed at the terminal
    MaxAnswers,   \* bound: human states on the way of the run
    Situations    \* how the run was started

(* tty: of stdin and stdout; numeric: the run's id is an issue number.      *)
Setting == [quiet : BOOLEAN, tty : BOOLEAN, numeric : BOOLEAN]

ASSUME HandoffAssumption ==
    /\ Fraction \in Nat \ {0} /\ MaxTime \in Nat \ {0} /\ MaxComments \in Nat
    /\ MaxTyped \in Nat /\ MaxAnswers \in Nat
    /\ Situations \subseteq Setting

VARIABLES
    how,       \* the run was started
    clock,
    issue,     \* the comments, [n, at, created]
    keyboard,  \* lines typed and not read: numbers, 0 for a blank one
    typed,     \* how many were typed
    phase,     \* "driving", "pausing", "asking", "idle"
    since,     \* when the driver last took up the run, or paused it
    answers,   \* what the human steps of the run say
    saved   \* [status, at, answers]

hvars == <<how, clock, issue, keyboard, typed, phase, since, answers, saved>>

Second(t) == t - (t % Fraction)

NoManifestYet == [status |-> "none", at |-> 0, answers |-> <<>>]

---------------------------------------------------------------------------
(* The world. *)

Tick == clock < MaxTime /\ clock' = clock + 1
        /\ UNCHANGED <<how, issue, keyboard, typed, phase, since, answers, saved>>

Comment ==
    /\ how.numeric /\ Len(issue) < MaxComments
    /\ issue' = Append(issue, [n |-> Len(issue) + 1, at |-> clock, created |-> Second(clock)])
    /\ UNCHANGED <<how, clock, keyboard, typed, phase, since, answers, saved>>

TypeLine ==
    /\ how.tty /\ ~how.quiet /\ typed < MaxTyped
    /\ typed' = typed + 1
    /\ \E line \in {0, typed + 1} : keyboard' = Append(keyboard, line)
    /\ UNCHANGED <<how, clock, issue, phase, since, answers, saved>>

---------------------------------------------------------------------------
(* The run. *)

(* Only a run with a terminal on both sides asks, and never a resumed one.  *)
AsksInline == how.tty /\ ~how.quiet /\ saved.status = "none"

(* Mutant: the pause is dated by the second. *)
ReachBySecond ==
    /\ phase = "driving" /\ Len(answers) < MaxAnswers /\ clock > since
    /\ \/ ~AsksInline /\ phase' = "pausing" /\ since' = Second(clock)
       \/ AsksInline /\ phase' = "asking" /\ since' = clock
    /\ UNCHANGED <<how, clock, issue, keyboard, typed, answers, saved>>

(* The driver gets to a human state, some time after it took up the run.    *)
ReachHuman ==
    /\ phase = "driving" /\ Len(answers) < MaxAnswers /\ clock > since
    /\ phase' = IF AsksInline THEN "asking" ELSE "pausing"
    /\ since' = clock
    /\ UNCHANGED <<how, clock, issue, keyboard, typed, answers, saved>>

(* The pause is on disk only when the issue has been fetched for its hash.  *)
SavePause ==
    /\ phase = "pausing"
    /\ saved' = [status |-> "paused", at |-> since, answers |-> answers]
    /\ phase' = "idle"
    /\ UNCHANGED <<how, clock, issue, keyboard, typed, since, answers>>

AnswerOf(by, says, paused) ==
    [by |-> by, says |-> says, paused |-> paused, asked |-> clock]

(* What is read until a blank line that follows a line of text.  The lines  *)
(* after it stay in the buffer of stdin.                                    *)
Leading(lines) == SelectInSeq(lines, LAMBDA l : l # 0)

FromText(lines) ==
    IF Leading(lines) = 0 THEN <<>> ELSE SubSeq(lines, Leading(lines), Len(lines))

Paragraph(lines) ==
    LET rest == FromText(lines)
        end  == SelectInSeq(rest, LAMBDA l : l = 0)
    IN  [body |-> SubSeq(rest, 1, end - 1), left |-> SubSeq(rest, end + 1, Len(rest))]

Ended(lines) == LET from == Leading(lines)
                IN  from > 0 /\ \E i \in from .. Len(lines) : lines[i] = 0

(* The prompt ends; what was typed after its end is left for the next one.  *)
AnswerPrompt ==
    /\ phase = "asking" /\ Ended(keyboard)
    /\ keyboard' = Paragraph(keyboard).left
    /\ answers'  = Append(answers, AnswerOf("prompt", Paragraph(keyboard).body, since))
    /\ phase' = "driving" /\ since' = clock
    /\ UNCHANGED <<how, clock, issue, typed, saved>>

(* Ctrl-D: the answer is what was typed so far, and nothing is no answer.   *)
EndOfInput ==
    /\ phase = "asking" /\ ~Ended(keyboard)
    /\ LET body == FromText(keyboard)
       IN  answers' = IF body = <<>> THEN answers
                      ELSE Append(answers, AnswerOf("prompt", body, since))
    /\ keyboard' = <<>> /\ phase' = "driving" /\ since' = clock
    /\ UNCHANGED <<how, clock, issue, typed, saved>>

Finish ==
    /\ phase = "driving"
    /\ saved' = [status |-> "done", at |-> 0, answers |-> answers]
    /\ phase' = "idle"
    /\ UNCHANGED <<how, clock, issue, keyboard, typed, since, answers>>

(* A run that fails has no manifest, or still that of its pause.            *)
FailRun ==
    /\ phase \in {"driving", "asking", "pausing"}
    /\ phase' = "idle"
    /\ UNCHANGED <<how, clock, issue, keyboard, typed, since, answers, saved>>

---------------------------------------------------------------------------
(* kuro resume. *)

(* The sources on the command line.  --message and --message-file exclude   *)
(* each other; stdin has nothing when it is a terminal.                     *)
Given == {"none", "empty", "text", "unreadable"}
CommandLines == {c \in [message : Given \ {"unreadable"}, file : Given, stdin : Given] :
                    c.message = "none" \/ c.file = "none"}

(* The first source that is there decides, even by being empty.             *)
CollectLocal(c) ==
    LET source == CHOOSE s \in {"message", "file", "stdin"} :
                    \/ s = "message" /\ c.message # "none"
                    \/ s = "file" /\ c.message = "none" /\ c.file # "none"
                    \/ s = "stdin" /\ c.message = "none" /\ c.file = "none"
    IN  [by |-> source, is |-> c[source]]

(* gh lists the comments in an order of its own, or fails. *)
Listings == {issue, Reverse(issue), <<>>}

(* The elements of s that are in K, in their order. *)
Among(s, K) == FlattenSeq([i \in DOMAIN s |-> IF s[i] \in K THEN <<s[i]>> ELSE <<>>])

Chronological(s) ==
    FlattenSeq([t \in 1 .. MaxTime + 1 |-> Among(s, {c \in ToSet(s) : c.created = t - 1})])

(* Mutant: the order of gh. *)
CommentsUnsorted(listing, cutoff) ==
    Among(listing, {c \in ToSet(listing) : c.created >= cutoff})

(* The comments of the same second as the pause, or later. *)
FetchNewCommentsSince(listing, cutoff) ==
    Chronological(Among(listing, {c \in ToSet(listing) : c.created >= cutoff}))

(* A text from the command line wins; without one and without an issue the  *)
(* run is not resumed.  The answer is numbered after the steps of the       *)
(* manifest, so that of an attempt that failed is written over.             *)
ResumeWith(c, listing) ==
    LET local    == CollectLocal(c)
        comments == IF how.numeric THEN FetchNewCommentsSince(listing, saved.at)
                    ELSE <<>>
    IN  /\ phase = "idle" /\ saved.status = "paused"
        /\ local.is # "unreadable"
        /\ local.is = "text" \/ how.numeric
        /\ answers' = saved.answers
              \o (IF local.is = "text" THEN <<AnswerOf(local.by, <<>>, saved.at)>>
                  ELSE IF comments = <<>> THEN <<>>
                  ELSE <<AnswerOf("github", comments, saved.at)>>)
        /\ phase' = "driving" /\ since' = clock
        /\ UNCHANGED <<how, clock, issue, keyboard, typed, saved>>

---------------------------------------------------------------------------

HandoffInit ==
    /\ how \in Situations
    /\ clock = 1 /\ issue = <<>> /\ keyboard = <<>> /\ typed = 0
    /\ phase = "driving" /\ since = 0 /\ answers = <<>>
    /\ saved = NoManifestYet

HandoffNext ==
    \/ Tick \/ Comment \/ TypeLine
    \/ ReachHuman \/ SavePause \/ AnswerPrompt \/ EndOfInput \/ Finish \/ FailRun
    \/ \E c \in CommandLines, listing \in Listings : ResumeWith(c, listing)

HandoffSpec == HandoffInit /\ [][HandoffNext]_hvars

---------------------------------------------------------------------------
(* Properties. *)

Sources(by) == {i \in DOMAIN answers : answers[i].by = by}

(* Nothing that was said is an answer twice: no comment answers two pauses, *)
(* however often a pause was resumed, and no typed line two prompts.        *)
HeardOnce ==
    \A by \in {"github", "prompt"} : \A i, j \in Sources(by) :
        \A m \in DOMAIN answers[i].says, n \in DOMAIN answers[j].says :
            answers[i].says[m] = answers[j].says[n] => <<i, m>> = <<j, n>>

(* The comments that answer a pause are all from after it, in the order of  *)
(* their seconds, and every comment of a later second that was there when   *)
(* the run was resumed is among them.                                       *)
AnswersComplete ==
    \A i \in Sources("github") :
        LET a == answers[i]
        IN  /\ \A c \in ToSet(a.says) : c.at >= a.paused
            /\ \A m, n \in DOMAIN a.says :
                  m < n => a.says[m].created <= a.says[n].created
            /\ \A c \in ToSet(issue) :
                  c.created > a.paused /\ c.at < a.asked => c \in ToSet(a.says)

(* What the code does not do.  A comment of the same second as the pause is *)
(* "far more likely to be the human's reply" and is heard.                  *)
SameSecondHeard ==
    \A i \in Sources("github") : \A c \in ToSet(issue) :
        LET a == answers[i]
        IN  c.at > a.paused /\ c.at < a.asked => c \in ToSet(a.says)
=============================================================================
