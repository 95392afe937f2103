------------------------------ MODULE Workflow ------------------------------
(***************************************************************************)
(* What implement_issue, review_pr and rework_pr make of the records of a   *)
(* run: the record of the step they key off, the verdict in it, the         *)
(* findings under its headings, the fixup commits and the counts.  Models   *)
(* the parsers of src/src/mcp/workflow.rs.                                 *)
(*                                                                         *)
(* A report is a sequence of lines.  A line says something at its start,    *)
(* behind a bullet at column zero or without one: a heading, a verdict, a   *)
(* commit, a count, None., a word (without a bullet: indented, or in a      *)
(* fenced block), prose (without a bullet and not indented), or nothing.    *)
(***************************************************************************)
EXTENDS Integers, Sequences, SequencesExt, FiniteSetsExt

CONSTANTS
    Headings,   \* what "### <section>" lines say
    Verdicts,   \* what a VERDICT: or FINAL_VERDICT: line can say
    Commits     \* what a Fixup SHA: line can say, n/a aside

Unclear == "unclear"

(* output_for: the first record of the step, in the order of its numbers.  *)
OutputFor(records) == IF records = <<>> THEN <<>> ELSE records[1]

\* Mutant: the token that comes last.
LastVerdict(report) ==
    LET said == {k \in DOMAIN report : report[k].says \in Verdicts}
    IN IF said = {} THEN Unclear ELSE report[Max(said)].says

(* parse_verdict, parse_review_verdict, parse_rework_verdict: the first     *)
(* line that starts with the token, behind a bullet or not.                *)
ParseVerdict(report) ==
    LET said == {k \in DOMAIN report : report[k].says \in Verdicts}
    IN IF said = {} THEN Unclear ELSE report[Min(said)].says

---------------------------------------------------------------------------
(* parse_findings_section.  A finding is the sequence of its lines, given by *)
(* their positions in the report.                                          *)

Blank(line) == ~line.bullet /\ line.says = ""
Header(line) == ~line.bullet /\ line.says \in Headings

(* The lines from the first heading of that name to the next heading. *)
Section(report, name) ==
    LET heads == {k \in DOMAIN report : Header(report[k]) /\ report[k].says = name}
        first == Min(heads)
        rest  == {k \in DOMAIN report : k > first /\ Header(report[k])}
        end   == IF rest = {} THEN Len(report) + 1 ELSE Min(rest)
    IN IF heads = {} THEN <<>> ELSE [k \in 1 .. end - first - 1 |-> first + k]

(* push_trimmed: without the blank lines at its end, unless nothing is left. *)
PushTrimmed(report, findings, buf) ==
    LET full == {k \in DOMAIN buf : report[buf[k]].says # ""}
    IN IF full = {} THEN findings
       ELSE Append(findings, [k \in 1 .. Max(full) |-> buf[k]])

(* The section says None. and nothing else. *)
None(report, section) ==
    \E k \in DOMAIN section :
        /\ report[section[k]] = [bullet |-> FALSE, says |-> "None."]
        /\ \A j \in DOMAIN section \ {k} : Blank(report[section[j]])

(* A bullet opens a finding, every other line belongs to the open one, and   *)
(* lines before the first bullet are dropped.                              *)
Take(report, acc, k) ==
    IF report[k].bullet
    THEN [done |-> IF acc.open = <<>> THEN acc.done
                   ELSE PushTrimmed(report, acc.done, acc.open),
          open |-> <<k>>]
    ELSE IF acc.open = <<>> THEN acc
    ELSE [acc EXCEPT !.open = Append(@, k)]

Gather(report, section) ==
    LET after[k \in 0 .. Len(section)] ==
            IF k = 0 THEN [done |-> <<>>, open |-> <<>>]
            ELSE Take(report, after[k - 1], section[k])
    IN after[Len(section)]

\* Mutant: the finding that is open at the end is forgotten.
ClosedFindings(report, name) ==
    LET section == Section(report, name)
    IN IF None(report, section) THEN <<>> ELSE Gather(report, section).done

ParseFindings(report, name) ==
    LET section == Section(report, name)
        all == Gather(report, section)
    IN IF None(report, section) THEN <<>>
       ELSE IF all.open = <<>> THEN all.done
       ELSE PushTrimmed(report, all.done, all.open)

---------------------------------------------------------------------------
(* parse_fixup_shas and parse_summary_count, for lines behind a bullet. *)

ParseFixups(report) ==
    LET shas == SelectSeq(report, LAMBDA line : line.bullet /\ line.says \in Commits)
    IN [k \in DOMAIN shas |-> shas[k].says]

(* A count that is absent, or no u32, is 0. *)
ParseCount(report) ==
    LET counts == {k \in DOMAIN report : report[k].bullet /\ report[k].says \in {"1", "2^32"}}
    IN IF counts # {} /\ report[Min(counts)].says = "1" THEN 1 ELSE 0

(* build_result, build_review_result, build_rework_result; a record that    *)
(* cannot be read counts as an empty one.                                  *)
BuildResult(records) ==
    LET report == OutputFor(records)
    IN [verdict   |-> ParseVerdict(report),
        findings  |-> [name \in Headings |-> ParseFindings(report, name)],
        fixups    |-> ParseFixups(report),
        resolved  |-> ParseCount(report)]

---------------------------------------------------------------------------
(* What the result should be, from the positions of the lines alone: one    *)
(* finding per bullet of the section that says anything at all, from the    *)
(* bullet to the last line before the next one that says something.        *)

Inside(report, name) ==
    {k \in DOMAIN report :
        \E h \in 1 .. k - 1 :
            /\ Header(report[h]) /\ report[h].says = name
            /\ \A g \in 1 .. h - 1 : ~(Header(report[g]) /\ report[g].says = name)
            /\ \A g \in h + 1 .. k : ~Header(report[g])}

(* What a bullet, and the lines up to the next one, say. *)
Tells(report, name, b) ==
    {j \in Inside(report, name) :
        /\ j >= b /\ report[j].says # ""
        /\ \A i \in b + 1 .. j : ~report[i].bullet}

Bullets(report, name) ==
    {b \in Inside(report, name) : report[b].bullet /\ Tells(report, name, b) # {}}

(* Prose between the bullets, which the prompt of the step forbids: the doc  *)
(* comment of the parser has it dropped, the parser keeps it with the       *)
(* finding before it.                                                      *)
Noise(line) == ~line.bullet /\ line.says \in {"prose", "None."} \cup Verdicts
Noisy(report, name) ==
    \E k \in Inside(report, name), b \in Inside(report, name) :
        b < k /\ report[b].bullet /\ Noise(report[k])

FindingsAreBullets(report, name, found) ==
    LET bullets == Bullets(report, name)
        rank(b) == Cardinality({c \in bullets : c <= b})
    IN /\ Len(found) = Cardinality(bullets)
       /\ \A b \in bullets :
             found[rank(b)] = [k \in 1 .. Max(Tells(report, name, b)) - b + 1 |-> b + k - 1]
=============================================================================
