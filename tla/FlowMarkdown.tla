---------------------------- MODULE FlowMarkdown ----------------------------
(***************************************************************************)
(* Graph flows written in Markdown (src/src/config_md.rs): a scanner that   *)
(* classifies one line at a time.  A line is [kind, text, to, why]; the     *)
(* scanner looks at kind and text, where the text of a transition is the    *)
(* sequence of its tokens; `to` and `why` are what the author means by it.  *)
(* What the scanner returns still goes through the validator of GraphFlow.  *)
(***************************************************************************)
EXTENDS Integers, Sequences, SequencesExt, FiniteSetsExt

CONSTANTS
    Lines(_),   \* the lines considered in a phase
    MaxLines    \* bound: the length of a document

VARIABLES
    doc,        \* the lines read so far
    parser      \* ParseState

mdVars == <<doc, parser>>

Absent == "none"
Lower(name) == CASE name = "A" -> "a" [] name = "B" -> "b" [] OTHER -> name

(* Leading and trailing blank lines go.                                     *)
TrimBlock(lines) ==
    LET full == {i \in DOMAIN lines : lines[i].kind # "blank"}
    IN IF full = {} THEN <<>> ELSE SubSeq(lines, Min(full), Max(full))

Fresh == [id |-> Absent, role |-> Absent, run |-> Absent, final |-> Absent,
          body |-> <<>>, select |-> <<>>]

MdInit ==
    /\ doc = <<>>
    /\ parser = [phase |-> "before frontmatter", front |-> <<>>, name |-> Absent,
                 prompt |-> <<>>, current |-> Fresh, states |-> <<>>]

---------------------------------------------------------------------------
(* flush_state and start_state.                                            *)

Failed(p) == [p EXCEPT !.phase = "error"]

FlushState(p) ==
    IF p.current.id = Absent THEN p
    ELSE IF \E i \in DOMAIN p.states : p.states[i].id = p.current.id THEN Failed(p)
    ELSE [p EXCEPT !.states = Append(@, [p.current EXCEPT !.body = TrimBlock(@)]),
                   !.current = Fresh]

StartState(p, line) ==
    IF p.phase = "error" THEN p
    ELSE [p EXCEPT !.phase = "state meta",
                   !.current = [Fresh EXCEPT !.id = Lower(line.text)]]

Between(p) == IF p.phase = "error" THEN p ELSE [p EXCEPT !.phase = "between states"]

---------------------------------------------------------------------------
(* A transition: `target`, `target: reason`, or a link for the target.      *)

StripLinkSyntax(s) ==
    LET close == SelectInSeq(s, LAMBDA t : t = "]")
        after == SubSeq(s, close + 1, Len(s))
        paren == SelectInSeq(after, LAMBDA t : t = ")")
        rest == IF after # <<>> /\ after[1] = "(" /\ paren # 0
                THEN SubSeq(after, paren + 1, Len(after)) ELSE after
    IN IF s[1] # "[" \/ close = 0 THEN s ELSE SubSeq(s, 2, close - 1) \o rest

ParseTransition(p, line) ==
    LET rest == StripLinkSyntax(line.text)
        colon == SelectInSeq(rest, LAMBDA t : t = ":")
        target == IF colon = 0 THEN rest ELSE SubSeq(rest, 1, colon - 1)
        reason == IF colon = 0 THEN <<>> ELSE SubSeq(rest, colon + 1, Len(rest))
    IN IF line.text = <<>> THEN Failed(p)
       ELSE IF target = <<>> THEN Failed(p)
       ELSE [p EXCEPT !.phase = "transitions",
                      !.current.select = Append(@, [target |-> Lower(target[1]),
                                                    reason |-> reason])]

---------------------------------------------------------------------------
(* parse_line: one action per phase.                                       *)

NextLine(phase) ==
    IF parser.phase = phase /\ Len(doc) < MaxLines THEN Lines(phase) ELSE {}

Read(line, next) == doc' = Append(doc, line) /\ parser' = next

BeforeFrontmatter ==
    \E line \in NextLine("before frontmatter") : Read(line,
        CASE line.kind = "rule" -> [parser EXCEPT !.phase = "frontmatter"]
          [] line.kind = "blank" -> parser
          [] OTHER -> Failed(parser))

Frontmatter ==
    \E line \in NextLine("frontmatter") : Read(line,
        IF line.kind = "rule" THEN [parser EXCEPT !.phase = "flow header"]
        ELSE [parser EXCEPT !.front = Append(@, line)])

FlowHeader ==
    \E line \in NextLine("flow header") : Read(line,
        CASE line.kind = "h1" -> [parser EXCEPT !.name = Lower(line.text),
                                                !.phase = "flow prompt"]
          [] line.kind \in {"rule", "blank"} -> parser
          [] OTHER -> Failed(parser))

FlowPrompt ==
    \E line \in NextLine("flow prompt") : Read(line,
        CASE line.kind = "h2" -> StartState(parser, line)
          [] line.kind = "rule" -> parser
          [] OTHER -> [parser EXCEPT !.prompt = Append(@, line)])

(* Mutant: a state without a body is not flushed when the next one begins. *)
EmptyStateLost ==
    \E line \in NextLine("state meta") : Read(line,
        CASE line.kind \in {"blank", "rule"} -> parser
          [] line.kind = "star" -> [parser EXCEPT !.phase = "panicked"]
          [] line.kind = "role" -> [parser EXCEPT !.current.role = line.text]
          [] line.kind = "run" -> [parser EXCEPT !.current.run = line.text]
          [] line.kind = "final" -> [parser EXCEPT !.current.final = line.text]
          [] line.kind = "arrow" -> ParseTransition(parser, line)
          [] line.kind = "h2" -> StartState(parser, line)
          [] OTHER -> [parser EXCEPT !.phase = "state body",
                                     !.current.body = Append(@, line)])

(* A lone star both begins and ends with one; cutting off both stars is a   *)
(* slice from 1 to 0, and panics.  Keys are role, run and final.            *)
StateMeta ==
    \E line \in NextLine("state meta") : Read(line,
        CASE line.kind \in {"blank", "rule"} -> parser
          [] line.kind = "star" -> [parser EXCEPT !.phase = "panicked"]
          [] line.kind = "role" -> [parser EXCEPT !.current.role = line.text]
          [] line.kind = "run" -> [parser EXCEPT !.current.run = line.text]
          [] line.kind = "final" -> [parser EXCEPT !.current.final = line.text]
          [] line.kind = "arrow" -> ParseTransition(parser, line)
          [] line.kind = "h2" -> StartState(FlushState(parser), line)
          [] OTHER -> [parser EXCEPT !.phase = "state body",
                                     !.current.body = Append(@, line)])

StateBody ==
    \E line \in NextLine("state body") : Read(line,
        CASE line.kind = "arrow" -> ParseTransition(parser, line)
          [] line.kind = "h2" -> StartState(FlushState(parser), line)
          [] line.kind = "rule" -> Between(FlushState(parser))
          [] line.kind = "next" -> parser
          [] OTHER -> [parser EXCEPT !.current.body = Append(@, line)])

Transitions ==
    \E line \in NextLine("transitions") : Read(line,
        CASE line.kind = "arrow" -> ParseTransition(parser, line)
          [] line.kind = "h2" -> StartState(FlushState(parser), line)
          [] line.kind = "rule" -> Between(FlushState(parser))
          [] line.kind = "blank" -> parser
          [] OTHER -> Failed(parser))

BetweenStates ==
    \E line \in NextLine("between states") : Read(line,
        CASE line.kind = "h2" -> StartState(parser, line)
          [] line.kind \in {"rule", "blank"} -> parser
          [] OTHER -> Failed(parser))

MdNext ==
    \/ BeforeFrontmatter \/ Frontmatter \/ FlowHeader \/ FlowPrompt
    \/ StateMeta \/ StateBody \/ Transitions \/ BetweenStates

(* parse_md_flow at the end of the file.  The first `format:` line counts.  *)
ParseFrontmatter(front) ==
    LET formats == SelectSeq(front, LAMBDA l : l.kind = "format")
    IN formats # <<>> /\ Head(formats).text = "kuromaku-flow/v1"

ParseMdFlow(p) ==
    LET f == FlushState(p)
    IN IF /\ f.phase \notin {"error", "panicked"} /\ ParseFrontmatter(f.front)
          /\ f.name # Absent /\ f.states # <<>>
       THEN [ok |-> TRUE, name |-> f.name, prompt |-> TrimBlock(f.prompt),
             initial |-> f.states[1].id, states |-> f.states]
       ELSE [ok |-> FALSE]

---------------------------------------------------------------------------
(* What a document means, section by section, without a scanner.           *)

Kinds(k) == {i \in DOMAIN doc : doc[i].kind = k}
Fences == {i \in Kinds("rule") : Cardinality({j \in Kinds("rule") : j < i}) < 2}
Title == Min({i \in Kinds("h1") : i > Max(Fences)})
Heads == SetToSortSeq({i \in Kinds("h2") : i > Title}, <)
Section(k) ==
    SubSeq(doc, Heads[k] + 1, IF k = Len(Heads) THEN Len(doc) ELSE Heads[k + 1] - 1)

First(s, Is(_)) == LET at == SelectInSeq(s, Is) IN IF at = 0 THEN Len(s) + 1 ELSE at

MetaKinds == {"blank", "rule", "role", "run", "final"}
Meta(s) == SubSeq(s, 1, First(s, LAMBDA l : l.kind \notin MetaKinds) - 1)
Rest(s) == SubSeq(s, Len(Meta(s)) + 1, Len(s))
Body(s) == SubSeq(Rest(s), 1, First(Rest(s), LAMBDA l : l.kind \in {"arrow", "rule"}) - 1)
After(s) == SubSeq(Rest(s), Len(Body(s)) + 1, Len(Rest(s)))

(* After the body arrows and blank lines, and after a rule nothing.         *)
Orderly(s) ==
    LET t == After(s)
        stop == First(t, LAMBDA l : l.kind = "rule")
        listed == {"arrow", "blank"}
    IN \A i \in DOMAIN t :
          /\ i < stop => t[i].kind \in listed /\ (t[i].kind = "arrow" => t[i].to # Absent)
          /\ i > stop => t[i].kind \in {"blank", "rule"}

LastOf(s, k) ==
    FoldLeft(LAMBDA v, l : IF l.kind = k THEN l.text ELSE v, Absent, s)

(* `### Next` is a line of the body only as its first.                      *)
Meaning(k) ==
    LET s == Section(k)
        body == Body(s)
        arrows == SelectSeq(s, LAMBDA l : l.kind = "arrow")
    IN [id |-> Lower(doc[Heads[k]].text),
        role |-> LastOf(Meta(s), "role"), run |-> LastOf(Meta(s), "run"),
        final |-> LastOf(Meta(s), "final"),
        body |-> IF body = <<>> THEN <<>>
                 ELSE TrimBlock(<<Head(body)>>
                                \o SelectSeq(Tail(body), LAMBDA l : l.kind # "next")),
        select |-> [i \in DOMAIN arrows |-> [target |-> arrows[i].to,
                                             reason |-> arrows[i].why]]]

(* No lone star where the scanner looks for metadata. *)
Calm(s) == s # <<>> => s[1].kind # "star"

WellFormed ==
    /\ Cardinality(Fences) = 2
    /\ \A i \in 1 .. Min(Fences) - 1 : doc[i].kind = "blank"
    /\ ParseFrontmatter(SubSeq(doc, Min(Fences) + 1, Max(Fences) - 1))
    /\ \E t \in Kinds("h1") :
          /\ t > Max(Fences)
          /\ \A i \in Max(Fences) + 1 .. t - 1 : doc[i].kind \in {"blank", "rule"}
    /\ Heads # <<>>
    /\ \A k \in DOMAIN Heads :
          /\ Orderly(Section(k)) /\ Calm(Rest(Section(k)))
          /\ \A j \in 1 .. k - 1 : Lower(doc[Heads[j]].text) # Lower(doc[Heads[k]].text)

(* Invariant: a document is accepted if and only if its sections are in the  *)
(* format, and the flow is the one that it states: every section one state,  *)
(* in order, with the role, the body and the transitions that stand in it    *)
(* and in no other (config_md.rs, and docs/graph-flows.md for the format).   *)
ReadAsWritten ==
    LET flow == ParseMdFlow(parser)
    IN /\ flow.ok <=> WellFormed
       /\ flow.ok =>
             flow = [ok |-> TRUE, name |-> Lower(doc[Title].text),
                     prompt |-> TrimBlock(SelectSeq(SubSeq(doc, Title + 1, Heads[1] - 1),
                                                    LAMBDA l : l.kind # "rule")),
                     initial |-> Lower(doc[Heads[1]].text),
                     states |-> [k \in DOMAIN Heads |-> Meaning(k)]]

=============================================================================
