--------------------------- MODULE DecisionParser ---------------------------
(***************************************************************************)
(* What a graph state makes of an agent's reply: the scan for top-level     *)
(* {...} blocks, the last block that decodes as a decision, and the check   *)
(* of its transition against the edges of the state.  Models                *)
(* src/src/runner/decision.rs.  A reply is a sequence of the bytes the scan *)
(* tells apart: "open" and "close" are the braces, "q" the double quote,    *)
(* "b" the backslash, and a letter of Edges or any other letter stands for  *)
(* a piece of text without these.                                          *)
(***************************************************************************)
EXTENDS Integers, Sequences, SequencesExt, FiniteSetsExt

CONSTANTS
    Replies,   \* the replies considered
    Edges,     \* transitions a decision can name
    Allowed    \* the edges of the current state

(* A piece of text that names an edge is none of the bytes of the scan. *)
ASSUME RepliesAssumption ==
    /\ \A reply \in Replies : reply \in Seq({reply[i] : i \in DOMAIN reply})
    /\ Edges \cap {"open", "close", "q", "b"} = {}

VARIABLES raw, idx, start, depth, inString, escaped, objects, verdict

scanVars == <<raw, idx, start, depth, inString, escaped, objects, verdict>>

NoVerdict == [kind |-> "scanning", block |-> <<>>]

ScanInit ==
    /\ raw \in Replies
    /\ idx = 1
    /\ start = 0
    /\ depth = 0
    /\ inString = FALSE
    /\ escaped = FALSE
    /\ objects = <<>>
    /\ verdict = NoVerdict

---------------------------------------------------------------------------
(* top_level_json_objects, a byte at a time.                               *)

Scanning == verdict = NoVerdict /\ idx <= Len(raw)
Here == raw[idx]
Forward == idx' = idx + 1 /\ UNCHANGED <<raw, verdict>>

Outside ==
    /\ Scanning /\ start = 0
    /\ IF Here = "open" THEN start' = idx /\ depth' = 1 ELSE UNCHANGED <<start, depth>>
    /\ Forward /\ UNCHANGED <<inString, escaped, objects>>

InString ==
    /\ Scanning /\ start # 0 /\ inString
    /\ escaped' = (~escaped /\ Here = "b")
    /\ inString' = (escaped \/ Here # "q")
    /\ Forward /\ UNCHANGED <<start, depth, objects>>

(* Mutant: the scan does not know strings. *)
StringsIgnored ==
    /\ Scanning /\ start # 0 /\ ~inString
    /\ depth' = CASE Here = "open" -> depth + 1 [] Here = "close" -> depth - 1 [] OTHER -> depth
    /\ start' = IF depth' = 0 THEN 0 ELSE start
    /\ objects' = IF depth' = 0 THEN Append(objects, SubSeq(raw, start, idx)) ELSE objects
    /\ Forward /\ UNCHANGED <<inString, escaped>>

InObject ==
    /\ Scanning /\ start # 0 /\ ~inString
    /\ inString' = (Here = "q")
    /\ depth' = CASE Here = "open" -> depth + 1 [] Here = "close" -> depth - 1 [] OTHER -> depth
    /\ start' = IF depth' = 0 THEN 0 ELSE start
    /\ objects' = IF depth' = 0 THEN Append(objects, SubSeq(raw, start, idx)) ELSE objects
    /\ Forward /\ UNCHANGED escaped

---------------------------------------------------------------------------
(* serde: a decision is an object with a transition and a reason, which may *)
(* be plain (part of the letter) or quote a brace or a quote.               *)

ReasonTexts == {<<>>, <<"q", "close", "q">>, <<"q", "b", "q", "q">>}
Decision(edge, reason) == <<"open", edge>> \o reason \o <<"close">>
Decisions == {Decision(e, r) : e \in Edges, r \in ReasonTexts}

(* parse_agent_decision: from the last block to the first.                  *)
Parsed ==
    LET good == {k \in DOMAIN objects : objects[k] \in Decisions}
    IN CASE objects = <<>> -> [kind |-> "no object", block |-> <<>>]
         [] good = {} -> [kind |-> "invalid", block |-> <<>>]
         [] OTHER -> [kind |-> "decision", block |-> objects[Max(good)]]

(* validate_transition. *)
ValidateTransition(p) ==
    IF p.kind = "decision" /\ p.block[2] \notin Allowed THEN [p EXCEPT !.kind = "unknown"] ELSE p

ScanEnds ==
    /\ verdict = NoVerdict /\ idx > Len(raw)
    /\ verdict' = ValidateTransition(Parsed)
    /\ UNCHANGED <<raw, idx, start, depth, inString, escaped, objects>>

ScanNext == Outside \/ InString \/ InObject \/ ScanEnds

ScanSpec == ScanInit /\ [][ScanNext]_scanVars

---------------------------------------------------------------------------
(* Correctness.                                                            *)

CountOf(s, b) == Cardinality({k \in DOMAIN s : s[k] = b})
Balanced(s) ==
    /\ CountOf(s, "open") = CountOf(s, "close")
    /\ \A k \in DOMAIN s : CountOf(SubSeq(s, 1, k), "open") >= CountOf(SubSeq(s, 1, k), "close")

(* The reply ends with a decision, perhaps with prose around it. *)
EndsWith(prose(_), d) ==
    \E k \in 0 .. Len(raw), l \in 0 .. Len(raw) :
        /\ k + Len(d) + l = Len(raw)
        /\ prose(SubSeq(raw, 1, k))
        /\ SubSeq(raw, k + 1, k + Len(d)) = d
        /\ ~Contains(SubSeq(raw, k + Len(d) + 1, Len(raw)), "open")

Named(d) == [kind |-> IF d[2] \in Allowed THEN "decision" ELSE "unknown", block |-> d]

(* The decision a reply ends with is the one the driver gets, whatever       *)
(* blocks come before it, if these balance their braces and quote nothing,   *)
(* and whatever its own reason quotes; and a decision is only ever a block   *)
(* of the reply that names one of the edges (decision.rs:59-74).             *)
LastObjectWins ==
    /\ \A d \in Decisions :
          LET calm(p) == Balanced(p) /\ ~Contains(p, "q")
          IN verdict # NoVerdict /\ EndsWith(calm, d) => verdict = Named(d)
    /\ verdict.kind = "decision" =>
          /\ verdict.block[2] \in Allowed
          /\ \E k \in DOMAIN raw : \E l \in DOMAIN raw : SubSeq(raw, k, l) = verdict.block
=============================================================================
