----------------------------- MODULE MCExecutor -----------------------------
(* A task of the local executor, a transport of a conversation, and what a  *)
(* graph state makes of an answer: the one-shot and the persistent child    *)
(* process and the reader of a reply.  One of them is at work in a          *)
(* behaviour; the others stay as their initial predicate leaves them.       *)
EXTENDS Executor, Transport, DecisionParser

Emits(e, t) == [event |-> e, text |-> t]

RawLines == <<Emits("plain", ""), Emits("plain", "x"), Emits("plain", "y")>>
JsonLines == <<Emits("delta", "x"), Emits("tool", "t"), Emits("result", "r1"),
               Emits("assistant", "x"), Emits("result", "r2")>>
NoResult == <<Emits("delta", "x"), Emits("result", ""), Emits("delta", "y")>>

(* All of the text is UTF-8, or a line in the middle of it is not. *)
Shells ==
    UNION {[format : {f}, lines : {ls}, text : {2, Len(ls)}, own : {1, 3},
            holds : BOOLEAN, code : {0, 1}, opens : {TRUE}, writes : BOOLEAN,
            other : BOOLEAN] :
              f \in {"raw", "json"}, ls \in {RawLines, JsonLines, NoResult}}
MCTasks ==
    LET fit == {t \in Shells : (t.format = "raw") = (t.lines = RawLines)}
    IN fit \cup {[t EXCEPT !.opens = FALSE] : t \in {x \in fit : x.format = "raw" /\ x.writes}}

MCSettings ==
    [lines : {<< <<"a">>, <<>>, <<"b", "c">> >>}, text : {1, 3}, sibling : BOOLEAN, deaf : BOOLEAN]

MaxLen == 4
MCEdges == {"x", "y"}
MCAllowed == {"x"}
Prose == UNION {[1 .. n -> {"open", "close", "q", "b", "x"}] : n \in 0 .. MaxLen}
MCReplies == Prose \cup {p \o d : p \in Prose, d \in Decisions}

(* Who is not at work. *)
AnyTask == CHOOSE t \in Tasks : TRUE
AnySetting == CHOOSE st \in Settings : TRUE
AnyReply == <<>>

TransportIdle == setting = AnySetting /\ owner = "spawning"
TaskIdle == task = AnyTask /\ caller = "idle"
ScanIdle == raw = AnyReply /\ verdict = NoVerdict

agentVars == <<taskVars, tvars, scanVars>>

AgentInit == TaskInit /\ TInit /\ ScanInit
AgentsIdle == TransportIdle /\ TaskIdle /\ ScanIdle
OneAgent ==
    \/ TransportIdle /\ TaskIdle
    \/ TransportIdle /\ ScanIdle
    \/ TaskIdle /\ ScanIdle

AtTask(A) == TransportIdle /\ ScanIdle /\ A /\ UNCHANGED <<tvars, scanVars>>
AtTransport == TaskIdle /\ ScanIdle /\ TNext /\ UNCHANGED <<taskVars, scanVars>>
AtScan == TransportIdle /\ TaskIdle /\ ScanNext /\ UNCHANGED <<taskVars, tvars>>

AgentNext == AtTask(TaskNext) \/ AtTransport \/ AtScan
=============================================================================
