------------------------------ MODULE Transport ------------------------------
(***************************************************************************)
(* One StreamJsonTransport of a conversation: the sends of the router, one  *)
(* after the other, each of which writes a line to the agent's stdin; the   *)
(* reader task that turns the agent's lines into events; recv, in a task of *)
(* its own; and the ways a transport ends: dropped by a router that         *)
(* returned or by a conversation whose next participant could not be        *)
(* spawned, or closed.  Models src/src/executor/transport.rs and the        *)
(* interactive command of executor/mod.rs.                                  *)
(***************************************************************************)
EXTENDS Integers, Sequences, SequencesExt

CONSTANTS
    MaxSends,   \* how many messages the router has for the agent
    Settings    \* [lines |-> the fragments each line of the agent holds,
                \*  text |-> how many lines come before the first that is not UTF-8,
                \*  sibling |-> whether the next participant fails to spawn,
                \*  deaf |-> whether the agent may exit at any time]

ASSUME TransportAssumption ==
    /\ MaxSends \in Nat
    /\ \A c \in Settings : c.lines \in Seq(Seq(STRING)) /\ c.text \in 0 .. Len(c.lines)

VARIABLES
    setting,
    agent,     \* the child: "none", "alive", "exited", "killed"
    said,      \* lines the agent has written to its stdout
    sending,   \* a send has written the head of its line
    calls,     \* sends that were begun
    oks,       \* sends that answered Ok
    stdin,     \* the stdin slot still holds the pipe
    wire,      \* pieces written to the agent's stdin
    parser,    \* stdout reader: "none", "reading", "ended", "gone"
    parsed,    \* lines it has parsed
    channel,   \* events nobody has received
    received,     \* events recv has returned
    eof,       \* recv has returned None
    owner      \* "spawning", "using", "closing", "reaped", "closed", "dropped"

sendVars == <<sending, calls, oks, wire>>
hearVars == <<parser, parsed, channel, received, eof>>
tvars == <<setting, agent, said, sendVars, stdin, hearVars, owner>>

TInit ==
    /\ setting \in Settings
    /\ agent = "none"
    /\ said = 0
    /\ sending = FALSE
    /\ calls = 0
    /\ oks = 0
    /\ stdin = FALSE
    /\ wire = <<>>
    /\ parser = "none"
    /\ parsed = 0
    /\ channel = <<>>
    /\ received = <<>>
    /\ eof = FALSE
    /\ owner = "spawning"

SpawnAgent ==
    /\ owner = "spawning"
    /\ owner' = "using"
    /\ agent' = "alive" /\ stdin' = TRUE /\ parser' = "reading"
    /\ UNCHANGED <<setting, said, sendVars, parsed, channel, received, eof>>

---------------------------------------------------------------------------
(* send: the envelope and its newline, then a flush.  A pipe takes a line   *)
(* in pieces; one whose reader is gone takes none, and the send fails.      *)

WriteHead ==
    /\ owner = "using" /\ ~setting.sibling /\ ~sending /\ calls < MaxSends
    /\ calls' = calls + 1
    /\ IF agent = "alive"
       THEN wire' = Append(wire, "head") /\ sending' = TRUE
       ELSE UNCHANGED <<wire, sending>>
    /\ UNCHANGED <<setting, agent, said, oks, stdin, hearVars, owner>>

(* Mutant: what the flush answers is not looked at. *)
WriteTailUnflushed ==
    /\ sending
    /\ sending' = FALSE
    /\ oks' = oks + 1
    /\ wire' = IF agent = "alive" THEN Append(wire, "tail") ELSE wire
    /\ UNCHANGED <<setting, agent, said, calls, stdin, hearVars, owner>>

WriteTail ==
    /\ sending
    /\ sending' = FALSE
    /\ IF agent = "alive"
       THEN wire' = Append(wire, "tail") /\ oks' = oks + 1
       ELSE UNCHANGED <<wire, oks>>
    /\ UNCHANGED <<setting, agent, said, calls, stdin, hearVars, owner>>

---------------------------------------------------------------------------
(* The agent and what it says.                                             *)

Say ==
    /\ agent = "alive" /\ said < Len(setting.lines)
    /\ said' = said + 1
    /\ UNCHANGED <<setting, agent, sendVars, stdin, hearVars, owner>>

(* It exits when its stdin is closed, or nobody reads its stdout any more;  *)
(* and some do whenever they like.                                         *)
AgentExits ==
    /\ agent = "alive" /\ (~stdin \/ parser # "reading" \/ setting.deaf)
    /\ agent' = "exited"
    /\ UNCHANGED <<setting, said, sendVars, stdin, hearVars, owner>>

(* The stdout reader stops for good when nobody is left to receive. *)
Parse ==
    /\ parser = "reading" /\ parsed < said /\ parsed < setting.text
    /\ parsed' = parsed + 1
    /\ IF owner = "dropped" /\ setting.lines[parsed + 1] # <<>>
       THEN parser' = "gone" /\ UNCHANGED channel
       ELSE channel' = channel \o setting.lines[parsed + 1] /\ UNCHANGED parser
    /\ UNCHANGED <<setting, agent, said, sendVars, stdin, received, eof, owner>>

(* `while let Ok(Some(line))`: at the end of the pipe, or at a line that is *)
(* not UTF-8, with all that follows it unread.                             *)
ParserEnds ==
    /\ parser = "reading"
    /\ IF parsed = said THEN agent \in {"exited", "killed"} ELSE parsed = setting.text
    /\ parser' = "ended"
    /\ UNCHANGED <<setting, agent, said, sendVars, stdin, parsed, channel, received, eof, owner>>

Recv ==
    /\ owner = "using" /\ ~setting.sibling
    /\ IF channel # <<>>
       THEN /\ received' = Append(received, Head(channel))
            /\ channel' = Tail(channel)
            /\ UNCHANGED eof
       ELSE /\ parser = "ended" /\ ~eof
            /\ eof' = TRUE
            /\ UNCHANGED <<received, channel>>
    /\ UNCHANGED <<setting, agent, said, sendVars, stdin, parser, parsed, owner>>

---------------------------------------------------------------------------
(* The end of a transport; nobody is inside send or recv any more.          *)

(* kill_on_drop. *)
Drop ==
    /\ owner = "using" /\ ~sending
    /\ owner' = "dropped"
    /\ stdin' = FALSE
    /\ agent' = IF agent = "alive" THEN "killed" ELSE agent
    /\ channel' = <<>>
    /\ UNCHANGED <<setting, said, sendVars, parser, parsed, received, eof>>

CloseStdin ==
    /\ owner = "using" /\ ~sending /\ ~setting.sibling
    /\ owner' = "closing"
    /\ stdin' = FALSE
    /\ UNCHANGED <<setting, agent, said, sendVars, hearVars>>

ReapAgent ==
    /\ owner = "closing" /\ agent # "alive"
    /\ owner' = "reaped"
    /\ UNCHANGED <<setting, agent, said, sendVars, stdin, hearVars>>

Closed ==
    /\ owner = "reaped" /\ parser = "ended"
    /\ owner' = "closed"
    /\ UNCHANGED <<setting, agent, said, sendVars, stdin, hearVars>>

---------------------------------------------------------------------------
Send == WriteHead \/ WriteTail
HearAgent == Parse \/ ParserEnds \/ Recv
End == Drop \/ CloseStdin \/ ReapAgent \/ Closed

TNext == SpawnAgent \/ Send \/ Say \/ AgentExits \/ HearAgent \/ End
TSpec == TInit /\ [][TNext]_tvars

---------------------------------------------------------------------------
(* Correctness.                                                            *)

Spoken(n) == FlattenSeq(SubSeq(setting.lines, 1, n))

(* Lines cross the pipes whole.  On the agent's stdin there are just the     *)
(* lines of the sends that answered Ok, each in one piece and none twice,    *)
(* and after them at most the head of one line, which is being written or    *)
(* was cut short by the agent's exit (transport.rs:70: "Returns when the     *)
(* bytes have been flushed to the child's stdin pipe").  What recv returned  *)
(* and what waits for it is the beginning of what the agent said, in its     *)
(* order and without a gap, and recv returns None only after all the agent   *)
(* said before the first line that is not UTF-8.                             *)
LinesWhole ==
    /\ Len(wire) \in {2 * oks, 2 * oks + 1}
    /\ \A k \in 1 .. Len(wire) : wire[k] = IF k % 2 = 1 THEN "head" ELSE "tail"
    /\ owner # "dropped" => received \o channel = Spoken(parsed)
    /\ eof => received = Spoken(IF said < setting.text THEN said ELSE setting.text)

=============================================================================
