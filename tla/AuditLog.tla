------------------------------ MODULE AuditLog ------------------------------
(* The message log of a conversation: one line of JSON for every entry of   *)
(* the router's log that a reader should see, dated by the round in which   *)
(* it was said.  An append may fail, for a full disk or one that is gone,   *)
(* before, within or after its line; the conversation goes on.              *)
EXTENDS Naturals, Sequences, FiniteSets, SequencesExt

CONSTANTS
    MaxEntries,  \* bound: entries the router logs
    MaxFaults    \* bound: appends that fail

ASSUME AuditAssumption == MaxEntries \in Nat /\ MaxFaults \in Nat

(* What the router logs: what an agent or the human said, a piece of an     *)
(* answer, a tool call, a delivery, one that failed, and the end.           *)
Kinds == {"said", "heard", "partial", "tool", "delivered", "undelivered", "ended"}

VARIABLES
    entries,  \* the router's log
    disk,     \* the lines of the file, each the sequence of what is on it
    open,     \* its last line, while no line break ends it
    turn, count, faults

avars == <<entries, disk, open, turn, count, faults>>

(* A message of the file: the entry it tells, its turn, and whether all of  *)
(* it was written.                                                          *)
Piece(n, t, whole) == [entry |-> n, turn |-> t, whole |-> whole]

(* writeln! writes the line and then its end; either may fail.  A message   *)
(* counts when both are written.                                            *)
AppendMessage(n, t) ==
    \/ /\ disk' = Append(disk, Append(open, Piece(n, t, TRUE))) /\ open' = <<>>
       /\ count' = count + 1 /\ UNCHANGED faults
    \/ /\ faults < MaxFaults /\ faults' = faults + 1
       /\ \/ UNCHANGED open
          \/ \E whole \in BOOLEAN : open' = Append(open, Piece(n, t, whole))
       /\ UNCHANGED <<disk, count>>

Unrecorded == {"partial", "delivered"}

(* Mutant: the turn moves on when the human's message is in the file. *)
RecordThenTurn(kind) ==
    LET n == Len(entries) + 1
    IN  /\ entries' = Append(entries, kind)
        /\ \/ kind \in Unrecorded /\ UNCHANGED <<disk, open, count, faults, turn>>
           \/ kind \notin Unrecorded /\ AppendMessage(n, turn + (IF kind = "heard" THEN 1 ELSE 0))
              /\ turn' = turn + (IF kind = "heard" /\ faults' = faults THEN 1 ELSE 0)

(* What the human says opens a turn, before its message is written and      *)
(* whether or not it can be.                                                *)
RecordEntry(kind) ==
    LET round == IF kind = "heard" THEN turn + 1 ELSE turn
    IN  /\ entries' = Append(entries, kind)
        /\ turn' = round
        /\ \/ kind \in Unrecorded /\ UNCHANGED <<disk, open, count, faults>>
           \/ kind \notin Unrecorded /\ AppendMessage(Len(entries) + 1, round)

Talking == "ended" \notin ToSet(entries)

AuditInit ==
    /\ entries = <<>> /\ disk = <<>> /\ open = <<>>
    /\ turn = 1 /\ count = 0 /\ faults = 0

AuditNext ==
    /\ Len(entries) < MaxEntries /\ Talking
    /\ \E kind \in Kinds : RecordEntry(kind)

AuditSpec == AuditInit /\ [][AuditNext]_avars

---------------------------------------------------------------------------
(* The reader: every line must be one message, but the last may be empty.   *)

LogLines == IF open = <<>> THEN disk ELSE Append(disk, open)

Readable == \A l \in ToSet(LogLines) : Len(l) = 1 /\ l[1].whole

ReadMessageLog == [i \in DOMAIN LogLines |-> LogLines[i][1]]

HeardUpTo(n) == {k \in 1 .. n : entries[k] = "heard"}

(* Whatever failed on the way: a log that can be read tells the entries in  *)
(* their order, each with the round in which it was said, and a log that is *)
(* also ended by a line break has as many as the step's manifest says.      *)
AuditTells ==
    Readable =>
        LET log == ReadMessageLog
        IN  /\ \A i, j \in DOMAIN log : i < j => log[i].entry < log[j].entry
            /\ \A i \in DOMAIN log :
                  log[i].turn = 1 + Cardinality(HeardUpTo(log[i].entry))
            /\ open = <<>> => Len(log) = count
=============================================================================
