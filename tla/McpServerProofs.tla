-------------------------- MODULE McpServerProofs --------------------------
(***************************************************************************)
(* Theorems about McpServer, for every set of scenes, every number of       *)
(* frames and every capacity of the channels.                              *)
(***************************************************************************)
EXTENDS McpServer, SequenceLemmas, FiniteSetTheorems, TLAPS

USE DEF loopVars, callVars, runVars, Rest, frames, Codes, Says

----------------------------------------------------------------------------
(* Type correctness.                                                       *)

\* A message that waits for room has a run to go to.
SendInv == \A n \in Calls : pc[n] = "send" => Target(n) \in Calls

TypeInv == TypeOK /\ SendInv

LEMMA ConstantTypes ==
  ASSUME scene \in Scenes
  PROVE  /\ Room \in Nat \ {0} /\ MaxFrames \in Nat
         /\ Len(frames) \in 0 .. MaxFrames /\ scene.talks \in Nat
         /\ scene.records \in Records
         /\ \A shape \in scene.shapes : shape \in Shapes
BY BoundsAssumption DEF Records, Shapes

LEMMA RunFields ==
  ASSUME TypeOK, NEW n \in Calls
  PROVE  run[n] \in RunStates /\ run[n].talk \in Nat
BY DEF TypeOK, RunStates

LEMMA ChanFields ==
  ASSUME TypeOK, NEW n \in Calls
  PROVE  /\ chan \in [Calls -> Seq(Calls)] /\ chan[n] \in Seq(Calls)
         /\ Len(chan[n]) \in Nat /\ Len(chan[n]) <= Room /\ Room \in Nat \ {0}
BY LenProperties, ConstantTypes DEF TypeOK

LEMMA RunUpdated ==
  ASSUME TypeOK, NEW n \in Calls, NEW r \in RunStates, run' = [run EXCEPT ![n] = r]
  PROVE  run' \in [Calls -> RunStates]
BY DEF TypeOK

LEMMA ChanUpdated ==
  ASSUME TypeOK, NEW n \in Calls, NEW s \in Seq(Calls), Len(s) <= Room,
         chan' = [chan EXCEPT ![n] = s]
  PROVE  chan' \in [Calls -> Seq(Calls)] /\ \A m \in Calls : Len(chan'[m]) <= Room
<1>1. chan \in [Calls -> Seq(Calls)] /\ \A m \in Calls : Len(chan[m]) <= Room
  BY DEF TypeOK
<1>2. chan' \in [Calls -> Seq(Calls)]
  BY <1>1
<1>3. \A m \in Calls : chan'[m] = IF m = n THEN s ELSE chan[m]
  BY <1>1
<1> QED BY <1>1, <1>2, <1>3

LEMMA InitTypes == Init => TypeInv
<1> SUFFICES ASSUME Init PROVE TypeInv
  OBVIOUS
<1>1. Room \in Nat \ {0} /\ MaxFrames \in Nat /\ Len(frames) \in 0 .. MaxFrames
  BY ConstantTypes DEF Init
<1>2. NoCode \in Codes /\ Nowhere \in (0 .. MaxFrames) \X Nat
  BY <1>1 DEF NoCode, Nowhere
<1>3. NoRun \in RunStates
  BY DEF NoRun, Shapes, Records, RunStates
<1>4. out \in Seq(Codes) /\ chan \in [Calls -> Seq(Calls)]
      /\ heard \in [Calls -> Seq([call : Calls, talk : Nat])]
  BY EmptySeq DEF Init
<1>5. \A n \in Calls : Len(chan[n]) <= Room
  BY <1>1 DEF Init
<1>6. run \in [Calls -> RunStates]
  BY <1>3 DEF Init
<1>7. SendInv
  BY DEF Init, SendInv
<1>8. read \in 0 .. Len(frames)
  BY <1>1 DEF Init
<1>9. code \in [Calls -> Codes] /\ dest \in [Calls -> (0 .. MaxFrames) \X Nat]
  BY <1>2 DEF Init
<1> QED BY <1>4, <1>5, <1>6, <1>7, <1>8, <1>9 DEF Init, TypeInv, TypeOK

LEMMA AnswerTypes ==
  ASSUME TypeInv, NEW n \in Calls, NEW says \in Says, Answer(n, says)
  PROVE  /\ pc' \in [Calls -> {"none", "ready", "await", "send", "reply", "over", "dropped"}]
         /\ code' \in [Calls -> Codes]
         /\ \A m \in Calls : pc'[m] = "send" => m # n /\ pc[m] = "send"
<1>1. n \in 0 .. MaxFrames
  BY ConstantTypes DEF TypeInv, TypeOK, Calls
<1> QED BY <1>1 DEF Answer, TypeInv, TypeOK

LEMMA LoopTypes ==
  ASSUME TypeInv, ReadFrame \/ Eof \/ ReadFails \/ Drained
  PROVE  TypeInv'
<1>1. /\ MaxFrames \in Nat /\ Len(frames) \in 0 .. MaxFrames
  BY ConstantTypes DEF TypeInv, TypeOK
<1>2. CASE ReadFrame
  <2>1. read' \in 0 .. Len(frames) /\ scene' = scene
    BY <1>1, <1>2 DEF ReadFrame, TypeInv, TypeOK
  <2>2. pc' \in [Calls -> {"none", "ready", "await", "send", "reply", "over", "dropped"}]
    BY <1>2 DEF ReadFrame, TypeInv, TypeOK
  <2>3. SendInv'
    BY <1>2 DEF ReadFrame, TypeInv, TypeOK, SendInv, Target
  <2> QED BY <1>2, <2>1, <2>2, <2>3 DEF ReadFrame, TypeInv, TypeOK
<1>3. CASE Eof \/ Drained
  BY <1>3 DEF Eof, Drained, TypeInv, TypeOK, SendInv, Target
<1>4. CASE ReadFails
  <2>1. pc' \in [Calls -> {"none", "ready", "await", "send", "reply", "over", "dropped"}]
    BY <1>4 DEF ReadFails, TypeInv, TypeOK
  <2>2. SendInv'
    BY <1>4 DEF ReadFails, TypeInv, TypeOK, SendInv, Target
  <2> QED BY <1>4, <2>1, <2>2 DEF ReadFails, TypeInv, TypeOK
<1> QED BY <1>2, <1>3, <1>4

LEMMA DispatchTypes ==
  ASSUME TypeInv, NEW n \in Calls, Dispatch(n)
  PROVE  TypeInv'
<1>0. n \in 0 .. MaxFrames
  BY ConstantTypes DEF TypeInv, TypeOK, Calls
<1>1. ASSUME NEW says \in Says, Answer(n, says),
             UNCHANGED <<scene, loopVars, dest, out, slots, runVars>>
      PROVE  TypeInv'
  BY <1>1, AnswerTypes DEF TypeInv, TypeOK, SendInv, Target
<1>2. CASE ParseError(n)
  <2>1. code'[n] \in Codes
    <3>1. code'[n] = [id |-> IF frames[n].id THEN n ELSE 0, says |-> "parse_error"]
      BY <1>2 DEF ParseError, TypeInv, TypeOK
    <3>2. 0 \in 0 .. MaxFrames
      BY ConstantTypes DEF TypeInv, TypeOK
    <3> QED BY <1>0, <3>1, <3>2
  <2> QED BY <1>2, <2>1 DEF ParseError, TypeInv, TypeOK, SendInv, Target
<1>3. CASE Notified(n)
  BY <1>3 DEF Notified, TypeInv, TypeOK, SendInv, Target
<1>4. CASE Instant(n)
  <2>1. Verdict(frames[n]) # "" => Verdict(frames[n]) \in Says
    BY DEF Verdict
  <2> QED BY <1>1, <1>4, <2>1 DEF Instant
<1>5. CASE PreflightFails(n)
  BY <1>1, <1>5 DEF PreflightFails
<1>6. CASE SetupFails(n)
  BY <1>1, <1>6 DEF SetupFails
<1>7. CASE Launch(n)
  <2>1. PICK shape \in scene.shapes :
          run' = [run EXCEPT ![n] = [NoRun EXCEPT !.at = "busy", !.shape = shape]]
    BY <1>7 DEF Launch
  <2>2. shape \in Shapes
    BY ConstantTypes DEF TypeInv, TypeOK
  <2>3. [NoRun EXCEPT !.at = "busy", !.shape = shape]
          \in RunStates
    BY <2>2 DEF NoRun, Records, RunStates
  <2>4. run' \in [Calls -> RunStates]
    BY <2>1, <2>3 DEF TypeInv, TypeOK
  <2> QED BY <1>7, <2>4 DEF Launch, TypeInv, TypeOK, SendInv, Target
<1>8. CASE Joined(n)
  <2>1. PICK says \in Says : Answer(n, says)
    BY <1>8 DEF Joined, Outcome
  <2> QED BY <1>8, <2>1, AnswerTypes DEF Joined, TypeInv, TypeOK, SendInv, Target
<1>9. CASE Snapshot(n)
  <2>1. CASE Cardinality(Live) = 1
    <3>1. Live # {}
      BY <2>1, FS_EmptySet
    <3> DEFINE m == CHOOSE m \in Live : TRUE
    <3>2. m \in Calls /\ run[m].talk \in Nat
      <4>1. m \in slots
        BY <3>1 DEF Live
      <4> QED BY <4>1, RunFields DEF TypeInv, TypeOK
    <3>3. dest' = [dest EXCEPT ![n] = <<m, run[m].talk>>] /\ pc' = [pc EXCEPT ![n] = "send"]
      BY <1>9, <2>1 DEF Snapshot
    <3> HIDE DEF m
    <3>4. <<m, run[m].talk>> \in (0 .. MaxFrames) \X Nat
      <4>1. m \in 0 .. MaxFrames
        BY <3>2, ConstantTypes DEF Calls, TypeInv, TypeOK
      <4> QED BY <3>2, <4>1
    <3>5. SendInv'
      BY <3>2, <3>3 DEF SendInv, Target, TypeInv, TypeOK
    <3>6. dest' \in [Calls -> (0 .. MaxFrames) \X Nat]
      BY <3>3, <3>4 DEF TypeInv, TypeOK
    <3> QED BY <1>9, <2>1, <3>3, <3>5, <3>6 DEF Snapshot, TypeInv, TypeOK
  <2>2. CASE Cardinality(Live) # 1
    BY <1>1, <1>9, <2>2 DEF Snapshot
  <2> QED BY <2>1, <2>2
<1>10. CASE Inject(n)
  <2>1. Target(n) \in Calls
    BY <1>10 DEF Inject, TypeInv, SendInv
  <2>2. chan[Target(n)] \in Seq(Calls) /\ Len(chan[Target(n)]) \in Nat /\ Room \in Nat
        /\ Len(chan[Target(n)]) < Room
    BY <1>10, <2>1, ChanFields DEF Inject, TypeInv
  <2>3. Append(chan[Target(n)], n) \in Seq(Calls)
        /\ Len(Append(chan[Target(n)], n)) <= Room
    BY <2>2, AppendProperties
  <2>4. chan' = [chan EXCEPT ![Target(n)] = Append(chan[Target(n)], n)]
    BY <1>10 DEF Inject
  <2>5. chan' \in [Calls -> Seq(Calls)] /\ \A m \in Calls : Len(chan'[m]) <= Room
    BY <2>1, <2>3, <2>4, ChanUpdated DEF TypeInv
  <2>6. Answer(n, "delivered") /\ UNCHANGED <<scene, loopVars, dest, out, slots, run, heard>>
    BY <1>10 DEF Inject
  <2> QED BY <2>5, <2>6, AnswerTypes DEF TypeInv, TypeOK, SendInv, Target
<1>11. CASE Refused(n)
  BY <1>1, <1>11 DEF Refused
<1>12. CASE ShowOutput(n)
  <2>1. CASE Answer(n, "run_not_found") /\ UNCHANGED dest
    BY <1>1, <1>12, <2>1 DEF ShowOutput
  <2>2. ASSUME NEW m \in Calls, NEW byFlow \in BOOLEAN,
               dest' = [dest EXCEPT ![n] = <<m, IF byFlow THEN 1 ELSE 0>>],
               Answer(n, Status(m, byFlow))
        PROVE  TypeInv'
    <3>1. Status(m, byFlow) \in Says
      BY DEF Status
    <3>2. <<m, IF byFlow THEN 1 ELSE 0>> \in (0 .. MaxFrames) \X Nat
      <4>1. m \in 0 .. MaxFrames
        BY ConstantTypes DEF Calls
      <4>2. (IF byFlow THEN 1 ELSE 0) \in Nat
        OBVIOUS
      <4> QED BY <4>1, <4>2
    <3>3. dest' \in [Calls -> (0 .. MaxFrames) \X Nat]
          /\ \A c \in Calls : c # n => dest'[c] = dest[c]
      BY <2>2, <3>2 DEF TypeInv, TypeOK
    <3>4. UNCHANGED <<scene, loopVars, out, slots, runVars>>
      BY <1>12 DEF ShowOutput
    <3>5. TypeOK'
      <4>1. /\ pc' \in [Calls -> {"none", "ready", "await", "send", "reply", "over", "dropped"}]
            /\ code' \in [Calls -> Codes]
        BY <2>2, <3>1, AnswerTypes
      <4> QED BY <3>3, <3>4, <4>1 DEF TypeInv, TypeOK
    <3>6. SendInv'
      BY <2>2, <3>1, <3>3, AnswerTypes DEF TypeInv, SendInv, Target
    <3> QED BY <3>5, <3>6 DEF TypeInv
  <2> QED BY <1>12, <2>1, <2>2 DEF ShowOutput
<1>13. CASE WriteFrame(n)
  <2>1. Append(out, code[n]) \in Seq(Codes)
    BY AppendProperties DEF TypeInv, TypeOK
  <2>2. out' \in Seq(Codes) /\ pipe' \in {"up", "down"}
    BY <1>13, <2>1 DEF WriteFrame, TypeInv, TypeOK
  <2> QED BY <1>13, <2>2 DEF WriteFrame, TypeInv, TypeOK, SendInv, Target
<1> QED BY <1>2, <1>3, <1>4, <1>5, <1>6, <1>7, <1>8, <1>9, <1>10, <1>11, <1>12, <1>13
        DEF Dispatch

LEMMA RunTypes ==
  ASSUME TypeInv, NEW n \in Calls, RunStep(n)
  PROVE  TypeInv'
<1>0. run[n] \in RunStates /\ run \in [Calls -> RunStates]
  BY RunFields DEF TypeInv, TypeOK
<1>1. ASSUME NEW r \in RunStates, run' = [run EXCEPT ![n] = r],
             chan' = chan \/ chan' = [chan EXCEPT ![n] = <<>>], heard' = heard, Rest
      PROVE  TypeInv'
  <2>1. run' \in [Calls -> RunStates]
    BY <1>1, RunUpdated DEF TypeInv
  <2>2. chan' \in [Calls -> Seq(Calls)] /\ \A m \in Calls : Len(chan'[m]) <= Room
    <3>1. <<>> \in Seq(Calls) /\ Len(<<>>) <= Room
      BY EmptySeq, ChanFields DEF TypeInv
    <3>2. CASE chan' = chan
      BY <3>2 DEF TypeInv, TypeOK
    <3> QED BY <1>1, <3>1, <3>2, ChanUpdated DEF TypeInv
  <2> QED BY <1>1, <2>1, <2>2 DEF TypeInv, TypeOK, SendInv, Target
<1>2. ASSUME NEW to \in {"busy", "talk", "deaf", "gone", "wreck", "failed", "returned"}
      PROVE  /\ [run[n] EXCEPT !.at = to] \in RunStates
             /\ [run EXCEPT ![n].at = to] = [run EXCEPT ![n] = [run[n] EXCEPT !.at = to]]
  BY <1>0 DEF RunStates
<1>3. CASE SeatFails(n) \/ Seated(n) \/ LoopStops(n) \/ Hangup(n) \/ ClearRouter(n)
           \/ Fails(n) \/ Returns(n)
  <2>1. PICK to \in {"busy", "talk", "deaf", "gone", "wreck", "failed", "returned"} :
          run' = [run EXCEPT ![n].at = to]
    BY <1>3 DEF SeatFails, Seated, LoopStops, Hangup, ClearRouter, Fails, Returns, Moves
  <2>2. /\ chan' = chan \/ chan' = [chan EXCEPT ![n] = <<>>]
        /\ heard' = heard /\ Rest
    BY <1>3 DEF SeatFails, Seated, LoopStops, Hangup, ClearRouter, Fails, Returns
  <2> QED BY <1>1, <1>2, <2>1, <2>2
<1>4. CASE OpenTalk(n)
  <2> DEFINE r == [run[n] EXCEPT !.at = "seating", !.talk = @ + 1]
  <2>1. r \in RunStates
    <3>1. run[n].talk + 1 \in Nat
      BY RunFields DEF TypeInv
    <3> QED BY <1>0, <3>1 DEF RunStates
  <2>2. run' = [run EXCEPT ![n] = r]
    BY <1>0, <1>4 DEF OpenTalk
  <2> QED BY <1>1, <1>4, <2>1, <2>2 DEF OpenTalk
<1>5. CASE Hear(n)
  <2>1. chan[n] \in Seq(Calls) /\ Len(chan[n]) \in Nat /\ Len(chan[n]) <= Room
        /\ Room \in Nat
    BY ChanFields DEF TypeInv
  <2>2. Head(chan[n]) \in Calls /\ Tail(chan[n]) \in Seq(Calls) /\ Len(Tail(chan[n])) <= Room
    BY <1>5, <2>1, HeadTailProperties DEF Hear
  <2>3. chan' \in [Calls -> Seq(Calls)] /\ \A m \in Calls : Len(chan'[m]) <= Room
    BY <1>5, <2>2, ChanUpdated DEF Hear, TypeInv
  <2>4. [call |-> Head(chan[n]), talk |-> run[n].talk] \in [call : Calls, talk : Nat]
    BY <2>2, RunFields DEF TypeInv
  <2>5. heard' \in [Calls -> Seq([call : Calls, talk : Nat])]
    BY <1>5, <2>4, AppendProperties DEF Hear, TypeInv, TypeOK
  <2> QED BY <1>5, <2>3, <2>5 DEF Hear, TypeInv, TypeOK, SendInv, Target
<1>6. CASE WriteManifest(n)
  <2> DEFINE r == [run[n] EXCEPT !.at = "written", !.manifest = TRUE, !.records = scene.records]
  <2>1. r \in RunStates
    BY <1>0, ConstantTypes DEF RunStates, TypeInv, TypeOK
  <2>2. run' = [run EXCEPT ![n] = r]
    BY <1>0, <1>6 DEF WriteManifest
  <2> QED BY <1>1, <1>6, <2>1, <2>2 DEF WriteManifest
<1> QED BY <1>3, <1>4, <1>5, <1>6 DEF RunStep

LEMMA StepTypes == TypeInv /\ [Next]_vars => TypeInv'
<1> SUFFICES ASSUME TypeInv, [Next]_vars PROVE TypeInv'
  OBVIOUS
<1>1. CASE UNCHANGED vars
  BY <1>1 DEF vars, TypeInv, TypeOK, SendInv, Target
<1> QED BY <1>1, LoopTypes, DispatchTypes, RunTypes DEF Next

LEMMA TypeInvHolds == Spec => []TypeInv
BY InitTypes, StepTypes, PTL DEF Spec

\* The state of the server keeps its types: in particular every call that
\* has a conversation to send to has it in the run it looked up
\* (src/src/mcp/messaging.rs).
THEOREM TypeCorrect == Spec => []TypeOK
<1>1. TypeInv => TypeOK
  BY DEF TypeInv
<1> QED BY <1>1, TypeInvHolds, PTL

----------------------------------------------------------------------------
(* Calls, their runs and the registry.                                     *)

(* Only the lines read have a call; a call that has not started has no run; *)
(* a run that is not over has a call that waits for it, unless a failed     *)
(* read ended the server, and a server that is over has no call in flight.  *)
WaitInv ==
    /\ \A n \in Calls : pc[n] = "none" <=> n > read
    /\ \A n \in Calls : pc[n] \in {"none", "ready"} => run[n].at = "none"
    /\ \A n \in Calls : Active(n) => pc[n] = "await" \/ loop = "aborted"
    /\ \A n \in Calls : pc[n] = "dropped" => loop = "aborted"
    /\ ~Alive => \A n \in Calls : ~InFlight(n)
    /\ SlotsInFlight

\* A dispatch is a step of one call that is in flight, in a server that runs.
LEMMA DispatchSteps ==
  ASSUME TypeInv, NEW n \in Calls, Dispatch(n)
  PROVE  /\ Alive /\ InFlight(n)
         /\ UNCHANGED <<scene, loop, read>>
         /\ pc'[n] \in {"await", "send", "reply", "over"}
         /\ \A m \in Calls : m # n => /\ pc'[m] = pc[m] /\ code'[m] = code[m]
                                    /\ dest'[m] = dest[m] /\ run'[m] = run[m]
<1>1. CASE ParseError(n) \/ Notified(n) \/ WriteFrame(n)
  BY <1>1 DEF ParseError, Notified, WriteFrame, Ready, InFlight, TypeInv, TypeOK
<1>2. CASE Instant(n) \/ PreflightFails(n) \/ SetupFails(n)
  BY <1>2 DEF Instant, PreflightFails, SetupFails, Called, Request, Ready, Answer, InFlight,
              TypeInv, TypeOK
<1>3. CASE Launch(n)
  BY <1>3 DEF Launch, Called, Request, Ready, InFlight, TypeInv, TypeOK
<1>4. CASE Joined(n) \/ Inject(n) \/ Refused(n)
  BY <1>4 DEF Joined, Outcome, Inject, Refused, Answer, InFlight, TypeInv, TypeOK
<1>5. CASE Snapshot(n)
  BY <1>5 DEF Snapshot, Called, Request, Ready, Answer, InFlight, TypeInv, TypeOK
<1>6. CASE ShowOutput(n)
  <2>1. UNCHANGED <<scene, loop, read, run>> /\ Alive /\ pc[n] = "ready"
    BY <1>6 DEF ShowOutput, Called, Request, Ready
  <2>2. \E says : Answer(n, says)
    BY <1>6 DEF ShowOutput
  <2>3. \A m \in Calls : m # n => dest'[m] = dest[m]
    BY <1>6 DEF ShowOutput, TypeInv, TypeOK
  <2> QED BY <2>1, <2>2, <2>3 DEF Answer, InFlight, TypeInv, TypeOK
<1> QED BY <1>1, <1>2, <1>3, <1>4, <1>5, <1>6 DEF Dispatch

\* A run steps while the server is there, from a place where it is not over.
LEMMA RunSteps ==
  ASSUME TypeInv, NEW n \in Calls, RunStep(n)
  PROVE  /\ Alive /\ Active(n) /\ Rest
         /\ run[n].at # "none"
         /\ run'[n].at # "none" /\ run'[n].talk \in {run[n].talk, run[n].talk + 1}
         /\ \A m \in Calls : m # n => run'[m] = run[m] /\ chan'[m] = chan[m]
                                                    /\ heard'[m] = heard[m]
<1>0. run \in [Calls -> RunStates] /\ run[n] \in RunStates /\ chan \in [Calls -> Seq(Calls)]
  BY RunFields DEF TypeInv, TypeOK
<1>1. ASSUME NEW from \in {"seating", "talk", "deaf", "gone", "busy", "written"},
             NEW to \in {"busy", "talk", "deaf", "gone", "wreck", "failed", "returned"},
             Moves(n, from, to), heard' = heard, Rest,
             chan' = chan \/ chan' = [chan EXCEPT ![n] = <<>>]
      PROVE  /\ Alive /\ Active(n) /\ Rest
             /\ run[n].at # "none"
             /\ run'[n].at # "none" /\ run'[n].talk \in {run[n].talk, run[n].talk + 1}
             /\ \A m \in Calls : m # n => run'[m] = run[m] /\ chan'[m] = chan[m]
                                                        /\ heard'[m] = heard[m]
  <2>1. run'[n] = [run[n] EXCEPT !.at = to] /\ run[n].at = from /\ Alive
    BY <1>0, <1>1 DEF Moves
  <2>2. run'[n].at = to /\ run'[n].talk = run[n].talk
    BY <1>0, <2>1 DEF RunStates
  <2>3. \A m \in Calls : m # n => run'[m] = run[m] /\ chan'[m] = chan[m]
    BY <1>0, <1>1 DEF Moves
  <2> QED BY <1>1, <2>1, <2>2, <2>3 DEF Active
<1>2. CASE SeatFails(n) \/ Seated(n) \/ LoopStops(n) \/ Hangup(n) \/ ClearRouter(n)
           \/ Fails(n) \/ Returns(n)
  <2>1. PICK from \in {"seating", "talk", "deaf", "gone", "busy", "written"},
             to \in {"busy", "talk", "deaf", "gone", "wreck", "failed", "returned"} :
          Moves(n, from, to)
    BY <1>2 DEF SeatFails, Seated, LoopStops, Hangup, ClearRouter, Fails, Returns
  <2>2. heard' = heard /\ Rest /\ (chan' = chan \/ chan' = [chan EXCEPT ![n] = <<>>])
    BY <1>2 DEF SeatFails, Seated, LoopStops, Hangup, ClearRouter, Fails, Returns
  <2> QED BY <1>1, <2>1, <2>2
<1>3. CASE OpenTalk(n)
  <2>1. run'[n].at = "seating" /\ run'[n].talk = run[n].talk + 1
    BY <1>0, <1>3 DEF OpenTalk, RunStates
  <2>2. \A m \in Calls : m # n => run'[m] = run[m] /\ chan'[m] = chan[m]
    BY <1>0, <1>3 DEF OpenTalk
  <2> QED BY <1>3, <2>1, <2>2 DEF OpenTalk, Active
<1>4. CASE WriteManifest(n)
  BY <1>4, RunFields DEF WriteManifest, Active, RunStates, TypeInv, TypeOK
<1>5. CASE Hear(n)
  <2>1. \A m \in Calls : m # n => chan'[m] = chan[m] /\ heard'[m] = heard[m]
    BY <1>5 DEF Hear, TypeInv, TypeOK
  <2> QED BY <1>5, <2>1 DEF Hear, Active
<1> QED BY <1>2, <1>3, <1>4, <1>5 DEF RunStep

LEMMA InitWait == Init => WaitInv
<1> SUFFICES ASSUME Init PROVE WaitInv
  OBVIOUS
<1>1. \A n \in Calls : pc[n] = "none" /\ run[n].at = "none" /\ n > 0
  BY ConstantTypes DEF Init, NoRun, Calls
<1> QED BY <1>1 DEF Init, WaitInv, Active, InFlight, Alive, SlotsInFlight

LEMMA LoopWait ==
  ASSUME TypeInv, WaitInv, ReadFrame \/ Eof \/ ReadFails \/ Drained
  PROVE  WaitInv'
<1>0. read \in Nat /\ Len(frames) \in 0 .. MaxFrames /\ MaxFrames \in Nat
      /\ \A n \in Calls : n \in Nat
  BY ConstantTypes DEF TypeInv, TypeOK, Calls
<1>1. CASE ReadFrame
  <2>1. read' = read + 1 /\ read' \in Calls /\ pc[read'] = "none"
    BY <1>0, <1>1 DEF ReadFrame, WaitInv, Calls
  <2>2. pc' = [pc EXCEPT ![read'] = "ready"] /\ UNCHANGED <<scene, loop, slots, run>> /\ Alive
    BY <1>1 DEF ReadFrame, Alive
  <2>3. \A n \in Calls : pc'[n] = IF n = read' THEN "ready" ELSE pc[n]
    BY <2>1, <2>2 DEF TypeInv, TypeOK
  <2>4. \A n \in Calls : pc'[n] = "none" <=> n > read'
    <3>1. \A n \in Calls : pc[n] = "none" <=> n > read
      BY DEF WaitInv
    <3>2. \A n \in Calls : n \in Nat /\ (n > read + 1 <=> n > read /\ n # read + 1)
      BY <1>0
    <3>3. \A n \in Calls : n > read' <=> n > read /\ n # read'
      BY <2>1, <3>2
    <3> QED BY <2>3, <3>1, <3>3
  <2>5. SlotsInFlight'
    BY <2>1, <2>2, <2>3 DEF WaitInv, SlotsInFlight
  <2> QED BY <2>1, <2>2, <2>3, <2>4, <2>5 DEF WaitInv, Active, InFlight, Alive
<1>2. CASE Eof
  BY <1>2 DEF Eof, WaitInv, Active, InFlight, Alive, SlotsInFlight
<1>3. CASE Drained
  BY <1>3 DEF Drained, WaitInv, Active, InFlight, Alive, SlotsInFlight
<1>4. CASE ReadFails
  <2>1. \A n \in Calls : pc'[n] = IF InFlight(n) THEN "dropped" ELSE pc[n]
    BY <1>4 DEF ReadFails
  <2>2. UNCHANGED <<scene, read, run>> /\ loop' = "aborted" /\ slots' = {}
    BY <1>4 DEF ReadFails
  <2> QED BY <2>1, <2>2 DEF WaitInv, Active, InFlight, Alive, SlotsInFlight
<1> QED BY <1>1, <1>2, <1>3, <1>4

LEMMA DispatchWait ==
  ASSUME TypeInv, WaitInv, NEW n \in Calls, Dispatch(n)
  PROVE  WaitInv'
<1>1. /\ Alive /\ Alive' /\ loop' = loop /\ scene' = scene /\ read' = read /\ InFlight(n)
      /\ pc'[n] \in {"await", "send", "reply", "over"}
      /\ \A m \in Calls : m # n => pc'[m] = pc[m] /\ run'[m] = run[m]
  BY DispatchSteps DEF Alive
<1>2. /\ Active(n)' => pc'[n] = "await"
      /\ slots' = IF pc'[n] = "await" /\ frames[n].tool = "run_flow"
                  THEN slots \cup {n} ELSE slots \ {n}
  <2>1. CASE Launch(n)
    <3>1. pc'[n] = "await" /\ pc[n] = "ready"
      BY <2>1 DEF Launch, Called, Request, Ready, TypeInv, TypeOK
    <3>2. n \notin slots
      BY <3>1 DEF WaitInv, SlotsInFlight
    <3> QED BY <2>1, <3>1, <3>2 DEF Launch
  <2>2. CASE Joined(n)
    <3>1. pc'[n] = "reply" /\ run' = run /\ ~Active(n) /\ slots' = slots \ {n}
      BY <2>2 DEF Joined, Outcome, Answer, TypeInv, TypeOK
    <3> QED BY <3>1 DEF Active
  <2>3. ASSUME run' = run, slots' = slots, pc[n] # "await", pc'[n] # "await"
        PROVE  <1>2!1 /\ <1>2!2
    <3>1. ~Active(n) /\ n \notin slots
      BY <1>1, <2>3 DEF WaitInv, SlotsInFlight, Alive
    <3> QED BY <2>3, <3>1 DEF Active
  <2>4. CASE ParseError(n) \/ Notified(n) \/ WriteFrame(n)
    BY <2>3, <2>4 DEF ParseError, Notified, WriteFrame, Ready, TypeInv, TypeOK
  <2>5. CASE Instant(n) \/ PreflightFails(n) \/ SetupFails(n) \/ Inject(n) \/ Refused(n)
    BY <2>3, <2>5 DEF Instant, PreflightFails, SetupFails, Inject, Refused, Called, Request,
                      Ready, Answer, TypeInv, TypeOK
  <2>6. CASE Snapshot(n) \/ ShowOutput(n)
    BY <2>3, <2>6 DEF Snapshot, ShowOutput, Called, Request, Ready, Answer, TypeInv, TypeOK
  <2> QED BY <2>1, <2>2, <2>4, <2>5, <2>6 DEF Dispatch
<1>3. SlotsInFlight'
  BY <1>1, <1>2 DEF WaitInv, SlotsInFlight
<1>4. \A m \in Calls : Active(m)' => pc'[m] = "await"
  BY <1>1, <1>2 DEF WaitInv, Active, Alive
<1> QED BY <1>1, <1>3, <1>4 DEF WaitInv, InFlight, Alive

LEMMA RunWait ==
  ASSUME TypeInv, WaitInv, NEW n \in Calls, RunStep(n)
  PROVE  WaitInv'
<1>1. /\ Alive /\ Active(n) /\ UNCHANGED <<scene, loop, read, pc, slots>> /\ run[n].at # "none"
      /\ \A m \in Calls : m # n => run'[m] = run[m]
  BY RunSteps
<1> QED BY <1>1 DEF WaitInv, Active, InFlight, Alive, SlotsInFlight

LEMMA StepWait == TypeInv /\ WaitInv /\ [Next]_vars => WaitInv'
<1> SUFFICES ASSUME TypeInv, WaitInv, [Next]_vars PROVE WaitInv'
  OBVIOUS
<1>1. CASE UNCHANGED vars
  BY <1>1 DEF vars, WaitInv, Active, InFlight, Alive, SlotsInFlight
<1> QED BY <1>1, LoopWait, DispatchWait, RunWait DEF Next

LEMMA WaitInvHolds == Spec => [](TypeInv /\ WaitInv)
BY InitTypes, InitWait, StepTypes, StepWait, PTL DEF Spec

\* A server that ends after EOF has waited for every run it started
\* (src/src/mcp/server.rs: the drain; execution.rs: await_completion).
THEOREM NoRunLeft == Spec => []NoRunCutOff
<1>1. TypeInv /\ WaitInv => NoRunCutOff
  BY DEF TypeInv, TypeOK, WaitInv, NoRunCutOff, Alive, InFlight
<1> QED BY <1>1, WaitInvHolds, PTL

\* The registry of active runs is exactly the run_flow calls that wait: a run
\* that fails, a run that ends and a server that is torn down all take their
\* slots back (src/src/mcp/session.rs: SlotGuard).
THEOREM SlotsExact == Spec => []SlotsInFlight
<1>1. WaitInv => SlotsInFlight
  BY DEF WaitInv
<1> QED BY <1>1, WaitInvHolds, PTL

----------------------------------------------------------------------------
(* Lines.                                                                  *)

Said(n) == code[n].says = "delivered"
InChan(m, n) == \E k \in DOMAIN chan[m] : chan[m][k] = n
InHeard(m, n) == \E k \in DOMAIN heard[m] : heard[m][k].call = n

(* The lines in a channel are of the conversation that is on.              *)
ChanInv(m) ==
    /\ \A k \in DOMAIN chan[m] :
          Said(chan[m][k]) /\ dest[chan[m][k]] = <<m, run[m].talk>> /\ ~InHeard(m, chan[m][k])
    /\ \A j, k \in DOMAIN chan[m] : chan[m][j] = chan[m][k] => j = k

HeardInv(m) ==
    /\ \A k \in DOMAIN heard[m] :
          /\ Said(heard[m][k].call)
          /\ dest[heard[m][k].call] = <<m, heard[m][k].talk>>
    /\ \A j, k \in DOMAIN heard[m] : heard[m][j].call = heard[m][k].call => j = k

LineInv ==
    /\ \A n \in Calls : pc[n] \in {"none", "ready", "await", "send"} => ~Said(n)
    /\ \A n \in Calls : pc[n] = "send" \/ Said(n) =>
          Target(n) \in Calls /\ dest[n][2] <= run[Target(n)].talk
    /\ \A n \in Calls : run[n].at = "none" => run[n].talk = 0
    /\ \A n \in Calls : Said(n) /\ Listening(Target(n), dest[n][2]) =>
          InChan(Target(n), n) \/ InHeard(Target(n), n)
    /\ \A m \in Calls : ChanInv(m) /\ HeardInv(m)

\* A run that keeps its conversation, or drops its channel with it.
Keeps(m) ==
    \/ /\ chan'[m] = chan[m] /\ run'[m].talk = run[m].talk
       /\ \A t \in Nat : Listening(m, t)' => Listening(m, t)
    \/ /\ chan'[m] = <<>> /\ run'[m].talk \in {run[m].talk, run[m].talk + 1}
       /\ \A t \in Nat : Listening(m, t)' => t = run[m].talk + 1

LEMMA KeptLines ==
  ASSUME TypeInv, TypeInv', LineInv, heard' = heard,
         \A m \in Calls : Keeps(m) /\ (run'[m].at = "none" => run'[m].talk = 0),
         \A n \in Calls : Said(n)' <=> Said(n),
         \A n \in Calls : Said(n) => dest'[n] = dest[n],
         \A n \in Calls : pc'[n] \in {"none", "ready", "await", "send"} => ~Said(n),
         \A n \in Calls : pc'[n] = "send" =>
             Target(n)' \in Calls /\ dest'[n][2] <= run'[Target(n)'].talk
  PROVE  LineInv'
<1>0. /\ \A m \in Calls : run[m].talk \in Nat
      /\ \A m \in Calls : dest[m] \in (0 .. MaxFrames) \X Nat
      /\ \A m \in Calls : \A k \in DOMAIN chan[m] : chan[m][k] \in Calls
      /\ \A m \in Calls : \A k \in DOMAIN heard[m] : heard[m][k].call \in Calls
  <2>1. \A m \in Calls : \A k \in DOMAIN chan[m] : chan[m][k] \in Calls
    BY ElementOfSeq, LenProperties DEF TypeInv, TypeOK
  <2>2. ASSUME NEW m \in Calls, NEW k \in DOMAIN heard[m] PROVE heard[m][k].call \in Calls
    <3>1. heard[m] \in Seq([call : Calls, talk : Nat])
      BY DEF TypeInv, TypeOK
    <3>2. k \in 1 .. Len(heard[m])
      BY <2>2, <3>1, LenProperties
    <3>3. heard[m][k] \in [call : Calls, talk : Nat]
      BY <3>1, <3>2, ElementOfSeq
    <3> QED BY <3>3
  <2> QED BY <2>1, <2>2, RunFields DEF TypeInv, TypeOK
<1>1. ASSUME NEW n \in Calls, Said(n)'
      PROVE  /\ Target(n)' \in Calls /\ dest'[n][2] <= run'[Target(n)'].talk
             /\ Listening(Target(n), dest[n][2])' => InChan(Target(n), n)' \/ InHeard(Target(n), n)'
  <2>1. /\ Said(n) /\ dest'[n] = dest[n] /\ Target(n)' = Target(n) /\ Target(n) \in Calls
        /\ dest[n][2] <= run[Target(n)].talk /\ dest[n][2] \in Nat /\ run[Target(n)].talk \in Nat
        /\ Keeps(Target(n))
    BY <1>0, <1>1 DEF LineInv, Target
  <2>2. Listening(Target(n), dest[n][2]) => InChan(Target(n), n) \/ InHeard(Target(n), n)
    BY <2>1 DEF LineInv
  <2> DEFINE m == Target(n)
             t == dest[n][2]
  <2>3. CASE /\ chan'[m] = chan[m] /\ run'[m].talk = run[m].talk
             /\ \A u \in Nat : Listening(m, u)' => Listening(m, u)
    BY <2>1, <2>2, <2>3 DEF InChan, InHeard, Listening
  <2>4. CASE /\ chan'[m] = <<>> /\ run'[m].talk \in {run[m].talk, run[m].talk + 1}
             /\ \A u \in Nat : Listening(m, u)' => u = run[m].talk + 1
    BY <2>1, <2>4 DEF Listening
  <2> QED BY <2>1, <2>3, <2>4 DEF Keeps
<1>2. ASSUME NEW m \in Calls PROVE ChanInv(m)' /\ HeardInv(m)'
  <2>1. ChanInv(m) /\ HeardInv(m) /\ Keeps(m)
    BY DEF LineInv
  <2>2. HeardInv(m)'
    BY <1>0, <2>1 DEF HeardInv
  <2>3. ChanInv(m)'
    <3>1. CASE chan'[m] = <<>>
      BY <3>1 DEF ChanInv
    <3>2. CASE chan'[m] = chan[m] /\ run'[m].talk = run[m].talk
      BY <1>0, <2>1, <3>2 DEF ChanInv, InHeard
    <3> QED BY <2>1, <3>1, <3>2 DEF Keeps
  <2> QED BY <2>2, <2>3
<1> QED BY <1>1, <1>2 DEF LineInv

LEMMA InitLines == Init => LineInv
<1> SUFFICES ASSUME Init PROVE LineInv
  OBVIOUS
<1>1. \A n \in Calls : pc[n] = "none" /\ ~Said(n) /\ run[n].talk = 0
                         /\ chan[n] = <<>> /\ heard[n] = <<>>
  BY DEF Init, NoRun, NoCode, Said
<1> QED BY <1>1 DEF LineInv, ChanInv, HeardInv

LEMMA LoopLines ==
  ASSUME TypeInv, TypeInv', WaitInv, LineInv, ReadFrame \/ Eof \/ ReadFails \/ Drained
  PROVE  LineInv'
<1>1. UNCHANGED <<code, dest, run, chan, heard>>
  BY DEF ReadFrame, Eof, ReadFails, Drained
<1>2. \A n \in Calls : pc'[n] \in {"none", "ready", "await", "send"} =>
          pc'[n] = pc[n] \/ (pc[n] = "none" /\ pc'[n] = "ready")
  <2>1. CASE ReadFrame
    <3>1. read' \in Nat /\ read' > read
      BY <2>1 DEF ReadFrame, TypeInv, TypeOK
    <3>2. \A n \in Calls : pc'[n] = IF n = read' THEN "ready" ELSE pc[n]
      BY <2>1 DEF ReadFrame, TypeInv, TypeOK
    <3> QED BY <3>1, <3>2 DEF WaitInv
  <2>2. CASE ReadFails
    BY <2>2 DEF ReadFails, TypeInv, TypeOK
  <2>3. CASE Eof \/ Drained
    BY <2>3 DEF Eof, Drained
  <2> QED BY <2>1, <2>2, <2>3
<1>3. \A m \in Calls : Keeps(m) /\ (run'[m].at = "none" => run'[m].talk = 0)
  BY <1>1 DEF Keeps, Listening, LineInv
<1>4. \A n \in Calls : (Said(n)' <=> Said(n)) /\ dest'[n] = dest[n]
  BY <1>1 DEF Said
<1>5. \A n \in Calls : pc'[n] \in {"none", "ready", "await", "send"} => ~Said(n)
  BY <1>2 DEF LineInv
<1>6. \A n \in Calls : pc'[n] = "send" =>
          Target(n)' \in Calls /\ dest'[n][2] <= run'[Target(n)'].talk
  BY <1>1, <1>2 DEF LineInv, Target
<1> QED BY <1>1, <1>3, <1>4, <1>5, <1>6, KeptLines

LEMMA InjectLines ==
  ASSUME TypeInv, TypeInv', WaitInv, LineInv, NEW n \in Calls, Inject(n)
  PROVE  LineInv'
<1>a. Target(n) \in Calls
  BY DEF Inject, TypeInv, SendInv
<1>b. PICK m \in Calls : m = Target(n)
  BY <1>a
<1>0. /\ pc[n] = "send" /\ ~Said(n) /\ Listening(m, dest[n][2])
      /\ dest[n] \in (0 .. MaxFrames) \X Nat /\ dest[n][2] <= run[m].talk
  BY <1>b DEF Inject, LineInv, TypeInv, TypeOK
<1>1. /\ chan[m] \in Seq(Calls) /\ chan'[m] = Append(chan[m], n)
      /\ \A r \in Calls : r # m => chan'[r] = chan[r]
      /\ UNCHANGED <<dest, run, heard>>
  BY <1>b DEF Inject, TypeInv, TypeOK
<1>2. /\ pc'[n] = "reply" /\ Said(n)'
      /\ \A c \in Calls : c # n => pc'[c] = pc[c] /\ (Said(c)' <=> Said(c))
  BY DEF Inject, Answer, Said, TypeInv, TypeOK
<1>3. dest[n] = <<m, run[m].talk>>
  BY <1>0, <1>b DEF Listening, Target
<1>4. /\ DOMAIN chan'[m] = 1 .. Len(chan[m]) + 1 /\ DOMAIN chan[m] = 1 .. Len(chan[m])
      /\ Len(chan[m]) \in Nat
      /\ chan'[m][Len(chan[m]) + 1] = n
      /\ \A k \in 1 .. Len(chan[m]) : chan'[m][k] = chan[m][k] /\ chan[m][k] \in Calls
  BY <1>0, <1>1, AppendProperties, LenProperties, ElementOfSeq
<1>5. \A r \in Calls : \A k \in DOMAIN heard[r] :
          heard[r][k].call \in Calls /\ heard[r][k].call # n
  <2> SUFFICES ASSUME NEW r \in Calls, NEW k \in DOMAIN heard[r]
               PROVE  heard[r][k].call \in Calls /\ heard[r][k].call # n
    OBVIOUS
  <2>1. heard[r] \in Seq([call : Calls, talk : Nat])
    BY DEF TypeInv, TypeOK
  <2>2. k \in 1 .. Len(heard[r])
    BY <2>1, LenProperties
  <2>3. heard[r][k] \in [call : Calls, talk : Nat]
    BY <2>1, <2>2, ElementOfSeq
  <2>4. Said(heard[r][k].call)
    BY DEF LineInv, HeardInv
  <2> QED BY <1>0, <2>3, <2>4
<1>6. ASSUME NEW r \in Calls PROVE ChanInv(r)' /\ HeardInv(r)'
  <2>1. ChanInv(r) /\ HeardInv(r)
    BY DEF LineInv
  <2>2. HeardInv(r)'
    BY <1>1, <1>2, <1>5, <2>1 DEF HeardInv
  <2>3. CASE r # m
    <3>1. chan[r] \in Seq(Calls) /\ DOMAIN chan[r] = 1 .. Len(chan[r])
      BY LenProperties DEF TypeInv, TypeOK
    <3>2. \A k \in DOMAIN chan[r] : chan[r][k] \in Calls
      BY <3>1, ElementOfSeq
    <3>3. \A c \in Calls : Said(c) => Said(c)'
      BY <1>2
    <3>4. ASSUME NEW k \in DOMAIN chan[r] PROVE code'[chan[r][k]].says = "delivered"
      <4>1. PICK c \in Calls : c = chan[r][k]
        BY <3>2
      <4>2. Said(c)
        BY <2>1, <4>1 DEF ChanInv
      <4> QED BY <3>3, <4>1, <4>2 DEF Said
    <3>5. chan'[r] = chan[r] /\ UNCHANGED <<dest, run, heard>>
      BY <1>1, <2>3
    <3>6. ChanInv(r)'
      BY <2>1, <3>4, <3>5 DEF ChanInv, InHeard, Said
    <3> QED BY <2>2, <3>6
  <2>4. CASE r = m
    <3>1. \A k \in 1 .. Len(chan[m]) :
             /\ Said(chan[m][k]) /\ dest[chan[m][k]] = <<m, run[m].talk>>
             /\ ~InHeard(m, chan[m][k]) /\ chan[m][k] # n
      <4>1. ChanInv(m) /\ DOMAIN chan[m] = 1 .. Len(chan[m])
        BY <1>4, <2>1, <2>4
      <4>2. ~Said(n)
        BY <1>0
      <4>3. \A k \in 1 .. Len(chan[m]) :
               Said(chan[m][k]) /\ dest[chan[m][k]] = <<m, run[m].talk>> /\ ~InHeard(m, chan[m][k])
        BY <4>1 DEF ChanInv
      <4> QED BY <4>2, <4>3
    <3>2. ~InHeard(m, n)
      BY <1>0, <1>5 DEF InHeard
    <3>3. ASSUME NEW k \in DOMAIN chan'[m]
          PROVE  /\ code'[chan'[m][k]].says = "delivered"
                 /\ dest'[chan'[m][k]] = <<m, run'[m].talk>>
                 /\ \A h \in DOMAIN heard'[m] : heard'[m][h].call # chan'[m][k]
      <4>1. CASE k = Len(chan[m]) + 1
        BY <1>1, <1>2, <1>3, <1>4, <3>2, <4>1 DEF InHeard, Said
      <4>2. CASE k \in 1 .. Len(chan[m])
        <5>1. PICK c \in Calls : c = chan[m][k]
          BY <1>4, <4>2
        <5>2. chan'[m][k] = c /\ c # n /\ Said(c) /\ dest[c] = <<m, run[m].talk>> /\ ~InHeard(m, c)
          BY <1>4, <3>1, <4>2, <5>1
        <5>3. Said(c)'
          BY <1>2, <5>2
        <5> QED BY <1>1, <5>2, <5>3 DEF InHeard, Said
      <4> QED BY <1>4, <3>3, <4>1, <4>2
    <3>4. ASSUME NEW j \in DOMAIN chan'[m], NEW k \in DOMAIN chan'[m], chan'[m][j] = chan'[m][k]
          PROVE  j = k
      <4>1. j \in 1 .. Len(chan[m]) + 1 /\ k \in 1 .. Len(chan[m]) + 1
        BY <1>4, <3>4
      <4>2. \A i, h \in 1 .. Len(chan[m]) : chan[m][i] = chan[m][h] => i = h
        BY <1>4, <2>1, <2>4 DEF ChanInv
      <4>3. CASE j = Len(chan[m]) + 1 \/ k = Len(chan[m]) + 1
        <5>1. \A i \in 1 .. Len(chan[m]) : chan'[m][i] # n
          BY <1>4, <3>1
        <5> QED BY <1>4, <3>4, <4>1, <4>3, <5>1
      <4>4. CASE j \in 1 .. Len(chan[m]) /\ k \in 1 .. Len(chan[m])
        BY <1>4, <3>4, <4>2, <4>4
      <4> QED BY <1>4, <4>1, <4>3, <4>4
    <3>5. ChanInv(m)'
      BY <3>3, <3>4 DEF ChanInv, Said, InHeard
    <3> QED BY <2>2, <2>4, <3>5
  <2> QED BY <2>3, <2>4
<1>7. ASSUME NEW c \in Calls, Said(c)', Listening(Target(c), dest[c][2])'
      PROVE  InChan(Target(c), c)' \/ InHeard(Target(c), c)'
  <2>1. Target(c)' = Target(c) /\ Listening(Target(c), dest[c][2])
    BY <1>1, <1>7 DEF Target, Listening
  <2>2. CASE c = n
    <3>1. Len(chan[m]) + 1 \in DOMAIN chan'[m] /\ chan'[m][Len(chan[m]) + 1] = c
      BY <1>4, <2>2
    <3>2. Target(c)' = m
      BY <1>b, <2>1, <2>2
    <3> QED BY <3>1, <3>2 DEF InChan
  <2>3. CASE c # n
    <3>1. Said(c)
      BY <1>2, <1>7, <2>3
    <3>2. Target(c) \in Calls /\ (InChan(Target(c), c) \/ InHeard(Target(c), c))
      BY <2>1, <3>1 DEF LineInv
    <3>3. CASE InHeard(Target(c), c)
      BY <1>1, <2>1, <3>3 DEF InHeard
    <3>4. CASE InChan(Target(c), c)
      <4>1. PICK k \in DOMAIN chan[Target(c)] : chan[Target(c)][k] = c
        BY <3>4 DEF InChan
      <4>2. k \in DOMAIN chan'[Target(c)] /\ chan'[Target(c)][k] = c
        BY SMTT(30), <1>1, <1>4, <3>2, <4>1
      <4> QED BY <2>1, <4>2 DEF InChan
    <3> QED BY <3>2, <3>3, <3>4
  <2> QED BY <2>2, <2>3
<1>8. ASSUME NEW c \in Calls
      PROVE  /\ pc'[c] \in {"none", "ready", "await", "send"} => ~Said(c)'
             /\ pc'[c] = "send" \/ Said(c)' =>
                   Target(c)' \in Calls /\ dest'[c][2] <= run'[Target(c)'].talk
             /\ run'[c].at = "none" => run'[c].talk = 0
  BY <1>0, <1>1, <1>2 DEF LineInv, Target
<1> QED BY <1>6, <1>7, <1>8 DEF LineInv

LEMMA DispatchLines ==
  ASSUME TypeInv, TypeInv', WaitInv, LineInv, NEW n \in Calls, Dispatch(n)
  PROVE  LineInv'
<1>0. /\ pc'[n] \notin {"none", "ready"} /\ pc \in [Calls -> {"none", "ready", "await",
                                              "send", "reply", "over", "dropped"}]
      /\ code \in [Calls -> Codes]
      /\ \A m \in Calls : m # n => /\ pc'[m] = pc[m] /\ code'[m] = code[m]
                                 /\ dest'[m] = dest[m] /\ run'[m] = run[m]
  BY DispatchSteps DEF TypeInv, TypeOK
<1>1. \A m \in Calls : run[m].at = "none" => run[m].talk = 0
  BY DEF LineInv
<1>2. ASSUME chan' = chan, heard' = heard, run'[n].talk = run[n].talk,
             run'[n] = run[n] \/ run'[n].at = "busy",
             Said(n)' <=> Said(n), Said(n) => dest'[n] = dest[n],
             pc'[n] \in {"await", "send"} => ~Said(n),
             pc'[n] = "send" => /\ Target(n)' \in Calls
                                /\ dest'[n][2] <= run'[Target(n)'].talk
      PROVE  LineInv'
  <2>1. \A m \in Calls : Keeps(m) /\ (run'[m].at = "none" => run'[m].talk = 0)
    BY <1>0, <1>1, <1>2 DEF Keeps, Listening
  <2>2. \A m \in Calls : (Said(m)' <=> Said(m)) /\ (Said(m) => dest'[m] = dest[m])
    BY <1>0, <1>2 DEF Said
  <2>3. \A m \in Calls : pc'[m] \in {"none", "ready", "await", "send"} => ~Said(m)
    BY <1>0, <1>2 DEF LineInv
  <2>4. \A m \in Calls : run'[m].talk = run[m].talk
    BY <1>0, <1>2
  <2>5. ASSUME NEW m \in Calls, pc'[m] = "send", m # n
        PROVE  Target(m)' \in Calls /\ dest'[m][2] <= run'[Target(m)'].talk
    <3>1. pc[m] = "send" /\ Target(m)' = Target(m) /\ dest'[m] = dest[m]
      BY <1>0, <2>5 DEF Target
    <3>2. Target(m) \in Calls /\ dest[m][2] <= run[Target(m)].talk
      BY <3>1 DEF LineInv
    <3> QED BY <2>4, <3>1, <3>2
  <2> QED BY <1>2, <2>1, <2>2, <2>3, <2>5, KeptLines
<1>3. ASSUME NEW says \in Says \ {"delivered"}, Answer(n, says), UNCHANGED runVars,
             pc[n] \in {"ready", "await", "send"}
      PROVE  LineInv'
  <2>1. pc'[n] = "reply" /\ code'[n].says = says
    BY <1>0, <1>3 DEF Answer
  <2>2. ~Said(n) /\ ~Said(n)'
    BY <1>3, <2>1 DEF Said, LineInv
  <2> QED BY <1>2, <1>3, <2>1, <2>2
<1>4. CASE ParseError(n)
  <2>1. pc'[n] = "reply" /\ code'[n].says = "parse_error" /\ pc[n] = "ready"
    BY <1>0, <1>4 DEF ParseError, Ready
  <2>2. ~Said(n) /\ ~Said(n)'
    BY <2>1 DEF Said, LineInv
  <2> QED BY <1>2, <1>4, <2>1, <2>2 DEF ParseError
<1>5. CASE Notified(n)
  <2>1. pc'[n] = "over" /\ (Said(n)' <=> Said(n))
    BY <1>0, <1>5 DEF Notified, Said
  <2> QED BY <1>2, <1>5, <2>1 DEF Notified
<1>6. CASE WriteFrame(n)
  <2>1. pc'[n] = "over" /\ (Said(n)' <=> Said(n))
    BY <1>0, <1>6 DEF WriteFrame, Said
  <2> QED BY <1>2, <1>6, <2>1 DEF WriteFrame
<1>7. CASE Instant(n)
  <2>1. Verdict(frames[n]) \in Says \ {"delivered"} /\ pc[n] = "ready"
    BY <1>7 DEF Instant, Verdict, Request, Ready
  <2> QED BY <1>3, <1>7, <2>1 DEF Instant
<1>8. CASE PreflightFails(n) \/ SetupFails(n)
  <2>1. PICK says \in Says \ {"delivered"} : Answer(n, says)
    BY <1>8 DEF PreflightFails, SetupFails
  <2>2. pc[n] = "ready" /\ UNCHANGED runVars
    BY <1>8 DEF PreflightFails, SetupFails, Called, Request, Ready
  <2> QED BY <1>3, <2>1, <2>2
<1>9. CASE Launch(n)
  <2>1. pc[n] = "ready" /\ pc'[n] = "await" /\ UNCHANGED <<code, dest, chan, heard>>
    BY <1>0, <1>9 DEF Launch, Called, Request, Ready
  <2>2. run[n].talk = 0
    BY <1>1, <2>1 DEF WaitInv
  <2>3. run'[n].at = "busy" /\ run'[n].talk = 0
    BY <1>9 DEF Launch, NoRun, TypeInv, TypeOK
  <2>4. ~Said(n) /\ ~Said(n)'
    BY <2>1 DEF Said, LineInv
  <2> QED BY <1>2, <2>1, <2>2, <2>3, <2>4
<1>10. CASE Joined(n)
  <2>1. PICK says \in Says \ {"delivered"} : Answer(n, says)
    BY <1>10 DEF Joined, Outcome
  <2> QED BY <1>3, <1>10, <2>1 DEF Joined
<1>11. CASE Snapshot(n)
  <2>0. pc[n] = "ready" /\ UNCHANGED runVars
    BY <1>11 DEF Snapshot, Called, Request, Ready
  <2>1. CASE Cardinality(Live) = 1
    <3>1. Live # {}
      BY <2>1, FS_EmptySet
    <3>2. PICK m \in Live : dest' = [dest EXCEPT ![n] = <<m, run[m].talk>>]
      BY <1>11, <2>1, <3>1 DEF Snapshot
    <3>3. m \in Calls /\ run[m].talk \in Nat
      <4>1. m \in slots
        BY <3>2 DEF Live
      <4> QED BY <4>1, RunFields DEF TypeInv, TypeOK
    <3>4. dest'[n] = <<m, run[m].talk>> /\ pc'[n] = "send" /\ code' = code
      BY <1>0, <1>11, <2>1, <3>2 DEF Snapshot, TypeInv, TypeOK
    <3>5. ~Said(n) /\ ~Said(n)'
      BY <2>0, <3>4 DEF Said, LineInv
    <3> QED BY <1>2, <2>0, <3>3, <3>4, <3>5 DEF Target
  <2>2. CASE Cardinality(Live) # 1
    BY <1>3, <1>11, <2>0, <2>2 DEF Snapshot
  <2> QED BY <2>1, <2>2
<1>12. CASE Inject(n)
  BY <1>12, InjectLines
<1>13. CASE Refused(n)
  BY <1>3, <1>13 DEF Refused
<1>14. CASE ShowOutput(n)
  <2>1. PICK says \in Says \ {"delivered"} : Answer(n, says)
    BY <1>14 DEF ShowOutput, Status
  <2>2. pc[n] = "ready" /\ UNCHANGED runVars
    BY <1>14 DEF ShowOutput, Called, Request, Ready
  <2> QED BY <1>3, <2>1, <2>2
<1> QED BY <1>4, <1>5, <1>6, <1>7, <1>8, <1>9, <1>10, <1>11, <1>12, <1>13, <1>14 DEF Dispatch

LEMMA HearLines ==
  ASSUME TypeInv, TypeInv', LineInv, NEW m \in Calls, Hear(m)
  PROVE  LineInv'
<1>1. /\ chan[m] \in Seq(Calls) /\ chan[m] # <<>> /\ heard[m] \in Seq([call : Calls, talk : Nat])
      /\ UNCHANGED <<pc, code, dest, run>>
      /\ chan'[m] = Tail(chan[m])
      /\ heard'[m] = Append(heard[m], [call |-> Head(chan[m]), talk |-> run[m].talk])
      /\ \A r \in Calls : r # m => chan'[r] = chan[r] /\ heard'[r] = heard[r]
  BY DEF Hear, TypeInv, TypeOK
<1> DEFINE h == Len(heard[m])
           c == chan[m][1]
<1>2. /\ DOMAIN chan[m] = 1 .. Len(chan[m]) /\ Len(chan[m]) \in Nat /\ Len(chan[m]) > 0
      /\ DOMAIN chan'[m] = 1 .. Len(chan[m]) - 1
      /\ \A k \in 1 .. Len(chan[m]) - 1 : chan'[m][k] = chan[m][k + 1]
      /\ Head(chan[m]) = c
  BY <1>1, HeadTailProperties, EmptySeq, LenProperties
<1>3. /\ DOMAIN heard[m] = 1 .. h /\ h \in Nat /\ DOMAIN heard'[m] = 1 .. h + 1
      /\ \A k \in 1 .. h : heard'[m][k] = heard[m][k]
      /\ heard'[m][h + 1] = [call |-> c, talk |-> run[m].talk]
  BY <1>1, <1>2, AppendProperties, LenProperties
<1>4. ChanInv(m) /\ HeardInv(m)
  BY DEF LineInv
<1>5. /\ \A k \in 1 .. Len(chan[m]) : Said(chan[m][k]) /\ dest[chan[m][k]] = <<m, run[m].talk>>
      /\ \A k \in 1 .. Len(chan[m]) : \A i \in 1 .. h : heard[m][i].call # chan[m][k]
      /\ \A j, k \in 1 .. Len(chan[m]) : chan[m][j] = chan[m][k] => j = k
  BY <1>2, <1>3, <1>4 DEF ChanInv, InHeard
<1>6. /\ \A k \in 1 .. h : /\ Said(heard[m][k].call)
                          /\ dest[heard[m][k].call] = <<m, heard[m][k].talk>>
      /\ \A j, k \in 1 .. h : heard[m][j].call = heard[m][k].call => j = k
  BY <1>3, <1>4 DEF HeardInv
<1>7. 1 \in 1 .. Len(chan[m])
  BY <1>2
<1> HIDE DEF h, c
<1>8. Said(c) /\ dest[c] = <<m, run[m].talk>> /\ \A i \in 1 .. h : heard[m][i].call # c
  BY <1>5, <1>7 DEF c
<1>9. ChanInv(m)'
  <2>1. \A k \in 1 .. Len(chan[m]) - 1 :
           /\ k + 1 \in 1 .. Len(chan[m]) /\ chan'[m][k] = chan[m][k + 1]
           /\ Said(chan[m][k + 1]) /\ dest[chan[m][k + 1]] = <<m, run[m].talk>>
           /\ chan[m][k + 1] # c /\ \A i \in 1 .. h : heard[m][i].call # chan[m][k + 1]
    <3> SUFFICES ASSUME NEW k \in 1 .. Len(chan[m]) - 1
                 PROVE  /\ k + 1 \in 1 .. Len(chan[m]) /\ chan'[m][k] = chan[m][k + 1]
                        /\ Said(chan[m][k + 1]) /\ dest[chan[m][k + 1]] = <<m, run[m].talk>>
                        /\ chan[m][k + 1] # c
                        /\ \A i \in 1 .. h : heard[m][i].call # chan[m][k + 1]
      OBVIOUS
    <3>1. k + 1 \in 1 .. Len(chan[m]) /\ k + 1 # 1
      BY <1>2
    <3> QED BY <1>2, <1>5, <1>7, <3>1 DEF c
  <2>2. ASSUME NEW k \in DOMAIN chan'[m]
        PROVE  /\ code'[chan'[m][k]].says = "delivered"
               /\ dest'[chan'[m][k]] = <<m, run'[m].talk>>
               /\ \A i \in DOMAIN heard'[m] : heard'[m][i].call # chan'[m][k]
    <3>1. k \in 1 .. Len(chan[m]) - 1
      BY <1>2
    <3>2. chan'[m][k] = chan[m][k + 1] /\ Said(chan[m][k + 1])
          /\ dest[chan[m][k + 1]] = <<m, run[m].talk>> /\ chan[m][k + 1] # c
          /\ \A i \in 1 .. h : heard[m][i].call # chan[m][k + 1]
      BY <2>1, <3>1
    <3>3. \A i \in DOMAIN heard'[m] : heard'[m][i].call # chan[m][k + 1]
      BY <1>3, <3>2
    <3> QED BY <1>1, <3>2, <3>3 DEF Said
  <2>3. ASSUME NEW j \in DOMAIN chan'[m], NEW k \in DOMAIN chan'[m], chan'[m][j] = chan'[m][k]
        PROVE  j = k
    <3>1. /\ j \in Int /\ k \in Int /\ j + 1 \in 1 .. Len(chan[m]) /\ k + 1 \in 1 .. Len(chan[m])
          /\ chan[m][j + 1] = chan[m][k + 1]
      BY SMTT(30), <1>2, <2>1, <2>3
    <3>2. j + 1 = k + 1
      BY <1>5, <3>1
    <3> QED BY <3>1, <3>2
  <2> QED BY <2>2, <2>3 DEF ChanInv, Said, InHeard
<1>10. HeardInv(m)'
  <2>1. ASSUME NEW k \in DOMAIN heard'[m]
        PROVE  /\ code'[heard'[m][k].call].says = "delivered"
               /\ dest'[heard'[m][k].call] = <<m, heard'[m][k].talk>>
    <3>1. CASE k = h + 1
      BY <1>1, <1>3, <1>8, <3>1 DEF Said
    <3>2. CASE k \in 1 .. h
      BY <1>1, <1>3, <1>6, <3>2 DEF Said
    <3> QED BY <1>3, <3>1, <3>2
  <2>2. ASSUME NEW j \in DOMAIN heard'[m], NEW k \in DOMAIN heard'[m],
               heard'[m][j].call = heard'[m][k].call
        PROVE  j = k
    <3>1. CASE j \in 1 .. h /\ k \in 1 .. h
      BY <1>3, <1>6, <2>2, <3>1
    <3>2. CASE j = h + 1 \/ k = h + 1
      <4>1. \A i \in 1 .. h : heard'[m][i].call # c
        BY <1>3, <1>8
      <4>2. heard'[m][h + 1].call = c /\ j \in 1 .. h + 1 /\ k \in 1 .. h + 1
        BY <1>3
      <4> QED BY <1>3, <2>2, <3>2, <4>1, <4>2
    <3> QED BY <1>3, <3>1, <3>2
  <2> QED BY <2>1, <2>2 DEF HeardInv, Said
<1>11. ASSUME NEW r \in Calls, r # m PROVE ChanInv(r)' /\ HeardInv(r)'
  <2>1. ChanInv(r) /\ HeardInv(r) /\ chan'[r] = chan[r] /\ heard'[r] = heard[r]
    BY <1>1, <1>11 DEF LineInv
  <2> QED BY <1>1, <2>1 DEF ChanInv, HeardInv, InHeard, Said
<1>12. ASSUME NEW n \in Calls, Said(n), Target(n) \in Calls,
              InChan(Target(n), n) \/ InHeard(Target(n), n)
       PROVE  InChan(Target(n), n)' \/ InHeard(Target(n), n)'
  <2>1. Target(n)' = Target(n)
    BY <1>1 DEF Target
  <2>2. PICK r \in Calls : r = Target(n)
    BY <1>12
  <2>3. CASE r # m
    BY <1>1, <1>12, <2>1, <2>2, <2>3 DEF InChan, InHeard
  <2>4. CASE r = m /\ InHeard(r, n)
    <3>1. PICK k \in 1 .. h : heard[m][k].call = n
      BY <1>3, <2>4 DEF InHeard
    <3>2. k \in DOMAIN heard'[m] /\ heard'[m][k].call = n
      BY <1>3, <3>1
    <3> QED BY <2>1, <2>2, <2>4, <3>2 DEF InHeard
  <2>5. CASE r = m /\ InChan(r, n)
    <3>1. PICK k \in 1 .. Len(chan[m]) : chan[m][k] = n
      BY <1>2, <2>5 DEF InChan
    <3>2. CASE k = 1
      <4>1. h + 1 \in DOMAIN heard'[m] /\ heard'[m][h + 1].call = n
        BY <1>3, <3>1, <3>2 DEF c
      <4> QED BY <2>1, <2>2, <2>5, <4>1 DEF InHeard
    <3>3. CASE k # 1
      <4>1. k - 1 \in 1 .. Len(chan[m]) - 1 /\ (k - 1) + 1 = k
        BY <1>2, <3>3
      <4>2. k - 1 \in DOMAIN chan'[m] /\ chan'[m][k - 1] = n
        BY <1>2, <3>1, <4>1
      <4> QED BY <2>1, <2>2, <2>5, <4>2 DEF InChan
    <3> QED BY <3>2, <3>3
  <2> QED BY <1>12, <2>2, <2>3, <2>4, <2>5
<1>13. \A r \in Calls : ChanInv(r)' /\ HeardInv(r)'
  BY <1>9, <1>10, <1>11
<1>14. ASSUME NEW n \in Calls
       PROVE  /\ Said(n)' <=> Said(n)
              /\ Target(n)' = Target(n)
              /\ \A t : Listening(n, t)' <=> Listening(n, t)
  BY <1>1 DEF Said, Target, Listening
<1>15. \A n \in Calls : Said(n)' /\ Listening(Target(n), dest[n][2])' =>
          InChan(Target(n), n)' \/ InHeard(Target(n), n)'
  BY <1>1, <1>12, <1>14 DEF LineInv, Listening, Target
<1> QED BY <1>1, <1>13, <1>14, <1>15 DEF LineInv

LEMMA RunLines ==
  ASSUME TypeInv, TypeInv', LineInv, NEW n \in Calls, RunStep(n)
  PROVE  LineInv'
<1>0. /\ Rest /\ run[n].at # "none" /\ run'[n].at # "none" /\ run[n].talk \in Nat
      /\ \A m \in Calls : m # n => run'[m] = run[m] /\ chan'[m] = chan[m]
      /\ run \in [Calls -> RunStates] /\ run[n] \in RunStates /\ chan \in [Calls -> Seq(Calls)]
      /\ \A m \in Calls : dest[m][2] \in Nat /\ run[m].talk \in Nat
  BY RunSteps, RunFields DEF TypeInv, TypeOK
<1>1. ASSUME heard' = heard, Keeps(n) PROVE LineInv'
  <2>1. \A m \in Calls : Keeps(m) /\ (run'[m].at = "none" => run'[m].talk = 0)
    BY <1>0, <1>1 DEF Keeps, Listening, LineInv
  <2>2. \A m \in Calls : (Said(m)' <=> Said(m)) /\ dest'[m] = dest[m] /\ pc'[m] = pc[m]
    BY <1>0 DEF Said
  <2>3. \A m \in Calls : pc'[m] \in {"none", "ready", "await", "send"} => ~Said(m)
    BY <2>2 DEF LineInv
  <2>4. ASSUME NEW m \in Calls, pc'[m] = "send"
        PROVE  Target(m)' \in Calls /\ dest'[m][2] <= run'[Target(m)'].talk
    <3>1. /\ Target(m)' = Target(m) /\ Target(m) \in Calls /\ dest'[m] = dest[m]
          /\ dest[m][2] <= run[Target(m)].talk
      BY <2>2, <2>4 DEF Target, LineInv
    <3>2. run'[Target(m)].talk \in {run[Target(m)].talk, run[Target(m)].talk + 1}
      BY <2>1, <3>1 DEF Keeps
    <3> QED BY <1>0, <3>1, <3>2
  <2> QED BY <1>1, <2>1, <2>2, <2>3, <2>4, KeptLines
<1>2. CASE SeatFails(n) \/ Hangup(n)
  <2>1. PICK to \in {"wreck", "gone"} : run' = [run EXCEPT ![n].at = to]
    BY <1>2 DEF SeatFails, Hangup, Moves
  <2>2. run'[n].at = to /\ run'[n].talk = run[n].talk
    BY <1>0, <2>1 DEF RunStates
  <2>3. chan'[n] = <<>> /\ heard' = heard
    BY <1>0, <1>2 DEF SeatFails, Hangup
  <2> QED BY <1>1, <2>2, <2>3 DEF Keeps, Listening
<1>3. CASE Seated(n) \/ LoopStops(n) \/ ClearRouter(n) \/ Fails(n) \/ Returns(n)
  <2>1. PICK from \in {"seating", "talk", "gone", "busy", "written"},
             to \in {"talk", "deaf", "busy", "failed", "returned"} :
          /\ Moves(n, from, to)
          /\ to \in {"talk", "deaf"} => from \in {"seating", "talk"}
    BY <1>3 DEF Seated, LoopStops, ClearRouter, Fails, Returns
  <2>2. run'[n].at = to /\ run'[n].talk = run[n].talk /\ run[n].at = from
    BY <1>0, <2>1 DEF Moves, RunStates
  <2>3. chan' = chan /\ heard' = heard
    BY <1>3 DEF Seated, LoopStops, ClearRouter, Fails, Returns
  <2> QED BY <1>1, <2>1, <2>2, <2>3 DEF Keeps, Listening
<1>4. CASE OpenTalk(n)
  <2>1. run'[n].at = "seating" /\ run'[n].talk = run[n].talk + 1
    BY <1>0, <1>4 DEF OpenTalk, RunStates
  <2>2. chan'[n] = <<>> /\ heard' = heard
    BY <1>0, <1>4 DEF OpenTalk
  <2> QED BY <1>1, <2>1, <2>2 DEF Keeps, Listening
<1>5. CASE WriteManifest(n)
  <2>1. run'[n].at = "written" /\ run'[n].talk = run[n].talk
    BY <1>0, <1>5 DEF WriteManifest, RunStates
  <2>2. chan' = chan /\ heard' = heard
    BY <1>5 DEF WriteManifest
  <2> QED BY <1>1, <2>1, <2>2 DEF Keeps, Listening
<1> QED BY <1>2, <1>3, <1>4, <1>5, HearLines DEF RunStep

LEMMA StepLines == TypeInv /\ WaitInv /\ LineInv /\ [Next]_vars => LineInv'
<1> SUFFICES ASSUME TypeInv, WaitInv, LineInv, [Next]_vars PROVE LineInv'
  OBVIOUS
<1>1. TypeInv'
  BY StepTypes
<1>2. CASE UNCHANGED vars
  <2>1. UNCHANGED <<pc, code, dest, run, chan, heard>>
    BY <1>2 DEF vars
  <2>2. \A m \in Calls : Keeps(m) /\ (run'[m].at = "none" => run'[m].talk = 0)
    BY <2>1 DEF Keeps, Listening, LineInv
  <2>3. \A n \in Calls : /\ (Said(n)' <=> Said(n)) /\ dest'[n] = dest[n] /\ pc'[n] = pc[n]
                         /\ Target(n)' = Target(n)
    BY <2>1 DEF Said, Target
  <2>4. \A n \in Calls : pc'[n] \in {"none", "ready", "await", "send"} => ~Said(n)
    BY <2>3 DEF LineInv
  <2>5. \A n \in Calls : pc'[n] = "send" =>
           Target(n)' \in Calls /\ dest'[n][2] <= run'[Target(n)'].talk
    BY <2>1, <2>3 DEF LineInv
  <2> QED BY <1>1, <2>1, <2>2, <2>3, <2>4, <2>5, KeptLines
<1> QED BY <1>1, <1>2, LoopLines, DispatchLines, RunLines DEF Next

LEMMA LineInvHolds == Spec => [](TypeInv /\ WaitInv /\ LineInv)
BY InitTypes, InitWait, InitLines, StepTypes, StepWait, StepLines, PTL DEF Spec

LEMMA AtMostOne ==
  ASSUME NEW S, NEW T, \A x, y \in S : x = y, \A x, y \in T : x = y, S = {} \/ T = {}
  PROVE  Cardinality(S) + Cardinality(T) <= 1
<1>1. ASSUME NEW U, \A x, y \in U : x = y PROVE Cardinality(U) = IF U = {} THEN 0 ELSE 1
  <2>1. CASE U = {}
    BY <2>1, FS_EmptySet
  <2>2. CASE U # {}
    <3>1. PICK u : U = {u}
      BY <1>1, <2>2
    <3> QED BY <2>2, <3>1, FS_Singleton
  <2> QED BY <2>1, <2>2
<1> QED BY <1>1

\* A line a client was told is delivered is taken at most once, by the one
\* conversation that was live when the call looked, and is lost only with
\* that conversation (src/src/mcp/messaging.rs: live_routers, inject).
THEOREM DeliveredOnce == Spec => []LineKeepsItsTalk
<1>1. ASSUME TypeInv, LineInv PROVE LineKeepsItsTalk
  <2>1. ASSUME NEW m \in Calls, NEW k \in DOMAIN heard[m]
        PROVE  dest[heard[m][k].call] = <<m, heard[m][k].talk>>
    BY <1>1 DEF LineInv, HeardInv
  <2>2. ASSUME NEW n \in Read, code[n].says = "delivered"
        PROVE  LET m == Target(n)
                   took == {k \in DOMAIN heard[m] : heard[m][k].call = n}
                   waits == {k \in DOMAIN chan[m] : chan[m][k] = n}
               IN /\ Cardinality(took) + Cardinality(waits) <= 1
                  /\ Listening(m, dest[n][2]) => took \cup waits # {}
    <3>0. n \in Calls
      <4>1. read \in 0 .. Len(frames) /\ Len(frames) \in 0 .. MaxFrames /\ MaxFrames \in Nat
        BY <1>1, ConstantTypes DEF TypeInv, TypeOK
      <4> QED BY <4>1 DEF Read, Calls
    <3>1. PICK m \in Calls : m = Target(n)
      BY <1>1, <2>2, <3>0 DEF LineInv, Said
    <3> DEFINE took == {k \in DOMAIN heard[m] : heard[m][k].call = n}
               waits == {k \in DOMAIN chan[m] : chan[m][k] = n}
    <3>2. /\ \A x, y \in took : x = y
          /\ \A x, y \in waits : x = y
          /\ took = {} \/ waits = {}
      <4>1. ChanInv(m) /\ HeardInv(m)
        BY <1>1 DEF LineInv
      <4> QED BY <4>1 DEF ChanInv, HeardInv, InHeard
    <3>3. Listening(m, dest[n][2]) => took \cup waits # {}
      BY <1>1, <2>2, <3>0, <3>1 DEF LineInv, Said, InChan, InHeard
    <3> HIDE DEF took, waits
    <3>4. Cardinality(took) + Cardinality(waits) <= 1
      BY <3>2, AtMostOne
    <3> QED BY <3>1, <3>3, <3>4 DEF took, waits
  <2> QED BY <2>1, <2>2 DEF LineKeepsItsTalk
<1> QED BY <1>1, LineInvHolds, PTL

----------------------------------------------------------------------------
(* Responses.                                                              *)

Answered == {n \in Calls : pc[n] = "over" /\ Asks(n)}

(* A call under way is a request; a response is for the frame it carries    *)
(* the id of; each is written once, and while stdout takes them there are   *)
(* as many as requests dealt with.                                         *)
ReplyInv ==
    /\ \A n \in Calls : pc[n] \in {"await", "send"} => frames[n].id
    /\ \A n \in Calls : pc[n] = "reply" => Asks(n) /\ (code[n].id = n => frames[n].id)
    /\ \A n \in Calls : code[n].id \in {0, n}
    /\ \A k \in DOMAIN out : out[k].id # 0 =>
          out[k].id \in Calls /\ pc[out[k].id] = "over" /\ frames[out[k].id].id
    /\ \A j, k \in DOMAIN out : out[j].id = out[k].id /\ out[j].id # 0 => j = k
    /\ pipe = "up" => Len(out) = Cardinality(Answered)

LEMMA InitReplies == Init => ReplyInv
<1> SUFFICES ASSUME Init PROVE ReplyInv
  OBVIOUS
<1>1. \A n \in Calls : pc[n] = "none" /\ code[n].id = 0
  BY DEF Init, NoCode
<1>2. Answered = {} /\ out = <<>>
  BY <1>1 DEF Answered, Init
<1>3. Len(out) = Cardinality(Answered)
  BY <1>2, FS_EmptySet
<1> QED BY <1>1, <1>2, <1>3 DEF ReplyInv

\* A step that writes nothing and deals with no request.
LEMMA SilentStep ==
  ASSUME ReplyInv, UNCHANGED <<scene, pipe, out>>,
         \A n \in Calls : pc[n] = "over" => pc'[n] = "over",
         \A n \in Calls : pc'[n] = "over" /\ pc[n] # "over" => ~Asks(n),
         \A n \in Calls : pc'[n] \in {"await", "send"} => frames[n].id,
         \A n \in Calls : pc'[n] = "reply" => Asks(n) /\ (code'[n].id = n => frames[n].id),
         \A n \in Calls : code'[n].id \in {0, n}
  PROVE  ReplyInv'
<1>1. Answered' = Answered
  BY DEF Answered, Asks
<1> QED BY <1>1 DEF ReplyInv, Asks

LEMMA LoopReplies ==
  ASSUME TypeInv, WaitInv, ReplyInv, ReadFrame \/ Eof \/ ReadFails \/ Drained
  PROVE  ReplyInv'
<1>1. UNCHANGED <<scene, pipe, out, code>>
  BY DEF ReadFrame, Eof, ReadFails, Drained
<1>2. \A n \in Calls : pc'[n] # pc[n] =>
          \/ pc'[n] = "ready" /\ ReadFrame
          \/ pc'[n] = "dropped" /\ InFlight(n)
  BY DEF ReadFrame, Eof, ReadFails, Drained, TypeInv, TypeOK
<1>3. \A n \in Calls : pc[n] = "over" => pc'[n] = "over"
  <2>1. CASE ReadFrame
    <3>1. read' \in Nat /\ read' > read /\ \A n \in Calls : n # read' => pc'[n] = pc[n]
      BY <2>1 DEF ReadFrame, TypeInv, TypeOK
    <3> QED BY <3>1 DEF WaitInv
  <2> QED BY <1>2, <2>1 DEF InFlight
<1> QED BY <1>1, <1>2, <1>3, SilentStep DEF ReplyInv

LEMMA WriteReplies ==
  ASSUME TypeInv, TypeInv', ReplyInv, NEW n \in Calls, WriteFrame(n)
  PROVE  ReplyInv'
<1>1. /\ pc[n] = "reply" /\ UNCHANGED <<scene, code>> /\ pc'[n] = "over"
      /\ \A m \in Calls : m # n => pc'[m] = pc[m]
      /\ out \in Seq(Codes) /\ code[n] \in Codes
  BY DEF WriteFrame, TypeInv, TypeOK
<1>2. Asks(n) /\ (code[n].id = n => frames[n].id) /\ code[n].id \in {0, n}
  BY <1>1 DEF ReplyInv
<1>3. /\ \A m \in Calls : pc'[m] \in {"await", "send"} => frames'[m].id
      /\ \A m \in Calls : pc'[m] = "reply" => Asks(m)' /\ (code'[m].id = m => frames'[m].id)
      /\ \A m \in Calls : code'[m].id \in {0, m}
  BY <1>1 DEF ReplyInv, Asks
<1>4. CASE out' = out /\ pipe' = "down"
  <2>1. \A k \in DOMAIN out' : out'[k].id # 0 =>
          out'[k].id \in Calls /\ pc'[out'[k].id] = "over" /\ frames'[out'[k].id].id
    BY <1>1, <1>4 DEF ReplyInv
  <2>2. \A j, k \in DOMAIN out' : out'[j].id = out'[k].id /\ out'[j].id # 0 => j = k
    BY <1>4 DEF ReplyInv
  <2> QED BY <1>3, <1>4, <2>1, <2>2 DEF ReplyInv
<1>5. CASE pipe = "up" /\ out' = Append(out, code[n]) /\ UNCHANGED pipe
  <2> DEFINE l == Len(out)
  <2>1. /\ l \in Nat /\ DOMAIN out = 1 .. l /\ DOMAIN out' = 1 .. l + 1 /\ Len(out') = l + 1
        /\ out'[l + 1] = code[n] /\ \A k \in 1 .. l : out'[k] = out[k]
    BY <1>1, <1>5, AppendProperties, LenProperties
  <2> HIDE DEF l
  <2>2. \A k \in 1 .. l : out[k].id # 0 =>
          out[k].id \in Calls /\ pc[out[k].id] = "over" /\ frames[out[k].id].id
    BY <2>1 DEF ReplyInv
  <2>3. ASSUME NEW k \in DOMAIN out', out'[k].id # 0
        PROVE  out'[k].id \in Calls /\ pc'[out'[k].id] = "over" /\ frames'[out'[k].id].id
    <3>1. CASE k = l + 1
      BY <1>1, <1>2, <2>1, <2>3, <3>1
    <3>2. CASE k \in 1 .. l
      BY <1>1, <2>1, <2>2, <2>3, <3>2
    <3> QED BY <2>1, <3>1, <3>2
  <2>4. ASSUME NEW j \in DOMAIN out', NEW k \in DOMAIN out',
               out'[j].id = out'[k].id, out'[j].id # 0
        PROVE  j = k
    <3>1. CASE j \in 1 .. l /\ k \in 1 .. l
      BY <2>1, <2>4, <3>1 DEF ReplyInv
    <3>2. \A i \in 1 .. l : out'[i].id # 0 => out'[i].id # code[n].id
      BY <1>1, <1>2, <2>1, <2>2
    <3>3. CASE j = l + 1 \/ k = l + 1
      BY <2>1, <2>4, <3>2, <3>3
    <3> QED BY <2>1, <3>1, <3>3
  <2>5. Len(out') = Cardinality(Answered')
    <3>1. Answered' = Answered \cup {n} /\ n \notin Answered
      BY <1>1, <1>2 DEF Answered, Asks
    <3>2. IsFiniteSet(Answered)
      <4>1. IsFiniteSet(Calls)
        BY ConstantTypes, FS_Interval DEF Calls, TypeInv, TypeOK
      <4>2. Answered \subseteq Calls
        BY DEF Answered
      <4> QED BY <4>1, <4>2, FS_Subset
    <3>3. Cardinality(Answered') = Cardinality(Answered) + 1
      BY <3>1, <3>2, FS_AddElement
    <3>4. l = Cardinality(Answered)
      BY <1>5 DEF ReplyInv, l
    <3> QED BY <2>1, <3>3, <3>4
  <2> QED BY <1>3, <2>3, <2>4, <2>5 DEF ReplyInv
<1> QED BY <1>4, <1>5 DEF WriteFrame

LEMMA DispatchReplies ==
  ASSUME TypeInv, TypeInv', ReplyInv, NEW n \in Calls, Dispatch(n)
  PROVE  ReplyInv'
<1>0. /\ InFlight(n) /\ pc \in [Calls -> {"none", "ready", "await", "send", "reply", "over",
                                         "dropped"}]
      /\ code \in [Calls -> Codes]
      /\ \A m \in Calls : m # n => pc'[m] = pc[m] /\ code'[m] = code[m]
  BY DispatchSteps DEF TypeInv, TypeOK
<1>1. ASSUME UNCHANGED <<scene, pipe, out>>, code'[n].id \in {0, n},
             pc'[n] = "over" => ~Asks(n),
             pc'[n] \in {"await", "send"} => frames[n].id,
             pc'[n] = "reply" => Asks(n) /\ (code'[n].id = n => frames[n].id)
      PROVE  ReplyInv'
  <2>1. /\ \A m \in Calls : pc[m] = "over" => pc'[m] = "over"
        /\ \A m \in Calls : pc'[m] = "over" /\ pc[m] # "over" => ~Asks(m)
    BY <1>0, <1>1 DEF InFlight
  <2>2. /\ \A m \in Calls : pc'[m] \in {"await", "send"} => frames[m].id
        /\ \A m \in Calls : pc'[m] = "reply" => Asks(m) /\ (code'[m].id = m => frames[m].id)
        /\ \A m \in Calls : code'[m].id \in {0, m}
    BY <1>0, <1>1 DEF ReplyInv
  <2> QED BY <1>1, <2>1, <2>2, SilentStep
<1>2. ASSUME NEW says, Answer(n, says), frames[n].id, UNCHANGED <<scene, pipe, out>>
      PROVE  ReplyInv'
  <2>1. pc'[n] = "reply" /\ code'[n].id = n
    BY <1>0, <1>2 DEF Answer
  <2> QED BY <1>1, <1>2, <2>1 DEF Asks
<1>3. CASE ParseError(n)
  <2>1. pc'[n] = "reply" /\ code'[n].id = IF frames[n].id THEN n ELSE 0
    BY <1>0, <1>3 DEF ParseError
  <2>2. n # 0
    BY DEF Calls
  <2> QED BY <1>1, <1>3, <2>1, <2>2 DEF ParseError, Asks
<1>4. CASE Notified(n)
  <2>1. pc'[n] = "over" /\ code'[n].id \in {0, n}
    BY <1>0, <1>4 DEF Notified, ReplyInv
  <2> QED BY <1>1, <1>4, <2>1 DEF Notified, Asks
<1>5. CASE Instant(n)
  BY <1>2, <1>5 DEF Instant, Request
<1>6. CASE PreflightFails(n) \/ SetupFails(n) \/ ShowOutput(n)
  <2>1. PICK says : Answer(n, says)
    BY <1>6 DEF PreflightFails, SetupFails, ShowOutput
  <2>2. frames[n].id /\ UNCHANGED <<scene, pipe, out>>
    BY <1>6 DEF PreflightFails, SetupFails, ShowOutput, Called, Request
  <2> QED BY <1>2, <2>1, <2>2
<1>7. CASE Launch(n)
  <2>1. pc'[n] = "await" /\ code' = code /\ frames[n].id /\ UNCHANGED <<scene, pipe, out>>
    BY <1>0, <1>7 DEF Launch, Called, Request
  <2> QED BY <1>1, <2>1 DEF ReplyInv
<1>8. CASE Joined(n) \/ Inject(n) \/ Refused(n)
  <2>1. PICK says : Answer(n, says)
    BY <1>8 DEF Joined, Outcome, Inject, Refused
  <2>2. frames[n].id /\ UNCHANGED <<scene, pipe, out>>
    BY <1>8 DEF Joined, Inject, Refused, ReplyInv
  <2> QED BY <1>2, <2>1, <2>2
<1>9. CASE Snapshot(n)
  <2>1. frames[n].id /\ UNCHANGED <<scene, pipe, out>>
    BY <1>9 DEF Snapshot, Called, Request
  <2>2. CASE Cardinality(Live) = 1
    <3>1. pc'[n] = "send" /\ code' = code
      BY <1>0, <1>9, <2>2 DEF Snapshot
    <3> QED BY <1>1, <2>1, <3>1 DEF ReplyInv
  <2>3. CASE Cardinality(Live) # 1
    BY <1>2, <1>9, <2>1, <2>3 DEF Snapshot
  <2> QED BY <2>2, <2>3
<1> QED BY <1>3, <1>4, <1>5, <1>6, <1>7, <1>8, <1>9, WriteReplies DEF Dispatch

LEMMA StepReplies == TypeInv /\ WaitInv /\ ReplyInv /\ [Next]_vars => ReplyInv'
<1> SUFFICES ASSUME TypeInv, WaitInv, ReplyInv, [Next]_vars PROVE ReplyInv'
  OBVIOUS
<1>1. TypeInv'
  BY StepTypes
<1>2. ASSUME UNCHANGED <<scene, pipe, out, pc, code>> PROVE ReplyInv'
  BY <1>2, SilentStep DEF ReplyInv
<1>3. ASSUME NEW n \in Calls, RunStep(n) PROVE ReplyInv'
  BY <1>2, <1>3, RunSteps
<1>4. CASE UNCHANGED vars
  BY <1>2, <1>4 DEF vars
<1> QED BY <1>1, <1>3, <1>4, LoopReplies, DispatchReplies DEF Next

LEMMA ReplyInvHolds == Spec => [](TypeInv /\ WaitInv /\ ReplyInv)
BY InitTypes, InitWait, InitReplies, StepTypes, StepWait, StepReplies, PTL DEF Spec

\* Every request is answered at most once and under its own id, a notification
\* never, and a server that ends after EOF on a stdout that took everything
\* has answered all (src/src/mcp/server.rs: run, write_response).
THEOREM OneResponseEach == Spec => []OneResponse
<1>1. ASSUME TypeInv, WaitInv, ReplyInv PROVE OneResponse
  <2>0. /\ read \in Nat /\ MaxFrames \in Nat /\ read <= MaxFrames
        /\ pc \in [Calls -> {"none", "ready", "await", "send", "reply", "over", "dropped"}]
    BY <1>1, ConstantTypes DEF TypeInv, TypeOK
  <2>1. ASSUME NEW n \in Read, code[n].id = n PROVE Cardinality(Entries(n)) <= 1
    <3>1. n # 0
      BY <2>0 DEF Read
    <3>2. \A j, k \in Entries(n) : j = k
      BY <1>1, <2>1, <3>1 DEF Entries, ReplyInv
    <3>4. CASE Entries(n) = {}
      BY <3>4, FS_EmptySet
    <3>5. CASE Entries(n) # {}
      <4>1. PICK k : Entries(n) = {k}
        BY <3>2, <3>5
      <4> QED BY SMTT(30), <4>1, FS_Singleton
    <3> QED BY <3>4, <3>5
  <2>2. \A k \in DOMAIN out : out[k].id = 0 \/ frames[out[k].id].id
    BY <1>1 DEF ReplyInv
  <2>3. ASSUME loop = "ended", pipe = "up"
        PROVE  Len(out) = Cardinality({n \in Read : Asks(n)})
    <3>1. \A n \in Calls : pc[n] \in {"none", "over"}
      BY <1>1, <2>0, <2>3 DEF WaitInv, Alive, InFlight
    <3>2. \A n \in Calls : pc[n] = "over" <=> n <= read
      BY <1>1, <2>0, <3>1 DEF WaitInv, Calls
    <3>3. {n \in Read : Asks(n)} = Answered
      BY <2>0, <3>2 DEF Answered, Read, Calls
    <3> QED BY <1>1, <2>3, <3>3 DEF ReplyInv
  <2> QED BY <2>1, <2>2, <2>3 DEF OneResponse
<1> QED BY <1>1, ReplyInvHolds, PTL

----------------------------------------------------------------------------
(* Reports.                                                                *)

ReportLines == [bullet : BOOLEAN, says : STRING]

\* A section is the lines between two headings.
LEMMA SectionIs ==
  ASSUME NEW report, Len(report) \in Nat, DOMAIN report = 1 .. Len(report),
         NEW name \in Headings
  PROVE  \E F \in Nat, n \in Nat :
            /\ F + n <= Len(report)
            /\ Section(report, name) = [k \in 1 .. n |-> F + k]
            /\ Inside(report, name) = F + 1 .. F + n
<1> DEFINE Titled(k) == Header(report[k]) /\ report[k].says = name
           N == Len(report)
           heads == {k \in DOMAIN report : Titled(k)}
           first == Min(heads)
           rest == {k \in DOMAIN report : k > first /\ Header(report[k])}
           end == IF rest = {} THEN N + 1 ELSE Min(rest)
<1>1. CASE heads = {}
  <2>1. Section(report, name) = <<>>
    BY <1>1 DEF Section
  <2>2. Inside(report, name) = {}
    BY <1>1 DEF Inside
  <2>3. Section(report, name) = [k \in 1 .. 0 |-> 0 + k] /\ Inside(report, name) = 0 + 1 .. 0 + 0
    BY <2>1, <2>2
  <2> QED BY <2>3
<1>2. CASE heads # {}
  <2>1. Section(report, name) = [k \in 1 .. end - first - 1 |-> first + k]
    BY <1>2 DEF Section
  <2>2. first \in heads /\ \A h \in heads : first <= h
    <3>1. heads \subseteq Nat
      OBVIOUS
    <3> HIDE DEF heads
    <3> QED BY <1>2, <3>1, MinIs
  <2>3. first \in 1 .. N /\ Titled(first) /\ \A h \in 1 .. N : Titled(h) => first <= h
    BY <2>2
  <2> HIDE DEF first, Titled
  <2>4. /\ end \in first + 1 .. N + 1
        /\ end <= N => Header(report[end])
        /\ \A g \in first + 1 .. end - 1 : ~Header(report[g])
    <3>1. CASE rest = {}
      BY <2>3, <3>1
    <3>2. CASE rest # {}
      <4>1. rest \subseteq Nat
        OBVIOUS
      <4>2. Min(rest) \in rest /\ \A m \in rest : Min(rest) <= m
        <5> HIDE DEF rest
        <5> QED BY <3>2, <4>1, MinIs
      <4>3. end \in rest /\ \A m \in rest : end <= m
        BY <3>2, <4>2
      <4> HIDE DEF end
      <4> QED BY <2>3, <4>3
    <3> QED BY <3>1, <3>2
  <2> HIDE DEF end
  <2>5. ASSUME NEW k \in 1 .. N
        PROVE  k \in Inside(report, name) <=> k \in first + 1 .. end - 1
    <3>1. ASSUME k \in Inside(report, name) PROVE k \in first + 1 .. end - 1
      <4>1. PICK h \in 1 .. k - 1 :
               /\ Titled(h) /\ \A g \in 1 .. h - 1 : ~Titled(g)
               /\ \A g \in h + 1 .. k : ~Header(report[g])
        BY <3>1 DEF Inside, Titled
      <4>2. h = first
        BY <2>3, <4>1
      <4>3. ~(end <= k)
        BY <2>3, <2>4, <4>1, <4>2
      <4> QED BY <2>3, <2>4, <4>2, <4>3
    <3>2. ASSUME k \in first + 1 .. end - 1 PROVE k \in Inside(report, name)
      <4>1. /\ first \in 1 .. k - 1 /\ Titled(first)
            /\ \A g \in 1 .. first - 1 : ~Titled(g)
            /\ \A g \in first + 1 .. k : ~Header(report[g])
        BY <2>3, <2>4, <3>2
      <4> QED BY <4>1 DEF Inside, Titled
    <3> QED BY <3>1, <3>2
  <2>6. Inside(report, name) = first + 1 .. end - 1
    <3>1. Inside(report, name) \subseteq 1 .. N
      BY DEF Inside
    <3>2. first + 1 .. end - 1 \subseteq 1 .. N
      BY <2>3, <2>4
    <3> QED BY <2>5, <3>1, <3>2
  <2>7. /\ end - first - 1 \in Nat /\ first \in Nat
        /\ first + (end - first - 1) <= N /\ first + (end - first - 1) = end - 1
    BY <2>3, <2>4
  <2> QED BY <2>1, <2>6, <2>7
<1> QED BY <1>1, <1>2

----------------------------------------------------------------------------
(* What the loop over a section computes, one line at a time.              *)

NoFindings == [done |-> <<>>, open |-> <<>>]
Takes(f, report, s, n) ==
    f = [k \in 0 .. n |-> IF k = 0 THEN NoFindings ELSE Take(report, f[k - 1], s[k])]

LEMMA TakesExists ==
  ASSUME NEW report, NEW s, NEW n \in Nat
  PROVE  \E f : Takes(f, report, s, n)
<1> DEFINE T == {k \in Nat : ~ \E f : Takes(f, report, s, k)}
<1> SUFFICES ASSUME T # {} PROVE FALSE
  OBVIOUS
<1>1. PICK k \in T : \A m \in T : k <= m
  <2>1. T \subseteq Nat
    OBVIOUS
  <2> HIDE DEF T
  <2> QED BY <2>1, Least
<1>2. k \in Nat /\ ~ \E f : Takes(f, report, s, k)
  BY <1>1
<1>3. CASE k = 0
  <2> DEFINE f == [i \in 0 .. 0 |-> NoFindings]
  <2>1. Takes(f, report, s, 0)
    BY DEF Takes
  <2> QED BY <1>2, <1>3, <2>1
<1>4. CASE k # 0
  <2>1. k - 1 \in Nat /\ k - 1 \notin T
    BY <1>1, <1>2, <1>4
  <2>2. PICK g : Takes(g, report, s, k - 1)
    BY <2>1
  <2> DEFINE f == [i \in 0 .. k |-> IF i = 0 THEN NoFindings ELSE Take(report, g[i - 1], s[i])]
  <2>3. ASSUME NEW i \in 0 .. k, i # 0 PROVE f[i - 1] = g[i - 1]
    <3>1. i - 1 \in 0 .. k /\ i - 1 \in 0 .. k - 1
      BY <1>2, <2>3
    <3>2. f[i - 1] = IF i - 1 = 0 THEN NoFindings ELSE Take(report, g[i - 1 - 1], s[i - 1])
      BY <3>1
    <3>3. g[i - 1] = IF i - 1 = 0 THEN NoFindings ELSE Take(report, g[i - 1 - 1], s[i - 1])
      BY <2>2, <3>1 DEF Takes
    <3> QED BY <3>2, <3>3
  <2>4. f = [i \in 0 .. k |-> IF i = 0 THEN NoFindings ELSE Take(report, f[i - 1], s[i])]
    BY <2>3
  <2>5. Takes(f, report, s, k)
    BY <2>4 DEF Takes
  <2> QED BY <1>2, <2>5
<1> QED BY <1>3, <1>4

Taken(report, s, n) == CHOOSE h : Takes(h, report, s, n)

LEMMA GatherIs ==
  ASSUME NEW report, NEW s, NEW n \in Nat, Len(s) = n
  PROVE  /\ Gather(report, s) = Taken(report, s, n)[n]
         /\ Takes(Taken(report, s, n), report, s, n)
<1> DEFINE f == CHOOSE f : f = [k \in 0 .. Len(s) |->
                                  IF k = 0 THEN [done |-> <<>>, open |-> <<>>]
                                  ELSE Take(report, f[k - 1], s[k])]
<1>1. Gather(report, s) = f[Len(s)]
  BY DEF Gather
<1>2. f = Taken(report, s, n)
  BY Zenon DEF Takes, Taken, NoFindings
<1> HIDE DEF f
<1>3. \E h : Takes(h, report, s, n)
  BY TakesExists
<1>4. Takes(Taken(report, s, n), report, s, n)
  BY Zenon, <1>3 DEF Taken
<1> QED BY <1>1, <1>2, <1>4

----------------------------------------------------------------------------
(* The findings of some of the bullets of a section, in their order.       *)

Finding(report, name, b) ==
    [k \in 1 .. Max(Tells(report, name, b)) - b + 1 |-> b + k - 1]
Before(report, name, k) == {b \in Bullets(report, name) : b < k}
Rank(B, b) == Cardinality({c \in B : c <= b})

Listed(found, report, name, B) ==
    /\ found \in Seq(Seq(Nat)) /\ Len(found) = Cardinality(B)
    /\ \A b \in B : found[Rank(B, b)] = Finding(report, name, b)

LEMMA RankIn ==
  ASSUME NEW n \in Nat, NEW B, B \subseteq 1 .. n
  PROVE  /\ IsFiniteSet(B) /\ Cardinality(B) \in Nat
         /\ \A b \in B : Rank(B, b) \in 1 .. Cardinality(B)
<1>1. IsFiniteSet(B)
  <2>1. IsFiniteSet(1 .. n)
    BY FS_Interval
  <2> QED BY <2>1, FS_Subset
<1>2. Cardinality(B) \in Nat
  BY <1>1, FS_CardinalityType
<1>3. ASSUME NEW b \in B PROVE Rank(B, b) \in 1 .. Cardinality(B)
  <2> DEFINE C == {c \in B : c <= b}
  <2>1. C \subseteq B /\ b \in C
    OBVIOUS
  <2> HIDE DEF C
  <2>2. IsFiniteSet(C) /\ Cardinality(C) <= Cardinality(B)
    BY <1>1, <2>1, FS_Subset
  <2>3. Cardinality(C) \in Nat /\ Cardinality(C) # 0
    BY <2>1, <2>2, FS_CardinalityType, FS_EmptySet
  <2>4. Rank(B, b) = Cardinality(C)
    BY DEF Rank, C
  <2> QED BY <1>2, <2>2, <2>3, <2>4
<1> QED BY <1>1, <1>2, <1>3

\* A finding more, of a bullet below the others.
LEMMA ListedMore ==
  ASSUME NEW report, NEW name, NEW found, NEW n \in Nat, NEW B, B \subseteq 1 .. n,
         NEW o \in 1 .. n, \A b \in B : b < o, Listed(found, report, name, B),
         Finding(report, name, o) \in Seq(Nat)
  PROVE  Listed(Append(found, Finding(report, name, o)), report, name, B \cup {o})
<1> DEFINE x == Finding(report, name, o)
           C == B \cup {o}
           more == Append(found, x)
<1>1. /\ found \in Seq(Seq(Nat)) /\ Len(found) = Cardinality(B) /\ x \in Seq(Nat)
      /\ \A b \in B : found[Rank(B, b)] = Finding(report, name, b)
  BY DEF Listed
<1>2. /\ IsFiniteSet(B) /\ Cardinality(B) \in Nat
      /\ \A b \in B : Rank(B, b) \in 1 .. Cardinality(B)
  BY RankIn
<1>3. Cardinality(C) = Cardinality(B) + 1
  <2>1. o \notin B
    OBVIOUS
  <2> QED BY <1>2, <2>1, FS_AddElement
<1>4. Rank(C, o) = Cardinality(B) + 1
  <2>1. \A c \in C : c <= o
    OBVIOUS
  <2>2. {c \in C : c <= o} = C
    BY Zenon, <2>1
  <2> QED BY <1>3, <2>2 DEF Rank
<1>5. ASSUME NEW b \in B PROVE Rank(C, b) = Rank(B, b)
  <2>1. {c \in C : c <= b} = {c \in B : c <= b}
    OBVIOUS
  <2> QED BY <2>1 DEF Rank
<1> HIDE DEF x, C
<1>6. /\ more \in Seq(Seq(Nat)) /\ Len(more) = Len(found) + 1 /\ more[Len(found) + 1] = x
      /\ \A i \in 1 .. Len(found) : more[i] = found[i]
  BY <1>1, AppendIs
<1> HIDE DEF more
<1>7. ASSUME NEW b \in C PROVE more[Rank(C, b)] = Finding(report, name, b)
  <2>1. CASE b = o
    BY <1>1, <1>4, <1>6, <2>1 DEF x
  <2>2. CASE b \in B
    BY <1>1, <1>2, <1>5, <1>6, <2>2
  <2> QED BY <2>1, <2>2 DEF C
<1>8. Listed(more, report, name, C)
  BY <1>1, <1>3, <1>6, <1>7 DEF Listed
<1> QED BY <1>8 DEF more, x, C

\* Positions from o on, and the same counted from 1.
LEMMA Shifted ==
  ASSUME NEW o \in Nat, NEW k \in Nat, o < k, NEW T, T \subseteq o .. k - 1,
         NEW U, U \subseteq 1 .. k - o, \A j \in 1 .. k - o : j \in U <=> o + j - 1 \in T
  PROVE  /\ T = {} <=> U = {}
         /\ T # {} => Max(U) = Max(T) - o + 1 /\ Max(U) \in 1 .. k - o
<1>1. ASSUME NEW j \in T PROVE j - o + 1 \in U
  <2>1. j \in o .. k - 1
    OBVIOUS
  <2>2. j - o + 1 \in 1 .. k - o /\ o + (j - o + 1) - 1 = j
    BY <2>1
  <2> QED BY <2>1, <2>2
<1>2. ASSUME NEW j \in U PROVE o + j - 1 \in T
  OBVIOUS
<1>3. T = {} <=> U = {}
  BY <1>1, <1>2
<1>4. k - o \in Nat
  OBVIOUS
<1>5. ASSUME T # {} PROVE Max(U) = Max(T) - o + 1 /\ Max(U) \in 1 .. k - o
  <2>2. Max(T) \in T /\ \A j \in T : Max(T) >= j
    <3>1. \E n \in T : \A j \in T : n >= j
      <4>1. U # {} /\ U \subseteq 1 .. k - o /\ k - o \in Nat
        BY Zenon, <1>3, <1>4, <1>5
      <4>2. PICK m \in U : \A j \in U : m >= j
        BY <4>1, Greatest
      <4>3. o + m - 1 \in T
        BY <1>2
      <4>4. ASSUME NEW j \in T PROVE o + m - 1 >= j
        <5>1. m >= j - o + 1
          BY <1>1, <4>2
        <5> QED BY <5>1
      <4> QED BY <4>3, <4>4
    <3> QED BY <3>1 DEF Max
  <2>3. Max(U) \in U /\ \A j \in U : Max(U) >= j
    <3>1. U # {} /\ U \subseteq 1 .. k - o /\ k - o \in Nat
      BY Zenon, <1>3, <1>4, <1>5
    <3> QED BY <3>1, MaxIs
  <2> DEFINE m == Max(U)
             t == Max(T)
  <2>4. m >= t - o + 1 /\ t >= o + m - 1
    BY <1>1, <1>2, <2>2, <2>3
  <2>5. m \in 1 .. k - o /\ t \in o .. k - 1
    BY <2>2, <2>3
  <2> HIDE DEF m, t
  <2>6. m = t - o + 1 /\ m \in 1 .. k - o
    BY <2>4, <2>5
  <2> QED BY <2>6 DEF m, t
<1> QED BY <1>3, <1>5

LEMMA CountUp ==
  ASSUME NEW m \in Nat, NEW o \in Nat \ {0}
  PROVE  [j \in 1 .. m |-> o + j - 1] \in Seq(Nat)
<1> DEFINE s == [j \in 1 .. m |-> o + j - 1]
<1>1. s \in [1 .. m -> Nat]
  OBVIOUS
<1> HIDE DEF s
<1>2. s \in Seq(Nat)
  BY <1>1, IsASeq
<1> QED BY <1>2 DEF s

(* What the loop has before line k of the report: the findings of the       *)
(* bullets that are closed, and the lines of the one that is open.          *)

Gathered == [done : Seq(Seq(Nat)), open : Seq(Nat)]

OpenedAt(acc, report, name, k, o) ==
    /\ report[o].bullet
    /\ \A j \in o + 1 .. k - 1 : ~report[j].bullet
    /\ Len(acc.open) = k - o
    /\ \A j \in 1 .. k - o : acc.open[j] = o + j - 1
    /\ Listed(acc.done, report, name, Before(report, name, o))

ReadTo(acc, report, name, F, k) ==
    \/ /\ acc = NoFindings
       /\ \A j \in F + 1 .. k - 1 : ~report[j].bullet
    \/ /\ acc \in Gathered /\ acc.open # <<>>
       /\ \E o \in F + 1 .. k - 1 : OpenedAt(acc, report, name, k, o)

\* A bullet is closed: it is a finding if it, or a line up to the next one, says
\* anything.
LEMMA Closed ==
  ASSUME NEW report, Len(report) \in Nat, NEW name, NEW F \in Nat, NEW n \in Nat,
         F + n <= Len(report), Inside(report, name) = F + 1 .. F + n,
         NEW o \in F + 1 .. F + n, NEW k \in o + 1 .. F + n + 1,
         k = F + n + 1 \/ report[k].bullet,
         NEW acc \in Gathered, OpenedAt(acc, report, name, k, o)
  PROVE  Listed(PushTrimmed(report, acc.done, acc.open), report, name, Before(report, name, k))
<1>1. /\ report[o].bullet /\ \A j \in o + 1 .. k - 1 : ~report[j].bullet
      /\ Len(acc.open) = k - o /\ \A j \in 1 .. k - o : acc.open[j] = o + j - 1
      /\ Listed(acc.done, report, name, Before(report, name, o)) /\ acc.open \in Seq(Nat)
  BY DEF OpenedAt, Gathered
<1> DEFINE T == Tells(report, name, o)
           full == {j \in DOMAIN acc.open : report[acc.open[j]].says # ""}
           B == Before(report, name, o)
           C == Before(report, name, k)
           N == Len(report)
<1>2. k \in Nat /\ o \in 1 .. N /\ k <= N + 1 /\ o < k /\ k - o \in Nat
  OBVIOUS
<1>3. T = {j \in o .. k - 1 : report[j].says # ""}
  <2>1. ASSUME NEW j \in F + 1 .. F + n, j >= o
        PROVE  (\A i \in o + 1 .. j : ~report[i].bullet) <=> j <= k - 1
    <3>1. CASE j <= k - 1
      BY <1>1, <3>1
    <3>2. CASE j > k - 1
      <4>1. k \in o + 1 .. j /\ report[k].bullet
        BY <2>1, <3>2
      <4> QED BY <3>2, <4>1
    <3> QED BY <3>1, <3>2
  <2>2. ASSUME NEW j PROVE j \in T <=> j \in o .. k - 1 /\ report[j].says # ""
    <3>1. j \in T <=> /\ j \in F + 1 .. F + n /\ j >= o /\ report[j].says # ""
                      /\ \A i \in o + 1 .. j : ~report[i].bullet
      BY DEF Tells
    <3>2. j \in o .. k - 1 <=> j \in F + 1 .. F + n /\ j >= o /\ j <= k - 1
      OBVIOUS
    <3> HIDE DEF T
    <3> QED BY Zenon, <2>1, <3>1, <3>2
  <2> HIDE DEF T
  <2> QED BY <2>2
<1>4. full = {j \in 1 .. k - o : report[o + j - 1].says # ""}
  <2>1. DOMAIN acc.open = 1 .. k - o
    BY <1>1, LenProperties
  <2> QED BY <1>1, <2>1
<1>5. B \subseteq 1 .. N /\ \A b \in B : b < o
  BY DEF Before, Bullets, Inside
<1>6. C = IF T = {} THEN B ELSE B \cup {o}
  <2>1. ASSUME NEW b \in Bullets(report, name), b < k, b >= o PROVE b = o /\ T # {}
    <3>1. b \in F + 1 .. F + n /\ report[b].bullet /\ Tells(report, name, b) # {}
      BY DEF Bullets
    <3>2. b \notin o + 1 .. k - 1
      BY Zenon, <1>1, <3>1
    <3>3. b = o
      BY <1>2, <2>1, <3>1, <3>2
    <3> QED BY <3>1, <3>3
  <2>2. o \in Bullets(report, name) <=> T # {}
    BY <1>1 DEF Bullets
  <2>3. \A b \in Bullets(report, name) : b \in Nat
    BY DEF Bullets
  <2> HIDE DEF T
  <2> QED BY <1>2, <2>1, <2>2, <2>3 DEF Before
<1> HIDE DEF T, full, B, C
<1>7. /\ T = {} <=> full = {}
      /\ T # {} => Max(full) = Max(T) - o + 1 /\ Max(full) \in 1 .. k - o
  <2>1. T \subseteq o .. k - 1 /\ full \subseteq 1 .. k - o
    BY <1>3, <1>4
  <2>2. ASSUME NEW j \in 1 .. k - o PROVE j \in full <=> o + j - 1 \in T
    <3>1. o + j - 1 \in o .. k - 1
      BY <1>2
    <3> QED BY Zenon, <1>3, <1>4, <3>1
  <2>3. o \in Nat /\ k \in Nat /\ o < k
    BY <1>2
  <2> QED BY ZenonT(30), <2>1, <2>2, <2>3, Shifted
<1>8. CASE T = {}
  <2>1. full = {}
    BY <1>7, <1>8
  <2> QED BY <1>1, <1>6, <1>8, <2>1 DEF PushTrimmed, full, B, C
<1>9. CASE T # {}
  <2>1. full # {} /\ Max(full) = Max(T) - o + 1 /\ Max(full) \in 1 .. k - o
    BY <1>7, <1>9
  <2>2. Finding(report, name, o) = [j \in 1 .. Max(full) |-> o + j - 1]
    BY <2>1 DEF Finding, T
  <2>3. \A j \in 1 .. Max(full) : j \in 1 .. k - o
    BY <1>2, <2>1
  <2>4. [j \in 1 .. Max(full) |-> acc.open[j]] = [j \in 1 .. Max(full) |-> o + j - 1]
    BY Zenon, <1>1, <2>3
  <2>5. Finding(report, name, o) \in Seq(Nat)
    <3>1. Max(full) \in Nat /\ o \in Nat \ {0}
      BY <1>2, <2>1
    <3> QED BY <2>2, <3>1, CountUp
  <2>6. PushTrimmed(report, acc.done, acc.open) = Append(acc.done, Finding(report, name, o))
    BY <2>1, <2>2, <2>4 DEF PushTrimmed, full
  <2>7. Listed(Append(acc.done, Finding(report, name, o)), report, name, B \cup {o})
    BY <1>1, <1>2, <1>5, <2>5, ListedMore DEF B
  <2> QED BY <1>6, <1>9, <2>6, <2>7 DEF C
<1> QED BY <1>8, <1>9

LEMMA FirstBullet ==
  ASSUME NEW report, NEW name, NEW F \in Nat, NEW k \in Nat, F < k, report[k].bullet,
         NEW done, Listed(done, report, name, Before(report, name, k))
  PROVE  ReadTo([done |-> done, open |-> <<k>>], report, name, F, k + 1)
<1> DEFINE acc == [done |-> done, open |-> <<k>>]
<1>1. k \in F + 1 .. (k + 1) - 1 /\ (k + 1) - k = 1
  OBVIOUS
<1>2. <<k>> \in Seq(Nat) /\ Len(<<k>>) = 1 /\ <<k>>[1] = k
  BY Singleton
<1>3. acc \in Gathered /\ acc.open = <<k>> /\ acc.done = done
  BY <1>2 DEF Gathered, Listed
<1> HIDE DEF acc
<1>4. OpenedAt(acc, report, name, k + 1, k)
  <2>1. \A j \in k + 1 .. (k + 1) - 1 : ~report[j].bullet
    <3>1. \A j \in k + 1 .. (k + 1) - 1 : FALSE
      OBVIOUS
    <3> QED BY Zenon, <3>1
  <2>2. \A j \in 1 .. (k + 1) - k : acc.open[j] = k + j - 1
    BY <1>1, <1>2, <1>3
  <2> QED BY Zenon, <1>1, <1>2, <1>3, <2>1, <2>2 DEF OpenedAt
<1>5. acc.open # <<>>
  BY <1>2, <1>3
<1>6. ReadTo(acc, report, name, F, k + 1)
  BY Zenon, <1>1, <1>3, <1>4, <1>5 DEF ReadTo
<1> QED BY <1>6 DEF acc

LEMMA NextLine ==
  ASSUME NEW report, NEW name, NEW F \in Nat, NEW k \in Nat, ~report[k].bullet,
         NEW acc \in Gathered, NEW o \in F + 1 .. k - 1, OpenedAt(acc, report, name, k, o)
  PROVE  ReadTo([acc EXCEPT !.open = Append(@, k)], report, name, F, k + 1)
<1> DEFINE next == [acc EXCEPT !.open = Append(@, k)]
           more == Append(acc.open, k)
<1>1. /\ o \in F + 1 .. (k + 1) - 1 /\ k - o \in Nat /\ k - o + 1 = (k + 1) - o
      /\ \A j \in o + 1 .. (k + 1) - 1 : j \in o + 1 .. k - 1 \/ j = k
  OBVIOUS
<1>2. /\ acc.open \in Seq(Nat) /\ Len(acc.open) = k - o
      /\ \A j \in 1 .. k - o : acc.open[j] = o + j - 1
  BY DEF OpenedAt, Gathered
<1>3. /\ more \in Seq(Nat) /\ Len(more) = k - o + 1 /\ more[k - o + 1] = k
      /\ \A j \in 1 .. k - o : more[j] = acc.open[j]
  <2>1. /\ more \in Seq(Nat) /\ Len(more) = Len(acc.open) + 1 /\ more[Len(acc.open) + 1] = k
        /\ \A j \in 1 .. Len(acc.open) : more[j] = acc.open[j]
    <3> DEFINE t == acc.open
    <3>1. t \in Seq(Nat) /\ k \in Nat
      BY <1>2
    <3> HIDE DEF t
    <3>2. /\ Append(t, k) \in Seq(Nat) /\ Len(Append(t, k)) = Len(t) + 1
          /\ Append(t, k)[Len(t) + 1] = k /\ \A j \in 1 .. Len(t) : Append(t, k)[j] = t[j]
      BY <3>1, AppendIs
    <3> QED BY Zenon, <3>2 DEF t
  <2> HIDE DEF more
  <2> QED BY <1>2, <2>1
<1>4. next \in Gathered /\ next.open = more /\ next.done = acc.done
  BY <1>3 DEF Gathered
<1> HIDE DEF next, more
<1>5. \A j \in 1 .. (k + 1) - o : more[j] = o + j - 1
  <2>1. ASSUME NEW j \in 1 .. (k + 1) - o
        PROVE  j \in 1 .. k - o \/ (j = k - o + 1 /\ k = o + j - 1)
    BY <1>1
  <2> QED BY <1>2, <1>3, <2>1
<1>6. more # <<>>
  BY <1>1, <1>3
<1>7. OpenedAt(next, report, name, k + 1, o)
  <2>1. \A j \in o + 1 .. (k + 1) - 1 : ~report[j].bullet
    BY Zenon, <1>1 DEF OpenedAt
  <2> QED BY Zenon, <1>1, <1>3, <1>4, <1>5, <2>1 DEF OpenedAt
<1>8. ReadTo(next, report, name, F, k + 1)
  BY Zenon, <1>1, <1>4, <1>6, <1>7 DEF ReadTo
<1> QED BY <1>8 DEF next

LEMMA TakeStep ==
  ASSUME NEW report, Len(report) \in Nat, NEW name, NEW F \in Nat, NEW n \in Nat,
         F + n <= Len(report), Inside(report, name) = F + 1 .. F + n,
         NEW k \in F + 1 .. F + n, NEW acc, ReadTo(acc, report, name, F, k)
  PROVE  ReadTo(Take(report, acc, k), report, name, F, k + 1)
<1>1. k \in Nat /\ F < k
  OBVIOUS
<1>2. CASE acc = NoFindings /\ \A j \in F + 1 .. k - 1 : ~report[j].bullet
  <2>1. acc.open = <<>> /\ acc.done = <<>>
    BY <1>2 DEF NoFindings
  <2>2. CASE report[k].bullet
    <3>1. Take(report, acc, k) = [done |-> <<>>, open |-> <<k>>]
      BY Zenon, <2>1, <2>2 DEF Take
    <3>2. Before(report, name, k) = {}
      <4>1. ASSUME NEW b \in Bullets(report, name), b < k PROVE FALSE
        <5>1. b \in F + 1 .. F + n /\ report[b].bullet
          BY <4>1 DEF Bullets
        <5>2. b \in F + 1 .. k - 1
          BY <1>1, <4>1, <5>1
        <5> QED BY <1>2, <5>1, <5>2
      <4> QED BY <4>1 DEF Before
    <3>3. Listed(<<>>, report, name, Before(report, name, k))
      <4>1. <<>> \in Seq(Seq(Nat)) /\ Len(<<>>) = 0
        OBVIOUS
      <4> QED BY Zenon, <3>2, <4>1, FS_EmptySet DEF Listed
    <3> QED BY <1>1, <2>2, <3>1, <3>3, FirstBullet
  <2>3. CASE ~report[k].bullet
    <3>1. Take(report, acc, k) = NoFindings
      BY Zenon, <1>2, <2>1, <2>3 DEF Take
    <3>2. \A j \in F + 1 .. (k + 1) - 1 : j \in F + 1 .. k - 1 \/ j = k
      BY <1>1
    <3> QED BY Zenon, <1>2, <2>3, <3>1, <3>2 DEF ReadTo
  <2> QED BY <2>2, <2>3
<1>3. ASSUME acc \in Gathered, acc.open # <<>>,
             NEW o \in F + 1 .. k - 1, OpenedAt(acc, report, name, k, o)
      PROVE  ReadTo(Take(report, acc, k), report, name, F, k + 1)
  <2>1. CASE report[k].bullet
    <3>1. Take(report, acc, k) = [done |-> PushTrimmed(report, acc.done, acc.open),
                                  open |-> <<k>>]
      BY Zenon, <1>3, <2>1 DEF Take
    <3>2. Listed(PushTrimmed(report, acc.done, acc.open), report, name, Before(report, name, k))
      <4>1. o \in F + 1 .. F + n /\ k \in o + 1 .. F + n + 1
        BY <1>1, <1>3
      <4> QED BY <1>3, <2>1, <4>1, Closed
    <3> QED BY <1>1, <2>1, <3>1, <3>2, FirstBullet
  <2>2. CASE ~report[k].bullet
    <3>1. Take(report, acc, k) = [acc EXCEPT !.open = Append(@, k)]
      BY Zenon, <1>3, <2>2 DEF Take
    <3>2. ReadTo([acc EXCEPT !.open = Append(@, k)], report, name, F, k + 1)
      BY Zenon, <1>1, <1>3, <2>2, NextLine
    <3> QED BY Zenon, <3>1, <3>2
  <2> QED BY <2>1, <2>2
<1> QED BY Zenon, <1>2, <1>3 DEF ReadTo

LEMMA GatheredAll ==
  ASSUME NEW report, Len(report) \in Nat, NEW name, NEW F \in Nat, NEW n \in Nat,
         F + n <= Len(report), Inside(report, name) = F + 1 .. F + n
  PROVE  ReadTo(Gather(report, [k \in 1 .. n |-> F + k]), report, name, F, F + n + 1)
<1> DEFINE s == [k \in 1 .. n |-> F + k]
<1>1. Len(s) = n /\ \A k \in 1 .. n : s[k] = F + k
  <2>1. s \in [1 .. n -> Nat]
    OBVIOUS
  <2> HIDE DEF s
  <2>2. s \in Seq(Nat)
    BY <2>1, IsASeq
  <2>3. DOMAIN s = 1 .. Len(s) /\ Len(s) \in Nat
    BY <2>2, LenProperties
  <2>4. Len(s) = n
    BY <2>1, <2>3
  <2> QED BY <2>4 DEF s
<1> HIDE DEF s
<1> DEFINE f == Taken(report, s, n)
<1>2. Gather(report, s) = f[n] /\ Takes(f, report, s, n)
  BY Zenon, <1>1, GatherIs
<1> HIDE DEF f
<1>3. f[0] = NoFindings /\ \A k \in 1 .. n : f[k] = Take(report, f[k - 1], s[k])
  BY <1>2 DEF Takes
<1> DEFINE Good(i) == ReadTo(f[i], report, name, F, F + i + 1)
           T == {i \in 0 .. n : ~Good(i)}
<1>4. ASSUME T # {} PROVE FALSE
  <2>1. PICK i \in T : \A j \in T : i <= j
    <3>1. T \subseteq Nat
      OBVIOUS
    <3> HIDE DEF T
    <3> QED BY <1>4, <3>1, Least
  <2>2. i \in 0 .. n /\ ~Good(i)
    BY <2>1
  <2>3. CASE i = 0
    <3>1. \A j \in F + 1 .. (F + 0 + 1) - 1 : FALSE
      OBVIOUS
    <3>2. Good(0)
      BY Zenon, <1>3, <3>1 DEF ReadTo
    <3> QED BY <2>2, <2>3, <3>2
  <2>4. CASE i # 0
    <3> DEFINE h == i - 1
               k == F + i
    <3>1. /\ h \in 0 .. n /\ ~(i <= h) /\ h = i - 1 /\ i \in 1 .. n
          /\ k = F + h + 1 /\ k \in F + 1 .. F + n /\ k + 1 = F + i + 1 /\ s[i] = k
      BY <1>1, <2>2, <2>4
    <3> HIDE DEF h, k
    <3>2. Good(h)
      <4> HIDE DEF Good
      <4> QED BY <2>1, <3>1 DEF T
    <3>3. ReadTo(Take(report, f[h], k), report, name, F, k + 1)
      BY <3>1, <3>2, TakeStep
    <3>4. f[i] = Take(report, f[h], k)
      BY <1>3, <3>1
    <3> QED BY <2>2, <3>1, <3>3, <3>4
  <2> QED BY <2>3, <2>4
<1>5. Good(n)
  <2> HIDE DEF Good
  <2> QED BY <1>4 DEF T
<1> QED BY <1>2, <1>5 DEF s

\* What parse_findings_section returns for any report are the findings of the
\* bullets of the section.
LEMMA FindingsRight ==
  ASSUME NEW report, report \in Seq(ReportLines), NEW name \in Headings
  PROVE  FindingsAreBullets(report, name, ParseFindings(report, name))
<1> DEFINE s == Section(report, name)
           all == Gather(report, s)
           bullets == Bullets(report, name)
<1>1. Len(report) \in Nat /\ DOMAIN report = 1 .. Len(report)
  BY LenProperties
<1>2. PICK F \in Nat, n \in Nat : /\ F + n <= Len(report) /\ s = [k \in 1 .. n |-> F + k]
                                  /\ Inside(report, name) = F + 1 .. F + n
  BY <1>1, SectionIs
<1>3. bullets \subseteq F + 1 .. F + n
  BY <1>2 DEF Bullets
<1>4. ASSUME NEW found, Listed(found, report, name, bullets)
      PROVE  FindingsAreBullets(report, name, found)
  BY Zenon, <1>4 DEF FindingsAreBullets, Listed, Rank, Finding
<1>5. ASSUME bullets = {} PROVE Listed(<<>>, report, name, bullets)
  <2>1. <<>> \in Seq(Seq(Nat)) /\ Len(<<>>) = 0
    OBVIOUS
  <2> QED BY Zenon, <1>5, <2>1, FS_EmptySet DEF Listed
<1>6. ReadTo(all, report, name, F, F + n + 1)
  BY Zenon, <1>1, <1>2, GatheredAll
<1> HIDE DEF all, bullets
<1>7. CASE None(report, s)
  <2>1. PICK k \in 1 .. n :
           /\ report[s[k]] = [bullet |-> FALSE, says |-> "None."]
           /\ \A j \in 1 .. n \ {k} : Blank(report[s[j]])
    <3>1. DOMAIN s = 1 .. n
      BY <1>2
    <3> QED BY <1>7, <3>1 DEF None
  <2>2. \A j \in 1 .. n : ~report[s[j]].bullet
    <3>1. report[s[k]].bullet = FALSE
      BY <2>1
    <3> QED BY Zenon, <2>1, <3>1 DEF Blank
  <2>3. ASSUME NEW b \in bullets PROVE FALSE
    <3>1. b \in F + 1 .. F + n /\ report[b].bullet
      BY <1>3 DEF bullets, Bullets
    <3>2. b - F \in 1 .. n /\ F + (b - F) = b
      BY <3>1
    <3>3. s[b - F] = b
      BY <1>2, <3>2
    <3> QED BY <2>2, <3>1, <3>2, <3>3
  <2>4. ParseFindings(report, name) = <<>>
    BY <1>7 DEF ParseFindings
  <2> QED BY <1>4, <1>5, <2>3, <2>4
<1>8. CASE /\ ~None(report, s) /\ all = NoFindings
           /\ \A j \in F + 1 .. (F + n + 1) - 1 : ~report[j].bullet
  <2>1. all.open = <<>> /\ all.done = <<>>
    BY <1>8 DEF NoFindings
  <2>2. bullets = {}
    BY <1>3, <1>8 DEF bullets, Bullets
  <2>3. ParseFindings(report, name) = <<>>
    BY Zenon, <1>8, <2>1 DEF ParseFindings, all
  <2> QED BY <1>4, <1>5, <2>2, <2>3
<1>9. ASSUME ~None(report, s), all \in Gathered, all.open # <<>>,
             NEW o \in F + 1 .. (F + n + 1) - 1, OpenedAt(all, report, name, F + n + 1, o)
      PROVE  FindingsAreBullets(report, name, ParseFindings(report, name))
  <2>1. ParseFindings(report, name) = PushTrimmed(report, all.done, all.open)
    BY Zenon, <1>9 DEF ParseFindings, all
  <2>2. Before(report, name, F + n + 1) = bullets
    BY <1>3 DEF Before, bullets
  <2>3. o \in F + 1 .. F + n /\ F + n + 1 \in o + 1 .. F + n + 1
    BY <1>9
  <2>4. Listed(PushTrimmed(report, all.done, all.open), report, name,
               Before(report, name, F + n + 1))
    BY <1>1, <1>2, <1>9, <2>3, Closed
  <2> QED BY <1>4, <2>1, <2>2, <2>4
<1> QED BY Zenon, <1>6, <1>7, <1>8, <1>9 DEF ReadTo

LEMMA VerdictFirst ==
  ASSUME NEW report, report \in Seq(ReportLines), NEW k \in DOMAIN report,
         report[k].says \in Verdicts, report[k].says # ParseVerdict(report)
  PROVE  \E j \in 1 .. k - 1 : report[j].says = ParseVerdict(report)
<1> DEFINE said == {j \in DOMAIN report : report[j].says \in Verdicts}
<1>1. DOMAIN report = 1 .. Len(report) /\ Len(report) \in Nat
  BY LenProperties
<1>2. said \subseteq Nat /\ k \in said
  BY <1>1
<1>3. ParseVerdict(report) = report[Min(said)].says
  BY <1>2 DEF ParseVerdict
<1> HIDE DEF said
<1>4. Min(said) \in said /\ \A j \in said : Min(said) <= j
  BY <1>2, MinIs
<1>5. Min(said) \in 1 .. Len(report) /\ k \in 1 .. Len(report) /\ Min(said) <= k
  BY <1>1, <1>2, <1>4 DEF said
<1>6. Min(said) # k
  BY <1>3
<1>7. Min(said) \in 1 .. k - 1
  <2> DEFINE m == Min(said)
  <2>1. m \in 1 .. Len(report) /\ k \in 1 .. Len(report) /\ m <= k /\ m # k
    BY <1>5, <1>6
  <2> HIDE DEF m
  <2>2. m \in 1 .. k - 1
    BY <1>1, <2>1
  <2> QED BY <2>2 DEF m
<1> QED BY <1>3, <1>7

----------------------------------------------------------------------------
(* An answer with a result is made from what the run recorded.             *)

RecordInv ==
    \A n \in Calls :
        /\ run[n].at \in {"written", "returned"} => run[n].records = scene.records
        /\ code[n].says = "result" => run[n].at = "returned"

LEMMA InitRecords == Init => RecordInv
BY DEF Init, RecordInv, NoRun, NoCode

LEMMA DispatchRecords ==
  ASSUME TypeInv, WaitInv, RecordInv, NEW n \in Calls, Dispatch(n)
  PROVE  RecordInv'
<1>0. /\ run \in [Calls -> RunStates] /\ code \in [Calls -> Codes]
      /\ scene' = scene /\ \A m \in Calls : m # n => code'[m] = code[m] /\ run'[m] = run[m]
  BY DispatchSteps DEF TypeInv, TypeOK
<1>1. ASSUME run'[n] = run[n],
             code'[n] = code[n] \/ code'[n].says # "result" \/ run[n].at = "returned"
      PROVE  RecordInv'
  BY <1>0, <1>1 DEF RecordInv
<1>2. ASSUME NEW says, Answer(n, says), run' = run, says # "result" \/ run[n].at = "returned"
      PROVE  RecordInv'
  <2>1. code'[n].says = says
    BY <1>0, <1>2 DEF Answer
  <2> QED BY <1>1, <1>2, <2>1
<1>3. CASE ParseError(n)
  <2>1. code'[n].says = "parse_error" /\ run' = run
    BY <1>0, <1>3 DEF ParseError
  <2> QED BY <1>1, <2>1
<1>4. CASE Notified(n) \/ WriteFrame(n)
  BY <1>1, <1>4 DEF Notified, WriteFrame
<1>5. CASE Instant(n)
  BY <1>2, <1>5 DEF Instant, Verdict
<1>6. CASE PreflightFails(n) \/ SetupFails(n)
  BY <1>2, <1>6 DEF PreflightFails, SetupFails
<1>7. CASE Launch(n)
  <2>1. pc[n] = "ready" /\ code' = code
    BY <1>7 DEF Launch, Called, Request, Ready
  <2>2. code'[n].says # "result"
    BY <2>1 DEF WaitInv, RecordInv
  <2>3. run'[n].at = "busy"
    BY <1>0, <1>7 DEF Launch, NoRun
  <2> QED BY <1>0, <2>2, <2>3 DEF RecordInv
<1>8. CASE Joined(n)
  BY <1>2, <1>8 DEF Joined, Outcome
<1>9. CASE Snapshot(n)
  BY <1>1, <1>2, <1>9 DEF Snapshot
<1>10. CASE Inject(n) \/ Refused(n)
  BY <1>2, <1>10 DEF Inject, Refused
<1>11. CASE ShowOutput(n)
  BY <1>2, <1>11 DEF ShowOutput, Status
<1> QED BY <1>3, <1>4, <1>5, <1>6, <1>7, <1>8, <1>9, <1>10, <1>11 DEF Dispatch

LEMMA RunRecords ==
  ASSUME TypeInv, RecordInv, NEW n \in Calls, RunStep(n)
  PROVE  RecordInv'
<1>0. /\ run \in [Calls -> RunStates] /\ run[n] \in RunStates
      /\ Active(n) /\ scene' = scene /\ code' = code
      /\ \A m \in Calls : m # n => run'[m] = run[m]
  BY RunSteps, RunFields DEF TypeInv, TypeOK
<1>1. code[n].says # "result"
  BY <1>0 DEF RecordInv, Active
<1>2. run'[n].at \in {"written", "returned"} => run'[n].records = scene.records
  <2>1. ASSUME NEW to \in {"busy", "talk", "deaf", "gone", "wreck", "failed"}, NEW from,
               Moves(n, from, to)
        PROVE  run'[n].at \notin {"written", "returned"}
    BY <1>0, <2>1 DEF Moves, RunStates
  <2>2. CASE SeatFails(n) \/ Seated(n) \/ LoopStops(n) \/ Hangup(n) \/ ClearRouter(n) \/ Fails(n)
    BY <2>1, <2>2 DEF SeatFails, Seated, LoopStops, Hangup, ClearRouter, Fails
  <2>3. CASE OpenTalk(n)
    BY <1>0, <2>3 DEF OpenTalk, RunStates
  <2>4. CASE Hear(n)
    BY <2>4 DEF Hear, RecordInv
  <2>5. CASE WriteManifest(n)
    BY <1>0, <2>5 DEF WriteManifest, RunStates
  <2>6. CASE Returns(n)
    BY <1>0, <2>6 DEF Returns, Moves, RunStates, RecordInv
  <2> QED BY <2>2, <2>3, <2>4, <2>5, <2>6 DEF RunStep
<1> QED BY <1>0, <1>1, <1>2 DEF RecordInv

LEMMA StepRecords == TypeInv /\ WaitInv /\ RecordInv /\ [Next]_vars => RecordInv'
<1> SUFFICES ASSUME TypeInv, WaitInv, RecordInv, [Next]_vars PROVE RecordInv'
  OBVIOUS
<1>1. CASE UNCHANGED <<scene, code, run>>
  BY <1>1 DEF RecordInv
<1>2. CASE ReadFrame \/ Eof \/ ReadFails \/ Drained \/ UNCHANGED vars
  BY <1>1, <1>2 DEF ReadFrame, Eof, ReadFails, Drained, vars
<1> QED BY <1>2, DispatchRecords, RunRecords DEF Next

\* Whatever the steps of a run report, a workflow tool answers with the findings
\* the record of its step gives, bullet by bullet (of a section with prose
\* between its bullets nothing is said), and with the first verdict it gives (src/src/mcp/workflow.rs: output_for, parse_findings_section,
\* parse_verdict, parse_review_verdict).
THEOREM ReportsRead == Spec => []ReportIsRead
<1>1. ASSUME TypeInv, RecordInv PROVE ReportIsRead
  <2> SUFFICES ASSUME NEW n \in Read, code[n].says = "result"
               PROVE  LET report == OutputFor(scene.records)
                      IN /\ \A name \in Headings :
                               Noisy(report, name)
                                   \/ FindingsAreBullets(report, name, Result(n).findings[name])
                         /\ \A k \in DOMAIN report :
                               report[k].says \in Verdicts /\ report[k].says # Result(n).verdict =>
                                   \E j \in 1 .. k - 1 : report[j].says = Result(n).verdict
    BY DEF ReportIsRead
  <2> DEFINE report == OutputFor(scene.records)
  <2>1. n \in Calls
    BY <1>1, ConstantTypes DEF TypeInv, TypeOK, Read, Calls
  <2>2. run[n].records = scene.records
    BY <1>1, <2>1 DEF RecordInv
  <2>3. report \in Seq(ReportLines)
    <3>1. scene.records \in Seq(Seq(ReportLines))
      BY <1>1, RecordsAssumption DEF TypeInv, TypeOK, ReportLines
    <3>2. CASE scene.records = <<>>
      BY <3>2 DEF OutputFor
    <3>3. CASE scene.records # <<>>
      <4>1. 1 \in DOMAIN scene.records
        BY <3>1, <3>3, LenProperties, EmptySeq
      <4> QED BY <3>1, <3>3, <4>1, LenProperties DEF OutputFor
    <3> QED BY <3>2, <3>3
  <2> HIDE DEF report
  <2>4. /\ Result(n).verdict = ParseVerdict(report)
        /\ \A name \in Headings : Result(n).findings[name] = ParseFindings(report, name)
    BY <2>2 DEF Result, BuildResult, report
  <2>5. \A name \in Headings : FindingsAreBullets(report, name, Result(n).findings[name])
    BY Zenon, <2>3, <2>4, FindingsRight
  <2>6. \A k \in DOMAIN report :
           report[k].says \in Verdicts /\ report[k].says # Result(n).verdict =>
               \E j \in 1 .. k - 1 : report[j].says = Result(n).verdict
    BY Zenon, <2>3, <2>4, VerdictFirst
  <2> QED BY Zenon, <2>5, <2>6 DEF report
<1> QED BY <1>1, InitTypes, InitWait, InitRecords, StepTypes, StepWait, StepRecords, PTL DEF Spec
============================================================================
