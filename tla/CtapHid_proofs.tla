--------------------------- MODULE CtapHid_proofs ---------------------------
(***************************************************************************)
(* Theorems of CtapHid, for any number of handles, requests and reports,   *)
(* any queue capacity and any faults: types, that two Transports never     *)
(* share a channel, which requests an answer can be of, and that a request *)
(* is carried out once at most.                                            *)
(***************************************************************************)
EXTENDS CtapHidInv, SequenceTheorems, TLAPS

(* Types. *)

\* TypeOK is not inductive alone: what is copied from req and dev into a report
\* has to be a command and an origin.
HostInv ==
  /\ HostOK
  /\ \A h \in Handles : pc[h] \in {"writing", "reading"} => req[h].cmd \in Commands

DeviceInv ==
  /\ DeviceOK
  /\ dev.mode # "idle" => dev.cmd \in Commands /\ dev.from \in Origin

TypeInv == WireOK /\ HostInv /\ DeviceInv

LEMMA ReportIsFrame ==
  ASSUME NEW c \in Nat, NEW command \in AllCommands, NEW o \in Origin,
         NEW n \in Nat, NEW s \in Status
  PROVE  Report(c, command, o, n, s) \in Frame
BY DEF Report, Frame

LEMMA FrameFields ==
  ASSUME NEW f \in Frame
  PROVE  /\ f.cid \in Nat /\ f.cmd \in AllCommands /\ f.from \in Origin
         /\ f.arg \in Nat /\ f.st \in Status
BY DEF Frame

LEMMA UpdateType ==
  ASSUME NEW S, NEW T, NEW f \in [S -> T], NEW x \in S, NEW y \in T
  PROVE  [f EXCEPT ![x] = y] \in [S -> T]
OBVIOUS

LEMMA DeliverType ==
  ASSUME WireOK, NEW f \in Frame, Deliver(f)
  PROVE  rx' \in [Handles -> Seq(Frame)]
<1>1. ASSUME NEW h \in Handles
      PROVE  rx[h] \in Seq(Frame) /\ Append(rx[h], f) \in Seq(Frame)
  BY <1>1, AppendProperties DEF WireOK
<1>2. QED
  BY <1>1 DEF Deliver

LEMMA TakeType ==
  ASSUME WireOK, NEW h \in Handles, rx[h] # << >>
  PROVE  /\ Head(rx[h]) \in Frame
         /\ Take(h) => rx' \in [Handles -> Seq(Frame)]
<1>1. rx[h] \in Seq(Frame) /\ rx \in [Handles -> Seq(Frame)]
  BY DEF WireOK
<1>2. Head(rx[h]) \in Frame /\ Tail(rx[h]) \in Seq(Frame)
  BY <1>1, HeadTailProperties
<1>3. QED
  BY <1>1, <1>2, UpdateType DEF Take

LEMMA PutType ==
  ASSUME NEW f \in Frame, Put(f)
  PROVE  out' \in Seq(Frame) /\ Len(out') \leq 1
BY DEF Put

LEMMA PartType ==
  ASSUME TypeInv, NEW h \in Handles, pc[h] = "writing"
  PROVE  Part(h) \in Frame
<1>1. /\ cid[h] \in Nat /\ req[h].cmd \in Commands /\ Request(h) \in Origin
      /\ req[h].n \in Nat /\ req[h].next \in Nat
  BY DEF TypeInv, HostInv, HostOK, Request, Origin
<1>2. req[h].cmd \in AllCommands /\ "CONT" \in AllCommands /\ "none" \in Status
  BY <1>1 DEF AllCommands, Status
<1>3. CASE req[h].next = 0
  BY <1>1, <1>2, <1>3, ReportIsFrame DEF Part
<1>4. CASE req[h].next # 0
  <2>1. req[h].next - 1 \in Nat
    BY <1>1, <1>4
  <2>2. QED
    BY <1>1, <1>2, <1>4, <2>1, ReportIsFrame DEF Part
<1>5. QED
  BY <1>3, <1>4

LEMMA HostWire ==
  ASSUME TypeInv, NEW h \in Handles, Proceed(h) \/ Invoke(h)
  PROVE  WireOK'
<1>. WireOK /\ HostInv
  BY DEF TypeInv
<1>. Nonce(h) \in Origin /\ Request(h) \in Origin /\ cid[h] \in Nat
  BY DEF HostInv, HostOK, Nonce, Request, Origin
<1>. /\ "INIT" \in AllCommands /\ "CANCEL" \in AllCommands
     /\ "none" \in Status /\ Broadcast \in Nat
  BY DEF AllCommands, Status, Broadcast
<1>1. ASSUME UNCHANGED wire
      PROVE  WireOK'
  BY <1>1 DEF wire, WireOK
<1>2. ASSUME NEW f \in Frame, Put(f), UNCHANGED <<fds, rx>>
      PROVE  WireOK'
  BY <1>2, PutType DEF WireOK
<1>3. ASSUME rx[h] # << >>, Take(h), UNCHANGED <<fds, out>>
      PROVE  WireOK'
  BY <1>3, TakeType DEF WireOK
<1>4. ASSUME Release(h), UNCHANGED out
      PROVE  WireOK'
  <2>1. << >> \in Seq(Frame) /\ rx \in [Handles -> Seq(Frame)]
    BY DEF WireOK
  <2>2. rx' \in [Handles -> Seq(Frame)]
    BY <1>4, <2>1, UpdateType DEF Release
  <2>3. QED
    BY <1>4, <2>2 DEF Release, WireOK
<1>5. CASE OpenPath(h)
  BY <1>5 DEF OpenPath, WireOK
<1>6. CASE WriteInit(h)
  BY <1>2, <1>6, ReportIsFrame DEF WriteInit, Broadcast
<1>7. CASE Cancel(h)
  BY <1>2, <1>7, ReportIsFrame DEF Cancel
<1>8. CASE WriteFrame(h)
  BY <1>2, <1>8, PartType DEF WriteFrame
<1>9. CASE RejectInit(h) \/ OpenTimesOut(h) \/ Close(h)
  BY <1>4, <1>9 DEF RejectInit, OpenTimesOut, OpenFails, Close
<1>10. CASE RejectCall(h) \/ \E command \in Commands, n \in 0..MaxReqCont : Call(h, command, n)
  BY <1>1, <1>10 DEF RejectCall, Call
<1>11. CASE SkipBeforeInit(h) \/ AcceptInit(h) \/ SkipStray(h) \/ SkipKeepalive(h)
  BY <1>3, <1>11 DEF SkipBeforeInit, AcceptInit, SkipStray, SkipKeepalive, First, Mine, Reading
<1>12. CASE ErrorFrame(h) \/ UnexpectedCommand(h) \/ BadContinuation(h)
  BY <1>3, <1>12
     DEF ErrorFrame, UnexpectedCommand, BadContinuation, Return, First, Later, Mine, Reading
<1>13. CASE FirstFrame(h) \/ ContinuationFrame(h)
  BY <1>3, <1>13
     DEF FirstFrame, ContinuationFrame, Collect, Return, First, Later, Mine, Reading
<1>14. CASE CallFails(h)
  BY <1>1, <1>14 DEF CallFails, Return, wire
<1>15. QED
  BY <1>5, <1>6, <1>7, <1>8, <1>9, <1>10, <1>11, <1>12, <1>13, <1>14 DEF Proceed, Invoke

LEMMA ReturnType ==
  ASSUME HostInv, NEW h \in Handles, NEW result \in Results,
         NEW frames \in Seq(Frame), Return(h, result, frames),
         body' = [body EXCEPT ![h] = << >>]
  PROVE  HostInv'
<1>1. body' \in [Handles -> Seq(Frame)]
  BY DEF HostInv, HostOK
<1>2. outcome' \in [Handles -> [res : Results, frames : Seq(Frame)]]
  BY DEF HostInv, HostOK, Return
<1>3. clean' \in [Handles -> BOOLEAN]
  BY DEF HostInv, HostOK, Return
<1>4. QED
  BY <1>1, <1>2, <1>3 DEF HostInv, HostOK, Return, Goto

LEMMA HostHost ==
  ASSUME TypeInv, NEW h \in Handles, Proceed(h) \/ Invoke(h)
  PROVE  HostInv'
<1>. WireOK /\ HostInv
  BY DEF TypeInv
<1>. << >> \in Seq(Frame)
  OBVIOUS
<1>1. ASSUME UNCHANGED host
      PROVE  HostInv'
  BY <1>1 DEF host, HostInv, HostOK
<1>2. CASE OpenPath(h)
  BY <1>2 DEF OpenPath, Goto, Nothing, Results, HostInv, HostOK
<1>3. CASE WriteInit(h)
  BY <1>3 DEF WriteInit, Goto, HostInv, HostOK
<1>4. CASE SkipBeforeInit(h) \/ SkipStray(h) \/ SkipKeepalive(h) \/ Cancel(h)
  BY <1>1, <1>4 DEF SkipBeforeInit, SkipStray, SkipKeepalive, Cancel
<1>5. CASE AcceptInit(h)
  <2>1. Head(rx[h]).arg \in Nat
    BY <1>5, TakeType, FrameFields DEF AcceptInit
  <2>2. QED
    BY <1>5, <2>1 DEF AcceptInit, Goto, HostInv, HostOK
<1>6. ASSUME NEW e \in Results, NEW why \in Seq(Frame), OpenFails(h, e, why)
      PROVE  HostInv'
  BY <1>6 DEF OpenFails, Release, Goto, HostInv, HostOK
<1>7. CASE RejectInit(h)
  <2>1. <<Head(rx[h])>> \in Seq(Frame)
    BY <1>7, TakeType DEF RejectInit
  <2>2. QED
    BY <1>6, <1>7, <2>1 DEF RejectInit, Results
<1>8. CASE OpenTimesOut(h)
  BY <1>6, <1>8 DEF OpenTimesOut, Results
<1>9. CASE Close(h)
  BY <1>9 DEF Close, Release, Goto, HostInv, HostOK
<1>10. CASE RejectCall(h)
  BY <1>10 DEF RejectCall, Results, HostInv, HostOK
<1>11. ASSUME NEW command \in Commands, NEW n \in 0..MaxReqCont, Call(h, command, n)
       PROVE  HostInv'
  <2>1. n \in Nat
    BY TransportAssumption
  <2>2. req' \in [Handles -> [cmd : Commands \cup {"none"}, n : Nat, next : Nat]]
    BY <1>11, <2>1 DEF Call, HostInv, HostOK
  <2>3. outcome' \in [Handles -> [res : Results, frames : Seq(Frame)]]
    BY <1>11 DEF Call, Nothing, Results, HostInv, HostOK
  <2>4. QED
    BY <1>11, <2>2, <2>3 DEF Call, Goto, HostInv, HostOK
<1>12. CASE WriteFrame(h)
  <2>1. /\ req' \in [Handles -> [cmd : Commands \cup {"none"}, n : Nat, next : Nat]]
        /\ \A g \in Handles : req'[g].cmd = req[g].cmd
    <3>0. req[h] \in [cmd : Commands \cup {"none"}, n : Nat, next : Nat]
      BY DEF HostInv, HostOK
    <3>1. [req[h] EXCEPT !.next = @ + 1] \in [cmd : Commands \cup {"none"}, n : Nat, next : Nat]
      BY <3>0
    <3>2. req' = [req EXCEPT ![h] = [req[h] EXCEPT !.next = @ + 1]]
      BY <1>12 DEF WriteFrame
    <3>3. req \in [Handles -> [cmd : Commands \cup {"none"}, n : Nat, next : Nat]]
      BY DEF HostInv, HostOK
    <3>4. QED
      BY <3>1, <3>2, <3>3
  <2>2. QED
    BY <1>12, <2>1 DEF WriteFrame, Goto, HostInv, HostOK
<1>13. ASSUME Reading(h)
       PROVE  Head(rx[h]) \in Frame
  BY <1>13, TakeType DEF Reading
<1>14. CASE ErrorFrame(h)
  <2>1. <<Head(rx[h])>> \in Seq(Frame)
    BY <1>13, <1>14 DEF ErrorFrame, First, Mine
  <2>2. QED
    BY <1>14, <2>1, ReturnType DEF ErrorFrame, Results
<1>15. CASE UnexpectedCommand(h) \/ BadContinuation(h)
  BY <1>15, ReturnType DEF UnexpectedCommand, BadContinuation, Results
<1>16. ASSUME Reading(h), Collect(h)
       PROVE  HostInv'
  <2> DEFINE reply == Append(body[h], Head(rx[h]))
  <2>1. reply \in Seq(Frame)
    BY <1>13, <1>16, AppendProperties DEF HostInv, HostOK
  <2>2. CASE Len(reply) = reply[1].arg + 1
    <3>1. ResultOf(req[h].cmd, reply[1].st) \in Results
      BY DEF ResultOf, Results
    <3>2. QED
      BY <1>16, <2>1, <2>2, <3>1, ReturnType DEF Collect, Full
  <2>3. CASE Len(reply) # reply[1].arg + 1
    <3>1. /\ body' = [body EXCEPT ![h] = reply]
          /\ UNCHANGED <<pc, cid, opens, txn, req, outcome, clean>>
      BY <1>16, <2>3 DEF Collect, Full
    <3>2. body' \in [Handles -> Seq(Frame)]
      BY <2>1, <3>1, UpdateType DEF HostInv, HostOK
    <3>3. QED
      BY <3>1, <3>2 DEF HostInv, HostOK
  <2>4. QED
    BY <2>2, <2>3
<1>17. CASE FirstFrame(h) \/ ContinuationFrame(h)
  BY <1>16, <1>17 DEF FirstFrame, ContinuationFrame, First, Later, Mine
<1>18. CASE CallFails(h)
  BY <1>18, ReturnType DEF CallFails, Results
<1>19. QED
  BY <1>2, <1>3, <1>4, <1>5, <1>7, <1>8, <1>9, <1>10, <1>11, <1>12, <1>14, <1>15,
     <1>17, <1>18 DEF Proceed, Invoke

LEMMA DeviceStepType ==
  ASSUME TypeInv, DeviceNext
  PROVE  WireOK' /\ DeviceInv'
<1>. WireOK /\ DeviceInv
  BY DEF TypeInv
<1>. /\ {"KEEPALIVE", "ERROR", "INIT", "CONT"} \cup Commands \subseteq AllCommands
     /\ {"none", "failure", "success", "missing"} = Status /\ Broadcast \in Nat /\ 0 \in Nat
  BY DEF AllCommands, Status, Broadcast
<1>. /\ DeviceOK /\ chan \in Seq(Origin) /\ performed \subseteq Origin
     /\ dev.cid \in Nat /\ dev.n \in Nat /\ dev.next \in Nat /\ dev.ka \in Nat
     /\ dev.st \in Status
  BY DEF DeviceInv, DeviceOK
<1>. << >> \in Seq(Frame) /\ Len(<< >>) = 0
  BY EmptySeq
<1>1. ASSUME dev' = Idle, UNCHANGED <<chan, performed>>
      PROVE  DeviceInv'
  BY <1>1 DEF Idle, Modes, Status, NoOrigin, Broadcast, DeviceInv, DeviceOK
<1>2. ASSUME NEW f \in Frame, Deliver(f), UNCHANGED fds,
             out' = out \/ out' = << >>
      PROVE  WireOK'
  <2>1. rx' \in [Handles -> Seq(Frame)]
    BY <1>2, DeliverType
  <2>2. CASE out' = out
    BY <1>2, <2>1, <2>2 DEF WireOK
  <2>3. CASE out' = << >>
    BY <1>2, <2>1, <2>3 DEF WireOK
  <2>4. QED
    BY <1>2, <2>2, <2>3
<1>3. ASSUME UNCHANGED <<fds, rx>>, out' = out \/ out' = << >>
      PROVE  WireOK'
  <2>1. CASE out' = out
    BY <1>3, <2>1 DEF WireOK
  <2>2. CASE out' = << >>
    BY <1>3, <2>2 DEF WireOK
  <2>3. QED
    BY <1>3, <2>1, <2>2
<1>4. ASSUME UNCHANGED device
      PROVE  DeviceInv'
  BY <1>4 DEF device, DeviceInv, DeviceOK
<1>5. ASSUME NEW n \in Nat, NEW s \in Status, dev.mode = "busy", dev' = Replying(n, s),
             UNCHANGED chan, performed' \subseteq Origin
      PROVE  DeviceInv'
  BY <1>5 DEF Replying, Modes, DeviceInv, DeviceOK
<1>6. CASE TakeReport
  <2> DEFINE f == out[1]
  <2>1. f \in Frame
    BY <1>6 DEF TakeReport, WireOK
  <2>2. f.cid \in Nat /\ f.cmd \in AllCommands /\ f.from \in Origin /\ f.arg \in Nat
    BY <2>1, FrameFields
  <2>3. CASE AllocateChannel(f)
    <3>1. chan' \in Seq(Origin) /\ Len(chan) + 1 \in Nat
      BY <2>2, <2>3, AppendProperties, LenProperties DEF AllocateChannel
    <3>2. WireOK'
      BY <1>2, <2>2, <2>3, <3>1, ReportIsFrame DEF AllocateChannel, Taking
    <3>3. QED
      BY <2>3, <3>1, <3>2 DEF AllocateChannel, DeviceInv, DeviceOK
  <2>4. CASE RefuseInit(f)
    BY <1>2, <1>4, <2>2, <2>4, ReportIsFrame DEF RefuseInit, Taking
  <2>5. CASE BeginRequest(f)
    <3>1. DeviceInv'
      BY <2>2, <2>5 DEF BeginRequest, Transaction, Modes, Status, DeviceInv, DeviceOK
    <3>2. QED
      BY <1>3, <2>5, <3>1 DEF BeginRequest, Taking
  <2>6. CASE ContinueRequest(f)
    <3>1. DeviceInv'
      BY <2>6 DEF ContinueRequest, InSequenceOf, Modes, DeviceInv, DeviceOK
    <3>2. QED
      BY <1>3, <2>6, <3>1 DEF ContinueRequest, Taking
  <2>7. CASE RefuseRequest(f)
    <3>1. WireOK'
      BY <1>2, <2>2, <2>7, ReportIsFrame DEF RefuseRequest, Taking
    <3>2. CASE dev' = Idle
      BY <1>1, <2>7, <3>1, <3>2 DEF RefuseRequest
    <3>3. CASE dev' = dev
      BY <1>4, <2>7, <3>1, <3>3 DEF RefuseRequest, device
    <3>4. QED
      BY <2>7, <3>2, <3>3 DEF RefuseRequest
  <2>8. CASE CancelRequest(f)
    BY <1>3, <1>5, <2>8 DEF CancelRequest, InFlightOn, Taking
  <2>9. CASE IgnoreReport(f)
    BY <1>3, <1>4, <2>9 DEF IgnoreReport, Taking
  <2>10. QED
    BY <1>6, <2>3, <2>4, <2>5, <2>6, <2>7, <2>8, <2>9 DEF TakeReport
<1>7. ASSUME dev.mode # "idle"
      PROVE  dev.cmd \in Commands /\ dev.from \in Origin /\ Abort \in Frame
  BY <1>7, ReportIsFrame DEF Abort, DeviceInv
<1>8. CASE Keepalive
  <2>1. Report(dev.cid, "KEEPALIVE", dev.from, 0, "none") \in Frame
    BY <1>7, <1>8, ReportIsFrame DEF Keepalive
  <2>2. DeviceInv'
    BY <1>8 DEF Keepalive, Modes, DeviceInv, DeviceOK
  <2>3. QED
    BY <1>2, <1>8, <2>1, <2>2 DEF Keepalive
<1>9. CASE ReceiveTimesOut \/ AbortRequest
  BY <1>1, <1>2, <1>7, <1>9 DEF ReceiveTimesOut, AbortRequest
<1>10. ASSUME NEW n \in 0..MaxCont, NEW s \in {"none", "success"}, Perform(n, s)
       PROVE  WireOK' /\ DeviceInv'
  <2>1. n \in Nat /\ s \in Status
    BY FrameAssumption
  <2>2. performed' \subseteq Origin
    BY <1>7, <1>10 DEF Perform
  <2>3. QED
    BY <1>3, <1>5, <1>10, <2>1, <2>2 DEF Perform, wire
<1>11. ASSUME NEW s \in {"failure", "missing"}, Decline(s)
       PROVE  WireOK' /\ DeviceInv'
  BY <1>3, <1>5, <1>11 DEF Decline, wire
<1>12. CASE Emit
  <2>1. ReplyPart \in Frame
    <3>1. CASE dev.next = 0
      BY <1>7, <1>12, <3>1, ReportIsFrame DEF Emit, ReplyPart
    <3>2. CASE dev.next # 0
      <4>1. dev.next - 1 \in Nat
        BY <3>2
      <4>2. QED
        BY <1>7, <1>12, <3>2, <4>1, ReportIsFrame DEF Emit, ReplyPart
    <3>3. QED
      BY <3>1, <3>2
  <2>2. CASE dev' = Idle
    BY <1>1, <1>2, <1>12, <2>1, <2>2 DEF Emit
  <2>3. CASE dev' = [dev EXCEPT !.next = @ + 1]
    <3>1. DeviceInv'
      BY <1>12, <2>3 DEF Emit, DeviceInv, DeviceOK
    <3>2. QED
      BY <1>2, <1>12, <2>1, <3>1 DEF Emit
  <2>4. QED
    BY <1>12, <2>2, <2>3 DEF Emit
<1>13. QED
  BY <1>6, <1>8, <1>9, <1>10, <1>11, <1>12 DEF DeviceNext, Work

LEMMA TypeInitially == Init => TypeInv
<1>. USE DEF Init, HostInit, DeviceInit
<1>1. Init => WireOK
  BY DEF WireOK
<1>2. Init => HostInv
  BY DEF HostInv, HostOK, NoReq, Nothing, Results, Broadcast
<1>3. Init => DeviceInv
  BY DEF DeviceInv, DeviceOK, Idle, Modes, Status, NoOrigin, Broadcast
<1>4. QED
  BY <1>1, <1>2, <1>3 DEF TypeInv

LEMMA TypeStep == TypeInv /\ [Next]_vars => TypeInv'
<1>. SUFFICES ASSUME TypeInv, [Next]_vars PROVE TypeInv'
  OBVIOUS
<1>1. ASSUME NEW h \in Handles, HostStep(h)
      PROVE  TypeInv'
  <2>1. DeviceInv'
    BY <1>1 DEF HostStep, device, TypeInv, DeviceInv, DeviceOK
  <2>2. QED
    BY <1>1, <2>1, HostWire, HostHost DEF HostStep, TypeInv
<1>2. CASE DeviceStep
  <2>1. HostInv'
    BY <1>2 DEF DeviceStep, host, TypeInv, HostInv, HostOK
  <2>2. QED
    BY <1>2, <2>1, DeviceStepType DEF DeviceStep, TypeInv
<1>3. CASE UNCHANGED vars
  BY <1>3 DEF vars, wire, host, device, TypeInv, WireOK, HostInv, HostOK, DeviceInv, DeviceOK
<1>4. QED
  BY <1>1, <1>2, <1>3 DEF Next

LEMMA TypeInvariant == Spec => []TypeInv
BY TypeInitially, TypeStep, PTL DEF Spec

\* The state of hid.rs keeps its types in every execution: in particular every
\* report written or read is one of CTAPHID.
THEOREM TypeCorrect == Spec => []TypeOK
<1>1. TypeInv => TypeOK
  BY DEF TypeInv, HostInv, DeviceInv, TypeOK
<1>2. QED
  BY <1>1, TypeInvariant, PTL

-----------------------------------------------------------------------------
(* The shapes of a step of the host. *)

Same(g) ==
  /\ pc'[g] = pc[g] /\ cid'[g] = cid[g] /\ opens'[g] = opens[g] /\ txn'[g] = txn[g]
  /\ req'[g] = req[g] /\ body'[g] = body[g] /\ outcome'[g] = outcome[g]
  /\ clean'[g] = clean[g]

LEMMA OthersSame ==
  ASSUME TypeInv, NEW h \in Handles, Proceed(h) \/ Invoke(h), NEW g \in Handles, g # h
  PROVE  Same(g)
<1>. USE DEF TypeInv, HostInv, HostOK, Same
<1>1. CASE OpenPath(h)
  BY <1>1 DEF OpenPath, Goto
<1>2. CASE WriteInit(h)
  BY <1>2 DEF WriteInit, Goto
<1>3. CASE SkipBeforeInit(h) \/ SkipStray(h) \/ SkipKeepalive(h) \/ Cancel(h)
  BY <1>3 DEF SkipBeforeInit, SkipStray, SkipKeepalive, Cancel, host
<1>4. CASE AcceptInit(h)
  BY <1>4 DEF AcceptInit, Goto
<1>5. ASSUME NEW e, NEW why, OpenFails(h, e, why)
      PROVE  Same(g)
  BY <1>5 DEF OpenFails, Release, Goto
<1>6. CASE RejectInit(h) \/ OpenTimesOut(h)
  BY <1>5, <1>6 DEF RejectInit, OpenTimesOut
<1>7. CASE Close(h)
  BY <1>7 DEF Close, Release, Goto
<1>8. CASE RejectCall(h)
  BY <1>8 DEF RejectCall
<1>9. ASSUME NEW command \in Commands, NEW n \in 0..MaxReqCont, Call(h, command, n)
      PROVE  Same(g)
  BY <1>9 DEF Call, Goto
<1>10. CASE WriteFrame(h)
  BY <1>10 DEF WriteFrame, Goto
<1>11. ASSUME NEW e, NEW frames, Return(h, e, frames), body' = [body EXCEPT ![h] = << >>]
       PROVE  Same(g)
  BY <1>11 DEF Return, Goto
<1>12. CASE ErrorFrame(h) \/ UnexpectedCommand(h) \/ BadContinuation(h) \/ CallFails(h)
  BY <1>11, <1>12 DEF ErrorFrame, UnexpectedCommand, BadContinuation, CallFails
<1>13. CASE FirstFrame(h) \/ ContinuationFrame(h)
  <2>1. Collect(h)
    BY <1>13 DEF FirstFrame, ContinuationFrame
  <2> DEFINE reply == Append(body[h], Head(rx[h]))
  <2>2. CASE Len(reply) = reply[1].arg + 1
    BY <1>11, <2>1, <2>2 DEF Collect, Full
  <2>3. CASE Len(reply) # reply[1].arg + 1
    BY <2>1, <2>3 DEF Collect, Full
  <2>4. QED
    BY <2>2, <2>3
<1>14. QED
  BY <1>1, <1>2, <1>3, <1>4, <1>6, <1>7, <1>8, <1>9, <1>10, <1>12, <1>13 DEF Proceed, Invoke

\* What a host step does to the two queues.
Silent == UNCHANGED <<out, rx>>
Puts(h) ==
  /\ out = << >> /\ UNCHANGED rx
  /\ \/ pc[h] = "initSend" /\ out' = <<Report(Broadcast, "INIT", Nonce(h), 0, "none")>>
     \/ pc[h] = "writing" /\ out' = <<Part(h)>>
     \/ pc[h] = "idle" /\ out' = <<Report(cid[h], "CANCEL", Request(h), 0, "none")>>
Takes(h) == rx[h] # << >> /\ Take(h) /\ UNCHANGED out
Drops(h) == rx' = [rx EXCEPT ![h] = << >>] /\ UNCHANGED out

LEMMA QueueShapes ==
  ASSUME TypeInv, NEW h \in Handles, Proceed(h) \/ Invoke(h)
  PROVE  Silent \/ Puts(h) \/ Takes(h) \/ Drops(h)
<1>1. CASE OpenPath(h) \/ RejectCall(h) \/ CallFails(h)
           \/ \E command \in Commands, n \in 0..MaxReqCont : Call(h, command, n)
  BY <1>1 DEF OpenPath, RejectCall, CallFails, Return, Call, wire, Silent
<1>2. CASE WriteInit(h) \/ WriteFrame(h) \/ Cancel(h)
  BY <1>2 DEF WriteInit, WriteFrame, Cancel, Put, Puts
<1>3. CASE SkipBeforeInit(h) \/ AcceptInit(h) \/ SkipStray(h) \/ SkipKeepalive(h)
  BY <1>3 DEF SkipBeforeInit, AcceptInit, SkipStray, SkipKeepalive, First, Mine, Reading, Takes
<1>4. CASE ErrorFrame(h) \/ UnexpectedCommand(h) \/ BadContinuation(h)
           \/ FirstFrame(h) \/ ContinuationFrame(h)
  BY <1>4 DEF ErrorFrame, UnexpectedCommand, BadContinuation, FirstFrame, ContinuationFrame,
              Collect, Full, Return, First, Later, Mine, Reading, Takes
<1>5. CASE RejectInit(h) \/ OpenTimesOut(h) \/ Close(h)
  BY <1>5 DEF RejectInit, OpenTimesOut, OpenFails, Close, Release, Drops
<1>6. QED
  BY <1>1, <1>2, <1>3, <1>4, <1>5 DEF Proceed, Invoke

LEMMA OtherQueues ==
  ASSUME TypeInv, NEW h \in Handles, Proceed(h) \/ Invoke(h), NEW g \in Handles, g # h
  PROVE  rx'[g] = rx[g]
<1>1. rx \in [Handles -> Seq(Frame)]
  BY DEF TypeInv, WireOK
<1>2. QED
  BY <1>1, QueueShapes DEF Silent, Puts, Takes, Take, Drops

\* Nonces and requests are only ever added.
LEMMA CountersGrow ==
  ASSUME TypeInv, NEW h \in Handles, Proceed(h) \/ Invoke(h), NEW g \in Handles
  PROVE  opens[g] \leq opens'[g] /\ txn[g] \leq txn'[g]
<1>. /\ opens \in [Handles -> Nat] /\ txn \in [Handles -> Nat]
  BY DEF TypeInv, HostInv, HostOK
<1>1. CASE OpenPath(h)
  BY <1>1 DEF OpenPath
<1>2. ASSUME NEW command \in Commands, NEW n \in 0..MaxReqCont, Call(h, command, n)
      PROVE  opens[g] \leq opens'[g] /\ txn[g] \leq txn'[g]
  BY <1>2 DEF Call
<1>3. ASSUME UNCHANGED <<opens, txn>>
      PROVE  opens[g] \leq opens'[g] /\ txn[g] \leq txn'[g]
  BY <1>3
<1>4. CASE WriteInit(h) \/ SkipBeforeInit(h) \/ AcceptInit(h) \/ RejectInit(h)
           \/ OpenTimesOut(h) \/ Close(h) \/ RejectCall(h) \/ Cancel(h)
  BY <1>3, <1>4 DEF WriteInit, SkipBeforeInit, AcceptInit, RejectInit, OpenTimesOut,
                    OpenFails, Close, RejectCall, Cancel, host
<1>5. CASE WriteFrame(h) \/ SkipStray(h) \/ SkipKeepalive(h) \/ ErrorFrame(h)
           \/ UnexpectedCommand(h) \/ FirstFrame(h) \/ ContinuationFrame(h)
           \/ BadContinuation(h) \/ CallFails(h)
  BY <1>3, <1>5 DEF WriteFrame, SkipStray, SkipKeepalive, ErrorFrame, UnexpectedCommand,
                    FirstFrame, ContinuationFrame, BadContinuation, CallFails, Collect, Full,
                    Return, host
<1>6. QED
  BY <1>1, <1>2, <1>4, <1>5 DEF Proceed, Invoke

\* A Transport is open because it was, or because its INIT has been answered.
LEMMA OpenSteps ==
  ASSUME TypeInv, NEW h \in Handles, Proceed(h) \/ Invoke(h), Open(h)'
  PROVE  \/ Open(h) /\ cid'[h] = cid[h] /\ opens'[h] = opens[h]
         \/ AcceptInit(h)
<1>. /\ pc \in [Handles -> {"closed", "initSend", "initRead", "idle", "writing", "reading"}]
     /\ cid \in [Handles -> Nat] /\ opens \in [Handles -> Nat]
  BY DEF TypeInv, HostInv, HostOK
<1>1. CASE OpenPath(h) \/ WriteInit(h) \/ RejectInit(h) \/ OpenTimesOut(h) \/ Close(h)
  BY <1>1 DEF OpenPath, WriteInit, RejectInit, OpenTimesOut, OpenFails, Close, Release, Goto, Open
<1>2. CASE SkipBeforeInit(h) \/ SkipStray(h) \/ SkipKeepalive(h) \/ Cancel(h) \/ RejectCall(h)
  BY <1>2 DEF SkipBeforeInit, SkipStray, SkipKeepalive, Cancel, RejectCall, host, Open
<1>3. CASE \E command \in Commands, n \in 0..MaxReqCont : Call(h, command, n)
  BY <1>3 DEF Call, Open
<1>4. CASE WriteFrame(h)
  BY <1>4 DEF WriteFrame, Open
<1>5. CASE ErrorFrame(h) \/ UnexpectedCommand(h) \/ BadContinuation(h) \/ CallFails(h)
           \/ FirstFrame(h) \/ ContinuationFrame(h)
  BY <1>5 DEF ErrorFrame, UnexpectedCommand, BadContinuation, CallFails, FirstFrame,
              ContinuationFrame, Collect, Full, Return, First, Later, Mine, Reading, Open
<1>6. QED
  BY <1>1, <1>2, <1>3, <1>4, <1>5 DEF Proceed, Invoke

(* What happens to the reports of a queue. *)

LEMMA AfterTake ==
  ASSUME WireOK, NEW h \in Handles, Takes(h), NEW g \in Handles, NEW i \in DOMAIN rx'[g]
  PROVE  /\ (IF g = h THEN i + 1 ELSE i) \in DOMAIN rx[g]
         /\ rx'[g][i] = rx[g][IF g = h THEN i + 1 ELSE i]
<1>1. rx \in [Handles -> Seq(Frame)] /\ rx[h] \in Seq(Frame) /\ rx[h] # << >>
      /\ rx' = [rx EXCEPT ![h] = Tail(rx[h])]
  BY DEF WireOK, Takes, Take
<1>2. CASE g = h
  <2>1. rx'[g] = Tail(rx[h])
    BY <1>1, <1>2
  <2>2. /\ Tail(rx[h]) \in Seq(Frame) /\ Len(Tail(rx[h])) = Len(rx[h]) - 1
        /\ \A k \in 1..Len(Tail(rx[h])) : Tail(rx[h])[k] = rx[h][k + 1]
    BY <1>1, HeadTailProperties
  <2>3. i \in 1..Len(Tail(rx[h])) /\ Len(rx[h]) \in Nat /\ DOMAIN rx[h] = 1..Len(rx[h])
    BY <1>1, <2>1, <2>2, LenProperties
  <2>4. QED
    BY <1>2, <2>1, <2>2, <2>3
<1>3. CASE g # h
  BY <1>1, <1>3
<1>4. QED
  BY <1>2, <1>3

LEMMA AfterDeliver ==
  ASSUME WireOK, NEW f \in Frame, Deliver(f), NEW g \in Handles, NEW i \in DOMAIN rx'[g]
  PROVE  \/ i \in DOMAIN rx[g] /\ rx'[g][i] = rx[g][i]
         \/ i = Len(rx[g]) + 1 /\ rx'[g][i] = f
<1>1. rx[g] \in Seq(Frame) /\ Len(rx[g]) \in Nat /\ DOMAIN rx[g] = 1..Len(rx[g])
  BY LenProperties DEF WireOK
<1>2. rx'[g] = rx[g] \/ rx'[g] = Append(rx[g], f)
  BY DEF Deliver
<1>3. CASE rx'[g] = rx[g]
  BY <1>3
<1>4. CASE rx'[g] = Append(rx[g], f)
  <2>1. /\ Append(rx[g], f) \in Seq(Frame)
        /\ Len(Append(rx[g], f)) = Len(rx[g]) + 1
        /\ \A k \in 1..Len(rx[g]) : Append(rx[g], f)[k] = rx[g][k]
        /\ Append(rx[g], f)[Len(rx[g]) + 1] = f
    BY <1>1, AppendProperties
  <2>2. DOMAIN Append(rx[g], f) = 1..(Len(rx[g]) + 1)
    BY <2>1, LenProperties
  <2>3. QED
    BY <1>1, <1>4, <2>1, <2>2
<1>5. QED
  BY <1>2, <1>3, <1>4

(* Channels. *)

LEMMA ChannelHost ==
  ASSUME TypeInv, ChannelInv, NEW h \in Handles, HostStep(h)
  PROVE  ChannelInv'
<1>. (Proceed(h) \/ Invoke(h)) /\ UNCHANGED device
  BY DEF HostStep
<1>. WireOK /\ HostOK /\ DeviceOK
  BY DEF TypeInv, HostInv, DeviceInv
<1>. WireOK'
  BY HostWire
<1>. HostOK'
  BY HostHost DEF HostInv
<1>. /\ opens \in [Handles -> Nat] /\ txn \in [Handles -> Nat]
     /\ opens' \in [Handles -> Nat] /\ txn' \in [Handles -> Nat]
     /\ chan \in Seq(Origin) /\ chan' = chan /\ dev' = dev
  BY DEF HostOK, DeviceOK, device
<1>1. \A g \in Handles : opens[g] \leq opens'[g] /\ txn[g] \leq txn'[g]
  BY CountersGrow
<1>2. \A c \in DOMAIN chan : chan[c] \in Origin /\ chan[c][1] \in Handles /\ chan[c][2] \in Nat
  <2>1. chan \in [1..Len(chan) -> Origin]
    BY LenProperties
  <2>2. QED
    BY <2>1 DEF Origin
<1>3. \A c \in DOMAIN chan' : chan'[c][2] \leq opens'[chan'[c][1]]
  <2>1. ASSUME NEW c \in DOMAIN chan
        PROVE  chan[c][2] \leq opens'[chan[c][1]]
    <3>1. chan[c][2] \leq opens[chan[c][1]]
      BY DEF ChannelInv
    <3>2. QED
      BY <1>1, <1>2, <3>1
  <2>2. QED
    BY <2>1
<1>4. ASSUME NEW f \in Frame
      PROVE  /\ Sent(f, chan, txn) => Sent(f, chan', txn')
             /\ Received(f, chan, txn) => Received(f, chan', txn')
             /\ Written(f, chan, txn, opens) => Written(f, chan', txn', opens')
  <2>1. f.from[1] \in Handles /\ f.from[2] \in Nat
    BY FrameFields DEF Origin
  <2>2. Sent(f, chan, txn) => Sent(f, chan', txn')
    BY <1>1, <2>1 DEF Sent
  <2>3. QED
    BY <1>1, <2>1, <2>2 DEF Received, Written
<1>5. \A g \in Handles : Open(g)' => cid'[g] \in DOMAIN chan' /\ chan'[cid'[g]] = Nonce(g)'
  <2>1. ASSUME NEW g \in Handles, Open(g)', g # h
        PROVE  cid'[g] \in DOMAIN chan /\ chan[cid'[g]] = Nonce(g)'
    <3>1. Same(g)
      BY <2>1, OthersSame
    <3>2. Open(g)
      BY <2>1, <3>1 DEF Same, Open
    <3>3. QED
      BY <3>1, <3>2 DEF Same, Nonce, ChannelInv
  <2>2. ASSUME Open(h)'
        PROVE  cid'[h] \in DOMAIN chan /\ chan[cid'[h]] = Nonce(h)'
    <3>1. CASE Open(h) /\ cid'[h] = cid[h] /\ opens'[h] = opens[h]
      BY <3>1 DEF Nonce, ChannelInv
    <3>2. CASE AcceptInit(h)
      <4>1. rx[h] \in Seq(Frame) /\ rx[h] # << >>
        BY <3>2 DEF WireOK, AcceptInit
      <4>2. 1 \in DOMAIN rx[h] /\ Head(rx[h]) = rx[h][1]
        BY <4>1, EmptySeq, LenProperties
      <4>3. Received(Head(rx[h]), chan, txn)
        BY <4>2 DEF ChannelInv
      <4>4. Head(rx[h]).arg \in DOMAIN chan /\ chan[Head(rx[h]).arg] = Nonce(h)
        BY <3>2, <4>3 DEF AcceptInit, IsInitReply, Received
      <4>5. cid'[h] = Head(rx[h]).arg /\ opens'[h] = opens[h]
        BY <3>2 DEF AcceptInit, HostOK
      <4>6. QED
        BY <4>4, <4>5 DEF Nonce
    <3>3. QED
      BY <2>2, <3>1, <3>2, OpenSteps DEF TypeInv
  <2>3. QED
    BY <2>1, <2>2
<1>6. \A i \in DOMAIN out' : Written(out'[i], chan', txn', opens')
  <2>1. CASE out' = out
    BY <1>4, <2>1, ElementOfSeq, LenProperties DEF WireOK, ChannelInv
  <2>2. CASE Puts(h)
    <3>2. Open(h) => cid[h] \in DOMAIN chan /\ chan[cid[h]] = Nonce(h) /\ cid[h] # Broadcast
      BY LenProperties DEF ChannelInv, Broadcast
    <3>3. ASSUME NEW f, out' = <<f>>, Written(f, chan, txn, opens), f \in Frame
          PROVE  \A i \in DOMAIN out' : Written(out'[i], chan', txn', opens')
      BY <1>4, <3>3
    <3>4. out' \in Seq(Frame)
      BY DEF WireOK
    <3>5. CASE pc[h] = "initSend" /\ out' = <<Report(Broadcast, "INIT", Nonce(h), 0, "none")>>
      <4>1. Written(Report(Broadcast, "INIT", Nonce(h), 0, "none"), chan, txn, opens)
        BY DEF Written, Report, Nonce
      <4>2. QED
        BY <3>3, <3>4, <3>5, <4>1
    <3>6. CASE pc[h] = "writing" /\ out' = <<Part(h)>>
      <4>1. Written(Part(h), chan, txn, opens)
        BY <3>2, <3>6 DEF Written, Sent, Part, Report, Request, Nonce, Open
      <4>2. QED
        BY <3>3, <3>4, <3>6, <4>1
    <3>7. CASE pc[h] = "idle" /\ out' = <<Report(cid[h], "CANCEL", Request(h), 0, "none")>>
      <4>1. Written(Report(cid[h], "CANCEL", Request(h), 0, "none"), chan, txn, opens)
        BY <3>2, <3>7 DEF Written, Sent, Report, Request, Nonce, Open
      <4>2. QED
        BY <3>3, <3>4, <3>7, <4>1
    <3>8. QED
      BY <2>2, <3>5, <3>6, <3>7 DEF Puts
  <2>3. QED
    BY <2>1, <2>2, QueueShapes DEF Silent, Takes, Drops
<1>7. \A g \in Handles : \A i \in DOMAIN rx'[g] : Received(rx'[g][i], chan', txn')
  <2>1. ASSUME NEW g \in Handles, NEW i \in DOMAIN rx[g]
        PROVE  rx[g][i] \in Frame /\ Received(rx[g][i], chan, txn)
    BY <2>1, ElementOfSeq, LenProperties DEF WireOK, ChannelInv
  <2>2. CASE UNCHANGED rx
    BY <1>4, <2>1, <2>2
  <2>3. CASE Takes(h)
    <3>1. ASSUME NEW g \in Handles, NEW i \in DOMAIN rx'[g]
          PROVE  \E j \in DOMAIN rx[g] : rx'[g][i] = rx[g][j]
      BY <2>3, <3>1, AfterTake
    <3>2. QED
      BY <1>4, <2>1, <3>1
  <2>4. CASE Drops(h)
    <3>1. ASSUME NEW g \in Handles
          PROVE  rx'[g] = rx[g] \/ rx'[g] = << >>
      BY <2>4, <3>1 DEF Drops, WireOK
    <3>2. DOMAIN << >> = {}
      OBVIOUS
    <3>3. QED
      BY <1>4, <2>1, <3>1, <3>2
  <2>5. QED
    BY <2>2, <2>3, <2>4, QueueShapes DEF Silent, Puts
<1>8. /\ dev'.mode # "idle" => Sent(dev', chan', txn')
      /\ dev'.mode = "idle" => dev' = Idle
  <2>1. dev.mode # "idle" => dev.from[1] \in Handles /\ dev.from[2] \in Nat
    BY DEF TypeInv, DeviceInv, Origin
  <2>2. dev.mode # "idle" => Sent(dev, chan, txn)
    BY DEF ChannelInv
  <2>3. dev.mode # "idle" => Sent(dev, chan, txn')
    BY <1>1, <2>1, <2>2 DEF Sent
  <2>4. dev.mode = "idle" => dev = Idle
    BY DEF ChannelInv
  <2>5. QED
    BY <2>3, <2>4
<1>9. QED
  BY <1>3, <1>5, <1>6, <1>7, <1>8 DEF ChannelInv

LEMMA ChannelDevice ==
  ASSUME TypeInv, ChannelInv, DeviceStep
  PROVE  ChannelInv'
<1>. DeviceNext /\ UNCHANGED host
  BY DEF DeviceStep
<1>. WireOK /\ HostOK /\ DeviceOK
  BY DEF TypeInv, HostInv, DeviceInv
<1>. WireOK' /\ DeviceOK'
  BY DeviceStepType DEF DeviceInv
<1>. /\ opens' = opens /\ txn' = txn /\ cid' = cid /\ pc' = pc
     /\ opens \in [Handles -> Nat] /\ txn \in [Handles -> Nat]
     /\ chan \in Seq(Origin) /\ chan' \in Seq(Origin)
  BY DEF host, HostOK, DeviceOK
<1>1. \A c \in DOMAIN chan : chan[c] \in Origin /\ chan[c][1] \in Handles /\ chan[c][2] \in Nat
  BY ElementOfSeq, LenProperties DEF Origin
<1>2. ASSUME NEW g \in Handles, NEW i \in DOMAIN rx[g]
      PROVE  rx[g][i] \in Frame /\ Received(rx[g][i], chan, txn)
  BY <1>2, ElementOfSeq, LenProperties DEF WireOK, ChannelInv
<1>3. ASSUME out # << >>
      PROVE  out[1] \in Frame /\ Written(out[1], chan, txn, opens) /\ out[1].from \in Origin
  <2>1. 1 \in DOMAIN out
    BY <1>3, EmptySeq, LenProperties DEF WireOK
  <2>2. QED
    BY <2>1, ElementOfSeq, LenProperties, FrameFields DEF WireOK, ChannelInv
\* Every step but the grant of a channel leaves chan alone and delivers at most
\* one report, known to be in order.
<1>4. ASSUME chan' = chan, out' = out \/ out' = << >>,
             UNCHANGED rx \/ \E f \in Frame : Deliver(f) /\ Received(f, chan, txn),
             dev'.mode # "idle" => Sent(dev', chan, txn), dev'.mode = "idle" => dev' = Idle
      PROVE  ChannelInv'
  <2>1. \A i \in DOMAIN out' : Written(out'[i], chan', txn', opens')
    BY <1>4 DEF ChannelInv
  <2>2. \A g \in Handles : \A i \in DOMAIN rx'[g] : Received(rx'[g][i], chan', txn')
    <3>1. CASE UNCHANGED rx
      BY <1>2, <1>4, <3>1
    <3>2. ASSUME NEW f \in Frame, Deliver(f), Received(f, chan, txn)
          PROVE  \A g \in Handles : \A i \in DOMAIN rx'[g] : Received(rx'[g][i], chan', txn')
      BY <1>2, <1>4, <3>2, AfterDeliver
    <3>3. QED
      BY <1>4, <3>1, <3>2
  <2>3. \A h \in Handles : Open(h)' => cid'[h] \in DOMAIN chan' /\ chan'[cid'[h]] = Nonce(h)'
    BY <1>4 DEF ChannelInv, Open, Nonce
  <2>4. \A c \in DOMAIN chan' : chan'[c][2] \leq opens'[chan'[c][1]]
    BY <1>4 DEF ChannelInv
  <2>5. QED
    BY <1>4, <2>1, <2>2, <2>3, <2>4 DEF ChannelInv
<1>5. /\ dev.mode # "idle" => Sent(dev, chan, txn)
      /\ dev.mode = "idle" => dev = Idle
  BY DEF ChannelInv
<1>6. Idle.mode = "idle"
  BY DEF Idle
<1>7. ASSUME dev.mode # "idle"
      PROVE  dev.cid # Broadcast /\ dev.from \in Origin
  BY <1>5, <1>7, LenProperties DEF Sent, Broadcast, TypeInv, DeviceInv
<1>8. ASSUME NEW f \in Frame, f.cid = dev.cid, f.from = dev.from, dev.mode # "idle"
      PROVE  Received(f, chan, txn)
  BY <1>5, <1>7, <1>8 DEF Received, Sent
<1>9. CASE TakeReport
  <2> DEFINE f == out[1]
  <2>1. f \in Frame /\ Written(f, chan, txn, opens) /\ f.from \in Origin
    BY <1>3, <1>9 DEF TakeReport
  <2>2. f.cid # Broadcast => Sent(f, chan, txn)
    BY <2>1 DEF Written
  <2>3. CASE AllocateChannel(f)
    <3>1. /\ f.cid = Broadcast /\ chan' = Append(chan, f.from) /\ out' = << >> /\ dev' = dev
          /\ Deliver(Report(Broadcast, "INIT", f.from, Len(chan) + 1, "none"))
      BY <2>3 DEF AllocateChannel, Taking
    <3>2. /\ Len(chan) \in Nat /\ DOMAIN chan = 1..Len(chan)
          /\ DOMAIN chan' = 1..(Len(chan) + 1)
          /\ chan'[Len(chan) + 1] = f.from
          /\ \A c \in 1..Len(chan) : chan'[c] = chan[c]
      BY <2>1, <3>1, LenProperties, AppendProperties
    <3>3. \A x \in Frame : Received(x, chan, txn) => Received(x, chan', txn')
      <4>1. \A c \in DOMAIN chan : c \in DOMAIN chan' /\ chan'[c] = chan[c]
        BY <3>2
      <4>2. \A x \in Frame : Sent(x, chan, txn) => Sent(x, chan', txn')
        BY <4>1 DEF Sent
      <4>3. QED
        BY <4>1, <4>2 DEF Received
    <3>4. Report(Broadcast, "INIT", f.from, Len(chan) + 1, "none") \in Frame
      <4>1. Len(chan) + 1 \in Nat /\ Broadcast \in Nat
        BY <3>2 DEF Broadcast
      <4>2. "INIT" \in AllCommands /\ "none" \in Status
        BY DEF AllCommands, Status
      <4>3. QED
        BY <2>1, <4>1, <4>2, ReportIsFrame
    <3>5. Received(Report(Broadcast, "INIT", f.from, Len(chan) + 1, "none"), chan', txn')
      BY <3>2 DEF Received, Report
    <3>6. \A g \in Handles : \A i \in DOMAIN rx'[g] : Received(rx'[g][i], chan', txn')
      BY <1>2, <3>1, <3>3, <3>4, <3>5, AfterDeliver
    <3>7. f.from[2] \leq opens[f.from[1]]
      BY <2>1, <3>1 DEF Written
    <3>8. \A c \in DOMAIN chan' : chan'[c][2] \leq opens'[chan'[c][1]]
      <4>1. \A c \in 1..Len(chan) : chan[c][2] \leq opens[chan[c][1]]
        BY <3>2 DEF ChannelInv
      <4>2. QED
        BY <3>2, <3>7, <4>1
    <3>9. \A h \in Handles : Open(h)' => cid'[h] \in DOMAIN chan' /\ chan'[cid'[h]] = Nonce(h)'
      BY <3>2 DEF ChannelInv, Open, Nonce
    <3>10. /\ dev'.mode # "idle" => Sent(dev', chan', txn')
           /\ dev'.mode = "idle" => dev' = Idle
      BY <1>5, <3>1, <3>2 DEF Sent
    <3>11. \A i \in DOMAIN out' : Written(out'[i], chan', txn', opens')
      BY <3>1
    <3>12. QED
      BY <3>6, <3>8, <3>9, <3>10, <3>11 DEF ChannelInv
  <2>4. CASE RefuseInit(f)
    <3>1. Report(Broadcast, "ERROR", f.from, 0, "failure") \in Frame
      BY <2>1, ReportIsFrame DEF AllCommands, Status, Broadcast
    <3>2. Received(Report(Broadcast, "ERROR", f.from, 0, "failure"), chan, txn)
      BY DEF Received, Report
    <3>3. QED
      BY <1>4, <1>5, <2>4, <3>1, <3>2 DEF RefuseInit, Taking, device
  <2>5. CASE BeginRequest(f)
    <3>1. dev'.cid = f.cid /\ dev'.from = f.from /\ dev'.mode # "idle"
      BY <2>5 DEF BeginRequest, Transaction
    <3>2. Sent(dev', chan, txn)
      BY <2>2, <2>5, <3>1 DEF BeginRequest, Sent
    <3>3. QED
      BY <1>4, <2>5, <3>1, <3>2 DEF BeginRequest, Taking
  <2>6. CASE ContinueRequest(f)
    <3>1. dev'.cid = dev.cid /\ dev'.from = dev.from /\ dev'.mode # "idle" /\ dev.mode # "idle"
      BY <2>6 DEF ContinueRequest, InSequenceOf, DeviceOK
    <3>2. Sent(dev', chan, txn)
      BY <1>5, <3>1 DEF Sent
    <3>3. QED
      BY <1>4, <2>6, <3>1, <3>2 DEF ContinueRequest, Taking
  <2>7. CASE RefuseRequest(f)
    <3>1. Report(f.cid, "ERROR", f.from, 0, "failure") \in Frame
      BY <2>1, FrameFields, ReportIsFrame DEF AllCommands, Status
    <3>2. Received(Report(f.cid, "ERROR", f.from, 0, "failure"), chan, txn)
      BY <2>2, <2>7 DEF RefuseRequest, Received, Sent, Report
    <3>3. dev' = dev \/ dev' = Idle
      BY <2>7 DEF RefuseRequest
    <3>4. QED
      BY <1>4, <1>5, <1>6, <2>7, <3>1, <3>2, <3>3 DEF RefuseRequest, Taking
  <2>8. CASE CancelRequest(f)
    <3>1. dev'.cid = dev.cid /\ dev'.from = dev.from /\ dev'.mode # "idle" /\ dev.mode # "idle"
      BY <2>8 DEF CancelRequest, InFlightOn, Replying, DeviceOK
    <3>2. Sent(dev', chan, txn)
      BY <1>5, <3>1 DEF Sent
    <3>3. QED
      BY <1>4, <2>8, <3>1, <3>2 DEF CancelRequest, Taking
  <2>9. CASE IgnoreReport(f)
    BY <1>4, <1>5, <2>9 DEF IgnoreReport, Taking, device
  <2>10. QED
    BY <1>9, <2>3, <2>4, <2>5, <2>6, <2>7, <2>8, <2>9 DEF TakeReport
<1>10. ASSUME dev.mode # "idle", dev'.cid = dev.cid, dev'.from = dev.from, dev'.mode # "idle"
       PROVE  Sent(dev', chan, txn)
  BY <1>5, <1>10 DEF Sent
<1>11. ASSUME NEW command \in AllCommands, NEW n \in Nat, NEW s \in Status, dev.mode # "idle"
       PROVE  /\ Report(dev.cid, command, dev.from, n, s) \in Frame
              /\ Received(Report(dev.cid, command, dev.from, n, s), chan, txn)
  <2>1. Report(dev.cid, command, dev.from, n, s) \in Frame
    BY <1>7, <1>11, ReportIsFrame DEF DeviceOK
  <2>2. QED
    BY <1>8, <1>11, <2>1 DEF Report
<1>. "KEEPALIVE" \in AllCommands /\ "ERROR" \in AllCommands /\ "CONT" \in AllCommands
     /\ "none" \in Status /\ "failure" \in Status
  BY DEF AllCommands, Status
<1>12. CASE Keepalive
  <2>1. dev'.cid = dev.cid /\ dev'.from = dev.from /\ dev'.mode # "idle" /\ dev.mode # "idle"
    BY <1>12 DEF Keepalive, DeviceOK
  <2>2. QED
    BY <1>4, <1>10, <1>11, <1>12, <2>1 DEF Keepalive
<1>13. CASE ReceiveTimesOut \/ AbortRequest
  BY <1>4, <1>6, <1>11, <1>13 DEF ReceiveTimesOut, AbortRequest, Abort
<1>14. CASE \/ \E n \in 0..MaxCont, s \in {"none", "success"} : Perform(n, s)
            \/ \E s \in {"failure", "missing"} : Decline(s)
  <2>1. /\ dev'.cid = dev.cid /\ dev'.from = dev.from /\ dev'.mode # "idle" /\ dev.mode # "idle"
        /\ UNCHANGED <<wire, chan>>
    BY <1>14 DEF Perform, Decline, Replying, DeviceOK
  <2>2. QED
    BY <1>4, <1>10, <2>1 DEF wire
<1>15. CASE Emit
  <2>1. dev.mode # "idle" /\ dev.cmd \in AllCommands
    BY <1>15 DEF Emit, TypeInv, DeviceInv, AllCommands
  <2>2. ReplyPart \in Frame /\ Received(ReplyPart, chan, txn)
    <3>1. CASE dev.next = 0
      BY <1>11, <2>1, <3>1 DEF ReplyPart, DeviceOK
    <3>2. CASE dev.next # 0
      <4>1. dev.next - 1 \in Nat
        BY <3>2 DEF DeviceOK
      <4>2. QED
        BY <1>11, <2>1, <3>2, <4>1 DEF ReplyPart
    <3>3. QED
      BY <3>1, <3>2
  <2>3. CASE dev' = Idle
    BY <1>4, <1>6, <1>15, <2>2, <2>3 DEF Emit
  <2>4. CASE dev' = [dev EXCEPT !.next = @ + 1]
    <3>1. dev'.cid = dev.cid /\ dev'.from = dev.from /\ dev'.mode = dev.mode
      BY <2>4 DEF DeviceOK
    <3>2. QED
      BY <1>4, <1>10, <1>15, <2>1, <2>2, <3>1 DEF Emit
  <2>5. QED
    BY <1>15, <2>3, <2>4 DEF Emit
<1>16. QED
  BY <1>9, <1>12, <1>13, <1>14, <1>15 DEF DeviceNext, Work

LEMMA ChannelInvariant == Spec => []ChannelInv
<1>1. Init => ChannelInv
  BY DEF Init, HostInit, DeviceInit, ChannelInv, Open, Idle
<1>2. TypeInv /\ ChannelInv /\ [Next]_vars => ChannelInv'
  <2>. SUFFICES ASSUME TypeInv, ChannelInv, [Next]_vars PROVE ChannelInv'
    OBVIOUS
  <2>1. CASE UNCHANGED vars
    BY <2>1 DEF vars, wire, host, device, ChannelInv, Open, Nonce
  <2>2. QED
    BY <2>1, ChannelHost, ChannelDevice DEF Next
<1>3. QED
  BY <1>1, <1>2, TypeInvariant, PTL DEF Spec

\* No two open Transports hold the same channel, however their INIT requests
\* and replies interleave.
THEOREM ChannelsStayDistinct == Spec => []ChannelsDistinct
<1>1. ChannelInv => ChannelsDistinct
  BY DEF ChannelInv, ChannelsDistinct, Nonce
<1>2. QED
  BY <1>1, ChannelInvariant, PTL

LEMMA AppendTo ==
  ASSUME NEW S, NEW s \in Seq(S), NEW x \in S
  PROVE  /\ Append(s, x) \in Seq(S) /\ Len(Append(s, x)) = Len(s) + 1 /\ Len(s) \in Nat
         /\ DOMAIN s = 1..Len(s) /\ DOMAIN Append(s, x) = 1..(Len(s) + 1)
         /\ \A i \in 1..Len(s) : Append(s, x)[i] = s[i]
         /\ Append(s, x)[Len(s) + 1] = x
<1>1. /\ Append(s, x) \in Seq(S) /\ Len(Append(s, x)) = Len(s) + 1
      /\ \A i \in 1..Len(s) : Append(s, x)[i] = s[i]
      /\ Append(s, x)[Len(s) + 1] = x
  BY AppendProperties
<1>2. QED
  BY <1>1, LenProperties

LEMMA HeadOf ==
  ASSUME WireOK, NEW h \in Handles, rx[h] # << >>
  PROVE  /\ rx[h] \in Seq(Frame) /\ 1 \in DOMAIN rx[h] /\ Head(rx[h]) = rx[h][1]
         /\ Head(rx[h]) \in Frame
<1>1. rx[h] \in Seq(Frame)
  BY DEF WireOK
<1>2. 1 \in DOMAIN rx[h] /\ Head(rx[h]) = rx[h][1]
  BY <1>1, EmptySeq, LenProperties
<1>3. QED
  BY <1>1, <1>2, ElementOfSeq, LenProperties

\* A report of its own channel is of a request of its own.
LEMMA HeadIsOwn ==
  ASSUME TypeInv, ChannelInv, NEW h \in Handles, Mine(h), Open(h)
  PROVE  /\ Head(rx[h]) \in Frame /\ Sent(Head(rx[h]), chan, txn)
         /\ Head(rx[h]).from[1] = h /\ Head(rx[h]).from[2] \leq txn[h]
<1>1. /\ 1 \in DOMAIN rx[h] /\ Head(rx[h]) = rx[h][1] /\ Head(rx[h]) \in Frame
      /\ Head(rx[h]).cid = cid[h]
  BY HeadOf DEF TypeInv, Mine, Reading
<1>2. Received(Head(rx[h]), chan, txn)
  BY <1>1 DEF ChannelInv
<1>3. cid[h] \in DOMAIN chan /\ chan[cid[h]] = Nonce(h) /\ chan \in Seq(Origin)
  BY DEF ChannelInv, TypeInv, DeviceInv, DeviceOK
<1>4. cid[h] # Broadcast
  BY <1>3, LenProperties DEF Broadcast
<1>5. Sent(Head(rx[h]), chan, txn)
  BY <1>1, <1>2, <1>4 DEF Received
<1>6. QED
  BY <1>1, <1>3, <1>5 DEF Sent, Nonce

(* The shapes of a step of the host: the reply under way and the outcome. *)

Complete(h) ==
  LET reply == Append(body[h], Head(rx[h]))
  IN  /\ FirstFrame(h) \/ ContinuationFrame(h)
      /\ Len(reply) = reply[1].arg + 1
      /\ outcome'[h] = [res |-> ResultOf(req[h].cmd, reply[1].st), frames |-> reply]

Collects(h) ==
  /\ FirstFrame(h) \/ ContinuationFrame(h)
  /\ body'[h] = Append(body[h], Head(rx[h]))
  /\ Len(body'[h]) # body'[h][1].arg + 1
  /\ pc'[h] = pc[h] /\ cid'[h] = cid[h] /\ outcome'[h] = outcome[h] /\ txn'[h] = txn[h]
  /\ req'[h] = req[h] /\ clean'[h] = clean[h]

LEMMA ReplyShapes ==
  ASSUME TypeInv, NEW h \in Handles, FirstFrame(h) \/ ContinuationFrame(h)
  PROVE  \/ Collects(h)
         \/ Complete(h) /\ body'[h] = << >> /\ pc'[h] = "idle"
<1>. DEFINE reply == Append(body[h], Head(rx[h]))
<1>. /\ body \in [Handles -> Seq(Frame)] /\ outcome \in [Handles -> [res : Results, frames : Seq(Frame)]]
     /\ pc \in [Handles -> {"closed", "initSend", "initRead", "idle", "writing", "reading"}]
  BY DEF TypeInv, HostInv, HostOK
<1>1. Collect(h)
  BY DEF FirstFrame, ContinuationFrame
<1>2. CASE Len(reply) = reply[1].arg + 1
  <2>1. /\ body' = [body EXCEPT ![h] = << >>]
        /\ Return(h, ResultOf(req[h].cmd, reply[1].st), reply)
    BY <1>1, <1>2 DEF Collect, Full
  <2>2. body'[h] = << >> /\ pc'[h] = "idle"
        /\ outcome'[h] = [res |-> ResultOf(req[h].cmd, reply[1].st), frames |-> reply]
    BY <2>1 DEF Return, Goto
  <2>3. QED
    BY <1>2, <2>2 DEF Complete
<1>3. CASE Len(reply) # reply[1].arg + 1
  <2>1. /\ body' = [body EXCEPT ![h] = reply]
        /\ UNCHANGED <<pc, cid, txn, req, outcome, clean>>
    BY <1>1, <1>3 DEF Collect, Full
  <2>2. body'[h] = reply
    BY <2>1
  <2>3. QED
    BY <1>3, <2>1, <2>2 DEF Collects
<1>4. QED
  BY <1>2, <1>3

LEMMA BodyShapes ==
  ASSUME TypeInv, NEW h \in Handles, Proceed(h) \/ Invoke(h)
  PROVE  \/ body'[h] = << >>
         \/ body'[h] = body[h] /\ pc[h] # "reading"
         \/ body'[h] = body[h] /\ pc'[h] = pc[h] /\ cid'[h] = cid[h]
         \/ Collects(h)
<1>. body \in [Handles -> Seq(Frame)]
  BY DEF TypeInv, HostInv, HostOK
<1>1. CASE OpenPath(h) \/ WriteInit(h) \/ AcceptInit(h) \/ RejectInit(h) \/ OpenTimesOut(h)
           \/ Close(h) \/ WriteFrame(h)
  BY <1>1 DEF OpenPath, WriteInit, AcceptInit, RejectInit, OpenTimesOut, OpenFails, Close, WriteFrame
<1>2. CASE SkipBeforeInit(h) \/ SkipStray(h) \/ SkipKeepalive(h) \/ Cancel(h) \/ RejectCall(h)
  BY <1>2 DEF SkipBeforeInit, SkipStray, SkipKeepalive, Cancel, RejectCall, host
<1>3. CASE \/ \E command \in Commands, n \in 0..MaxReqCont : Call(h, command, n)
           \/ ErrorFrame(h) \/ UnexpectedCommand(h) \/ BadContinuation(h) \/ CallFails(h)
  BY <1>3 DEF Call, ErrorFrame, UnexpectedCommand, BadContinuation, CallFails
<1>4. CASE FirstFrame(h) \/ ContinuationFrame(h)
  BY <1>4, ReplyShapes
<1>5. QED
  BY <1>1, <1>2, <1>3, <1>4 DEF Proceed, Invoke

LEMMA OutcomeShapes ==
  ASSUME TypeInv, NEW h \in Handles, Proceed(h) \/ Invoke(h)
  PROVE  \/ outcome'[h] = outcome[h]
         \/ outcome'[h].res \notin Answers
         \/ ErrorFrame(h) /\ outcome'[h] = [res |-> "ctap", frames |-> <<Head(rx[h])>>]
         \/ Complete(h)
<1>. outcome \in [Handles -> [res : Results, frames : Seq(Frame)]]
  BY DEF TypeInv, HostInv, HostOK
<1>1. CASE WriteInit(h) \/ SkipBeforeInit(h) \/ AcceptInit(h) \/ Close(h) \/ Cancel(h)
           \/ WriteFrame(h) \/ SkipStray(h) \/ SkipKeepalive(h)
  BY <1>1 DEF WriteInit, SkipBeforeInit, AcceptInit, Close, Cancel, WriteFrame, SkipStray,
              SkipKeepalive, host
<1>2. CASE \/ OpenPath(h) \/ RejectInit(h) \/ OpenTimesOut(h) \/ RejectCall(h)
           \/ \E command \in Commands, n \in 0..MaxReqCont : Call(h, command, n)
  BY <1>2 DEF OpenPath, RejectInit, OpenTimesOut, OpenFails, RejectCall, Call, Nothing, Answers
<1>3. CASE UnexpectedCommand(h) \/ BadContinuation(h) \/ CallFails(h)
  BY <1>3 DEF UnexpectedCommand, BadContinuation, CallFails, Return, Answers
<1>4. CASE ErrorFrame(h)
  BY <1>4 DEF ErrorFrame, Return
<1>5. CASE FirstFrame(h) \/ ContinuationFrame(h)
  BY <1>5, ReplyShapes DEF Collects
<1>6. QED
  BY <1>1, <1>2, <1>3, <1>4, <1>5 DEF Proceed, Invoke

(* Answers of the right handle. *)

OwnHandle(h) ==
  Answered(h) => \A i \in DOMAIN outcome[h].frames :
    /\ outcome[h].frames[i].from[1] = h
    /\ outcome[h].frames[i].from[2] \leq txn[h]

HandleInv == BodyInv /\ \A h \in Handles : OwnHandle(h)

LEMMA BodyIsOwn ==
  ASSUME TypeInv, ChannelInv, BodyInv, NEW h \in Handles, Open(h), NEW i \in DOMAIN body[h]
  PROVE  body[h][i].from[1] = h /\ body[h][i].from[2] \leq txn[h]
BY DEF BodyInv, ChannelInv, Sent, Nonce

LEMMA HandleHost ==
  ASSUME TypeInv, ChannelInv, HandleInv, NEW h \in Handles, HostStep(h)
  PROVE  HandleInv'
<1>. (Proceed(h) \/ Invoke(h)) /\ UNCHANGED device
  BY DEF HostStep
<1>. WireOK /\ HostOK /\ DeviceOK
  BY DEF TypeInv, HostInv, DeviceInv
<1>. HostOK'
  BY HostHost DEF HostInv
<1>. /\ txn \in [Handles -> Nat] /\ txn' \in [Handles -> Nat]
     /\ body \in [Handles -> Seq(Frame)] /\ chan' = chan
  BY DEF HostOK, device
<1>1. \A g \in Handles : txn[g] \leq txn'[g]
  BY CountersGrow
<1>2. ASSUME NEW f \in Frame, Sent(f, chan, txn)
      PROVE  Sent(f, chan', txn')
  <2>1. f.from[1] \in Handles /\ f.from[2] \in Nat
    BY FrameFields DEF Origin
  <2>2. QED
    BY <1>1, <1>2, <2>1 DEF Sent
<1>3. ASSUME NEW g \in Handles
      PROVE  /\ \A i \in DOMAIN body[g] : body[g][i] \in Frame /\ Sent(body[g][i], chan', txn')
             /\ \A i \in DOMAIN body[g] : body[g][i].cid = cid[g]
             /\ pc[g] # "reading" => body[g] = << >>
  BY <1>2, <1>3, ElementOfSeq, LenProperties DEF HandleInv, BodyInv
<1>4. DOMAIN << >> = {}
  OBVIOUS
<1>5. ASSUME FirstFrame(h) \/ ContinuationFrame(h) \/ ErrorFrame(h)
      PROVE  /\ Mine(h) /\ Open(h) /\ pc[h] = "reading"
             /\ Head(rx[h]) \in Frame /\ Head(rx[h]).cid = cid[h] /\ Sent(Head(rx[h]), chan, txn)
             /\ Head(rx[h]).from[1] = h /\ Head(rx[h]).from[2] \leq txn[h]
  <2>1. Mine(h) /\ pc[h] = "reading" /\ Head(rx[h]).cid = cid[h]
    BY <1>5 DEF FirstFrame, ContinuationFrame, ErrorFrame, First, Later, Mine, Reading
  <2>2. Open(h)
    BY <2>1 DEF Open
  <2>3. QED
    BY <2>1, <2>2, HeadIsOwn
<1>6. ASSUME NEW g \in Handles
      PROVE  /\ pc'[g] # "reading" => body'[g] = << >>
             /\ \A i \in DOMAIN body'[g] : Sent(body'[g][i], chan', txn') /\ body'[g][i].cid = cid'[g]
  <2>1. CASE g # h
    <3>1. body'[g] = body[g] /\ pc'[g] = pc[g] /\ cid'[g] = cid[g]
      BY <2>1, OthersSame DEF Same
    <3>2. QED
      BY <1>3, <3>1
  <2>2. CASE g = h
    <3>1. CASE body'[h] = << >>
      BY <1>4, <2>2, <3>1
    <3>2. CASE body'[h] = body[h] /\ pc[h] # "reading"
      BY <1>3, <1>4, <2>2, <3>2
    <3>3. CASE body'[h] = body[h] /\ pc'[h] = pc[h] /\ cid'[h] = cid[h]
      BY <1>3, <2>2, <3>3
    <3>4. CASE Collects(h)
      <4>1. /\ body'[h] = Append(body[h], Head(rx[h])) /\ pc'[h] = "reading" /\ cid'[h] = cid[h]
            /\ Head(rx[h]) \in Frame /\ Head(rx[h]).cid = cid[h] /\ Sent(Head(rx[h]), chan', txn')
        BY <1>2, <1>5, <3>4 DEF Collects
      <4>2. /\ DOMAIN body'[h] = 1..(Len(body[h]) + 1) /\ Len(body[h]) \in Nat
            /\ DOMAIN body[h] = 1..Len(body[h])
            /\ \A i \in 1..Len(body[h]) : body'[h][i] = body[h][i]
            /\ body'[h][Len(body[h]) + 1] = Head(rx[h])
        BY <4>1, AppendTo
      <4>3. QED
        BY <1>3, <2>2, <4>1, <4>2
    <3>5. QED
      BY <3>1, <3>2, <3>3, <3>4, BodyShapes
  <2>3. QED
    BY <2>1, <2>2
<1>7. ASSUME NEW g \in Handles
      PROVE  OwnHandle(g)'
  <2>1. CASE outcome'[g] = outcome[g]
    <3>1. OwnHandle(g)
      BY DEF HandleInv
    <3>2. outcome[g].frames \in Seq(Frame)
      BY DEF HostOK
    <3>3. \A i \in DOMAIN outcome[g].frames : outcome[g].frames[i].from[2] \in Nat
      BY <3>2, ElementOfSeq, LenProperties, FrameFields DEF Origin
    <3>4. QED
      BY <1>1, <2>1, <3>1, <3>3 DEF OwnHandle, Answered
  <2>2. CASE outcome'[g].res \notin Answers
    BY <2>2 DEF OwnHandle, Answered
  <2>3. CASE g = h /\ ErrorFrame(h) /\ outcome'[h] = [res |-> "ctap", frames |-> <<Head(rx[h])>>]
    <3>1. Head(rx[h]).from[1] = h /\ Head(rx[h]).from[2] \leq txn'[h]
      BY <1>5, <2>3 DEF ErrorFrame, Return
    <3>2. QED
      BY <2>3, <3>1 DEF OwnHandle
  <2>4. CASE g = h /\ Complete(h)
    <3>1. Head(rx[h]).from[1] = h /\ Head(rx[h]).from[2] \leq txn[h] /\ Head(rx[h]) \in Frame /\ Open(h)
      BY <1>5, <2>4 DEF Complete
    <3>2. \A i \in DOMAIN body[h] : body[h][i].from[1] = h /\ body[h][i].from[2] \leq txn[h]
      BY <3>1, BodyIsOwn DEF HandleInv
    <3>3. outcome'[h].frames = Append(body[h], Head(rx[h]))
      BY <2>4 DEF Complete
    <3>4. /\ DOMAIN outcome'[h].frames = 1..(Len(body[h]) + 1) /\ Len(body[h]) \in Nat
          /\ DOMAIN body[h] = 1..Len(body[h])
          /\ \A i \in 1..Len(body[h]) : outcome'[h].frames[i] = body[h][i]
          /\ outcome'[h].frames[Len(body[h]) + 1] = Head(rx[h])
      BY <3>1, <3>3, AppendTo
    <3>5. \A i \in DOMAIN outcome'[h].frames :
             outcome'[h].frames[i].from[1] = h /\ outcome'[h].frames[i].from[2] \leq txn[h]
      <4>1. \A i \in 1..(Len(body[h]) + 1) : i \in 1..Len(body[h]) \/ i = Len(body[h]) + 1
        BY <3>4
      <4>2. QED
        BY <3>1, <3>2, <3>4, <4>1
    <3>6. txn'[h] = txn[h]
      BY <2>4 DEF Complete, FirstFrame, ContinuationFrame, Collect, Return
    <3>7. QED
      BY <2>4, <3>5, <3>6 DEF OwnHandle
  <2>5. QED
    BY <2>1, <2>2, <2>3, <2>4, OthersSame, OutcomeShapes DEF Same
<1>8. BodyInv'
  BY <1>6 DEF BodyInv
<1>9. QED
  BY <1>7, <1>8 DEF HandleInv

LEMMA HandleDevice ==
  ASSUME TypeInv, ChannelInv, HandleInv, DeviceStep
  PROVE  HandleInv'
<1>1. DeviceNext /\ UNCHANGED host
  BY DEF DeviceStep
<1>2. chan' = chan \/ \E o \in Origin : chan' = Append(chan, o)
  <2>1. out # << >> => out[1] \in Frame
    BY DEF TypeInv, WireOK
  <2>2. CASE TakeReport
    BY <2>1, <2>2, FrameFields
       DEF TakeReport, AllocateChannel, RefuseInit, BeginRequest, ContinueRequest,
           RefuseRequest, CancelRequest, IgnoreReport, device
  <2>3. CASE Work
    BY <2>3 DEF Work, Keepalive, ReceiveTimesOut, AbortRequest, Perform, Decline, Emit
  <2>4. QED
    BY <1>1, <2>2, <2>3 DEF DeviceNext
<1>3. \A c \in DOMAIN chan : c \in DOMAIN chan' /\ chan'[c] = chan[c]
  <2>1. chan \in Seq(Origin)
    BY DEF TypeInv, DeviceInv, DeviceOK
  <2>2. ASSUME NEW o \in Origin, chan' = Append(chan, o)
        PROVE  \A c \in DOMAIN chan : c \in DOMAIN chan' /\ chan'[c] = chan[c]
    <3>1. /\ Len(chan) \in Nat /\ DOMAIN chan = 1..Len(chan)
          /\ DOMAIN chan' = 1..(Len(chan) + 1)
          /\ \A i \in 1..Len(chan) : chan'[i] = chan[i]
      BY <2>1, <2>2, AppendTo
    <3>2. QED
      BY <3>1
  <2>3. QED
    BY <1>2, <2>2
<1>4. BodyInv'
  BY <1>1, <1>3 DEF host, HandleInv, BodyInv, Sent
<1>5. \A h \in Handles : OwnHandle(h)'
  BY <1>1 DEF host, HandleInv, OwnHandle, Answered
<1>6. QED
  BY <1>4, <1>5 DEF HandleInv

LEMMA HandleInvariant == Spec => []HandleInv
<1>1. Init => HandleInv
  BY DEF Init, HostInit, HandleInv, BodyInv, OwnHandle, Answered, Answers, Nothing
<1>2. TypeInv /\ ChannelInv /\ HandleInv /\ [Next]_vars => HandleInv'
  <2>. SUFFICES ASSUME TypeInv, ChannelInv, HandleInv, [Next]_vars PROVE HandleInv'
    OBVIOUS
  <2>1. CASE UNCHANGED vars
    BY <2>1 DEF vars, wire, host, device, HandleInv, BodyInv, OwnHandle, Answered, Sent
  <2>2. QED
    BY <2>1, HandleHost, HandleDevice DEF Next
<1>3. QED
  BY <1>1, <1>2, TypeInvariant, ChannelInvariant, PTL DEF Spec

\* Whatever timed out, was lost or was left behind, an answer is never that of a
\* request of another handle, nor of one not sent yet.
THEOREM AnswersStayHome == Spec => []AnswerNeverForeign
<1>1. HandleInv => AnswerNeverForeign
  BY DEF HandleInv, OwnHandle, AnswerNeverForeign, Frames
<1>2. QED
  BY <1>1, HandleInvariant, PTL

-----------------------------------------------------------------------------
(* Requests are carried out once. *)

\* A request is pending because it was, or because a call has just numbered it.
LEMMA PendingSteps ==
  ASSUME TypeInv, NEW h \in Handles, Proceed(h) \/ Invoke(h), Pending(h)'
  PROVE  /\ out' = out
         /\ \/ Pending(h) /\ txn'[h] = txn[h]
            \/ txn'[h] = txn[h] + 1
<1>. /\ pc \in [Handles -> {"closed", "initSend", "initRead", "idle", "writing", "reading"}]
     /\ txn \in [Handles -> Nat] 
     /\ req \in [Handles -> [cmd : Commands \cup {"none"}, n : Nat, next : Nat]]
  BY DEF TypeInv, HostInv, HostOK
<1>. pc'[h] \in {"writing", "reading"} /\ req'[h].next = 0
  BY DEF Pending, Called
<1>1. CASE OpenPath(h) \/ WriteInit(h) \/ AcceptInit(h) \/ RejectInit(h) \/ OpenTimesOut(h) \/ Close(h)
  BY <1>1 DEF OpenPath, WriteInit, AcceptInit, RejectInit, OpenTimesOut, OpenFails, Close,
              Release, Goto
<1>2. CASE SkipBeforeInit(h) \/ SkipStray(h) \/ SkipKeepalive(h) \/ RejectCall(h)
  BY <1>2 DEF SkipBeforeInit, SkipStray, SkipKeepalive, RejectCall, host, wire, Pending, Called
<1>3. CASE \E command \in Commands, n \in 0..MaxReqCont : Call(h, command, n)
  BY <1>3 DEF Call, wire
<1>4. CASE WriteFrame(h)
  <2>1. req'[h].next = req[h].next + 1 /\ req[h].next \in Nat
    BY <1>4 DEF WriteFrame
  <2>2. QED
    BY <2>1
<1>5. CASE Cancel(h)
  BY <1>5 DEF Cancel, host
<1>6. CASE ErrorFrame(h) \/ UnexpectedCommand(h) \/ BadContinuation(h) \/ CallFails(h)
  BY <1>6 DEF ErrorFrame, UnexpectedCommand, BadContinuation, CallFails, Return, Goto
<1>7. CASE FirstFrame(h) \/ ContinuationFrame(h)
  <2>1. Collect(h) /\ pc[h] = "reading"
    BY <1>7 DEF FirstFrame, ContinuationFrame, First, Later, Mine, Reading
  <2>2. QED
    BY <2>1 DEF Collect, Full, Return, Goto, Pending, Called
<1>8. QED
  BY <1>1, <1>2, <1>3, <1>4, <1>5, <1>6, <1>7 DEF Proceed, Invoke

\* Nothing has been sent, given to the device or carried out for a request that
\* a call has just numbered.
LEMMA NewRequestIsFresh ==
  ASSUME TypeInv, ChannelInv, OnceInv, NEW h \in Handles
  PROVE  /\ Fresh(<<h, txn[h] + 1>>)
         /\ \A i \in DOMAIN out : ~FirstReportOf(<<h, txn[h] + 1>>, out[i])
<1>. DEFINE o == <<h, txn[h] + 1>>
<1>. o[1] = h /\ o[2] = txn[h] + 1 /\ txn[h] \in Nat
  BY DEF TypeInv, HostInv, HostOK
<1>1. o \notin performed
  BY DEF OnceInv
<1>2. dev.mode # "idle" => dev.from # o
  BY DEF ChannelInv, Sent
<1>3. ASSUME NEW i \in DOMAIN out, out[i].cmd \in Commands, out[i].from = o
      PROVE  FALSE
  <2>1. "INIT" \notin Commands
    BY FrameAssumption
  <2>2. Sent(out[i], chan, txn)
    BY <1>3, <2>1 DEF ChannelInv, Written
  <2>3. QED
    BY <1>3, <2>2 DEF Sent
<1>4. QED
  BY <1>1, <1>2, <1>3 DEF Fresh, FirstReportOf

LEMMA OnceHost ==
  ASSUME TypeInv, ChannelInv, OnceInv, NEW h \in Handles, HostStep(h)
  PROVE  OnceInv'
<1>. (Proceed(h) \/ Invoke(h)) /\ UNCHANGED device
  BY DEF HostStep
<1>. /\ txn \in [Handles -> Nat] /\ performed \subseteq Origin
     /\ performed' = performed /\ dev' = dev
     /\ pc \in [Handles -> {"closed", "initSend", "initRead", "idle", "writing", "reading"}]
     /\ req \in [Handles -> [cmd : Commands \cup {"none"}, n : Nat, next : Nat]]
  BY DEF TypeInv, HostInv, HostOK, DeviceInv, DeviceOK, device
<1>. txn' \in [Handles -> Nat]
  BY HostHost DEF HostInv, HostOK, TypeInv
<1>1. \A o : Fresh(o)' <=> Fresh(o)
  BY DEF Fresh
<1>2. \A o \in performed' : o[2] \leq txn'[o[1]]
  <2>1. ASSUME NEW o \in performed
        PROVE  o[2] \leq txn'[o[1]]
    <3>1. o[1] \in Handles /\ o[2] \in Nat
      BY DEF Origin
    <3>2. o[2] \leq txn[o[1]] /\ txn[o[1]] \leq txn'[o[1]]
      BY <3>1, CountersGrow DEF OnceInv
    <3>3. QED
      BY <3>1, <3>2
  <2>2. QED
    BY <2>1
<1>3. PerformedAtMostOnce'
  BY DEF OnceInv, PerformedAtMostOnce
\* What a step writes: nothing for a device, or the first report of a pending
\* request, or a report that begins nothing.
<1>4. \/ out' = out
      \/ \E f : /\ out = << >> /\ out' = <<f>>
                /\ f.cmd \in Commands => Pending(h) /\ f.from = Request(h)
                /\ f.cmd \notin Commands \/ ~Pending(h)'
  <2>1. CASE Silent \/ Takes(h) \/ Drops(h)
    BY <2>1 DEF Silent, Takes, Drops
  <2>2. CASE Puts(h)
    <3>1. CASE pc[h] = "initSend" /\ out' = <<Report(Broadcast, "INIT", Nonce(h), 0, "none")>>
      <4>1. Report(Broadcast, "INIT", Nonce(h), 0, "none").cmd \notin Commands
        BY FrameAssumption DEF Report
      <4>2. QED
        BY <2>2, <3>1, <4>1 DEF Puts
    <3>2. CASE pc[h] = "idle" /\ out' = <<Report(cid[h], "CANCEL", Request(h), 0, "none")>>
      <4>1. Report(cid[h], "CANCEL", Request(h), 0, "none").cmd \notin Commands
        BY FrameAssumption DEF Report
      <4>2. QED
        BY <2>2, <3>2, <4>1 DEF Puts
    <3>3. CASE pc[h] = "writing" /\ out' = <<Part(h)>>
      <4>1. Part(h).cmd \in Commands => Pending(h) /\ Part(h).from = Request(h)
        <5>1. CASE req[h].next = 0
          BY <3>3, <5>1 DEF Part, Report, Pending, Called
        <5>2. CASE req[h].next # 0
          BY <5>2, FrameAssumption DEF Part, Report
        <5>3. QED
          BY <5>1, <5>2
      <4>2. ~Pending(h)'
        <5>1. out' # out
          BY <2>2, <3>3 DEF Puts
        <5>2. QED
          BY <5>1, PendingSteps
      <4>3. QED
        BY <2>2, <3>3, <4>1, <4>2 DEF Puts
    <3>4. QED
      BY <2>2, <3>1, <3>2, <3>3 DEF Puts
  <2>3. QED
    BY <2>1, <2>2, QueueShapes
<1>5. ASSUME NEW i \in DOMAIN out', out'[i].cmd \in Commands
      PROVE  Fresh(out'[i].from)
  <2>1. CASE out' = out
    BY <1>5, <2>1 DEF OnceInv
  <2>2. CASE out' # out
    <3>1. PICK f : out' = <<f>> /\ (f.cmd \in Commands => Pending(h) /\ f.from = Request(h))
      BY <1>4, <2>2
    <3>2. out'[i] = f
      BY <3>1
    <3>3. QED
      BY <1>5, <3>1, <3>2 DEF OnceInv
  <2>3. QED
    BY <2>1, <2>2
<1>6. ASSUME NEW g \in Handles, Pending(g)'
      PROVE  /\ Fresh(Request(g)')
             /\ \A i \in DOMAIN out' : ~FirstReportOf(Request(g)', out'[i])
  <2>1. CASE g = h
    <3>1. CASE Pending(h) /\ txn'[h] = txn[h]
      <4>1. Request(h)' = Request(h) /\ out' = out
        BY <1>6, <2>1, <3>1, PendingSteps DEF Request
      <4>2. QED
        BY <2>1, <3>1, <4>1 DEF OnceInv
    <3>2. CASE txn'[h] = txn[h] + 1
      <4>1. Request(h)' = <<h, txn[h] + 1>> /\ out' = out
        BY <1>6, <2>1, <3>2, PendingSteps DEF Request
      <4>2. QED
        BY <2>1, <4>1, NewRequestIsFresh
    <3>3. QED
      BY <1>6, <2>1, <3>1, <3>2, PendingSteps
  <2>2. CASE g # h
    <3>1. Pending(g) /\ Request(g)' = Request(g)
      BY <1>6, <2>2, OthersSame DEF Same, Pending, Called, Request
    <3>2. Fresh(Request(g)) /\ \A i \in DOMAIN out : ~FirstReportOf(Request(g), out[i])
      BY <3>1 DEF OnceInv
    <3>3. CASE out' = out
      BY <3>1, <3>2, <3>3
    <3>4. CASE out' # out
      <4>1. PICK f : out' = <<f>> /\ (f.cmd \in Commands => f.from = Request(h))
        BY <1>4, <3>4
      <4>2. Request(g) # Request(h)
        BY <2>2 DEF Request
      <4>3. \A i \in DOMAIN out' : out'[i] = f
        BY <4>1
      <4>4. QED
        BY <3>1, <3>2, <4>1, <4>2, <4>3 DEF FirstReportOf
    <3>5. QED
      BY <3>3, <3>4
  <2>3. QED
    BY <2>1, <2>2
<1>7. ASSUME NEW g \in Handles, Pending(g)'
      PROVE  Fresh(Request(g))' /\ \A i \in DOMAIN out' : ~FirstReportOf(Request(g), out[i])'
  BY <1>1, <1>6, <1>7 DEF FirstReportOf, Fresh
<1>8. \A i \in DOMAIN out' : out'[i].cmd \in Commands => Fresh(out[i].from)'
  BY <1>5 DEF Fresh
<1>9. QED
  BY <1>2, <1>3, <1>7, <1>8 DEF OnceInv

LEMMA OnceDevice ==
  ASSUME TypeInv, ChannelInv, OnceInv, DeviceStep
  PROVE  OnceInv'
<1>. DeviceNext /\ pc' = pc /\ txn' = txn /\ req' = req
  BY DEF DeviceStep, host
<1>. \A h \in Handles : (Pending(h)' <=> Pending(h)) /\ Request(h)' = Request(h)
  BY DEF Pending, Called, Request
<1>1. CASE /\ performed' = performed /\ (out' = out \/ out' = << >>)
           /\ \/ dev'.mode = "idle"
              \/ /\ dev.mode # "idle" /\ dev'.from = dev.from
                 /\ dev'.mode \in {"receive", "busy"} => dev.mode \in {"receive", "busy"}
              \/ dev' = dev
  <2>1. \A o : Fresh(o) => Fresh(o)'
    BY <1>1 DEF Fresh
  <2>2. \A i \in DOMAIN out' : i \in DOMAIN out /\ out'[i] = out[i]
    BY <1>1
  <2>3. PerformedAtMostOnce'
    BY <1>1 DEF OnceInv, PerformedAtMostOnce
  <2>4. \A h \in Handles : Fresh(Request(h)) => Fresh(Request(h))'
    BY <2>1 DEF Fresh
  <2>5. \A i \in DOMAIN out' : out'[i].cmd \in Commands => Fresh(out[i].from)'
    BY <2>1, <2>2 DEF OnceInv, Fresh
  <2>6. QED
    BY <1>1, <2>2, <2>3, <2>4, <2>5 DEF OnceInv, FirstReportOf
<1>2. ASSUME NEW f, BeginRequest(f)
      PROVE  OnceInv'
  <2>1. /\ out = <<f>> /\ out' = << >> /\ f.cmd \in Commands /\ performed' = performed
        /\ dev'.from = f.from
    BY <1>2 DEF BeginRequest, Taking, Transaction
  <2>2. Fresh(f.from)
    BY <2>1 DEF OnceInv
  <2>3. PerformedAtMostOnce'
    BY <2>1, <2>2 DEF Fresh, PerformedAtMostOnce
  <2>4. \A h \in Handles : Pending(h) => Fresh(Request(h))'
    BY <2>1 DEF OnceInv, Fresh, FirstReportOf
  <2>5. QED
    BY <2>1, <2>3, <2>4 DEF OnceInv
<1>3. ASSUME NEW n, NEW s, Perform(n, s)
      PROVE  OnceInv'
  <2>1. /\ dev.mode = "busy" /\ out' = out /\ performed' = performed \cup {dev.from}
        /\ dev'.from = dev.from /\ dev'.mode = "reply"
    BY <1>3 DEF Perform, Replying, wire, TypeInv, DeviceInv, DeviceOK
  <2>2. dev.from[2] \leq txn[dev.from[1]]
    BY <2>1 DEF ChannelInv, Sent
  <2>3. \A o \in performed' : o[2] \leq txn'[o[1]]
    BY <2>1, <2>2 DEF OnceInv
  <2>4. PerformedAtMostOnce'
    BY <2>1 DEF PerformedAtMostOnce
  <2>5. \A o : Fresh(o) => Fresh(o)'
    BY <2>1 DEF Fresh
  <2>6. \A h \in Handles : Fresh(Request(h)) => Fresh(Request(h))'
    BY <2>5 DEF Fresh
  <2>7. \A i \in DOMAIN out' : out'[i].cmd \in Commands => Fresh(out[i].from)'
    BY <2>1, <2>5 DEF OnceInv, Fresh
  <2>8. QED
    BY <2>1, <2>3, <2>4, <2>6, <2>7 DEF OnceInv, FirstReportOf
<1>4. CASE TakeReport
  <2>1. PICK f : \/ AllocateChannel(f) \/ RefuseInit(f) \/ BeginRequest(f)
                 \/ ContinueRequest(f) \/ RefuseRequest(f) \/ CancelRequest(f)
                 \/ IgnoreReport(f)
    BY <1>4 DEF TakeReport
  <2>2. CASE AllocateChannel(f) \/ RefuseInit(f) \/ IgnoreReport(f)
    BY <1>1, <2>2 DEF AllocateChannel, RefuseInit, IgnoreReport, Taking, device
  <2>3. CASE ContinueRequest(f)
    BY <1>1, <2>3 DEF ContinueRequest, InSequenceOf, Taking, TypeInv, DeviceInv, DeviceOK
  <2>4. CASE RefuseRequest(f)
    BY <1>1, <2>4 DEF RefuseRequest, Taking, Idle
  <2>5. CASE CancelRequest(f)
    BY <1>1, <2>5 DEF CancelRequest, InFlightOn, Replying, Taking, TypeInv, DeviceInv, DeviceOK
  <2>6. QED
    BY <1>2, <2>1, <2>2, <2>3, <2>4, <2>5
<1>5. CASE Work
  <2>. dev \in [mode : Modes, cid : Nat, from : Origin \cup {NoOrigin},
                cmd : Commands \cup {"none"}, n : Nat, next : Nat, st : Status, ka : Nat]
    BY DEF TypeInv, DeviceInv, DeviceOK
  <2>1. CASE Keepalive
    BY <1>1, <2>1 DEF Keepalive
  <2>2. CASE ReceiveTimesOut \/ AbortRequest
    BY <1>1, <2>2 DEF ReceiveTimesOut, AbortRequest, Idle
  <2>3. CASE \E s \in {"failure", "missing"} : Decline(s)
    BY <1>1, <2>3 DEF Decline, Replying, wire
  <2>4. CASE Emit
    BY <1>1, <2>4 DEF Emit, Idle
  <2>5. QED
    BY <1>3, <1>5, <2>1, <2>2, <2>3, <2>4 DEF Work
<1>6. QED
  BY <1>4, <1>5 DEF DeviceNext

LEMMA OnceInvariant == Spec => []OnceInv
<1>1. Init => OnceInv
  BY DEF Init, HostInit, DeviceInit, Idle, OnceInv, PerformedAtMostOnce, Pending, Called
<1>2. TypeInv /\ ChannelInv /\ OnceInv /\ [Next]_vars => OnceInv'
  <2>. SUFFICES ASSUME TypeInv, ChannelInv, OnceInv, [Next]_vars PROVE OnceInv'
    OBVIOUS
  <2>1. CASE UNCHANGED vars
    BY <2>1 DEF vars, wire, host, device, OnceInv, PerformedAtMostOnce, Fresh, Pending, Called,
                Request, FirstReportOf
  <2>2. QED
    BY <2>1, OnceHost, OnceDevice DEF Next
<1>3. QED
  BY <1>1, <1>2, TypeInvariant, ChannelInvariant, PTL DEF Spec

\* The device never begins a request it has already carried out: nothing in
\* send_message or recv_message sends a request again, whatever fails.
THEOREM CarriedOutAtMostOnce == Spec => []PerformedAtMostOnce
<1>1. OnceInv => PerformedAtMostOnce
  BY DEF OnceInv
<1>2. QED
  BY <1>1, OnceInvariant, PTL
=============================================================================
