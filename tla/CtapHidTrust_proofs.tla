------------------------- MODULE CtapHidTrust_proofs -------------------------
(***************************************************************************)
(* The answer of a Transport whose calls have not failed is that of the    *)
(* request just sent, and nothing is left behind between its calls.        *)
(***************************************************************************)
EXTENDS CtapHid_proofs

LEMMA CommandsApart ==
  /\ "INIT" \notin Commands /\ "CANCEL" \notin Commands /\ "KEEPALIVE" \notin Commands
  /\ "ERROR" \notin Commands /\ "CONT" \notin Commands
BY FrameAssumption

\* The channel of an open handle is one that was granted to it.
LEMMA OwnChannel ==
  ASSUME TypeInv, ChannelInv, NEW h \in Handles, Open(h)
  PROVE  cid[h] \in DOMAIN chan /\ chan[cid[h]] = Nonce(h) /\ cid[h] # Broadcast
<1>1. cid[h] \in DOMAIN chan /\ chan[cid[h]] = Nonce(h) /\ chan \in Seq(Origin)
  BY DEF ChannelInv, TypeInv, DeviceInv, DeviceOK
<1>2. QED
  BY <1>1, LenProperties DEF Broadcast

(* Answers that are earned. *)

\* Every report the device delivers is earned, and so is the reply it has begun.
LEMMA DeliveredIsEarned ==
  ASSUME TypeInv, EarnedInv, DeviceNext
  PROVE  /\ performed \subseteq performed'
         /\ dev'.mode = "reply" => EarnedReply'
         /\ \/ rx' = rx
            \/ \E f \in Frame : Deliver(f) /\ Earned(f, performed')
<1>. /\ dev \in [mode : Modes, cid : Nat, from : Origin \cup {NoOrigin},
                 cmd : Commands \cup {"none"}, n : Nat, next : Nat, st : Status, ka : Nat]
     /\ dev.mode # "idle" => dev.cmd \in Commands /\ dev.from \in Origin
     /\ chan \in Seq(Origin)
  BY DEF TypeInv, DeviceInv, DeviceOK
<1>. "none" \in Status /\ "failure" \in Status /\ Broadcast \in Nat /\ 0 \in Nat
  BY DEF Status, Broadcast
<1>. "INIT" \in AllCommands /\ "ERROR" \in AllCommands /\ "KEEPALIVE" \in AllCommands
     /\ "CONT" \in AllCommands /\ Commands \subseteq AllCommands
  BY DEF AllCommands
<1>1. ASSUME NEW c \in Nat, NEW command \in {"INIT", "ERROR", "KEEPALIVE"},
             NEW o \in Origin, NEW n \in Nat, NEW s \in Status
      PROVE  Report(c, command, o, n, s) \in Frame /\ Earned(Report(c, command, o, n, s), performed')
  <2>1. Report(c, command, o, n, s) \in Frame
    BY ReportIsFrame
  <2>2. Report(c, command, o, n, s).cmd \notin Commands \cup {"CONT"}
    BY CommandsApart DEF Report
  <2>3. QED
    BY <2>1, <2>2 DEF Earned
\* A reply without continuations to a request that was not carried out.
<1>2. ASSUME dev.mode = "busy", dev.cmd = "CBOR", NEW s \in {"failure", "missing"}, dev' = Replying(0, s)
      PROVE  EarnedReply'
  <2>1. /\ dev'.cmd = "CBOR" /\ dev'.st = s /\ dev'.n = 0 /\ dev'.next = 0
    BY <1>2 DEF Replying
  <2>2. ResultOf("CBOR", s) # "ok"
    BY <1>2 DEF ResultOf
  <2>3. QED
    BY <2>1, <2>2 DEF EarnedReply, Earned
<1>3. ASSUME dev' = dev, performed' = performed
      PROVE  dev'.mode = "reply" => EarnedReply'
  BY <1>3 DEF EarnedInv, EarnedReply
<1>4. CASE TakeReport
  <2>1. PICK f \in Frame : \/ AllocateChannel(f) \/ RefuseInit(f) \/ BeginRequest(f)
                           \/ ContinueRequest(f) \/ RefuseRequest(f) \/ CancelRequest(f)
                           \/ IgnoreReport(f)
    <3>1. out # << >> => out[1] \in Frame
      BY DEF TypeInv, WireOK
    <3>2. QED
      BY <1>4, <3>1 DEF TakeReport
  <2>2. f.from \in Origin /\ f.cid \in Nat
    BY FrameFields
  <2>3. CASE AllocateChannel(f)
    <3>1. Len(chan) + 1 \in Nat
      BY LenProperties
    <3>2. QED
      BY <1>1, <1>3, <2>2, <2>3, <3>1 DEF AllocateChannel
  <2>4. CASE RefuseInit(f)
    BY <1>1, <1>3, <2>2, <2>4 DEF RefuseInit, device
  <2>5. CASE BeginRequest(f)
    BY <2>5 DEF BeginRequest, Transaction
  <2>6. CASE ContinueRequest(f)
    BY <2>6 DEF ContinueRequest, InSequenceOf
  <2>7. CASE RefuseRequest(f)
    BY <1>1, <1>3, <2>2, <2>7 DEF RefuseRequest, Idle
  <2>8. CASE CancelRequest(f)
    <3>1. dev.mode = "busy" /\ dev.cmd = "CBOR" /\ dev' = Replying(0, "failure") /\ rx' = rx
          /\ performed' = performed
      BY <2>8 DEF CancelRequest, InFlightOn
    <3>2. QED
      BY <1>2, <3>1
  <2>9. CASE IgnoreReport(f)
    BY <1>3, <2>9 DEF IgnoreReport, device
  <2>10. QED
    BY <2>1, <2>3, <2>4, <2>5, <2>6, <2>7, <2>8, <2>9
<1>5. CASE Work
  <2>1. CASE Keepalive
    BY <1>1, <2>1 DEF Keepalive
  <2>2. CASE ReceiveTimesOut \/ AbortRequest
    BY <1>1, <2>2 DEF ReceiveTimesOut, AbortRequest, Abort, Idle
  <2>3. ASSUME NEW n \in 0..MaxCont, NEW s, Perform(n, s)
        PROVE  /\ dev'.mode = "reply" /\ EarnedReply' /\ rx' = rx /\ performed \subseteq performed'
    <3>1. /\ dev'.n = n /\ dev'.next = 0 /\ dev'.from = dev.from /\ dev.from \in performed'
          /\ rx' = rx /\ performed \subseteq performed' /\ dev'.mode = "reply"
      BY <2>3 DEF Perform, Replying, wire
    <3>2. 0 \leq n
      OBVIOUS
    <3>3. QED
      BY <3>1, <3>2 DEF EarnedReply, Earned
  <2>4. CASE \E s \in {"failure", "missing"} : Decline(s)
    BY <1>2, <2>4 DEF Decline, wire
  <2>5. CASE Emit
    <3>1. /\ dev.mode = "reply" /\ performed' = performed /\ Deliver(ReplyPart)
          /\ dev' = IF dev.next = dev.n THEN Idle ELSE [dev EXCEPT !.next = @ + 1]
          /\ dev.next \in Nat /\ dev.n \in Nat /\ dev.cmd \in Commands
      BY <2>5 DEF Emit
    <3>2. /\ Earned(dev, performed) /\ dev.next \leq dev.n
          /\ dev.n # 0 => dev.from \in performed
      BY <3>1 DEF EarnedInv, EarnedReply
    <3>3. dev'.mode = "reply" => EarnedReply'
      <4>1. CASE dev.next = dev.n
        BY <3>1, <4>1 DEF Idle
      <4>2. CASE dev.next # dev.n
        <5>1. /\ dev'.next = dev.next + 1 /\ dev'.n = dev.n /\ dev'.from = dev.from
              /\ dev'.cmd = dev.cmd /\ dev'.st = dev.st
          BY <3>1, <4>2
        <5>2. dev.next + 1 \leq dev.n
          BY <3>1, <3>2, <4>2
        <5>3. QED
          BY <3>1, <3>2, <5>1, <5>2 DEF EarnedReply, Earned
      <4>3. QED
        BY <4>1, <4>2
    <3>4. CASE dev.next = 0
      <4>1. ReplyPart \in Frame
        BY <3>1, <3>4, ReportIsFrame DEF ReplyPart
      <4>2. Earned(ReplyPart, performed')
        BY <3>1, <3>2, <3>4 DEF ReplyPart, Report, Earned
      <4>3. QED
        BY <3>1, <3>3, <4>1, <4>2
    <3>5. CASE dev.next # 0
      <4>1. dev.next - 1 \in Nat /\ dev.n # 0
        BY <3>1, <3>2, <3>5
      <4>2. ReplyPart \in Frame
        BY <3>1, <3>5, <4>1, ReportIsFrame DEF ReplyPart
      <4>3. Earned(ReplyPart, performed')
        BY <3>1, <3>2, <3>5, <4>1 DEF ReplyPart, Report, Earned
      <4>4. QED
        BY <3>1, <3>3, <4>2, <4>3
    <3>6. QED
      BY <3>4, <3>5
  <2>6. QED
    BY <1>5, <2>1, <2>2, <2>3, <2>4, <2>5 DEF Work
<1>6. QED
  BY <1>4, <1>5 DEF DeviceNext

LEMMA EarnedDevice ==
  ASSUME TypeInv, EarnedInv, DeviceStep
  PROVE  EarnedInv'
<1>1. DeviceNext /\ body' = body /\ WireOK
  BY DEF DeviceStep, host, TypeInv
<1>2. performed \subseteq performed' /\ (dev'.mode = "reply" => EarnedReply')
  BY <1>1, DeliveredIsEarned
<1>3. ASSUME NEW h \in Handles, NEW i \in DOMAIN rx'[h]
      PROVE  Earned(rx'[h][i], performed')
  <2>1. CASE rx' = rx
    BY <1>2, <1>3, <2>1 DEF EarnedInv, Earned
  <2>2. CASE \E f \in Frame : Deliver(f) /\ Earned(f, performed')
    <3>1. PICK f \in Frame : Deliver(f) /\ Earned(f, performed')
      BY <2>2
    <3>2. (i \in DOMAIN rx[h] /\ rx'[h][i] = rx[h][i]) \/ rx'[h][i] = f
      BY <1>1, <3>1, AfterDeliver
    <3>3. QED
      BY <1>2, <3>1, <3>2 DEF EarnedInv, Earned
  <2>3. QED
    BY <1>1, <2>1, <2>2, DeliveredIsEarned
<1>4. \A h \in Handles : \A i \in DOMAIN body'[h] : Earned(body'[h][i], performed')
  BY <1>1, <1>2 DEF EarnedInv, Earned
<1>5. QED
  BY <1>2, <1>3, <1>4 DEF EarnedInv, EarnedReply

\* Reports leave a queue and enter no other one.
LEMMA HostQueues ==
  ASSUME TypeInv, NEW h \in Handles, Proceed(h) \/ Invoke(h), NEW g \in Handles,
         NEW i \in DOMAIN rx'[g]
  PROVE  \E j \in DOMAIN rx[g] : rx'[g][i] = rx[g][j]
<1>. WireOK /\ rx \in [Handles -> Seq(Frame)]
  BY DEF TypeInv, WireOK
<1>1. CASE rx' = rx
  BY <1>1
<1>2. CASE Takes(h)
  BY <1>2, AfterTake
<1>3. CASE Drops(h)
  BY <1>3 DEF Drops
<1>4. QED
  BY <1>1, <1>2, <1>3, QueueShapes DEF Silent, Puts

LEMMA EarnedHost ==
  ASSUME TypeInv, EarnedInv, NEW h \in Handles, HostStep(h)
  PROVE  EarnedInv'
<1>1. (Proceed(h) \/ Invoke(h)) /\ dev' = dev /\ performed' = performed
  BY DEF HostStep, device
<1>2. WireOK /\ body \in [Handles -> Seq(Frame)]
  BY DEF TypeInv, HostInv, HostOK
<1>3. \A g \in Handles : \A i \in DOMAIN rx'[g] : Earned(rx'[g][i], performed')
  BY <1>1, HostQueues DEF EarnedInv
<1>4. ASSUME NEW g \in Handles, NEW i \in DOMAIN body'[g]
      PROVE  Earned(body'[g][i], performed')
  <2>1. CASE body'[g] = body[g]
    BY <1>1, <1>4, <2>1 DEF EarnedInv
  <2>2. CASE g = h /\ Collects(h)
    <3>1. Head(rx[h]) = rx[h][1] /\ 1 \in DOMAIN rx[h] /\ Head(rx[h]) \in Frame
          /\ body'[h] = Append(body[h], Head(rx[h]))
      BY <1>2, <2>2, HeadOf DEF Collects, FirstFrame, ContinuationFrame, First, Later, Mine, Reading
    <3>2. /\ DOMAIN body'[h] = 1..(Len(body[h]) + 1) /\ Len(body[h]) \in Nat
          /\ DOMAIN body[h] = 1..Len(body[h])
          /\ \A k \in 1..Len(body[h]) : body'[h][k] = body[h][k]
          /\ body'[h][Len(body[h]) + 1] = Head(rx[h])
      BY <1>2, <3>1, AppendTo
    <3>3. (i \in DOMAIN body[h] /\ body'[h][i] = body[h][i]) \/ body'[h][i] = rx[h][1]
      BY <1>4, <2>2, <3>1, <3>2
    <3>4. QED
      BY <1>1, <2>2, <3>1, <3>3 DEF EarnedInv
  <2>3. CASE g = h /\ body'[h] = << >>
    BY <1>4, <2>3
  <2>4. QED
    BY <1>1, <2>1, <2>2, <2>3, BodyShapes, OthersSame DEF Same
<1>5. QED
  BY <1>1, <1>3, <1>4 DEF EarnedInv, EarnedReply

(* Opens that still wait for their channel. *)

Opening(h) == pc[h] \in {"initSend", "initRead"}

LEMMA OpeningSteps ==
  ASSUME TypeInv, NEW h \in Handles, Proceed(h) \/ Invoke(h), Opening(h)'
  PROVE  \/ opens'[h] = opens[h] + 1 /\ pc[h] = "closed"
         \/ /\ Opening(h) /\ opens'[h] = opens[h]
            /\ out' = out \/ out' = <<Report(Broadcast, "INIT", Nonce(h), 0, "none")>>
<1>. /\ pc \in [Handles -> {"closed", "initSend", "initRead", "idle", "writing", "reading"}]
     /\ opens \in [Handles -> Nat]
     /\ pc'[h] \in {"initSend", "initRead"}
  BY DEF TypeInv, HostInv, HostOK, Opening
<1>1. CASE OpenPath(h)
  BY <1>1 DEF OpenPath
<1>2. CASE WriteInit(h)
  BY <1>2 DEF WriteInit, Put, Opening
<1>3. CASE SkipBeforeInit(h)
  BY <1>3 DEF SkipBeforeInit, host, Opening
<1>4. CASE AcceptInit(h) \/ RejectInit(h) \/ OpenTimesOut(h) \/ Close(h) \/ WriteFrame(h)
  BY <1>4 DEF AcceptInit, RejectInit, OpenTimesOut, OpenFails, Close, Release, Goto, WriteFrame
<1>5. CASE SkipStray(h) \/ SkipKeepalive(h) \/ RejectCall(h) \/ Cancel(h)
  BY <1>5 DEF SkipStray, SkipKeepalive, RejectCall, Cancel, First, Mine, Reading, host
<1>6. CASE \/ \E command \in Commands, n \in 0..MaxReqCont : Call(h, command, n)
           \/ ErrorFrame(h) \/ UnexpectedCommand(h) \/ BadContinuation(h) \/ CallFails(h)
  BY <1>6 DEF Call, ErrorFrame, UnexpectedCommand, BadContinuation, CallFails, Return, Goto
<1>7. CASE FirstFrame(h) \/ ContinuationFrame(h)
  BY <1>7 DEF FirstFrame, ContinuationFrame, First, Later, Mine, Reading, Collect, Full, Return, Goto
<1>8. QED
  BY <1>1, <1>2, <1>3, <1>4, <1>5, <1>6, <1>7 DEF Proceed, Invoke

\* What a host step writes is of its own channel, or broadcast.
LEMMA WritesOwn ==
  ASSUME TypeInv, NEW h \in Handles, Proceed(h) \/ Invoke(h)
  PROVE  \/ out' = out
         \/ \E f : out = << >> /\ out' = <<f>> /\ (f.cid = Broadcast \/ (Open(h) /\ f.cid = cid[h]))
<1>1. CASE Silent \/ Takes(h) \/ Drops(h)
  BY <1>1 DEF Silent, Takes, Drops
<1>2. CASE Puts(h)
  <2>1. /\ Part(h).cid = cid[h]
        /\ Report(Broadcast, "INIT", Nonce(h), 0, "none").cid = Broadcast
        /\ Report(cid[h], "CANCEL", Request(h), 0, "none").cid = cid[h]
    BY DEF Part, Report
  <2>2. QED
    BY <1>2, <2>1 DEF Puts, Open
<1>3. QED
  BY <1>1, <1>2, QueueShapes

Unused(h, c) == NoneOn(c, out) /\ NoneOn(c, rx[h]) /\ dev.cid # c

LEMMA UnusedHost ==
  ASSUME TypeInv, ChannelInv, UnusedInv, NEW h \in Handles, HostStep(h)
  PROVE  UnusedInv'
<1>1. (Proceed(h) \/ Invoke(h)) /\ dev' = dev /\ chan' = chan
  BY DEF HostStep, device
<1>. opens \in [Handles -> Nat] /\ chan \in Seq(Origin) /\ WireOK
  BY DEF TypeInv, HostInv, HostOK, DeviceInv, DeviceOK
<1>2. \A c \in DOMAIN chan : c # Broadcast
  BY LenProperties DEF Broadcast
<1>3. ASSUME NEW g \in Handles, NEW c \in DOMAIN chan, Unused(g, c),
             NEW f, out' = <<f>>, f.cid # c
      PROVE  NoneOn(c, out')
  BY <1>3 DEF NoneOn
<1>4. ASSUME NEW g \in Handles, NEW c \in DOMAIN chan, Opening(g)', chan[c] = Nonce(g)'
      PROVE  Unused(g, c)'
  <2>1. Opening(g) /\ opens'[g] = opens[g]
    <3>1. CASE g = h
      <4>1. opens'[h] # opens[h] + 1
        BY <1>4, <3>1 DEF ChannelInv, Nonce
      <4>2. QED
        BY <1>1, <1>4, <3>1, <4>1, OpeningSteps
    <3>2. CASE g # h
      BY <1>1, <1>4, <3>2, OthersSame DEF Same, Opening
    <3>3. QED
      BY <3>1, <3>2
  <2>2. Unused(g, c) /\ chan[c] = Nonce(g)
    BY <1>4, <2>1 DEF UnusedInv, Opening, Unused, Nonce
  <2>3. NoneOn(c, rx'[g])
    BY <1>1, <2>2, HostQueues DEF NoneOn, Unused
  <2>4. CASE out' = out
    BY <1>1, <2>2, <2>3, <2>4 DEF Unused, NoneOn
  <2>5. CASE out' # out
    <3>1. PICK f : out' = <<f>> /\ (f.cid = Broadcast \/ (Open(h) /\ f.cid = cid[h]))
      BY <1>1, <2>5, WritesOwn
    <3>2. Open(h) => chan[cid[h]] = Nonce(h)
      BY DEF ChannelInv
    <3>3. g = h => ~Open(h)
      BY <2>1 DEF Opening, Open
    <3>4. f.cid # c
      BY <1>2, <2>2, <3>1, <3>2, <3>3 DEF Nonce
    <3>5. NoneOn(c, out')
      BY <1>3, <2>2, <3>1, <3>4
    <3>6. QED
      BY <1>1, <2>2, <2>3, <3>5 DEF Unused, NoneOn
  <2>6. QED
    BY <2>4, <2>5
<1>5. QED
  BY <1>1, <1>4 DEF UnusedInv, Unused, Opening

(* A step of the device is about a channel, or it leaves the channel alone. *)

TakesFrom(c) ==
  \E f \in Frame :
    /\ f.cid = c
    /\ BeginRequest(f) \/ ContinueRequest(f) \/ RefuseRequest(f) \/ CancelRequest(f)

WorksOn(c) == dev.cid = c /\ Work

Elsewhere(c) ==
  /\ out' = out \/ out' = << >>
  /\ dev' = dev \/ (dev.cid # c /\ dev'.cid # c)
  /\ rx' = rx \/ \E f \in Frame : Deliver(f) /\ f.cid # c

\* The reports the device delivers.
Delivered(c, command, o, n, s) ==
  /\ Report(c, command, o, n, s) \in Frame
  /\ Report(c, command, o, n, s).cid = c /\ Report(c, command, o, n, s).cmd = command
  /\ Report(c, command, o, n, s).from = o /\ Report(c, command, o, n, s).arg = n

LEMMA DeliveredFields ==
  ASSUME NEW c \in Nat, NEW command \in AllCommands, NEW o \in Origin,
         NEW n \in Nat, NEW s \in Status
  PROVE  Delivered(c, command, o, n, s)
<1>1. Report(c, command, o, n, s) \in Frame
  BY ReportIsFrame
<1>2. QED
  BY <1>1 DEF Delivered, Report

LEMMA BroadcastDelivered ==
  ASSUME NEW o \in Origin, NEW n \in Nat
  PROVE  Delivered(Broadcast, "INIT", o, n, "none")
BY DeliveredFields DEF Broadcast, AllCommands, Status

LEMMA ErrorDelivered ==
  ASSUME NEW c \in Nat, NEW o \in Origin
  PROVE  Delivered(c, "ERROR", o, 0, "failure")
BY DeliveredFields DEF AllCommands, Status

LEMMA WorkDelivered ==
  ASSUME TypeInv, dev.mode # "idle"
  PROVE  /\ Delivered(dev.cid, "KEEPALIVE", dev.from, 0, "none")
         /\ Delivered(dev.cid, "ERROR", dev.from, 0, "failure")
         /\ [dev EXCEPT !.ka = @ + 1].cid = dev.cid
         /\ ReplyPart \in Frame /\ ReplyPart.cid = dev.cid /\ ReplyPart.from = dev.from
         /\ dev.next = 0 => ReplyPart.cmd = dev.cmd /\ ReplyPart.arg = dev.n
         /\ dev.next # 0 => ReplyPart.cmd = "CONT" /\ ReplyPart.arg = dev.next - 1
<1>1. /\ dev \in [mode : Modes, cid : Nat, from : Origin \cup {NoOrigin},
                  cmd : Commands \cup {"none"}, n : Nat, next : Nat, st : Status, ka : Nat]
      /\ dev.cmd \in Commands /\ dev.from \in Origin
  BY DEF TypeInv, DeviceInv, DeviceOK
<1>2. /\ dev.cid \in Nat /\ dev.n \in Nat /\ dev.next \in Nat /\ dev.st \in Status
      /\ dev.cmd \in AllCommands /\ dev.from \in Origin
  BY <1>1 DEF AllCommands
<1>3. /\ Delivered(dev.cid, "KEEPALIVE", dev.from, 0, "none")
      /\ Delivered(dev.cid, "ERROR", dev.from, 0, "failure")
  BY <1>2, DeliveredFields DEF AllCommands, Status
<1>4. [dev EXCEPT !.ka = @ + 1].cid = dev.cid
  BY <1>1
<1>5. CASE dev.next = 0
  <2>1. Delivered(dev.cid, dev.cmd, dev.from, dev.n, dev.st)
    BY <1>2, DeliveredFields
  <2>2. QED
    BY <1>3, <1>4, <1>5, <2>1 DEF ReplyPart, Delivered
<1>6. CASE dev.next # 0
  <2>1. dev.next - 1 \in Nat
    BY <1>2, <1>6
  <2>2. Delivered(dev.cid, "CONT", dev.from, dev.next - 1, "none")
    BY <1>2, <2>1, DeliveredFields DEF AllCommands, Status
  <2>3. QED
    BY <1>3, <1>4, <1>6, <2>2 DEF ReplyPart, Delivered
<1>7. QED
  BY <1>5, <1>6

LEMMA DeviceOnChannel ==
  ASSUME TypeInv, ChannelInv, DeviceNext, NEW c \in Nat \ {0}
  PROVE  TakesFrom(c) \/ WorksOn(c) \/ Elsewhere(c)
<1>0. Idle.cid # c /\ Broadcast # c
  BY DEF Idle, Broadcast
<1>1. ASSUME NEW f, f.cid # c, Deliver(f), f \in Frame, out' = out \/ out' = << >>,
             dev' = dev \/ (dev.cid # c /\ dev'.cid # c)
      PROVE  Elsewhere(c)
  BY <1>1 DEF Elsewhere
<1>2. CASE TakeReport
  <2>1. PICK f \in Frame : \/ AllocateChannel(f) \/ RefuseInit(f) \/ BeginRequest(f)
                           \/ ContinueRequest(f) \/ RefuseRequest(f) \/ CancelRequest(f)
                           \/ IgnoreReport(f)
    <3>1. out # << >> => out[1] \in Frame
      BY DEF TypeInv, WireOK
    <3>2. QED
      BY <1>2, <3>1 DEF TakeReport
  <2>2. f.from \in Origin /\ f.cid \in Nat
    BY FrameFields
  <2>3. CASE AllocateChannel(f)
    <3>1. Delivered(Broadcast, "INIT", f.from, Len(chan) + 1, "none")
      BY <2>2, LenProperties, BroadcastDelivered DEF TypeInv, DeviceInv, DeviceOK
    <3>2. QED
      BY <1>0, <1>1, <2>3, <3>1 DEF AllocateChannel, Taking, Delivered
  <2>4. CASE RefuseInit(f)
    <3>1. Delivered(Broadcast, "ERROR", f.from, 0, "failure")
      BY <2>2, ErrorDelivered DEF Broadcast
    <3>2. QED
      BY <1>0, <1>1, <2>4, <3>1 DEF RefuseInit, device, Taking, Delivered
  <2>5. CASE IgnoreReport(f)
    BY <2>5 DEF IgnoreReport, device, Taking, Elsewhere
  <2>6. CASE f.cid # c /\ BeginRequest(f)
    <3>1. dev'.cid = f.cid /\ rx' = rx /\ out' = << >> /\ dev.mode = "idle"
      BY <2>6 DEF BeginRequest, Transaction, Taking
    <3>2. CASE dev.cid # c
      BY <2>6, <3>1, <3>2 DEF Elsewhere
    <3>3. CASE dev.cid = c
      BY <1>0, <3>1, <3>3 DEF ChannelInv
    <3>4. QED
      BY <3>2, <3>3
  <2>7. CASE f.cid # c /\ ContinueRequest(f)
    BY <2>7 DEF ContinueRequest, InSequenceOf, Taking, Elsewhere
  <2>8. CASE f.cid # c /\ RefuseRequest(f)
    <3>1. Delivered(f.cid, "ERROR", f.from, 0, "failure")
      BY <2>2, ErrorDelivered
    <3>2. QED
      BY <1>0, <1>1, <2>8, <3>1 DEF RefuseRequest, Taking, Delivered
  <2>9. CASE f.cid # c /\ CancelRequest(f)
    BY <2>9 DEF CancelRequest, InFlightOn, Replying, Taking, Elsewhere
  <2>10. QED
    BY <2>1, <2>3, <2>4, <2>5, <2>6, <2>7, <2>8, <2>9 DEF TakesFrom
<1>3. CASE dev.cid # c /\ Work
  <2>1. CASE Keepalive
    <3>1. Delivered(dev.cid, "KEEPALIVE", dev.from, 0, "none") /\ dev'.cid = dev.cid
      BY <2>1, WorkDelivered DEF Keepalive
    <3>2. QED
      BY <1>1, <1>3, <2>1, <3>1 DEF Keepalive, Delivered
  <2>2. CASE ReceiveTimesOut \/ AbortRequest
    <3>1. Delivered(dev.cid, "ERROR", dev.from, 0, "failure")
      BY <2>2, WorkDelivered DEF ReceiveTimesOut, AbortRequest
    <3>2. QED
      BY <1>0, <1>1, <1>3, <2>2, <3>1 DEF ReceiveTimesOut, AbortRequest, Abort, Delivered
  <2>3. CASE \E n \in 0..MaxCont, s \in {"none", "success"} : Perform(n, s)
    BY <1>3, <2>3 DEF Perform, Replying, wire, Elsewhere
  <2>4. CASE \E s \in {"failure", "missing"} : Decline(s)
    BY <1>3, <2>4 DEF Decline, Replying, wire, Elsewhere
  <2>5. CASE Emit
    <3>1. /\ dev.mode = "reply" /\ Deliver(ReplyPart) /\ out' = out
          /\ dev' = IF dev.next = dev.n THEN Idle ELSE [dev EXCEPT !.next = @ + 1]
      BY <2>5 DEF Emit
    <3>2. dev'.cid # c
      BY <1>0, <1>3, <3>1
    <3>3. ReplyPart \in Frame /\ ReplyPart.cid = dev.cid
      BY <3>1, WorkDelivered
    <3>4. QED
      BY <1>1, <1>3, <3>1, <3>2, <3>3
  <2>6. QED
    BY <1>3, <2>1, <2>2, <2>3, <2>4, <2>5 DEF Work
<1>4. QED
  BY <1>2, <1>3 DEF DeviceNext, WorksOn

LEMMA UnusedDevice ==
  ASSUME TypeInv, ChannelInv, UnusedInv, DeviceStep
  PROVE  UnusedInv'
<1>1. DeviceNext /\ pc' = pc /\ opens' = opens /\ WireOK
  BY DEF DeviceStep, host, TypeInv
<1>. chan \in Seq(Origin)
  BY DEF TypeInv, DeviceInv, DeviceOK
<1>2. DOMAIN chan = 1..Len(chan) /\ Len(chan) \in Nat
  BY LenProperties
<1>3. chan' = chan \/ \E f : AllocateChannel(f)
  <2>1. CASE TakeReport
    BY <2>1 DEF TakeReport, AllocateChannel, RefuseInit, BeginRequest, ContinueRequest,
                RefuseRequest, CancelRequest, IgnoreReport, device
  <2>2. CASE Work
    BY <2>2 DEF Work, Keepalive, ReceiveTimesOut, AbortRequest, Perform, Decline, Emit
  <2>3. QED
    BY <1>1, <2>1, <2>2 DEF DeviceNext
\* A channel nothing is on stays so, whether it is granted already or not.
<1>4. ASSUME NEW h \in Handles, NEW c \in Nat \ {0}, Unused(h, c)
      PROVE  Unused(h, c)'
  <2>1. ~WorksOn(c)
    BY <1>4 DEF Unused, WorksOn
  <2>2. ~TakesFrom(c)
    <3>1. ASSUME NEW f, f.cid = c, Taking(f)
          PROVE  FALSE
      BY <1>4, <3>1 DEF Unused, NoneOn, Taking
    <3>2. QED
      BY <3>1 DEF TakesFrom, BeginRequest, ContinueRequest, RefuseRequest, CancelRequest
  <2>3. Elsewhere(c)
    BY <1>1, <2>1, <2>2, DeviceOnChannel
  <2>4. NoneOn(c, out') /\ dev'.cid # c
    BY <1>4, <2>3 DEF Elsewhere, Unused, NoneOn
  <2>5. NoneOn(c, rx'[h])
    <3>1. CASE rx' = rx
      BY <1>4, <3>1 DEF Unused, NoneOn
    <3>2. ASSUME NEW f \in Frame, Deliver(f), f.cid # c
          PROVE  NoneOn(c, rx'[h])
      BY <1>1, <1>4, <3>2, AfterDeliver DEF Unused, NoneOn
    <3>3. QED
      BY <2>3, <3>1, <3>2 DEF Elsewhere
  <2>6. QED
    BY <2>4, <2>5 DEF Unused, NoneOn
<1>5. ASSUME NEW h \in Handles
      PROVE  Unused(h, Len(chan) + 1)
  <2>1. Len(chan) + 1 \notin DOMAIN chan /\ Len(chan) + 1 # Broadcast
    BY <1>2 DEF Broadcast
  <2>2. dev.cid # Len(chan) + 1
    BY <2>1 DEF ChannelInv, Sent, Idle
  <2>3. NoneOn(Len(chan) + 1, out)
    BY <2>1 DEF ChannelInv, Written, Sent, NoneOn
  <2>4. NoneOn(Len(chan) + 1, rx[h])
    BY <2>1 DEF ChannelInv, Received, Sent, NoneOn
  <2>5. QED
    BY <2>2, <2>3, <2>4 DEF Unused
<1>6. ASSUME NEW h \in Handles, NEW c \in DOMAIN chan', Opening(h), chan'[c] = Nonce(h)
      PROVE  Unused(h, c)'
  <2>1. CASE c \in DOMAIN chan /\ chan[c] = Nonce(h)
    <3>1. Unused(h, c)
      BY <1>6, <2>1 DEF UnusedInv, Unused, Opening
    <3>2. QED
      BY <1>2, <1>4, <2>1, <3>1
  <2>2. CASE c = Len(chan) + 1
    BY <1>2, <1>4, <1>5, <2>2
  <2>3. (c \in DOMAIN chan /\ chan'[c] = chan[c]) \/ c = Len(chan) + 1
    <3>1. CASE chan' = chan
      BY <1>6, <3>1
    <3>2. ASSUME NEW f, AllocateChannel(f)
          PROVE  (c \in DOMAIN chan /\ chan'[c] = chan[c]) \/ c = Len(chan) + 1
      <4>1. chan' = Append(chan, f.from) /\ f.from \in Origin
        <5>1. out = <<f>> /\ chan' = Append(chan, f.from)
          BY <3>2 DEF AllocateChannel, Taking
        <5>2. f \in Frame
          BY <1>1, <5>1 DEF WireOK
        <5>3. QED
          BY <5>1, <5>2, FrameFields
      <4>2. QED
        BY <1>2, <1>6, <4>1, AppendTo
    <3>3. QED
      BY <1>3, <3>1, <3>2
  <2>4. QED
    BY <1>6, <2>1, <2>2, <2>3
<1>7. QED
  BY <1>1, <1>6 DEF UnusedInv, Unused, Opening, Nonce

(* A call under way has no outcome yet. *)

LEMMA OutcomeHost ==
  ASSUME TypeInv, OutcomeInv, NEW h \in Handles, HostStep(h)
  PROVE  OutcomeInv'
<1>. Proceed(h) \/ Invoke(h)
  BY DEF HostStep
<1>. /\ pc \in [Handles -> {"closed", "initSend", "initRead", "idle", "writing", "reading"}]
     /\ req \in [Handles -> [cmd : Commands \cup {"none"}, n : Nat, next : Nat]]
     /\ outcome \in [Handles -> [res : Results, frames : Seq(Frame)]]
  BY DEF TypeInv, HostInv, HostOK
<1>. DEFINE Good(g) ==
       /\ pc[g] \in {"initSend", "initRead", "writing", "reading"} => outcome[g] = Nothing
       /\ pc[g] = "reading" => req[g].next # 0
<1>1. ASSUME NEW g \in Handles, g # h
      PROVE  Good(g)'
  BY <1>1, OthersSame DEF Same, OutcomeInv
<1>2. Good(h)'
  <2>1. Good(h)
    BY DEF OutcomeInv
  <2>2. CASE OpenPath(h)
    BY <2>2 DEF OpenPath, Goto
  <2>3. CASE WriteInit(h)
    BY <2>1, <2>3 DEF WriteInit, Goto
  <2>4. CASE AcceptInit(h) \/ RejectInit(h) \/ OpenTimesOut(h) \/ Close(h)
    BY <2>4 DEF AcceptInit, RejectInit, OpenTimesOut, OpenFails, Close, Release, Goto
  <2>5. CASE SkipBeforeInit(h) \/ SkipStray(h) \/ SkipKeepalive(h) \/ Cancel(h)
    BY <2>1, <2>5 DEF SkipBeforeInit, SkipStray, SkipKeepalive, Cancel, host
  <2>6. CASE RejectCall(h)
    BY <2>6 DEF RejectCall
  <2>7. ASSUME NEW command \in Commands, NEW n \in 0..MaxReqCont, Call(h, command, n)
        PROVE  Good(h)'
    BY <2>7 DEF Call, Goto
  <2>8. CASE WriteFrame(h)
    <3>1. /\ pc'[h] \in {"reading", "writing"} /\ outcome'[h] = Nothing
          /\ req'[h].next = req[h].next + 1 /\ req[h].next \in Nat
      BY <2>1, <2>8 DEF WriteFrame, Goto
    <3>2. QED
      BY <3>1
  <2>9. CASE ErrorFrame(h) \/ UnexpectedCommand(h) \/ BadContinuation(h) \/ CallFails(h)
    BY <2>9 DEF ErrorFrame, UnexpectedCommand, BadContinuation, CallFails, Return, Goto
  <2>10. CASE FirstFrame(h) \/ ContinuationFrame(h)
    BY <2>1, <2>10, ReplyShapes DEF Collects
  <2>11. QED
    BY <2>2, <2>3, <2>4, <2>5, <2>6, <2>7, <2>8, <2>9, <2>10 DEF Proceed, Invoke
<1>3. QED
  BY <1>1, <1>2 DEF OutcomeInv

(* Quiet and Waiting survive a step that is about other channels. *)

\* What waits for h on its channel waited before, d places further back.
FromOld(h, d) ==
  \A i \in DOMAIN rx'[h] : rx'[h][i].cid = cid[h] =>
    i + d \in DOMAIN rx[h] /\ rx'[h][i] = rx[h][i + d]

OutOld(h) ==
  \A i \in DOMAIN out' : out'[i].cid = cid[h] /\ out'[i].cmd \in Commands =>
    i \in DOMAIN out /\ out'[i] = out[i]

DevOld(h) == dev' = dev \/ (dev.cid # cid[h] /\ dev'.cid # cid[h])

LEMMA QuietKept ==
  ASSUME NEW h, NEW d, Quiet(h), FromOld(h, d), OutOld(h), DevOld(h),
         cid'[h] = cid[h], body'[h] = << >>
  PROVE  Quiet(h)'
BY DEF Quiet, FromOld, OutOld, DevOld, NoneOn

LEMMA WaitingKept ==
  ASSUME WireOK', NEW h \in Handles, NEW d \in {0, 1}, Waiting(h),
         FromOld(h, d), OutOld(h), DevOld(h), cid'[h] = cid[h],
         txn'[h] = txn[h], body'[h] = body[h], req'[h].cmd = req[h].cmd
  PROVE  Waiting(h)'
<1>. Request(h)' = Request(h)
  BY DEF Request
<1>1. AskedInv(h)'
  BY DEF Waiting, AskedInv, FromOld, OutOld, DevOld, NoneOn
<1>2. WorkedOnInv(h)'
  BY DEF Waiting, WorkedOnInv, Mode, FromOld, DevOld
<1>3. QueueInv(h)'
  <2>1. ASSUME NEW i \in DOMAIN rx'[h], rx'[h][i].cid = cid'[h]
        PROVE  /\ rx'[h][i].from = Request(h)
               /\ rx'[h][i].cmd \in Commands \cup {"CONT", "KEEPALIVE", "ERROR"}
    BY <2>1 DEF Waiting, QueueInv, FromOld
  <2>2. ASSUME NEW i \in DOMAIN rx'[h], NEW j \in DOMAIN rx'[h], i < j,
               rx'[h][i].cid = cid'[h], rx'[h][j].cid = cid'[h]
        PROVE  \/ rx'[h][i].cmd = "KEEPALIVE"
               \/ /\ IsPart(rx'[h][i]) /\ IsPart(rx'[h][j])
                  /\ Rank(rx'[h][i]) < Rank(rx'[h][j])
                  /\ rx'[h][i].cmd \in Commands => Rank(rx'[h][j]) \leq rx'[h][i].arg + 1
    <3>1. /\ i + d \in DOMAIN rx[h] /\ rx'[h][i] = rx[h][i + d]
          /\ j + d \in DOMAIN rx[h] /\ rx'[h][j] = rx[h][j + d]
      BY <2>2 DEF FromOld
    <3>2. i + d < j + d
      <4>1. rx'[h] \in Seq(Frame)
        BY DEF WireOK
      <4>2. DOMAIN rx'[h] = 1..Len(rx'[h]) /\ Len(rx'[h]) \in Nat
        BY <4>1, LenProperties
      <4>3. QED
        BY <2>2, <4>2
    <3>3. QED
      BY <2>2, <3>1, <3>2 DEF Waiting, QueueInv
  <2>3. QED
    BY <2>1, <2>2 DEF QueueInv, IsPart, Rank
<1>4. CollectedInv(h)'
  BY DEF Waiting, CollectedInv, FromOld
<1>5. QED
  BY <1>1, <1>2, <1>3, <1>4 DEF Waiting

\* Steps of other handles and about other channels.

LEMMA ReplyOtherHandle ==
  ASSUME TypeInv, WireOK', ChannelInv, NEW h \in Handles, HostStep(h),
         NEW g \in Handles, g # h, Open(g)
  PROVE  Same(g) /\ FromOld(g, 0) /\ OutOld(g) /\ DevOld(g)
<1>1. (Proceed(h) \/ Invoke(h)) /\ dev' = dev /\ Same(g)
  BY OthersSame DEF HostStep, device
<1>2. cid[g] \in DOMAIN chan /\ chan[cid[g]] = Nonce(g) /\ cid[g] # Broadcast
  BY OwnChannel
<1>3. rx'[g] = rx[g]
  BY <1>1, OtherQueues
<1>4. FromOld(g, 0)
  <2>1. rx[g] \in Seq(Frame)
    BY DEF TypeInv, WireOK
  <2>2. \A i \in DOMAIN rx[g] : i + 0 = i
    BY <2>1, LenProperties
  <2>3. QED
    BY <1>3, <2>2 DEF FromOld
<1>5. OutOld(g)
  <2>1. CASE out' = out
    BY <2>1 DEF OutOld
  <2>2. CASE out' # out
    <3>1. PICK f : out' = <<f>> /\ (f.cid = Broadcast \/ (Open(h) /\ f.cid = cid[h]))
      BY <1>1, <2>2, WritesOwn
    <3>2. Open(h) => chan[cid[h]] = Nonce(h)
      BY OwnChannel
    <3>3. f.cid # cid[g]
      BY <1>2, <3>1, <3>2 DEF Nonce
    <3>4. \A i \in DOMAIN out' : out'[i] = f
      BY <3>1
    <3>5. QED
      BY <3>3, <3>4 DEF OutOld
  <2>3. QED
    BY <2>1, <2>2
<1>6. QED
  BY <1>1, <1>4, <1>5 DEF DevOld

LEMMA ReplyElsewhere ==
  ASSUME TypeInv, NEW h \in Handles, Elsewhere(cid[h])
  PROVE  FromOld(h, 0) /\ OutOld(h) /\ DevOld(h)
<1>1. OutOld(h) /\ DevOld(h)
  BY DEF Elsewhere, OutOld, DevOld
<1>2. rx[h] \in Seq(Frame) /\ WireOK
  BY DEF TypeInv, WireOK
<1>3. \A i \in DOMAIN rx[h] : i + 0 = i
  BY <1>2, LenProperties
<1>4. FromOld(h, 0)
  <2>1. CASE rx' = rx
    BY <1>3, <2>1 DEF FromOld
  <2>2. ASSUME NEW f \in Frame, Deliver(f), f.cid # cid[h]
        PROVE  FromOld(h, 0)
    BY <1>2, <1>3, <2>2, AfterDeliver DEF FromOld
  <2>3. QED
    BY <2>1, <2>2 DEF Elsewhere
<1>5. QED
  BY <1>1, <1>4

(* Steps of the handle itself. *)

LEMMA TakesOld ==
  ASSUME TypeInv, NEW h \in Handles, Takes(h), dev' = dev
  PROVE  FromOld(h, 1) /\ OutOld(h) /\ DevOld(h)
<1>1. WireOK /\ out' = out
  BY DEF TypeInv, Takes
<1>2. FromOld(h, 1)
  BY <1>1, AfterTake DEF FromOld
<1>3. QED
  BY <1>1, <1>2 DEF OutOld, DevOld

Next1(h) == rx[h][1]

\* The report at the head of the queue, when it is of the channel.
LEMMA HeadReport ==
  ASSUME TypeInv, ChannelInv, NEW h \in Handles, Mine(h), Waiting(h)
  PROVE  /\ 1 \in DOMAIN rx[h] /\ Next1(h) = Head(rx[h]) /\ Next1(h) \in Frame
         /\ Next1(h).cid = cid[h] /\ Next1(h).from = Request(h)
         /\ \A i \in DOMAIN out : out[i].cid = cid[h] => out[i].cmd \notin Commands
         /\ dev.cid = cid[h] => Mode(h, {"receive", "busy"}) \/ Mode(h, {"reply"})
         /\ pc[h] = "reading" /\ Open(h)
<1>1. /\ 1 \in DOMAIN rx[h] /\ Next1(h) = Head(rx[h]) /\ Next1(h) \in Frame
      /\ Next1(h).cid = cid[h] /\ pc[h] = "reading" /\ Open(h)
  BY HeadOf DEF TypeInv, Mine, Reading, Next1, Open
<1>2. Next1(h).from = Request(h)
  BY <1>1 DEF Waiting, QueueInv, Next1
<1>3. ASSUME NEW i \in DOMAIN out, out[i].cid = cid[h]
      PROVE  out[i].cmd \notin Commands
  BY <1>1, <1>3 DEF Waiting, AskedInv, NoneOn, Next1
<1>4. ASSUME dev.cid = cid[h]
      PROVE  Mode(h, {"receive", "busy"}) \/ Mode(h, {"reply"})
  <2>1. cid[h] # Broadcast
    BY <1>1, OwnChannel
  <2>2. dev.mode # "idle"
    BY <1>4, <2>1 DEF ChannelInv, Idle
  <2>3. dev.mode \in Modes
    BY DEF TypeInv, DeviceInv, DeviceOK
  <2>4. QED
    BY <1>4, <2>2, <2>3 DEF Mode, Modes
<1>5. QED
  BY <1>1, <1>2, <1>3, <1>4

\* When the last report of a channel is taken, nothing of it is left.
LEMMA LastReport ==
  ASSUME TypeInv, ChannelInv, NEW h \in Handles, Mine(h), Waiting(h), Takes(h), dev' = dev,
         cid'[h] = cid[h], body'[h] = << >>, dev.cid # cid[h],
         \A j \in DOMAIN rx[h] : 1 < j => rx[h][j].cid # cid[h]
  PROVE  Quiet(h)'
<1>1. FromOld(h, 1) /\ out' = out
  BY TakesOld DEF Takes
<1>2. \A i \in DOMAIN rx'[h] : 1 < i + 1
  <2>1. rx[h] \in Seq(Frame) /\ rx \in [Handles -> Seq(Frame)] /\ rx[h] # << >>
    BY DEF TypeInv, WireOK, Takes
  <2>2. rx'[h] \in Seq(Frame)
    BY <2>1, HeadTailProperties DEF Takes, Take
  <2>3. QED
    BY <2>2, LenProperties
<1>3. NoneOn(cid'[h], rx'[h])
  BY <1>1, <1>2 DEF FromOld, NoneOn
<1>4. \A i \in DOMAIN out : out[i].cid = cid[h] => out[i].cmd \notin Commands
  BY HeadReport
<1>5. QED
  BY <1>1, <1>3, <1>4 DEF Quiet, NoneOn

LEMMA AfterError ==
  ASSUME TypeInv, ChannelInv, NEW h \in Handles, Waiting(h), ErrorFrame(h), dev' = dev
  PROVE  Quiet(h)'
<1>1. /\ Mine(h) /\ Takes(h) /\ Head(rx[h]).cmd = "ERROR" /\ body' = [body EXCEPT ![h] = << >>]
      /\ cid' = cid
  BY DEF ErrorFrame, First, Mine, Reading, Takes, Return
<1>2. /\ 1 \in DOMAIN rx[h] /\ Next1(h).cmd = "ERROR" /\ Next1(h).cid = cid[h]
      /\ dev.cid = cid[h] => Mode(h, {"receive", "busy"}) \/ Mode(h, {"reply"})
  BY <1>1, HeadReport
<1>3. dev.cid # cid[h]
  BY <1>2 DEF Waiting, WorkedOnInv, Next1
<1>4. ~IsPart(Next1(h)) /\ Next1(h).cmd # "KEEPALIVE"
  BY <1>2, CommandsApart DEF IsPart
<1>5. \A j \in DOMAIN rx[h] : 1 < j => rx[h][j].cid # cid[h]
  BY <1>2, <1>4 DEF Waiting, QueueInv, Next1
<1>6. body'[h] = << >>
  BY <1>1 DEF TypeInv, HostInv, HostOK
<1>7. QED
  BY <1>1, <1>3, <1>5, <1>6, LastReport

\* A report recv_message adds to the reply under way is the next one of its
\* message, and what is still to come, in the queue or at the device, is the rest.
LEMMA Collecting ==
  ASSUME TypeInv, ChannelInv, NEW h \in Handles, Waiting(h), FirstFrame(h) \/ ContinuationFrame(h),
         NEW reply, reply = Append(body[h], Head(rx[h]))
  PROVE  /\ reply \in Seq(Frame) /\ Len(reply) = Len(body[h]) + 1 /\ Len(body[h]) \in Nat
         /\ reply[1] \in Frame /\ reply[1].cmd = req[h].cmd
         /\ \A i \in DOMAIN reply : reply[i].from = Request(h)
         /\ \A i \in 2..Len(reply) : reply[i].cmd = "CONT" /\ reply[i].arg = i - 2
         /\ Len(body[h]) \leq reply[1].arg
         /\ \A j \in DOMAIN rx[h] : 1 < j /\ rx[h][j].cid = cid[h] =>
              /\ IsPart(rx[h][j]) /\ Len(reply) < Rank(rx[h][j])
              /\ Rank(rx[h][j]) \leq reply[1].arg + 1
         /\ dev.cid = cid[h] =>
              /\ Mode(h, {"reply"}) /\ reply[1].arg = dev.n
              /\ Len(reply) \leq dev.next /\ dev.next \leq dev.n
<1>. DEFINE f == Next1(h)
<1>1. /\ Mine(h) /\ req[h].cmd \in Commands /\ body[h] \in Seq(Frame)
  BY DEF FirstFrame, ContinuationFrame, First, Later, Mine, Reading, TypeInv, HostInv, HostOK
<1>2. /\ 1 \in DOMAIN rx[h] /\ f = Head(rx[h]) /\ f \in Frame /\ f.cid = cid[h]
      /\ f.from = Request(h) /\ f = rx[h][1]
      /\ dev.cid = cid[h] => Mode(h, {"receive", "busy"}) \/ Mode(h, {"reply"})
  BY <1>1, HeadReport DEF Next1
<1>3. /\ reply \in Seq(Frame) /\ Len(reply) = Len(body[h]) + 1 /\ Len(body[h]) \in Nat
      /\ DOMAIN body[h] = 1..Len(body[h]) /\ DOMAIN reply = 1..(Len(body[h]) + 1)
      /\ \A i \in 1..Len(body[h]) : reply[i] = body[h][i]
      /\ reply[Len(body[h]) + 1] = f
  BY <1>1, <1>2, AppendTo
<1>4. f.arg \in Nat
  BY <1>2, FrameFields
<1>5. QueueInv(h) /\ CollectedInv(h) /\ WorkedOnInv(h)
  BY DEF Waiting
<1>6. f.cmd # "KEEPALIVE" => \A j \in DOMAIN rx[h] : 1 < j /\ rx[h][j].cid = cid[h] =>
        /\ IsPart(rx[h][j]) /\ Rank(f) < Rank(rx[h][j])
        /\ f.cmd \in Commands => Rank(rx[h][j]) \leq f.arg + 1
  BY <1>2, <1>5 DEF QueueInv
<1>7. ASSUME f.cmd # "KEEPALIVE", dev.cid = cid[h]
      PROVE  /\ Mode(h, {"reply"}) /\ dev.next \leq dev.n /\ Len(body[h]) \leq dev.next
             /\ body[h] # << >> => body[h][1].arg = dev.n
             /\ IsPart(f) => Rank(f) \leq dev.next
             /\ f.cmd \in Commands => f.arg = dev.n
  BY <1>2, <1>5, <1>7 DEF WorkedOnInv
<1>8. CASE FirstFrame(h)
  <2>1. body[h] = << >> /\ f.cmd = req[h].cmd
    BY <1>2, <1>8 DEF FirstFrame, First
  <2>2. f.cmd \in Commands /\ f.cmd # "KEEPALIVE" /\ f.cmd # "CONT"
    BY <1>1, <2>1, CommandsApart
  <2>3. Rank(f) = 1 /\ IsPart(f)
    BY <2>2 DEF Rank, IsPart
  <2>4. Len(body[h]) = 0 /\ reply[1] = f /\ Len(reply) = 1 /\ DOMAIN reply = 1..1
    BY <1>3, <2>1
  <2>5. dev.cid = cid[h] =>
          /\ Mode(h, {"reply"}) /\ reply[1].arg = dev.n
          /\ Len(reply) \leq dev.next /\ dev.next \leq dev.n
    BY <1>7, <2>2, <2>3, <2>4
  <2>6. \A j \in DOMAIN rx[h] : 1 < j /\ rx[h][j].cid = cid[h] =>
          /\ IsPart(rx[h][j]) /\ Len(reply) < Rank(rx[h][j])
          /\ Rank(rx[h][j]) \leq reply[1].arg + 1
    BY <1>6, <2>2, <2>3, <2>4
  <2>7. /\ \A i \in DOMAIN reply : reply[i].from = Request(h)
        /\ \A i \in 2..Len(reply) : reply[i].cmd = "CONT" /\ reply[i].arg = i - 2
    BY <1>2, <2>4
  <2>8. QED
    BY <1>2, <1>3, <1>4, <2>1, <2>4, <2>5, <2>6, <2>7
<1>9. CASE ContinuationFrame(h)
  <2>1. body[h] # << >> /\ f.cmd = "CONT" /\ f.arg = Len(body[h]) - 1
    BY <1>2, <1>9 DEF ContinuationFrame, Later, InSequence, NextSeq
  <2>2. Rank(f) = Len(body[h]) + 1 /\ IsPart(f) /\ f.cmd # "KEEPALIVE"
    BY <1>3, <2>1 DEF Rank, IsPart
  <2>3. Len(body[h]) \geq 1 /\ reply[1] = body[h][1] /\ reply[1] \in Frame
    <3>1. Len(body[h]) # 0
      BY <1>1, <2>1, EmptySeq
    <3>2. Len(body[h]) \geq 1 /\ reply[1] = body[h][1]
      BY <1>3, <3>1
    <3>3. QED
      BY <1>1, <1>3, <3>2, ElementOfSeq
  <2>4. dev.cid = cid[h] =>
          /\ Mode(h, {"reply"}) /\ reply[1].arg = dev.n
          /\ Len(reply) \leq dev.next /\ dev.next \leq dev.n
    BY <1>3, <1>7, <2>1, <2>2, <2>3
  <2>5. /\ body[h][1].cmd = req[h].cmd /\ Len(body[h]) \leq body[h][1].arg
        /\ \A i \in DOMAIN body[h] : body[h][i].from = Request(h)
        /\ \A i \in 2..Len(body[h]) : body[h][i].cmd = "CONT" /\ body[h][i].arg = i - 2
        /\ \A i \in DOMAIN rx[h] : rx[h][i].cid = cid[h] => Rank(rx[h][i]) \leq body[h][1].arg + 1
    BY <1>5, <2>1 DEF CollectedInv
  <2>6. \A j \in DOMAIN rx[h] : 1 < j /\ rx[h][j].cid = cid[h] =>
          /\ IsPart(rx[h][j]) /\ Len(reply) < Rank(rx[h][j])
          /\ Rank(rx[h][j]) \leq reply[1].arg + 1
    BY <1>3, <1>6, <2>2, <2>3, <2>5
  <2>7. \A i \in DOMAIN reply : reply[i].from = Request(h)
    BY <1>2, <1>3, <2>5
  <2>8. \A i \in 2..Len(reply) : reply[i].cmd = "CONT" /\ reply[i].arg = i - 2
    <3>1. ASSUME NEW i \in 2..Len(reply)
          PROVE  reply[i].cmd = "CONT" /\ reply[i].arg = i - 2
      <4>1. CASE i = Len(body[h]) + 1
        BY <1>3, <2>1, <4>1
      <4>2. CASE i # Len(body[h]) + 1
        BY <1>3, <2>5, <4>2
      <4>3. QED
        BY <4>1, <4>2
    <3>2. QED
      BY <3>1
  <2>9. QED
    BY <1>3, <2>3, <2>4, <2>5, <2>6, <2>7, <2>8
<1>10. QED
  BY <1>8, <1>9

LEMMA AfterComplete ==
  ASSUME TypeInv, ChannelInv, NEW h \in Handles, Waiting(h), Complete(h),
         body'[h] = << >>, dev' = dev
  PROVE  Quiet(h)'
<1>. DEFINE reply == Append(body[h], Head(rx[h]))
<1>1. /\ FirstFrame(h) \/ ContinuationFrame(h)
      /\ Len(reply) = reply[1].arg + 1
  BY DEF Complete
<1>2. Mine(h) /\ Takes(h) /\ cid' = cid
  BY <1>1 DEF FirstFrame, ContinuationFrame, First, Later, Mine, Reading, Collect, Full, Return, Takes
<1>3. /\ reply[1] \in Frame
      /\ \A j \in DOMAIN rx[h] : 1 < j /\ rx[h][j].cid = cid[h] =>
           IsPart(rx[h][j]) /\ Len(reply) < Rank(rx[h][j]) /\ Rank(rx[h][j]) \leq reply[1].arg + 1
      /\ dev.cid = cid[h] => reply[1].arg = dev.n /\ Len(reply) \leq dev.next /\ dev.next \leq dev.n
  BY <1>1, Collecting
<1>4. reply[1].arg \in Nat /\ dev.n \in Nat /\ dev.next \in Nat
  BY <1>3, FrameFields DEF TypeInv, DeviceInv, DeviceOK
<1>5. dev.cid # cid[h]
  BY <1>1, <1>3, <1>4
<1>6. ASSUME NEW j \in DOMAIN rx[h], 1 < j, rx[h][j].cid = cid[h]
      PROVE  FALSE
  <2>1. rx[h][j] \in Frame
    BY <1>6, ElementOfSeq, LenProperties DEF TypeInv, WireOK
  <2>2. Rank(rx[h][j]) \in Nat
    BY <2>1, FrameFields DEF Rank
  <2>3. Len(reply) < Rank(rx[h][j]) /\ Rank(rx[h][j]) \leq reply[1].arg + 1
    BY <1>3, <1>6
  <2>4. QED
    BY <1>1, <1>4, <2>2, <2>3
<1>7. QED
  BY <1>2, <1>5, <1>6, LastReport

LEMMA AfterCollect ==
  ASSUME TypeInv, WireOK', ChannelInv, NEW h \in Handles, Waiting(h), Collects(h), dev' = dev
  PROVE  Waiting(h)'
<1>. DEFINE reply == Append(body[h], Head(rx[h]))
<1>1. /\ FirstFrame(h) \/ ContinuationFrame(h)
      /\ body'[h] = reply /\ Len(reply) # reply[1].arg + 1
      /\ cid'[h] = cid[h] /\ txn'[h] = txn[h] /\ req'[h] = req[h]
  BY DEF Collects
<1>2. Mine(h) /\ Takes(h) /\ out' = out
  BY <1>1 DEF FirstFrame, ContinuationFrame, First, Later, Mine, Reading, Collect, Full, Return, Takes
<1>3. Request(h)' = Request(h)
  BY <1>1 DEF Request
<1>4. /\ reply \in Seq(Frame) /\ Len(reply) = Len(body[h]) + 1 /\ Len(body[h]) \in Nat
      /\ reply[1] \in Frame /\ reply[1].cmd = req[h].cmd
      /\ \A i \in DOMAIN reply : reply[i].from = Request(h)
      /\ \A i \in 2..Len(reply) : reply[i].cmd = "CONT" /\ reply[i].arg = i - 2
      /\ Len(body[h]) \leq reply[1].arg
  BY <1>1, Collecting
<1>5. \A j \in DOMAIN rx[h] : 1 < j /\ rx[h][j].cid = cid[h] =>
        /\ IsPart(rx[h][j]) /\ Len(reply) < Rank(rx[h][j])
        /\ Rank(rx[h][j]) \leq reply[1].arg + 1
  BY <1>1, Collecting
<1>6. dev.cid = cid[h] =>
        /\ Mode(h, {"reply"}) /\ reply[1].arg = dev.n
        /\ Len(reply) \leq dev.next /\ dev.next \leq dev.n
  BY <1>1, Collecting
<1>7. FromOld(h, 1)
  BY <1>2, TakesOld
<1>8. \A i \in DOMAIN rx'[h] : 1 < i + 1 /\ i \in Nat
  <2>1. rx'[h] \in Seq(Frame)
    BY DEF WireOK
  <2>2. QED
    BY <2>1, LenProperties
<1>9. AskedInv(h)'
  BY <1>1, <1>2, HeadReport DEF AskedInv
<1>10. QueueInv(h)'
  <2>1. ASSUME NEW i \in DOMAIN rx'[h], rx'[h][i].cid = cid[h]
        PROVE  /\ rx'[h][i].from = Request(h)
               /\ rx'[h][i].cmd \in Commands \cup {"CONT", "KEEPALIVE", "ERROR"}
    BY <1>7, <2>1 DEF Waiting, QueueInv, FromOld
  <2>2. ASSUME NEW i \in DOMAIN rx'[h], NEW j \in DOMAIN rx'[h], i < j,
               rx'[h][i].cid = cid[h], rx'[h][j].cid = cid[h]
        PROVE  \/ rx'[h][i].cmd = "KEEPALIVE"
               \/ /\ IsPart(rx'[h][i]) /\ IsPart(rx'[h][j])
                  /\ Rank(rx'[h][i]) < Rank(rx'[h][j])
                  /\ rx'[h][i].cmd \in Commands => Rank(rx'[h][j]) \leq rx'[h][i].arg + 1
    <3>1. /\ i + 1 \in DOMAIN rx[h] /\ rx'[h][i] = rx[h][i + 1]
          /\ j + 1 \in DOMAIN rx[h] /\ rx'[h][j] = rx[h][j + 1] /\ i + 1 < j + 1
      BY <1>7, <1>8, <2>2 DEF FromOld
    <3>2. QED
      BY <2>2, <3>1 DEF Waiting, QueueInv
  <2>3. QED
    BY <1>1, <1>3, <2>1, <2>2 DEF QueueInv, IsPart, Rank
<1>11. WorkedOnInv(h)'
  <2>1. dev.cid = cid[h] => dev.from = Request(h)
    BY DEF Waiting, WorkedOnInv
  <2>2. ~Mode(h, {"receive", "busy"})
    BY <1>6 DEF Mode
  <2>3. ASSUME Mode(h, {"reply"})
        PROVE  /\ dev.next \leq dev.n /\ Len(reply) \leq dev.next /\ reply[1].arg = dev.n
               /\ \A i \in DOMAIN rx'[h] : rx'[h][i].cid = cid[h] =>
                    /\ rx'[h][i].cmd # "ERROR"
                    /\ IsPart(rx'[h][i]) => Rank(rx'[h][i]) \leq dev.next
                    /\ rx'[h][i].cmd \in Commands => rx'[h][i].arg = dev.n
    BY <1>6, <1>7, <2>3 DEF Waiting, WorkedOnInv, FromOld, Mode
  <2>4. QED
    BY <1>1, <1>3, <2>1, <2>2, <2>3 DEF WorkedOnInv, Mode, IsPart, Rank
<1>12. CollectedInv(h)'
  <2>1. Len(reply) \leq reply[1].arg
    BY <1>1, <1>4, FrameFields
  <2>2. \A i \in DOMAIN rx'[h] : rx'[h][i].cid = cid[h] =>
          /\ IsPart(rx'[h][i])
          /\ Len(reply) < Rank(rx'[h][i])
          /\ Rank(rx'[h][i]) \leq reply[1].arg + 1
    BY <1>5, <1>7, <1>8 DEF FromOld
  <2>3. QED
    BY <1>1, <1>3, <1>4, <2>1, <2>2 DEF CollectedInv, IsPart, Rank
<1>13. QED
  BY <1>9, <1>10, <1>11, <1>12 DEF Waiting

\* The first report of a request leaves.
LEMMA AfterFirstReport ==
  ASSUME TypeInv, NEW h \in Handles, Quiet(h), WriteFrame(h), req[h].next = 0, dev' = dev
  PROVE  Waiting(h)'
<1>1. /\ out' = <<Part(h)>> /\ rx' = rx /\ cid' = cid /\ txn' = txn /\ body' = body
  BY DEF WriteFrame, Put
<1>2. Part(h).from = Request(h)
  BY DEF Part, Report
<1>3. NoneOn(cid[h], rx[h]) /\ dev.cid # cid[h] /\ body[h] = << >>
  BY DEF Quiet
<1>4. AskedInv(h)'
  BY <1>1, <1>2, <1>3 DEF AskedInv, Request, NoneOn
<1>5. WorkedOnInv(h)' /\ QueueInv(h)' /\ CollectedInv(h)'
  BY <1>1, <1>3 DEF WorkedOnInv, QueueInv, CollectedInv, Mode, NoneOn
<1>6. QED
  BY <1>4, <1>5 DEF Waiting

(* ReplyInv is kept by every step. *)

\* A channel that has just been granted has nothing on it.
LEMMA AcceptIsQuiet ==
  ASSUME TypeInv, ChannelInv, BodyInv, UnusedInv, NEW h \in Handles, AcceptInit(h), dev' = dev
  PROVE  Quiet(h)' /\ pc'[h] = "idle"
<1>. /\ pc \in [Handles -> {"closed", "initSend", "initRead", "idle", "writing", "reading"}]
     /\ cid \in [Handles -> Nat]
  BY DEF TypeInv, HostInv, HostOK
<1>1. /\ Takes(h) /\ pc[h] = "initRead" /\ pc'[h] = "idle" /\ cid'[h] = Head(rx[h]).arg
      /\ Head(rx[h]).cid = Broadcast /\ IsInitReply(h, Head(rx[h])) /\ body' = body
  BY DEF AcceptInit, Takes, Goto
<1>2. 1 \in DOMAIN rx[h] /\ Head(rx[h]) = rx[h][1]
  BY <1>1, HeadOf DEF TypeInv, Takes
<1>3. Received(Head(rx[h]), chan, txn)
  BY <1>2 DEF ChannelInv
<1>4. cid'[h] \in DOMAIN chan /\ chan[cid'[h]] = Nonce(h)
  BY <1>1, <1>3 DEF IsInitReply, Received
<1>5. NoneOn(cid'[h], out) /\ NoneOn(cid'[h], rx[h]) /\ dev.cid # cid'[h]
  BY <1>1, <1>4 DEF UnusedInv
<1>6. NoneOn(cid'[h], rx'[h])
  BY <1>1, <1>5, AfterTake DEF NoneOn, TypeInv
<1>7. out' = out /\ body'[h] = << >>
  BY <1>1 DEF BodyInv, Takes
<1>8. QED
  BY <1>1, <1>5, <1>6, <1>7 DEF Quiet, NoneOn

\* The calls that return an error of the framing, or of a write or a read.
GoesWrong(h) == UnexpectedCommand(h) \/ BadContinuation(h) \/ CallFails(h)

\* A call that goes well keeps the Transport in step.
LEMMA InStepOwn ==
  ASSUME TypeInv, WireOK', ChannelInv, BodyInv, UnusedInv, OutcomeInv,
         NEW h \in Handles, HostStep(h), InStep(h), ~GoesWrong(h)
  PROVE  InStep(h)'
<1>. (Proceed(h) \/ Invoke(h)) /\ dev' = dev
  BY DEF HostStep, device
<1>. /\ pc \in [Handles -> {"closed", "initSend", "initRead", "idle", "writing", "reading"}]
     /\ req \in [Handles -> [cmd : Commands \cup {"none"}, n : Nat, next : Nat]]
     /\ cid \in [Handles -> Nat]
     /\ body \in [Handles -> Seq(Frame)]
  BY DEF TypeInv, HostInv, HostOK
<1>1. ASSUME rx' = rx, OutOld(h)
      PROVE  FromOld(h, 0) /\ DevOld(h)
  <2>1. rx[h] \in Seq(Frame)
    BY DEF TypeInv, WireOK
  <2>2. \A i \in DOMAIN rx[h] : i + 0 = i
    BY <2>1, LenProperties
  <2>3. QED
    BY <1>1, <2>2 DEF FromOld, DevOld
<1>2. out' = out => OutOld(h)
  BY DEF OutOld
<1>3. CASE OpenPath(h) \/ WriteInit(h) \/ RejectInit(h) \/ OpenTimesOut(h) \/ Close(h)
  <2>1. pc'[h] \in {"closed", "initSend", "initRead"}
    BY <1>3 DEF OpenPath, WriteInit, RejectInit, OpenTimesOut, OpenFails, Close, Release, Goto
  <2>2. QED
    BY <2>1 DEF InStep, Called
<1>4. CASE SkipBeforeInit(h)
  BY <1>4 DEF SkipBeforeInit, host, InStep, Called
<1>5. CASE AcceptInit(h)
  BY <1>5, AcceptIsQuiet DEF InStep, Called
<1>6. ASSUME NEW command \in Commands, NEW n \in 0..MaxReqCont, Call(h, command, n)
      PROVE  InStep(h)'
  <2>1. /\ pc[h] = "idle" /\ pc'[h] = "writing" /\ req'[h].next = 0
        /\ cid' = cid /\ out' = out /\ rx' = rx /\ body'[h] = << >>
    BY <1>6 DEF Call, Goto, wire
  <2>2. Quiet(h) => Quiet(h)'
    BY <2>1 DEF Quiet, NoneOn
  <2>3. QED
    BY <2>1, <2>2 DEF InStep, Called
<1>7. CASE RejectCall(h)
  <2>1. /\ pc[h] = "idle" /\ UNCHANGED <<pc, req, cid, out, rx, body>>
    BY <1>7 DEF RejectCall, wire
  <2>2. Quiet(h) => Quiet(h)'
    BY <2>1 DEF Quiet, NoneOn
  <2>3. QED
    BY <2>1, <2>2 DEF InStep, Called
<1>8. CASE Cancel(h)
  <2>1. /\ pc[h] = "idle" /\ UNCHANGED <<pc, req, cid, rx, body>>
        /\ out' = <<Report(cid[h], "CANCEL", Request(h), 0, "none")>>
    BY <1>8 DEF Cancel, Put, host
  <2>2. Report(cid[h], "CANCEL", Request(h), 0, "none").cmd \notin Commands
    BY CommandsApart DEF Report
  <2>3. Quiet(h) => Quiet(h)'
    BY <2>1, <2>2 DEF Quiet, NoneOn
  <2>4. QED
    BY <2>1, <2>3 DEF InStep, Called
<1>9. CASE WriteFrame(h)
  <2>1. /\ pc[h] = "writing" /\ pc'[h] \in {"reading", "writing"}
        /\ req'[h].next = req[h].next + 1 /\ req'[h].cmd = req[h].cmd /\ req[h].next \in Nat
        /\ out' = <<Part(h)>> /\ cid' = cid /\ rx' = rx /\ body' = body /\ txn' = txn
    BY <1>9 DEF WriteFrame, Put, Goto
  <2>2. CASE req[h].next = 0
    <3>1. Quiet(h) => Waiting(h)'
      BY <1>9, <2>2, AfterFirstReport
    <3>2. QED
      BY <2>1, <2>2, <3>1 DEF InStep, Called
  <2>3. CASE req[h].next # 0
    <3>1. Part(h).cmd \notin Commands
      BY <2>3, CommandsApart DEF Part, Report
    <3>2. OutOld(h)
      BY <2>1, <3>1 DEF OutOld
    <3>3. Waiting(h) => Waiting(h)'
      BY <1>1, <2>1, <3>2, WaitingKept
    <3>4. QED
      BY <2>1, <2>3, <3>3 DEF InStep, Called
  <2>4. QED
    BY <2>2, <2>3
<1>10. CASE SkipStray(h) \/ SkipKeepalive(h)
  <2>1. Takes(h) /\ UNCHANGED host /\ pc[h] = "reading"
    BY <1>10 DEF SkipStray, SkipKeepalive, First, Mine, Reading, Takes
  <2>2. FromOld(h, 1) /\ OutOld(h) /\ DevOld(h)
    BY <2>1, TakesOld
  <2>3. Waiting(h) => Waiting(h)'
    BY <2>1, <2>2, WaitingKept DEF host
  <2>4. QED
    BY <2>1, <2>3 DEF InStep, Called, host, OutcomeInv
<1>11. CASE ErrorFrame(h)
  <2>1. pc[h] = "reading" /\ pc'[h] = "idle"
    BY <1>11 DEF ErrorFrame, First, Mine, Reading, Return, Goto
  <2>2. Waiting(h) => Quiet(h)'
    BY <1>11, AfterError
  <2>3. QED
    BY <2>1, <2>2 DEF InStep, Called, OutcomeInv
<1>12. CASE FirstFrame(h) \/ ContinuationFrame(h)
  <2>1. pc[h] = "reading" /\ req[h].next # 0
    BY <1>12 DEF FirstFrame, ContinuationFrame, First, Later, Mine, Reading, OutcomeInv
  <2>2. CASE Collects(h)
    <3>1. Waiting(h) => Waiting(h)'
      BY <2>2, AfterCollect
    <3>2. QED
      BY <2>1, <2>2, <3>1 DEF InStep, Called, Collects
  <2>3. CASE Complete(h) /\ body'[h] = << >> /\ pc'[h] = "idle"
    <3>1. Waiting(h) => Quiet(h)'
      BY <2>3, AfterComplete
    <3>2. QED
      BY <2>1, <2>3, <3>1 DEF InStep, Called
  <2>4. QED
    BY <1>12, <2>2, <2>3, ReplyShapes
<1>13. QED
  BY <1>3, <1>4, <1>5, <1>6, <1>7, <1>8, <1>9, <1>10, <1>11, <1>12 DEF GoesWrong, Proceed, Invoke

LEMMA InStepOther ==
  ASSUME TypeInv, WireOK', ChannelInv, NEW h \in Handles, HostStep(h),
         NEW g \in Handles, g # h, InStep(g)
  PROVE  InStep(g)'
<1>1. CASE Open(g)
  <2>1. Same(g) /\ FromOld(g, 0) /\ OutOld(g) /\ DevOld(g)
    BY <1>1, ReplyOtherHandle
  <2>2. Waiting(g) => Waiting(g)'
    BY <2>1, WaitingKept DEF Same
  <2>3. Quiet(g) => Quiet(g)'
    BY <2>1, QuietKept DEF Same, Quiet
  <2>4. QED
    BY <2>1, <2>2, <2>3 DEF InStep, Same, Called
<1>2. CASE ~Open(g)
  <2>1. pc'[g] = pc[g]
    BY OthersSame DEF HostStep, Same
  <2>2. QED
    BY <1>2, <2>1 DEF InStep, Called, Open
<1>3. QED
  BY <1>1, <1>2

\* A call that goes wrong costs the Transport its good name for good.
LEMMA CleanLost ==
  ASSUME TypeInv, NEW h \in Handles, Proceed(h) \/ Invoke(h), clean'[h]
  PROVE  ~GoesWrong(h) /\ (clean[h] \/ pc[h] = "initRead")
<1>. clean \in [Handles -> BOOLEAN]
  BY DEF TypeInv, HostInv, HostOK
<1>1. ~GoesWrong(h)
  BY DEF GoesWrong, UnexpectedCommand, BadContinuation, CallFails, Return
<1>2. CASE AcceptInit(h)
  BY <1>1, <1>2 DEF AcceptInit
<1>3. CASE \/ OpenPath(h) \/ WriteInit(h) \/ SkipBeforeInit(h) \/ RejectInit(h) \/ OpenTimesOut(h)
           \/ Close(h) \/ RejectCall(h) \/ Cancel(h) \/ WriteFrame(h) \/ SkipStray(h) \/ SkipKeepalive(h)
           \/ \E command \in Commands, n \in 0..MaxReqCont : Call(h, command, n)
  BY <1>1, <1>3 DEF OpenPath, WriteInit, SkipBeforeInit, RejectInit, OpenTimesOut, OpenFails, Close, RejectCall,
              Cancel, WriteFrame, SkipStray, SkipKeepalive, Call, host
<1>4. CASE ErrorFrame(h) \/ FirstFrame(h) \/ ContinuationFrame(h)
  BY <1>1, <1>4 DEF ErrorFrame, FirstFrame, ContinuationFrame, Collect, Return
<1>5. QED
  BY <1>1, <1>2, <1>3, <1>4 DEF Proceed, Invoke, GoesWrong

LEMMA ReplyHost ==
  ASSUME TypeInv, ChannelInv, BodyInv, UnusedInv, OutcomeInv, ReplyInv,
         NEW h \in Handles, HostStep(h)
  PROVE  ReplyInv'
<1>1. WireOK' /\ (Proceed(h) \/ Invoke(h))
  BY HostWire DEF HostStep
<1>2. ASSUME NEW g \in Handles, clean'[g]
      PROVE  InStep(g)'
  <2>1. CASE g = h
    <3>1. ~GoesWrong(h) /\ InStep(h)
      BY <1>1, <1>2, <2>1, CleanLost DEF ReplyInv, InStep, Called
    <3>2. QED
      BY <1>1, <2>1, <3>1, InStepOwn
  <2>2. CASE g # h
    <3>1. InStep(g)
      BY <1>1, <1>2, <2>2, OthersSame DEF ReplyInv, Same
    <3>2. QED
      BY <1>1, <2>2, <3>1, InStepOther
  <2>3. QED
    BY <2>1, <2>2
<1>3. QED
  BY <1>2 DEF ReplyInv

(* Steps of the device on the channel of a waiting handle. *)

HostSame(h) == cid'[h] = cid[h] /\ Request(h)' = Request(h) /\ body'[h] = body[h] /\ req'[h] = req[h]

\* The request reaches the device.
LEMMA WaitingBegin ==
  ASSUME NEW h, Waiting(h), HostSame(h), NEW f, f.cid = cid[h], BeginRequest(f)
  PROVE  Waiting(h)'
<1>1. /\ out = <<f>> /\ out' = << >> /\ rx' = rx /\ f.cmd \in Commands
      /\ dev'.cid = f.cid /\ dev'.from = f.from /\ dev'.mode # "reply"
  BY DEF BeginRequest, Taking, Transaction
<1>2. f.from = Request(h) /\ NoneOn(cid[h], rx[h]) /\ body[h] = << >>
  BY <1>1 DEF Waiting, AskedInv
<1>3. QED
  BY <1>1, <1>2 DEF Waiting, AskedInv, WorkedOnInv, QueueInv, CollectedInv, Mode, NoneOn, HostSame

LEMMA WaitingContinue ==
  ASSUME TypeInv, NEW h, Waiting(h), HostSame(h), NEW f, f.cid = cid[h], ContinueRequest(f)
  PROVE  Waiting(h)'
<1>1. /\ out' = << >> /\ rx' = rx /\ dev.mode = "receive" /\ dev.cid = cid[h]
      /\ dev'.cid = dev.cid /\ dev'.from = dev.from /\ dev'.mode \in {"receive", "busy"}
  BY DEF ContinueRequest, InSequenceOf, Taking, TypeInv, DeviceInv, DeviceOK
<1>2. AskedInv(h)'
  BY <1>1 DEF AskedInv
<1>3. WorkedOnInv(h)'
  BY <1>1 DEF Waiting, WorkedOnInv, Mode, HostSame
<1>4. QueueInv(h)' /\ CollectedInv(h)'
  BY <1>1 DEF Waiting, QueueInv, CollectedInv, HostSame
<1>5. QED
  BY <1>2, <1>3, <1>4 DEF Waiting

\* A reply of no reports yet.
LEMMA WaitingReply ==
  ASSUME NEW h, Waiting(h), HostSame(h), out' = out \/ out' = << >>, rx' = rx,
         dev.mode = "busy", dev.cid = cid[h], dev'.cid = dev.cid, dev'.from = dev.from,
         dev'.mode = "reply", dev'.next = 0, dev'.n \in Nat
  PROVE  Waiting(h)'
<1>1. /\ body[h] = << >>
      /\ \A i \in DOMAIN rx[h] : rx[h][i].cid = cid[h] => rx[h][i].cmd = "KEEPALIVE"
  BY DEF Waiting, WorkedOnInv, Mode
<1>2. AskedInv(h)'
  BY DEF Waiting, AskedInv, HostSame
<1>3. WorkedOnInv(h)'
  <2>1. Len(body[h]) = 0
    BY <1>1
  <2>2. QED
    BY <1>1, <2>1, CommandsApart DEF Waiting, WorkedOnInv, Mode, HostSame, IsPart
<1>4. QueueInv(h)' /\ CollectedInv(h)'
  BY DEF Waiting, QueueInv, CollectedInv, HostSame
<1>5. QED
  BY <1>2, <1>3, <1>4 DEF Waiting

\* A report behind the last one of the queue, or lost because the queue is full.
Queued(h, f) ==
  \A i \in DOMAIN rx'[h] :
    (i \in DOMAIN rx[h] /\ rx'[h][i] = rx[h][i]) \/ (i = Len(rx[h]) + 1 /\ rx'[h][i] = f)

LEMMA InTheQueue ==
  ASSUME TypeInv, WireOK', NEW h \in Handles
  PROVE  /\ \A i \in DOMAIN rx[h] : i \in Nat /\ i \leq Len(rx[h]) /\ rx[h][i] \in Frame
         /\ \A i \in DOMAIN rx'[h] : i \in Nat
         /\ Len(rx[h]) \in Nat
         /\ \A f \in Frame : Deliver(f) => Queued(h, f)
<1>1. rx[h] \in Seq(Frame) /\ rx'[h] \in Seq(Frame) /\ WireOK
  BY DEF TypeInv, WireOK
<1>2. /\ DOMAIN rx[h] = 1..Len(rx[h]) /\ Len(rx[h]) \in Nat
      /\ DOMAIN rx'[h] = 1..Len(rx'[h]) /\ Len(rx'[h]) \in Nat
  BY <1>1, LenProperties
<1>3. \A i \in DOMAIN rx[h] : rx[h][i] \in Frame
  BY <1>1, <1>2, ElementOfSeq
<1>4. \A f \in Frame : Deliver(f) => Queued(h, f)
  BY <1>1, AfterDeliver DEF Queued
<1>5. QED
  BY <1>2, <1>3, <1>4

\* Behind reports that are all KEEPALIVE any report may come.
LEMMA AfterKeepalives ==
  ASSUME TypeInv, WireOK', NEW h \in Handles, HostSame(h), QueueInv(h), NEW f, Queued(h, f),
         \A i \in DOMAIN rx[h] : rx[h][i].cid = cid[h] => rx[h][i].cmd = "KEEPALIVE",
         f.from = Request(h), f.cmd \in {"KEEPALIVE", "ERROR"}
  PROVE  QueueInv(h)'
<1>1. ASSUME NEW i \in DOMAIN rx'[h], rx'[h][i].cid = cid[h]
      PROVE  /\ rx'[h][i].from = Request(h)
             /\ rx'[h][i].cmd \in Commands \cup {"CONT", "KEEPALIVE", "ERROR"}
  BY <1>1 DEF QueueInv, Queued
<1>2. ASSUME NEW i \in DOMAIN rx'[h], NEW j \in DOMAIN rx'[h], i < j,
             rx'[h][i].cid = cid[h], rx'[h][j].cid = cid[h]
      PROVE  rx'[h][i].cmd = "KEEPALIVE"
  <2>1. i \in DOMAIN rx[h] /\ rx'[h][i] = rx[h][i]
    BY <1>2, InTheQueue DEF Queued
  <2>2. QED
    BY <1>2, <2>1
<1>3. QED
  BY <1>1, <1>2 DEF QueueInv, HostSame

LEMMA WaitingRefuse ==
  ASSUME TypeInv, WireOK', ChannelInv, NEW h \in Handles, Open(h), Waiting(h), HostSame(h),
         NEW f \in Frame, f.cid = cid[h], RefuseRequest(f)
  PROVE  Waiting(h)'
<1>. DEFINE e == Report(f.cid, "ERROR", f.from, 0, "failure")
<1>1. /\ out = <<f>> /\ out' = << >> /\ Deliver(e) /\ f.cmd \in Commands
  BY DEF RefuseRequest, Taking
<1>2. f.from = Request(h) /\ NoneOn(cid[h], rx[h]) /\ body[h] = << >> /\ dev.cid # cid[h]
  BY <1>1 DEF Waiting, AskedInv
<1>3. dev' = dev
  BY <1>2 DEF RefuseRequest
<1>4. e \in Frame /\ e.cmd = "ERROR" /\ e.from = Request(h)
  BY <1>2, ErrorDelivered, FrameFields DEF Delivered
<1>5. Queued(h, e)
  BY <1>1, <1>4, InTheQueue
<1>6. QueueInv(h)'
  BY <1>2, <1>4, <1>5, AfterKeepalives DEF NoneOn, Waiting
<1>7. AskedInv(h)' /\ WorkedOnInv(h)' /\ CollectedInv(h)'
  BY <1>1, <1>2, <1>3 DEF AskedInv, WorkedOnInv, CollectedInv, Mode, HostSame
<1>8. QED
  BY <1>6, <1>7 DEF Waiting

\* While the device works it sends KEEPALIVEs, and an ERROR ends its work.
LEMMA WaitingWork ==
  ASSUME TypeInv, WireOK', ChannelInv, NEW h \in Handles, Open(h), Waiting(h), HostSame(h),
         dev.cid = cid[h], dev.mode \in {"receive", "busy"}, out' = out,
         NEW f \in Frame, Deliver(f), f.from = dev.from,
         \/ f.cmd = "KEEPALIVE" /\ dev' = [dev EXCEPT !.ka = @ + 1]
         \/ f.cmd = "ERROR" /\ dev' = Idle
  PROVE  Waiting(h)'
<1>1. /\ body[h] = << >> /\ dev.from = Request(h)
      /\ \A i \in DOMAIN rx[h] : rx[h][i].cid = cid[h] => rx[h][i].cmd = "KEEPALIVE"
  BY DEF Waiting, WorkedOnInv, Mode
<1>2. Queued(h, f)
  BY InTheQueue
<1>3. QueueInv(h)'
  BY <1>1, <1>2, AfterKeepalives DEF Waiting
<1>4. cid[h] # Broadcast
  BY OwnChannel
<1>5. \A i \in DOMAIN out : out[i].cid = cid[h] => out[i].cmd \notin Commands
  BY DEF Waiting, AskedInv
<1>6. AskedInv(h)' /\ CollectedInv(h)'
  BY <1>1, <1>5 DEF AskedInv, CollectedInv, HostSame
<1>7. WorkedOnInv(h)'
  <2>1. CASE dev' = Idle
    BY <1>4, <2>1 DEF WorkedOnInv, Mode, HostSame, Idle
  <2>2. CASE f.cmd = "KEEPALIVE" /\ dev' = [dev EXCEPT !.ka = @ + 1]
    <3>1. dev'.mode = dev.mode /\ dev'.cid = dev.cid /\ dev'.from = dev.from
      BY <2>2 DEF TypeInv, DeviceInv, DeviceOK
    <3>2. \A i \in DOMAIN rx'[h] : rx'[h][i].cid = cid[h] => rx'[h][i].cmd = "KEEPALIVE"
      BY <1>1, <1>2, <2>2 DEF Queued
    <3>3. QED
      BY <1>1, <3>1, <3>2 DEF WorkedOnInv, Mode, HostSame
  <2>3. QED
    BY <2>1, <2>2
<1>8. QED
  BY <1>3, <1>6, <1>7 DEF Waiting

\* The next report of the reply.
LEMMA WaitingEmit ==
  ASSUME TypeInv, WireOK', ChannelInv, NEW h \in Handles, Open(h), Waiting(h), HostSame(h),
         dev.cid = cid[h], Emit
  PROVE  Waiting(h)'
<1>. DEFINE f == ReplyPart
<1>1. /\ dev.mode = "reply" /\ Deliver(f) /\ out' = out
      /\ dev' = IF dev.next = dev.n THEN Idle ELSE [dev EXCEPT !.next = @ + 1]
  BY DEF Emit
<1>2. /\ dev.next \in Nat /\ dev.n \in Nat /\ dev.cmd \in Commands
      /\ dev \in [mode : Modes, cid : Nat, from : Origin \cup {NoOrigin},
                  cmd : Commands \cup {"none"}, n : Nat, next : Nat, st : Status, ka : Nat]
  BY <1>1 DEF TypeInv, DeviceInv, DeviceOK
<1>3. /\ dev.from = Request(h) /\ dev.next \leq dev.n /\ Len(body[h]) \leq dev.next
      /\ body[h] # << >> => body[h][1].arg = dev.n
      /\ \A i \in DOMAIN rx[h] : rx[h][i].cid = cid[h] =>
           /\ rx[h][i].cmd # "ERROR"
           /\ IsPart(rx[h][i]) => Rank(rx[h][i]) \leq dev.next
           /\ rx[h][i].cmd \in Commands => rx[h][i].arg = dev.n
  BY <1>1 DEF Waiting, WorkedOnInv, Mode
<1>4. /\ f \in Frame /\ f.cid = cid[h] /\ f.from = Request(h)
      /\ IsPart(f) /\ f.cmd # "ERROR" /\ Rank(f) = dev.next + 1
      /\ f.cmd \in Commands => f.arg = dev.n
      /\ f.cmd \in Commands \cup {"CONT", "KEEPALIVE", "ERROR"}
  <2>1. /\ f \in Frame /\ f.cid = cid[h] /\ f.from = Request(h)
        /\ dev.next = 0 => f.cmd = dev.cmd /\ f.arg = dev.n
        /\ dev.next # 0 => f.cmd = "CONT" /\ f.arg = dev.next - 1
    BY <1>1, <1>3, WorkDelivered
  <2>2. CASE dev.next = 0
    BY <1>2, <2>1, <2>2, CommandsApart DEF IsPart, Rank
  <2>3. CASE dev.next # 0
    BY <1>2, <2>1, <2>3, CommandsApart DEF IsPart, Rank
  <2>4. QED
    BY <2>1, <2>2, <2>3
<1>5. Queued(h, f)
  BY <1>1, <1>4, InTheQueue
<1>6. /\ \A i \in DOMAIN rx[h] : i \in Nat /\ i \leq Len(rx[h])
      /\ \A i \in DOMAIN rx'[h] : i \in Nat
      /\ Len(rx[h]) \in Nat /\ Len(body[h]) \in Nat
  <2>1. body[h] \in Seq(Frame)
    BY DEF TypeInv, HostInv, HostOK
  <2>2. QED
    BY <2>1, InTheQueue, LenProperties
<1>7. \A i \in DOMAIN rx[h] : rx[h][i].cid = cid[h] =>
        rx[h][i].cmd = "KEEPALIVE" \/ (IsPart(rx[h][i]) /\ Rank(rx[h][i]) \leq dev.next)
  BY <1>3 DEF Waiting, QueueInv, IsPart
<1>8. AskedInv(h)'
  BY <1>1 DEF Waiting, AskedInv, HostSame
<1>9. QueueInv(h)'
  <2>1. ASSUME NEW i \in DOMAIN rx'[h], rx'[h][i].cid = cid[h]
        PROVE  /\ rx'[h][i].from = Request(h)
               /\ rx'[h][i].cmd \in Commands \cup {"CONT", "KEEPALIVE", "ERROR"}
    BY <1>4, <1>5, <2>1 DEF Waiting, QueueInv, Queued
  <2>2. ASSUME NEW i \in DOMAIN rx'[h], NEW j \in DOMAIN rx'[h], i < j,
               rx'[h][i].cid = cid[h], rx'[h][j].cid = cid[h]
        PROVE  \/ rx'[h][i].cmd = "KEEPALIVE"
               \/ /\ IsPart(rx'[h][i]) /\ IsPart(rx'[h][j])
                  /\ Rank(rx'[h][i]) < Rank(rx'[h][j])
                  /\ rx'[h][i].cmd \in Commands => Rank(rx'[h][j]) \leq rx'[h][i].arg + 1
    <3>1. i \in DOMAIN rx[h] /\ rx'[h][i] = rx[h][i]
      BY <1>5, <1>6, <2>2 DEF Queued
    <3>2. CASE j \in DOMAIN rx[h] /\ rx'[h][j] = rx[h][j]
      BY <2>2, <3>1, <3>2 DEF Waiting, QueueInv
    <3>3. CASE rx'[h][j] = f
      <4>1. CASE IsPart(rx[h][i]) /\ Rank(rx[h][i]) \leq dev.next
        <5>1. Rank(rx[h][i]) < dev.next + 1
          <6>1. rx[h][i] \in Frame
            BY <3>1, InTheQueue
          <6>2. Rank(rx[h][i]) \in Nat
            BY <6>1, FrameFields DEF Rank
          <6>3. QED
            BY <1>2, <4>1, <6>2
        <5>2. rx[h][i].cmd \in Commands => dev.next + 1 \leq rx[h][i].arg + 1
          BY <1>2, <1>3, <2>2, <3>1
        <5>3. QED
          BY <1>4, <3>1, <3>3, <4>1, <5>1, <5>2
      <4>2. QED
        BY <1>7, <2>2, <3>1, <4>1
    <3>4. QED
      BY <1>5, <3>2, <3>3 DEF Queued
  <2>3. QED
    BY <2>1, <2>2 DEF QueueInv, HostSame, IsPart, Rank
<1>10. CollectedInv(h)'
  <2>1. SUFFICES ASSUME body[h] # << >>
                 PROVE  CollectedInv(h)'
    BY DEF CollectedInv, HostSame
  <2>2. /\ Len(body[h]) < dev.next + 1 /\ dev.next + 1 \leq body[h][1].arg + 1
    BY <1>2, <1>3, <1>6, <2>1
  <2>3. \A i \in DOMAIN rx'[h] : rx'[h][i].cid = cid[h] =>
          /\ IsPart(rx'[h][i])
          /\ Len(body[h]) < Rank(rx'[h][i])
          /\ Rank(rx'[h][i]) \leq body[h][1].arg + 1
    BY <1>4, <1>5, <2>1, <2>2 DEF Waiting, CollectedInv, Queued
  <2>4. QED
    BY <2>1, <2>3 DEF Waiting, CollectedInv, HostSame, IsPart, Rank
<1>11. WorkedOnInv(h)'
  <2>1. CASE dev' = Idle
    <3>1. cid[h] # Broadcast
      BY OwnChannel
    <3>2. QED
      BY <2>1, <3>1 DEF WorkedOnInv, Mode, HostSame, Idle
  <2>2. CASE dev.next # dev.n
    <3>1. /\ dev'.mode = "reply" /\ dev'.cid = dev.cid /\ dev'.from = dev.from
          /\ dev'.next = dev.next + 1 /\ dev'.n = dev.n
      BY <1>1, <1>2, <2>2
    <3>2. dev.next + 1 \leq dev.n /\ Len(body[h]) \leq dev.next + 1
      BY <1>2, <1>3, <1>6, <2>2
    <3>3. \A i \in DOMAIN rx'[h] : rx'[h][i].cid = cid[h] =>
            /\ rx'[h][i].cmd # "ERROR"
            /\ IsPart(rx'[h][i]) => Rank(rx'[h][i]) \leq dev.next + 1
            /\ rx'[h][i].cmd \in Commands => rx'[h][i].arg = dev.n
      <4>1. ASSUME NEW i \in DOMAIN rx'[h], rx'[h][i].cid = cid[h]
            PROVE  /\ rx'[h][i].cmd # "ERROR"
                   /\ IsPart(rx'[h][i]) => Rank(rx'[h][i]) \leq dev.next + 1
                   /\ rx'[h][i].cmd \in Commands => rx'[h][i].arg = dev.n
        <5>1. CASE rx'[h][i] = f
          BY <1>2, <1>4, <5>1
        <5>2. CASE i \in DOMAIN rx[h] /\ rx'[h][i] = rx[h][i]
          <6>1. rx[h][i] \in Frame
            BY <5>2, InTheQueue
          <6>2. Rank(rx[h][i]) \in Nat
            BY <6>1, FrameFields DEF Rank
          <6>3. QED
            BY <1>2, <1>3, <4>1, <5>2, <6>2
        <5>3. QED
          BY <1>5, <5>1, <5>2 DEF Queued
      <4>2. QED
        BY <4>1
    <3>4. QED
      BY <1>3, <3>1, <3>2, <3>3 DEF WorkedOnInv, Mode, HostSame, IsPart, Rank
  <2>3. QED
    BY <1>1, <2>1, <2>2
<1>12. QED
  BY <1>8, <1>9, <1>10, <1>11 DEF Waiting

LEMMA ReplyDeviceStep ==
  ASSUME TypeInv, WireOK', ChannelInv, NEW h \in Handles, Open(h), DeviceNext, UNCHANGED host
  PROVE  /\ Quiet(h) => Quiet(h)'
         /\ Waiting(h) => Waiting(h)'
<1>. HostSame(h) /\ txn' = txn
  BY DEF HostSame, Request, host
<1>1. cid[h] \in Nat \ {0}
  BY OwnChannel DEF TypeInv, HostInv, HostOK, Broadcast
<1>2. CASE Elsewhere(cid[h])
  <2>1. FromOld(h, 0) /\ OutOld(h) /\ DevOld(h)
    BY <1>2, ReplyElsewhere
  <2>2. Quiet(h) => Quiet(h)'
    BY <2>1, QuietKept DEF HostSame, Quiet
  <2>3. Waiting(h) => Waiting(h)'
    BY <2>1, WaitingKept DEF HostSame
  <2>4. QED
    BY <2>2, <2>3
<1>3. CASE TakesFrom(cid[h])
  <2>1. PICK f \in Frame :
          /\ f.cid = cid[h]
          /\ BeginRequest(f) \/ ContinueRequest(f) \/ RefuseRequest(f) \/ CancelRequest(f)
    BY <1>3 DEF TakesFrom
  <2>2. ~Quiet(h)
    <3>1. CASE BeginRequest(f) \/ RefuseRequest(f)
      BY <2>1, <3>1 DEF BeginRequest, RefuseRequest, Taking, Quiet
    <3>2. CASE ContinueRequest(f) \/ CancelRequest(f)
      BY <2>1, <3>2 DEF ContinueRequest, InSequenceOf, CancelRequest, InFlightOn, Quiet
    <3>3. QED
      BY <2>1, <3>1, <3>2
  <2>3. ASSUME Waiting(h), CancelRequest(f)
        PROVE  Waiting(h)'
    <3>1. /\ out' = << >> /\ rx' = rx /\ dev.mode = "busy" /\ dev.cid = cid[h]
          /\ dev' = Replying(0, "failure")
      BY <2>1, <2>3 DEF CancelRequest, InFlightOn, Taking
    <3>2. dev'.cid = dev.cid /\ dev'.from = dev.from /\ dev'.mode = "reply"
          /\ dev'.next = 0 /\ dev'.n \in Nat
      BY <3>1 DEF Replying, TypeInv, DeviceInv, DeviceOK
    <3>3. QED
      BY <2>3, <3>1, <3>2, WaitingReply
  <2>4. QED
    BY <2>1, <2>2, <2>3, WaitingBegin, WaitingContinue, WaitingRefuse
<1>4. CASE WorksOn(cid[h])
  <2>1. dev.cid = cid[h] /\ Work
    BY <1>4 DEF WorksOn
  <2>2. ~Quiet(h)
    BY <2>1 DEF Quiet
  <2>3. ASSUME Waiting(h), Keepalive
        PROVE  Waiting(h)'
    <3>1. Delivered(dev.cid, "KEEPALIVE", dev.from, 0, "none")
      BY <2>3, WorkDelivered DEF Keepalive
    <3>2. QED
      BY <2>1, <2>3, <3>1, WaitingWork DEF Keepalive, Delivered
  <2>4. ASSUME Waiting(h), ReceiveTimesOut \/ AbortRequest
        PROVE  Waiting(h)'
    <3>1. Delivered(dev.cid, "ERROR", dev.from, 0, "failure")
      BY <2>4, WorkDelivered DEF ReceiveTimesOut, AbortRequest
    <3>2. QED
      BY <2>1, <2>4, <3>1, WaitingWork DEF ReceiveTimesOut, AbortRequest, Abort, Delivered
  <2>5. ASSUME Waiting(h), NEW n \in Nat, NEW s, dev.mode = "busy", dev' = Replying(n, s),
               UNCHANGED wire
        PROVE  Waiting(h)'
    <3>1. dev'.cid = dev.cid /\ dev'.from = dev.from /\ dev'.mode = "reply"
          /\ dev'.next = 0 /\ dev'.n \in Nat
      BY <2>5 DEF Replying, TypeInv, DeviceInv, DeviceOK
    <3>2. QED
      BY <2>1, <2>5, <3>1, WaitingReply DEF wire
  <2>6. CASE \E n \in 0..MaxCont, s \in {"none", "success"} : Perform(n, s)
    BY <2>2, <2>5, <2>6 DEF Perform
  <2>7. CASE \E s \in {"failure", "missing"} : Decline(s)
    BY <2>2, <2>5, <2>7 DEF Decline
  <2>8. QED
    BY <2>1, <2>2, <2>3, <2>4, <2>6, <2>7, WaitingEmit DEF Work
<1>5. QED
  BY <1>1, <1>2, <1>3, <1>4, DeviceOnChannel

LEMMA InStepDevice ==
  ASSUME TypeInv, WireOK', ChannelInv, NEW h \in Handles, DeviceNext, UNCHANGED host, InStep(h)
  PROVE  InStep(h)'
<1>1. pc' = pc /\ req' = req
  BY DEF host
<1>2. CASE Open(h)
  BY <1>1, <1>2, ReplyDeviceStep DEF InStep, Called
<1>3. CASE ~Open(h)
  BY <1>1, <1>3 DEF InStep, Called, Open
<1>4. QED
  BY <1>2, <1>3

LEMMA ReplyDevice ==
  ASSUME TypeInv, ChannelInv, ReplyInv, DeviceStep
  PROVE  ReplyInv'
<1>1. DeviceNext /\ UNCHANGED host /\ WireOK'
  BY DeviceStepType DEF DeviceStep
<1>2. \A h \in Handles : InStep(h) => InStep(h)'
  BY <1>1, InStepDevice
<1>3. QED
  BY <1>1, <1>2 DEF ReplyInv, host

(* Answers. *)

TrustedOf(h) ==
  Answered(h) /\ clean[h] =>
    /\ \A f \in Frames(h) : f.cid = cid[h] /\ f.from = Request(h)
    /\ outcome[h].res = "ok" =>
         Whole(outcome[h].frames) /\ Request(h) \in performed

\* Only a call gives a new answer, and an answer is dropped by the next call.
LEMMA AnswerSteps ==
  ASSUME TypeInv, OutcomeInv, NEW h \in Handles, Proceed(h) \/ Invoke(h)
  PROVE  \/ ~Answered(h)'
         \/ /\ outcome'[h] = outcome[h] /\ cid'[h] = cid[h] /\ txn'[h] = txn[h]
            /\ clean'[h] = clean[h]
         \/ ErrorFrame(h)
         \/ Complete(h)
<1>. /\ outcome \in [Handles -> [res : Results, frames : Seq(Frame)]]
     /\ cid \in [Handles -> Nat] /\ clean \in [Handles -> BOOLEAN]
  BY DEF TypeInv, HostInv, HostOK
<1>1. CASE WriteInit(h) \/ Close(h) \/ WriteFrame(h)
  BY <1>1 DEF WriteInit, Close, WriteFrame
<1>2. CASE SkipBeforeInit(h) \/ SkipStray(h) \/ SkipKeepalive(h) \/ Cancel(h)
  BY <1>2 DEF SkipBeforeInit, SkipStray, SkipKeepalive, Cancel, host
<1>3. CASE AcceptInit(h)
  <2>1. outcome' = outcome /\ outcome[h] = Nothing
    BY <1>3 DEF AcceptInit, OutcomeInv
  <2>2. Nothing.res \notin Answers
    BY DEF Nothing, Answers
  <2>3. QED
    BY <2>1, <2>2 DEF Answered
<1>4. CASE \/ OpenPath(h) \/ RejectInit(h) \/ OpenTimesOut(h) \/ RejectCall(h)
           \/ \E command \in Commands, n \in 0..MaxReqCont : Call(h, command, n)
  BY <1>4 DEF OpenPath, RejectInit, OpenTimesOut, OpenFails, RejectCall, Call, Nothing, Answered, Answers
<1>5. CASE UnexpectedCommand(h) \/ BadContinuation(h) \/ CallFails(h)
  BY <1>5 DEF UnexpectedCommand, BadContinuation, CallFails, Return, Answered, Answers
<1>6. CASE FirstFrame(h) \/ ContinuationFrame(h)
  BY <1>6, ReplyShapes DEF Collects
<1>7. QED
  BY <1>1, <1>2, <1>3, <1>4, <1>5, <1>6 DEF Proceed, Invoke

LEMMA TrustedError ==
  ASSUME TypeInv, ChannelInv, NEW h \in Handles, Waiting(h), ErrorFrame(h)
  PROVE  TrustedOf(h)'
<1>1. Mine(h) /\ cid' = cid /\ txn' = txn
      /\ outcome' = [outcome EXCEPT ![h] = [res |-> "ctap", frames |-> <<Head(rx[h])>>]]
  BY DEF ErrorFrame, First, Return
<1>2. outcome'[h].res = "ctap" /\ outcome'[h].frames = <<Head(rx[h])>>
  BY <1>1 DEF TypeInv, HostInv, HostOK
<1>3. Head(rx[h]).cid = cid[h] /\ Head(rx[h]).from = Request(h)
  BY <1>1, HeadReport
<1>4. \A f \in Frames(h)' : f = Head(rx[h])
  BY <1>2 DEF Frames
<1>5. QED
  BY <1>1, <1>2, <1>3, <1>4 DEF TrustedOf, Request

LEMMA TrustedComplete ==
  ASSUME TypeInv, ChannelInv, BodyInv, EarnedInv, NEW h \in Handles, Waiting(h), Complete(h),
         performed' = performed
  PROVE  TrustedOf(h)'
<1>. DEFINE reply == Append(body[h], Head(rx[h]))
<1>1. /\ FirstFrame(h) \/ ContinuationFrame(h)
      /\ Len(reply) = reply[1].arg + 1
      /\ outcome'[h] = [res |-> ResultOf(req[h].cmd, reply[1].st), frames |-> reply]
  BY DEF Complete
<1>2. /\ reply \in Seq(Frame) /\ Len(reply) = Len(body[h]) + 1 /\ Len(body[h]) \in Nat
      /\ reply[1] \in Frame /\ reply[1].cmd = req[h].cmd
      /\ \A i \in DOMAIN reply : reply[i].from = Request(h)
      /\ \A i \in 2..Len(reply) : reply[i].cmd = "CONT" /\ reply[i].arg = i - 2
  BY <1>1, Collecting
<1>3. /\ Mine(h) /\ cid' = cid /\ txn' = txn /\ req[h].cmd \in Commands
      /\ body[h] \in Seq(Frame)
  BY <1>1 DEF FirstFrame, ContinuationFrame, First, Later, Mine, Reading, Collect, Return,
              TypeInv, HostInv, HostOK
<1>4. /\ 1 \in DOMAIN rx[h] /\ Head(rx[h]) = rx[h][1] /\ Head(rx[h]) \in Frame
      /\ Head(rx[h]).cid = cid[h]
  BY <1>3, HeadReport DEF Next1
<1>5. /\ DOMAIN body[h] = 1..Len(body[h]) /\ DOMAIN reply = 1..(Len(body[h]) + 1)
      /\ \A i \in 1..Len(body[h]) : reply[i] = body[h][i]
      /\ reply[Len(body[h]) + 1] = Head(rx[h])
  BY <1>3, <1>4, AppendTo
<1>6. \A i \in DOMAIN reply : reply[i].cid = cid[h]
  BY <1>2, <1>4, <1>5 DEF BodyInv
<1>7. Earned(reply[1], performed)
  <2>1. 1 \in DOMAIN reply
    BY <1>2, <1>5
  <2>2. CASE 1 \in DOMAIN body[h]
    BY <1>5, <2>2 DEF EarnedInv
  <2>3. CASE 1 \notin DOMAIN body[h]
    BY <1>2, <1>4, <1>5, <2>1, <2>3 DEF EarnedInv
  <2>4. QED
    BY <2>2, <2>3
<1>8. ResultOf(req[h].cmd, reply[1].st) = "ok" => Request(h) \in performed
  BY <1>2, <1>3, <1>5, <1>7 DEF Earned
<1>9. Whole(reply)
  BY <1>1, <1>2, <1>3, CommandsApart DEF Whole
<1>10. \A f \in Frames(h)' : f.cid = cid[h] /\ f.from = Request(h)
  BY <1>1, <1>2, <1>6 DEF Frames
<1>11. QED
  BY <1>1, <1>3, <1>8, <1>9, <1>10 DEF TrustedOf, Request

LEMMA TrustedHost ==
  ASSUME TypeInv, ChannelInv, CleanInv, NEW h \in Handles, HostStep(h)
  PROVE  TrustedAnswerIsOwn'
<1>1. (Proceed(h) \/ Invoke(h)) /\ performed' = performed
  BY DEF HostStep, device
<1>2. ASSUME NEW g \in Handles
      PROVE  TrustedOf(g)'
  <2>1. TrustedOf(g)
    BY DEF CleanInv, TrustedAnswerIsOwn, TrustedOf
  <2>2. ASSUME outcome'[g] = outcome[g], cid'[g] = cid[g], txn'[g] = txn[g], clean'[g] = clean[g]
        PROVE  TrustedOf(g)'
    BY <1>1, <2>1, <2>2 DEF TrustedOf, Answered, Frames, Request
  <2>3. CASE g # h
    BY <1>1, <2>2, <2>3, OthersSame DEF Same
  <2>4. CASE g = h
    <3>1. CASE ~Answered(h)'
      BY <2>4, <3>1 DEF TrustedOf
    <3>2. ASSUME ErrorFrame(h) \/ Complete(h)
          PROVE  TrustedOf(h)'
      <4>1. pc[h] = "reading" /\ (clean'[h] => clean[h])
        BY <3>2 DEF ErrorFrame, Complete, FirstFrame, ContinuationFrame, First, Later, Mine, Reading,
                    Collect, Return, TypeInv, HostInv, HostOK
      <4>2. clean[h] => Waiting(h)
        BY <4>1 DEF CleanInv, OutcomeInv, ReplyInv, InStep, Called
      <4>3. Waiting(h) => TrustedOf(h)'
        BY <1>1, <3>2, TrustedError, TrustedComplete DEF CleanInv
      <4>4. QED
        BY <4>1, <4>2, <4>3 DEF TrustedOf
    <3>3. QED
      BY <1>1, <2>2, <2>4, <3>1, <3>2, AnswerSteps DEF CleanInv
  <2>5. QED
    BY <2>3, <2>4
<1>3. QED
  BY <1>2 DEF TrustedAnswerIsOwn, TrustedOf

LEMMA TrustedDevice ==
  ASSUME TypeInv, CleanInv, DeviceStep
  PROVE  TrustedAnswerIsOwn'
<1>1. performed \subseteq performed' /\ UNCHANGED host
  BY DeliveredIsEarned DEF DeviceStep, CleanInv
<1>2. QED
  BY <1>1 DEF CleanInv, TrustedAnswerIsOwn, Answered, Frames, Request, host

LEMMA CleanInvariant == Spec => []CleanInv
<1>1. Init => UnusedInv /\ EarnedInv /\ ReplyInv /\ OutcomeInv /\ TrustedAnswerIsOwn
  BY DEF Init, HostInit, DeviceInit, Idle, UnusedInv, EarnedInv, ReplyInv, InStep, OutcomeInv, Called,
         TrustedAnswerIsOwn, Answered, Answers, Nothing
<1>2. Init => HandleInv
  BY DEF Init, HostInit, HandleInv, BodyInv, OwnHandle, Answered, Answers, Nothing
<1>3. TypeInv /\ ChannelInv /\ HandleInv /\ CleanInv /\ HandleInv' /\ [Next]_vars => CleanInv'
  <2>. SUFFICES ASSUME TypeInv, ChannelInv, HandleInv, CleanInv, HandleInv', [Next]_vars
                PROVE  CleanInv'
    OBVIOUS
  <2>. BodyInv'
    BY DEF HandleInv
  <2>1. CASE UNCHANGED vars
    BY <2>1 DEF vars, wire, host, device, CleanInv, BodyInv, UnusedInv, NoneOn, EarnedInv, EarnedReply, ReplyInv, InStep,
                OutcomeInv, TrustedAnswerIsOwn, Answered, Frames, Request, Nonce, Called, Quiet,
                Waiting, AskedInv, WorkedOnInv, QueueInv, CollectedInv, Mode
  <2>2. CASE \E h \in Handles : HostStep(h)
    BY <2>2, UnusedHost, EarnedHost, ReplyHost, OutcomeHost, TrustedHost DEF CleanInv
  <2>3. CASE DeviceStep
    <3>1. OutcomeInv'
      BY <2>3 DEF DeviceStep, host, CleanInv, OutcomeInv
    <3>2. QED
      BY <2>3, <3>1, UnusedDevice, EarnedDevice, ReplyDevice, TrustedDevice DEF CleanInv
  <2>4. QED
    BY <2>1, <2>2, <2>3 DEF Next
<1>4. Init => CleanInv
  BY <1>1, <1>2 DEF CleanInv, HandleInv
<1>5. QED
  BY <1>3, <1>4, TypeInvariant, ChannelInvariant, HandleInvariant, PTL DEF Spec

\* As long as no call of a Transport has failed, what transact, wink and
\* vendor_command return is of the request just sent, whole, and Ok only for a
\* request the device has carried out: for any number of handles, any loads of
\* the queues, and any cancels, losses and failures of the other handles.
THEOREM TrustedAnswersAreOwn == Spec => []TrustedAnswerIsOwn
<1>1. CleanInv => TrustedAnswerIsOwn
  BY DEF CleanInv
<1>2. QED
  BY <1>1, CleanInvariant, PTL

\* Between the calls of such a Transport neither the device nor a queue holds
\* anything of its channel, so Transport::cancel finds nothing to cancel.
THEOREM NothingLeftBetweenCalls == Spec => []QuietBetweenCalls
<1>1. CleanInv => QuietBetweenCalls
  BY DEF CleanInv, ReplyInv, InStep, Quiet, NoneOn, QuietBetweenCalls
<1>2. QED
  BY <1>1, CleanInvariant, PTL
=============================================================================
