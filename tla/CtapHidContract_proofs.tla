----------------------- MODULE CtapHidContract_proofs -----------------------
(***************************************************************************)
(* The calls of src/src/hid.rs keep CallContract: every step of CtapHid is *)
(* a step of the contract, or one that it does not see.                    *)
(***************************************************************************)
EXTENDS CtapHidTrust_proofs

Phases == [h \in Handles |-> PhaseOf(h)]
Seen == [h \in Handles |-> ResultSeen(h)]

LEMMA ContractInitially == Init => Contract!ContractInit
<1>. SUFFICES ASSUME Init
              PROVE  Contract!ContractInit
  OBVIOUS
<1>1. Phases = [h \in Handles |-> "closed"]
  BY DEF Init, HostInit, Phases, PhaseOf
<1>2. Seen = [h \in Handles |-> Contract!NoResult]
  BY DEF Init, HostInit, Seen, ResultSeen, Answered, Answers, Nothing, Contract!NoResult
<1>3. QED
  BY <1>1, <1>2 DEF Init, HostInit, DeviceInit, Contract!ContractInit, Phases, Seen

\* A step of h changes what the contract sees of h only.
LEMMA SeenOfOne ==
  ASSUME TypeInv, NEW h \in Handles, Proceed(h) \/ Invoke(h)
  PROVE  /\ Phases' = [Phases EXCEPT ![h] = Phases'[h]]
         /\ Seen' = [Seen EXCEPT ![h] = Seen'[h]]
<1>1. ASSUME NEW g \in Handles, g # h
      PROVE  Phases'[g] = Phases[g] /\ Seen'[g] = Seen[g]
  <2>1. pc'[g] = pc[g] /\ outcome'[g] = outcome[g]
    BY <1>1, OthersSame DEF Same
  <2>2. Phases'[g] = Phases[g]
    BY <1>1, <2>1 DEF Phases, PhaseOf
  <2>3. Seen'[g] = Seen[g]
    BY <1>1, <2>1 DEF Seen, ResultSeen, Answered, Frames
  <2>4. QED
    BY <2>2, <2>3
<1>2. QED
  BY <1>1 DEF Phases, Seen

(* Requests are counted from one. *)

LEMMA NumberedHost ==
  ASSUME TypeInv, NumberedInv, NEW h \in Handles, HostStep(h)
  PROVE  NumberedInv'
<1>. (Proceed(h) \/ Invoke(h)) /\ dev' = dev
  BY DEF HostStep, device
<1>. /\ pc \in [Handles -> {"closed", "initSend", "initRead", "idle", "writing", "reading"}]
     /\ txn \in [Handles -> Nat] /\ txn' \in [Handles -> Nat]
  BY HostHost DEF TypeInv, HostInv, HostOK
<1>1. ASSUME NEW g \in Handles, Called(g)'
      PROVE  txn'[g] > 0
  <2>1. CASE Called(g)
    <3>1. txn[g] > 0 /\ txn[g] \leq txn'[g]
      BY <2>1, CountersGrow DEF NumberedInv
    <3>2. QED
      BY <3>1
  <2>2. CASE ~Called(g)
    <3>1. g = h
      BY <1>1, <2>2, OthersSame DEF Same, Called
    <3>2. pc[h] \notin {"writing", "reading"} /\ pc'[h] \in {"writing", "reading"}
      BY <1>1, <2>2, <3>1 DEF Called
    <3>3. \E command \in Commands, n \in 0..MaxReqCont : Call(h, command, n)
      <4>1. ~(OpenPath(h) \/ WriteInit(h) \/ AcceptInit(h) \/ RejectInit(h) \/ OpenTimesOut(h) \/ Close(h))
        BY <3>2 DEF OpenPath, WriteInit, AcceptInit, RejectInit, OpenTimesOut, OpenFails, Close,
                    Release, Goto
      <4>2. ~(SkipBeforeInit(h) \/ SkipStray(h) \/ SkipKeepalive(h) \/ RejectCall(h) \/ Cancel(h))
        BY <3>2 DEF SkipBeforeInit, SkipStray, SkipKeepalive, RejectCall, Cancel, host
      <4>3. ~(WriteFrame(h) \/ ErrorFrame(h) \/ UnexpectedCommand(h) \/ BadContinuation(h) \/ CallFails(h))
        BY <3>2 DEF WriteFrame, ErrorFrame, UnexpectedCommand, BadContinuation, CallFails,
                    First, Later, Mine, Reading
      <4>4. ~(FirstFrame(h) \/ ContinuationFrame(h))
        BY <3>2 DEF FirstFrame, ContinuationFrame, First, Later, Mine, Reading
      <4>5. QED
        BY <4>1, <4>2, <4>3, <4>4 DEF Proceed, Invoke
    <3>4. txn'[h] = txn[h] + 1
      BY <3>3 DEF Call
    <3>5. QED
      BY <3>1, <3>4
  <2>3. QED
    BY <2>1, <2>2
<1>2. ASSUME NEW i \in DOMAIN out', out'[i].cmd \in Commands
      PROVE  out'[i].from[2] > 0
  <2>1. CASE out' = out
    BY <1>2, <2>1 DEF NumberedInv
  <2>2. CASE out' # out
    <3>1. Puts(h)
      BY <2>2, QueueShapes DEF Silent, Takes, Drops
    <3>2. /\ Report(Broadcast, "INIT", Nonce(h), 0, "none").cmd \notin Commands
          /\ Report(cid[h], "CANCEL", Request(h), 0, "none").cmd \notin Commands
          /\ Part(h).from = Request(h)
      BY CommandsApart DEF Report, Part
    <3>3. pc[h] = "writing" /\ out'[i] = Part(h)
      BY <1>2, <3>1, <3>2 DEF Puts
    <3>4. QED
      BY <3>2, <3>3 DEF NumberedInv, Called, Request
  <2>3. QED
    BY <2>1, <2>2
<1>3. QED
  BY <1>1, <1>2 DEF NumberedInv

LEMMA NumberedDevice ==
  ASSUME TypeInv, NumberedInv, DeviceStep
  PROVE  NumberedInv'
<1>1. DeviceNext /\ pc' = pc /\ txn' = txn
  BY DEF DeviceStep, host
<1>2. /\ out' = out \/ out' = << >>
      /\ dev'.mode = "idle" \/ dev'.from[2] > 0
  <2>. /\ dev \in [mode : Modes, cid : Nat, from : Origin \cup {NoOrigin},
                   cmd : Commands \cup {"none"}, n : Nat, next : Nat, st : Status, ka : Nat]
       /\ dev.mode # "idle" => dev.from[2] > 0
    BY DEF TypeInv, DeviceInv, DeviceOK, NumberedInv
  <2>1. CASE TakeReport
    <3>1. PICK f : \/ AllocateChannel(f) \/ RefuseInit(f) \/ BeginRequest(f)
                   \/ ContinueRequest(f) \/ RefuseRequest(f) \/ CancelRequest(f)
                   \/ IgnoreReport(f)
      BY <2>1 DEF TakeReport
    <3>2. CASE BeginRequest(f)
      <4>1. out = <<f>> /\ out' = << >> /\ f.cmd \in Commands /\ dev'.from = f.from
        BY <3>2 DEF BeginRequest, Taking, Transaction
      <4>2. QED
        BY <4>1 DEF NumberedInv
    <3>3. CASE AllocateChannel(f) \/ RefuseInit(f) \/ IgnoreReport(f)
      BY <3>3 DEF AllocateChannel, RefuseInit, IgnoreReport, Taking, device
    <3>4. CASE ContinueRequest(f)
      BY <3>4 DEF ContinueRequest, InSequenceOf, Taking
    <3>5. CASE RefuseRequest(f)
      BY <3>5 DEF RefuseRequest, Taking, Idle
    <3>6. CASE CancelRequest(f)
      BY <3>6 DEF CancelRequest, InFlightOn, Replying, Taking
    <3>7. QED
      BY <3>1, <3>2, <3>3, <3>4, <3>5, <3>6
  <2>2. CASE Work
    <3>1. CASE Keepalive
      BY <3>1 DEF Keepalive
    <3>2. CASE ReceiveTimesOut \/ AbortRequest
      BY <3>2 DEF ReceiveTimesOut, AbortRequest, Idle
    <3>3. CASE \E n \in 0..MaxCont, s \in {"none", "success"} : Perform(n, s)
      BY <3>3 DEF Perform, Replying, wire
    <3>4. CASE \E s \in {"failure", "missing"} : Decline(s)
      BY <3>4 DEF Decline, Replying, wire
    <3>5. CASE Emit
      BY <3>5 DEF Emit, Idle
    <3>6. QED
      BY <2>2, <3>1, <3>2, <3>3, <3>4, <3>5 DEF Work
  <2>3. QED
    BY <1>1, <2>1, <2>2 DEF DeviceNext
<1>3. \A i \in DOMAIN out' : out'[i].cmd \in Commands => out'[i].from[2] > 0
  BY <1>2 DEF NumberedInv
<1>4. QED
  BY <1>1, <1>2, <1>3 DEF NumberedInv, Called

(* What is collected. *)

\* A report that is collected is a first one of the command or a continuation.
LEMMA ReplyParts ==
  ASSUME NEW h \in Handles, body[h] \in Seq(Frame), Head(rx[h]) \in Frame,
         FirstFrame(h) \/ ContinuationFrame(h),
         body[h] # << >> =>
           body[h][1].cmd = req[h].cmd /\ \A i \in 2..Len(body[h]) : body[h][i].cmd = "CONT",
         NEW reply, reply = Append(body[h], Head(rx[h]))
  PROVE  /\ reply \in Seq(Frame) /\ DOMAIN reply = 1..Len(reply) /\ 1 \in DOMAIN reply
         /\ reply # << >> /\ reply[1].cmd = req[h].cmd
         /\ \A i \in 2..Len(reply) : reply[i].cmd = "CONT"
<1>1. /\ reply \in Seq(Frame) /\ Len(reply) = Len(body[h]) + 1 /\ Len(body[h]) \in Nat
      /\ DOMAIN body[h] = 1..Len(body[h]) /\ DOMAIN reply = 1..(Len(body[h]) + 1)
      /\ \A i \in 1..Len(body[h]) : reply[i] = body[h][i]
      /\ reply[Len(body[h]) + 1] = Head(rx[h])
  BY AppendTo
<1>2. 1 \in DOMAIN reply /\ DOMAIN reply = 1..Len(reply) /\ reply # << >>
  BY <1>1
<1>3. CASE body[h] = << >>
  <2>1. Len(body[h]) = 0 /\ FirstFrame(h)
    BY <1>3 DEF ContinuationFrame, Later
  <2>2. reply[1] = Head(rx[h]) /\ Len(reply) = 1
    BY <1>1, <2>1
  <2>3. QED
    BY <1>1, <1>2, <2>1, <2>2 DEF FirstFrame
<1>4. CASE body[h] # << >>
  <2>1. Len(body[h]) >= 1 /\ Head(rx[h]).cmd = "CONT"
    <3>1. Len(body[h]) # 0
      BY <1>4, EmptySeq
    <3>2. QED
      BY <1>1, <1>4, <3>1 DEF FirstFrame, First, ContinuationFrame, InSequence
  <2>2. reply[1] = body[h][1]
    BY <1>1, <2>1
  <2>3. \A i \in 2..Len(reply) : reply[i].cmd = "CONT"
    BY <1>1, <1>4, <2>1
  <2>4. QED
    BY <1>1, <1>2, <1>4, <2>2, <2>3
<1>5. QED
  BY <1>3, <1>4

LEMMA PartsHost ==
  ASSUME TypeInv, BodyInv, PartsInv, NEW h \in Handles, HostStep(h)
  PROVE  PartsInv'
<1>. Proceed(h) \/ Invoke(h)
  BY DEF HostStep
<1>. DEFINE Good(b, r) == b # << >> => b[1].cmd = r.cmd /\ \A i \in 2..Len(b) : b[i].cmd = "CONT"
<1>1. \A g \in Handles : Good(body[g], req[g])
  BY DEF PartsInv
<1>2. ASSUME NEW g \in Handles, g # h
      PROVE  Good(body'[g], req'[g])
  <2>1. body'[g] = body[g] /\ req'[g] = req[g]
    BY <1>2, OthersSame DEF Same
  <2>2. QED
    BY <1>1, <2>1
<1>3. Good(body'[h], req'[h])
  <2>1. CASE body'[h] = << >>
    BY <2>1
  <2>2. CASE body'[h] = body[h] /\ body[h] # << >>
    <3>1. pc[h] = "reading"
      BY <2>2 DEF BodyInv
    <3>2. req' = req
      BY <3>1 DEF Proceed, Invoke, OpenPath, WriteInit, SkipBeforeInit, AcceptInit, RejectInit,
                  OpenTimesOut, OpenFails, Close, RejectCall, Cancel, Call, WriteFrame, SkipStray,
                  SkipKeepalive, ErrorFrame, UnexpectedCommand, FirstFrame, ContinuationFrame,
                  BadContinuation, CallFails, Collect, Return, host
    <3>3. QED
      BY <1>1, <2>2, <3>2
  <2>3. CASE Collects(h)
    <3>1. /\ FirstFrame(h) \/ ContinuationFrame(h)
          /\ body'[h] = Append(body[h], Head(rx[h])) /\ req'[h] = req[h]
      BY <2>3 DEF Collects
    <3>2. body[h] \in Seq(Frame) /\ Head(rx[h]) \in Frame
      BY <3>1, HeadOf DEF FirstFrame, ContinuationFrame, First, Later, Mine, Reading,
                          TypeInv, HostInv, HostOK
    <3>3. Good(Append(body[h], Head(rx[h])), req[h])
      BY <1>1, <3>1, <3>2, ReplyParts
    <3>4. QED
      BY <3>1, <3>3
  <2>4. QED
    BY <2>1, <2>2, <2>3, BodyShapes
<1>4. QED
  BY <1>2, <1>3 DEF PartsInv

LEMMA NumberedInvariant == Spec => []NumberedInv
<1>1. Init => NumberedInv
  BY DEF Init, HostInit, DeviceInit, Idle, NumberedInv, Called
<1>2. TypeInv /\ NumberedInv /\ [Next]_vars => NumberedInv'
  <2>. SUFFICES ASSUME TypeInv, NumberedInv, [Next]_vars PROVE NumberedInv'
    OBVIOUS
  <2>1. CASE UNCHANGED vars
    BY <2>1 DEF vars, wire, host, device, NumberedInv, Called
  <2>2. QED
    BY <2>1, NumberedHost, NumberedDevice DEF Next
<1>3. QED
  BY <1>1, <1>2, TypeInvariant, PTL DEF Spec

LEMMA PartsInvariant == Spec => []PartsInv
<1>1. Init => PartsInv
  BY DEF Init, HostInit, PartsInv
<1>2. TypeInv /\ HandleInv /\ PartsInv /\ [Next]_vars => PartsInv'
  <2>. SUFFICES ASSUME TypeInv, HandleInv, PartsInv, [Next]_vars PROVE PartsInv'
    OBVIOUS
  <2>1. CASE UNCHANGED host
    BY <2>1 DEF host, PartsInv
  <2>2. QED
    BY <2>1, PartsHost DEF Next, DeviceStep, vars, HandleInv
<1>3. QED
  BY <1>1, <1>2, TypeInvariant, HandleInvariant, PTL DEF Spec

(* From steps of h to steps of the contract. *)

LEMMA Moves ==
  ASSUME TypeInv, NEW h \in Handles, Proceed(h) \/ Invoke(h),
         NEW from, NEW to, PhaseOf(h) = from, PhaseOf(h)' = to
  PROVE  Contract!Move(h, from, to)
<1>1. Phases[h] = from /\ Phases' = [Phases EXCEPT ![h] = to]
  <2>1. Phases[h] = from /\ Phases'[h] = to
    BY DEF Phases
  <2>2. QED
    BY <2>1, SeenOfOne
<1>2. QED
  BY <1>1 DEF Phases, Contract!Move

LEMMA Stays ==
  ASSUME TypeInv, NEW h \in Handles, Proceed(h) \/ Invoke(h), PhaseOf(h)' = PhaseOf(h)
  PROVE  Phases' = Phases
<1>1. Phases'[h] = Phases[h]
  BY DEF Phases
<1>2. QED
  BY <1>1, SeenOfOne DEF Phases

LEMMA Shows ==
  ASSUME TypeInv, NEW h \in Handles, Proceed(h) \/ Invoke(h),
         NEW res, NEW of, ResultSeen(h)' = [res |-> res, of |-> of]
  PROVE  Contract!Results(h, res, of)
<1>1. Seen'[h] = [res |-> res, of |-> of]
  BY DEF Seen
<1>2. Seen' = [Seen EXCEPT ![h] = [res |-> res, of |-> of]]
  BY <1>1, SeenOfOne
<1>3. QED
  BY <1>2 DEF Seen, Contract!Results

LEMMA ShowsTheSame ==
  ASSUME TypeInv, NEW h \in Handles, Proceed(h) \/ Invoke(h), outcome'[h] = outcome[h]
  PROVE  Seen' = Seen
<1>1. ResultSeen(h)' = ResultSeen(h)
  BY DEF ResultSeen, Answered, Frames
<1>2. Seen'[h] = Seen[h]
  BY <1>1 DEF Seen
<1>3. QED
  BY <1>2, SeenOfOne DEF Seen

LEMMA ShowsNoAnswer ==
  ASSUME TypeInv, NEW h \in Handles, Proceed(h) \/ Invoke(h),
         NEW res, res \notin Answers, outcome'[h].res = res
  PROVE  Contract!Results(h, res, {})
<1>1. ResultSeen(h)' = [res |-> res, of |-> {}]
  BY DEF ResultSeen, Answered
<1>2. QED
  BY <1>1, Shows

LEMMA Unseen ==
  ASSUME TypeInv, NEW h \in Handles, Proceed(h) \/ Invoke(h),
         PhaseOf(h)' = PhaseOf(h), outcome'[h] = outcome[h],
         txn' = txn, clean' = clean, performed' = performed
  PROVE  UNCHANGED Contract!contractVars
<1>1. Phases' = Phases /\ Seen' = Seen
  BY Stays, ShowsTheSame
<1>2. QED
  BY <1>1 DEF Phases, Seen, Contract!contractVars

(* Opening, closing, calling. *)

LEMMA OpeningContract ==
  ASSUME TypeInv, NEW h \in Handles, performed' = performed,
         OpenPath(h) \/ AcceptInit(h) \/ RejectInit(h) \/ OpenTimesOut(h) \/ Close(h)
  PROVE  Contract!ContractNext
<1>. Proceed(h) \/ Invoke(h)
  BY DEF Proceed, Invoke
<1>. /\ pc \in [Handles -> {"closed", "initSend", "initRead", "idle", "writing", "reading"}]
     /\ outcome \in [Handles -> [res : Results, frames : Seq(Frame)]]
  BY DEF TypeInv, HostInv, HostOK
<1>1. CASE OpenPath(h)
  <2>1. /\ pc[h] = "closed" /\ pc'[h] = "initSend" /\ outcome'[h].res = "none"
        /\ txn' = txn /\ clean' = clean
    BY <1>1 DEF OpenPath, Goto, Nothing
  <2>2. Contract!Move(h, "closed", "opening")
    BY <2>1, Moves DEF PhaseOf
  <2>3. Contract!Results(h, "none", {})
    BY <2>1, ShowsNoAnswer DEF Answers
  <2>4. Contract!StartOpen(h)
    BY <2>1, <2>2, <2>3 DEF Contract!StartOpen
  <2>5. QED
    BY <2>4 DEF Contract!ContractNext
<1>2. CASE AcceptInit(h)
  <2>1. /\ pc[h] = "initRead" /\ pc'[h] = "idle" /\ outcome' = outcome /\ txn' = txn
        /\ clean' = [clean EXCEPT ![h] = TRUE]
    BY <1>2 DEF AcceptInit, Goto
  <2>2. Contract!Move(h, "opening", "ready")
    BY <2>1, Moves DEF PhaseOf
  <2>3. Seen' = Seen
    BY <2>1, ShowsTheSame
  <2>4. Contract!Opened(h)
    BY <2>1, <2>2, <2>3 DEF Contract!Opened, Seen
  <2>5. QED
    BY <2>4 DEF Contract!ContractNext
<1>3. CASE RejectInit(h) \/ OpenTimesOut(h)
  <2>1. PICK e \in {"hid", "parse"} : \E why : OpenFails(h, e, why)
    BY <1>3 DEF RejectInit, OpenTimesOut
  <2>2. /\ pc[h] \in {"initSend", "initRead"} /\ pc'[h] = "closed" /\ outcome'[h].res = e
        /\ txn' = txn /\ clean' = clean
    BY <1>3, <2>1 DEF RejectInit, OpenTimesOut, OpenFails, Release, Goto
  <2>3. Contract!Move(h, "opening", "closed")
    BY <2>2, Moves DEF PhaseOf
  <2>4. Contract!Results(h, e, {})
    BY <2>1, <2>2, ShowsNoAnswer DEF Answers
  <2>5. Contract!OpenFailed(h)
    BY <2>2, <2>3, <2>4 DEF Contract!OpenFailed
  <2>6. QED
    BY <2>5 DEF Contract!ContractNext
<1>4. CASE Close(h)
  <2>1. /\ pc[h] = "idle" /\ pc'[h] = "closed" /\ outcome' = outcome
        /\ txn' = txn /\ clean' = clean
    BY <1>4 DEF Close, Release, Goto
  <2>2. Contract!Move(h, "ready", "closed")
    BY <2>1, Moves DEF PhaseOf
  <2>3. Seen' = Seen
    BY <2>1, ShowsTheSame
  <2>4. Contract!Closed(h)
    BY <2>1, <2>2, <2>3 DEF Contract!Closed, Seen
  <2>5. QED
    BY <2>4 DEF Contract!ContractNext
<1>5. QED
  BY <1>1, <1>2, <1>3, <1>4

LEMMA CallingContract ==
  ASSUME TypeInv, NEW h \in Handles, performed' = performed,
         RejectCall(h) \/ \E command \in Commands, n \in 0..MaxReqCont : Call(h, command, n)
  PROVE  Contract!ContractNext
<1>. Proceed(h) \/ Invoke(h)
  BY DEF Invoke
<1>. /\ pc \in [Handles -> {"closed", "initSend", "initRead", "idle", "writing", "reading"}]
     /\ outcome \in [Handles -> [res : Results, frames : Seq(Frame)]]
  BY DEF TypeInv, HostInv, HostOK
<1>1. CASE RejectCall(h)
  <2>1. /\ pc[h] = "idle" /\ pc' = pc /\ outcome'[h].res = "parse"
        /\ txn' = txn /\ clean' = clean
    BY <1>1 DEF RejectCall
  <2>2. Phases[h] = "ready" /\ Phases' = Phases
    BY <2>1, Stays DEF PhaseOf, Phases
  <2>3. Contract!Results(h, "parse", {})
    BY <2>1, ShowsNoAnswer DEF Answers
  <2>4. Contract!Refused(h)
    BY <2>1, <2>2, <2>3 DEF Contract!Refused, Phases
  <2>5. QED
    BY <2>4 DEF Contract!ContractNext
<1>2. CASE \E command \in Commands, n \in 0..MaxReqCont : Call(h, command, n)
  <2>1. /\ pc[h] = "idle" /\ pc'[h] = "writing" /\ outcome'[h].res = "none"
        /\ txn' = [txn EXCEPT ![h] = @ + 1] /\ clean' = clean
    BY <1>2 DEF Call, Goto, Nothing
  <2>2. Contract!Move(h, "ready", "called")
    BY <2>1, Moves DEF PhaseOf
  <2>3. Contract!Results(h, "none", {})
    BY <2>1, ShowsNoAnswer DEF Answers
  <2>4. Contract!Ask(h)
    BY <2>1, <2>2, <2>3 DEF Contract!Ask
  <2>5. QED
    BY <2>4 DEF Contract!ContractNext
<1>3. QED
  BY <1>1, <1>2

(* Inside a call. *)

\* Reports that come and go are not seen.
LEMMA QuietContract ==
  ASSUME TypeInv, NEW h \in Handles, performed' = performed,
         \/ WriteInit(h) \/ SkipBeforeInit(h) \/ Cancel(h) \/ WriteFrame(h)
         \/ SkipStray(h) \/ SkipKeepalive(h)
  PROVE  UNCHANGED Contract!contractVars
<1>. Proceed(h) \/ Invoke(h)
  BY DEF Proceed, Invoke
<1>. pc \in [Handles -> {"closed", "initSend", "initRead", "idle", "writing", "reading"}]
  BY DEF TypeInv, HostInv, HostOK
<1>1. CASE WriteInit(h) \/ WriteFrame(h)
  <2>1. /\ outcome' = outcome /\ txn' = txn /\ clean' = clean
        /\ PhaseOf(h)' = PhaseOf(h)
    BY <1>1 DEF WriteInit, WriteFrame, Goto, PhaseOf
  <2>2. QED
    BY <2>1, Unseen
<1>2. CASE SkipBeforeInit(h) \/ Cancel(h) \/ SkipStray(h) \/ SkipKeepalive(h)
  <2>1. UNCHANGED host
    BY <1>2 DEF SkipBeforeInit, Cancel, SkipStray, SkipKeepalive
  <2>2. PhaseOf(h)' = PhaseOf(h) /\ outcome' = outcome /\ txn' = txn /\ clean' = clean
    BY <2>1 DEF host, PhaseOf
  <2>3. QED
    BY <2>2, Unseen
<1>3. QED
  BY <1>1, <1>2

\* A call that returns an error that is not the authenticator's.
LEMMA FailingContract ==
  ASSUME TypeInv, NEW h \in Handles, Proceed(h), performed' = performed,
         pc[h] \in {"writing", "reading"}, NEW e \in {"hid", "parse"},
         NEW frames, Return(h, e, frames)
  PROVE  Contract!ContractNext
<1>. /\ pc \in [Handles -> {"closed", "initSend", "initRead", "idle", "writing", "reading"}]
     /\ outcome \in [Handles -> [res : Results, frames : Seq(Frame)]]
     /\ clean \in [Handles -> BOOLEAN]
  BY DEF TypeInv, HostInv, HostOK
<1>1. pc'[h] = "idle" /\ outcome'[h].res = e /\ txn' = txn
  BY DEF Return, Goto
<1>2. clean' = [clean EXCEPT ![h] = FALSE]
  BY DEF Return
<1>3. Contract!Move(h, "called", "ready")
  BY <1>1, Moves DEF PhaseOf
<1>4. Contract!Results(h, e, {})
  BY <1>1, ShowsNoAnswer DEF Answers
<1>5. Contract!Fail(h)
  BY <1>1, <1>2, <1>3, <1>4 DEF Contract!Fail
<1>6. QED
  BY <1>5 DEF Contract!ContractNext

\* A call that returns an answer: of `frames`, which are requests of h, of the
\* current one as long as h is clean, and carried out if the answer is Ok.
LEMMA AnsweringContract ==
  ASSUME TypeInv, NEW h \in Handles, Proceed(h), performed' = performed,
         pc[h] \in {"writing", "reading"}, NEW res \in Answers,
         NEW frames \in Seq(Frame), Return(h, res, frames),
         frames # << >>,
         \A i \in DOMAIN frames : frames[i].from[1] = h /\ frames[i].from[2] \leq txn[h],
         clean[h] => \A i \in DOMAIN frames : frames[i].from = Request(h),
         res = "ok" => \A i \in DOMAIN frames : frames[i].from \in performed
  PROVE  Contract!ContractNext
<1>. DEFINE of == {frames[i].from : i \in DOMAIN frames}
<1>. /\ pc \in [Handles -> {"closed", "initSend", "initRead", "idle", "writing", "reading"}]
     /\ outcome \in [Handles -> [res : Results, frames : Seq(Frame)]]
     /\ clean \in [Handles -> BOOLEAN] /\ txn \in [Handles -> Nat]
  BY DEF TypeInv, HostInv, HostOK
<1>1. /\ pc'[h] = "idle" /\ outcome'[h] = [res |-> res, frames |-> frames] /\ txn' = txn
  BY DEF Return, Goto
<1>2. clean' = clean
  BY DEF Return, Answers
<1>3. Contract!Move(h, "called", "ready")
  BY <1>1, Moves DEF PhaseOf
<1>4. ResultSeen(h)' = [res |-> res, of |-> of]
  <2>1. outcome'[h].res = res /\ outcome'[h].frames = frames
    BY <1>1
  <2>2. Frames(h)' = {frames[i] : i \in DOMAIN frames}
    BY <2>1 DEF Frames
  <2>3. {f.from : f \in Frames(h)'} = of
    BY <2>2
  <2>4. QED
    BY <2>1, <2>3 DEF ResultSeen, Answered
<1>5. Contract!Results(h, res, of)
  BY <1>4, Shows
<1>6. CASE clean[h]
  <2>1. 1 \in DOMAIN frames
    BY EmptySeq, LenProperties
  <2>2. of = {Request(h)} /\ (res = "ok" => Request(h) \in performed)
    BY <1>6, <2>1
  <2>3. Contract!Results(h, res, {<<h, txn[h]>>})
    BY <1>5, <2>2 DEF Request
  <2>4. Contract!Answer(h)
    BY <1>1, <1>2, <1>3, <1>6, <2>2, <2>3 DEF Contract!Answer, Request, Answers
  <2>5. QED
    BY <2>4 DEF Contract!ContractNext
<1>7. CASE ~clean[h]
  <2>1. of \in SUBSET ({h} \X (0..txn[h]))
    <3>1. ASSUME NEW i \in DOMAIN frames
          PROVE  frames[i].from \in {h} \X (0..txn[h])
      <4>1. frames[i].from \in Handles \X Nat
        BY <3>1, ElementOfSeq, LenProperties, FrameFields DEF Origin
      <4>2. QED
        BY <3>1, <4>1
    <3>2. QED
      BY <3>1
  <2>2. res = "ok" => of \subseteq performed
    OBVIOUS
  <2>3. Contract!AnyAnswer(h)
    BY <1>1, <1>2, <1>3, <1>5, <1>7, <2>1, <2>2 DEF Contract!AnyAnswer, Answers
  <2>4. QED
    BY <2>3 DEF Contract!ContractNext
<1>8. QED
  BY <1>6, <1>7

LEMMA ErrorContract ==
  ASSUME TypeInv, ChannelInv, CleanInv, NEW h \in Handles, performed' = performed, ErrorFrame(h)
  PROVE  Contract!ContractNext
<1>. DEFINE frames == <<Head(rx[h])>>
<1>1. Proceed(h) /\ Mine(h) /\ Open(h) /\ pc[h] = "reading" /\ Return(h, "ctap", frames)
  BY DEF Proceed, ErrorFrame, First, Mine, Reading, Open
<1>2. /\ Head(rx[h]) \in Frame /\ Head(rx[h]).from[1] = h /\ Head(rx[h]).from[2] \leq txn[h]
  BY <1>1, HeadIsOwn
<1>3. clean[h] => Head(rx[h]).from = Request(h)
  <2>1. clean[h] => Waiting(h)
    BY <1>1 DEF CleanInv, OutcomeInv, ReplyInv, InStep, Called
  <2>2. Waiting(h) => Head(rx[h]).from = Request(h)
    BY <1>1, HeadReport
  <2>3. QED
    BY <2>1, <2>2
<1>4. frames \in Seq(Frame) /\ frames # << >> /\ \A i \in DOMAIN frames : frames[i] = Head(rx[h])
  BY <1>2
<1>5. "ctap" \in Answers /\ "ctap" # "ok"
  BY DEF Answers
<1>. HIDE DEF frames
<1>6. QED
  BY <1>1, <1>2, <1>3, <1>4, <1>5, AnsweringContract

LEMMA ReplyContract ==
  ASSUME TypeInv, ChannelInv, CleanInv, PartsInv, NEW h \in Handles, performed' = performed,
         FirstFrame(h) \/ ContinuationFrame(h)
  PROVE  Contract!ContractNext \/ UNCHANGED Contract!contractVars
<1>. DEFINE reply == Append(body[h], Head(rx[h]))
            result == ResultOf(req[h].cmd, reply[1].st)
<1>1. /\ Proceed(h) /\ Mine(h) /\ Open(h) /\ pc[h] = "reading" /\ Collect(h)
      /\ req[h].cmd \in Commands /\ body[h] \in Seq(Frame)
  BY DEF Proceed, FirstFrame, ContinuationFrame, First, Later, Mine, Reading, Open,
         TypeInv, HostInv, HostOK
<1>2. CASE Len(reply) # reply[1].arg + 1
  <2>1. UNCHANGED <<pc, txn, outcome, clean>>
    BY <1>1, <1>2 DEF Collect, Full
  <2>2. QED
    BY <1>1, <2>1, Unseen DEF PhaseOf
<1>3. CASE Len(reply) = reply[1].arg + 1
  <2>1. Return(h, result, reply)
    BY <1>1, <1>3 DEF Collect, Full
  <2>2. result \in {"ok", "ctap", "parse"}
    BY DEF ResultOf
  <2>3. CASE result = "parse"
    <3>1. Return(h, "parse", reply)
      BY <2>1, <2>3
    <3>2. QED
      BY <1>1, <3>1, FailingContract
  <2>4. CASE result \in Answers
    <3>1. /\ 1 \in DOMAIN rx[h] /\ Head(rx[h]) = rx[h][1] /\ Head(rx[h]) \in Frame
      BY <1>1, HeadOf DEF Mine, Reading, TypeInv
    <3>2. /\ reply \in Seq(Frame) /\ DOMAIN reply = 1..Len(reply) /\ 1 \in DOMAIN reply
          /\ reply # << >> /\ reply[1].cmd = req[h].cmd
          /\ \A i \in 2..Len(reply) : reply[i].cmd = "CONT"
      <4>1. body[h] # << >> =>
              body[h][1].cmd = req[h].cmd /\ \A i \in 2..Len(body[h]) : body[h][i].cmd = "CONT"
        BY DEF PartsInv
      <4>2. reply = Append(body[h], Head(rx[h]))
        OBVIOUS
      <4>3. body[h] \in Seq(Frame) /\ (FirstFrame(h) \/ ContinuationFrame(h))
        BY <1>1 DEF TypeInv
      <4>. HIDE DEF reply
      <4>4. QED
        BY <3>1, <4>1, <4>2, <4>3, ReplyParts
    <3>3. /\ DOMAIN reply = 1..(Len(body[h]) + 1) /\ Len(body[h]) \in Nat
          /\ DOMAIN body[h] = 1..Len(body[h])
          /\ \A i \in 1..Len(body[h]) : reply[i] = body[h][i]
          /\ reply[Len(body[h]) + 1] = Head(rx[h])
      BY <1>1, <3>1, AppendTo
    <3>. HIDE DEF reply
    <3>4. \A i \in DOMAIN reply : (i \in DOMAIN body[h] /\ reply[i] = body[h][i]) \/ reply[i] = rx[h][1]
      BY <3>1, <3>3
    <3>5. \A i \in DOMAIN reply : reply[i].from[1] = h /\ reply[i].from[2] \leq txn[h]
      <4>1. Head(rx[h]).from[1] = h /\ Head(rx[h]).from[2] \leq txn[h]
        BY <1>1, HeadIsOwn
      <4>2. \A i \in DOMAIN body[h] : body[h][i].from[1] = h /\ body[h][i].from[2] \leq txn[h]
        BY <1>1, BodyIsOwn DEF CleanInv
      <4>3. QED
        BY <3>1, <3>4, <4>1, <4>2
    <3>6. clean[h] => \A i \in DOMAIN reply : reply[i].from = Request(h)
      <4>1. clean[h] => Waiting(h)
        BY <1>1 DEF CleanInv, OutcomeInv, ReplyInv, InStep, Called
      <4>2. Waiting(h) => \A i \in DOMAIN reply : reply[i].from = Request(h)
        BY Collecting DEF reply
      <4>3. QED
        BY <4>1, <4>2
    <3>7. \A i \in DOMAIN reply : Earned(reply[i], performed)
      BY <3>1, <3>4 DEF CleanInv, EarnedInv
    <3>8. ASSUME result = "ok", NEW i \in DOMAIN reply
          PROVE  reply[i].from \in performed
      <4>1. CASE i = 1
        BY <1>1, <3>2, <3>7, <3>8, <4>1 DEF Earned
      <4>2. CASE i # 1
        <5>1. i \in 2..Len(reply)
          BY <3>2, <3>3, <4>2
        <5>2. QED
          BY <3>2, <3>7, <5>1 DEF Earned
      <4>3. QED
        BY <4>1, <4>2
    <3>. HIDE DEF result
    <3>9. QED
      BY <1>1, <2>1, <2>4, <3>2, <3>5, <3>6, <3>8, AnsweringContract
  <2>5. QED
    BY <2>2, <2>3, <2>4 DEF Answers
<1>4. QED
  BY <1>2, <1>3

LEMMA HostContract ==
  ASSUME TypeInv, ChannelInv, CleanInv, PartsInv, NEW h \in Handles, HostStep(h)
  PROVE  Contract!ContractNext \/ UNCHANGED Contract!contractVars
<1>1. (Proceed(h) \/ Invoke(h)) /\ performed' = performed
  BY DEF HostStep, device
<1>2. CASE OpenPath(h) \/ AcceptInit(h) \/ RejectInit(h) \/ OpenTimesOut(h) \/ Close(h)
  BY <1>1, <1>2, OpeningContract
<1>3. CASE RejectCall(h) \/ \E command \in Commands, n \in 0..MaxReqCont : Call(h, command, n)
  BY <1>1, <1>3, CallingContract
<1>4. CASE \/ WriteInit(h) \/ SkipBeforeInit(h) \/ Cancel(h) \/ WriteFrame(h)
           \/ SkipStray(h) \/ SkipKeepalive(h)
  BY <1>1, <1>4, QuietContract
<1>5. CASE ErrorFrame(h)
  BY <1>1, <1>5, ErrorContract
<1>6. CASE FirstFrame(h) \/ ContinuationFrame(h)
  BY <1>1, <1>6, ReplyContract
<1>7. CASE UnexpectedCommand(h) \/ BadContinuation(h) \/ CallFails(h)
  <2>1. /\ Proceed(h) /\ pc[h] \in {"writing", "reading"}
        /\ Return(h, "parse", << >>) \/ Return(h, "hid", << >>)
    BY <1>7 DEF Proceed, UnexpectedCommand, BadContinuation, CallFails, First, Later, Mine, Reading
  <2>2. QED
    BY <1>1, <2>1, FailingContract
<1>8. QED
  BY <1>1, <1>2, <1>3, <1>4, <1>5, <1>6, <1>7 DEF Proceed, Invoke

(* The device. *)

LEMMA DeviceUnseen ==
  ASSUME UNCHANGED host, performed' = performed
  PROVE  UNCHANGED Contract!contractVars
<1>1. Phases' = Phases /\ Seen' = Seen /\ txn' = txn /\ clean' = clean
  BY DEF host, Phases, Seen, PhaseOf, ResultSeen, Answered, Frames
<1>2. QED
  BY <1>1 DEF Phases, Seen, Contract!contractVars

LEMMA PerformContract ==
  ASSUME TypeInv, ChannelInv, OnceInv, NumberedInv, UNCHANGED host,
         NEW n, NEW s, Perform(n, s)
  PROVE  Contract!ContractNext
<1>1. dev.mode = "busy" /\ performed' = performed \cup {dev.from}
  BY DEF Perform
<1>2. dev.from \in Handles \X Nat
  BY <1>1 DEF TypeInv, DeviceInv, Origin
<1>3. PICK h \in Handles, k \in Nat : dev.from = <<h, k>>
  BY <1>2
<1>4. k > 0 /\ k \leq txn[h] /\ txn[h] \in Nat
  BY <1>1, <1>3 DEF NumberedInv, ChannelInv, Sent, TypeInv, HostInv, HostOK
<1>5. <<h, k>> \notin performed
  BY <1>1, <1>3 DEF OnceInv, PerformedAtMostOnce
<1>6. Phases' = Phases /\ Seen' = Seen /\ txn' = txn /\ clean' = clean
  BY DEF host, Phases, Seen, PhaseOf, ResultSeen, Answered, Frames
<1>7. k \in 1..txn[h]
  BY <1>4
<1>8. Contract!CarryOut(h, k)
  BY <1>1, <1>3, <1>5, <1>6, <1>7 DEF Contract!CarryOut, Phases, Seen
<1>9. QED
  BY <1>7, <1>8 DEF Contract!ContractNext

LEMMA DeviceContract ==
  ASSUME TypeInv, ChannelInv, OnceInv, NumberedInv, DeviceStep
  PROVE  Contract!ContractNext \/ UNCHANGED Contract!contractVars
<1>1. DeviceNext /\ UNCHANGED host
  BY DEF DeviceStep
<1>2. CASE performed' = performed
  BY <1>1, <1>2, DeviceUnseen
<1>3. CASE \E n \in 0..MaxCont, s \in {"none", "success"} : Perform(n, s)
  BY <1>1, <1>3, PerformContract
<1>4. performed' = performed \/ \E n \in 0..MaxCont, s \in {"none", "success"} : Perform(n, s)
  <2>1. CASE TakeReport
    <3>1. PICK f : \/ AllocateChannel(f) \/ RefuseInit(f) \/ BeginRequest(f)
                   \/ ContinueRequest(f) \/ RefuseRequest(f) \/ CancelRequest(f)
                   \/ IgnoreReport(f)
      BY <2>1 DEF TakeReport
    <3>2. QED
      BY <3>1 DEF AllocateChannel, RefuseInit, BeginRequest, ContinueRequest, RefuseRequest,
                  CancelRequest, IgnoreReport, device
  <2>2. CASE Work
    BY <2>2 DEF Work, Keepalive, ReceiveTimesOut, AbortRequest, Decline, Emit
  <2>3. QED
    BY <1>1, <2>1, <2>2 DEF DeviceNext
<1>5. QED
  BY <1>2, <1>3, <1>4

\* Whatever the other handles, the device and the losses do, the calls of a
\* Transport are those of CallContract: a Transport no call of which has failed
\* answers the request just sent, another may answer an older one of its own,
\* an Ok answer is of requests the device has carried out, each at most once.
THEOREM ContractKept == Spec => MeetsContract
<1>1. /\ TypeInv /\ ChannelInv /\ CleanInv /\ OnceInv /\ NumberedInv /\ PartsInv /\ [Next]_vars
      => [Contract!ContractNext]_(Contract!contractVars)
  <2>. SUFFICES ASSUME TypeInv, ChannelInv, CleanInv, OnceInv, NumberedInv, PartsInv, [Next]_vars
                PROVE  Contract!ContractNext \/ UNCHANGED Contract!contractVars
    OBVIOUS
  <2>1. CASE UNCHANGED vars
    BY <2>1, DeviceUnseen DEF vars, device, host
  <2>2. CASE \E h \in Handles : HostStep(h)
    BY <2>2, HostContract
  <2>3. CASE DeviceStep
    BY <2>3, DeviceContract
  <2>4. QED
    BY <2>1, <2>2, <2>3 DEF Next
<1>2. QED
  BY <1>1, ContractInitially, TypeInvariant, ChannelInvariant, CleanInvariant, OnceInvariant,
     NumberedInvariant, PartsInvariant, PTL DEF Spec, MeetsContract, Contract!ContractSpec
=============================================================================
