------------------------------- MODULE CtapHid -------------------------------
(***************************************************************************)
(* Several Transports and one authenticator: the threads of the host, the  *)
(* HID queues between them and the device, and what may be said of the     *)
(* result of a call.                                                       *)
(***************************************************************************)
EXTENDS Transport, HidDevice

vars == <<wire, host, device>>

Init == HostInit /\ DeviceInit

HostStep(h) == (Proceed(h) \/ Invoke(h)) /\ UNCHANGED device

DeviceStep == DeviceNext /\ UNCHANGED host

Next == (\E h \in Handles : HostStep(h)) \/ DeviceStep

Spec == Init /\ [][Next]_vars

\* The device takes what it is sent and finishes what it has begun.
DeviceFairness ==
  /\ WF_vars(TakeReport /\ UNCHANGED host)
  /\ WF_vars(Work /\ UNCHANGED host)

\* A thread inside a call keeps running: no blocking read or write of
\* src/src/hid.rs is for ever.  Threads blocked in a write are served in turn by the operating system: one
\* that writes again and again (Transport::cancel) does not starve another.
TurnTaking == \A h \in Handles : SF_vars(Proceed(h) /\ UNCHANGED device)

FairSpec == Spec /\ TurnTaking /\ DeviceFairness

-----------------------------------------------------------------------------
Answers == {"ok", "ctap"}

Open(h) == pc[h] \in {"idle", "writing", "reading"}

InCall(h) == pc[h] \in {"initSend", "initRead", "writing", "reading"}

Modes == {"idle", "receive", "busy", "reply"}

WireOK ==
  /\ fds \subseteq Handles
  /\ out \in Seq(Frame) /\ Len(out) \leq 1
  /\ rx \in [Handles -> Seq(Frame)]

Results == {"none", "ok", "ctap", "hid", "parse"}

HostOK ==
  /\ pc \in [Handles -> {"closed", "initSend", "initRead", "idle", "writing", "reading"}]
  /\ cid \in [Handles -> Nat]
  /\ opens \in [Handles -> Nat]
  /\ txn \in [Handles -> Nat]
  /\ req \in [Handles -> [cmd : Commands \cup {"none"}, n : Nat, next : Nat]]
  /\ body \in [Handles -> Seq(Frame)]
  /\ outcome \in [Handles -> [res : Results, frames : Seq(Frame)]]
  /\ clean \in [Handles -> BOOLEAN]

DeviceOK ==
  /\ dev \in [mode : Modes, cid : Nat, from : Origin \cup {NoOrigin},
              cmd : Commands \cup {"none"}, n : Nat, next : Nat,
              st : Status, ka : Nat]
  /\ chan \in Seq(Origin)
  /\ performed \subseteq Origin

TypeOK == WireOK /\ HostOK /\ DeviceOK

-----------------------------------------------------------------------------
Answered(h) == outcome[h].res \in Answers

Frames(h) == {outcome[h].frames[i] : i \in DOMAIN outcome[h].frames}

\* The whole message: its first report and every continuation, in order.
Whole(frames) ==
  /\ frames # << >>
  /\ frames[1].cmd # "CONT"
  /\ Len(frames) = frames[1].arg + 1
  /\ \A i \in 2..Len(frames) : frames[i].cmd = "CONT" /\ frames[i].arg = i - 2

\* What the doc of Transport::transact promises: "Send a CBOR command, return
\* the response body" (src/src/hid.rs:94), for the request just sent.
AnswerIsOwn ==
  \A h \in Handles : Answered(h) => \A f \in Frames(h) : f.from = Request(h)

\* As long as no call of a Transport has returned a Hid or Parse error, its
\* answers are for the request just sent, complete, and an Ok answer is of a
\* request the device did carry out, whatever the other handles do, whatever
\* was cancelled and whichever reports were lost (Transport::transact, wink
\* and vendor_command over send_message and recv_message).
TrustedAnswerIsOwn ==
  \A h \in Handles : Answered(h) /\ clean[h] =>
    /\ \A f \in Frames(h) : f.cid = cid[h] /\ f.from = Request(h)
    /\ outcome[h].res = "ok" =>
         Whole(outcome[h].frames) /\ Request(h) \in performed

\* Even after errors an answer is never that of another handle: the nonce of
\* ctaphid_init and the channel test of recv_message keep two threads or
\* processes apart.
AnswerNeverForeign ==
  \A h \in Handles : Answered(h) =>
    \A f \in Frames(h) : f.from[1] = h /\ f.from[2] \leq txn[h]

\* No two open Transports hold the same channel (the nonce test of
\* ctaphid_init, when several INIT replies are broadcast to all).
ChannelsDistinct ==
  \A g, h \in Handles : Open(g) /\ Open(h) /\ cid[g] = cid[h] => g = h

\* A call that returned without a Hid or Parse error left nothing behind: the
\* device has no transaction on the channel and no report of it is queued.  So
\* Transport::cancel, which the borrow rules allow between calls only, finds
\* nothing to cancel on such a Transport, and cannot spoil the next call.
QuietBetweenCalls ==
  \A h \in Handles : pc[h] = "idle" /\ clean[h] =>
    /\ dev.cid # cid[h]
    /\ \A i \in DOMAIN rx[h] : rx[h][i].cid # cid[h]

\* A reply is never put together from the reports of two requests, even by a
\* Transport that is a reply behind (the sequence numbers of recv_message).
\* It takes an input queue that loses nothing.
OneRequestPerAnswer ==
  \A h \in Handles : Answered(h) =>
    \A f, g \in Frames(h) : f.from = g.from

\* Without timeouts and lost reports the reports of a channel come in the order
\* recv_message wants: neither of its two framing errors can happen.
FramingNeverFails ==
  \A h \in Handles :
    /\ First(h) => Head(rx[h]).cmd \in {"KEEPALIVE", "ERROR", req[h].cmd}
    /\ Later(h) => InSequence(h, Head(rx[h]))

\* What the doc of Transport::open promises: Parse "if the INIT response is
\* malformed" (src/src/hid.rs:68-69).  Every INIT response here is well formed.
OpenFailsOnlyIfMalformed ==
  \A h \in Handles : pc[h] = "closed" /\ outcome[h].res = "parse" =>
    \A f \in Frames(h) : f.cmd # "INIT"

\* A thread inside open, transact, wink or vendor_command gets out of it.
CallsReturn == \A h \in Handles : InCall(h) ~> ~InCall(h)

\* The device never carries a request out twice: nothing in src/src/hid.rs sends
\* a request again, whether it timed out, was cancelled or was refused.
PerformedAtMostOnce == dev.mode \in {"receive", "busy"} => dev.from \notin performed

-----------------------------------------------------------------------------
(* The refinement of CallContract. *)

PhaseOf(h) ==
  CASE pc[h] \in {"initSend", "initRead"} -> "opening"
    [] pc[h] \in {"writing", "reading"} -> "called"
    [] pc[h] = "idle" -> "ready"
    [] OTHER -> "closed"

ResultSeen(h) ==
  [res |-> outcome[h].res,
   of  |-> IF Answered(h) THEN {f.from : f \in Frames(h)} ELSE {}]

Contract ==
  INSTANCE CallContract WITH
    phase <- [h \in Handles |-> PhaseOf(h)],
    asked <- txn,
    trusted <- clean,
    result <- [h \in Handles |-> ResultSeen(h)],
    done <- performed

\* The calls of src/src/hid.rs keep the contract their callers rely on.
MeetsContract == Contract!ContractSpec
=============================================================================
