------------------------------ MODULE HidDevice ------------------------------
(***************************************************************************)
(* The authenticator and the operating system's HID layer, as src/src/hid.rs *)
(* relies on them.  Nothing here is under src/: it is the CTAPHID side of  *)
(* the FIDO specification the client is written for, kept as permissive as *)
(* that specification allows.  Channel numbers stand for channel ids: the  *)
(* device hands out 1, 2, 3 ... and never the same one twice.              *)
(***************************************************************************)
EXTENDS CtapFrames

CONSTANTS
  MaxKeepalive   \* most KEEPALIVE reports of one request

ASSUME DeviceAssumption == MaxKeepalive \in Nat

VARIABLES
  dev,       \* the one transaction the device can have
  chan,      \* chan[c]: the nonce channel c was granted to
  performed  \* requests the device has carried out

device == <<dev, chan, performed>>

-----------------------------------------------------------------------------
NoOrigin == << >>

Idle == [mode |-> "idle", cid |-> Broadcast, from |-> NoOrigin, cmd |-> "none",
         n |-> 0, next |-> 0, st |-> "none", ka |-> 0]

DeviceInit ==
  /\ dev = Idle
  /\ chan = << >>
  /\ performed = {}

Transaction(mode, f) ==
  [mode |-> mode, cid |-> f.cid, from |-> f.from, cmd |-> f.cmd,
   n |-> f.arg, next |-> 0, st |-> "none", ka |-> 0]

Replying(n, s) ==
  [dev EXCEPT !.mode = "reply", !.n = n, !.next = 0, !.st = s]

-----------------------------------------------------------------------------
(* Output reports. *)

Taking(f) == out = <<f>> /\ out' = << >>

AllocateChannel(f) ==
  /\ Taking(f)
  /\ f.cid = Broadcast
  /\ chan' = Append(chan, f.from)
  /\ Deliver(Report(Broadcast, "INIT", f.from, Len(chan) + 1, "none"))
  /\ UNCHANGED <<fds, dev, performed>>

\* ERR_CHANNEL_BUSY on the broadcast channel.
RefuseInit(f) ==
  /\ Taking(f)
  /\ f.cid = Broadcast
  /\ dev.mode # "idle"
  /\ Deliver(Report(Broadcast, "ERROR", f.from, 0, "failure"))
  /\ UNCHANGED <<fds, device>>

BeginRequest(f) ==
  /\ Taking(f)
  /\ f.cid # Broadcast
  /\ f.cmd \in Commands
  /\ dev.mode = "idle"
  /\ dev' = Transaction(IF f.arg = 0 THEN "busy" ELSE "receive", f)
  /\ UNCHANGED <<fds, rx, chan, performed>>

InSequenceOf(f) == dev.mode = "receive" /\ f.cid = dev.cid /\ f.arg = dev.next

ContinueRequest(f) ==
  /\ Taking(f)
  /\ f.cmd = "CONT"
  /\ InSequenceOf(f)
  /\ dev' = IF dev.next + 1 = dev.n
            THEN [dev EXCEPT !.mode = "busy"]
            ELSE [dev EXCEPT !.next = @ + 1]
  /\ UNCHANGED <<fds, rx, chan, performed>>

\* ERR_CHANNEL_BUSY, or ERR_INVALID_SEQ for a new request that arrives where a
\* continuation was expected; the half-received request is dropped.
RefuseRequest(f) ==
  /\ Taking(f)
  /\ f.cid # Broadcast
  /\ f.cmd \in Commands
  /\ dev.mode # "idle"
  /\ Deliver(Report(f.cid, "ERROR", f.from, 0, "failure"))
  /\ dev' = IF dev.mode = "receive" /\ f.cid = dev.cid THEN Idle ELSE dev
  /\ UNCHANGED <<fds, chan, performed>>

\* CTAPHID_CANCEL is about CBOR requests only.
InFlightOn(c) == dev.mode = "busy" /\ dev.cid = c /\ dev.cmd = "CBOR"

\* CTAP2_ERR_KEEPALIVE_CANCEL as the reply of the request in flight.
CancelRequest(f) ==
  /\ Taking(f)
  /\ f.cmd = "CANCEL"
  /\ InFlightOn(f.cid)
  /\ dev' = Replying(0, "failure")
  /\ UNCHANGED <<fds, rx, chan, performed>>

\* A CANCEL with nothing to cancel, a stray continuation.
IgnoreReport(f) ==
  /\ Taking(f)
  /\ \/ f.cmd = "CANCEL" /\ ~InFlightOn(f.cid)
     \/ f.cmd = "CONT" /\ ~InSequenceOf(f)
  /\ UNCHANGED <<fds, rx, device>>

TakeReport ==
  /\ out # << >>
  /\ LET f == out[1]
     IN  \/ AllocateChannel(f) \/ RefuseInit(f) \/ BeginRequest(f)
         \/ ContinueRequest(f) \/ RefuseRequest(f) \/ CancelRequest(f)
         \/ IgnoreReport(f)

-----------------------------------------------------------------------------
(* Input reports. *)

Abort == Report(dev.cid, "ERROR", dev.from, 0, "failure")

Keepalive ==
  /\ dev.mode = "busy"
  /\ dev.ka < MaxKeepalive
  /\ dev' = [dev EXCEPT !.ka = @ + 1]
  /\ Deliver(Report(dev.cid, "KEEPALIVE", dev.from, 0, "none"))
  /\ UNCHANGED <<fds, out, chan, performed>>

\* ERR_MSG_TIMEOUT: the rest of the request never came.
ReceiveTimesOut ==
  /\ dev.mode = "receive"
  /\ dev' = Idle
  /\ Deliver(Abort)
  /\ UNCHANGED <<fds, out, chan, performed>>

\* A command the device does not know, a transport error, a reset.
AbortRequest ==
  /\ dev.mode = "busy"
  /\ dev' = Idle
  /\ Deliver(Abort)
  /\ UNCHANGED <<fds, out, chan, performed>>

Perform(n, s) ==
  /\ dev.mode = "busy"
  /\ (dev.cmd = "CBOR") = (s = "success")
  /\ performed' = performed \cup {dev.from}
  /\ dev' = Replying(n, s)
  /\ UNCHANGED <<wire, chan>>

\* A CTAP status other than OK, or a CBOR reply without its status byte.
Decline(s) ==
  /\ dev.mode = "busy"
  /\ dev.cmd = "CBOR"
  /\ dev' = Replying(0, s)
  /\ UNCHANGED <<wire, chan, performed>>

ReplyPart ==
  IF dev.next = 0
  THEN Report(dev.cid, dev.cmd, dev.from, dev.n, dev.st)
  ELSE Report(dev.cid, "CONT", dev.from, dev.next - 1, "none")

Emit ==
  /\ dev.mode = "reply"
  /\ Deliver(ReplyPart)
  /\ dev' = IF dev.next = dev.n THEN Idle ELSE [dev EXCEPT !.next = @ + 1]
  /\ UNCHANGED <<fds, out, chan, performed>>

Work ==
  \/ Keepalive
  \/ ReceiveTimesOut
  \/ AbortRequest
  \/ \E n \in 0..MaxCont, s \in {"none", "success"} : Perform(n, s)
  \/ \E s \in {"failure", "missing"} : Decline(s)
  \/ Emit

DeviceNext == TakeReport \/ Work
=============================================================================
