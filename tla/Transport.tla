------------------------------ MODULE Transport ------------------------------
(***************************************************************************)
(* The host side of CTAPHID: src/src/hid.rs.  Each handle is a Transport   *)
(* driven by one thread; the threads meet only at the device.              *)
(***************************************************************************)
EXTENDS CtapFrames

CONSTANTS
  MaxOpens,   \* calls of Transport::open by one handle
  MaxTxn,     \* calls of transact, wink or vendor_command by one handle
  MaxReqCont, \* most continuation reports of one request
  Faults      \* TRUE when writes may fail and reads may time out

ASSUME TransportAssumption ==
  /\ MaxOpens \in Nat
  /\ MaxTxn \in Nat
  /\ MaxReqCont \in Nat
  /\ Faults \in BOOLEAN

VARIABLES
  pc,       \* where the thread of a handle is
  cid,      \* Transport.cid
  opens,    \* calls of open so far; <<h, opens[h]>> is the current nonce
  txn,      \* requests so far; <<h, txn[h]>> is the current request
  req,      \* the message being sent: command, continuations, next report
  body,     \* the reports recv_message has taken into the current reply
  outcome,  \* what the last call returned, and the reports it was built from
  clean     \* FALSE once a call of this Transport returned a Hid or Parse error

host == <<pc, cid, opens, txn, req, body, outcome, clean>>

-----------------------------------------------------------------------------
Nonce(h) == <<h, opens[h]>>
Request(h) == <<h, txn[h]>>

NoReq == [cmd |-> "none", n |-> 0, next |-> 0]
Nothing == [res |-> "none", frames |-> << >>]

HostInit ==
  /\ fds = {}
  /\ out = << >>
  /\ rx = [h \in Handles |-> << >>]
  /\ pc = [h \in Handles |-> "closed"]
  /\ cid = [h \in Handles |-> Broadcast]
  /\ opens = [h \in Handles |-> 0]
  /\ txn = [h \in Handles |-> 0]
  /\ req = [h \in Handles |-> NoReq]
  /\ body = [h \in Handles |-> << >>]
  /\ outcome = [h \in Handles |-> Nothing]
  /\ clean = [h \in Handles |-> FALSE]

Goto(h, to) == pc' = [pc EXCEPT ![h] = to]

-----------------------------------------------------------------------------
(* Opening: Transport::open and ctaphid_init. *)

OpenPath(h) ==
  /\ pc[h] = "closed"
  /\ opens[h] < MaxOpens
  /\ opens' = [opens EXCEPT ![h] = @ + 1]
  /\ fds' = fds \cup {h}
  /\ Goto(h, "initSend")
  /\ outcome' = [outcome EXCEPT ![h] = Nothing]
  /\ UNCHANGED <<out, rx, cid, txn, req, body, clean>>

WriteInit(h) ==
  /\ pc[h] = "initSend"
  /\ Put(Report(Broadcast, "INIT", Nonce(h), 0, "none"))
  /\ Goto(h, "initRead")
  /\ UNCHANGED <<fds, rx, cid, opens, txn, req, body, outcome, clean>>

\* The HidDevice is dropped: its file is closed and its queue is gone.
Release(h) ==
  /\ fds' = fds \ {h}
  /\ rx' = [rx EXCEPT ![h] = << >>]
  /\ Goto(h, "closed")

OpenFails(h, error, why) ==
  /\ Release(h)
  /\ outcome' = [outcome EXCEPT ![h] = [res |-> error, frames |-> why]]
  /\ UNCHANGED <<out, cid, opens, txn, req, body, clean>>

Take(h) == rx' = [rx EXCEPT ![h] = Tail(@)]

SkipBeforeInit(h) ==
  /\ pc[h] = "initRead"
  /\ rx[h] # << >>
  /\ Head(rx[h]).cid # Broadcast
  /\ Take(h)
  /\ UNCHANGED <<fds, out, host>>

\* Mutant: the nonce is not compared.
IsInitReply_AnyNonce(h, f) == f.cmd = "INIT"

IsInitReply(h, f) == f.cmd = "INIT" /\ f.from = Nonce(h)

AcceptInit(h) ==
  /\ pc[h] = "initRead"
  /\ rx[h] # << >>
  /\ Head(rx[h]).cid = Broadcast
  /\ IsInitReply(h, Head(rx[h]))
  /\ cid' = [cid EXCEPT ![h] = Head(rx[h]).arg]
  /\ clean' = [clean EXCEPT ![h] = TRUE]
  /\ Take(h)
  /\ Goto(h, "idle")
  /\ UNCHANGED <<fds, out, opens, txn, req, body, outcome>>

\* "unexpected CTAPHID command byte" and "nonce mismatch".  The INIT responses of
\* the device are whole, so that none is "too short".
RejectInit(h) ==
  /\ pc[h] = "initRead"
  /\ rx[h] # << >>
  /\ Head(rx[h]).cid = Broadcast
  /\ ~IsInitReply(h, Head(rx[h]))
  /\ OpenFails(h, "parse", <<Head(rx[h])>>)

OpenTimesOut(h) ==
  /\ Faults
  /\ \/ pc[h] = "initSend"
     \/ pc[h] = "initRead" /\ rx[h] = << >>
  /\ OpenFails(h, "hid", << >>)

\* Dropping the Transport.
Close(h) ==
  /\ pc[h] = "idle"
  /\ Release(h)
  /\ UNCHANGED <<out, cid, opens, txn, req, body, outcome, clean>>

-----------------------------------------------------------------------------
(* Calls: transact, wink and vendor_command are send_message followed by   *)
(* recv_message on the same command; cancel is send_message alone.         *)

Call(h, command, n) ==
  /\ pc[h] = "idle"
  /\ txn[h] < MaxTxn
  /\ txn' = [txn EXCEPT ![h] = @ + 1]
  /\ req' = [req EXCEPT ![h] = [cmd |-> command, n |-> n, next |-> 0]]
  /\ body' = [body EXCEPT ![h] = << >>]
  /\ outcome' = [outcome EXCEPT ![h] = Nothing]
  /\ Goto(h, "writing")
  /\ UNCHANGED <<wire, cid, opens, clean>>

\* A payload over MAX_PAYLOAD or a vendor byte without bit 7: nothing is sent.
RejectCall(h) ==
  /\ pc[h] = "idle"
  /\ outcome' = [outcome EXCEPT ![h] = [res |-> "parse", frames |-> << >>]]
  /\ UNCHANGED <<wire, pc, cid, opens, txn, req, body, clean>>

Part(h) ==
  IF req[h].next = 0
  THEN Report(cid[h], req[h].cmd, Request(h), req[h].n, "none")
  ELSE Report(cid[h], "CONT", Request(h), req[h].next - 1, "none")

WriteFrame(h) ==
  /\ pc[h] = "writing"
  /\ Put(Part(h))
  /\ req' = [req EXCEPT ![h].next = @ + 1]
  /\ Goto(h, IF req[h].next = req[h].n THEN "reading" ELSE "writing")
  /\ UNCHANGED <<fds, rx, cid, opens, txn, body, outcome, clean>>

Cancel(h) ==
  /\ pc[h] = "idle"
  /\ Put(Report(cid[h], "CANCEL", Request(h), 0, "none"))
  /\ UNCHANGED <<fds, rx, host>>

Return(h, result, frames) ==
  /\ outcome' = [outcome EXCEPT ![h] = [res |-> result, frames |-> frames]]
  /\ clean' = [clean EXCEPT ![h] = @ /\ result \in {"ok", "ctap"}]
  /\ Goto(h, "idle")
  /\ UNCHANGED <<fds, out, cid, opens, txn, req>>

-----------------------------------------------------------------------------
(* recv_message, one report at a time. *)

Reading(h) == pc[h] = "reading" /\ rx[h] # << >>

\* Reports of another channel, in both loops.
SkipStray(h) ==
  /\ Reading(h)
  /\ Head(rx[h]).cid # cid[h]
  /\ Take(h)
  /\ UNCHANGED <<fds, out, host>>

\* Mutant: the channel is not compared.
Mine_AnyChannel(h) == Reading(h)

Mine(h) == Reading(h) /\ Head(rx[h]).cid = cid[h]
First(h) == Mine(h) /\ body[h] = << >>
Later(h) == Mine(h) /\ body[h] # << >>

SkipKeepalive(h) ==
  /\ First(h)
  /\ Head(rx[h]).cmd = "KEEPALIVE"
  /\ Take(h)
  /\ UNCHANGED <<fds, out, host>>

\* Mutant: a KEEPALIVE counts as an error.
ErrorFrame_Keepalive(h) ==
  /\ First(h)
  /\ Head(rx[h]).cmd \in {"ERROR", "KEEPALIVE"}
  /\ Take(h)
  /\ body' = [body EXCEPT ![h] = << >>]
  /\ Return(h, "ctap", <<Head(rx[h])>>)

\* CTAPHID_ERROR becomes Error::Ctap.
ErrorFrame(h) ==
  /\ First(h)
  /\ Head(rx[h]).cmd = "ERROR"
  /\ Take(h)
  /\ body' = [body EXCEPT ![h] = << >>]
  /\ Return(h, "ctap", <<Head(rx[h])>>)

UnexpectedCommand(h) ==
  /\ First(h)
  /\ Head(rx[h]).cmd \notin {"KEEPALIVE", "ERROR", req[h].cmd}
  /\ Take(h)
  /\ body' = [body EXCEPT ![h] = << >>]
  /\ Return(h, "parse", << >>)

\* Mutants: a status other than OK is passed through, or not looked at.
ResultOf_PassedOn(command, s) ==
  IF command # "CBOR" \/ s = "success" THEN "ok" ELSE s

ResultOf_Unseen(command, s) == IF s = "missing" THEN "parse" ELSE "ok"

\* transact strips the status byte of a CBOR reply; the other commands have none.
ResultOf(command, s) ==
  CASE command # "CBOR" -> "ok"
    [] command = "CBOR" /\ s = "success" -> "ok"
    [] command = "CBOR" /\ s = "failure" -> "ctap"
    [] OTHER -> "parse"

\* Mutants: a report short, a report too many.
Full_Early(reply) == Len(reply) \geq reply[1].arg
Full_Late(reply) == Len(reply) = reply[1].arg + 2

\* body.len() has reached BCNT.
Full(reply) == Len(reply) = reply[1].arg + 1

\* Add the head report to the reply, and return it once it is complete.
Collect(h) ==
  LET reply == Append(body[h], Head(rx[h]))
  IN  /\ Take(h)
      /\ IF Full(reply)
         THEN /\ body' = [body EXCEPT ![h] = << >>]
              /\ Return(h, ResultOf(req[h].cmd, reply[1].st), reply)
         ELSE /\ body' = [body EXCEPT ![h] = reply]
              /\ UNCHANGED <<fds, out, pc, cid, opens, txn, req, outcome, clean>>

FirstFrame(h) ==
  /\ First(h)
  /\ Head(rx[h]).cmd = req[h].cmd
  /\ Collect(h)

\* Mutant: continuations are counted from one.
NextSeq_FromOne(h) == Len(body[h])

NextSeq(h) == Len(body[h]) - 1

\* Mutant: bit 7 is not tested.
InSequence_AnyKind(h, f) == f.arg = NextSeq(h)

InSequence(h, f) == f.cmd = "CONT" /\ f.arg = NextSeq(h)

ContinuationFrame(h) ==
  /\ Later(h)
  /\ InSequence(h, Head(rx[h]))
  /\ Collect(h)

\* "expected CTAPHID continuation frame, got init" and "sequence skew".
BadContinuation(h) ==
  /\ Later(h)
  /\ ~InSequence(h, Head(rx[h]))
  /\ Take(h)
  /\ body' = [body EXCEPT ![h] = << >>]
  /\ Return(h, "parse", << >>)

\* Mutant: a call that times out sends its request again.
CallFails_Resends(h) ==
  /\ Faults
  /\ pc[h] = "reading" /\ rx[h] = << >>
  /\ req' = [req EXCEPT ![h].next = 0]
  /\ body' = [body EXCEPT ![h] = << >>]
  /\ Goto(h, "writing")
  /\ UNCHANGED <<wire, cid, opens, txn, outcome, clean>>

\* A write that fails part of the way, or READ_TIMEOUT without any report.
CallFails(h) ==
  /\ Faults
  /\ \/ pc[h] = "writing"
     \/ pc[h] = "reading" /\ rx[h] = << >>
  /\ body' = [body EXCEPT ![h] = << >>]
  /\ Return(h, "hid", << >>)
  /\ UNCHANGED rx

-----------------------------------------------------------------------------
\* What the thread of h does on its own once it is inside a call.
Proceed(h) ==
  \/ WriteInit(h) \/ SkipBeforeInit(h) \/ AcceptInit(h) \/ RejectInit(h)
  \/ OpenTimesOut(h)
  \/ WriteFrame(h) \/ SkipStray(h) \/ SkipKeepalive(h) \/ ErrorFrame(h)
  \/ UnexpectedCommand(h) \/ FirstFrame(h) \/ ContinuationFrame(h)
  \/ BadContinuation(h) \/ CallFails(h)

\* What the caller decides.
Invoke(h) ==
  \/ OpenPath(h) \/ Close(h) \/ RejectCall(h) \/ Cancel(h)
  \/ \E command \in Commands, n \in 0..MaxReqCont : Call(h, command, n)
=============================================================================
