----------------------------- MODULE CtapHidInv -----------------------------
(***************************************************************************)
(* Why the invariants of CtapHid hold: the inductive invariant its proofs  *)
(* use, in the parts they use it.                                          *)
(***************************************************************************)
EXTENDS CtapHid

NoneOn(c, s) == \A i \in DOMAIN s : s[i].cid # c

-----------------------------------------------------------------------------
(* Channels. *)

\* x, a report or the device's transaction, is of a request that the owner of
\* its channel has made: `granted` is chan, `made` is txn.
Sent(x, granted, made) ==
  /\ x.cid \in DOMAIN granted
  /\ granted[x.cid][1] = x.from[1]
  /\ x.from[2] \leq made[x.from[1]]

Written(f, granted, made, tried) ==
  IF f.cid = Broadcast
  THEN f.cmd = "INIT" /\ f.from[2] \leq tried[f.from[1]]
  ELSE Sent(f, granted, made)

Received(f, granted, made) ==
  IF f.cid = Broadcast
  THEN f.cmd = "INIT" => f.arg \in DOMAIN granted /\ granted[f.arg] = f.from
  ELSE Sent(f, granted, made)

ChannelInv ==
  /\ \A c \in DOMAIN chan : chan[c][2] \leq opens[chan[c][1]]
  /\ \A h \in Handles : Open(h) => cid[h] \in DOMAIN chan /\ chan[cid[h]] = Nonce(h)
  /\ \A i \in DOMAIN out : Written(out[i], chan, txn, opens)
  /\ \A h \in Handles : \A i \in DOMAIN rx[h] : Received(rx[h][i], chan, txn)
  /\ dev.mode # "idle" => Sent(dev, chan, txn)
  /\ dev.mode = "idle" => dev = Idle

\* What recv_message has collected is of this channel, and it collects only
\* while it runs.
BodyInv ==
  \A h \in Handles :
    /\ pc[h] # "reading" => body[h] = << >>
    /\ \A i \in DOMAIN body[h] : Sent(body[h][i], chan, txn) /\ body[h][i].cid = cid[h]

\* A channel granted to an open that still waits for the grant carries nothing.
UnusedInv ==
  \A h \in Handles, c \in DOMAIN chan :
    pc[h] \in {"initSend", "initRead"} /\ chan[c] = Nonce(h) =>
      NoneOn(c, out) /\ NoneOn(c, rx[h]) /\ dev.cid # c

-----------------------------------------------------------------------------
(* Replies. *)

\* A continuation, and a first report that would be returned as Ok, are of a
\* request carried out.
Earned(f, done) ==
  f.cmd = "CONT" \/ (f.cmd \in Commands /\ ResultOf(f.cmd, f.st) = "ok") => f.from \in done

\* So is a reply of the device that has continuations.
EarnedReply ==
  /\ Earned(dev, performed)
  /\ dev.next \leq dev.n
  /\ dev.n # 0 => dev.from \in performed

EarnedInv ==
  /\ \A h \in Handles : \A i \in DOMAIN rx[h] : Earned(rx[h][i], performed)
  /\ \A h \in Handles : \A i \in DOMAIN body[h] : Earned(body[h][i], performed)
  /\ dev.mode = "reply" => EarnedReply

IsPart(f) == f.cmd \in Commands \cup {"CONT"}

\* The place of a part in its message, from 1.
Rank(f) == IF f.cmd = "CONT" THEN f.arg + 2 ELSE 1

\* A Transport without a call: nothing of its channel is on the way, but for a
\* CANCEL or a continuation of a refused request that the device will ignore.
Quiet(h) ==
  /\ \A i \in DOMAIN out : out[i].cid = cid[h] => out[i].cmd \notin Commands
  /\ NoneOn(cid[h], rx[h])
  /\ dev.cid # cid[h]
  /\ body[h] = << >>

\* The request is on its way to the device, or the device has it, or its reply
\* is on the way back: never two of them.
AskedInv(h) ==
  \A i \in DOMAIN out : out[i].cid = cid[h] /\ out[i].cmd \in Commands =>
    /\ out[i].from = Request(h)
    /\ NoneOn(cid[h], rx[h])
    /\ dev.cid # cid[h]
    /\ body[h] = << >>

Mode(h, m) == dev.cid = cid[h] /\ dev.mode \in m

WorkedOnInv(h) ==
  /\ dev.cid = cid[h] => dev.from = Request(h)
  /\ Mode(h, {"receive", "busy"}) =>
       /\ body[h] = << >>
       /\ \A i \in DOMAIN rx[h] : rx[h][i].cid = cid[h] => rx[h][i].cmd = "KEEPALIVE"
  /\ Mode(h, {"reply"}) =>
       /\ dev.next \leq dev.n
       /\ Len(body[h]) \leq dev.next
       /\ body[h] # << >> => body[h][1].arg = dev.n
       /\ \A i \in DOMAIN rx[h] : rx[h][i].cid = cid[h] =>
            /\ rx[h][i].cmd # "ERROR"
            /\ IsPart(rx[h][i]) => Rank(rx[h][i]) \leq dev.next
            /\ rx[h][i].cmd \in Commands => rx[h][i].arg = dev.n

QueueInv(h) ==
  \A i \in DOMAIN rx[h] : rx[h][i].cid = cid[h] =>
    /\ rx[h][i].from = Request(h)
    /\ rx[h][i].cmd \in Commands \cup {"CONT", "KEEPALIVE", "ERROR"}
    /\ \A j \in DOMAIN rx[h] : i < j /\ rx[h][j].cid = cid[h] =>
         \/ rx[h][i].cmd = "KEEPALIVE"
         \/ /\ IsPart(rx[h][i]) /\ IsPart(rx[h][j])
            /\ Rank(rx[h][i]) < Rank(rx[h][j])
            /\ rx[h][i].cmd \in Commands => Rank(rx[h][j]) \leq rx[h][i].arg + 1

CollectedInv(h) ==
  body[h] # << >> =>
    /\ body[h][1].cmd = req[h].cmd
    /\ Len(body[h]) \leq body[h][1].arg
    /\ \A i \in DOMAIN body[h] : body[h][i].from = Request(h)
    /\ \A i \in 2..Len(body[h]) : body[h][i].cmd = "CONT" /\ body[h][i].arg = i - 2
    /\ \A i \in DOMAIN rx[h] : rx[h][i].cid = cid[h] =>
         /\ IsPart(rx[h][i])
         /\ Len(body[h]) < Rank(rx[h][i])
         /\ Rank(rx[h][i]) \leq body[h][1].arg + 1

Waiting(h) == AskedInv(h) /\ WorkedOnInv(h) /\ QueueInv(h) /\ CollectedInv(h)

Called(h) == pc[h] \in {"writing", "reading"}

\* The Transport and the device are at the same place of the same call.
InStep(h) ==
  /\ pc[h] = "idle" => Quiet(h)
  /\ Called(h) /\ req[h].next = 0 => Quiet(h)
  /\ Called(h) /\ req[h].next # 0 => Waiting(h)

ReplyInv == \A h \in Handles : clean[h] => InStep(h)

OutcomeInv ==
  \A h \in Handles :
    /\ pc[h] \in {"initSend", "initRead", "writing", "reading"} => outcome[h] = Nothing
    /\ pc[h] = "reading" => req[h].next # 0

CleanInv ==
  /\ BodyInv /\ UnusedInv /\ EarnedInv /\ ReplyInv /\ OutcomeInv
  /\ TrustedAnswerIsOwn

-----------------------------------------------------------------------------
(* Carrying out. *)

\* No report has been sent for the current request of h.
Pending(h) == Called(h) /\ req[h].next = 0

\* The device neither has the request nor has carried it out.
Fresh(o) == o \notin performed /\ (dev.mode # "idle" => dev.from # o)

FirstReportOf(o, f) == f.cmd \in Commands /\ f.from = o

OnceInv ==
  /\ \A o \in performed : o[2] \leq txn[o[1]]
  /\ PerformedAtMostOnce
  /\ \A i \in DOMAIN out : out[i].cmd \in Commands => Fresh(out[i].from)
  /\ \A h \in Handles : Pending(h) =>
       /\ Fresh(Request(h))
       /\ \A i \in DOMAIN out : ~FirstReportOf(Request(h), out[i])
-----------------------------------------------------------------------------
(* The contract. *)

\* The requests the device can have are counted from one.
NumberedInv ==
  /\ \A h \in Handles : Called(h) => txn[h] > 0
  /\ \A i \in DOMAIN out : out[i].cmd \in Commands => out[i].from[2] > 0
  /\ dev.mode # "idle" => dev.from[2] > 0

\* What is collected is a first report of the command and its continuations,
\* whichever requests they are of.
PartsInv ==
  \A h \in Handles : body[h] # << >> =>
    /\ body[h][1].cmd = req[h].cmd
    /\ \A i \in 2..Len(body[h]) : body[h][i].cmd = "CONT"
-----------------------------------------------------------------------------
(* Queues that lose nothing. *)

\* Every open file has room for the next report.
Room == \A h \in fds : Len(rx[h]) < RxCap

\* A handle that is not closed reads from its file.
Listening(h) == pc[h] # "closed" => h \in fds

\* A part of a reply; a report that goes on with one, or does not.
PartAt(h, i) == rx[h][i].cid = cid[h] /\ IsPart(rx[h][i])
Continues(h, i) == rx[h][i].cid = cid[h] /\ rx[h][i].cmd = "CONT"
Begins(h, i) == rx[h][i].cid = cid[h] /\ rx[h][i].cmd # "CONT"

\* Between a part of one reply and a continuation of another something else
\* begins: in the queue,
QueueStream(h) ==
  \A i, j \in DOMAIN rx[h] :
    i < j /\ PartAt(h, i) /\ Continues(h, j) /\ rx[h][j].from # rx[h][i].from =>
      \E k \in DOMAIN rx[h] : i < k /\ k < j /\ Begins(h, k)

\* after what was collected,
BodyStream(h) ==
  body[h] # << >> =>
    /\ \A i \in DOMAIN body[h] : body[h][i].from = body[h][1].from
    /\ \A j \in DOMAIN rx[h] : Continues(h, j) /\ rx[h][j].from # body[h][1].from =>
         \E k \in DOMAIN rx[h] : k < j /\ Begins(h, k)

\* and before what the device sends next.
DeviceStream(h) ==
  Mode(h, {"reply"}) /\ dev.next # 0 =>
    /\ \A i \in DOMAIN rx[h] : PartAt(h, i) /\ rx[h][i].from # dev.from =>
         \E k \in DOMAIN rx[h] : i < k /\ Begins(h, k)
    /\ body[h] # << >> /\ body[h][1].from # dev.from =>
         \E k \in DOMAIN rx[h] : Begins(h, k)

StreamInv(h) == QueueStream(h) /\ BodyStream(h) /\ DeviceStream(h)

LosslessInv ==
  /\ \A h \in Handles : Listening(h) /\ (Open(h) => StreamInv(h))
  /\ OneRequestPerAnswer

-----------------------------------------------------------------------------
(* No timeouts either. *)

\* What is under way on the channel is of the command of the call.
SameCommand(h) ==
  /\ \A i \in DOMAIN out : out[i].cid = cid[h] /\ out[i].cmd \in Commands => out[i].cmd = req[h].cmd
  /\ dev.cid = cid[h] => dev.cmd = req[h].cmd
  /\ \A i \in DOMAIN rx[h] : rx[h][i].cid = cid[h] /\ rx[h][i].cmd \in Commands =>
       rx[h][i].cmd = req[h].cmd

Ranked(h, i, r) == PartAt(h, i) /\ Rank(rx[h][i]) = r

\* Of a reply no part is missing between what was collected and what the
\* device sends next.
NoGap(h) ==
  /\ \A i \in DOMAIN rx[h] : PartAt(h, i) /\ Rank(rx[h][i]) > Len(body[h]) + 1 =>
       \E j \in DOMAIN rx[h] : j < i /\ Ranked(h, j, Rank(rx[h][i]) - 1)
  /\ Mode(h, {"reply"}) /\ dev.next > Len(body[h]) =>
       \E i \in DOMAIN rx[h] : Ranked(h, i, dev.next)

Orderly(h) == Called(h) /\ req[h].next # 0 => SameCommand(h) /\ NoGap(h)

\* What ReplyInv says of a trusted Transport is then true of every one.
FaultlessInv ==
  /\ \A h \in Handles : Listening(h) /\ InStep(h) /\ Orderly(h)
  /\ AnswerIsOwn
=============================================================================
