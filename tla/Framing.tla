------------------------------- MODULE Framing -------------------------------
(***************************************************************************)
(* The arithmetic of send_message and recv_message (src/src/hid.rs): a     *)
(* message cut into reports of 57 and 59 bytes, numbered with a byte, and  *)
(* put together again.  Bytes are offsets: a report says where in the      *)
(* message its chunk starts and how much of it there is.                   *)
(*                                                                         *)
(* One message at a time goes from a sender to a receiver over a link that *)
(* keeps order.  The host's fragmenter and reassembler are both of hid.rs; *)
(* the device's, on the other end, follow the same rules but for the       *)
(* limit on the length, which a device may ignore.                         *)
(***************************************************************************)
EXTENDS Integers

CONSTANTS
  Payloads,   \* lengths of the payloads given to send_message
  Replies     \* lengths of the replies of the device: any BCNT

INIT_FRAME_DATA == 57
CONT_FRAME_DATA == 59
MAX_PAYLOAD == INIT_FRAME_DATA + 128 * CONT_FRAME_DATA

U8 == 256
U16 == 65536

ASSUME FramingAssumption ==
  /\ Payloads \subseteq Nat
  /\ Replies \subseteq 0..(U16 - 1)

VARIABLES
  phase,    \* "start", "send", "sent"
  len,      \* payload.len()
  rest,     \* rest.len(), bytes not written yet
  seq,      \* the u8 of the sender
  link,     \* the reports between the two, 0 or 1
  bcnt,     \* BCNT as the receiver read it, or Unread
  body,     \* body.len()
  expected, \* the u8 of the receiver
  result    \* "none", "ok" or "parse"

vars == <<phase, len, rest, seq, link, bcnt, body, expected, result>>

-----------------------------------------------------------------------------
Unread == -1

Least(a, b) == IF a \leq b THEN a ELSE b

\* `seq` is the byte after the channel; `at` and `take` describe the chunk.
InitReport(total, take) == [kind |-> "init", bcnt |-> total % U16, seq |-> 0, at |-> 0, take |-> take]
ContReport(s, at, take) == [kind |-> "cont", bcnt |-> 0, seq |-> s, at |-> at, take |-> take]

NoReport == [kind |-> "none", bcnt |-> 0, seq |-> 0, at |-> 0, take |-> 0]

Init ==
  /\ phase = "start"
  /\ len = 0
  /\ rest = 0
  /\ seq = 0
  /\ link = NoReport
  /\ bcnt = Unread
  /\ body = 0
  /\ expected = 0
  /\ result = "none"

-----------------------------------------------------------------------------
(* send_message, and the device's side of a reply. *)

\* Mutant: only BCNT limits the length.
TooLong_Bcnt(n) == n > U16

TooLong(n) == n > MAX_PAYLOAD

RefuseSend(n) ==
  /\ phase = "start"
  /\ TooLong(n)
  /\ phase' = "sent"
  /\ len' = n
  /\ result' = "parse"
  /\ UNCHANGED <<rest, seq, link, bcnt, body, expected>>

\* Mutant: the first chunk is not limited.
FirstReport_Whole(n) ==
  /\ phase = "start"
  /\ phase' = "send"
  /\ len' = n
  /\ link' = InitReport(n, n)
  /\ rest' = 0
  /\ seq' = 0
  /\ UNCHANGED <<bcnt, body, expected, result>>

FirstReport(n) ==
  LET take == Least(n, INIT_FRAME_DATA)
  IN  /\ phase = "start"
      /\ phase' = "send"
      /\ len' = n
      /\ link' = InitReport(n, take)
      /\ rest' = n - take
      /\ seq' = 0
      /\ UNCHANGED <<bcnt, body, expected, result>>

StartRequest(n) == ~TooLong(n) /\ FirstReport(n)

StartReply(n) == FirstReport(n)

\* seq & 0x7F.
Masked(s) == s % 128

\* Two ways a device may number more continuations than CTAPHID allows.
Numbered(s) == {Masked(s), s}

\* Mutant: every chunk has the size of the first.
SendContinuation_InitSize ==
  LET take == Least(rest, INIT_FRAME_DATA)
  IN  /\ phase = "send"
      /\ link = NoReport
      /\ rest > 0
      /\ \E s \in Numbered(seq) : link' = ContReport(s, len - rest, take)
      /\ rest' = rest - take
      /\ seq' = (seq + 1) % U8
      /\ UNCHANGED <<phase, len, bcnt, body, expected, result>>

SendContinuation ==
  LET take == Least(rest, CONT_FRAME_DATA)
  IN  /\ phase = "send"
      /\ link = NoReport
      /\ rest > 0
      /\ \E s \in Numbered(seq) : link' = ContReport(s, len - rest, take)
      /\ rest' = rest - take
      /\ seq' = (seq + 1) % U8
      /\ UNCHANGED <<phase, len, bcnt, body, expected, result>>

SendDone ==
  /\ phase = "send"
  /\ rest = 0
  /\ phase' = "sent"
  /\ UNCHANGED <<len, rest, seq, link, bcnt, body, expected, result>>

-----------------------------------------------------------------------------
(* recv_message. *)

\* Mutant: one more byte is awaited.
Result_Overruns(have, want) == IF have <= want THEN "none" ELSE "ok"

Result(have, want) == IF have < want THEN "none" ELSE "ok"

\* Mutant: the first chunk is taken for a continuation's.
ReceiveInit_ContSize ==
  /\ result = "none"
  /\ link.kind = "init"
  /\ bcnt' = link.bcnt
  /\ body' = Least(link.bcnt, CONT_FRAME_DATA)
  /\ expected' = 0
  /\ result' = Result(body', bcnt')
  /\ link' = NoReport
  /\ UNCHANGED <<phase, len, rest, seq>>

ReceiveInit ==
  /\ result = "none"
  /\ link.kind = "init"
  /\ bcnt' = link.bcnt
  /\ body' = Least(link.bcnt, INIT_FRAME_DATA)
  /\ expected' = 0
  /\ result' = Result(body', bcnt')
  /\ link' = NoReport
  /\ UNCHANGED <<phase, len, rest, seq>>

Accepts(f) == f.seq < 128 /\ f.seq = expected

ReceiveContinuation ==
  LET take == Least(bcnt - body, CONT_FRAME_DATA)
  IN  /\ result = "none"
      /\ link.kind = "cont"
      /\ Accepts(link)
      /\ body' = body + take
      /\ expected' = (expected + 1) % U8
      /\ result' = Result(body', bcnt)
      /\ link' = NoReport
      /\ UNCHANGED <<phase, len, rest, seq, bcnt>>

\* Bit 7 set, or sequence skew.
RejectContinuation ==
  /\ result = "none"
  /\ link.kind = "cont"
  /\ ~Accepts(link)
  /\ result' = "parse"
  /\ link' = NoReport
  /\ UNCHANGED <<phase, len, rest, seq, bcnt, body, expected>>

\* The caller has its result: what is left of the message is nobody's.
Leftover ==
  /\ result # "none"
  /\ link # NoReport
  /\ link' = NoReport
  /\ UNCHANGED <<phase, len, rest, seq, bcnt, body, expected, result>>

Next ==
  \/ \E n \in Payloads : RefuseSend(n) \/ StartRequest(n)
  \/ \E n \in Replies : StartReply(n)
  \/ SendContinuation \/ SendDone
  \/ ReceiveInit \/ ReceiveContinuation \/ RejectContinuation \/ Leftover

Spec == Init /\ [][Next]_vars

\* Both ends run until they are done, and the link loses nothing.
FairSpec == Spec /\ WF_vars(Next)

-----------------------------------------------------------------------------
Report ==
  [kind : {"none", "init", "cont"}, bcnt : 0..(U16 - 1), seq : 0..(U8 - 1),
   at : Nat, take : 0..CONT_FRAME_DATA]

TypeOK ==
  /\ phase \in {"start", "send", "sent"}
  /\ len \in Nat /\ rest \in Nat
  /\ seq \in 0..(U8 - 1) /\ expected \in 0..(U8 - 1)
  /\ link \in Report
  /\ bcnt \in {Unread} \cup 0..(U16 - 1)
  /\ body \in Nat
  /\ result \in {"none", "ok", "parse"}

\* A chunk recv_message takes continues exactly where the body ends and is all
\* of the report's payload: no byte is skipped, repeated or read from padding.
ChunksMeet ==
  link.kind = "cont" /\ result = "none" /\ Accepts(link) =>
    /\ link.at = body
    /\ link.take = Least(bcnt - body, CONT_FRAME_DATA)

\* A message within the limit arrives whole, and a longer one never passes for
\* a shorter one because a counter wrapped: it is refused.
RoundTrip ==
  /\ result = "ok" => body = len /\ bcnt = len
  /\ result = "parse" => len > MAX_PAYLOAD

\* The u8 of either end never leaves the 7 bits the wire has for it, for a
\* message within the limit: at most 128 continuations are sent.
SequenceFits == len \leq MAX_PAYLOAD => seq \leq 128 /\ expected \leq 128

\* Every message, the ones that break the limit too, ends with a result.
MessageEnds == phase = "send" ~> result # "none"
=============================================================================
