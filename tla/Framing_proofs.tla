--------------------------- MODULE Framing_proofs ---------------------------
(***************************************************************************)
(* Theorems of Framing, for every payload length a caller may pass and     *)
(* every BCNT a device may announce.                                       *)
(***************************************************************************)
EXTENDS Framing, TLAPS

\* The receiver is as far as the sender, less the report between them.
Lockstep ==
  /\ len < U16
  /\ link.kind = "init" =>
       /\ bcnt = Unread
       /\ link.bcnt = len
       /\ rest = len - Least(len, INIT_FRAME_DATA)
       /\ seq = 0 /\ expected = 0
  /\ link.kind # "init" =>
       /\ bcnt = len
       /\ body = INIT_FRAME_DATA + CONT_FRAME_DATA * expected
       /\ body < len
       /\ expected \leq 128
  /\ link.kind = "none" => rest = len - body /\ seq = expected
  /\ link.kind = "cont" =>
       /\ link.at = body
       /\ link.take = Least(len - body, CONT_FRAME_DATA)
       /\ rest = len - body - link.take
       /\ seq = expected + 1
       /\ link.seq \in Numbered(expected)

Inv ==
  /\ TypeOK
  /\ rest \leq len
  /\ phase = "start" =>
       /\ len = 0 /\ rest = 0 /\ link = NoReport /\ bcnt = Unread
       /\ seq = 0 /\ expected = 0 /\ result = "none"
  /\ phase # "start" /\ result = "none" => Lockstep
  /\ result = "ok" =>
       /\ body = len /\ bcnt = len /\ rest = 0 /\ link = NoReport
       /\ seq = expected /\ expected \leq 128
  /\ result = "parse" => len > MAX_PAYLOAD

LEMMA Sizes ==
  /\ INIT_FRAME_DATA = 57 /\ CONT_FRAME_DATA = 59 /\ MAX_PAYLOAD = 7609
  /\ U8 = 256 /\ U16 = 65536
BY DEF INIT_FRAME_DATA, CONT_FRAME_DATA, MAX_PAYLOAD, U8, U16

LEMMA LeastIsMinimum ==
  ASSUME NEW a \in Nat, NEW b \in Nat
  PROVE  /\ Least(a, b) \in Nat /\ Least(a, b) \leq a /\ Least(a, b) \leq b
         /\ a \leq b => Least(a, b) = a
         /\ a > b => Least(a, b) = b
BY DEF Least

LEMMA BelowIsInRange ==
  ASSUME NEW a \in Nat, NEW b \in Nat, a < b
  PROVE  a \in 0..(b - 1)
OBVIOUS

LEMMA InRangeIsBelow ==
  ASSUME NEW b \in Nat, NEW a \in 0..(b - 1)
  PROVE  a \in Nat /\ a < b
OBVIOUS

LEMMA U16Natural == U16 \in Nat
BY DEF U16

LEMMA NoReportIsReport == NoReport \in Report /\ NoReport.kind = "none"
<1>1. U8 \in Nat /\ 0 < U8 /\ U16 \in Nat /\ 0 < U16 /\ CONT_FRAME_DATA \in Nat
  BY Sizes
<1>2. 0 \in 0..(U8 - 1) /\ 0 \in 0..(U16 - 1) /\ 0 \in 0..CONT_FRAME_DATA
  BY <1>1, BelowIsInRange
<1>3. QED
  BY <1>2 DEF NoReport, Report

LEMMA InitReportIsReport ==
  ASSUME NEW n \in 0..(U16 - 1), NEW t \in 0..CONT_FRAME_DATA
  PROVE  [kind |-> "init", bcnt |-> n, seq |-> 0, at |-> 0, take |-> t] \in Report
<1>1. U8 \in Nat /\ 0 < U8
  BY DEF U8
<1>2. 0 \in 0..(U8 - 1)
  BY <1>1, BelowIsInRange
<1>3. QED
  BY <1>2 DEF Report

LEMMA ContReportIsReport ==
  ASSUME NEW s \in 0..(U8 - 1), NEW a \in Nat, NEW t \in 0..CONT_FRAME_DATA
  PROVE  ContReport(s, a, t) \in Report
<1>1. U16 \in Nat /\ 0 < U16
  BY DEF U16
<1>2. 0 \in 0..(U16 - 1)
  BY <1>1, BelowIsInRange
<1>3. QED
  BY <1>2 DEF Report, ContReport

LEMMA Initially == Init => Inv
<1>. SUFFICES ASSUME Init PROVE Inv
  OBVIOUS
<1>1. TypeOK
  BY NoReportIsReport, Sizes DEF Init, TypeOK
<1>2. QED
  BY <1>1 DEF Init, Inv

LEMMA FirstReportStep ==
  ASSUME Inv, NEW n \in Nat, n < U16, FirstReport(n)
  PROVE  Inv'
<1>. DEFINE take == Least(n, INIT_FRAME_DATA)
<1>1. take \in 0..CONT_FRAME_DATA /\ take \leq n /\ n - take \in Nat
  BY Sizes DEF Least
<1>2. link' = [kind |-> "init", bcnt |-> n, seq |-> 0, at |-> 0, take |-> take]
  <2>1. n % U16 = n
    BY Sizes
  <2>2. QED
    BY <2>1 DEF FirstReport, InitReport
<1>3. link' \in Report
  <2>1. n \in 0..(U16 - 1)
    BY U16Natural, BelowIsInRange
  <2>2. QED
    BY <1>1, <1>2, <2>1, InitReportIsReport
<1>4. TypeOK'
  <2>1. /\ phase' = "send" /\ len' = n /\ rest' = n - take /\ seq' = 0
        /\ UNCHANGED <<bcnt, body, expected, result>>
    BY DEF FirstReport
  <2>2. TypeOK
    BY DEF Inv
  <2>3. seq' \in 0..(U8 - 1)
    BY <2>1, Sizes
  <2>4. QED
    BY <1>1, <1>3, <2>1, <2>2, <2>3 DEF TypeOK
<1>5. Lockstep'
  BY <1>1, <1>2 DEF FirstReport, Lockstep, Inv
<1>6. rest' \leq len'
  <2>1. rest' = n - take /\ len' = n
    BY DEF FirstReport
  <2>2. QED
    BY <1>1, <2>1, Sizes DEF Least
<1>7. QED
  BY <1>4, <1>5, <1>6 DEF FirstReport, Inv

LEMMA SendContinuationStep ==
  ASSUME Inv, SendContinuation
  PROVE  Inv'
<1>. TypeOK
  BY DEF Inv
<1>1. /\ phase = "send" /\ link = NoReport /\ rest > 0 /\ rest \in Nat
      /\ len \in Nat /\ body \in Nat /\ seq \in 0..(U8 - 1) /\ expected \in 0..(U8 - 1)
  BY DEF SendContinuation, TypeOK
<1>. DEFINE take == Least(rest, CONT_FRAME_DATA)
<1>2. take \in 0..CONT_FRAME_DATA /\ take \leq rest /\ rest - take \in Nat
  BY <1>1, Sizes DEF Least
<1>3. PICK s \in Numbered(seq) : link' = ContReport(s, len - rest, take)
  BY DEF SendContinuation
<1>4. s \in 0..(U8 - 1)
  <2>1. s = seq % 128 \/ s = seq
    BY DEF Numbered, Masked
  <2>2. QED
    BY <1>1, <2>1, Sizes
<1>5. /\ seq' = (seq + 1) % U8 /\ rest' = rest - take
      /\ UNCHANGED <<phase, len, bcnt, body, expected, result>>
  BY DEF SendContinuation
<1>6. TypeOK'
  <2>1. seq' \in 0..(U8 - 1) /\ rest' \in Nat
    BY <1>1, <1>2, <1>5, Sizes
  <2>2. CASE len - rest \in Nat
    <3>1. link' \in Report
      BY <1>2, <1>3, <1>4, <2>2, ContReportIsReport
    <3>2. QED
      BY <1>5, <2>1, <3>1 DEF TypeOK
  <2>3. QED
    BY <1>1, <2>2 DEF Inv
<1>7. rest' \leq len'
  <2>1. rest \leq len
    BY DEF Inv
  <2>2. QED
    BY <1>1, <1>2, <1>5, <2>1
<1>8. CASE result = "none"
  <2>1. Lockstep /\ link.kind = "none"
    BY <1>1, <1>8, NoReportIsReport DEF Inv
  <2>2. /\ rest = len - body /\ seq = expected /\ expected \leq 128 /\ bcnt = len
        /\ body = INIT_FRAME_DATA + CONT_FRAME_DATA * expected
        /\ body < len /\ len < U16
    BY <2>1 DEF Lockstep
  <2>3. len - rest = body
    BY <1>1, <2>2
  <2>4. link' = [kind |-> "cont", bcnt |-> 0, seq |-> s, at |-> body, take |-> take]
    BY <1>3, <2>3 DEF ContReport
  <2>5. seq' = expected + 1
    BY <1>1, <1>5, <2>2, Sizes
  <2>6. link'.take = Least(len' - body', CONT_FRAME_DATA) /\ rest' = len' - body' - link'.take
    BY <1>1, <1>5, <2>2, <2>4
  <2>7. link'.seq \in Numbered(expected')
    BY <1>3, <1>5, <2>2, <2>4
  <2>8. Lockstep'
    BY <1>5, <2>2, <2>4, <2>5, <2>6, <2>7 DEF Lockstep
  <2>9. QED
    BY <1>1, <1>5, <1>6, <1>8, <1>7, <2>8 DEF Inv
<1>9. CASE result # "none"
  BY <1>1, <1>5, <1>6, <1>7, <1>9 DEF Inv
<1>10. QED
  BY <1>8, <1>9

LEMMA ReceiveInitStep ==
  ASSUME Inv, ReceiveInit
  PROVE  Inv'
<1>. TypeOK
  BY DEF Inv
<1>1. Lockstep /\ phase # "start" /\ link.kind = "init" /\ result = "none" /\ len \in Nat
  BY DEF ReceiveInit, Inv, NoReport, TypeOK
<1>2. /\ link.bcnt = len /\ rest = len - Least(len, INIT_FRAME_DATA) /\ seq = 0
      /\ len < U16 /\ rest \leq len
  BY <1>1 DEF Lockstep, Inv
<1>3. /\ bcnt' = len /\ body' = Least(len, INIT_FRAME_DATA) /\ expected' = 0
      /\ link' = NoReport /\ UNCHANGED <<phase, len, rest, seq>>
      /\ result' = IF body' < len THEN "none" ELSE "ok"
  BY <1>2 DEF ReceiveInit, Result
<1>4. body' \in Nat /\ body' \leq len
  BY <1>1, <1>3, Sizes, LeastIsMinimum
<1>5. TypeOK'
  <2>1. bcnt' \in {Unread} \cup 0..(U16 - 1) /\ expected' \in 0..(U8 - 1)
    <3>1. len \in 0..(U16 - 1)
      <4>1. len \in Nat /\ len < U16
        BY <1>1, <1>2
      <4>2. U16 \in Int
        BY Sizes
      <4>3. QED
        BY <4>1, <4>2
    <3>2. 0 \in 0..(U8 - 1)
      BY Sizes
    <3>3. QED
      BY <1>3, <3>1, <3>2
  <2>2. QED
    BY <1>3, <1>4, <2>1, NoReportIsReport DEF TypeOK
<1>6. CASE len > INIT_FRAME_DATA
  <2>1. body' = INIT_FRAME_DATA
    BY <1>1, <1>3, <1>6, Sizes, LeastIsMinimum
  <2>2. body' < len /\ rest = len - body' /\ body' = INIT_FRAME_DATA + CONT_FRAME_DATA * 0
    BY <1>2, <1>3, <1>6, <2>1, Sizes
  <2>3. Lockstep'
    BY <1>2, <1>3, <2>2, NoReportIsReport DEF Lockstep
  <2>4. QED
    BY <1>1, <1>3, <1>5, <2>2, <2>3 DEF Inv
<1>7. CASE len \leq INIT_FRAME_DATA
  <2>1. body' = len /\ rest = 0
    BY <1>1, <1>2, <1>3, <1>7, Sizes, LeastIsMinimum
  <2>2. result' = "ok"
    BY <1>1, <1>3, <2>1
  <2>3. QED
    BY <1>1, <1>2, <1>3, <1>5, <2>1, <2>2 DEF Inv
<1>8. QED
  BY <1>1, <1>6, <1>7, Sizes

LEMMA ReceiveContinuationStep ==
  ASSUME Inv, ReceiveContinuation
  PROVE  Inv'
<1>. TypeOK
  BY DEF Inv
<1>1. Lockstep /\ phase # "start" /\ link.kind = "cont" /\ result = "none"
  BY DEF ReceiveContinuation, Inv, NoReport
<1>2. len \in Nat /\ body \in Nat /\ rest \in Nat /\ expected \in Nat
  BY DEF TypeOK
<1>. DEFINE take == Least(len - body, CONT_FRAME_DATA)
<1>3. /\ bcnt = len /\ body < len /\ body = INIT_FRAME_DATA + CONT_FRAME_DATA * expected
      /\ rest = len - body - take /\ seq = expected + 1 /\ len < U16 /\ rest \leq len
  BY <1>1 DEF Lockstep, Inv
<1>4. expected < 128
  BY <1>2 DEF ReceiveContinuation, Accepts
<1>5. expected' = expected + 1
  <2>1. expected' = (expected + 1) % U8
    BY DEF ReceiveContinuation
  <2>2. QED
    BY <1>2, <1>4, <2>1, Sizes
<1>6. take \in Nat /\ take \leq len - body
  BY <1>2, <1>3, Sizes, LeastIsMinimum
<1>7. /\ body' = body + take /\ link' = NoReport
      /\ UNCHANGED <<phase, len, rest, seq, bcnt>>
      /\ result' = IF body' < len THEN "none" ELSE "ok"
  BY <1>3 DEF ReceiveContinuation, Result
<1>8. TypeOK'
  <2>1. body' \in Nat /\ expected' \in 0..(U8 - 1)
    BY <1>2, <1>4, <1>5, <1>6, <1>7, Sizes
  <2>2. QED
    BY <1>7, <2>1, NoReportIsReport DEF TypeOK
<1>9. CASE len - body > CONT_FRAME_DATA
  <2>1. take = CONT_FRAME_DATA
    BY <1>2, <1>3, <1>9, Sizes, LeastIsMinimum
  <2>2. body' < len /\ rest = len - body'
    BY <1>2, <1>3, <1>7, <1>9, <2>1, Sizes
  <2>3. body' = INIT_FRAME_DATA + CONT_FRAME_DATA * expected'
    BY <1>2, <1>3, <1>5, <1>7, <2>1, Sizes
  <2>4. expected' \leq 128
    BY <1>2, <1>4, <1>5
  <2>5. Lockstep'
    BY <1>3, <1>5, <1>7, <2>2, <2>3, <2>4, NoReportIsReport DEF Lockstep
  <2>6. QED
    BY <1>1, <1>7, <1>8, <2>2, <2>5 DEF Inv
<1>10. CASE len - body \leq CONT_FRAME_DATA
  <2>1. take = len - body
    BY <1>2, <1>3, <1>10, Sizes, LeastIsMinimum
  <2>2. body' = len /\ rest = 0 /\ expected' \leq 128
    BY <1>2, <1>3, <1>4, <1>5, <1>7, <2>1
  <2>3. result' = "ok"
    BY <1>2, <1>7, <2>2
  <2>4. QED
    BY <1>1, <1>3, <1>5, <1>7, <1>8, <2>2, <2>3 DEF Inv
<1>11. QED
  BY <1>2, <1>9, <1>10, Sizes

LEMMA RejectContinuationStep ==
  ASSUME Inv, RejectContinuation
  PROVE  Inv'
<1>. TypeOK
  BY DEF Inv
<1>1. Lockstep /\ phase # "start" /\ link.kind = "cont" /\ ~Accepts(link)
  BY DEF RejectContinuation, Inv, NoReport
<1>2. /\ expected \in Nat /\ expected \leq 128 /\ len \in Nat
      /\ link.seq \in Numbered(expected)
      /\ body = INIT_FRAME_DATA + CONT_FRAME_DATA * expected /\ body < len
  BY <1>1 DEF Lockstep, TypeOK
<1>3. expected = 128
  <2>1. link.seq = expected % 128 \/ link.seq = expected
    BY <1>2 DEF Numbered, Masked
  <2>2. expected < 128 => link.seq = expected
    BY <1>2, <2>1
  <2>3. QED
    BY <1>1, <1>2, <2>2 DEF Accepts
<1>4. len > MAX_PAYLOAD
  BY <1>2, <1>3, Sizes
<1>5. TypeOK'
  BY NoReportIsReport DEF RejectContinuation, TypeOK
<1>6. QED
  BY <1>1, <1>4, <1>5 DEF RejectContinuation, Inv

LEMMA Inductive == Inv /\ [Next]_vars => Inv'
<1>. SUFFICES ASSUME Inv, [Next]_vars PROVE Inv'
  OBVIOUS
<1>. TypeOK
  BY DEF Inv
<1>1. ASSUME NEW n \in Payloads, RefuseSend(n)
      PROVE  Inv'
  <2>1. n \in Nat /\ n > MAX_PAYLOAD
    BY <1>1, FramingAssumption DEF RefuseSend, TooLong
  <2>2. TypeOK'
    BY <1>1, <2>1 DEF RefuseSend, TypeOK
  <2>3. rest' \leq len'
    BY <1>1, <2>1 DEF RefuseSend, Inv
  <2>4. QED
    BY <1>1, <2>1, <2>2, <2>3 DEF RefuseSend, Inv
<1>2. ASSUME NEW n \in Payloads, StartRequest(n)
      PROVE  Inv'
  <2>1. n \in Nat /\ ~(n > MAX_PAYLOAD) /\ FirstReport(n)
    BY <1>2, FramingAssumption DEF StartRequest, TooLong
  <2>2. n < U16
    BY <2>1, Sizes
  <2>3. QED
    BY <2>1, <2>2, FirstReportStep
<1>3. ASSUME NEW n \in Replies, StartReply(n)
      PROVE  Inv'
  <2>1. n \in 0..(U16 - 1)
    BY FramingAssumption
  <2>2. n \in Nat /\ n < U16
    BY <2>1, U16Natural, InRangeIsBelow
  <2>3. QED
    BY <1>3, <2>2, FirstReportStep DEF StartReply
<1>4. CASE SendDone
  <2>1. TypeOK'
    BY <1>4 DEF SendDone, TypeOK
  <2>2. Lockstep => Lockstep'
    BY <1>4 DEF SendDone, Lockstep
  <2>3. QED
    BY <1>4, <2>1, <2>2 DEF SendDone, Inv
<1>5. CASE Leftover
  <2>1. TypeOK'
    BY <1>5, NoReportIsReport DEF Leftover, TypeOK
  <2>2. QED
    BY <1>5, <2>1 DEF Leftover, Inv
<1>6. CASE UNCHANGED vars
  <2>1. TypeOK' /\ (Lockstep => Lockstep')
    BY <1>6 DEF vars, TypeOK, Lockstep
  <2>2. QED
    BY <1>6, <2>1 DEF vars, Inv
<1>7. QED
  BY <1>1, <1>2, <1>3, <1>4, <1>5, <1>6, SendContinuationStep, ReceiveInitStep,
     ReceiveContinuationStep, RejectContinuationStep DEF Next

LEMMA Invariance == Spec => []Inv
BY Initially, Inductive, PTL DEF Spec

\* Every report carries a payload within its 64 bytes and a number within its byte.
THEOREM FramingTypes == Spec => []TypeOK
<1>1. Inv => TypeOK
  BY DEF Inv
<1>2. QED
  BY <1>1, Invariance, PTL

\* Each chunk recv_message takes continues where the body ends, whatever the length.
THEOREM ReassemblyInOrder == Spec => []ChunksMeet
<1>1. Inv => ChunksMeet
  <2>. SUFFICES ASSUME Inv, link.kind = "cont", result = "none", Accepts(link)
                PROVE  /\ link.at = body
                       /\ link.take = Least(bcnt - body, CONT_FRAME_DATA)
    BY DEF ChunksMeet
  <2>1. Lockstep
    BY DEF Inv, NoReport
  <2>2. QED
    BY <2>1 DEF Lockstep
<1>2. QED
  BY <1>1, Invariance, PTL

\* A payload of up to 7609 bytes arrives whole; a longer message is refused and
\* never mistaken for a shorter one.
THEOREM MessagesArriveWhole == Spec => []RoundTrip
<1>1. Inv => RoundTrip
  BY DEF Inv, RoundTrip
<1>2. QED
  BY <1>1, Invariance, PTL

\* Within the limit neither u8 counter of hid.rs reaches the bit it has to mask.
THEOREM CountersFit == Spec => []SequenceFits
<1>1. Inv => SequenceFits
  <2>. SUFFICES ASSUME Inv, len \leq MAX_PAYLOAD
                PROVE  seq \leq 128 /\ expected \leq 128
    BY DEF SequenceFits
  <2>. TypeOK
    BY DEF Inv
  <2>1. CASE phase = "start"
    BY <2>1 DEF Inv
  <2>2. CASE result = "ok"
    BY <2>2 DEF Inv
  <2>3. CASE phase # "start" /\ result = "none"
    <3>1. Lockstep /\ link.kind \in {"none", "init", "cont"}
      BY <2>3 DEF Inv, TypeOK, Report
    <3>2. CASE link.kind = "init"
      BY <3>1, <3>2 DEF Lockstep
    <3>3. CASE link.kind = "none"
      BY <3>1, <3>3 DEF Lockstep
    <3>4. CASE link.kind = "cont"
      <4>1. /\ body = INIT_FRAME_DATA + CONT_FRAME_DATA * expected /\ body < len
            /\ seq = expected + 1 /\ len \in Nat /\ expected \in Nat
        BY <3>1, <3>4 DEF Lockstep, TypeOK
      <4>2. expected < 128
        BY <4>1, Sizes
      <4>3. QED
        BY <4>1, <4>2
    <3>5. QED
      BY <3>1, <3>2, <3>3, <3>4
  <2>4. CASE result = "parse"
    <3>1. len > MAX_PAYLOAD
      BY <2>4 DEF Inv
    <3>2. len \in Nat
      BY DEF TypeOK
    <3>3. MAX_PAYLOAD \in Nat
      BY Sizes
    <3>4. QED
      BY <3>1, <3>2, <3>3
  <2>5. QED
    BY <2>1, <2>2, <2>3, <2>4 DEF TypeOK
<1>2. QED
  BY <1>1, Invariance, PTL
=============================================================================
