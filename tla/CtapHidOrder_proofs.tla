------------------------- MODULE CtapHidOrder_proofs -------------------------
(***************************************************************************)
(* The order of the reports: what the answers of every Transport are when  *)
(* the queues lose nothing, and when besides nothing times out.            *)
(***************************************************************************)
EXTENDS CtapHidTrust_proofs

(* Queues that lose nothing: what a step does to one queue. *)

\* What is queued for h is what was, less its first d reports.
Shifted(h, d) ==
  /\ \A i \in DOMAIN rx'[h] : i + d \in DOMAIN rx[h] /\ rx'[h][i] = rx[h][i + d]
  /\ \A k \in DOMAIN rx[h] : k > d => k - d \in DOMAIN rx'[h] /\ rx'[h][k - d] = rx[h][k]

\* It is what was, and perhaps f after it.
Grown(h, f) ==
  /\ Queued(h, f)
  /\ \A i \in DOMAIN rx[h] : i \in DOMAIN rx'[h] /\ rx'[h][i] = rx[h][i]

LEMMA PlacesInQueue ==
  ASSUME WireOK, NEW h \in Handles
  PROVE  /\ rx[h] \in Seq(Frame) /\ Len(rx[h]) \in Nat /\ DOMAIN rx[h] = 1..Len(rx[h])
         /\ \A i \in DOMAIN rx[h] : i \in Nat /\ i >= 1 /\ i =< Len(rx[h]) /\ rx[h][i] \in Frame
<1>1. rx[h] \in Seq(Frame)
  BY DEF WireOK
<1>2. Len(rx[h]) \in Nat /\ DOMAIN rx[h] = 1..Len(rx[h])
  BY <1>1, LenProperties
<1>3. \A i \in DOMAIN rx[h] : rx[h][i] \in Frame
  BY <1>1, <1>2, ElementOfSeq
<1>4. QED
  BY <1>1, <1>2, <1>3

LEMMA SameShifts ==
  ASSUME WireOK, NEW h \in Handles, rx'[h] = rx[h]
  PROVE  Shifted(h, 0)
BY PlacesInQueue DEF Shifted

LEMMA TakeShifts ==
  ASSUME WireOK, NEW h \in Handles, Takes(h)
  PROVE  Shifted(h, 1)
<1>1. rx[h] \in Seq(Frame) /\ rx[h] # << >> /\ rx'[h] = Tail(rx[h])
  BY DEF WireOK, Takes, Take
<1>2. /\ Tail(rx[h]) \in Seq(Frame) /\ Len(Tail(rx[h])) = Len(rx[h]) - 1
      /\ \A k \in 1..Len(Tail(rx[h])) : Tail(rx[h])[k] = rx[h][k + 1]
  BY <1>1, HeadTailProperties
<1>3. /\ DOMAIN rx[h] = 1..Len(rx[h]) /\ Len(rx[h]) \in Nat
      /\ DOMAIN rx'[h] = 1..(Len(rx[h]) - 1)
      /\ \A k \in 1..(Len(rx[h]) - 1) : rx'[h][k] = rx[h][k + 1]
  BY <1>1, <1>2, LenProperties
<1>4. ASSUME NEW k \in DOMAIN rx[h], k > 1
      PROVE  k - 1 \in DOMAIN rx'[h] /\ rx'[h][k - 1] = rx[h][k]
  <2>1. k - 1 \in 1..(Len(rx[h]) - 1) /\ (k - 1) + 1 = k
    BY <1>3, <1>4
  <2>2. rx'[h][k - 1] = rx[h][(k - 1) + 1]
    BY <1>3, <2>1
  <2>3. QED
    BY <1>3, <2>1, <2>2
<1>5. QED
  BY <1>3, <1>4 DEF Shifted

LEMMA DeliverGrows ==
  ASSUME WireOK, NEW f \in Frame, Deliver(f), NEW h \in Handles
  PROVE  /\ Grown(h, f)
         /\ h \in fds /\ Room =>
              Len(rx[h]) + 1 \in DOMAIN rx'[h] /\ rx'[h][Len(rx[h]) + 1] = f
<1>1. rx[h] \in Seq(Frame)
  BY DEF WireOK
<1>2. /\ Len(Append(rx[h], f)) = Len(rx[h]) + 1 /\ Len(rx[h]) \in Nat
      /\ DOMAIN rx[h] = 1..Len(rx[h]) /\ DOMAIN Append(rx[h], f) = 1..(Len(rx[h]) + 1)
      /\ \A i \in 1..Len(rx[h]) : Append(rx[h], f)[i] = rx[h][i]
      /\ Append(rx[h], f)[Len(rx[h]) + 1] = f
  BY <1>1, AppendTo
<1>3. rx'[h] = IF h \in fds /\ Len(rx[h]) < RxCap THEN Append(rx[h], f) ELSE rx[h]
  BY DEF Deliver
<1>4. \A i \in DOMAIN rx[h] : i \in DOMAIN rx'[h] /\ rx'[h][i] = rx[h][i]
  BY <1>2, <1>3
<1>5. Queued(h, f)
  BY AfterDeliver DEF Queued
<1>6. h \in fds /\ Room => Len(rx[h]) + 1 \in DOMAIN rx'[h] /\ rx'[h][Len(rx[h]) + 1] = f
  BY <1>2, <1>3 DEF Room
<1>7. QED
  BY <1>4, <1>5, <1>6 DEF Grown

LEMMA SameGrows ==
  ASSUME WireOK, NEW h \in Handles, rx'[h] = rx[h], NEW f
  PROVE  Grown(h, f)
BY DEF Grown, Queued

\* A handle that is not closed has its file.
LEMMA ListeningHost ==
  ASSUME TypeInv, NEW h \in Handles, HostStep(h), NEW g \in Handles, Listening(g)
  PROVE  Listening(g)'
<1>1. Proceed(h) \/ Invoke(h)
  BY DEF HostStep
<1>. pc \in [Handles -> {"closed", "initSend", "initRead", "idle", "writing", "reading"}]
  BY DEF TypeInv, HostInv, HostOK
<1>2. \/ fds' = fds /\ pc[h] # "closed"
      \/ fds' = fds \cup {h}
      \/ fds' = fds \ {h} /\ pc'[h] = "closed"
  <2>1. CASE OpenPath(h) \/ RejectCall(h) \/ CallFails(h) \/ WriteInit(h) \/ WriteFrame(h) \/ Cancel(h)
             \/ \E command \in Commands, n \in 0..MaxReqCont : Call(h, command, n)
    BY <2>1 DEF OpenPath, RejectCall, CallFails, Return, Call, wire, WriteInit, WriteFrame, Cancel
  <2>2. CASE SkipBeforeInit(h) \/ AcceptInit(h) \/ SkipStray(h) \/ SkipKeepalive(h)
    BY <2>2 DEF SkipBeforeInit, AcceptInit, SkipStray, SkipKeepalive, First, Mine, Reading
  <2>3. CASE ErrorFrame(h) \/ UnexpectedCommand(h) \/ BadContinuation(h)
             \/ FirstFrame(h) \/ ContinuationFrame(h)
    BY <2>3 DEF ErrorFrame, UnexpectedCommand, BadContinuation, FirstFrame, ContinuationFrame,
                Collect, Full, Return, First, Later, Mine, Reading
  <2>4. CASE RejectInit(h) \/ OpenTimesOut(h) \/ Close(h)
    BY <2>4 DEF RejectInit, OpenTimesOut, OpenFails, Close, Release, Goto
  <2>5. QED
    BY <1>1, <2>1, <2>2, <2>3, <2>4 DEF Proceed, Invoke
<1>3. CASE g = h
  BY <1>2, <1>3 DEF Listening
<1>4. CASE g # h
  BY <1>1, <1>2, <1>4, OthersSame DEF Same, Listening
<1>5. QED
  BY <1>3, <1>4

(* StreamInv is kept by every step. *)

\* What was said of the reports that stay can still be said of them.
LEMMA ShiftedPlaces ==
  ASSUME WireOK, WireOK', NEW h \in Handles, NEW d \in {0, 1}, Shifted(h, d), cid'[h] = cid[h]
  PROVE  /\ \A i \in DOMAIN rx'[h] :
              /\ i \in Nat /\ i >= 1 /\ i + d \in DOMAIN rx[h] /\ rx'[h][i] = rx[h][i + d] /\ i + d > d
              /\ PartAt(h, i)' = PartAt(h, i + d)
              /\ Continues(h, i)' = Continues(h, i + d)
         /\ \A k \in DOMAIN rx[h] : k \in Nat
         /\ \A k \in DOMAIN rx[h] : k > d =>
              /\ k - d \in DOMAIN rx'[h]
              /\ Begins(h, k) => Begins(h, k - d)'
<1>1. /\ \A i \in DOMAIN rx'[h] : i \in Nat /\ i >= 1
      /\ \A k \in DOMAIN rx[h] : k \in Nat
  <2>1. rx'[h] \in Seq(Frame) /\ rx[h] \in Seq(Frame)
    BY DEF WireOK
  <2>2. DOMAIN rx'[h] = 1..Len(rx'[h]) /\ DOMAIN rx[h] = 1..Len(rx[h])
    BY <2>1, LenProperties
  <2>3. QED
    BY <2>2
<1>2. \A i \in DOMAIN rx'[h] :
        /\ i + d \in DOMAIN rx[h] /\ rx'[h][i] = rx[h][i + d] /\ i + d > d
        /\ PartAt(h, i)' = PartAt(h, i + d)
        /\ Continues(h, i)' = Continues(h, i + d)
  BY <1>1 DEF Shifted, PartAt, Continues, IsPart
<1>3. \A k \in DOMAIN rx[h] : k > d =>
        /\ k - d \in DOMAIN rx'[h]
        /\ Begins(h, k) => Begins(h, k - d)'
  BY DEF Shifted, Begins
<1>4. QED
  BY <1>1, <1>2, <1>3

LEMMA QueueShifted ==
  ASSUME WireOK, WireOK', NEW h \in Handles, NEW d \in {0, 1}, Shifted(h, d), cid'[h] = cid[h],
         QueueStream(h)
  PROVE  QueueStream(h)'
<1>. SUFFICES ASSUME NEW i \in DOMAIN rx'[h], NEW j \in DOMAIN rx'[h], i < j,
                     PartAt(h, i)', Continues(h, j)', rx'[h][j].from # rx'[h][i].from
              PROVE  \E k \in DOMAIN rx'[h] : i < k /\ k < j /\ Begins(h, k)'
  BY DEF QueueStream
<1>1. /\ i \in Nat /\ j \in Nat /\ i + d \in DOMAIN rx[h] /\ j + d \in DOMAIN rx[h]
      /\ rx'[h][i] = rx[h][i + d] /\ rx'[h][j] = rx[h][j + d]
      /\ PartAt(h, i + d) /\ Continues(h, j + d)
  BY ShiftedPlaces
<1>2. i + d < j + d
  BY <1>1
<1>3. PICK k \in DOMAIN rx[h] : i + d < k /\ k < j + d /\ Begins(h, k)
  BY <1>1, <1>2 DEF QueueStream
<1>4. k \in Nat
  BY ShiftedPlaces
<1>5. k > d /\ i < k - d /\ k - d < j
  BY <1>1, <1>3, <1>4
<1>6. k - d \in DOMAIN rx'[h] /\ Begins(h, k - d)'
  BY <1>3, <1>5, ShiftedPlaces
<1>7. QED
  BY <1>5, <1>6

\* Reports are taken and the reply under way stays as it is, or is dropped.
LEMMA StreamShifted ==
  ASSUME WireOK, WireOK', NEW h \in Handles, NEW d \in {0, 1}, Shifted(h, d), cid'[h] = cid[h],
         StreamInv(h), DevOld(h),
         \/ body'[h] = << >>
         \/ body'[h] = body[h] /\ (body[h] # << >> => \A k \in DOMAIN rx[h] : Begins(h, k) => k > d)
  PROVE  StreamInv(h)'
<1>1. QueueStream(h)'
  BY QueueShifted DEF StreamInv
<1>2. ASSUME body'[h] # << >>, NEW k \in DOMAIN rx[h], Begins(h, k)
      PROVE  k - d \in DOMAIN rx'[h] /\ Begins(h, k - d)' /\ k \in Nat
  BY <1>2, ShiftedPlaces
<1>3. BodyStream(h)'
  <2>. SUFFICES ASSUME body'[h] # << >>
                PROVE  /\ \A i \in DOMAIN body'[h] : body'[h][i].from = body'[h][1].from
                       /\ \A j \in DOMAIN rx'[h] :
                            Continues(h, j)' /\ rx'[h][j].from # body'[h][1].from =>
                              \E k \in DOMAIN rx'[h] : k < j /\ Begins(h, k)'
    BY DEF BodyStream
  <2>1. body'[h] = body[h]
    OBVIOUS
  <2>2. ASSUME NEW j \in DOMAIN rx'[h], Continues(h, j)', rx'[h][j].from # body'[h][1].from
        PROVE  \E k \in DOMAIN rx'[h] : k < j /\ Begins(h, k)'
    <3>1. /\ j \in Nat /\ j + d \in DOMAIN rx[h] /\ Continues(h, j + d)
          /\ rx'[h][j] = rx[h][j + d]
      BY <2>2, ShiftedPlaces
    <3>2. PICK k \in DOMAIN rx[h] : k < j + d /\ Begins(h, k)
      BY <2>1, <2>2, <3>1 DEF StreamInv, BodyStream
    <3>3. k - d \in DOMAIN rx'[h] /\ Begins(h, k - d)' /\ k \in Nat
      BY <1>2, <3>2
    <3>4. k - d < j
      BY <3>1, <3>2, <3>3
    <3>5. QED
      BY <3>3, <3>4
  <2>3. QED
    BY <2>1, <2>2 DEF StreamInv, BodyStream
<1>4. DeviceStream(h)'
  <2>. SUFFICES ASSUME Mode(h, {"reply"})', dev'.next # 0
                PROVE  /\ \A i \in DOMAIN rx'[h] : PartAt(h, i)' /\ rx'[h][i].from # dev'.from =>
                            \E k \in DOMAIN rx'[h] : i < k /\ Begins(h, k)'
                       /\ body'[h] # << >> /\ body'[h][1].from # dev'.from =>
                            \E k \in DOMAIN rx'[h] : Begins(h, k)'
    BY DEF DeviceStream
  <2>1. dev' = dev /\ Mode(h, {"reply"})
    BY DEF DevOld, Mode
  <2>2. ASSUME NEW i \in DOMAIN rx'[h], PartAt(h, i)', rx'[h][i].from # dev'.from
        PROVE  \E k \in DOMAIN rx'[h] : i < k /\ Begins(h, k)'
    <3>1. /\ i \in Nat /\ i + d \in DOMAIN rx[h] /\ PartAt(h, i + d)
          /\ rx'[h][i] = rx[h][i + d]
      BY <2>2, ShiftedPlaces
    <3>2. PICK k \in DOMAIN rx[h] : i + d < k /\ Begins(h, k)
      BY <2>1, <2>2, <3>1 DEF StreamInv, DeviceStream
    <3>3. k \in Nat
      BY ShiftedPlaces
    <3>4. k > d /\ i < k - d
      BY <3>1, <3>2, <3>3
    <3>5. k - d \in DOMAIN rx'[h] /\ Begins(h, k - d)'
      BY <3>2, <3>4, ShiftedPlaces
    <3>6. QED
      BY <3>4, <3>5
  <2>3. ASSUME body'[h] # << >>, body'[h][1].from # dev'.from
        PROVE  \E k \in DOMAIN rx'[h] : Begins(h, k)'
    <3>1. PICK k \in DOMAIN rx[h] : Begins(h, k)
      BY <2>1, <2>3 DEF StreamInv, DeviceStream
    <3>2. QED
      BY <1>2, <2>3, <3>1
  <2>4. QED
    BY <2>2, <2>3
<1>5. QED
  BY <1>1, <1>3, <1>4 DEF StreamInv

\* The report added to the reply under way is of the same request.
LEMMA StreamCollecting ==
  ASSUME TypeInv, NEW h \in Handles, StreamInv(h), FirstFrame(h) \/ ContinuationFrame(h),
         NEW reply, reply = Append(body[h], Head(rx[h]))
  PROVE  /\ Head(rx[h]) = rx[h][1] /\ 1 \in DOMAIN rx[h] /\ PartAt(h, 1)
         /\ body[h] # << >> => Continues(h, 1) /\ reply[1] = body[h][1]
         /\ body[h] = << >> => reply[1] = rx[h][1]
         /\ reply[1].from = rx[h][1].from
         /\ \A i \in DOMAIN reply : reply[i].from = reply[1].from
<1>1. /\ Mine(h) /\ req[h].cmd \in Commands /\ body[h] \in Seq(Frame)
  BY DEF FirstFrame, ContinuationFrame, First, Later, Mine, Reading, TypeInv, HostInv, HostOK
<1>2. /\ 1 \in DOMAIN rx[h] /\ Head(rx[h]) = rx[h][1] /\ Head(rx[h]) \in Frame /\ Head(rx[h]).cid = cid[h]
  BY <1>1, HeadOf DEF TypeInv, Mine, Reading
<1>3. /\ Len(reply) = Len(body[h]) + 1 /\ Len(body[h]) \in Nat
      /\ DOMAIN body[h] = 1..Len(body[h]) /\ DOMAIN reply = 1..(Len(body[h]) + 1)
      /\ \A i \in 1..Len(body[h]) : reply[i] = body[h][i]
      /\ reply[Len(body[h]) + 1] = rx[h][1]
  BY <1>1, <1>2, AppendTo
<1>4. CASE FirstFrame(h)
  <2>1. body[h] = << >> /\ rx[h][1].cmd = req[h].cmd
    BY <1>2, <1>4 DEF FirstFrame, First
  <2>2. Len(body[h]) = 0 /\ reply[1] = rx[h][1] /\ DOMAIN reply = 1..1
    BY <1>3, <2>1
  <2>3. PartAt(h, 1)
    BY <1>1, <1>2, <2>1 DEF PartAt, IsPart
  <2>4. QED
    BY <1>2, <2>1, <2>2, <2>3
<1>5. CASE ContinuationFrame(h)
  <2>1. body[h] # << >> /\ rx[h][1].cmd = "CONT"
    BY <1>2, <1>5 DEF ContinuationFrame, Later, InSequence
  <2>2. Continues(h, 1) /\ PartAt(h, 1)
    BY <1>2, <2>1 DEF Continues, PartAt, IsPart
  <2>3. Len(body[h]) >= 1 /\ reply[1] = body[h][1]
    <3>1. Len(body[h]) # 0
      BY <1>1, <2>1, EmptySeq
    <3>2. QED
      BY <1>3, <3>1
  <2>4. rx[h][1].from = body[h][1].from
    <3>1. \A k \in DOMAIN rx[h] : ~(k < 1)
      BY PlacesInQueue DEF TypeInv
    <3>2. QED
      BY <1>2, <2>1, <2>2, <3>1 DEF StreamInv, BodyStream
  <2>5. \A i \in DOMAIN body[h] : body[h][i].from = body[h][1].from
    BY <2>1 DEF StreamInv, BodyStream
  <2>6. \A i \in DOMAIN reply : reply[i].from = reply[1].from
    BY <1>3, <2>3, <2>4, <2>5
  <2>7. QED
    BY <1>2, <2>1, <2>2, <2>3, <2>4, <2>6
<1>6. QED
  BY <1>4, <1>5

LEMMA StreamCollected ==
  ASSUME TypeInv, WireOK', NEW h \in Handles, StreamInv(h), Collects(h), dev' = dev
  PROVE  StreamInv(h)'
<1>. DEFINE reply == Append(body[h], Head(rx[h]))
<1>1. /\ FirstFrame(h) \/ ContinuationFrame(h)
      /\ body'[h] = reply /\ cid'[h] = cid[h] /\ WireOK
  BY DEF Collects, TypeInv
<1>2. Takes(h)
  BY <1>1 DEF FirstFrame, ContinuationFrame, First, Later, Mine, Reading, Collect, Full, Return, Takes
<1>3. Shifted(h, 1)
  BY <1>1, <1>2, TakeShifts
<1>4. /\ 1 \in DOMAIN rx[h] /\ PartAt(h, 1)
      /\ body[h] # << >> => Continues(h, 1) /\ reply[1] = body[h][1]
      /\ body[h] = << >> => reply[1] = rx[h][1]
      /\ reply[1].from = rx[h][1].from
      /\ \A i \in DOMAIN reply : reply[i].from = reply[1].from
  BY <1>1, StreamCollecting
<1>5. QueueStream(h)'
  BY <1>1, <1>3, QueueShifted DEF StreamInv
<1>6. \A k \in DOMAIN rx[h] : k \in Nat /\ k >= 1
  BY <1>1, PlacesInQueue
<1>7. BodyStream(h)'
  <2>1. ASSUME NEW j \in DOMAIN rx'[h], Continues(h, j)', rx'[h][j].from # reply[1].from
        PROVE  \E k \in DOMAIN rx'[h] : k < j /\ Begins(h, k)'
    <3>1. /\ j \in Nat /\ j >= 1 /\ j + 1 \in DOMAIN rx[h] /\ Continues(h, j + 1)
          /\ rx'[h][j] = rx[h][j + 1]
      BY <1>1, <1>3, <2>1, ShiftedPlaces
    <3>2. PICK k \in DOMAIN rx[h] : 1 < k /\ k < j + 1 /\ Begins(h, k)
      <4>1. 1 < j + 1
        BY <3>1
      <4>2. QED
        BY <1>4, <2>1, <3>1, <4>1 DEF StreamInv, QueueStream
    <3>3. k \in Nat /\ k - 1 \in DOMAIN rx'[h] /\ Begins(h, k - 1)'
      BY <1>1, <1>3, <1>6, <3>2, ShiftedPlaces
    <3>4. k - 1 < j
      BY <3>1, <3>2, <3>3
    <3>5. QED
      BY <3>3, <3>4
  <2>2. QED
    BY <1>1, <1>4, <2>1 DEF BodyStream
<1>8. DeviceStream(h)'
  <2>. SUFFICES ASSUME Mode(h, {"reply"})', dev'.next # 0
                PROVE  /\ \A i \in DOMAIN rx'[h] : PartAt(h, i)' /\ rx'[h][i].from # dev'.from =>
                            \E k \in DOMAIN rx'[h] : i < k /\ Begins(h, k)'
                       /\ body'[h] # << >> /\ body'[h][1].from # dev'.from =>
                            \E k \in DOMAIN rx'[h] : Begins(h, k)'
    BY DEF DeviceStream
  <2>1. Mode(h, {"reply"}) /\ dev.next # 0
    BY <1>1 DEF Mode
  <2>2. ASSUME NEW i \in DOMAIN rx'[h], PartAt(h, i)', rx'[h][i].from # dev'.from
        PROVE  \E k \in DOMAIN rx'[h] : i < k /\ Begins(h, k)'
    <3>1. /\ i \in Nat /\ i >= 1 /\ i + 1 \in DOMAIN rx[h] /\ PartAt(h, i + 1)
          /\ rx'[h][i] = rx[h][i + 1]
      BY <1>1, <1>3, <2>2, ShiftedPlaces
    <3>2. PICK k \in DOMAIN rx[h] : i + 1 < k /\ Begins(h, k)
      BY <2>1, <2>2, <3>1 DEF StreamInv, DeviceStream
    <3>3. k \in Nat /\ k > 1 /\ i < k - 1
      BY <1>6, <3>1, <3>2
    <3>4. k - 1 \in DOMAIN rx'[h] /\ Begins(h, k - 1)'
      BY <1>1, <1>3, <3>2, <3>3, ShiftedPlaces
    <3>5. QED
      BY <3>3, <3>4
  <2>3. ASSUME reply[1].from # dev.from
        PROVE  \E k \in DOMAIN rx'[h] : Begins(h, k)'
    <3>1. PICK k \in DOMAIN rx[h] : 1 < k /\ Begins(h, k)
      BY <1>4, <2>1, <2>3 DEF StreamInv, DeviceStream
    <3>2. k \in Nat /\ k - 1 \in DOMAIN rx'[h] /\ Begins(h, k - 1)'
      BY <1>1, <1>3, <1>6, <3>1, ShiftedPlaces
    <3>3. QED
      BY <3>2
  <2>4. QED
    BY <1>1, <2>2, <2>3
<1>9. QED
  BY <1>5, <1>7, <1>8 DEF StreamInv

\* A report arrives that continues nothing, or what the device is sending.
LEMMA StreamGrown ==
  ASSUME WireOK, WireOK', NEW h \in Handles, NEW f \in Frame, Grown(h, f), cid'[h] = cid[h],
         body'[h] = body[h], StreamInv(h),
         \/ f.cid # cid[h]
         \/ f.cmd # "CONT"
         \/ Mode(h, {"reply"}) /\ dev.next # 0 /\ f.from = dev.from
  PROVE  QueueStream(h)' /\ BodyStream(h)'
<1>1. /\ \A i \in DOMAIN rx'[h] :
           \/ i \in DOMAIN rx[h] /\ rx'[h][i] = rx[h][i]
           \/ i = Len(rx[h]) + 1 /\ rx'[h][i] = f
      /\ \A k \in DOMAIN rx[h] : k \in DOMAIN rx'[h] /\ rx'[h][k] = rx[h][k]
  BY DEF Grown, Queued
<1>2. /\ Len(rx[h]) \in Nat
      /\ \A k \in DOMAIN rx[h] : k \in Nat /\ k =< Len(rx[h])
  BY PlacesInQueue
<1>3. \A k \in DOMAIN rx[h] : Begins(h, k) => Begins(h, k)'
  BY <1>1 DEF Begins
<1>4. ASSUME NEW j \in DOMAIN rx'[h], Continues(h, j)', j \notin DOMAIN rx[h]
      PROVE  rx'[h][j].from = dev.from /\ j = Len(rx[h]) + 1 /\ Mode(h, {"reply"}) /\ dev.next # 0
  BY <1>1, <1>4 DEF Continues
<1>5. QueueStream(h)'
  <2>. SUFFICES ASSUME NEW i \in DOMAIN rx'[h], NEW j \in DOMAIN rx'[h], i < j,
                       PartAt(h, i)', Continues(h, j)', rx'[h][j].from # rx'[h][i].from
                PROVE  \E k \in DOMAIN rx'[h] : i < k /\ k < j /\ Begins(h, k)'
    BY DEF QueueStream
  <2>1. i \in DOMAIN rx[h] /\ rx'[h][i] = rx[h][i]
    <3>1. CASE i = Len(rx[h]) + 1
      <4>1. j = i \/ j =< Len(rx[h])
        BY <1>1, <1>2, <3>1
      <4>2. QED
        BY <1>1, <1>2, <3>1, <4>1
    <3>2. QED
      BY <1>1, <3>1
  <2>2. PartAt(h, i)
    BY <2>1 DEF PartAt, IsPart
  <2>3. CASE j \in DOMAIN rx[h]
    <3>1. rx'[h][j] = rx[h][j] /\ Continues(h, j)
      BY <1>1, <2>3 DEF Continues
    <3>2. PICK k \in DOMAIN rx[h] : i < k /\ k < j /\ Begins(h, k)
      BY <2>1, <2>2, <2>3, <3>1 DEF StreamInv, QueueStream
    <3>3. QED
      BY <1>1, <1>3, <3>2
  <2>4. CASE j \notin DOMAIN rx[h]
    <3>1. rx'[h][j].from = dev.from /\ j = Len(rx[h]) + 1 /\ Mode(h, {"reply"}) /\ dev.next # 0
      BY <1>4, <2>4
    <3>2. PICK k \in DOMAIN rx[h] : i < k /\ Begins(h, k)
      BY <2>1, <2>2, <3>1 DEF StreamInv, DeviceStream
    <3>3. k < j
      BY <1>2, <3>1, <3>2
    <3>4. QED
      BY <1>1, <1>3, <3>2, <3>3
  <2>5. QED
    BY <2>3, <2>4
<1>6. BodyStream(h)'
  <2>. SUFFICES ASSUME body'[h] # << >>
                PROVE  /\ \A i \in DOMAIN body'[h] : body'[h][i].from = body'[h][1].from
                       /\ \A j \in DOMAIN rx'[h] :
                            Continues(h, j)' /\ rx'[h][j].from # body'[h][1].from =>
                              \E k \in DOMAIN rx'[h] : k < j /\ Begins(h, k)'
    BY DEF BodyStream
  <2>1. ASSUME NEW j \in DOMAIN rx'[h], Continues(h, j)', rx'[h][j].from # body'[h][1].from
        PROVE  \E k \in DOMAIN rx'[h] : k < j /\ Begins(h, k)'
    <3>1. CASE j \in DOMAIN rx[h]
      <4>1. rx'[h][j] = rx[h][j] /\ Continues(h, j)
        BY <1>1, <2>1, <3>1 DEF Continues
      <4>2. PICK k \in DOMAIN rx[h] : k < j /\ Begins(h, k)
        BY <2>1, <3>1, <4>1 DEF StreamInv, BodyStream
      <4>3. QED
        BY <1>1, <1>3, <4>2
    <3>2. CASE j \notin DOMAIN rx[h]
      <4>1. rx'[h][j].from = dev.from /\ j = Len(rx[h]) + 1 /\ Mode(h, {"reply"}) /\ dev.next # 0
        BY <1>4, <2>1, <3>2
      <4>2. PICK k \in DOMAIN rx[h] : Begins(h, k)
        BY <2>1, <4>1 DEF StreamInv, DeviceStream
      <4>3. k < j
        BY <1>2, <4>1, <4>2
      <4>4. QED
        BY <1>1, <1>3, <4>2, <4>3
    <3>3. QED
      BY <3>1, <3>2
  <2>2. QED
    BY <2>1 DEF StreamInv, BodyStream
<1>7. QED
  BY <1>5, <1>6

\* What the device goes on with is as new as it was.
LEMMA SendingKept ==
  ASSUME WireOK, WireOK', NEW h \in Handles, NEW f \in Frame, Grown(h, f), cid'[h] = cid[h],
         body'[h] = body[h], StreamInv(h),
         f.cid # cid[h] \/ ~IsPart(f) \/ f.from = dev.from,
         Mode(h, {"reply"})' /\ dev'.next # 0 =>
           Mode(h, {"reply"}) /\ dev.next # 0 /\ dev'.from = dev.from
  PROVE  DeviceStream(h)'
<1>1. /\ \A i \in DOMAIN rx'[h] :
           \/ i \in DOMAIN rx[h] /\ rx'[h][i] = rx[h][i]
           \/ i = Len(rx[h]) + 1 /\ rx'[h][i] = f
      /\ \A k \in DOMAIN rx[h] : k \in DOMAIN rx'[h] /\ rx'[h][k] = rx[h][k]
  BY DEF Grown, Queued
<1>2. \A k \in DOMAIN rx[h] : Begins(h, k) => Begins(h, k)'
  BY <1>1 DEF Begins
<1>. SUFFICES ASSUME Mode(h, {"reply"})', dev'.next # 0
              PROVE  /\ \A i \in DOMAIN rx'[h] : PartAt(h, i)' /\ rx'[h][i].from # dev'.from =>
                          \E k \in DOMAIN rx'[h] : i < k /\ Begins(h, k)'
                     /\ body'[h] # << >> /\ body'[h][1].from # dev'.from =>
                          \E k \in DOMAIN rx'[h] : Begins(h, k)'
  BY DEF DeviceStream
<1>3. ASSUME NEW i \in DOMAIN rx'[h], PartAt(h, i)', rx'[h][i].from # dev'.from
      PROVE  \E k \in DOMAIN rx'[h] : i < k /\ Begins(h, k)'
  <2>1. i \in DOMAIN rx[h] /\ rx'[h][i] = rx[h][i] /\ PartAt(h, i)
    BY <1>1, <1>3 DEF PartAt, IsPart
  <2>2. PICK k \in DOMAIN rx[h] : i < k /\ Begins(h, k)
    BY <1>3, <2>1 DEF StreamInv, DeviceStream
  <2>3. QED
    BY <1>1, <1>2, <2>2
<1>4. ASSUME body'[h] # << >>, body'[h][1].from # dev'.from
      PROVE  \E k \in DOMAIN rx'[h] : Begins(h, k)'
  <2>1. PICK k \in DOMAIN rx[h] : Begins(h, k)
    BY <1>4 DEF StreamInv, DeviceStream
  <2>2. QED
    BY <1>1, <1>2, <2>1
<1>5. QED
  BY <1>3, <1>4

\* The first report of a reply is queued behind everything else.
LEMMA SendingBegun ==
  ASSUME WireOK, WireOK', NEW h \in Handles, NEW f \in Frame, Grown(h, f), cid'[h] = cid[h],
         NEW n \in Nat, n = Len(rx[h]) + 1, n \in DOMAIN rx'[h], rx'[h][n] = f,
         f.cid = cid[h], f.cmd # "CONT", f.from = dev'.from
  PROVE  DeviceStream(h)'
<1>1. \A i \in DOMAIN rx'[h] :
        \/ i \in DOMAIN rx[h] /\ rx'[h][i] = rx[h][i]
        \/ i = Len(rx[h]) + 1 /\ rx'[h][i] = f
  BY DEF Grown, Queued
<1>2. Begins(h, n)'
  BY DEF Begins
<1>3. ASSUME NEW i \in DOMAIN rx'[h], rx'[h][i].from # dev'.from
      PROVE  i < n
  BY <1>1, <1>3, PlacesInQueue
<1>4. QED
  BY <1>2, <1>3 DEF DeviceStream

LEMMA StreamIfQuiet ==
  ASSUME NEW h \in Handles, Quiet(h)
  PROVE  StreamInv(h)
BY DEF Quiet, NoneOn, StreamInv, QueueStream, BodyStream, DeviceStream, PartAt, Continues, Mode

LEMMA StreamOwnStep ==
  ASSUME TypeInv, WireOK', ChannelInv, BodyInv, UnusedInv, NEW h \in Handles, HostStep(h),
         Open(h) => StreamInv(h), Open(h)'
  PROVE  StreamInv(h)'
<1>1. (Proceed(h) \/ Invoke(h)) /\ dev' = dev /\ DevOld(h) /\ WireOK
  BY DEF HostStep, device, DevOld, TypeInv
<1>. body \in [Handles -> Seq(Frame)] /\ cid \in [Handles -> Nat]
  BY DEF TypeInv, HostInv, HostOK
<1>2. CASE AcceptInit(h)
  <2>1. Quiet(h)'
    BY <1>1, <1>2, AcceptIsQuiet
  <2>2. QED
    BY <2>1, StreamIfQuiet, PTL
<1>3. CASE ~AcceptInit(h)
  <2>1. Open(h) /\ cid'[h] = cid[h] /\ StreamInv(h)
    BY <1>1, <1>3, OpenSteps
  <2>2. \A k \in DOMAIN rx[h] : k \in Nat /\ k >= 1 /\ k > 0 /\ (k # 1 => k > 1)
    BY <1>1, PlacesInQueue
  <2>3. ASSUME rx'[h] = rx[h], body'[h] \in {<< >>, body[h]}
        PROVE  StreamInv(h)'
    <3>1. Shifted(h, 0)
      BY <1>1, <2>3, SameShifts
    <3>2. QED
      BY <1>1, <2>1, <2>2, <2>3, <3>1, StreamShifted
  <2>4. ASSUME Takes(h), body'[h] \in {<< >>, body[h]}, body'[h] # << >> => ~Begins(h, 1)
        PROVE  StreamInv(h)'
    <3>1. Shifted(h, 1)
      BY <1>1, <2>4, TakeShifts
    <3>2. body'[h] = << >> \/ \A k \in DOMAIN rx[h] : Begins(h, k) => k > 1
      BY <2>2, <2>4
    <3>3. QED
      BY <1>1, <2>1, <2>4, <3>1, <3>2, StreamShifted
  <2>5. CASE OpenPath(h) \/ WriteInit(h) \/ RejectInit(h) \/ OpenTimesOut(h) \/ Close(h) \/ SkipBeforeInit(h)
    <3>1. pc \in [Handles -> {"closed", "initSend", "initRead", "idle", "writing", "reading"}]
      BY DEF TypeInv, HostInv, HostOK
    <3>2. pc'[h] \in {"closed", "initSend", "initRead"}
      BY <2>5, <3>1 DEF OpenPath, WriteInit, RejectInit, OpenTimesOut, OpenFails, Close, Release,
                        SkipBeforeInit, host, Goto
    <3>3. QED
      BY <3>2 DEF Open
  <2>6. CASE \/ RejectCall(h) \/ Cancel(h) \/ WriteFrame(h) \/ CallFails(h)
             \/ \E command \in Commands, n \in 0..MaxReqCont : Call(h, command, n)
    <3>1. rx' = rx /\ body'[h] \in {<< >>, body[h]}
      BY <2>6 DEF RejectCall, Cancel, WriteFrame, CallFails, Return, Call, wire, host
    <3>2. QED
      BY <2>3, <3>1
  <2>7. CASE SkipStray(h)
    <3>1. Takes(h) /\ body' = body /\ Head(rx[h]).cid # cid[h]
      BY <2>7 DEF SkipStray, Reading, Takes, host
    <3>2. ~Begins(h, 1)
      BY <1>1, <3>1, HeadOf DEF Begins, Takes
    <3>3. QED
      BY <2>4, <3>1, <3>2
  <2>8. CASE SkipKeepalive(h)
    <3>1. Takes(h) /\ body'[h] = << >>
      BY <2>8 DEF SkipKeepalive, First, Mine, Reading, Takes, host
    <3>2. QED
      BY <2>4, <3>1
  <2>9. CASE ErrorFrame(h) \/ UnexpectedCommand(h) \/ BadContinuation(h)
    <3>1. Takes(h) /\ body'[h] = << >>
      BY <2>9 DEF ErrorFrame, UnexpectedCommand, BadContinuation, First, Later, Mine, Reading, Return, Takes
    <3>2. QED
      BY <2>4, <3>1
  <2>10. CASE FirstFrame(h) \/ ContinuationFrame(h)
    <3>1. Takes(h)
      BY <2>10 DEF FirstFrame, ContinuationFrame, First, Later, Mine, Reading, Collect, Full, Return, Takes
    <3>2. Collects(h) \/ body'[h] = << >>
      BY <2>10, ReplyShapes
    <3>3. QED
      BY <1>1, <2>1, <2>4, <3>1, <3>2, StreamCollected
  <2>11. QED
    BY <1>1, <1>3, <2>5, <2>6, <2>7, <2>8, <2>9, <2>10 DEF Proceed, Invoke
<1>4. QED
  BY <1>2, <1>3

LEMMA StreamOtherHandle ==
  ASSUME TypeInv, WireOK', NEW h \in Handles, HostStep(h), NEW g \in Handles, g # h, StreamInv(g)
  PROVE  StreamInv(g)'
<1>1. (Proceed(h) \/ Invoke(h)) /\ dev' = dev /\ DevOld(g) /\ WireOK
  BY DEF HostStep, device, DevOld, TypeInv
<1>2. Same(g) /\ rx'[g] = rx[g] /\ Shifted(g, 0)
  BY <1>1, OthersSame, OtherQueues, SameShifts
<1>3. \A k \in DOMAIN rx[g] : k > 0
  BY <1>1, PlacesInQueue
<1>4. QED
  BY <1>1, <1>2, <1>3, StreamShifted DEF Same

LEMMA StreamDeviceStep ==
  ASSUME TypeInv, WireOK', ChannelInv, Room, NEW h \in Handles, Open(h), h \in fds,
         DeviceNext, UNCHANGED host, StreamInv(h)
  PROVE  StreamInv(h)'
<1>1. /\ cid[h] \in Nat \ {0} /\ WireOK
      /\ dev.next \in Nat /\ dev.cmd \in Commands \cup {"none"}
  BY OwnChannel DEF TypeInv, HostInv, HostOK, DeviceInv, DeviceOK, Broadcast
<1>2. cid'[h] = cid[h] /\ body'[h] = body[h]
  BY DEF host
<1>3. \A k \in DOMAIN rx[h] : k > 0
  BY <1>1, PlacesInQueue
<1>4. ASSUME rx' = rx,
             Mode(h, {"reply"})' /\ dev'.next # 0 =>
               Mode(h, {"reply"}) /\ dev.next # 0 /\ dev'.from = dev.from
      PROVE  StreamInv(h)'
  <2>1. QueueStream(h)' /\ BodyStream(h)'
    BY <1>2, <1>4 DEF StreamInv, QueueStream, BodyStream, PartAt, Continues, Begins, IsPart
  <2>2. DeviceStream(h)'
    BY <1>2, <1>4 DEF StreamInv, DeviceStream, PartAt, Begins, IsPart
  <2>3. QED
    BY <2>1, <2>2 DEF StreamInv
<1>5. ASSUME NEW f \in Frame, Deliver(f), f.cid # cid[h] \/ f.cmd \notin Commands \cup {"CONT"},
             Mode(h, {"reply"})' /\ dev'.next # 0 =>
               Mode(h, {"reply"}) /\ dev.next # 0 /\ dev'.from = dev.from
      PROVE  StreamInv(h)'
  <2>1. Grown(h, f)
    BY <1>1, <1>5, DeliverGrows
  <2>2. QueueStream(h)' /\ BodyStream(h)'
    BY <1>1, <1>2, <1>5, <2>1, StreamGrown
  <2>3. DeviceStream(h)'
    BY <1>1, <1>2, <1>5, <2>1, SendingKept DEF IsPart
  <2>4. QED
    BY <2>2, <2>3 DEF StreamInv
<1>6. CASE Elsewhere(cid[h])
  <2>1. dev' = dev \/ (dev.cid # cid[h] /\ dev'.cid # cid[h])
    BY <1>6 DEF Elsewhere
  <2>2. Mode(h, {"reply"})' /\ dev'.next # 0 =>
          Mode(h, {"reply"}) /\ dev.next # 0 /\ dev'.from = dev.from
    BY <1>2, <2>1 DEF Mode
  <2>3. QED
    BY <1>4, <1>5, <1>6, <2>2 DEF Elsewhere
<1>7. CASE TakesFrom(cid[h])
  <2>1. PICK f \in Frame :
          /\ f.cid = cid[h]
          /\ BeginRequest(f) \/ ContinueRequest(f) \/ RefuseRequest(f) \/ CancelRequest(f)
    BY <1>7 DEF TakesFrom
  <2>2. CASE BeginRequest(f)
    <3>1. rx' = rx /\ dev'.next = 0
      BY <2>2 DEF BeginRequest, Transaction
    <3>2. QED
      BY <1>4, <3>1
  <2>3. CASE ContinueRequest(f)
    <3>1. rx' = rx /\ dev'.mode # "reply"
      BY <2>3 DEF ContinueRequest, InSequenceOf, TypeInv, DeviceInv, DeviceOK
    <3>2. QED
      BY <1>4, <3>1 DEF Mode
  <2>4. CASE RefuseRequest(f)
    <3>1. /\ Delivered(f.cid, "ERROR", f.from, 0, "failure")
          /\ Deliver(Report(f.cid, "ERROR", f.from, 0, "failure"))
          /\ dev' \in {Idle, dev}
      BY <2>4, FrameFields, ErrorDelivered DEF RefuseRequest
    <3>2. Mode(h, {"reply"})' /\ dev'.next # 0 =>
            Mode(h, {"reply"}) /\ dev.next # 0 /\ dev'.from = dev.from
      BY <1>2, <3>1 DEF Mode, Idle
    <3>3. QED
      BY <1>5, <3>1, <3>2, CommandsApart DEF Delivered
  <2>5. CASE CancelRequest(f)
    <3>1. rx' = rx /\ dev'.next = 0
      BY <2>5 DEF CancelRequest, Replying, TypeInv, DeviceInv, DeviceOK
    <3>2. QED
      BY <1>4, <3>1
  <2>6. QED
    BY <2>1, <2>2, <2>3, <2>4, <2>5
<1>8. CASE WorksOn(cid[h])
  <2>1. dev.cid = cid[h] /\ Work
    BY <1>8 DEF WorksOn
  <2>2. CASE Keepalive
    <3>1. /\ Delivered(dev.cid, "KEEPALIVE", dev.from, 0, "none")
          /\ Deliver(Report(dev.cid, "KEEPALIVE", dev.from, 0, "none"))
          /\ dev'.mode = "busy"
      BY <2>2, WorkDelivered DEF Keepalive, TypeInv, DeviceInv, DeviceOK
    <3>2. QED
      BY <1>5, <3>1, CommandsApart DEF Delivered, Mode
  <2>3. CASE ReceiveTimesOut \/ AbortRequest
    <3>1. /\ Delivered(dev.cid, "ERROR", dev.from, 0, "failure")
          /\ Deliver(Abort) /\ dev' = Idle
      BY <2>3, WorkDelivered DEF ReceiveTimesOut, AbortRequest
    <3>2. QED
      BY <1>5, <3>1, CommandsApart DEF Delivered, Mode, Abort, Idle
  <2>4. CASE \/ \E n \in 0..MaxCont, s \in {"none", "success"} : Perform(n, s)
             \/ \E s \in {"failure", "missing"} : Decline(s)
    <3>1. rx' = rx /\ dev'.next = 0
      BY <2>4 DEF Perform, Decline, Replying, wire, TypeInv, DeviceInv, DeviceOK
    <3>2. QED
      BY <1>4, <3>1
  <2>5. CASE Emit
    <3>1. /\ dev.mode = "reply" /\ Deliver(ReplyPart) /\ ReplyPart \in Frame
          /\ ReplyPart.cid = cid[h] /\ ReplyPart.from = dev.from
          /\ dev.next = 0 => ReplyPart.cmd = dev.cmd
          /\ dev' = IF dev.next = dev.n THEN Idle ELSE [dev EXCEPT !.next = @ + 1]
      BY <2>1, <2>5, WorkDelivered DEF Emit
    <3>2. Mode(h, {"reply"}) /\ Grown(h, ReplyPart)
      BY <1>1, <2>1, <3>1, DeliverGrows DEF Mode
    <3>3. dev'.mode = "reply" => dev'.from = dev.from
      BY <3>1 DEF Idle, TypeInv, DeviceInv, DeviceOK
    <3>4. CASE dev.next = 0
      <4>1. ReplyPart.cmd # "CONT"
        <5>1. dev.cmd \in Commands
          BY <3>1 DEF TypeInv, DeviceInv
        <5>2. QED
          BY <3>1, <3>4, <5>1, CommandsApart
      <4>2. QueueStream(h)' /\ BodyStream(h)'
        BY <1>1, <1>2, <3>1, <3>2, <4>1, StreamGrown
      <4>3. DeviceStream(h)'
        <5>1. CASE Mode(h, {"reply"})'
          <6>1. dev'.from = dev.from
            BY <3>3, <5>1 DEF Mode
          <6>2. Len(rx[h]) + 1 \in DOMAIN rx'[h] /\ rx'[h][Len(rx[h]) + 1] = ReplyPart
            BY <1>1, <3>1, DeliverGrows
          <6>3. Len(rx[h]) + 1 \in Nat
            BY <1>1, PlacesInQueue
          <6>4. QED
            BY <1>1, <1>2, <3>1, <3>2, <4>1, <6>1, <6>2, <6>3, SendingBegun
        <5>2. CASE ~Mode(h, {"reply"})'
          BY <5>2 DEF DeviceStream
        <5>3. QED
          BY <5>1, <5>2
      <4>4. QED
        BY <4>2, <4>3 DEF StreamInv
    <3>5. CASE dev.next # 0
      <4>1. QueueStream(h)' /\ BodyStream(h)'
        BY <1>1, <1>2, <3>1, <3>2, <3>5, StreamGrown
      <4>2. DeviceStream(h)'
        BY <1>1, <1>2, <3>1, <3>2, <3>3, <3>5, SendingKept DEF Mode
      <4>3. QED
        BY <4>1, <4>2 DEF StreamInv
    <3>6. QED
      BY <3>4, <3>5
  <2>6. QED
    BY <2>1, <2>2, <2>3, <2>4, <2>5 DEF Work
<1>9. QED
  BY <1>1, <1>6, <1>7, <1>8, DeviceOnChannel

OneOf(h) == Answered(h) => \A f, g \in Frames(h) : f.from = g.from

LEMMA OneOwnAnswer ==
  ASSUME TypeInv, OutcomeInv, NEW h \in Handles, Proceed(h) \/ Invoke(h), OneOf(h),
         Open(h) => StreamInv(h)
  PROVE  OneOf(h)'
<1>. outcome \in [Handles -> [res : Results, frames : Seq(Frame)]]
  BY DEF TypeInv, HostInv, HostOK
<1>1. CASE ~Answered(h)'
  BY <1>1 DEF OneOf
<1>2. CASE outcome'[h] = outcome[h]
  <2>1. Frames(h)' = Frames(h) /\ Answered(h)' = Answered(h)
    BY <1>2 DEF Answered, Frames
  <2>2. QED
    BY <2>1 DEF OneOf
<1>3. CASE ErrorFrame(h)
  <2>1. outcome'[h].frames = <<Head(rx[h])>>
    BY <1>3 DEF ErrorFrame, Return
  <2>2. \A i \in DOMAIN outcome'[h].frames : outcome'[h].frames[i] = Head(rx[h])
    BY <2>1
  <2>3. QED
    BY <2>2 DEF OneOf, Frames
<1>4. CASE Complete(h)
  <2>. DEFINE reply == Append(body[h], Head(rx[h]))
  <2>1. (FirstFrame(h) \/ ContinuationFrame(h)) /\ outcome'[h].frames = reply
    BY <1>4 DEF Complete
  <2>2. StreamInv(h)
    BY <2>1 DEF FirstFrame, ContinuationFrame, First, Later, Mine, Reading, Open
  <2>3. \A i \in DOMAIN reply : reply[i].from = reply[1].from
    BY <2>1, <2>2, StreamCollecting
  <2>4. QED
    BY <2>1, <2>3 DEF OneOf, Frames
<1>5. QED
  BY <1>1, <1>2, <1>3, <1>4, AnswerSteps

LEMMA LosslessHost ==
  ASSUME TypeInv, ChannelInv, BodyInv, UnusedInv, OutcomeInv, LosslessInv,
         NEW h \in Handles, HostStep(h)
  PROVE  LosslessInv'
<1>1. Proceed(h) \/ Invoke(h)
  BY DEF HostStep
<1>2. WireOK'
  BY <1>1, HostWire
<1>3. ASSUME NEW g \in Handles
      PROVE  Listening(g)' /\ (Open(g)' => StreamInv(g)') /\ OneOf(g)'
  <2>1. Listening(g) /\ (Open(g) => StreamInv(g)) /\ OneOf(g)
    BY DEF LosslessInv, OneRequestPerAnswer, OneOf
  <2>2. Listening(g)'
    BY <2>1, ListeningHost
  <2>3. CASE g = h
    BY <1>1, <1>2, <2>1, <2>2, <2>3, StreamOwnStep, OneOwnAnswer
  <2>4. CASE g # h
    <3>1. Same(g)
      BY <1>1, <2>4, OthersSame
    <3>2. Open(g)' => StreamInv(g)'
      BY <1>2, <2>1, <2>4, <3>1, StreamOtherHandle DEF Same, Open
    <3>3. OneOf(g)'
      BY <2>1, <3>1 DEF Same, OneOf, Answered, Frames
    <3>4. QED
      BY <2>2, <3>2, <3>3
  <2>5. QED
    BY <2>3, <2>4
<1>4. QED
  BY <1>3 DEF LosslessInv, OneRequestPerAnswer, OneOf

LEMMA FilesKept ==
  ASSUME DeviceNext
  PROVE  fds' = fds
<1>1. CASE TakeReport
  BY <1>1 DEF TakeReport, AllocateChannel, RefuseInit, BeginRequest, ContinueRequest,
              RefuseRequest, CancelRequest, IgnoreReport
<1>2. CASE Work
  BY <1>2 DEF Work, Keepalive, ReceiveTimesOut, AbortRequest, Perform, Decline, Emit, wire
<1>3. QED
  BY <1>1, <1>2 DEF DeviceNext

LEMMA LosslessDevice ==
  ASSUME TypeInv, ChannelInv, Room, LosslessInv, DeviceStep
  PROVE  LosslessInv'
<1>1. DeviceNext /\ UNCHANGED host /\ WireOK'
  BY DeviceStepType DEF DeviceStep
<1>2. fds' = fds
  BY <1>1, FilesKept
<1>3. ASSUME NEW g \in Handles
      PROVE  Listening(g)' /\ (Open(g)' => StreamInv(g)')
  <2>1. Listening(g) /\ (Open(g) => StreamInv(g)) /\ (Open(g) => g \in fds)
    BY DEF LosslessInv, Listening, Open
  <2>2. Listening(g)' /\ (Open(g)' => Open(g))
    BY <1>1, <1>2, <2>1 DEF host, Listening, Open
  <2>3. QED
    BY <1>1, <2>1, <2>2, StreamDeviceStep
<1>4. OneRequestPerAnswer'
  BY <1>1 DEF host, LosslessInv, OneRequestPerAnswer, Answered, Frames
<1>5. QED
  BY <1>3, <1>4 DEF LosslessInv

LEMMA LosslessInvariant == Spec /\ []Room => []LosslessInv
<1>1. Init => LosslessInv
  BY DEF Init, HostInit, LosslessInv, Listening, Open, OneRequestPerAnswer, Answered, Answers, Nothing
<1>2. TypeInv /\ ChannelInv /\ CleanInv /\ Room /\ LosslessInv /\ [Next]_vars => LosslessInv'
  <2>. SUFFICES ASSUME TypeInv, ChannelInv, CleanInv, Room, LosslessInv, [Next]_vars
                PROVE  LosslessInv'
    OBVIOUS
  <2>. BodyInv /\ UnusedInv /\ OutcomeInv
    BY DEF CleanInv
  <2>1. CASE UNCHANGED vars
    BY <2>1 DEF vars, wire, host, device, LosslessInv, Listening, Open, OneRequestPerAnswer,
                Answered, Frames, StreamInv, QueueStream, BodyStream, DeviceStream,
                PartAt, Continues, Begins, Mode
  <2>2. CASE \E h \in Handles : HostStep(h)
    BY <2>2, LosslessHost
  <2>3. CASE DeviceStep
    BY <2>3, LosslessDevice
  <2>4. QED
    BY <2>1, <2>2, <2>3 DEF Next
<1>3. QED
  BY <1>1, <1>2, TypeInvariant, ChannelInvariant, CleanInvariant, PTL DEF Spec

\* As long as the queues have room for what the device sends, a reply is never
\* put together from the reports of two requests, not even by a Transport
\* that is a reply behind after a timeout.
THEOREM OneRequestPerReply == Spec /\ []Room => []OneRequestPerAnswer
<1>1. LosslessInv => OneRequestPerAnswer
  BY DEF LosslessInv
<1>2. QED
  BY <1>1, LosslessInvariant, PTL

(* No timeouts: nothing is out of step. *)

LEMMA RankOf ==
  ASSUME NEW f \in Frame
  PROVE  /\ Rank(f) \in Nat /\ Rank(f) >= 1
         /\ f.cmd = "CONT" => Rank(f) = f.arg + 2
         /\ f.cmd # "CONT" => Rank(f) = 1
BY FrameFields DEF Rank

\* The head of the queue is what recv_message wants.
LEMMA HeadInOrder ==
  ASSUME TypeInv, ChannelInv, NEW h \in Handles, Waiting(h), SameCommand(h), NoGap(h), Mine(h)
  PROVE  /\ First(h) => Head(rx[h]).cmd \in {"KEEPALIVE", "ERROR", req[h].cmd}
         /\ Later(h) => InSequence(h, Head(rx[h]))
<1>. DEFINE f == Head(rx[h])
<1>1. /\ 1 \in DOMAIN rx[h] /\ f = rx[h][1] /\ f \in Frame /\ f.cid = cid[h]
  BY HeadReport DEF Next1
<1>2. f.cmd \in Commands \cup {"CONT", "KEEPALIVE", "ERROR"}
  BY <1>1 DEF Waiting, QueueInv
<1>3. f.cmd \in Commands => f.cmd = req[h].cmd
  BY <1>1 DEF SameCommand
<1>4. Rank(f) \in Nat /\ (f.cmd = "CONT" => Rank(f) = f.arg + 2) /\ (f.cmd # "CONT" => Rank(f) = 1)
      /\ f.arg \in Nat
  BY <1>1, RankOf, FrameFields
<1>5. body[h] \in Seq(Frame)
  BY DEF TypeInv, HostInv, HostOK
<1>6. Len(body[h]) \in Nat /\ (body[h] = << >> <=> Len(body[h]) = 0)
  BY <1>5, LenProperties, EmptySeq
<1>7. IsPart(f) => Rank(f) =< Len(body[h]) + 1
  <2>1. \A j \in DOMAIN rx[h] : ~(j < 1)
    BY PlacesInQueue DEF TypeInv
  <2>2. IsPart(f) => PartAt(h, 1)
    BY <1>1 DEF PartAt
  <2>3. IsPart(f) => ~(Rank(f) > Len(body[h]) + 1)
    BY <1>1, <2>1, <2>2 DEF NoGap
  <2>4. QED
    BY <1>4, <1>6, <2>3
<1>8. ASSUME First(h)
      PROVE  f.cmd \in {"KEEPALIVE", "ERROR", req[h].cmd}
  <2>1. Len(body[h]) = 0
    BY <1>6, <1>8 DEF First
  <2>2. f.cmd # "CONT"
    BY <1>4, <1>7, <2>1 DEF IsPart
  <2>3. QED
    BY <1>2, <1>3, <2>2
<1>9. ASSUME Later(h)
      PROVE  InSequence(h, f)
  <2>1. body[h] # << >> /\ Len(body[h]) # 0
    BY <1>6, <1>9 DEF Later
  <2>2. IsPart(f) /\ Len(body[h]) < Rank(f)
    BY <1>1, <2>1 DEF Waiting, CollectedInv
  <2>3. Rank(f) = Len(body[h]) + 1
    BY <1>4, <1>6, <1>7, <2>2
  <2>4. f.cmd = "CONT" /\ f.arg = Len(body[h]) - 1
    BY <1>4, <1>6, <2>1, <2>3
  <2>5. QED
    BY <2>4 DEF InSequence, NextSeq
<1>10. QED
  BY <1>8, <1>9

\* A handle in the middle of a call.
Answerable(h) == Called(h) /\ req[h].next # 0

LEMMA NothingGoesWrong ==
  ASSUME ~Faults, TypeInv, ChannelInv, OutcomeInv, NEW h \in Handles, InStep(h), Orderly(h)
  PROVE  /\ ~GoesWrong(h)
         /\ First(h) => Head(rx[h]).cmd \in {"KEEPALIVE", "ERROR", req[h].cmd}
         /\ Later(h) => InSequence(h, Head(rx[h]))
<1>1. ASSUME Mine(h)
      PROVE  /\ First(h) => Head(rx[h]).cmd \in {"KEEPALIVE", "ERROR", req[h].cmd}
             /\ Later(h) => InSequence(h, Head(rx[h]))
  <2>1. pc[h] = "reading" /\ req[h].next # 0 /\ Called(h)
    BY <1>1 DEF Mine, Reading, OutcomeInv, Called
  <2>2. Waiting(h) /\ SameCommand(h) /\ NoGap(h)
    BY <2>1 DEF InStep, Orderly
  <2>3. QED
    BY <1>1, <2>2, HeadInOrder
<1>2. QED
  BY <1>1 DEF GoesWrong, UnexpectedCommand, BadContinuation, CallFails, First, Later

LEMMA SameCommandKept ==
  ASSUME NEW h \in Handles, NEW d, SameCommand(h), FromOld(h, d), OutOld(h), DevOld(h),
         cid'[h] = cid[h], req'[h].cmd = req[h].cmd
  PROVE  SameCommand(h)'
BY DEF SameCommand, FromOld, OutOld, DevOld

\* The head of the queue is taken, and it was not a part, or a part already had.
LEMMA NoGapShifted ==
  ASSUME WireOK, WireOK', NEW h \in Handles, NEW d \in {0, 1}, Shifted(h, d), cid'[h] = cid[h],
         DevOld(h), NoGap(h), dev.next \in Nat,
         NEW n \in Nat, n = Len(body'[h]), Len(body[h]) \in Nat, n >= Len(body[h]),
         \A k \in DOMAIN rx[h] : PartAt(h, k) /\ Rank(rx[h][k]) > n => k > d
  PROVE  NoGap(h)'
<1>1. ASSUME NEW k \in DOMAIN rx[h], NEW r, Ranked(h, k, r), r > n
      PROVE  k - d \in DOMAIN rx'[h] /\ Ranked(h, k - d, r)' /\ k \in Nat /\ k > d
  <2>1. k > d /\ k \in Nat
    BY <1>1, ShiftedPlaces DEF Ranked
  <2>2. k - d \in DOMAIN rx'[h] /\ rx'[h][k - d] = rx[h][k]
    BY <2>1 DEF Shifted
  <2>3. Ranked(h, k - d, r)'
    BY <1>1, <2>2 DEF Ranked, PartAt, IsPart, Rank
  <2>4. QED
    BY <2>1, <2>2, <2>3
<1>2. ASSUME NEW i \in DOMAIN rx'[h], PartAt(h, i)', Rank(rx'[h][i]) > n + 1
      PROVE  \E j \in DOMAIN rx'[h] : j < i /\ Ranked(h, j, Rank(rx[h][i]) - 1)'
  <2>1. /\ i \in Nat /\ i + d \in DOMAIN rx[h] /\ rx'[h][i] = rx[h][i + d] /\ PartAt(h, i + d)
    BY <1>2, ShiftedPlaces
  <2>2. Rank(rx[h][i + d]) \in Nat /\ Rank(rx[h][i + d]) > Len(body[h]) + 1
    BY <1>2, <2>1, PlacesInQueue, RankOf
  <2>3. PICK j \in DOMAIN rx[h] : j < i + d /\ Ranked(h, j, Rank(rx[h][i + d]) - 1)
    BY <2>1, <2>2 DEF NoGap
  <2>4. Rank(rx[h][i + d]) - 1 > n
    BY <1>2, <2>1, <2>2
  <2>5. j - d \in DOMAIN rx'[h] /\ Ranked(h, j - d, Rank(rx[h][i]) - 1)' /\ j \in Nat /\ j > d
    BY <1>1, <2>1, <2>3, <2>4 DEF Ranked
  <2>6. j - d < i
    BY <2>1, <2>3, <2>5
  <2>7. QED
    BY <2>5, <2>6
<1>3. ASSUME Mode(h, {"reply"})', dev'.next > n
      PROVE  \E i \in DOMAIN rx'[h] : Ranked(h, i, dev.next)'
  <2>1. dev' = dev /\ Mode(h, {"reply"}) /\ dev.next > Len(body[h])
    BY <1>3 DEF DevOld, Mode
  <2>2. PICK i \in DOMAIN rx[h] : Ranked(h, i, dev.next)
    BY <2>1 DEF NoGap
  <2>3. QED
    BY <1>1, <1>3, <2>1, <2>2 DEF Ranked
<1>4. QED
  BY <1>2, <1>3 DEF NoGap

\* A report is queued; nothing is missing before it if it is the next part.
LEMMA NoGapGrown ==
  ASSUME WireOK, WireOK', NEW h \in Handles, NEW f \in Frame, Grown(h, f), cid'[h] = cid[h],
         body'[h] = body[h], NoGap(h),
         \/ f.cid # cid[h]
         \/ ~IsPart(f)
         \/ Mode(h, {"reply"}) /\ Rank(f) = dev.next + 1,
         dev.next \in Nat, Len(body[h]) \in Nat,
         Mode(h, {"reply"})' /\ dev'.next > Len(body[h]) =>
           \/ Mode(h, {"reply"}) /\ dev'.next = dev.next
           \/ \E i \in DOMAIN rx'[h] :
                rx'[h][i].cid = cid[h] /\ IsPart(rx'[h][i]) /\ Rank(rx'[h][i]) = dev'.next
  PROVE  NoGap(h)'
<1>1. /\ \A i \in DOMAIN rx'[h] :
           \/ i \in DOMAIN rx[h] /\ rx'[h][i] = rx[h][i]
           \/ i = Len(rx[h]) + 1 /\ rx'[h][i] = f
      /\ \A k \in DOMAIN rx[h] : k \in DOMAIN rx'[h] /\ rx'[h][k] = rx[h][k]
  BY DEF Grown, Queued
<1>2. /\ Len(rx[h]) \in Nat
      /\ \A k \in DOMAIN rx[h] : k \in Nat /\ k =< Len(rx[h])
  BY PlacesInQueue
<1>3. ASSUME NEW k \in DOMAIN rx[h], NEW r, Ranked(h, k, r)
      PROVE  k \in DOMAIN rx'[h] /\ Ranked(h, k, r)'
  <2>1. k \in DOMAIN rx'[h] /\ rx'[h][k] = rx[h][k]
    BY <1>1
  <2>2. QED
    BY <1>3, <2>1 DEF Ranked, PartAt, IsPart, Rank
<1>4. ASSUME NEW i \in DOMAIN rx'[h], PartAt(h, i)', NEW r, r = Rank(rx'[h][i]), r > Len(body[h]) + 1
      PROVE  \E j \in DOMAIN rx'[h] : j < i /\ Ranked(h, j, r - 1)'
  <2>1. CASE i \in DOMAIN rx[h] /\ rx'[h][i] = rx[h][i]
    <3>1. PartAt(h, i)
      BY <1>4, <2>1 DEF PartAt, IsPart
    <3>2. PICK j \in DOMAIN rx[h] : j < i /\ Ranked(h, j, r - 1)
      BY <1>4, <2>1, <3>1 DEF NoGap
    <3>3. QED
      BY <1>3, <3>2
  <2>2. CASE i = Len(rx[h]) + 1 /\ rx'[h][i] = f
    <3>1. Mode(h, {"reply"}) /\ r = dev.next + 1
      BY <1>4, <2>2 DEF PartAt
    <3>2. PICK j \in DOMAIN rx[h] : Ranked(h, j, dev.next)
      BY <1>4, <3>1 DEF NoGap
    <3>3. r - 1 = dev.next /\ j < i
      BY <1>2, <2>2, <3>1
    <3>4. QED
      BY <1>3, <3>2, <3>3
  <2>3. QED
    BY <1>1, <2>1, <2>2
<1>5. ASSUME Mode(h, {"reply"})', dev'.next > Len(body[h])
      PROVE  \E i \in DOMAIN rx'[h] : Ranked(h, i, dev.next)'
  <2>1. CASE Mode(h, {"reply"}) /\ dev'.next = dev.next
    <3>1. PICK j \in DOMAIN rx[h] : Ranked(h, j, dev.next)
      BY <1>5, <2>1 DEF NoGap
    <3>2. QED
      BY <1>3, <2>1, <3>1 DEF Ranked
  <2>2. CASE \E i \in DOMAIN rx'[h] :
               rx'[h][i].cid = cid[h] /\ IsPart(rx'[h][i]) /\ Rank(rx'[h][i]) = dev'.next
    BY <2>2 DEF Ranked, PartAt, IsPart, Rank
  <2>3. QED
    BY <1>5, <2>1, <2>2
<1>6. ASSUME NEW i \in DOMAIN rx'[h], PartAt(h, i)', Rank(rx'[h][i]) > Len(body'[h]) + 1
      PROVE  \E j \in DOMAIN rx'[h] : j < i /\ Ranked(h, j, Rank(rx[h][i]) - 1)'
  BY <1>4, <1>6 DEF Ranked
<1>7. QED
  BY <1>5, <1>6 DEF NoGap

\* The device sends the next part of its reply.
LEMMA OrderedEmit ==
  ASSUME TypeInv, WireOK', Room, NEW h \in Handles, h \in fds, dev.cid = cid[h], cid[h] # Broadcast,
         SameCommand(h), NoGap(h), cid'[h] = cid[h], body'[h] = body[h], req'[h] = req[h], Emit
  PROVE  SameCommand(h)' /\ NoGap(h)'
<1>. DEFINE f == ReplyPart
            n == Len(rx[h]) + 1
<1>1. /\ dev.mode = "reply" /\ Deliver(f) /\ out' = out
      /\ dev' = IF dev.next = dev.n THEN Idle ELSE [dev EXCEPT !.next = @ + 1]
  BY DEF Emit
<1>2. /\ dev.next \in Nat /\ dev.cmd \in Commands /\ WireOK
      /\ dev \in [mode : Modes, cid : Nat, from : Origin \cup {NoOrigin},
                  cmd : Commands \cup {"none"}, n : Nat, next : Nat, st : Status, ka : Nat]
  BY <1>1 DEF TypeInv, DeviceInv, DeviceOK
<1>3. /\ f \in Frame /\ f.cid = cid[h]
      /\ dev.next = 0 => f.cmd = dev.cmd
      /\ dev.next # 0 => f.cmd = "CONT" /\ f.arg = dev.next - 1
  BY <1>1, WorkDelivered
<1>4. IsPart(f) /\ Rank(f) = dev.next + 1 /\ (f.cmd \in Commands => f.cmd = req[h].cmd)
  <2>1. dev.cmd = req[h].cmd
    BY DEF SameCommand
  <2>2. CASE dev.next = 0
    BY <1>2, <1>3, <2>1, <2>2, CommandsApart DEF IsPart, Rank
  <2>3. CASE dev.next # 0
    BY <1>2, <1>3, <2>3, CommandsApart DEF IsPart, Rank
  <2>4. QED
    BY <2>2, <2>3
<1>5. Grown(h, f) /\ n \in DOMAIN rx'[h] /\ rx'[h][n] = f
  BY <1>1, <1>2, <1>3, DeliverGrows
<1>6. dev'.cid = cid[h] => dev'.cmd = dev.cmd /\ dev'.next = dev.next + 1
  BY <1>1, <1>2 DEF Idle
<1>7. SameCommand(h)'
  <2>1. \A i \in DOMAIN rx'[h] : rx'[h][i].cid = cid[h] /\ rx'[h][i].cmd \in Commands =>
          rx'[h][i].cmd = req[h].cmd
    BY <1>4, <1>5 DEF Grown, Queued, SameCommand
  <2>2. QED
    BY <1>1, <1>6, <2>1 DEF SameCommand
<1>8. NoGap(h)'
  <2>1. Len(body[h]) \in Nat
    BY LenProperties DEF TypeInv, HostInv, HostOK
  <2>2. Mode(h, {"reply"})' =>
           \E i \in DOMAIN rx'[h] :
             rx'[h][i].cid = cid[h] /\ IsPart(rx'[h][i]) /\ Rank(rx'[h][i]) = dev'.next
    BY <1>3, <1>4, <1>5, <1>6 DEF Mode
  <2>3. QED
    BY <1>1, <1>2, <1>3, <1>4, <1>5, <2>1, <2>2, NoGapGrown DEF Mode
<1>9. QED
  BY <1>7, <1>8

LEMMA OrderlyDevice ==
  ASSUME TypeInv, WireOK', ChannelInv, Room, NEW h \in Handles, Open(h), h \in fds,
         DeviceNext, UNCHANGED host, SameCommand(h), NoGap(h)
  PROVE  SameCommand(h)' /\ NoGap(h)'
<1>1. /\ cid[h] \in Nat \ {0} /\ cid[h] # Broadcast /\ WireOK
      /\ dev \in [mode : Modes, cid : Nat, from : Origin \cup {NoOrigin},
                  cmd : Commands \cup {"none"}, n : Nat, next : Nat, st : Status, ka : Nat]
  BY OwnChannel DEF TypeInv, HostInv, HostOK, DeviceInv, DeviceOK, Broadcast
<1>2. cid'[h] = cid[h] /\ body'[h] = body[h] /\ req'[h] = req[h]
  BY DEF host
<1>3. Len(body[h]) \in Nat /\ dev.next \in Nat
  BY <1>1, LenProperties DEF TypeInv, HostInv, HostOK
<1>4. ASSUME rx' = rx, out' = out \/ out' = << >>,
             dev'.cid = cid[h] => dev'.cmd = req[h].cmd,
             Mode(h, {"reply"})' /\ dev'.next > 0 => Mode(h, {"reply"}) /\ dev'.next = dev.next
      PROVE  SameCommand(h)' /\ NoGap(h)'
  <2>1. SameCommand(h)'
    BY <1>2, <1>4 DEF SameCommand
  <2>2. \A i \in DOMAIN rx'[h] : \A r :
          (PartAt(h, i)' <=> PartAt(h, i)) /\ (Ranked(h, i, r)' <=> Ranked(h, i, r))
    BY <1>2, <1>4 DEF Ranked, PartAt
  <2>3. ASSUME Mode(h, {"reply"})', dev'.next > Len(body'[h])
        PROVE  \E i \in DOMAIN rx'[h] : Ranked(h, i, dev.next)'
    <3>1. dev.next > Len(body[h]) /\ Mode(h, {"reply"}) /\ dev'.next = dev.next
      <4>1. dev'.next \in Nat
        BY DeviceStepType DEF DeviceInv, DeviceOK
      <4>2. QED
        BY <1>2, <1>3, <1>4, <2>3, <4>1
    <3>2. PICK i \in DOMAIN rx[h] : Ranked(h, i, dev.next)
      BY <3>1 DEF NoGap
    <3>3. QED
      BY <1>4, <2>2, <3>1, <3>2 DEF Ranked
  <2>4. \A i \in DOMAIN rx'[h] : PartAt(h, i)' /\ Rank(rx'[h][i]) > Len(body'[h]) + 1 =>
          \E j \in DOMAIN rx'[h] : j < i /\ Ranked(h, j, Rank(rx[h][i]) - 1)'
    BY <1>2, <1>4, <2>2 DEF NoGap, Ranked
  <2>5. NoGap(h)'
    BY <2>3, <2>4 DEF NoGap
  <2>6. QED
    BY <2>1, <2>5
<1>5. ASSUME NEW f \in Frame, Deliver(f), f.cid # cid[h] \/ f.cmd \notin Commands \cup {"CONT"},
             out' = out \/ out' = << >>,
             dev'.cid = cid[h] => dev'.cmd = req[h].cmd,
             Mode(h, {"reply"})' => Mode(h, {"reply"}) /\ dev'.next = dev.next
      PROVE  SameCommand(h)' /\ NoGap(h)'
  <2>1. Grown(h, f)
    BY <1>1, <1>5, DeliverGrows
  <2>2. SameCommand(h)'
    <3>1. \A i \in DOMAIN rx'[h] : rx'[h][i].cid = cid[h] /\ rx'[h][i].cmd \in Commands =>
            rx'[h][i].cmd = req[h].cmd
      BY <1>5, <2>1 DEF Grown, Queued, SameCommand
    <3>2. QED
      BY <1>2, <1>5, <3>1 DEF SameCommand
  <2>3. NoGap(h)'
    BY <1>1, <1>2, <1>3, <1>5, <2>1, NoGapGrown DEF IsPart
  <2>4. QED
    BY <2>2, <2>3
<1>6. CASE Elsewhere(cid[h])
  <2>1. /\ out' = out \/ out' = << >>
        /\ dev' = dev \/ (dev.cid # cid[h] /\ dev'.cid # cid[h])
    BY <1>6 DEF Elsewhere
  <2>2. /\ dev'.cid = cid[h] => dev'.cmd = req[h].cmd
        /\ Mode(h, {"reply"})' => Mode(h, {"reply"}) /\ dev'.next = dev.next
    BY <1>2, <2>1 DEF Mode, SameCommand
  <2>3. QED
    BY <1>4, <1>5, <1>6, <2>1, <2>2 DEF Elsewhere
<1>7. CASE TakesFrom(cid[h])
  <2>1. PICK f \in Frame :
          /\ f.cid = cid[h]
          /\ BeginRequest(f) \/ ContinueRequest(f) \/ RefuseRequest(f) \/ CancelRequest(f)
    BY <1>7 DEF TakesFrom
  <2>2. CASE BeginRequest(f)
    <3>1. /\ rx' = rx /\ out' = << >> /\ dev'.next = 0 /\ dev'.cmd = f.cmd
          /\ out = <<f>> /\ f.cmd \in Commands
      BY <2>2 DEF BeginRequest, Transaction, Taking
    <3>2. f.cmd = req[h].cmd
      BY <2>1, <3>1 DEF SameCommand
    <3>3. QED
      BY <1>4, <3>1, <3>2
  <2>3. CASE ContinueRequest(f)
    <3>1. rx' = rx /\ out' = << >> /\ dev'.mode # "reply" /\ dev'.cmd = dev.cmd /\ dev.cid = cid[h]
      BY <1>1, <2>1, <2>3 DEF ContinueRequest, InSequenceOf, Taking
    <3>2. QED
      BY <1>4, <3>1 DEF Mode, SameCommand
  <2>4. CASE RefuseRequest(f)
    <3>1. /\ Delivered(f.cid, "ERROR", f.from, 0, "failure") /\ out' = << >>
          /\ Deliver(Report(f.cid, "ERROR", f.from, 0, "failure"))
          /\ dev' \in {Idle, dev}
      BY <2>4, FrameFields, ErrorDelivered DEF RefuseRequest, Taking
    <3>2. /\ Mode(h, {"reply"})' => Mode(h, {"reply"}) /\ dev'.next = dev.next
          /\ dev'.cid = cid[h] => dev'.cmd = req[h].cmd
      BY <1>1, <1>2, <3>1 DEF Mode, Idle, SameCommand
    <3>3. QED
      BY <1>5, <3>1, <3>2, CommandsApart DEF Delivered
  <2>5. CASE CancelRequest(f)
    <3>1. rx' = rx /\ out' = << >> /\ dev'.next = 0 /\ dev'.cmd = dev.cmd /\ dev.cid = cid[h]
      BY <1>1, <2>1, <2>5 DEF CancelRequest, InFlightOn, Replying, Taking
    <3>2. QED
      BY <1>4, <3>1 DEF SameCommand
  <2>6. QED
    BY <2>1, <2>2, <2>3, <2>4, <2>5
<1>8. CASE WorksOn(cid[h])
  <2>1. dev.cid = cid[h] /\ Work /\ dev.cmd = req[h].cmd
    BY <1>8 DEF WorksOn, SameCommand
  <2>2. CASE Keepalive
    <3>1. /\ Delivered(dev.cid, "KEEPALIVE", dev.from, 0, "none") /\ out' = out
          /\ Deliver(Report(dev.cid, "KEEPALIVE", dev.from, 0, "none"))
          /\ dev'.mode = "busy" /\ dev'.cmd = dev.cmd
      BY <1>1, <2>2, WorkDelivered DEF Keepalive
    <3>2. QED
      BY <1>5, <2>1, <3>1, CommandsApart DEF Delivered, Mode
  <2>3. CASE ReceiveTimesOut \/ AbortRequest
    <3>1. /\ Delivered(dev.cid, "ERROR", dev.from, 0, "failure") /\ out' = out
          /\ Deliver(Abort) /\ dev' = Idle
      BY <2>3, WorkDelivered DEF ReceiveTimesOut, AbortRequest
    <3>2. QED
      BY <1>1, <1>5, <3>1, CommandsApart DEF Delivered, Mode, Abort, Idle
  <2>4. CASE \/ \E n \in 0..MaxCont, s \in {"none", "success"} : Perform(n, s)
             \/ \E s \in {"failure", "missing"} : Decline(s)
    <3>1. rx' = rx /\ out' = out /\ dev'.next = 0 /\ dev'.cmd = dev.cmd
      BY <1>1, <2>4 DEF Perform, Decline, Replying, wire
    <3>2. QED
      BY <1>4, <2>1, <3>1
  <2>5. CASE Emit
    BY <1>1, <1>2, <2>1, <2>5, OrderedEmit
  <2>6. QED
    BY <2>1, <2>2, <2>3, <2>4, <2>5 DEF Work
<1>9. QED
  BY <1>1, <1>6, <1>7, <1>8, DeviceOnChannel

LEMMA OrderlyOwnStep ==
  ASSUME ~Faults, TypeInv, WireOK', ChannelInv, OutcomeInv, NEW h \in Handles, HostStep(h),
         InStep(h), Orderly(h), Answerable(h)'
  PROVE  SameCommand(h)' /\ NoGap(h)'
<1>1. (Proceed(h) \/ Invoke(h)) /\ dev' = dev /\ DevOld(h) /\ WireOK /\ ~GoesWrong(h)
  BY NothingGoesWrong DEF HostStep, device, DevOld, TypeInv
<1>. /\ pc \in [Handles -> {"closed", "initSend", "initRead", "idle", "writing", "reading"}]
     /\ req \in [Handles -> [cmd : Commands \cup {"none"}, n : Nat, next : Nat]]
     /\ cid \in [Handles -> Nat] /\ body \in [Handles -> Seq(Frame)]
  BY DEF TypeInv, HostInv, HostOK
<1>2. pc'[h] \in {"writing", "reading"} /\ req'[h].next # 0
  BY DEF Answerable, Called
<1>3. /\ Len(body[h]) \in Nat /\ dev.next \in Nat
      /\ \A k \in DOMAIN rx[h] : k \in Nat /\ k >= 1 /\ k > 0 /\ (k # 1 => k > 1) /\ rx[h][k] \in Frame
  BY <1>1, LenProperties, PlacesInQueue DEF TypeInv, DeviceInv, DeviceOK
<1>4. ASSUME SameCommand(h), NoGap(h), rx'[h] = rx[h], body'[h] = body[h], cid'[h] = cid[h],
             req'[h].cmd = req[h].cmd, OutOld(h)
      PROVE  SameCommand(h)' /\ NoGap(h)'
  <2>1. Shifted(h, 0)
    BY <1>1, <1>4, SameShifts
  <2>2. FromOld(h, 0)
    BY <1>3, <1>4 DEF FromOld
  <2>3. NoGap(h)'
    <3>1. Len(body'[h]) = Len(body[h]) /\ Len(body[h]) >= Len(body[h])
      BY <1>3, <1>4
    <3>2. \A k \in DOMAIN rx[h] : PartAt(h, k) /\ Rank(rx[h][k]) > Len(body[h]) => k > 0
      BY <1>3
    <3>3. QED
      BY <1>1, <1>3, <1>4, <2>1, <3>1, <3>2, NoGapShifted
  <2>4. QED
    BY <1>1, <1>4, <2>2, <2>3, SameCommandKept
<1>5. ASSUME SameCommand(h), NoGap(h), Takes(h), cid'[h] = cid[h], req'[h] = req[h],
             \/ body'[h] = body[h] /\ ~PartAt(h, 1)
             \/ Len(body'[h]) = Len(body[h]) + 1 /\ Rank(rx[h][1]) = Len(body[h]) + 1
      PROVE  SameCommand(h)' /\ NoGap(h)'
  <2>1. Shifted(h, 1) /\ FromOld(h, 1) /\ OutOld(h)
    BY <1>1, <1>5, TakeShifts, TakesOld
  <2>2. Len(body'[h]) \in Nat /\ Len(body'[h]) >= Len(body[h])
    BY <1>3, <1>5
  <2>3. \A k \in DOMAIN rx[h] : PartAt(h, k) /\ Rank(rx[h][k]) > Len(body'[h]) => k > 1
    BY <1>3, <1>5
  <2>4. NoGap(h)'
    BY <1>1, <1>3, <1>5, <2>1, <2>2, <2>3, NoGapShifted
  <2>5. QED
    BY <1>1, <1>5, <2>1, <2>4, SameCommandKept
<1>6. CASE pc[h] \notin {"writing", "reading"}
  <2>1. CASE \/ WriteFrame(h) \/ SkipStray(h) \/ SkipKeepalive(h)
             \/ ErrorFrame(h) \/ FirstFrame(h) \/ ContinuationFrame(h)
    BY <1>6, <2>1 DEF WriteFrame, SkipStray, SkipKeepalive, ErrorFrame, FirstFrame, ContinuationFrame,
                      First, Later, Mine, Reading
  <2>2. CASE \E command \in Commands, n \in 0..MaxReqCont : Call(h, command, n)
    BY <1>2, <2>2 DEF Call
  <2>3. CASE OpenPath(h) \/ WriteInit(h) \/ AcceptInit(h) \/ RejectInit(h) \/ OpenTimesOut(h) \/ Close(h)
    BY <1>2, <2>3
    DEF OpenPath, WriteInit, AcceptInit, RejectInit, OpenTimesOut, OpenFails, Close, Release, Goto
  <2>4. CASE SkipBeforeInit(h) \/ RejectCall(h) \/ Cancel(h)
    BY <1>2, <1>6, <2>4 DEF SkipBeforeInit, RejectCall, Cancel, host
  <2>5. QED
    BY <1>1, <2>1, <2>2, <2>3, <2>4 DEF Proceed, Invoke, GoesWrong
<1>7. CASE WriteFrame(h)
  <2>1. /\ pc[h] = "writing" /\ req'[h].cmd = req[h].cmd /\ Called(h)
        /\ out' = <<Part(h)>> /\ cid' = cid /\ rx' = rx /\ body' = body
    BY <1>7 DEF WriteFrame, Put, Called
  <2>2. CASE req[h].next = 0
    <3>1. Quiet(h)
      BY <2>1, <2>2 DEF InStep
    <3>2. Part(h).cmd = req[h].cmd
      BY <2>2 DEF Part, Report
    <3>3. \A i \in DOMAIN out' : out'[i].cmd = req[h].cmd
      BY <2>1, <3>2
    <3>4. SameCommand(h)'
      BY <1>1, <2>1, <3>1, <3>3 DEF SameCommand, Quiet, NoneOn
    <3>5. NoGap(h)'
      BY <1>1, <2>1, <3>1 DEF NoGap, Quiet, NoneOn, PartAt, Mode
    <3>6. QED
      BY <3>4, <3>5
  <2>3. CASE req[h].next # 0
    <3>1. SameCommand(h) /\ NoGap(h)
      BY <2>1, <2>3 DEF Orderly
    <3>2. Part(h).cmd \notin Commands
      BY <2>3, CommandsApart DEF Part, Report
    <3>3. OutOld(h)
      BY <2>1, <3>2 DEF OutOld
    <3>4. QED
      BY <1>4, <2>1, <3>1, <3>3
  <2>4. QED
    BY <2>2, <2>3
<1>8. ASSUME Reading(h)
      PROVE  /\ SameCommand(h) /\ NoGap(h) /\ 1 \in DOMAIN rx[h] /\ Head(rx[h]) = rx[h][1]
             /\ First(h) => Head(rx[h]).cmd \in {"KEEPALIVE", "ERROR", req[h].cmd}
             /\ Later(h) => InSequence(h, Head(rx[h]))
  <2>1. SameCommand(h) /\ NoGap(h)
    BY <1>8 DEF Reading, Orderly, Called, OutcomeInv
  <2>2. QED
    BY <1>1, <1>8, <2>1, HeadOf, NothingGoesWrong DEF Reading
<1>9. CASE SkipStray(h) \/ SkipKeepalive(h)
  <2>1. Takes(h) /\ UNCHANGED host /\ Reading(h)
    BY <1>9 DEF SkipStray, SkipKeepalive, First, Mine, Reading, Takes
  <2>2. ~PartAt(h, 1)
    BY <1>8, <1>9, <2>1, CommandsApart DEF SkipStray, SkipKeepalive, PartAt, IsPart
  <2>3. QED
    BY <1>5, <1>8, <2>1, <2>2 DEF host
<1>10. CASE ErrorFrame(h)
  BY <1>2, <1>10 DEF ErrorFrame, Return, Goto
<1>11. CASE FirstFrame(h) \/ ContinuationFrame(h)
  <2>1. Reading(h) /\ Takes(h)
    BY <1>11 DEF FirstFrame, ContinuationFrame, First, Later, Mine, Reading, Collect, Full, Return, Takes
  <2>2. Collects(h)
    BY <1>2, <1>11, ReplyShapes
  <2>3. Len(body'[h]) = Len(body[h]) + 1
    BY <1>3, <1>8, <2>1, <2>2, AppendTo DEF Collects
  <2>4. Rank(rx[h][1]) = Len(body[h]) + 1
    <3>1. CASE FirstFrame(h)
      <4>1. body[h] = << >> /\ rx[h][1].cmd = req[h].cmd
        BY <1>8, <2>1, <3>1 DEF FirstFrame, First
      <4>2. rx[h][1].cmd # "CONT"
        BY <4>1, CommandsApart
      <4>3. Rank(rx[h][1]) = 1 /\ Len(body[h]) = 0
        BY <4>1, <4>2, EmptySeq DEF Rank
      <4>4. QED
        BY <4>3
    <3>2. CASE ContinuationFrame(h)
      <4>1. rx[h][1].cmd = "CONT" /\ rx[h][1].arg = Len(body[h]) - 1
        BY <1>8, <2>1, <3>2 DEF ContinuationFrame, InSequence, NextSeq
      <4>2. QED
        BY <1>3, <4>1 DEF Rank
    <3>3. QED
      BY <1>11, <3>1, <3>2
  <2>5. QED
    BY <1>5, <1>8, <2>1, <2>2, <2>3, <2>4 DEF Collects
<1>12. QED
  <2>1. CASE \/ OpenPath(h) \/ WriteInit(h) \/ SkipBeforeInit(h) \/ AcceptInit(h) \/ RejectInit(h)
             \/ Close(h) \/ RejectCall(h) \/ Cancel(h)
             \/ \E command \in Commands, n \in 0..MaxReqCont : Call(h, command, n)
    BY <1>6, <2>1 DEF OpenPath, WriteInit, SkipBeforeInit, AcceptInit, RejectInit, Close, RejectCall, Cancel, Call
  <2>2. CASE OpenTimesOut(h)
    BY <2>2 DEF OpenTimesOut
  <2>3. QED
    BY <1>1, <1>7, <1>9, <1>10, <1>11, <2>1, <2>2 DEF Proceed, Invoke, GoesWrong

OwnAnswer(h) == Answered(h) => \A f \in Frames(h) : f.from = Request(h)

LEMMA OwnAnswerStep ==
  ASSUME ~Faults, TypeInv, ChannelInv, OutcomeInv, NEW h \in Handles, Proceed(h) \/ Invoke(h),
         InStep(h), OwnAnswer(h)
  PROVE  OwnAnswer(h)'
<1>. outcome \in [Handles -> [res : Results, frames : Seq(Frame)]]
  BY DEF TypeInv, HostInv, HostOK
<1>1. ASSUME outcome'[h] = outcome[h], txn'[h] = txn[h]
      PROVE  OwnAnswer(h)'
  <2>1. Frames(h)' = Frames(h) /\ Answered(h)' = Answered(h) /\ Request(h)' = Request(h)
    BY <1>1 DEF Answered, Frames, Request
  <2>2. QED
    BY <2>1 DEF OwnAnswer
<1>2. ASSUME ErrorFrame(h) \/ Complete(h)
      PROVE  OwnAnswer(h)'
  <2>1. Mine(h) /\ txn' = txn
    BY <1>2 DEF ErrorFrame, Complete, FirstFrame, ContinuationFrame, First, Later, Collect, Return
  <2>2. Waiting(h)
    BY <2>1 DEF Mine, Reading, InStep, Called, OutcomeInv
  <2>3. Request(h)' = Request(h)
    BY <2>1 DEF Request
  <2>4. CASE ErrorFrame(h)
    <3>1. outcome'[h].frames = <<Head(rx[h])>>
      BY <2>4 DEF ErrorFrame, Return
    <3>2. Head(rx[h]).from = Request(h)
      BY <2>1, <2>2, HeadReport
    <3>3. \A f \in Frames(h)' : f = Head(rx[h])
      BY <3>1 DEF Frames
    <3>4. QED
      BY <2>3, <3>2, <3>3 DEF OwnAnswer
  <2>5. CASE Complete(h)
    <3>. DEFINE reply == Append(body[h], Head(rx[h]))
    <3>1. (FirstFrame(h) \/ ContinuationFrame(h)) /\ outcome'[h].frames = reply
      BY <2>5 DEF Complete
    <3>2. \A i \in DOMAIN reply : reply[i].from = Request(h)
      BY <2>2, <3>1, Collecting
    <3>3. QED
      BY <2>3, <3>1, <3>2 DEF OwnAnswer, Frames
  <2>6. QED
    BY <1>2, <2>4, <2>5
<1>3. CASE ~Answered(h)'
  BY <1>3 DEF OwnAnswer
<1>4. QED
  BY <1>1, <1>2, <1>3, AnswerSteps

LEMMA FaultlessHost ==
  ASSUME ~Faults, TypeInv, ChannelInv, BodyInv, UnusedInv, OutcomeInv, FaultlessInv,
         NEW h \in Handles, HostStep(h)
  PROVE  FaultlessInv'
<1>1. (Proceed(h) \/ Invoke(h)) /\ WireOK' /\ WireOK
  BY HostWire DEF HostStep, TypeInv
<1>2. ASSUME NEW g \in Handles
      PROVE  Listening(g)' /\ InStep(g)' /\ (Answerable(g)' => SameCommand(g)' /\ NoGap(g)') /\ OwnAnswer(g)'
  <2>1. Listening(g) /\ InStep(g) /\ Orderly(g) /\ OwnAnswer(g)
    BY DEF FaultlessInv, AnswerIsOwn, OwnAnswer, Orderly
  <2>2. Listening(g)'
    BY <2>1, ListeningHost
  <2>3. CASE g = h
    <3>1. ~GoesWrong(h)
      BY <2>1, <2>3, NothingGoesWrong
    <3>2. InStep(h)'
      BY <1>1, <2>1, <2>3, <3>1, InStepOwn
    <3>3. QED
      BY <1>1, <2>1, <2>2, <2>3, <3>2, OrderlyOwnStep, OwnAnswerStep
  <2>4. CASE g # h
    <3>1. Same(g)
      BY <1>1, <2>4, OthersSame
    <3>2. InStep(g)'
      BY <1>1, <2>1, <2>4, InStepOther
    <3>3. OwnAnswer(g)'
      <4>1. Frames(g)' = Frames(g) /\ Answered(g)' = Answered(g) /\ Request(g)' = Request(g)
        BY <3>1 DEF Same, Answered, Frames, Request
      <4>2. QED
        BY <2>1, <4>1 DEF OwnAnswer
    <3>4. ASSUME Answerable(g)'
          PROVE  SameCommand(g)' /\ NoGap(g)'
      <4>1. SameCommand(g) /\ NoGap(g) /\ Open(g)
        BY <2>1, <3>1, <3>4 DEF Same, Answerable, Orderly, Called, Open
      <4>2. FromOld(g, 0) /\ OutOld(g) /\ DevOld(g) /\ Shifted(g, 0)
        BY <1>1, <2>4, <4>1, ReplyOtherHandle, OtherQueues, SameShifts
      <4>3. SameCommand(g)'
        BY <3>1, <4>1, <4>2, SameCommandKept DEF Same
      <4>4. Len(body[g]) \in Nat /\ dev.next \in Nat
        BY LenProperties DEF TypeInv, DeviceInv, DeviceOK, HostInv, HostOK
      <4>5. NoGap(g)'
        <5>1. cid'[g] = cid[g] /\ Len(body'[g]) = Len(body[g]) /\ Len(body[g]) >= Len(body[g])
          BY <3>1, <4>4 DEF Same
        <5>2. \A k \in DOMAIN rx[g] : k > 0
          BY <1>1, PlacesInQueue
        <5>3. 0 \in {0, 1}
          OBVIOUS
        <5>4. QED
          BY <1>1, <4>1, <4>2, <4>4, <5>1, <5>2, <5>3, NoGapShifted
      <4>6. QED
        BY <4>3, <4>5
    <3>5. QED
      BY <2>2, <3>2, <3>3, <3>4
  <2>5. QED
    BY <2>3, <2>4
<1>3. QED
  BY <1>2 DEF FaultlessInv, Orderly, AnswerIsOwn, OwnAnswer, Answerable

LEMMA FaultlessDevice ==
  ASSUME TypeInv, ChannelInv, Room, FaultlessInv, DeviceStep
  PROVE  FaultlessInv'
<1>1. DeviceNext /\ UNCHANGED host /\ WireOK' /\ fds' = fds
  BY DeviceStepType, FilesKept DEF DeviceStep
<1>2. ASSUME NEW g \in Handles
      PROVE  Listening(g)' /\ InStep(g)' /\ (Answerable(g)' => SameCommand(g)' /\ NoGap(g)')
  <2>1. Listening(g) /\ InStep(g) /\ Orderly(g)
    BY DEF FaultlessInv, Orderly
  <2>2. Listening(g)' /\ InStep(g)'
    BY <1>1, <2>1, InStepDevice DEF host, Listening
  <2>3. ASSUME Answerable(g)'
        PROVE  SameCommand(g)' /\ NoGap(g)'
    <3>1. SameCommand(g) /\ NoGap(g) /\ Open(g) /\ g \in fds
      BY <1>1, <2>1, <2>3 DEF host, Answerable, Orderly, Called, Open, Listening
    <3>2. QED
      BY <1>1, <3>1, OrderlyDevice
  <2>4. QED
    BY <2>2, <2>3
<1>3. AnswerIsOwn'
  BY <1>1 DEF host, FaultlessInv, AnswerIsOwn, Answered, Frames, Request
<1>4. QED
  BY <1>2, <1>3 DEF FaultlessInv, Orderly, Answerable

LEMMA FaultlessInvariant ==
  ASSUME ~Faults
  PROVE  Spec /\ []Room => []FaultlessInv
<1>1. Init => FaultlessInv
  BY DEF Init, HostInit, FaultlessInv, Listening, InStep, Orderly, Called, AnswerIsOwn, Answered,
    Answers, Nothing
<1>2. TypeInv /\ ChannelInv /\ CleanInv /\ Room /\ FaultlessInv /\ [Next]_vars => FaultlessInv'
  <2>. SUFFICES ASSUME TypeInv, ChannelInv, CleanInv, Room, FaultlessInv, [Next]_vars
                PROVE  FaultlessInv'
    OBVIOUS
  <2>. BodyInv /\ UnusedInv /\ OutcomeInv
    BY DEF CleanInv
  <2>1. CASE UNCHANGED vars
    BY <2>1 DEF vars, wire, host, device, FaultlessInv, Listening, InStep, Orderly, Called, AnswerIsOwn,
                Answered, Frames, Request, Quiet, Waiting, AskedInv, WorkedOnInv, QueueInv, CollectedInv,
                NoneOn, Mode, SameCommand, NoGap, Ranked, PartAt
  <2>2. CASE \E h \in Handles : HostStep(h)
    BY <2>2, FaultlessHost
  <2>3. CASE DeviceStep
    BY <2>3, FaultlessDevice
  <2>4. QED
    BY <2>1, <2>2, <2>3 DEF Next
<1>3. QED
  BY <1>1, <1>2, TypeInvariant, ChannelInvariant, CleanInvariant, PTL DEF Spec

\* When no write fails, no read times out and no report is lost, the reports of
\* a channel come in the order recv_message wants: the two framing errors of
\* src/src/hid.rs never happen.
THEOREM NoFramingErrors ==
  ASSUME ~Faults
  PROVE  Spec /\ []Room => []FramingNeverFails
<1>1. TypeInv /\ ChannelInv /\ CleanInv /\ FaultlessInv => FramingNeverFails
  BY NothingGoesWrong DEF CleanInv, FaultlessInv, Orderly, FramingNeverFails
<1>2. QED
  BY <1>1, TypeInvariant, ChannelInvariant, CleanInvariant, FaultlessInvariant, PTL

\* And every answer is that of the request just sent, as the doc of
\* Transport::transact says without saying when.
THEOREM AnswersAreOwn ==
  ASSUME ~Faults
  PROVE  Spec /\ []Room => []AnswerIsOwn
<1>1. FaultlessInv => AnswerIsOwn
  BY DEF FaultlessInv
<1>2. QED
  BY <1>1, FaultlessInvariant, PTL
=============================================================================
