------------------------- MODULE Ctap2Answers_proofs -------------------------
(***************************************************************************)
(* Theorems of Ctap2 about what a client is told: the one exchange on a    *)
(* channel no call of which failed, what the cache and reset rest on, the  *)
(* PIN before every touch, one attempt for every operation, the secret     *)
(* that was asked for, what a probe, makeCredential and a refused PIN      *)
(* mean, and sequences of assertions.                                      *)
(***************************************************************************)
EXTENDS Ctap2_proofs

(* What the queues hold. *)

LEMMA QueueTypes ==
  ASSUME BaseInv, NEW c \in Clients
  PROVE  /\ LinkOK /\ ClientOK /\ MemoryOK /\ AuthenticatorOK /\ NumbersOf(c) /\ OperationOf(c)
         /\ sent[c] \in Nat /\ opened[c] \in Nat /\ begun[c] \in Nat
         /\ line[c] \in Seq(Request) /\ inbox[c] \in Seq(Replies)
         /\ \A i \in DOMAIN line[c] :
              /\ line[c][i] \in Request
              /\ line[c][i].from = <<c, line[c][i].from[2]>> /\ line[c][i].from[2] \in Nat
              /\ line[c][i].hash = <<c, line[c][i].hash[2]>> /\ line[c][i].hash[2] \in Nat
         /\ \A i \in DOMAIN inbox[c] :
              /\ inbox[c][i] \in Replies
              /\ inbox[c][i].of = <<c, inbox[c][i].of[2]>> /\ inbox[c][i].of[2] \in Nat
              /\ inbox[c][i].hash[2] \in Nat
<1>1. LinkOK /\ ClientOK /\ MemoryOK /\ AuthenticatorOK /\ NumbersOf(c) /\ OperationOf(c)
  BY DEF BaseInv, TypeOK, NumberInv, OperationInv
<1>2. /\ sent[c] \in Nat /\ opened[c] \in Nat /\ begun[c] \in Nat
      /\ line[c] \in Seq(Request) /\ inbox[c] \in Seq(Replies)
  BY <1>1 DEF LinkOK, ClientOK
<1>3. ASSUME NEW i \in DOMAIN line[c]
      PROVE  /\ line[c][i] \in Request
             /\ line[c][i].from = <<c, line[c][i].from[2]>> /\ line[c][i].from[2] \in Nat
             /\ line[c][i].hash = <<c, line[c][i].hash[2]>> /\ line[c][i].hash[2] \in Nat
  <2>1. line[c][i] \in Request
    BY <1>2, ElementOfSeq, LenProperties
  <2>2. line[c][i].from \in Clients \X Nat /\ line[c][i].hash \in Clients \X Nat
    BY <2>1, RequestFields DEF Call
  <2>3. line[c][i].from[1] = c /\ line[c][i].hash[1] = c
    BY <1>1 DEF NumbersOf
  <2>4. QED
    BY <2>1, <2>2, <2>3
<1>4. ASSUME NEW i \in DOMAIN inbox[c]
      PROVE  /\ inbox[c][i] \in Replies
             /\ inbox[c][i].of = <<c, inbox[c][i].of[2]>> /\ inbox[c][i].of[2] \in Nat
             /\ inbox[c][i].hash[2] \in Nat
  <2>1. inbox[c][i] \in Replies
    BY <1>2, ElementOfSeq, LenProperties
  <2>2. inbox[c][i].of \in Clients \X Nat /\ inbox[c][i].hash \in Clients \X Nat
    BY <2>1, ReplyFields DEF Call
  <2>3. inbox[c][i].of[1] = c
    BY <1>1 DEF NumbersOf
  <2>4. QED
    BY <2>1, <2>2, <2>3
<1>5. QED
  BY <1>1, <1>2, <1>3, <1>4

(* A channel no exchange of which has failed. *)

LEMMA ShortTail ==
  ASSUME NEW S, NEW s \in Seq(S), s # << >>, Len(s) <= 1
  PROVE  Tail(s) = << >>
<1>1. Len(s) \in Nat /\ Len(s) # 0
  BY EmptySeq, LenProperties
<1>2. Len(s) = 1
  BY <1>1
<1>3. Tail(s) \in Seq(S) /\ Len(Tail(s)) = 0
  BY <1>2, HeadTailProperties
<1>4. QED
  BY <1>3, EmptySeq

\* What a client has heard that still trusts its channel leaves nothing on it.
LEMMA HeardAll ==
  ASSUME BaseInv, NEW c \in Clients, ChannelOf(c), Hears(c), trusted'[c]
  PROVE  /\ inbox'[c] = << >>
         /\ \A i \in DOMAIN line[c] : line[c][i].from[2] <= opened'[c]
<1>1. /\ inbox[c] \in Seq(Replies) /\ LinkOK /\ NumbersOf(c)
      /\ \A i \in DOMAIN line[c] : line[c][i].from[2] \in Nat
  BY QueueTypes
<1>2. CASE want[c] = "none" /\ inbox'[c] = inbox[c] /\ opened'[c] = opened[c] /\ trusted[c]
  <2>1. DOMAIN inbox[c] = {}
    BY <1>2 DEF ChannelOf, Current
  <2>2. inbox[c] = << >>
    BY <1>1, <2>1, EmptySeq, LenProperties
  <2>3. QED
    BY <1>2, <2>2 DEF ChannelOf, Current, Orphan
<1>3. CASE Take(c) /\ opened'[c] = opened[c] /\ trusted[c]
  <2>1. inbox[c] # << >> /\ inbox'[c] = Tail(inbox[c])
    BY <1>1, <1>3 DEF Take, LinkOK
  <2>2. Len(inbox[c]) <= 1
    BY <1>3 DEF ChannelOf
  <2>3. Tail(inbox[c]) = << >>
    BY <1>1, <2>1, <2>2, ShortTail
  <2>4. QED
    BY <1>3, <2>1, <2>3 DEF ChannelOf, Orphan
<1>4. CASE inbox'[c] = << >> /\ opened'[c] = sent[c]
  BY <1>1, <1>4 DEF NumbersOf
<1>5. QED
  BY <1>2, <1>3, <1>4 DEF Hears

\* ChannelOf after a step.
Quiet(c) ==
  /\ Len(inbox'[c]) <= 1
  /\ \A i \in DOMAIN inbox'[c] :
       /\ want'[c] # "none" /\ inbox'[c][i].of = <<c, sent'[c]>> /\ inbox'[c][i].kind = want'[c]
  /\ \A i \in DOMAIN line'[c] : ~(line'[c][i].from[2] <= opened'[c]) =>
       /\ want'[c] # "none" /\ line'[c][i].from = <<c, sent'[c]>> /\ line'[c][i].kind = want'[c]
       /\ inbox'[c] = << >>

LEMMA TrustStep == BaseInv /\ TrustInv /\ [Next]_vars => TrustInv'
<1>. SUFFICES ASSUME BaseInv, TrustInv, [Next]_vars, NEW c \in Clients, trusted'[c]
              PROVE  Quiet(c)
  BY DEF TrustInv, ChannelOf, Current, Orphan, Quiet
<1>. ChannelOf(c) /\ TypeOK /\ OperationInv /\ NumberInv /\ LinkOK
  BY DEF TrustInv, BaseInv, TypeOK
<1>1. CASE Same(c)
  BY <1>1 DEF Same, ChannelOf, Current, Orphan, Quiet
<1>2. Len(<< >>) = 0 /\ DOMAIN << >> = {}
  OBVIOUS
<1>3. CASE Rests(c)
  <2>1. Hears(c) /\ line'[c] = line[c]
    BY <1>3 DEF Rests
  <2>2. inbox'[c] = << >> /\ \A i \in DOMAIN line'[c] : line'[c][i].from[2] <= opened'[c]
    BY <2>1, HeardAll
  <2>3. QED
    BY <1>2, <2>2 DEF Quiet
<1>4. ASSUME NEW r, Asks(c, r)
      PROVE  Quiet(c)
  <2>1. /\ Hears(c) /\ sent'[c] = sent[c] + 1 /\ want'[c] = r.kind
        /\ r.from = <<c, sent[c] + 1>> /\ r \in Request
    BY <1>4 DEF Asks, Belongs, NextCall
  <2>2. want'[c] # "none"
    BY <2>1, RequestFields DEF Kinds
  <2>3. inbox'[c] = << >>
    BY <2>1, HeardAll
  <2>4. ASSUME NEW i \in DOMAIN line'[c], ~(line'[c][i].from[2] <= opened'[c])
        PROVE  line'[c][i] = r
    <3>1. CASE i \in DOMAIN line[c] /\ line'[c][i] = line[c][i]
      BY <2>1, <2>4, <3>1, HeardAll
    <3>2. QED
      BY <1>4, <3>1, AskedBefore
  <2>5. QED
    BY <1>2, <2>1, <2>2, <2>3, <2>4 DEF Quiet
<1>5. ASSUME NEW k, NEW p, Answered(c, k, p)
      PROVE  Quiet(c)
  <2>1. /\ sent'[c] = sent[c] /\ want'[c] = want[c] /\ opened'[c] = opened[c] /\ trusted[c]
        /\ k \in DOMAIN line[c] /\ p.of = line[c][k].from /\ p.kind = line[c][k].kind
    BY <1>5 DEF Answered, Serves, Answers
  <2>2. ASSUME NEW i \in DOMAIN line'[c], ~(line'[c][i].from[2] <= opened'[c])
        PROVE  /\ Current(c, line'[c][i].from, line'[c][i].kind) /\ inbox[c] = << >>
               /\ \E j \in DOMAIN line[c] \ {k} : line[c][j] = line'[c][i]
    <3>1. line'[c][i] = line[c][Was(k, i)] /\ Was(k, i) \in DOMAIN line[c] \ {k}
      BY <1>5, AnsweredBefore
    <3>2. ~Orphan(c, line[c][Was(k, i)])
      BY <2>1, <2>2, <3>1 DEF Orphan
    <3>3. Current(c, line[c][Was(k, i)].from, line[c][Was(k, i)].kind) /\ inbox[c] = << >>
      BY <2>1, <3>1, <3>2 DEF ChannelOf
    <3>4. QED
      BY <3>1, <3>3
  <2>3. CASE inbox'[c] = inbox[c]
    <3>1. Len(inbox[c]) <= 1
          /\ \A i \in DOMAIN inbox[c] : Current(c, inbox[c][i].of, inbox[c][i].kind)
      BY <2>1 DEF ChannelOf
    <3>2. QED
      BY <2>1, <2>2, <2>3, <3>1 DEF Current, Quiet
  <2>4. CASE ~Orphan(c, line[c][k]) /\ inbox'[c] = Append(inbox[c], p)
    <3>1. Current(c, p.of, p.kind) /\ inbox[c] = << >>
      BY <2>1, <2>4 DEF ChannelOf
    <3>2. Len(inbox'[c]) = 1 /\ DOMAIN inbox'[c] = {1} /\ inbox'[c][1] = p
      BY <2>4, <3>1
    <3>3. \A i \in DOMAIN line'[c] : line'[c][i].from[2] <= opened'[c]
      <4>. SUFFICES ASSUME NEW i \in DOMAIN line'[c], ~(line'[c][i].from[2] <= opened'[c])
                    PROVE  FALSE
        OBVIOUS
      <4>1. PICK j \in DOMAIN line[c] \ {k} : line[c][j] = line'[c][i]
        BY <2>2
      <4>2. line[c][j].from = line[c][k].from
        BY <2>1, <2>2, <3>1, <4>1 DEF Current
      <4>3. j \in Nat /\ k \in Nat /\ line[c][j].from[2] \in Nat
        BY <2>1, <4>1, QueueTypes, LenProperties
      <4>4. j < k \/ k < j
        BY <4>1, <4>3
      <4>5. \A m, n \in DOMAIN line[c] : m < n => line[c][m].from[2] < line[c][n].from[2]
        BY DEF NumberInv, NumbersOf
      <4>6. QED
        BY <2>1, <4>1, <4>2, <4>3, <4>4, <4>5
    <3>4. QED
      BY <2>1, <3>1, <3>2, <3>3 DEF Current, Quiet
  <2>5. QED
    BY <1>5, <2>3, <2>4 DEF Answered, Serves, LinkOK
<1>6. CASE Emptied(c)
  BY <1>6, NothingAfterEmptied DEF Quiet
<1>7. QED
  BY <1>1, <1>3, <1>4, <1>5, <1>6, StepShapes

(* What a client keeps and returns. *)

LEMMA CacheCases ==
  ASSUME LinkOK, MemoryOK, ClientOK, NEW c \in Clients, ClientStep(c)
  PROVE  \/ cache'[c] = cache[c] /\ (trusted'[c] => trusted[c])
         \/ cache'[c] = {}
         \/ /\ Take(c) /\ want[c] = "info" /\ trusted' = trusted
            /\ cache'[c] = {[pinSet |-> Got(c).pinSet, real |-> Got(c).kind = "info"]}
<1>. USE DEF MemoryOK, ClientOK
<1>1. ASSUME NEW use, Attach(c, use)
      PROVE  cache'[c] = {}
  BY <1>1 DEF Attach
<1>2. ASSUME Detach(c)
      PROVE  cache' = cache /\ trusted' = trusted
  BY <1>2 DEF Detach, memory
<1>3. CASE Resume(c)
  <2>1. CASE Ends(c)
    <3>1. trusted'[c] => trusted[c]
      BY <2>1 DEF Ends
    <3>2. CASE UNCHANGED cache
      BY <3>1, <3>2
    <3>3. CASE UNCHANGED memory
      BY <3>2, <3>3 DEF memory
    <3>4. CASE /\ want[c] = "info" /\ Take(c) /\ trusted' = trusted
               /\ cache' = [cache EXCEPT ![c] =
                    {[pinSet |-> Got(c).pinSet, real |-> Got(c).kind = "info"]}]
      BY <3>4
    <3>5. QED
      BY <2>1, <3>2, <3>3, <3>4 DEF Ends
  <2>2. ASSUME NEW r, Continue(c, r)
        PROVE  cache' = cache /\ trusted' = trusted
    BY <2>2 DEF Continue, memory
  <2>3. QED
    BY <1>3, <2>1, <2>2, ResumeCases
<1>4. CASE Invoke(c)
  <2>1. ASSUME NEW o, NEW r, Start(c, o, r)
        PROVE  cache' = cache /\ (trusted'[c] => trusted[c])
    BY <2>1 DEF Start, memory
  <2>2. ASSUME NEW o, NEW outcome, Immediately(c, o, outcome)
        PROVE  cache' = cache /\ trusted' = trusted
    BY <2>2 DEF Immediately, memory
  <2>3. QED
    BY <1>4, <2>1, <2>2, InvokeCases
<1>5. CASE Open(c)
  BY <1>1, <1>2, <1>5 DEF Open
<1>6. ASSUME NEW o, List(c, o)
      PROVE  cache'[c] = {} \/ (cache' = cache /\ trusted' = trusted)
  BY <1>1, <1>2, <1>6 DEF List
<1>7. QED
  BY <1>3, <1>4, <1>5, <1>6 DEF ClientStep

LEMMA ErrorResults ==
  /\ NoResult.res = "none" /\ Done.res = "ok"
  /\ \A res : Error(res).res = res
  /\ \A status : Outcome("ctap", status, {}, << >>).res = "ctap"
BY DEF NoResult, Done, Error, Ok, Outcome

LEMMA SecretWaits ==
  ASSUME NEW o, NEW kind, o.name = "secret", WaitsFor(o, kind)
  PROVE  kind \in {"agree", "token", "assert"}
BY DEF WaitsFor

\* An operation that asks the device and returns Ok takes a reply that fits.
LEMMA SuccessCases ==
  ASSUME LinkOK, MemoryOK, ClientOK, OperationInv, NEW c \in Clients, ClientStep(c),
         result'[c].res = "ok", op'[c].name \notin {"list", "info", "probe"}
  PROVE  /\ Take(c) /\ Fits(Got(c), want[c]) /\ trusted'[c] = trusted[c]
         /\ op' = op /\ sent' = sent /\ begun' = begun
         /\ op[c].name = "secret" =>
              want[c] = "assert" /\ result'[c] = SecretOutcome(c, Got(c))
<1>. USE DEF MemoryOK, ClientOK
<1>1. ASSUME NEW outcome, Finish(c, outcome)
      PROVE  /\ op' = op /\ sent' = sent /\ begun' = begun
             /\ op[c].name \notin {"list", "info", "probe"} /\ result'[c] = outcome
  BY <1>1 DEF Finish
<1>2. ASSUME want[c] # "none"
      PROVE  WaitsFor(op[c], want[c]) /\ result[c] = NoResult
  BY <1>2 DEF OperationInv, OperationOf
<1>3. ASSUME NEW r, Take(c), Continue(c, r)
      PROVE  FALSE
  BY <1>2, <1>3, ErrorResults DEF Take, Continue
\* The replies that end an operation.
<1>4. ASSUME NEW kind, Receives(c, kind), Finish(c, Done), trusted' = trusted,
             kind \notin {"agree", "token", "assert"} \/ op[c].name # "secret"
      PROVE  /\ Take(c) /\ Fits(Got(c), want[c]) /\ trusted'[c] = trusted[c]
             /\ op' = op /\ sent' = sent /\ begun' = begun /\ op[c].name # "secret"
  <2>1. want[c] = kind /\ want[c] # "none" /\ Take(c) /\ Fits(Got(c), kind)
    BY <1>4 DEF Receives, Take
  <2>2. op[c].name # "secret"
    BY <1>2, <1>4, <2>1, SecretWaits
  <2>3. QED
    BY <1>1, <1>4, <2>1, <2>2
<1>. DEFINE Goal == /\ Take(c) /\ Fits(Got(c), want[c]) /\ trusted'[c] = trusted[c]
                    /\ op' = op /\ sent' = sent /\ begun' = begun
                    /\ op[c].name = "secret" =>
                         want[c] = "assert" /\ result'[c] = SecretOutcome(c, Got(c))
<1>5. CASE Resume(c)
  <2>1. CASE OnCtapError(c)
    BY <1>1, <2>1, ErrorResults DEF OnCtapError
  <2>2. CASE OnMisfit(c) \/ OnGarbled(c) \/ OnTimeout(c)
    BY <1>1, <2>2, ErrorResults DEF OnMisfit, OnGarbled, OnTimeout
  <2>3. CASE OnInfo(c)
    <3>1. want[c] = "info" /\ Finish(c, Done)
      BY <2>3 DEF OnInfo, Receives
    <3>2. op[c].name \in {"info", "list"}
      BY <1>2, <3>1 DEF WaitsFor
    <3>3. QED
      BY <1>1, <3>1, <3>2
  <2>4. CASE OnRetries(c)
    BY <1>4, <2>4 DEF OnRetries
  <2>5. CASE OnEmpty(c)
    BY <1>4, <2>5 DEF OnEmpty
  <2>6. CASE OnAgreement(c)
    <3>1. Receives(c, "agree") /\ Take(c)
      BY <2>6 DEF OnAgreement, Receives
    <3>2. CASE op[c].name = "session" /\ Finish(c, Done) /\ trusted' = trusted
      BY <1>4, <3>1, <3>2
    <3>3. QED
      BY <1>3, <2>6, <3>1, <3>2 DEF OnAgreement
  <2>7. CASE OnToken(c)
    <3>1. Receives(c, "token") /\ Take(c)
      BY <2>7 DEF OnToken, Receives
    <3>2. CASE op[c].name = "token" /\ Finish(c, Done) /\ trusted' = trusted
      BY <1>4, <3>1, <3>2
    <3>3. CASE Finish(c, Error("malformed"))
      BY <1>1, <3>3, ErrorResults
    <3>4. QED
      BY <1>3, <2>7, <3>1, <3>2, <3>3 DEF OnToken
  <2>8. CASE OnAssertion(c)
    <3>1. /\ Take(c) /\ Fits(Got(c), want[c]) /\ op[c].name # "secret" /\ trusted' = trusted
          /\ Finish(c, Ok(Got(c).id, << >>))
      BY <2>8 DEF OnAssertion, Receives
    <3>2. QED
      BY <1>1, <3>1
  <2>9. CASE OnSecret(c)
    <3>1. /\ Take(c) /\ Fits(Got(c), want[c]) /\ want[c] = "assert" /\ trusted' = trusted
          /\ Finish(c, SecretOutcome(c, Got(c)))
      BY <2>9 DEF OnSecret, Receives
    <3>2. QED
      BY <1>1, <3>1
  <2>10. CASE OnCredential(c)
    <3>1. /\ Take(c) /\ Fits(Got(c), want[c]) /\ want[c] = "make" /\ trusted' = trusted
          /\ Finish(c, Ok(Got(c).id, << >>))
      BY <2>10 DEF OnCredential, Receives
    <3>2. op[c].name # "secret"
      BY <1>2, <3>1, SecretWaits
    <3>3. QED
      BY <1>1, <3>1, <3>2
  <2>11. QED
    BY <1>5, <2>1, <2>2, <2>3, <2>4, <2>5, <2>6, <2>7, <2>8, <2>9, <2>10 DEF Resume
<1>6. ASSUME NEW o \in Op, NEW r, Start(c, o, r)
      PROVE  FALSE
  BY <1>6, ErrorResults DEF Start
<1>7. ASSUME NEW o \in Op, NEW outcome, Immediately(c, o, outcome),
             (outcome = Done /\ o.name = "info") \/ outcome = Error("malformed")
      PROVE  FALSE
  <2>1. op'[c] = o /\ result'[c] = outcome
    BY <1>7 DEF Immediately, Begin
  <2>2. QED
    BY <1>7, <2>1, ErrorResults
<1>8. CASE Invoke(c)
  BY <1>6, <1>7, <1>8, InvokeCases
<1>9. CASE Open(c)
  <2>1. result'[c] = NoResult \/ result'[c] = Error("hid")
    BY <1>9 DEF Open
  <2>2. QED
    BY <2>1, ErrorResults
<1>10. ASSUME NEW o, List(c, o)
       PROVE  FALSE
  BY <1>10 DEF List, Begin
<1>11. QED
  BY <1>5, <1>8, <1>9, <1>10 DEF ClientStep

LEMMA WipedStep == BaseInv /\ WipedInv /\ [Next]_vars => WipedInv'
<1>. SUFFICES ASSUME BaseInv, WipedInv, [Next]_vars, NEW c \in Clients,
                     NEW i \in DOMAIN inbox'[c], inbox'[c][i].kind = "reset",
                     inbox'[c][i].status = "ok"
              PROVE  \E d \in done' : d.kind = "reset" /\ d.from = inbox'[c][i].of
  BY DEF WipedInv, ResetsOf
<1>. ResetsOf(c) /\ TypeOK /\ OperationInv /\ NumberInv /\ LinkOK
  BY DEF WipedInv, BaseInv, TypeOK
<1>1. ASSUME done \subseteq done', NEW j \in DOMAIN inbox[c], inbox'[c][i] = inbox[c][j]
      PROVE  \E d \in done' : d.kind = "reset" /\ d.from = inbox'[c][i].of
  BY <1>1 DEF ResetsOf
<1>2. CASE Same(c) /\ Elsewhere(c)
  BY <1>1, <1>2 DEF Same, Elsewhere
<1>3. CASE Hears(c) /\ UNCHANGED authenticator
  <2>1. \E j \in DOMAIN inbox[c] : inbox'[c][i] = inbox[c][j]
    BY <1>3, HeardBefore
  <2>2. done \subseteq done'
    BY <1>3 DEF authenticator
  <2>3. QED
    BY <1>1, <2>1, <2>2
<1>4. ASSUME NEW k, NEW p, Answered(c, k, p)
      PROVE  \E d \in done' : d.kind = "reset" /\ d.from = inbox'[c][i].of
  <2>1. CASE i \in DOMAIN inbox[c] /\ inbox'[c][i] = inbox[c][i]
    BY <1>1, <1>4, <2>1 DEF Answered, Serves
  <2>2. CASE inbox'[c][i] = p
    <3>1. Carried(line[c][k], {}) \in done' /\ p.of = line[c][k].from /\ line[c][k].kind = "reset"
      BY <1>4, <2>2 DEF Answered, Serves, Answers
    <3>2. QED
      BY <2>2, <3>1 DEF Carried
  <2>3. QED
    BY <1>4, <2>1, <2>2, AnsweredBefore
<1>5. CASE Emptied(c)
  BY <1>5, NothingAfterEmptied
<1>6. QED
  BY <1>2, <1>3, <1>4, <1>5, StepShapes DEF Rests, Asks

LEMMA CacheStep == BaseInv /\ TrustInv /\ CacheIsInfo /\ [Next]_vars => CacheIsInfo'
<1>. SUFFICES ASSUME BaseInv, TrustInv, CacheIsInfo, [Next]_vars, NEW c \in Clients, trusted'[c],
                     NEW i \in cache'[c]
              PROVE  i.real
  BY DEF CacheIsInfo
<1>. ChannelOf(c) /\ TypeOK /\ OperationInv /\ NumberInv /\ LinkOK /\ MemoryOK /\ ClientOK
  BY DEF TrustInv, BaseInv, TypeOK
<1>1. CASE ClientStep(c)
  <2>1. CASE cache'[c] = cache[c] /\ (trusted'[c] => trusted[c])
    BY <2>1 DEF CacheIsInfo
  <2>2. CASE /\ Take(c) /\ want[c] = "info" /\ trusted' = trusted
             /\ cache'[c] = {[pinSet |-> Got(c).pinSet, real |-> Got(c).kind = "info"]}
    <3>1. Got(c).kind = "info"
      BY <2>2, GotReply DEF ChannelOf, Current
    <3>2. i = [pinSet |-> Got(c).pinSet, real |-> Got(c).kind = "info"]
      BY <2>2
    <3>3. i.real = (Got(c).kind = "info")
      BY <3>2
    <3>4. QED
      BY <3>1, <3>3
  <2>3. QED
    BY <1>1, <2>1, <2>2, CacheCases
<1>2. CASE cache'[c] = cache[c] /\ trusted'[c] = trusted[c]
  BY <1>2 DEF CacheIsInfo
<1>3. QED
  BY <1>1, <1>2, StepShapes DEF Same, Answered, Emptied

LEMMA ResetStep ==
  BaseInv /\ TrustInv /\ WipedInv /\ ResetMeansWiped /\ [Next]_vars => ResetMeansWiped'
<1>. SUFFICES ASSUME BaseInv, TrustInv, WipedInv, ResetMeansWiped, [Next]_vars,
                     NEW c \in Clients, trusted'[c], op'[c].name = "reset", result'[c].res = "ok"
              PROVE  \E d \in done' : d.kind = "reset" /\ d.from = <<c, sent'[c]>>
  BY DEF ResetMeansWiped, Returned
<1>. /\ ChannelOf(c) /\ ResetsOf(c) /\ OperationOf(c) /\ TypeOK /\ OperationInv /\ NumberInv
     /\ LinkOK /\ MemoryOK /\ ClientOK
  BY DEF TrustInv, WipedInv, OperationInv, BaseInv, TypeOK
<1>1. CASE ClientStep(c) /\ UNCHANGED authenticator
  <2>1. /\ Take(c) /\ Fits(Got(c), want[c]) /\ trusted[c] /\ op[c].name = "reset" /\ sent' = sent
    BY <1>1, SuccessCases
  <2>2. Got(c) = inbox[c][1] /\ 1 \in DOMAIN inbox[c]
    BY <2>1, GotReply
  <2>3. want[c] = "reset"
    BY <2>1 DEF Take, OperationOf, WaitsFor
  <2>4. Got(c).kind = "reset" /\ Got(c).of = <<c, sent[c]>>
    BY <2>1, <2>2, <2>3 DEF ChannelOf, Current
  <2>5. Got(c).status = "ok"
    BY <2>1 DEF Fits
  <2>6. done' = done
    BY <1>1 DEF authenticator
  <2>7. QED
    BY <2>1, <2>2, <2>4, <2>5, <2>6 DEF ResetsOf
<1>2. CASE /\ trusted'[c] = trusted[c] /\ op'[c] = op[c] /\ result'[c] = result[c]
           /\ sent'[c] = sent[c] /\ done \subseteq done'
  BY <1>2 DEF ResetMeansWiped, Returned
<1>3. QED
  BY <1>1, <1>2, StepShapes DEF Same, Elsewhere, Answered, Serves, Emptied

TrustBase == BaseInv /\ TrustInv /\ WipedInv /\ CacheIsInfo /\ ResetMeansWiped

LEMMA TrustInitially == Init => TrustBase
<1>. SUFFICES ASSUME Init PROVE TrustBase
  OBVIOUS
<1>1. DOMAIN << >> = {} /\ Len(<< >>) = 0
  OBVIOUS
<1>2. ASSUME NEW c \in Clients
      PROVE  /\ DOMAIN line[c] = {} /\ DOMAIN inbox[c] = {} /\ Len(inbox[c]) = 0
             /\ cache[c] = {} /\ result[c] = NoResult
  BY <1>1 DEF Init, ClientInit
<1>3. TrustInv
  BY <1>2 DEF TrustInv, ChannelOf
<1>4. WipedInv
  BY <1>2 DEF WipedInv, ResetsOf
<1>5. CacheIsInfo
  BY <1>2 DEF CacheIsInfo
<1>6. ResetMeansWiped
  BY <1>2, ErrorResults DEF ResetMeansWiped, Returned
<1>7. QED
  BY <1>3, <1>4, <1>5, <1>6, BaseInitially DEF TrustBase

LEMMA TrustInvariant == Spec => []TrustBase
<1>1. BaseInv /\ [Next]_vars => BaseInv'
  BY TypeStep, OperationStep, NumberStep DEF BaseInv
<1>2. TrustBase /\ [Next]_vars => TrustBase'
  BY <1>1, TrustStep, WipedStep, CacheStep, ResetStep DEF TrustBase
<1>3. QED
  BY <1>2, TrustInitially, PTL DEF Spec

\* Authenticator.info is filled by an answer to getInfo only, as long as no call
\* of the open device failed, with any number of clients and late replies.
THEOREM Ctap2CacheIsInfo == Spec => []CacheIsInfo
<1>1. TrustBase => CacheIsInfo
  BY DEF TrustBase
<1>2. QED
  BY <1>1, TrustInvariant, PTL

\* reset returns Ok only if the device was wiped by that very request, though
\* the reply is not looked at.
THEOREM Ctap2ResetMeansWiped == Spec => []ResetMeansWiped
<1>1. TrustBase => ResetMeansWiped
  BY DEF TrustBase
<1>2. QED
  BY <1>1, TrustInvariant, PTL

(* PINs and tokens. *)

LEMMA OpenedBox ==
  ASSUME NEW s, NEW b, NEW x, NEW y, Unbox(s, b, x) = y, x # y
  PROVE  b.key = s /\ b.plain = y
BY DEF Unbox

\* The token of a reply that came for a request under the session of now.
LEMMA TokenIsProven ==
  ASSUME BaseInv, PinInv, NEW c \in Clients, Take(c), want[c] = "token", Fits(Got(c), "token")
  PROVE  /\ TokenReply(c, Got(c)) /\ Auth(c) # {}
         /\ Got(c).of[2] = sent[c] => op[c].pin = "right"
         /\ \A t \in Auth(c) : t # 0 /\ op[c].name # "token" => op[c].pin = "right"
<1>. DEFINE p == Got(c)
            s == session[c]
<1>1. p = inbox[c][1] /\ 1 \in DOMAIN inbox[c] /\ p \in Replies
  BY QueueTypes, GotReply
<1>2. p.kind = "token" /\ p.status = "ok"
  BY FitsToken
<1>3. TokenReply(c, p)
  BY <1>1, <1>2 DEF PinInv, PinsOf
<1>4. PICK b \in p.token : p.token = {b} /\ b.plain # 0 /\ b.key.plat[2] < p.of[2]
  BY <1>3 DEF TokenReply, SealedToken
<1>5. Auth(c) = {Unbox(s, b, 0)}
  BY <1>4 DEF Auth, OpenedToken
<1>6. p.of[2] = sent[c] => op[c].pin = "right"
  BY <1>3 DEF TokenReply
<1>7. ASSUME Unbox(s, b, 0) # 0, op[c].name # "token"
      PROVE  op[c].pin = "right"
  <2>1. b.key = s
    BY <1>7 DEF Unbox
  <2>2. s.plat[2] + 1 = sent[c]
    BY <1>7, QueueTypes DEF OperationOf
  <2>3. p.of[2] <= sent[c] /\ p.of[2] \in Nat /\ sent[c] \in Nat
    BY <1>1, QueueTypes DEF NumbersOf
  <2>4. s.plat[2] \in Nat
    <3>1. b.key \in Secret
      BY <1>1, <1>4, ReplyFields
    <3>2. QED
      BY <2>1, <3>1 DEF Secret, Call
  <2>5. p.of[2] = sent[c]
    BY <1>4, <2>1, <2>2, <2>3, <2>4
  <2>6. QED
    BY <1>6, <2>5
<1>8. QED
  BY <1>3, <1>5, <1>6, <1>7

\* A token is granted to a request with the right PIN under the device's key.
LEMMA GrantedPin ==
  ASSUME NEW c \in Clients, NEW r \in Request, PinRequest(c, r), OpenedPin(r) = {"right"}
  PROVE  r.given = "right" /\ Shared(r).plat[2] < r.from[2]
<1>1. PICK b \in r.pin :
        r.pin = {b} /\ b.plain = r.given /\ b.key.plat = r.plat /\ b.key.plat[2] < r.from[2]
  BY DEF PinRequest, SealedPin
<1>2. OpenedPin(r) = {Unbox(Shared(r), b, "wrong")}
  BY <1>1 DEF OpenedPin
<1>3. Unbox(Shared(r), b, "wrong") = "right"
  BY <1>2
<1>4. b.key = Shared(r) /\ b.plain = "right"
  BY <1>3, OpenedBox
<1>5. QED
  BY <1>1, <1>4

\* A request with a token names a PIN the token came for.
LEMMA AuthIsProven ==
  ASSUME BaseInv, PinInv, NEW c \in Clients, NEW r, Asks(c, r)
  PROVE  /\ \A t \in r.auth : t # 0 => r.given \in Proven
         /\ r.kind = "reset" => r.auth = {}
<1>1. RightAuth(c, op'[c], r) /\ WaitsFor(op'[c], r.kind)
  BY DEF Asks, Belongs
<1>2. CASE r.auth = {}
  BY <1>2
<1>3. CASE op'[c].name = "with" /\ \E h \in held[c] : r.auth = {h.token} /\ r.given = h.given
  <2>1. r.kind # "reset"
    BY <1>1, <1>3 DEF WaitsFor
  <2>2. QED
    BY <1>3, <2>1 DEF PinInv, PinsOf
<1>4. CASE /\ want[c] = "token" /\ Fits(Got(c), "token") /\ op'[c] = op[c]
           /\ op'[c].name # "token" /\ op'[c].pin # "none"
           /\ r.auth = Auth(c) /\ r.given = op'[c].pin
  <2>1. Take(c)
    BY <1>4 DEF Asks
  <2>2. r.kind # "reset"
    BY <1>1, <1>4, QueueTypes DEF OperationOf, WaitsFor
  <2>3. \A t \in Auth(c) : t # 0 => op[c].pin = "right"
    BY <1>4, <2>1, TokenIsProven
  <2>4. QED
    BY <1>4, <2>2, <2>3 DEF Proven
<1>5. QED
  BY <1>1, <1>2, <1>3, <1>4 DEF RightAuth

\* PinsOf after a step.
PinAsked(c, r) ==
  /\ r.kind = "token" =>
       SealedPin(r) /\ (want'[c] = "token" /\ r.from[2] = sent'[c] => r.given = op'[c].pin)
  /\ \A t \in r.auth : t # 0 => r.given \in Proven
  /\ r.kind = "reset" => r.auth = {}

PinReplied(c, p) ==
  IF p.kind = "token" /\ p.status = "ok"
  THEN SealedToken(p) /\ (want'[c] = "token" /\ p.of[2] = sent'[c] => op'[c].pin = "right")
  ELSE p.token = {}

LEMMA PinStep == BaseInv /\ TrustInv /\ PinInv /\ [Next]_vars => PinInv'
<1>. SUFFICES ASSUME BaseInv, TrustInv, PinInv, [Next]_vars, NEW c \in Clients
              PROVE  /\ \A i \in DOMAIN line'[c] : PinAsked(c, line'[c][i])
                     /\ \A i \in DOMAIN inbox'[c] : PinReplied(c, inbox'[c][i])
                     /\ \A h \in held'[c] : h.token # 0 => h.given \in Proven
  BY DEF PinInv, PinsOf, PinRequest, TokenReply, PinAsked, PinReplied
<1>. /\ PinsOf(c) /\ ChannelOf(c) /\ NumbersOf(c) /\ TypeOK /\ OperationInv /\ NumberInv
     /\ LinkOK /\ sent[c] \in Nat
  BY QueueTypes DEF TrustInv, PinInv, BaseInv, TypeOK
\* What an operation no longer waits for keeps its place.
<1>1. ASSUME NEW i \in DOMAIN line[c],
             \/ want'[c] = want[c] /\ sent'[c] = sent[c] /\ op'[c] = op[c]
             \/ want'[c] = "none"
             \/ sent'[c] = sent[c] + 1
      PROVE  PinAsked(c, line[c][i])
  <2>1. line[c][i].from[2] # sent[c] + 1
    BY QueueTypes DEF NumbersOf
  <2>2. /\ line[c][i].kind = "token" => PinRequest(c, line[c][i])
        /\ \A t \in line[c][i].auth : t # 0 => line[c][i].given \in Proven
        /\ line[c][i].kind = "reset" => line[c][i].auth = {}
    BY DEF PinsOf
  <2>3. QED
    BY <1>1, <2>1, <2>2 DEF PinAsked, PinRequest
<1>2. ASSUME NEW i \in DOMAIN inbox[c],
             \/ want'[c] = want[c] /\ sent'[c] = sent[c] /\ op'[c] = op[c]
             \/ want'[c] = "none"
             \/ sent'[c] = sent[c] + 1
      PROVE  PinReplied(c, inbox[c][i])
  <2>1. inbox[c][i].of[2] # sent[c] + 1
    BY QueueTypes DEF NumbersOf
  <2>2. IF inbox[c][i].kind = "token" /\ inbox[c][i].status = "ok"
        THEN TokenReply(c, inbox[c][i]) ELSE inbox[c][i].token = {}
    BY DEF PinsOf
  <2>3. QED
    BY <1>2, <2>1, <2>2 DEF PinReplied, TokenReply
<1>3. CASE Same(c)
  BY <1>1, <1>2, <1>3 DEF Same, PinsOf
<1>4. ASSUME Hears(c), want'[c] = "none" \/ sent'[c] = sent[c] + 1, NEW i \in DOMAIN inbox'[c]
      PROVE  PinReplied(c, inbox'[c][i])
  <2>1. PICK j \in DOMAIN inbox[c] : inbox'[c][i] = inbox[c][j]
    BY <1>4, HeardBefore
  <2>2. QED
    BY <1>2, <1>4, <2>1
<1>5. CASE Rests(c)
  <2>1. Hears(c) /\ want'[c] = "none" /\ line'[c] = line[c]
    BY <1>5 DEF Rests
  <2>2. \A h \in held'[c] : h.token # 0 => h.given \in Proven
    <3>1. CASE held'[c] = held[c]
      BY <3>1 DEF PinsOf
    <3>2. CASE held'[c] = Hold(c, Auth(c)) /\ want[c] = "token" /\ Receives(c, "token")
      <4>1. Take(c) /\ Fits(Got(c), "token")
        BY <3>2 DEF Receives
      <4>2. trusted[c] => Got(c).of[2] = sent[c]
        BY <4>1, GotReply DEF ChannelOf, Current
      <4>3. trusted[c] => op[c].pin = "right"
        BY <3>2, <4>1, <4>2, TokenIsProven
      <4>4. QED
        BY <3>2, <4>3 DEF Hold, Proven
    <3>3. QED
      BY <1>5, <3>1, <3>2 DEF Rests
  <2>3. QED
    BY <1>1, <1>4, <2>1, <2>2
<1>6. ASSUME NEW r, Asks(c, r)
      PROVE  /\ \A i \in DOMAIN line'[c] : PinAsked(c, line'[c][i])
             /\ \A i \in DOMAIN inbox'[c] : PinReplied(c, inbox'[c][i])
             /\ \A h \in held'[c] : h.token # 0 => h.given \in Proven
  <2>1. /\ Hears(c) /\ sent'[c] = sent[c] + 1 /\ held'[c] = held[c]
        /\ r.from = <<c, sent[c] + 1>> /\ want'[c] = r.kind
    BY <1>6 DEF Asks, Belongs, NextCall
  <2>2. r.kind = "token" => SealedPin(r) /\ r.given = op'[c].pin
    <3>. SUFFICES ASSUME r.kind = "token" PROVE SealedPin(r) /\ r.given = op'[c].pin
      OBVIOUS
    <3>. DEFINE b == Box(session'[c], op'[c].pin)
    <3>1. /\ session'[c] \in Secret /\ session'[c].plat[2] <= sent[c] /\ r.given = op'[c].pin
          /\ r.plat = session'[c].plat /\ r.pin = {b}
      BY <1>6 DEF Asks, Belongs
    <3>2. b.plain = op'[c].pin /\ b.key = session'[c]
      BY DEF Box
    <3>3. session'[c].plat[2] < sent[c] + 1
      <4>1. session'[c].plat[2] \in Nat
        BY <3>1 DEF Secret, Call
      <4>2. QED
        BY <3>1, <4>1
    <3>4. QED
      BY <2>1, <3>1, <3>2, <3>3 DEF SealedPin
  <2>3. PinAsked(c, r)
    BY <1>6, <2>2, AuthIsProven DEF PinAsked
  <2>4. \A i \in DOMAIN line'[c] : PinAsked(c, line'[c][i])
    BY <1>1, <1>6, <2>1, <2>3, AskedBefore
  <2>5. QED
    BY <1>4, <2>1, <2>4 DEF PinsOf
<1>7. ASSUME NEW k, NEW p, Answered(c, k, p)
      PROVE  /\ \A i \in DOMAIN line'[c] : PinAsked(c, line'[c][i])
             /\ \A i \in DOMAIN inbox'[c] : PinReplied(c, inbox'[c][i])
             /\ \A h \in held'[c] : h.token # 0 => h.given \in Proven
  <2>. DEFINE r == line[c][k]
  <2>1. /\ want'[c] = want[c] /\ sent'[c] = sent[c] /\ op'[c] = op[c] /\ held'[c] = held[c]
        /\ k \in DOMAIN line[c] /\ p.of = r.from /\ p.kind = r.kind
        /\ IF p.kind = "token" /\ p.status = "ok"
           THEN OpenedPin(r) = {"right"} /\ p.token = {Box(Shared(r), token + 1)}
           ELSE p.token = {}
    BY <1>7 DEF Answered, Serves, Answers
  <2>2. r \in Request
    BY <1>7, AnsweredBefore
  <2>3. PinReplied(c, p)
    <3>1. CASE p.kind = "token" /\ p.status = "ok"
      <4>. DEFINE b == Box(Shared(r), token + 1)
      <4>1. PinRequest(c, r) /\ OpenedPin(r) = {"right"} /\ p.token = {b}
        BY <2>1, <3>1 DEF PinsOf
      <4>2. r.given = "right" /\ Shared(r).plat[2] < r.from[2]
        BY <2>2, <4>1, GrantedPin
      <4>3. b.key = Shared(r) /\ b.plain = token + 1 /\ token + 1 # 0
        BY QueueTypes DEF Box, AuthenticatorOK
      <4>4. SealedToken(p)
        BY <2>1, <4>1, <4>2, <4>3 DEF SealedToken
      <4>5. want[c] = "token" /\ p.of[2] = sent[c] => op[c].pin = "right"
        BY <2>1, <4>1, <4>2 DEF PinRequest
      <4>6. QED
        BY <2>1, <3>1, <4>4, <4>5 DEF PinReplied
    <3>2. QED
      BY <2>1, <3>1 DEF PinReplied
  <2>4. \A i \in DOMAIN line'[c] : PinAsked(c, line'[c][i])
    BY <1>1, <1>7, <2>1, AnsweredBefore
  <2>5. \A i \in DOMAIN inbox'[c] : PinReplied(c, inbox'[c][i])
    BY <1>2, <1>7, <2>1, <2>3, AnsweredBefore
  <2>6. QED
    BY <2>1, <2>4, <2>5 DEF PinsOf
<1>8. CASE Emptied(c)
  BY <1>8, NothingAfterEmptied DEF Emptied, PinsOf
<1>9. QED
  BY <1>3, <1>5, <1>6, <1>7, <1>8, StepShapes

LEMMA WrongPinStep ==
  BaseInv /\ TrustInv /\ PinInv /\ WrongPinGoesNoFurther /\ [Next]_vars => WrongPinGoesNoFurther'
<1>. SUFFICES ASSUME BaseInv, TrustInv, PinInv, WrongPinGoesNoFurther, [Next]_vars,
                     NEW c \in Clients, trusted'[c], op'[c].pin = "wrong"
              PROVE  want'[c] \notin {"assert", "make"}
  BY DEF WrongPinGoesNoFurther
<1>. ChannelOf(c) /\ TypeOK /\ OperationInv /\ NumberInv /\ LinkOK
  BY DEF TrustInv, BaseInv, TypeOK
<1>1. CASE want'[c] = want[c] /\ op'[c] = op[c] /\ trusted'[c] = trusted[c]
  BY <1>1 DEF WrongPinGoesNoFurther
<1>2. CASE Rests(c)
  BY <1>2 DEF Rests
<1>3. ASSUME NEW r, Asks(c, r)
      PROVE  r.kind \notin {"assert", "make"}
  <2>. SUFFICES ASSUME r.kind \in {"assert", "make"} PROVE FALSE
    OBVIOUS
  <2>1. RightAuth(c, op'[c], r) /\ Hears(c)
    BY <1>3 DEF Asks, Belongs
  <2>2. op'[c].name # "with"
    <3>1. op'[c] \in Op
      BY TypeStep DEF BaseInv, TypeOK, ClientOK
    <3>2. QED
      BY <3>1, OpFields
  <2>3. want[c] = "token" /\ Fits(Got(c), "token") /\ op'[c] = op[c]
    BY <2>1, <2>2 DEF RightAuth
  <2>4. Take(c) /\ trusted[c]
    BY <2>1, <2>3 DEF Hears
  <2>5. Got(c).of[2] = sent[c]
    BY <2>4, GotReply DEF ChannelOf, Current
  <2>6. op[c].pin = "right"
    BY <2>3, <2>4, <2>5, TokenIsProven
  <2>7. QED
    BY <2>3, <2>6
<1>4. CASE \E r : Asks(c, r)
  BY <1>3, <1>4 DEF Asks
<1>5. QED
  BY <1>1, <1>2, <1>4, StepShapes DEF Same, Answered, Emptied

\* A request is carried out when it is taken; what the authenticator signs or
\* makes with a token, the token in force allows.
LEMMA DoneCases ==
  ASSUME LinkOK, NEW c \in Clients, Serve(c)
  PROVE  \/ done' = done
         \/ \E i \in DOMAIN line[c] : \E cred :
              /\ done' = done \cup {Carried(line[c][i], cred)}
              /\ line' = [line EXCEPT ![c] = Without(@, i)]
              /\ line[c][i].kind = "reset" \/ Authorised(line[c][i])
<1>. DEFINE r == Head(line[c])
<1>1. ASSUME line[c] # << >>, NEW p, Respond(c, p)
      PROVE  /\ 1 \in DOMAIN line[c] /\ r = line[c][1]
             /\ line' = [line EXCEPT ![c] = Without(@, 1)]
  <2>1. 1 \in DOMAIN line[c] /\ r = line[c][1] /\ Tail(line[c]) = Without(line[c], 1)
    BY <1>1, TailIsWithout DEF LinkOK
  <2>2. QED
    BY <1>1, <2>1 DEF Respond
<1>2. CASE Sign(c)
  <2>1. line[c] # << >> /\ (\E p : Respond(c, p)) /\ done' = done \cup {Carried(r, {})} /\ Authorised(r)
    BY <1>2 DEF Sign, Turn, Record
  <2>2. QED
    BY <1>1, <2>1
<1>3. CASE Make(c)
  <2>1. /\ line[c] # << >> /\ \E p : Respond(c, p)
        /\ done' = done \cup {Carried(r, {NewCred})} /\ Authorised(r)
    BY <1>3 DEF Make, Turn, Record
  <2>2. QED
    BY <1>1, <2>1
<1>4. CASE Wipe(c)
  <2>1. /\ line[c] # << >> /\ (\E p : Respond(c, p)) /\ r.kind = "reset"
        /\ done' = done \cup {Carried(r, {})}
    BY <1>4 DEF Wipe, Turn, Record
  <2>2. QED
    BY <1>1, <2>1
<1>5. CASE /\ Serve(c) /\ ~Sign(c) /\ ~Make(c) /\ ~Wipe(c)
  <2>1. UNCHANGED authenticator => done' = done
    BY DEF authenticator
  <2>2. QED
    BY <1>5, <2>1 DEF Serve, Refuse, ServeInfo, ServeRetries, ServeAgreement, GrantToken, CountMiss,
                      NoCredentials, SignNext, NoNext, Blink
<1>6. QED
  BY <1>2, <1>3, <1>4, <1>5

LEMMA UvStep == BaseInv /\ PinInv /\ UvProvesPin /\ [Next]_vars => UvProvesPin'
<1>. SUFFICES ASSUME BaseInv, PinInv, UvProvesPin, [Next]_vars, NEW d \in done', d.uv
              PROVE  d.given \in Proven
  BY DEF UvProvesPin, Proven
<1>. LinkOK /\ AuthenticatorOK
  BY DEF BaseInv, TypeOK
<1>1. CASE done' = done
  BY <1>1 DEF UvProvesPin, Proven
<1>2. ASSUME NEW c \in Clients, DeviceNext(c)
      PROVE  d.given \in Proven
  <2>1. CASE d \in done
    BY <2>1 DEF UvProvesPin, Proven
  <2>2. ASSUME NEW i \in DOMAIN line[c], NEW cred, d = Carried(line[c][i], cred),
               line[c][i].kind = "reset" \/ Authorised(line[c][i])
        PROVE  d.given \in Proven
    <3>1. d.given = line[c][i].given /\ line[c][i].auth # {}
      BY <2>2 DEF Carried
    <3>2. Authorised(line[c][i])
      BY <2>2, <3>1 DEF PinInv, PinsOf
    <3>3. \E t \in line[c][i].auth : t # 0
      BY <3>1, <3>2 DEF Authorised, AuthenticatorOK
    <3>4. QED
      BY <3>1, <3>3 DEF PinInv, PinsOf
  <2>3. QED
    BY <1>2, <2>1, <2>2, DoneCases DEF DeviceNext
<1>3. QED
  BY <1>1, <1>2 DEF Next, Unplug, PowerCycle, ClientNext, authenticator, vars

PinBase == BaseInv /\ TrustInv /\ PinInv /\ WrongPinGoesNoFurther /\ UvProvesPin

LEMMA PinInitially == Init => PinBase
<1>. SUFFICES ASSUME Init PROVE PinBase
  OBVIOUS
<1>1. TrustInv
  BY TrustInitially DEF TrustBase
<1>2. DOMAIN << >> = {}
  OBVIOUS
<1>3. ASSUME NEW c \in Clients
      PROVE  DOMAIN line[c] = {} /\ DOMAIN inbox[c] = {} /\ held[c] = {} /\ want[c] = "none"
  BY <1>2 DEF Init, ClientInit
<1>4. PinInv
  BY <1>3 DEF PinInv, PinsOf
<1>5. WrongPinGoesNoFurther /\ UvProvesPin
  BY <1>3 DEF WrongPinGoesNoFurther, UvProvesPin, Init, Ctap2DeviceInit
<1>6. QED
  BY <1>1, <1>4, <1>5, BaseInitially DEF PinBase

LEMMA PinInvariant == Spec => []PinBase
<1>1. BaseInv /\ [Next]_vars => BaseInv'
  BY TypeStep, OperationStep, NumberStep DEF BaseInv
<1>2. PinBase /\ [Next]_vars => PinBase'
  BY <1>1, TrustStep, PinStep, WrongPinStep, UvStep DEF PinBase
<1>3. QED
  BY <1>2, PinInitially, PTL DEF Spec

\* The device never creates a credential or signs with user verification for an
\* operation that was not given the right PIN: not with a token of before a
\* reopening or a power cycle, nor with one that a late reply brought.
THEOREM Ctap2UvProvesPin == Spec => []UvProvesPin
<1>1. PinBase => UvProvesPin
  BY DEF PinBase
<1>2. QED
  BY <1>1, PinInvariant, PTL

\* An operation with a wrong PIN ends at the PIN: it never asks for a touch.
THEOREM Ctap2WrongPinGoesNoFurther == Spec => []WrongPinGoesNoFurther
<1>1. PinBase => WrongPinGoesNoFurther
  BY DEF PinBase
<1>2. QED
  BY <1>1, PinInvariant, PTL

(* PIN attempts. *)

\* IsMiss after a step.
Missed(hash) == \E i \in DOMAIN misses' : misses'[i] = hash

LEMMA MissedBefore ==
  ASSUME misses \in Seq(Call), NEW h \in Call, misses' = Append(misses, h), NEW x, Missed(x)
  PROVE  IsMiss(x) \/ x = h
<1>1. PICK i \in DOMAIN Append(misses, h) : Append(misses, h)[i] = x
  BY DEF Missed
<1>2. QED
  BY <1>1, AfterAppend DEF IsMiss

\* Attempts are counted of requests of their clients only.
LEMMA MissesStep ==
  ASSUME BaseInv, [Next]_vars
  PROVE  \/ misses' = misses
         \/ \E c \in Clients : \E i \in DOMAIN line[c] :
              line[c][i].kind = "token" /\ misses' = Append(misses, line[c][i].hash)
<1>. LinkOK /\ AuthenticatorOK
  BY DEF BaseInv, TypeOK
<1>1. ASSUME NEW c \in Clients, DeviceNext(c)
      PROVE  \/ misses' = misses
             \/ \E i \in DOMAIN line[c] :
                  line[c][i].kind = "token" /\ misses' = Append(misses, line[c][i].hash)
  <2>1. PICK i, p : Serves(c, i, p)
    BY <1>1, ServeShape DEF DeviceNext
  <2>2. QED
    BY <2>1 DEF Serves
<1>2. QED
  BY <1>1 DEF Next, Unplug, PowerCycle, ClientNext, authenticator, vars

LEMMA BegunGrows ==
  ASSUME BaseInv, [Next]_vars, NEW c \in Clients
  PROVE  begun[c] <= begun'[c] /\ begun[c] \in Nat /\ begun'[c] \in Nat
<1>. begun[c] \in Nat
  BY QueueTypes
<1>1. begun'[c] = begun[c] \/ begun'[c] = begun[c] + 1
  BY StepShapes DEF BaseInv, Same, Rests, Asks, Answered, Emptied
<1>2. QED
  BY <1>1

\* The misses are of different operations, and of those that have begun.
CountInv ==
  /\ OneAttemptPerOperation
  /\ \A i \in DOMAIN misses : misses[i][1] \in Clients /\ misses[i][2] <= begun[misses[i][1]]

LEMMA CountStep == BaseInv /\ AttemptInv /\ [Next]_vars => CountInv'
<1>. SUFFICES ASSUME BaseInv, AttemptInv, [Next]_vars PROVE CountInv'
  OBVIOUS
<1>. misses \in Seq(Call) /\ OneAttemptPerOperation
  BY DEF BaseInv, TypeOK, AuthenticatorOK, AttemptInv
<1>1. ASSUME NEW i \in DOMAIN misses
      PROVE  misses[i][1] \in Clients /\ misses[i][2] <= begun'[misses[i][1]]
  <2>1. misses[i] \in Call /\ misses[i][1] \in Clients /\ misses[i][2] <= begun[misses[i][1]]
    BY ElementOfSeq, LenProperties DEF AttemptInv
  <2>2. misses[i][2] \in Nat
    BY <2>1 DEF Call
  <2>3. QED
    BY <2>1, <2>2, BegunGrows
<1>2. CASE misses' = misses
  BY <1>1, <1>2 DEF CountInv, OneAttemptPerOperation
<1>3. ASSUME NEW c \in Clients, NEW k \in DOMAIN line[c], line[c][k].kind = "token",
             misses' = Append(misses, line[c][k].hash)
      PROVE  CountInv'
  <2>. DEFINE h == line[c][k].hash
  <2>1. /\ h \in Call /\ h[1] = c /\ h[2] \in Nat /\ begun[c] \in Nat
        /\ h[2] <= begun[c] /\ ~IsMiss(h)
    <3>1. line[c][k] \in Request /\ h = <<c, h[2]>> /\ h[2] \in Nat /\ begun[c] \in Nat /\ NumbersOf(c)
      BY QueueTypes
    <3>2. h \in Call /\ h[1] = c
      BY <3>1, RequestFields
    <3>3. ~IsMiss(h)
      BY <1>3 DEF AttemptInv, AttemptsOf
    <3>4. QED
      BY <3>1, <3>2, <3>3 DEF NumbersOf
  <2>2. ASSUME NEW i \in DOMAIN misses'
        PROVE  \/ i \in DOMAIN misses /\ misses'[i] = misses[i] /\ misses[i] # h
               \/ i = Len(misses) + 1 /\ misses'[i] = h
    BY <1>3, <2>1, AfterAppend DEF IsMiss
  <2>3. ASSUME NEW i \in DOMAIN misses', NEW j \in DOMAIN misses', misses'[i] = misses'[j]
        PROVE  i = j
    BY <2>2, <2>3 DEF OneAttemptPerOperation
  <2>4. ASSUME NEW i \in DOMAIN misses'
        PROVE  misses'[i][1] \in Clients /\ misses'[i][2] <= begun'[misses'[i][1]]
    <3>1. h[2] <= begun'[c]
      BY <2>1, BegunGrows
    <3>2. QED
      BY <1>1, <2>1, <2>2, <3>1
  <2>5. QED
    BY <2>3, <2>4 DEF CountInv, OneAttemptPerOperation
<1>4. QED
  BY <1>2, <1>3, MissesStep

LEMMA AttemptsStep == BaseInv /\ AttemptInv /\ [Next]_vars => \A c \in Clients : AttemptsOf(c)'
<1>. SUFFICES ASSUME BaseInv, AttemptInv, [Next]_vars, NEW c \in Clients
              PROVE  /\ \A i \in DOMAIN line'[c] : line'[c][i].kind = "token" =>
                          /\ ~Missed(line'[c][i].hash)
                          /\ \A j \in DOMAIN line'[c] :
                               line'[c][j].kind = "token" /\ line'[c][j].hash = line'[c][i].hash => i = j
                     /\ want'[c] = "agree" =>
                          /\ ~Missed(<<c, begun'[c]>>)
                          /\ \A i \in DOMAIN line'[c] :
                               line'[c][i].kind = "token" => line'[c][i].hash # <<c, begun'[c]>>
  BY DEF AttemptsOf, IsMiss, Missed
<1>. /\ AttemptsOf(c) /\ NumbersOf(c) /\ TypeOK /\ OperationInv /\ NumberInv /\ LinkOK
     /\ begun[c] \in Nat /\ misses \in Seq(Call) /\ line[c] \in Seq(Request)
  BY QueueTypes DEF AttemptInv, BaseInv, TypeOK, AuthenticatorOK
<1>. \A i \in DOMAIN line[c] :
       line[c][i] \in Request /\ line[c][i].hash = <<c, line[c][i].hash[2]>>
       /\ line[c][i].hash[2] \in Nat /\ line[c][i].hash[2] <= begun[c]
  BY QueueTypes DEF NumbersOf
<1>. DEFINE Apart == \A i, j \in DOMAIN line'[c] :
              line'[c][i].kind = "token" =>
                (line'[c][j].kind = "token" /\ line'[c][j].hash = line'[c][i].hash => i = j)
            Fresh == \A i \in DOMAIN line'[c] :
              line'[c][i].kind = "token" => ~Missed(line'[c][i].hash)
            Untried == want'[c] = "agree" =>
              /\ ~Missed(<<c, begun'[c]>>)
              /\ \A i \in DOMAIN line'[c] :
                   line'[c][i].kind = "token" => line'[c][i].hash # <<c, begun'[c]>>
<1>. SUFFICES Apart /\ Fresh /\ Untried
  OBVIOUS
<1>1. ASSUME misses' = misses, NEW x
      PROVE  Missed(x) <=> IsMiss(x)
  BY <1>1 DEF Missed, IsMiss
<1>2. CASE Same(c) /\ Elsewhere(c)
  <2>1. ASSUME NEW x, x[1] = c, Missed(x)
        PROVE  IsMiss(x)
    <3>1. CASE misses' = misses
      BY <1>1, <2>1, <3>1
    <3>2. ASSUME NEW d \in Clients \ {c}, NEW i \in DOMAIN line[d],
                 misses' = Append(misses, line[d][i].hash)
          PROVE  IsMiss(x)
      <4>1. line[d][i].hash \in Call /\ line[d][i].hash = <<d, line[d][i].hash[2]>>
        BY <3>2, QueueTypes, RequestFields
      <4>2. x # line[d][i].hash
        BY <2>1, <3>2, <4>1
      <4>3. QED
        BY <2>1, <3>2, <4>1, <4>2, MissedBefore
    <3>3. QED
      BY <1>2, <3>1, <3>2 DEF Elsewhere
  <2>2. Fresh
    BY <1>2, <2>1 DEF Same, AttemptsOf
  <2>3. Apart
    BY <1>2 DEF Same, AttemptsOf
  <2>4. Untried
    BY <1>2, <2>1 DEF Same, AttemptsOf
  <2>5. QED
    BY <2>2, <2>3, <2>4
<1>3. CASE Rests(c) /\ UNCHANGED authenticator
  <2>1. line'[c] = line[c] /\ want'[c] = "none" /\ misses' = misses
    BY <1>3 DEF Rests, authenticator
  <2>2. QED
    BY <1>1, <2>1 DEF AttemptsOf
<1>4. ASSUME NEW r, Asks(c, r), UNCHANGED authenticator
      PROVE  Apart /\ Fresh /\ Untried
  <2>1. /\ misses' = misses /\ r.hash = <<c, begun'[c]>> /\ want'[c] = r.kind
        /\ \/ want[c] = "none" /\ begun'[c] = begun[c] + 1
           \/ /\ begun'[c] = begun[c]
              /\ \/ want[c] = "agree" /\ r.kind \in {"token", "assert"}
                 \/ want[c] = "token" /\ r.kind \in {"make", "assert"}
    BY <1>4 DEF Asks, Belongs, authenticator
  \* The PIN of this operation has not been tried.
  <2>2. r.kind \in {"agree", "token"} =>
          /\ ~IsMiss(<<c, begun'[c]>>)
          /\ \A i \in DOMAIN line[c] : line[c][i].kind = "token" => line[c][i].hash # <<c, begun'[c]>>
    <3>1. CASE begun'[c] = begun[c] + 1
      <4>1. ASSUME NEW i \in DOMAIN misses, misses[i] = <<c, begun[c] + 1>>
            PROVE  FALSE
        <5>1. misses[i][1] = c /\ misses[i][2] = begun[c] + 1
          BY <4>1
        <5>2. misses[i][2] <= begun[misses[i][1]]
          BY DEF AttemptInv
        <5>3. QED
          BY <5>1, <5>2
      <4>2. \A i \in DOMAIN line[c] : line[c][i].hash[2] # begun[c] + 1
        OBVIOUS
      <4>3. QED
        BY <3>1, <4>1, <4>2 DEF IsMiss
    <3>2. CASE begun'[c] = begun[c] /\ want[c] = "agree"
      BY <3>2 DEF AttemptsOf
    <3>3. QED
      BY <2>1, <3>1, <3>2
  <2>3. ASSUME NEW i \in DOMAIN line'[c]
        PROVE  \/ i \in DOMAIN line[c] /\ line'[c][i] = line[c][i]
               \/ i = Len(line[c]) + 1 /\ line'[c][i] = r
    BY <1>4, AskedBefore
  <2>4. Fresh
    BY <1>1, <2>1, <2>2, <2>3 DEF AttemptsOf
  <2>5. Apart
    <3>. SUFFICES ASSUME NEW i \in DOMAIN line'[c], NEW j \in DOMAIN line'[c],
                         line'[c][i].kind = "token", line'[c][j].kind = "token",
                         line'[c][j].hash = line'[c][i].hash
                  PROVE  i = j
      OBVIOUS
    <3>1. CASE i \in DOMAIN line[c] /\ line'[c][i] = line[c][i]
      <4>1. j \in DOMAIN line[c] /\ line'[c][j] = line[c][j]
        BY <2>1, <2>2, <2>3, <3>1
      <4>2. QED
        BY <3>1, <4>1 DEF AttemptsOf
    <3>2. CASE i = Len(line[c]) + 1 /\ line'[c][i] = r
      <4>1. j = Len(line[c]) + 1
        BY <2>1, <2>2, <2>3, <3>2
      <4>2. QED
        BY <3>2, <4>1
    <3>3. QED
      BY <2>3, <3>1, <3>2
  <2>6. Untried
    BY <1>1, <2>1, <2>2, <2>3
  <2>7. QED
    BY <2>4, <2>5, <2>6
<1>5. ASSUME NEW k, NEW p, Answered(c, k, p)
      PROVE  Apart /\ Fresh /\ Untried
  <2>1. /\ want'[c] = want[c] /\ begun'[c] = begun[c] /\ k \in DOMAIN line[c]
        /\ \/ misses' = misses
           \/ line[c][k].kind = "token" /\ misses' = Append(misses, line[c][k].hash)
    BY <1>5 DEF Answered, Serves
  <2>2. ASSUME NEW x, Missed(x)
        PROVE  IsMiss(x) \/ (line[c][k].kind = "token" /\ x = line[c][k].hash)
    <3>1. line[c][k].hash \in Call
      BY <2>1, RequestFields
    <3>2. QED
      BY <1>1, <2>1, <2>2, <3>1, MissedBefore
  <2>3. ASSUME NEW i \in DOMAIN line'[c]
        PROVE  Was(k, i) \in DOMAIN line[c] \ {k} /\ line'[c][i] = line[c][Was(k, i)]
    BY <1>5, AnsweredBefore
  <2>4. Fresh
    BY <2>1, <2>2, <2>3 DEF AttemptsOf
  <2>5. Apart
    <3>. SUFFICES ASSUME NEW i \in DOMAIN line'[c], NEW j \in DOMAIN line'[c],
                         line'[c][i].kind = "token", line'[c][j].kind = "token",
                         line'[c][j].hash = line'[c][i].hash
                  PROVE  i = j
      OBVIOUS
    <3>1. Was(k, i) = Was(k, j)
      BY <2>3 DEF AttemptsOf
    <3>2. i \in Nat /\ j \in Nat /\ k \in Nat
      <4>1. line'[c] \in Seq(Request)
        BY TypeStep DEF BaseInv, TypeOK, LinkOK
      <4>2. QED
        BY <2>1, <4>1, LenProperties
    <3>3. QED
      BY <3>1, <3>2 DEF Was
  <2>6. Untried
    BY <2>1, <2>2, <2>3 DEF AttemptsOf
  <2>7. QED
    BY <2>4, <2>5, <2>6
<1>6. CASE Emptied(c) /\ UNCHANGED <<misses, done>>
  <2>1. DOMAIN line'[c] = {} /\ want'[c] = want[c] /\ begun'[c] = begun[c]
    BY <1>6, NothingAfterEmptied DEF Emptied
  <2>2. QED
    BY <1>1, <1>6, <2>1 DEF AttemptsOf
<1>7. QED
  BY <1>2, <1>3, <1>4, <1>5, <1>6, StepShapes

LEMMA AttemptInvariant == Spec => [](BaseInv /\ AttemptInv)
<1>1. BaseInv /\ [Next]_vars => BaseInv'
  BY TypeStep, OperationStep, NumberStep DEF BaseInv
<1>2. BaseInv /\ AttemptInv /\ [Next]_vars => AttemptInv'
  BY CountStep, AttemptsStep DEF CountInv, AttemptInv
<1>3. Init => AttemptInv
  <2>. SUFFICES ASSUME Init PROVE AttemptInv
    OBVIOUS
  <2>1. DOMAIN << >> = {}
    OBVIOUS
  <2>2. DOMAIN misses = {}
    BY <2>1 DEF Init, Ctap2DeviceInit
  <2>3. ASSUME NEW c \in Clients
        PROVE  DOMAIN line[c] = {} /\ want[c] = "none"
    BY <2>1 DEF Init, ClientInit
  <2>4. QED
    BY <2>2, <2>3 DEF AttemptInv, AttemptsOf, OneAttemptPerOperation
<1>4. QED
  BY <1>1, <1>2, <1>3, BaseInitially, PTL DEF Spec

\* An operation costs at most one PIN attempt, whatever fails in it, is lost or
\* comes late.
THEOREM Ctap2OneAttempt == Spec => []OneAttemptPerOperation
<1>1. BaseInv /\ AttemptInv => OneAttemptPerOperation
  BY DEF AttemptInv
<1>2. QED
  BY <1>1, AttemptInvariant, PTL

(* Secrets. *)

\* The outputs for what get_hmac_secret asked.
LEMMA RightOutput ==
  ASSUME NEW c \in Clients, op[c] \in Op, op[c].name = "secret",
         NEW r \in Request, SecretRequest(c, r), \A b \in r.salt : b.key = Shared(r),
         NEW cred \in Candidates(r), NEW out \in Outputs(r, cred), out # {}
  PROVE  \E b \in out : out = {b} /\ b.key = session[c] /\ FirstOf(op[c], b.plain)
<1>. DEFINE o == op[c]
            s == session[c]
<1>. /\ o \in Op /\ o.name = "secret" /\ r.allow = o.allow /\ (r.auth # {} <=> o.pin # "none")
     /\ r.salt = {Box(s, o.salts)}
  BY DEF SecretRequest
<1>1. Shared(r) = s
  BY DEF Box
<1>2. SaltsOf(r) = {o.salts}
  BY <1>1 DEF SaltsOf, Box, Unbox
<1>3. PICK n \in 1..Len(o.salts) : out = {Output(r, cred, o.salts, n)}
  BY <1>2 DEF Outputs
<1>4. cred = CHOOSE a \in o.allow : TRUE
  <2>1. PICK a \in o.allow : o.allow = {a}
    BY OpFields
  <2>2. cred \in o.allow
    BY <2>1 DEF Candidates
  <2>3. QED
    BY <2>1, <2>2
<1>5. ASSUME NEW i \in 1..n
      PROVE  /\ i \in DOMAIN o.salts
             /\ [cred |-> cred, salt |-> o.salts[i], uv |-> r.auth # {}] = Wanted(o)[i]
  <2>1. DOMAIN o.salts = 1..Len(o.salts) /\ Len(o.salts) \in Nat
    BY OpFields, LenProperties
  <2>2. i \in DOMAIN o.salts
    BY <2>1
  <2>3. (r.auth # {}) = (o.pin # "none")
    OBVIOUS
  <2>4. Wanted(o)[i] = [cred |-> cred, salt |-> o.salts[i], uv |-> o.pin # "none"]
    BY <1>4, <2>2 DEF Wanted
  <2>5. QED
    BY <2>2, <2>3, <2>4
<1>6. Output(r, cred, o.salts, n).plain = [i \in 1..n |-> Wanted(o)[i]]
  BY <1>5 DEF Output, Box
<1>7. Output(r, cred, o.salts, n).key = s
  BY <1>1 DEF Output, Box
<1>8. QED
  BY <1>3, <1>6, <1>7 DEF FirstOf

\* SecretsOf after a step.
SecretAsked(c, r) ==
  r.kind = "assert" =>
    /\ r.hash = <<c, begun'[c]>> => r.from[2] = sent'[c] /\ want'[c] \in {"none", "assert"}
    /\ want'[c] = "assert" /\ op'[c].name = "secret" /\ r.from[2] = sent'[c] =>
         /\ r.allow = op'[c].allow /\ (r.auth # {} <=> op'[c].pin # "none")
         /\ r.plat = session'[c].plat /\ r.salt = {Box(session'[c], op'[c].salts)}

SecretReplied(c, p) ==
  IF p.kind = "assert" /\ p.status = "ok"
  THEN /\ p.hash = <<c, begun'[c]>> => p.of[2] = sent'[c] /\ want'[c] \in {"none", "assert"}
       /\ want'[c] = "assert" /\ op'[c].name = "secret" /\ p.of[2] = sent'[c] =>
            \/ p.out = {}
            \/ \E b \in p.out :
                 p.out = {b} /\ b.key = session'[c] /\ FirstOf(op'[c], b.plain)
  ELSE p.out = {}

\* The token of get_hmac_secret is in its getAssertion exactly when it has a PIN.
LEMMA SecretAsks ==
  ASSUME BaseInv, PinInv, NEW c \in Clients, NEW r, Asks(c, r),
         r.kind = "assert", op'[c].name = "secret"
  PROVE  /\ r.allow = op'[c].allow /\ (r.auth # {} <=> op'[c].pin # "none")
         /\ r.plat = session'[c].plat /\ r.salt = {Box(session'[c], op'[c].salts)}
<1>1. /\ RightAuth(c, op'[c], r) /\ Hears(c) /\ r.allow = op'[c].allow
      /\ r.plat = session'[c].plat /\ r.salt = {Box(session'[c], op'[c].salts)}
  BY DEF Asks, Belongs
<1>2. CASE r.auth = {} /\ op'[c].pin = "none"
  BY <1>1, <1>2
<1>3. CASE /\ want[c] = "token" /\ Fits(Got(c), "token") /\ op'[c].pin # "none" /\ r.auth = Auth(c)
  <2>1. Take(c)
    BY <1>3 DEF Asks
  <2>2. Auth(c) # {}
    BY <1>3, <2>1, TokenIsProven
  <2>3. QED
    BY <1>1, <1>3, <2>2
<1>4. QED
  BY <1>1, <1>2, <1>3 DEF RightAuth

LEMMA SecretStep == BaseInv /\ PinInv /\ SecretInv /\ [Next]_vars => SecretInv'
<1>. SUFFICES ASSUME BaseInv, PinInv, SecretInv, [Next]_vars, NEW c \in Clients
              PROVE  /\ \A i \in DOMAIN line'[c] : SecretAsked(c, line'[c][i])
                     /\ \A i \in DOMAIN inbox'[c] : SecretReplied(c, inbox'[c][i])
  BY DEF SecretInv, SecretsOf, SecretRequest, SecretReply, SecretOutput, SecretAsked, SecretReplied
<1>. /\ SecretsOf(c) /\ NumbersOf(c) /\ TypeOK /\ OperationInv /\ NumberInv
     /\ LinkOK /\ sent[c] \in Nat /\ begun[c] \in Nat
  BY QueueTypes DEF SecretInv, BaseInv, TypeOK
<1>. DEFINE Still == /\ want'[c] = want[c] /\ sent'[c] = sent[c] /\ op'[c] = op[c]
                     /\ session'[c] = session[c] /\ begun'[c] = begun[c]
            Over == /\ want'[c] = "none" /\ sent'[c] = sent[c]
                    /\ begun'[c] = begun[c] \/ begun'[c] = begun[c] + 1
            Further == /\ sent'[c] = sent[c] + 1
                       /\ \/ begun'[c] = begun[c] + 1
                          \/ begun'[c] = begun[c] /\ want[c] \in {"agree", "token"}
<1>1. ASSUME NEW i \in DOMAIN line[c], Still \/ Over \/ Further
      PROVE  SecretAsked(c, line[c][i])
  <2>1. /\ line[c][i].hash # <<c, begun[c] + 1>> /\ line[c][i].from[2] # sent[c] + 1
    <3>1. /\ line[c][i].from[2] <= sent[c] /\ line[c][i].hash[2] <= begun[c]
          /\ line[c][i].from[2] \in Nat /\ line[c][i].hash[2] \in Nat
      BY QueueTypes DEF NumbersOf
    <3>2. QED
      BY <3>1
  <2>2. line[c][i].kind = "assert" =>
          /\ line[c][i].hash = <<c, begun[c]>> =>
               line[c][i].from[2] = sent[c] /\ want[c] \in {"none", "assert"}
          /\ want[c] = "assert" /\ op[c].name = "secret" /\ line[c][i].from[2] = sent[c] =>
               SecretRequest(c, line[c][i])
    BY DEF SecretsOf
  <2>3. CASE Still
    BY <2>2, <2>3 DEF SecretAsked, SecretRequest
  <2>4. CASE Over
    BY <2>1, <2>2, <2>4 DEF SecretAsked
  <2>5. CASE Further
    BY <2>1, <2>2, <2>5 DEF SecretAsked
  <2>6. QED
    BY <1>1, <2>3, <2>4, <2>5
<1>2. ASSUME NEW i \in DOMAIN inbox[c], Still \/ Over \/ Further
      PROVE  SecretReplied(c, inbox[c][i])
  <2>1. inbox[c][i].of[2] # sent[c] + 1
        /\ (inbox[c][i].kind = "assert" => inbox[c][i].hash # <<c, begun[c] + 1>>)
    <3>1. /\ inbox[c][i].of[2] <= sent[c] /\ inbox[c][i].of[2] \in Nat /\ inbox[c][i].hash[2] \in Nat
          /\ inbox[c][i].kind # "next" => inbox[c][i].hash[2] <= begun[c]
      BY QueueTypes DEF NumbersOf
    <3>2. QED
      BY <3>1
  <2>2. IF inbox[c][i].kind = "assert" /\ inbox[c][i].status = "ok"
        THEN /\ inbox[c][i].hash = <<c, begun[c]>> =>
                  inbox[c][i].of[2] = sent[c] /\ want[c] \in {"none", "assert"}
             /\ want[c] = "assert" /\ op[c].name = "secret" /\ inbox[c][i].of[2] = sent[c] =>
                  SecretReply(c, inbox[c][i])
        ELSE inbox[c][i].out = {}
    BY DEF SecretsOf
  <2>3. CASE Still
    BY <2>2, <2>3 DEF SecretReplied, SecretReply, SecretOutput
  <2>4. CASE Over
    BY <2>1, <2>2, <2>4 DEF SecretReplied
  <2>5. CASE Further
    BY <2>1, <2>2, <2>5 DEF SecretReplied
  <2>6. QED
    BY <1>2, <2>3, <2>4, <2>5
<1>3. ASSUME Hears(c), Over \/ Further, NEW i \in DOMAIN inbox'[c]
      PROVE  SecretReplied(c, inbox'[c][i])
  <2>1. PICK j \in DOMAIN inbox[c] : inbox'[c][i] = inbox[c][j]
    BY <1>3, HeardBefore
  <2>2. QED
    BY <1>2, <1>3, <2>1
<1>4. CASE Same(c)
  <2>1. Still /\ line'[c] = line[c] /\ inbox'[c] = inbox[c]
    BY <1>4 DEF Same
  <2>2. QED
    BY <1>1, <1>2, <2>1
<1>5. CASE Rests(c)
  <2>1. Hears(c) /\ Over /\ line'[c] = line[c]
    BY <1>5 DEF Rests
  <2>2. QED
    BY <1>1, <1>3, <2>1
<1>6. ASSUME NEW r, Asks(c, r)
      PROVE  /\ \A i \in DOMAIN line'[c] : SecretAsked(c, line'[c][i])
             /\ \A i \in DOMAIN inbox'[c] : SecretReplied(c, inbox'[c][i])
  <2>1. Hears(c) /\ Further
    BY <1>6 DEF Asks
  <2>2. want'[c] = r.kind /\ r.from[2] = sent'[c]
    BY <1>6 DEF Asks, Belongs, NextCall
  <2>3. SecretAsked(c, r)
    BY <1>6, <2>2, SecretAsks DEF SecretAsked
  <2>4. \A i \in DOMAIN line'[c] : SecretAsked(c, line'[c][i])
    BY <1>1, <1>6, <2>1, <2>3, AskedBefore
  <2>5. QED
    BY <1>3, <2>1, <2>4
<1>7. ASSUME NEW k, NEW p, Answered(c, k, p)
      PROVE  /\ \A i \in DOMAIN line'[c] : SecretAsked(c, line'[c][i])
             /\ \A i \in DOMAIN inbox'[c] : SecretReplied(c, inbox'[c][i])
  <2>. DEFINE r == line[c][k]
  <2>1. /\ k \in DOMAIN line[c] /\ p.of = r.from /\ p.kind = r.kind
        /\ p.kind # "next" => p.hash = r.hash
        /\ IF p.kind = "assert" /\ p.status = "ok"
           THEN /\ \A s \in r.salt : s.key = Shared(r)
                /\ \E cred \in Candidates(r) : p.out \in Outputs(r, cred)
           ELSE p.out = {}
    BY <1>7 DEF Answered, Serves, Answers
  <2>2. Still
    BY <1>7 DEF Answered
  <2>3. r \in Request
    BY <1>7, AnsweredBefore
  <2>4. SecretReplied(c, p)
    <3>1. CASE p.kind = "assert" /\ p.status = "ok"
      <4>1. /\ r.hash = <<c, begun[c]>> => r.from[2] = sent[c] /\ want[c] \in {"none", "assert"}
            /\ want[c] = "assert" /\ op[c].name = "secret" /\ r.from[2] = sent[c] => SecretRequest(c, r)
        BY <2>1, <3>1 DEF SecretsOf
      <4>2. ASSUME want[c] = "assert", op[c].name = "secret", p.of[2] = sent[c], p.out # {}
            PROVE  \E b \in p.out :
                     p.out = {b} /\ b.key = session[c] /\ FirstOf(op[c], b.plain)
        <5>1. SecretRequest(c, r)
          BY <2>1, <4>1, <4>2
        <5>2. PICK cred \in Candidates(r) : p.out \in Outputs(r, cred)
          BY <2>1, <3>1
        <5>3. op[c] \in Op /\ \A b \in r.salt : b.key = Shared(r)
          BY <2>1, <3>1, QueueTypes DEF ClientOK
        <5>4. QED
          BY <2>3, <4>2, <5>1, <5>2, <5>3, RightOutput
      <4>3. QED
        BY <2>1, <2>2, <3>1, <4>1, <4>2 DEF SecretReplied
    <3>2. QED
      BY <2>1, <3>1 DEF SecretReplied
  <2>5. \A i \in DOMAIN line'[c] : SecretAsked(c, line'[c][i])
    BY <1>1, <1>7, <2>2, AnsweredBefore
  <2>6. \A i \in DOMAIN inbox'[c] : SecretReplied(c, inbox'[c][i])
    BY <1>2, <1>7, <2>2, <2>4, AnsweredBefore
  <2>7. QED
    BY <2>5, <2>6
<1>8. CASE Emptied(c)
  BY <1>8, NothingAfterEmptied
<1>9. QED
  BY <1>4, <1>5, <1>6, <1>7, <1>8, StepShapes

\* The outputs of as many salts as were asked for are those that are wanted.
LEMMA AllOutputs ==
  ASSUME NEW o \in Op, o.name = "secret", NEW outputs, FirstOf(o, outputs),
         Enough(Len(outputs), Len(o.salts))
  PROVE  outputs = Wanted(o)
<1>1. PICK n \in 1..Len(o.salts) : outputs = [i \in 1..n |-> Wanted(o)[i]]
  BY DEF FirstOf
<1>2. /\ Len(o.salts) \in Nat /\ DOMAIN o.salts = 1..Len(o.salts)
      /\ DOMAIN Wanted(o) = DOMAIN o.salts
      /\ Wanted(o) = [i \in DOMAIN o.salts |-> Wanted(o)[i]]
  BY OpFields, LenProperties DEF Wanted
<1>3. Len(outputs) = n
  <2>1. n \in Nat
    BY <1>2
  <2>2. [i \in 1..n |-> Wanted(o)[i]] \in Seq({Wanted(o)[i] : i \in 1..n})
    BY <2>1, IsASeq
  <2>3. DOMAIN outputs = 1..n /\ outputs \in Seq({Wanted(o)[i] : i \in 1..n})
    BY <1>1, <2>2
  <2>4. Len(outputs) \in Nat /\ DOMAIN outputs = 1..Len(outputs)
    BY <2>3, LenProperties
  <2>5. QED
    BY <2>1, <2>3, <2>4
<1>4. n = Len(o.salts)
  BY <1>2, <1>3 DEF Enough
<1>5. QED
  BY <1>1, <1>2, <1>4

\* What get_hmac_secret makes of the reply to its request.
LEMMA SecretOfReply ==
  ASSUME NEW c \in Clients, op[c] \in Op, op[c].name = "secret", NEW p, SecretReply(c, p),
         SecretOutcome(c, p).res = "ok"
  PROVE  SecretOutcome(c, p).secrets = Wanted(op[c])
<1>1. Error("malformed").res # "ok" /\ Error("missing").res # "ok"
  BY ErrorResults
<1>2. PICK b \in p.out : Enough(Len(b.plain), Len(op[c].salts))
  BY <1>1 DEF SecretOutcome
<1>3. SecretOutcome(c, p) = Ok({}, Opened(session[c], CHOOSE a \in p.out : TRUE))
  BY <1>1 DEF SecretOutcome
<1>4. p.out = {b} /\ b.key = session[c] /\ FirstOf(op[c], b.plain)
  BY <1>2 DEF SecretReply, SecretOutput
<1>5. (CHOOSE a \in p.out : TRUE) = b
  BY <1>4
<1>6. Opened(session[c], b) = b.plain
  BY <1>4 DEF Opened, Unbox
<1>7. b.plain = Wanted(op[c])
  BY <1>2, <1>4, AllOutputs
<1>8. SecretOutcome(c, p) = Ok({}, Wanted(op[c]))
  BY <1>3, <1>5, <1>6, <1>7
<1>9. \A secrets : Ok({}, secrets).secrets = secrets
  BY DEF Ok, Outcome
<1>10. QED
  BY <1>8, <1>9

LEMMA RequestedStep ==
  BaseInv /\ TrustInv /\ SecretInv /\ SecretIsRequested /\ [Next]_vars => SecretIsRequested'
<1>. SUFFICES ASSUME BaseInv, TrustInv, SecretInv, SecretIsRequested, [Next]_vars,
                     NEW c \in Clients, trusted'[c] \/ op'[c].verify,
                     op'[c].name = "secret", result'[c].res = "ok"
              PROVE  result'[c].secrets = Wanted(op'[c])
  BY DEF SecretIsRequested, RightSecret, Returned
<1>. /\ ChannelOf(c) /\ SecretsOf(c) /\ OperationOf(c) /\ TypeOK /\ OperationInv /\ NumberInv
     /\ LinkOK /\ MemoryOK /\ ClientOK /\ op[c] \in Op
  BY DEF TrustInv, SecretInv, OperationInv, BaseInv, TypeOK, ClientOK
<1>1. CASE ClientStep(c)
  <2>. DEFINE p == Got(c)
  <2>1. /\ Take(c) /\ Fits(p, "assert") /\ want[c] = "assert" /\ trusted'[c] = trusted[c]
        /\ op' = op /\ result'[c] = SecretOutcome(c, p)
    BY <1>1, SuccessCases
  <2>2. p = inbox[c][1] /\ 1 \in DOMAIN inbox[c]
    BY <2>1, GotReply
  <2>3. p.status = "ok"
    BY <2>1 DEF Fits
  <2>4. p.out # {}
    BY <2>1, ErrorResults DEF SecretOutcome
  <2>5. p.kind = "assert"
    BY <2>2, <2>3, <2>4 DEF SecretsOf
  <2>6. p.of[2] = sent[c]
    <3>1. CASE trusted[c]
      BY <2>2, <3>1 DEF ChannelOf, Current
    <3>2. CASE op[c].verify
      <4>1. p.hash = <<c, begun[c]>>
        BY <2>1, <3>2, ErrorResults DEF SecretOutcome, Verified
      <4>2. QED
        BY <2>2, <2>3, <2>5, <4>1 DEF SecretsOf
    <3>3. QED
      BY <2>1, <3>1, <3>2
  <2>7. SecretReply(c, p)
    BY <2>1, <2>2, <2>3, <2>5, <2>6 DEF SecretsOf
  <2>8. QED
    BY <2>1, <2>7, SecretOfReply
<1>2. CASE trusted'[c] = trusted[c] /\ op'[c] = op[c] /\ result'[c] = result[c]
  BY <1>2 DEF SecretIsRequested, RightSecret, Returned
<1>3. QED
  BY <1>1, <1>2, StepShapes DEF Same, Answered, Emptied

SecretBase == PinBase /\ SecretInv /\ SecretIsRequested

LEMMA SecretInvariant == Spec => []SecretBase
<1>1. BaseInv /\ [Next]_vars => BaseInv'
  BY TypeStep, OperationStep, NumberStep DEF BaseInv
<1>2. PinBase /\ [Next]_vars => PinBase'
  BY <1>1, TrustStep, PinStep, WrongPinStep, UvStep DEF PinBase
<1>3. SecretBase /\ [Next]_vars => SecretBase'
  BY <1>2, SecretStep, RequestedStep DEF SecretBase, PinBase
<1>4. Init => SecretBase
  <2>. SUFFICES ASSUME Init PROVE SecretBase
    OBVIOUS
  <2>1. DOMAIN << >> = {}
    OBVIOUS
  <2>2. ASSUME NEW c \in Clients
        PROVE  DOMAIN line[c] = {} /\ DOMAIN inbox[c] = {} /\ result[c] = NoResult
    BY <2>1 DEF Init, ClientInit
  <2>3. SecretInv
    BY <2>2 DEF SecretInv, SecretsOf
  <2>4. SecretIsRequested
    BY <2>2, ErrorResults DEF SecretIsRequested, RightSecret, Returned
  <2>5. QED
    BY <2>3, <2>4, PinInitially DEF SecretBase
<1>5. QED
  BY <1>3, <1>4, PTL DEF Spec

\* get_hmac_secret returns the output of the credential and the salts asked for,
\* of the UV kind exactly when a PIN was given, and never noise: as long as no
\* call failed, and after that too when public_key is given.
THEOREM Ctap2SecretIsRequested == Spec => []SecretIsRequested
<1>1. SecretBase => SecretIsRequested
  BY DEF SecretBase
<1>2. QED
  BY <1>1, SecretInvariant, PTL

(* One step of all of them. *)

\* A step is of one client, of the authenticator for one, or a power cycle.
LEMMA StepOf ==
  ASSUME BaseInv, [Next]_vars
  PROVE  \/ UNCHANGED authenticator /\ \A c \in Clients : Same(c)
         \/ \E c \in Clients :
              /\ ClientStep(c) /\ (Rests(c) \/ \E r : Asks(c, r)) /\ UNCHANGED authenticator
              /\ \A d \in Clients \ {c} : Same(d)
         \/ \E c \in Clients :
              (\E i, p : Answered(c, i, p)) /\ \A d \in Clients \ {c} : Same(d)
         \/ creds' = creds /\ pending' = {} /\ \A c \in Clients : Emptied(c)
<1>. TypeOK /\ LinkOK /\ MemoryOK /\ ClientOK /\ AuthenticatorOK /\ OperationInv /\ NumberInv
  BY DEF BaseInv, TypeOK
<1>1. CASE UNCHANGED vars
  <2>1. UNCHANGED <<line, inbox, opened, begun, sent, op, want, session, kept, held, cache, walk,
                    result, trusted, authenticator>>
    BY <1>1 DEF vars, link, client, memory
  <2>2. QED
    BY <2>1 DEF Same
<1>2. CASE Unplug
  <2>1. /\ \A c \in Clients : line'[c] = << >> /\ inbox'[c] = << >>
        /\ opened' = opened /\ creds' = creds /\ pending' = {}
    BY <1>2 DEF Unplug, PowerCycle
  <2>2. UNCHANGED <<begun, sent, op, want, session, kept, held, cache, walk, result, trusted>>
    BY <1>2 DEF Unplug, memory
  <2>3. QED
    BY <2>1, <2>2 DEF Emptied
<1>3. ASSUME NEW c \in Clients, ClientNext(c)
      PROVE  /\ ClientStep(c) /\ (Rests(c) \/ \E r : Asks(c, r)) /\ UNCHANGED authenticator
             /\ \A d \in Clients \ {c} : Same(d)
  <2>1. ClientStep(c) /\ UNCHANGED authenticator
    BY <1>3 DEF ClientNext
  <2>2. Rests(c) \/ \E r : Asks(c, r)
    BY <2>1, OwnStep
  <2>3. \A d \in Clients \ {c} : Same(d)
    BY <2>1, OthersSame
  <2>4. QED
    BY <2>1, <2>2, <2>3
<1>4. ASSUME NEW c \in Clients, DeviceNext(c)
      PROVE  (\E i, p : Answered(c, i, p)) /\ \A d \in Clients \ {c} : Same(d)
  <2>1. PICK i, p : Serves(c, i, p)
    BY <1>4, ServeShape DEF DeviceNext
  <2>2. UNCHANGED <<begun, sent, op, want, session, kept, held, cache, walk, result, trusted>>
    BY <1>4 DEF DeviceNext, client, memory
  <2>3. Answered(c, i, p)
    BY <2>1, <2>2 DEF Answered
  <2>4. ASSUME NEW d \in Clients \ {c}
        PROVE  Same(d)
    <3>1. line'[d] = line[d] /\ inbox'[d] = inbox[d] /\ opened'[d] = opened[d]
      BY <2>1 DEF Serves, LinkOK
    <3>2. QED
      BY <2>2, <3>1 DEF Same
  <2>5. QED
    BY <2>3, <2>4
<1>5. QED
  BY <1>1, <1>2, <1>3, <1>4 DEF Next

\* The request a client waits for is the last of its line.
LEMMA LastOfLine ==
  ASSUME BaseInv, NEW c \in Clients, ChannelOf(c), trusted[c],
         NEW i \in DOMAIN line[c], ~Orphan(c, line[c][i])
  PROVE  i = Len(line[c])
<1>1. /\ line[c] \in Seq(Request) /\ NumbersOf(c) /\ opened[c] \in Nat
      /\ \A j \in DOMAIN line[c] : line[c][j].from[2] \in Nat
  BY QueueTypes
<1>2. DOMAIN line[c] = 1..Len(line[c]) /\ Len(line[c]) \in Nat /\ i \in 1..Len(line[c])
  BY <1>1, LenProperties
<1>3. ASSUME NEW j \in DOMAIN line[c], i < j
      PROVE  FALSE
  <2>1. line[c][i].from[2] < line[c][j].from[2]
    BY <1>1, <1>3 DEF NumbersOf
  <2>2. ~Orphan(c, line[c][j])
    BY <1>1, <2>1 DEF Orphan
  <2>3. line[c][i].from = line[c][j].from
    BY <2>2 DEF ChannelOf, Current
  <2>4. QED
    BY <1>1, <2>1, <2>3
<1>4. ~(i < Len(line[c]))
  <2>1. Len(line[c]) \in DOMAIN line[c]
    BY <1>2
  <2>2. QED
    BY <1>3, <2>1
<1>5. QED
  BY <1>2, <1>4

\* Once the authenticator has answered it in turn, nothing is left in the line.
LEMMA LastServed ==
  ASSUME BaseInv, NEW c \in Clients, ChannelOf(c), trusted[c],
         NEW k, NEW p, Answered(c, k, p), ~Orphan(c, line[c][k]), p.status # "denied"
  PROVE  line'[c] = << >>
<1>1. /\ line[c] \in Seq(Request) /\ k \in DOMAIN line[c] /\ k = 1
      /\ line'[c] = Without(line[c], k)
  BY QueueTypes DEF Answered, Serves, LinkOK
<1>2. Len(line[c]) = 1 /\ line[c] # << >>
  <2>1. k = Len(line[c])
    BY <1>1, LastOfLine
  <2>2. QED
    BY <1>1, <2>1, EmptySeq
<1>3. Tail(line[c]) = << >>
  <2>1. Len(line[c]) <= 1
    BY <1>2
  <2>2. QED
    BY <1>1, <1>2, <2>1, ShortTail
<1>4. Tail(line[c]) = Without(line[c], 1)
  BY <1>1, <1>2, TailIsWithout
<1>5. QED
  BY <1>1, <1>3, <1>4

\* The one reply a client that trusts its channel can take.
LEMMA TakesCurrent ==
  ASSUME LinkOK, NEW c \in Clients, ChannelOf(c), trusted[c], Take(c)
  PROVE  /\ Got(c) = inbox[c][1] /\ 1 \in DOMAIN inbox[c]
         /\ Got(c).of = <<c, sent[c]>> /\ Got(c).kind = want[c]
BY GotReply DEF ChannelOf, Current

(* Answers to a probe and to makeCredential. *)

LEMMA ProbeWaits ==
  ASSUME NEW o, NEW kind, o.name \in {"probe", "make"}, WaitsFor(o, kind)
  PROVE  IF o.name = "probe" THEN kind = "assert" ELSE kind \in {"agree", "token", "make"}
BY DEF WaitsFor

\* What they return is what the reply says, or that nothing was found.
LEMMA ReturnCases ==
  ASSUME LinkOK, MemoryOK, ClientOK, OperationInv, NEW c \in Clients, ClientStep(c),
         result'[c].res = "ok", op'[c].name \in {"probe", "make"}
  PROVE  /\ Take(c) /\ trusted' = trusted /\ op' = op /\ sent' = sent /\ line' = line
         /\ \/ /\ want[c] \in {"assert", "make"} /\ Fits(Got(c), want[c])
               /\ result'[c].cred = Got(c).id
            \/ op[c].name = "probe" /\ Got(c).status = "noCredentials" /\ result'[c].cred = {}
<1>. USE DEF MemoryOK, ClientOK
<1>1. ASSUME NEW outcome, Finish(c, outcome)
      PROVE  /\ op' = op /\ sent' = sent /\ line' = line /\ op[c].name \in {"probe", "make"}
             /\ result'[c] = outcome
  BY <1>1 DEF Finish
<1>2. ASSUME want[c] # "none"
      PROVE  WaitsFor(op[c], want[c]) /\ result[c] = NoResult
  BY <1>2 DEF OperationInv, OperationOf
<1>3. ASSUME NEW r, Take(c), Continue(c, r)
      PROVE  FALSE
  BY <1>2, <1>3, ErrorResults DEF Take, Continue
<1>4. ASSUME NEW kind, want[c] = kind, kind \notin {"assert", "agree", "token", "make", "none"}
      PROVE  op[c].name \notin {"probe", "make"}
  BY <1>2, <1>4, ProbeWaits
<1>5. /\ Done.cred = {} /\ \A cred, secrets : Ok(cred, secrets).cred = cred
  BY DEF Done, Ok, Outcome
<1>6. CASE Resume(c)
  <2>1. CASE OnCtapError(c)
    <3>1. PICK status : Finish(c, IF op[c].name = "probe" /\ Got(c).status = "noCredentials" THEN Done
                                  ELSE Outcome("ctap", status, {}, << >>))
      BY <2>1 DEF OnCtapError
    <3>2. op[c].name = "probe" /\ Got(c).status = "noCredentials" /\ result'[c] = Done
      BY <1>1, <3>1, ErrorResults
    <3>3. Take(c) /\ trusted' = trusted
      BY <2>1 DEF OnCtapError
    <3>4. QED
      BY <1>1, <1>5, <3>1, <3>2, <3>3
  <2>2. CASE OnMisfit(c) \/ OnGarbled(c) \/ OnTimeout(c)
    BY <1>1, <2>2, ErrorResults DEF OnMisfit, OnGarbled, OnTimeout
  <2>3. CASE OnInfo(c) \/ OnRetries(c) \/ OnEmpty(c)
    <3>1. want[c] \in {"info", "retries", "reset", "wink"} /\ Finish(c, Done)
      BY <2>3 DEF OnInfo, OnRetries, OnEmpty, Receives
    <3>2. QED
      BY <1>1, <1>4, <3>1
  <2>4. CASE OnAgreement(c)
    <3>1. Take(c)
      BY <2>4 DEF OnAgreement, Receives
    <3>2. CASE op[c].name = "session" /\ Finish(c, Done)
      BY <1>1, <3>2
    <3>3. QED
      BY <1>3, <2>4, <3>1, <3>2 DEF OnAgreement
  <2>5. CASE OnToken(c)
    <3>1. Take(c)
      BY <2>5 DEF OnToken, Receives
    <3>2. CASE op[c].name = "token" /\ Finish(c, Done)
      BY <1>1, <3>2
    <3>3. CASE Finish(c, Error("malformed"))
      BY <1>1, <3>3, ErrorResults
    <3>4. QED
      BY <1>3, <2>5, <3>1, <3>2, <3>3 DEF OnToken
  <2>6. CASE OnAssertion(c) \/ OnCredential(c)
    <3>1. /\ Take(c) /\ Fits(Got(c), want[c]) /\ trusted' = trusted
          /\ want[c] \in {"assert", "next", "make"} /\ Finish(c, Ok(Got(c).id, << >>))
      BY <2>6 DEF OnAssertion, OnCredential, Receives
    <3>2. want[c] # "next"
      BY <1>1, <1>4, <3>1
    <3>3. QED
      BY <1>1, <1>5, <3>1, <3>2
  <2>7. CASE OnSecret(c)
    <3>1. op[c].name = "secret" /\ Finish(c, SecretOutcome(c, Got(c)))
      BY <2>7 DEF OnSecret
    <3>2. QED
      BY <1>1, <3>1
  <2>8. QED
    BY <1>6, <2>1, <2>2, <2>3, <2>4, <2>5, <2>6, <2>7 DEF Resume
<1>7. ASSUME NEW o \in Op, NEW r, Start(c, o, r)
      PROVE  FALSE
  BY <1>7, ErrorResults DEF Start
<1>8. ASSUME NEW o \in Op, NEW outcome, Immediately(c, o, outcome),
             (outcome = Done /\ o.name = "info") \/ outcome = Error("malformed")
      PROVE  FALSE
  <2>1. op'[c] = o /\ result'[c] = outcome
    BY <1>8 DEF Immediately, Begin
  <2>2. QED
    BY <1>8, <2>1, ErrorResults
<1>9. CASE Invoke(c)
  BY <1>7, <1>8, <1>9, InvokeCases
<1>10. CASE Open(c)
  <2>1. result'[c] = NoResult \/ result'[c] = Error("hid")
    BY <1>10 DEF Open
  <2>2. QED
    BY <2>1, ErrorResults
<1>11. ASSUME NEW o, List(c, o)
       PROVE  FALSE
  BY <1>11 DEF List, Begin
<1>12. QED
  BY <1>6, <1>9, <1>10, <1>11 DEF ClientStep

\* The requests of a line are different ones.
LEMMA OneOfEach ==
  ASSUME LinkOK, NEW c \in Clients, NumbersOf(c), NEW i \in DOMAIN line[c], NEW j \in DOMAIN line[c],
         i # j
  PROVE  line[c][i].from # line[c][j].from
<1>1. DOMAIN line[c] = 1..Len(line[c]) /\ Len(line[c]) \in Nat
  BY LenProperties DEF LinkOK
<1>2. line[c][i] \in Request /\ line[c][j] \in Request
  BY ElementOfSeq, <1>1 DEF LinkOK
<1>3. line[c][i].from[2] \in Nat /\ line[c][j].from[2] \in Nat
  BY <1>2, RequestFields DEF Call
<1>4. i < j \/ j < i
  BY <1>1
<1>5. QED
  BY <1>3, <1>4 DEF NumbersOf

\* Once: a request that was carried out is in no line, and what is carried out
\* leaves the line it was in.
LEMMA ServedStep == BaseInv /\ ServedInv /\ [Next]_vars => ServedInv'
<1>. SUFFICES ASSUME BaseInv, ServedInv, [Next]_vars, NEW c \in Clients,
                     NEW d \in done', d.from[1] = c
              PROVE  /\ d.from[2] <= sent'[c]
                     /\ \A i \in DOMAIN line'[c] : line'[c][i].from # d.from
  BY DEF ServedInv, ServedOf
<1>. /\ ServedOf(c) /\ NumbersOf(c) /\ TypeOK /\ OperationInv /\ NumberInv /\ LinkOK
     /\ AuthenticatorOK /\ sent[c] \in Nat
  BY DEF ServedInv, BaseInv, NumberInv, TypeOK, ClientOK
<1>1. ASSUME d \in done
      PROVE  /\ d.from[2] <= sent'[c]
             /\ \A i \in DOMAIN line'[c] : line'[c][i].from # d.from
  <2>1. d.from[2] \in Nat /\ d.from[2] <= sent[c] /\ \A i \in DOMAIN line[c] : line[c][i].from # d.from
    BY <1>1 DEF ServedOf, AuthenticatorOK, Call
  <2>2. CASE Same(c) \/ Rests(c)
    BY <2>1, <2>2 DEF Same, Rests
  <2>3. ASSUME NEW r, Asks(c, r)
        PROVE  /\ d.from[2] <= sent'[c]
               /\ \A i \in DOMAIN line'[c] : line'[c][i].from # d.from
    <3>1. sent'[c] = sent[c] + 1 /\ r.from = <<c, sent[c] + 1>>
      BY <2>3 DEF Asks, Belongs, NextCall
    <3>2. r.from # d.from
      BY <2>1, <3>1
    <3>3. QED
      BY <2>1, <2>3, <3>1, <3>2, AskedBefore
  <2>4. ASSUME NEW k, NEW p, Answered(c, k, p)
        PROVE  /\ d.from[2] <= sent'[c]
               /\ \A i \in DOMAIN line'[c] : line'[c][i].from # d.from
    <3>1. sent'[c] = sent[c]
      BY <2>4 DEF Answered
    <3>2. QED
      BY <2>1, <2>4, <3>1, AnsweredBefore
  <2>5. CASE Emptied(c)
    <3>1. sent'[c] = sent[c]
      BY <2>5 DEF Emptied
    <3>2. QED
      BY <2>1, <2>5, <3>1, NothingAfterEmptied
  <2>6. QED
    BY <2>2, <2>3, <2>4, <2>5, StepShapes
<1>2. ASSUME d \notin done, NEW e \in Clients, DeviceNext(e)
      PROVE  /\ d.from[2] <= sent'[c]
             /\ \A i \in DOMAIN line'[c] : line'[c][i].from # d.from
  <2>1. PICK k \in DOMAIN line[e] : /\ d.from = line[e][k].from
                                    /\ line' = [line EXCEPT ![e] = Without(@, k)]
    BY <1>2, DoneCases DEF DeviceNext, Carried
  <2>2. e = c
    BY <2>1 DEF NumberInv, NumbersOf
  <2>3. sent' = sent /\ d.from[2] <= sent[c]
    BY <1>2, <2>1, <2>2 DEF DeviceNext, client, NumbersOf
  <2>4. line[c] \in Seq(Request) /\ line'[c] = Without(line[c], k) /\ k \in DOMAIN line[c]
    BY <2>1, <2>2 DEF LinkOK
  <2>5. ASSUME NEW i \in DOMAIN line'[c]
        PROVE  line'[c][i].from # d.from
    <3>1. Was(k, i) \in DOMAIN line[c] \ {k} /\ line'[c][i] = line[c][Was(k, i)]
      BY <2>4, WithoutProperties
    <3>2. QED
      BY <2>1, <2>2, <2>4, <3>1, OneOfEach
  <2>6. QED
    BY <2>3, <2>5
<1>3. QED
  BY <1>1, <1>2 DEF Next, Unplug, PowerCycle, ClientNext, authenticator, vars

\* MadeBy after a step.
MadeAfter(of) == {d.cred : d \in {e \in done' : e.kind = "make" /\ e.from = of}}

\* What was made for a request stays what was made for it.
LEMMA MadeStays ==
  ASSUME BaseInv, ServedInv, [Next]_vars, NEW of, MadeBy(of) # {}
  PROVE  MadeAfter(of) = MadeBy(of)
<1>. LinkOK
  BY DEF BaseInv, TypeOK
<1>1. PICK d \in done : d.kind = "make" /\ d.from = of
  BY DEF MadeBy
<1>2. CASE done' = done
  BY <1>2 DEF MadeBy, MadeAfter
<1>3. ASSUME NEW e \in Clients, DeviceNext(e)
      PROVE  MadeAfter(of) = MadeBy(of)
  <2>1. ASSUME NEW k \in DOMAIN line[e], NEW cred, done' = done \cup {Carried(line[e][k], cred)}
        PROVE  MadeAfter(of) = MadeBy(of)
    <3>1. line[e][k].from # of
      BY <1>1 DEF ServedInv, ServedOf, BaseInv, NumberInv, NumbersOf
    <3>2. Carried(line[e][k], cred).from # of
      BY <3>1 DEF Carried
    <3>3. QED
      BY <2>1, <3>2 DEF MadeBy, MadeAfter
  <2>2. QED
    BY <1>2, <1>3, <2>1, DoneCases DEF DeviceNext
<1>4. QED
  BY <1>2, <1>3 DEF Next, Unplug, PowerCycle, ClientNext, authenticator, vars

AnswersAsked(c, r) ==
  r.kind = "assert" /\ ~(r.from[2] <= opened'[c]) /\ op'[c].name = "probe" => r.allow = op'[c].allow

AnswersReplied(c, p) ==
  p.status = "ok" =>
    /\ p.kind = "assert" /\ op'[c].name = "probe" => ProbeReply(op'[c], p)
    /\ p.kind = "make" => MadeAfter(p.of) = {p.id}

LEMMA AnswerStep == BaseInv /\ TrustInv /\ ServedInv /\ AnswerInv /\ [Next]_vars => AnswerInv'
<1>. SUFFICES ASSUME BaseInv, TrustInv, ServedInv, AnswerInv, [Next]_vars, NEW c \in Clients, trusted'[c]
              PROVE  /\ \A i \in DOMAIN line'[c] : AnswersAsked(c, line'[c][i])
                     /\ \A i \in DOMAIN inbox'[c] : AnswersReplied(c, inbox'[c][i])
  BY DEF AnswerInv, AnswersOf, ProbeReply, MadeBy, MadeAfter, Orphan, AnswersAsked, AnswersReplied
<1>. AnswersOf(c) /\ ChannelOf(c) /\ TypeOK /\ OperationInv /\ NumberInv /\ LinkOK
  BY DEF TrustInv, AnswerInv, BaseInv, TypeOK
<1>1. ASSUME trusted[c], op'[c] = op[c], opened'[c] = opened[c], NEW i \in DOMAIN line[c]
      PROVE  AnswersAsked(c, line[c][i])
  BY <1>1 DEF AnswersOf, Orphan, AnswersAsked
<1>2. ASSUME trusted[c], op'[c] = op[c], NEW i \in DOMAIN inbox[c]
      PROVE  AnswersReplied(c, inbox[c][i])
  BY <1>2, MadeStays DEF AnswersOf, AnswersReplied
<1>3. ASSUME inbox'[c] = << >>, NEW i \in DOMAIN inbox'[c]
      PROVE  FALSE
  BY <1>3, EmptySeq, LenProperties
<1>4. CASE Same(c) /\ Elsewhere(c)
  BY <1>1, <1>2, <1>4 DEF Same, Elsewhere
<1>5. CASE Rests(c)
  <2>1. Hears(c) /\ line'[c] = line[c]
    BY <1>5 DEF Rests
  <2>2. inbox'[c] = << >> /\ \A i \in DOMAIN line[c] : line[c][i].from[2] <= opened'[c]
    BY <2>1, HeardAll
  <2>3. QED
    BY <1>3, <2>1, <2>2 DEF AnswersAsked
<1>6. ASSUME NEW r, Asks(c, r)
      PROVE  /\ \A i \in DOMAIN line'[c] : AnswersAsked(c, line'[c][i])
             /\ \A i \in DOMAIN inbox'[c] : AnswersReplied(c, inbox'[c][i])
  <2>1. Hears(c) /\ (r.kind = "assert" => r.allow = op'[c].allow)
    BY <1>6 DEF Asks, Belongs
  <2>2. inbox'[c] = << >> /\ \A i \in DOMAIN line[c] : line[c][i].from[2] <= opened'[c]
    BY <2>1, HeardAll
  <2>3. QED
    BY <1>3, <1>6, <2>1, <2>2, AskedBefore DEF AnswersAsked
<1>7. ASSUME NEW k, NEW p, Answered(c, k, p)
      PROVE  /\ \A i \in DOMAIN line'[c] : AnswersAsked(c, line'[c][i])
             /\ \A i \in DOMAIN inbox'[c] : AnswersReplied(c, inbox'[c][i])
  <2>. DEFINE r == line[c][k]
  <2>1. /\ trusted[c] /\ op'[c] = op[c] /\ opened'[c] = opened[c]
        /\ k \in DOMAIN line[c] /\ p.of = r.from /\ p.kind = r.kind /\ Effect(r, p)
    BY <1>7 DEF Answered, Serves, Answers
  <2>2. \A i \in DOMAIN line'[c] : AnswersAsked(c, line'[c][i])
    BY <1>1, <1>7, <2>1, AnsweredBefore
  <2>3. ASSUME ~Orphan(c, r), p.status = "ok", p.kind = "assert", op[c].name = "probe"
        PROVE  ProbeReply(op[c], p)
    <3>1. Signs(r, p) /\ r.allow = op[c].allow
      BY <2>1, <2>3 DEF Effect, AnswersOf
    <3>2. PICK cred \in Candidates(r) : p.id \subseteq {cred} /\ (p.id = {} => Cardinality(r.allow) = 1)
      BY <3>1 DEF Signs
    <3>3. r.allow # {} => cred \in r.allow
      BY <3>2 DEF Candidates
    <3>4. QED
      BY <3>1, <3>2, <3>3 DEF ProbeReply
  <2>4. ASSUME ~Orphan(c, r), p.status = "ok", p.kind = "make"
        PROVE  MadeAfter(p.of) = {p.id}
    <3>1. done' = done \cup {Carried(r, p.id)}
      BY <2>1, <2>4 DEF Effect
    <3>2. /\ Carried(r, p.id).kind = "make" /\ Carried(r, p.id).from = p.of
          /\ Carried(r, p.id).cred = p.id
      BY <2>1, <2>4 DEF Carried
    <3>3. \A d \in done : d.from # p.of
      BY <2>1 DEF ServedInv, ServedOf, NumberInv, NumbersOf
    <3>4. QED
      BY <3>1, <3>2, <3>3 DEF MadeAfter
  <2>5. ~Orphan(c, r) => AnswersReplied(c, p)
    BY <2>1, <2>3, <2>4 DEF AnswersReplied
  <2>6. \A i \in DOMAIN inbox'[c] : AnswersReplied(c, inbox'[c][i])
    BY <1>2, <1>7, <2>1, <2>5, AnsweredBefore
  <2>7. QED
    BY <2>2, <2>6
<1>8. CASE Emptied(c)
  BY <1>8, NothingAfterEmptied
<1>9. QED
  BY <1>4, <1>5, <1>6, <1>7, <1>8, StepShapes

\* What c returns is the answer to the request it sent last.
LEMMA FitsStep ==
  /\ BaseInv /\ TrustInv /\ ServedInv /\ AnswerInv /\ ProbeFitsList /\ CredentialIsOfThisCall
  /\ [Next]_vars
  => ProbeFitsList' /\ CredentialIsOfThisCall'
<1>. SUFFICES ASSUME BaseInv, TrustInv, ServedInv, AnswerInv, ProbeFitsList, CredentialIsOfThisCall,
                     [Next]_vars, NEW c \in Clients, trusted'[c], result'[c].res = "ok",
                     op'[c].name \in {"probe", "make"}
              PROVE  /\ op'[c].name = "probe" /\ op'[c].allow # {} => result'[c].cred \subseteq op'[c].allow
                     /\ op'[c].name = "make" => MadeAfter(<<c, sent'[c]>>) = {result'[c].cred}
  BY DEF ProbeFitsList, CredentialIsOfThisCall, Returned, MadeBy, MadeAfter
<1>. /\ AnswersOf(c) /\ ChannelOf(c) /\ TypeOK /\ OperationInv /\ NumberInv
     /\ LinkOK /\ MemoryOK /\ ClientOK
  BY DEF TrustInv, AnswerInv, BaseInv, TypeOK
<1>1. CASE op'[c] = op[c] /\ sent'[c] = sent[c] /\ result'[c] = result[c] /\ trusted'[c] = trusted[c]
  <2>1. op[c].name = "make" => MadeBy(<<c, sent[c]>>) = {result[c].cred}
    BY <1>1 DEF CredentialIsOfThisCall, Returned
  <2>2. QED
    BY <1>1, <2>1, MadeStays DEF ProbeFitsList, Returned
<1>2. CASE ClientStep(c) /\ UNCHANGED authenticator
  <2>1. /\ Take(c) /\ trusted' = trusted /\ op' = op /\ sent' = sent
        /\ \/ /\ want[c] \in {"assert", "make"} /\ Fits(Got(c), want[c])
              /\ result'[c].cred = Got(c).id
           \/ op[c].name = "probe" /\ Got(c).status = "noCredentials" /\ result'[c].cred = {}
    BY <1>2, ReturnCases
  <2>2. /\ Got(c) = inbox[c][1] /\ 1 \in DOMAIN inbox[c]
        /\ Got(c).of = <<c, sent[c]>> /\ Got(c).kind = want[c]
    BY <2>1, TakesCurrent
  <2>3. WaitsFor(op[c], want[c]) /\ done' = done
    BY <1>2, <2>1 DEF Take, OperationInv, OperationOf, authenticator
  <2>4. CASE op[c].name = "probe" /\ Fits(Got(c), want[c]) /\ result'[c].cred = Got(c).id
    <3>1. Got(c).kind = "assert" /\ Got(c).status = "ok"
      BY <2>2, <2>3, <2>4, ProbeWaits DEF Fits
    <3>2. ProbeReply(op[c], Got(c))
      BY <2>1, <2>2, <2>4, <3>1 DEF AnswersOf
    <3>3. QED
      BY <2>1, <2>4, <3>2 DEF ProbeReply
  <2>5. CASE op[c].name = "probe" /\ result'[c].cred = {}
    BY <2>1, <2>5
  <2>6. CASE /\ op[c].name = "make" /\ want[c] \in {"assert", "make"} /\ Fits(Got(c), want[c])
             /\ result'[c].cred = Got(c).id
    <3>1. Got(c).kind = "make" /\ Got(c).status = "ok"
      BY <2>2, <2>3, <2>6, ProbeWaits DEF Fits
    <3>2. MadeBy(<<c, sent[c]>>) = {Got(c).id}
      BY <2>1, <2>2, <3>1 DEF AnswersOf
    <3>3. MadeAfter(<<c, sent[c]>>) = MadeBy(<<c, sent[c]>>)
      BY <2>3 DEF MadeBy, MadeAfter
    <3>4. QED
      BY <2>1, <2>6, <3>2, <3>3
  <2>7. QED
    BY <2>1, <2>4, <2>5, <2>6
<1>3. QED
  BY <1>1, <1>2, StepShapes DEF Same, Answered, Emptied

AnswerBase ==
  BaseInv /\ TrustInv /\ ServedInv /\ AnswerInv /\ ProbeFitsList /\ CredentialIsOfThisCall

LEMMA NothingInitially ==
  ASSUME Init, NEW c \in Clients
  PROVE  /\ DOMAIN line[c] = {} /\ DOMAIN inbox[c] = {} /\ result[c] = NoResult
         /\ walk[c] = << >> /\ pending = {} /\ want[c] = "none"
<1>1. DOMAIN << >> = {}
  OBVIOUS
<1>2. QED
  BY <1>1 DEF Init, ClientInit, Ctap2DeviceInit

LEMMA AnswerInvariant == Spec => []AnswerBase
<1>1. BaseInv /\ [Next]_vars => BaseInv'
  BY TypeStep, OperationStep, NumberStep DEF BaseInv
<1>2. AnswerBase /\ [Next]_vars => AnswerBase'
  BY <1>1, TrustStep, ServedStep, AnswerStep, FitsStep DEF AnswerBase
<1>3. Init => AnswerBase
  <2>1. Init => BaseInv /\ TrustInv
    BY TrustInitially DEF TrustBase
  <2>2. Init => AnswerInv
    BY NothingInitially DEF AnswerInv, AnswersOf
  <2>3. Init => ProbeFitsList /\ CredentialIsOfThisCall
    BY NothingInitially, ErrorResults DEF ProbeFitsList, CredentialIsOfThisCall, Returned
  <2>4. Init => ServedInv
    BY DEF Init, Ctap2DeviceInit, ServedInv, ServedOf
  <2>5. QED
    BY <2>1, <2>2, <2>3, <2>4 DEF AnswerBase
<1>4. QED
  BY <1>2, <1>3, PTL DEF Spec

\* On a channel no exchange of which failed a probe names a credential of its list.
THEOREM Ctap2ProbeFits == Spec => []ProbeFitsList
<1>1. AnswerBase => ProbeFitsList
  BY DEF AnswerBase
<1>2. QED
  BY <1>1, AnswerInvariant, PTL

\* On a channel no exchange of which failed make_credential returns the credential
\* that its own request created, and that request created no other, however many
\* credentials earlier calls and other clients have made.
THEOREM Ctap2CredentialOfThisCall == Spec => []CredentialIsOfThisCall
<1>1. AnswerBase => CredentialIsOfThisCall
  BY DEF AnswerBase
<1>2. QED
  BY <1>1, AnswerInvariant, PTL

(* A client that has the authenticator for itself. *)

Alone == \A c, d \in Clients : c = d

\* What a step is then: nothing changes the authenticator between its own.
LEMMA AloneSteps ==
  ASSUME Alone, BaseInv, [Next]_vars, NEW c \in Clients
  PROVE  \/ Same(c) /\ UNCHANGED authenticator
         \/ ClientStep(c) /\ (Rests(c) \/ \E r : Asks(c, r)) /\ UNCHANGED authenticator
         \/ \E i, p : Answered(c, i, p)
         \/ Emptied(c) /\ creds' = creds
BY StepOf DEF Alone

LEMMA ProbeStep ==
  ASSUME Alone, BaseInv, TrustInv, AnswerInv, ProbeInv, [Next]_vars
  PROVE  ProbeInv'
<1>. SUFFICES ASSUME NEW c \in Clients, trusted'[c]
              PROVE  /\ \A i \in DOMAIN inbox'[c] :
                          inbox'[c][i].status = "noCredentials" /\ op'[c].name = "probe" =>
                            line'[c] = << >> /\ op'[c].allow \cap creds' = {}
                     /\ (op'[c].name = "probe" /\ result'[c].res = "ok")
                          /\ result'[c].cred = {} /\ Cardinality(op'[c].allow) # 1 =>
                            line'[c] = << >> /\ op'[c].allow \cap creds' = {}
  BY DEF ProbeInv, ProbesOf, NothingFound, Returned, AbsentFor, Absent
<1>. /\ ProbesOf(c) /\ AnswersOf(c) /\ ChannelOf(c) /\ TypeOK /\ OperationInv /\ NumberInv
     /\ LinkOK /\ MemoryOK /\ ClientOK
  BY DEF TrustInv, AnswerInv, ProbeInv, BaseInv, TypeOK
<1>. USE DEF AbsentFor, Absent, NothingFound, Returned
<1>1. CASE Same(c) /\ UNCHANGED authenticator
  BY <1>1 DEF Same, authenticator, ProbesOf
<1>2. CASE ClientStep(c) /\ (Rests(c) \/ \E r : Asks(c, r)) /\ UNCHANGED authenticator
  <2>1. inbox'[c] = << >>
    BY <1>2, HeardAll DEF Rests, Asks
  <2>2. DOMAIN inbox'[c] = {}
    BY <2>1, EmptySeq, LenProperties
  <2>3. ASSUME op'[c].name = "probe", result'[c].res = "ok", result'[c].cred = {},
               Cardinality(op'[c].allow) # 1
        PROVE  line'[c] = << >> /\ op'[c].allow \cap creds' = {}
    <3>1. /\ Take(c) /\ trusted' = trusted /\ op' = op /\ line' = line
          /\ \/ /\ want[c] \in {"assert", "make"} /\ Fits(Got(c), want[c])
                /\ result'[c].cred = Got(c).id
             \/ op[c].name = "probe" /\ Got(c).status = "noCredentials" /\ result'[c].cred = {}
      BY <1>2, <2>3, ReturnCases
    <3>2. Got(c) = inbox[c][1] /\ 1 \in DOMAIN inbox[c] /\ Got(c).kind = want[c]
      BY <3>1, TakesCurrent
    <3>3. want[c] = "assert"
      BY <2>3, <3>1, ProbeWaits DEF Take, OperationInv, OperationOf
    <3>4. ~Fits(Got(c), want[c]) \/ Got(c).id # {}
      BY <2>3, <3>1, <3>2, <3>3 DEF AnswersOf, ProbeReply, Fits
    <3>5. Got(c).status = "noCredentials"
      BY <2>3, <3>1, <3>4
    <3>6. line[c] = << >> /\ op[c].allow \cap creds = {}
      BY <2>3, <3>1, <3>2, <3>5 DEF ProbesOf
    <3>7. QED
      BY <1>2, <3>1, <3>6 DEF authenticator
  <2>4. QED
    BY <2>2, <2>3
<1>3. ASSUME NEW k, NEW p, Answered(c, k, p)
      PROVE  /\ \A i \in DOMAIN inbox'[c] :
                  inbox'[c][i].status = "noCredentials" /\ op'[c].name = "probe" =>
                    line'[c] = << >> /\ op'[c].allow \cap creds' = {}
             /\ ~(/\ op'[c].name = "probe" /\ result'[c].res = "ok"
                  /\ result'[c].cred = {} /\ Cardinality(op'[c].allow) # 1)
  <2>. DEFINE r == line[c][k]
  <2>1. /\ trusted[c] /\ op'[c] = op[c] /\ result'[c] = result[c]
        /\ k \in DOMAIN line[c] /\ p.of = r.from /\ p.kind = r.kind /\ Effect(r, p)
    BY <1>3 DEF Answered, Serves, Answers
  <2>2. line[c] # << >>
    BY <2>1, EmptySeq, LenProperties
  <2>3. ASSUME ~Orphan(c, r), p.status = "noCredentials", op[c].name = "probe"
        PROVE  line'[c] = << >> /\ op[c].allow \cap creds' = {}
    <3>1. line'[c] = << >>
      BY <1>3, <2>1, <2>3, LastServed
    <3>2. r.kind = "assert" /\ Candidates(r) = {} /\ creds' \subseteq creds
      BY <2>1, <2>3 DEF Effect
    <3>3. r.allow = op[c].allow
      BY <2>1, <2>3, <3>2 DEF AnswersOf
    <3>4. r.allow \cap creds = {}
      BY <3>2 DEF Candidates
    <3>5. QED
      BY <3>1, <3>2, <3>3, <3>4
  <2>4. \A i \in DOMAIN inbox[c] : ~(inbox[c][i].status = "noCredentials" /\ op[c].name = "probe")
    BY <2>1, <2>2 DEF ProbesOf
  <2>5. QED
    BY <1>3, <2>1, <2>2, <2>3, <2>4, AnsweredBefore DEF ProbesOf
<1>4. CASE Emptied(c) /\ creds' = creds
  <2>1. DOMAIN inbox'[c] = {} /\ line'[c] = << >> /\ op'[c] = op[c] /\ result'[c] = result[c]
        /\ trusted'[c] = trusted[c]
    BY <1>4, NothingAfterEmptied DEF Emptied
  <2>2. QED
    BY <1>4, <2>1 DEF ProbesOf
<1>5. QED
  BY <1>1, <1>2, <1>3, <1>4, AloneSteps

\* A probe for several credentials that found none is right, of a client that
\* has the authenticator for itself: another one could make them in between.
THEOREM Ctap2NoneOfSeveral ==
  ASSUME \A c, d \in Clients : c = d
  PROVE  Spec => []NoneOfSeveral
<1>1. Alone
  BY DEF Alone
<1>2. AnswerBase /\ ProbeInv /\ [Next]_vars => ProbeInv'
  BY <1>1, ProbeStep DEF AnswerBase
<1>3. Init => ProbeInv
  BY NothingInitially, ErrorResults DEF ProbeInv, ProbesOf, NothingFound, Returned
<1>4. Spec => []ProbeInv
  BY <1>2, <1>3, AnswerInvariant, PTL DEF Spec
<1>5. ProbeInv => NoneOfSeveral
  BY DEF ProbeInv, ProbesOf, NothingFound, AbsentFor, NoneOfSeveral
<1>6. QED
  BY <1>4, <1>5, PTL

(* The key a PIN is sealed under. *)

\* A PIN is asked for with the key of a reply, and ends an operation with its status.
LEMMA KeyCases ==
  ASSUME LinkOK, MemoryOK, ClientOK, OperationInv, NEW c \in Clients, ClientStep(c)
  PROVE  /\ want[c] = "agree" /\ want'[c] # "none" => Fits(Got(c), "agree")
         /\ result'[c].res = "ctap" =>
              /\ Take(c) /\ trusted' = trusted /\ op' = op /\ session' = session
              /\ result'[c].status = Got(c).status
<1>. USE DEF MemoryOK, ClientOK
<1>1. ASSUME NEW outcome, Finish(c, outcome), want'[c] # "none"
      PROVE  FALSE
  BY <1>1 DEF Finish
<1>2. ASSUME NEW outcome, Finish(c, outcome), outcome.res # "ctap"
      PROVE  result'[c].res # "ctap"
  <2>1. Ok({TheDevice}, << >>).res = "ok"
    BY DEF Ok, Outcome
  <2>2. QED
    BY <1>2, <2>1, ErrorResults DEF Finish
<1>3. ASSUME NEW r, Continue(c, r), Take(c)
      PROVE  result'[c].res # "ctap"
  BY <1>3, ErrorResults DEF Take, Continue, OperationInv, OperationOf
<1>4. \A cred, secrets : Ok(cred, secrets).res = "ok"
  BY DEF Ok, Outcome
<1>5. CASE OnCtapError(c)
  <2>. DEFINE out == IF op[c].name = "probe" /\ Got(c).status = "noCredentials" THEN Done
                     ELSE Outcome("ctap", Got(c).status, {}, << >>)
  <2>1. Take(c) /\ trusted' = trusted /\ session' = session /\ Finish(c, out)
    BY <1>5 DEF OnCtapError
  <2>2. op' = op /\ want'[c] = "none" /\ result'[c] \in {out, Done, Ok({TheDevice}, << >>)}
    BY <2>1 DEF Finish
  <2>3. result'[c].res = "ctap" => result'[c] = Outcome("ctap", Got(c).status, {}, << >>)
    BY <1>4, <2>2, ErrorResults
  <2>4. Outcome("ctap", Got(c).status, {}, << >>).status = Got(c).status
    BY DEF Outcome
  <2>5. QED
    BY <2>1, <2>2, <2>3, <2>4
<1>6. CASE OnMisfit(c) \/ OnGarbled(c) \/ OnTimeout(c)
  <2>1. \E res \in {"malformed", "hid"} : Finish(c, Error(res))
    BY <1>6 DEF OnMisfit, OnGarbled, OnTimeout
  <2>2. QED
    BY <1>1, <1>2, <2>1, ErrorResults
<1>7. CASE OnInfo(c) \/ OnRetries(c) \/ OnEmpty(c)
  <2>1. Finish(c, Done)
    BY <1>7 DEF OnInfo, OnRetries, OnEmpty
  <2>2. QED
    BY <1>1, <1>2, <2>1, ErrorResults
<1>8. CASE OnAgreement(c)
  <2>1. Take(c) /\ Fits(Got(c), "agree")
    BY <1>8 DEF OnAgreement, Receives
  <2>2. Finish(c, Done) \/ \E r : Continue(c, r)
    BY <1>8 DEF OnAgreement
  <2>3. QED
    BY <1>2, <1>3, <2>1, <2>2, ErrorResults
<1>9. CASE OnToken(c)
  <2>1. Take(c) /\ want[c] = "token"
    BY <1>9 DEF OnToken, Receives
  <2>2. Finish(c, Done) \/ Finish(c, Error("malformed")) \/ \E r : Continue(c, r)
    BY <1>9 DEF OnToken
  <2>3. QED
    BY <1>2, <1>3, <2>1, <2>2, ErrorResults
<1>10. CASE OnAssertion(c) \/ OnCredential(c)
  <2>1. Finish(c, Ok(Got(c).id, << >>))
    BY <1>10 DEF OnAssertion, OnCredential
  <2>2. QED
    BY <1>1, <1>2, <1>4, <2>1
<1>11. CASE OnSecret(c)
  <2>1. Finish(c, SecretOutcome(c, Got(c)))
    BY <1>11 DEF OnSecret
  <2>2. SecretOutcome(c, Got(c)).res # "ctap"
    BY <1>4, ErrorResults DEF SecretOutcome
  <2>3. QED
    BY <1>1, <1>2, <2>1, <2>2
<1>12. CASE Resume(c)
  BY <1>5, <1>6, <1>7, <1>8, <1>9, <1>10, <1>11, <1>12 DEF Resume
<1>13. ASSUME want[c] = "none", result'[c].res # "ctap"
       PROVE  /\ want[c] = "agree" /\ want'[c] # "none" => Fits(Got(c), "agree")
              /\ result'[c].res = "ctap" =>
                   /\ Take(c) /\ trusted' = trusted /\ op' = op /\ session' = session
                   /\ result'[c].status = Got(c).status
  BY <1>13
<1>14. CASE Invoke(c)
  <2>1. PICK o \in Op : \/ \E r : Start(c, o, r)
                        \/ \E outcome \in {Done, Error("malformed")} : Immediately(c, o, outcome)
    BY <1>14, InvokeCases
  <2>2. want[c] = "none" /\ result'[c] \in {NoResult, Error("hid"), Done, Error("malformed")}
    BY <2>1 DEF Start, Immediately, Begin
  <2>3. QED
    BY <1>13, <2>2, ErrorResults
<1>15. CASE Open(c)
  <2>1. want[c] = "none" /\ result'[c] \in {NoResult, Error("hid")}
    BY <1>15 DEF Open
  <2>2. QED
    BY <1>13, <2>1, ErrorResults
<1>16. ASSUME NEW o, List(c, o)
       PROVE  want[c] = "none" /\ result'[c] \in {NoResult, Done}
  BY <1>16 DEF List, Begin
<1>17. QED
  BY <1>12, <1>13, <1>14, <1>15, <1>16, ErrorResults DEF ClientStep

KeyAsked(c, i, r) ==
  r.kind = "token" /\ ~(r.from[2] <= opened'[c]) /\ op'[c].name # "token" =>
    i = 1 /\ r.pin = {Box([dev |-> keyEpoch', plat |-> r.plat], op'[c].pin)}

KeyReplied(c, p) ==
  /\ p.kind = "agree" /\ p.status = "ok" => p.key = keyEpoch' /\ line'[c] = << >>
  /\ p.status = "pinInvalid" /\ op'[c].name # "token" => op'[c].pin = "wrong"

LEMMA KeyStep ==
  ASSUME Alone, BaseInv, TrustInv, KeyInv, [Next]_vars
  PROVE  KeyInv'
<1>. SUFFICES ASSUME NEW c \in Clients, trusted'[c]
              PROVE  /\ \A i \in DOMAIN inbox'[c] : KeyReplied(c, inbox'[c][i])
                     /\ \A i \in DOMAIN line'[c] : KeyAsked(c, i, line'[c][i])
  BY DEF KeyInv, KeyOf, Shared, Orphan, KeyAsked, KeyReplied
<1>. /\ KeyOf(c) /\ ChannelOf(c) /\ TypeOK /\ OperationInv /\ NumberInv
     /\ LinkOK /\ MemoryOK /\ ClientOK
  BY DEF TrustInv, KeyInv, BaseInv, TypeOK
<1>1. CASE Same(c) /\ UNCHANGED authenticator
  BY <1>1 DEF Same, authenticator, KeyOf, KeyAsked, KeyReplied, Shared, Orphan
<1>2. CASE ClientStep(c) /\ (Rests(c) \/ \E r : Asks(c, r)) /\ UNCHANGED authenticator
  <2>1. inbox'[c] = << >> /\ \A i \in DOMAIN line[c] : line[c][i].from[2] <= opened'[c]
    BY <1>2, HeardAll DEF Rests, Asks
  <2>2. DOMAIN inbox'[c] = {}
    BY <2>1, EmptySeq, LenProperties
  <2>3. CASE Rests(c)
    BY <2>1, <2>2, <2>3 DEF Rests, KeyAsked
  <2>4. ASSUME NEW r, Asks(c, r)
        PROVE  \A i \in DOMAIN line'[c] : KeyAsked(c, i, line'[c][i])
    <3>1. ASSUME r.kind = "token", op'[c].name # "token"
          PROVE  /\ line[c] = << >>
                 /\ r.pin = {Box([dev |-> keyEpoch', plat |-> r.plat], op'[c].pin)}
      <4>1. /\ want[c] = "agree" /\ session'[c] = NewSession(c) /\ r.plat = session'[c].plat
            /\ r.pin = {Box(session'[c], op'[c].pin)}
        BY <2>4, <3>1 DEF Asks, Belongs
      <4>2. Take(c) /\ want'[c] = "token" /\ trusted[c]
        BY <2>4, <3>1, <4>1 DEF Asks, Hears
      <4>3. Got(c).kind = "agree" /\ Got(c) = inbox[c][1] /\ 1 \in DOMAIN inbox[c]
        BY <4>1, <4>2, TakesCurrent
      <4>4. Got(c).status = "ok"
        BY <1>2, <4>1, <4>2, KeyCases DEF Fits
      <4>5. Got(c).key = keyEpoch /\ line[c] = << >>
        BY <4>2, <4>3, <4>4 DEF KeyOf
      <4>6. session'[c] = [dev |-> keyEpoch', plat |-> r.plat]
        BY <1>2, <4>1, <4>5 DEF NewSession, authenticator
      <4>7. QED
        BY <4>1, <4>5, <4>6
    <3>2. ASSUME NEW i \in DOMAIN line'[c]
          PROVE  KeyAsked(c, i, line'[c][i])
      <4>1. CASE i \in DOMAIN line[c] /\ line'[c][i] = line[c][i]
        BY <2>1, <4>1 DEF KeyAsked
      <4>2. CASE i = Len(line[c]) + 1 /\ line'[c][i] = r
        <5>1. line[c] = << >> => i = 1
          BY <4>2
        <5>2. QED
          BY <3>1, <4>2, <5>1 DEF KeyAsked
      <4>3. QED
        BY <2>4, <3>2, <4>1, <4>2, AskedBefore
    <3>3. QED
      BY <3>2
  <2>5. QED
    BY <1>2, <2>2, <2>3, <2>4
<1>3. ASSUME NEW k, NEW p, Answered(c, k, p)
      PROVE  /\ \A i \in DOMAIN inbox'[c] : KeyReplied(c, inbox'[c][i])
             /\ \A i \in DOMAIN line'[c] : KeyAsked(c, i, line'[c][i])
  <2>. DEFINE r == line[c][k]
  <2>1. /\ trusted[c] /\ op'[c] = op[c] /\ opened'[c] = opened[c]
        /\ k \in DOMAIN line[c] /\ p.of = r.from /\ p.kind = r.kind /\ Effect(r, p)
    BY <1>3 DEF Answered, Serves, Answers
  <2>2. line[c] # << >>
    BY <2>1, EmptySeq, LenProperties
  \* What is left in the line was asked on an earlier channel.
  <2>3. ASSUME NEW i \in DOMAIN line'[c], line'[c][i].kind = "token",
               ~(line'[c][i].from[2] <= opened'[c]), op'[c].name # "token"
        PROVE  FALSE
    <3>. DEFINE j == Was(k, i)
    <3>1. j \in DOMAIN line[c] \ {k} /\ line'[c][i] = line[c][j]
      BY <1>3, AnsweredBefore
    <3>2. ~Orphan(c, line[c][j])
      BY <2>1, <2>3, <3>1 DEF Orphan
    <3>3. j = 1 /\ j = Len(line[c])
      BY <2>1, <2>3, <3>1, <3>2, LastOfLine DEF KeyOf
    <3>4. DOMAIN line[c] = 1..Len(line[c]) /\ Len(line[c]) = 1
      BY <3>3, QueueTypes, LenProperties
    <3>5. DOMAIN line[c] = {1}
      BY <3>4
    <3>6. QED
      BY <2>1, <3>1, <3>3, <3>5
  <2>4. ASSUME ~Orphan(c, r)
        PROVE  KeyReplied(c, p)
    <3>1. ASSUME p.kind = "agree", p.status = "ok"
          PROVE  p.key = keyEpoch' /\ line'[c] = << >>
      <4>1. p.key = keyEpoch /\ keyEpoch' = keyEpoch
        BY <2>1, <3>1 DEF Effect
      <4>2. QED
        BY <1>3, <2>1, <2>4, <3>1, <4>1, LastServed
    <3>2. ASSUME p.status = "pinInvalid", op[c].name # "token"
          PROVE  op[c].pin = "wrong"
      <4>1. r.kind = "token" /\ OpenedPin(r) # {"right"}
        BY <2>1, <3>2 DEF Effect
      <4>2. r.pin = {Box(Shared(r), op[c].pin)}
        BY <2>1, <2>4, <3>2, <4>1 DEF KeyOf
      <4>3. OpenedPin(r) = {Unbox(Shared(r), Box(Shared(r), op[c].pin), "wrong")}
        BY <4>2 DEF OpenedPin
      <4>4. Unbox(Shared(r), Box(Shared(r), op[c].pin), "wrong") = op[c].pin
        BY DEF Unbox, Box
      <4>5. op[c].pin # "right"
        BY <4>1, <4>3, <4>4
      <4>6. want[c] = "token"
        BY <2>1, <2>4, <4>1 DEF ChannelOf, Current
      <4>7. op[c].pin # "none"
        BY <4>6 DEF OperationInv, OperationOf, WaitsFor
      <4>8. op[c].pin \in Pins
        BY OpFields DEF ClientOK
      <4>9. QED
        BY <4>5, <4>7, <4>8 DEF Pins
    <3>3. QED
      BY <2>1, <3>1, <3>2 DEF KeyReplied
  <2>5. ASSUME NEW i \in DOMAIN inbox[c]
        PROVE  KeyReplied(c, inbox[c][i])
    BY <2>1, <2>2 DEF KeyOf, KeyReplied
  <2>6. \A i \in DOMAIN inbox'[c] : KeyReplied(c, inbox'[c][i])
    BY <1>3, <2>4, <2>5, AnsweredBefore
  <2>7. \A i \in DOMAIN line'[c] : KeyAsked(c, i, line'[c][i])
    BY <2>3 DEF KeyAsked
  <2>8. QED
    BY <2>6, <2>7
<1>4. CASE Emptied(c)
  BY <1>4, NothingAfterEmptied
<1>5. QED
  BY <1>1, <1>2, <1>3, <1>4, AloneSteps

LEMMA PinMeansStep ==
  ASSUME BaseInv, TrustInv, KeyInv, PinInvalidMeansWrong, [Next]_vars
  PROVE  PinInvalidMeansWrong'
<1>. SUFFICES ASSUME NEW c \in Clients, trusted'[c], result'[c].res = "ctap",
                     result'[c].status = "pinInvalid", op'[c].name # "token"
              PROVE  op'[c].pin = "wrong"
  BY DEF PinInvalidMeansWrong, PinInvalid
<1>. /\ KeyOf(c) /\ ChannelOf(c) /\ TypeOK /\ OperationInv /\ NumberInv
     /\ LinkOK /\ MemoryOK /\ ClientOK
  BY DEF TrustInv, KeyInv, BaseInv, TypeOK
<1>1. CASE op'[c] = op[c] /\ result'[c] = result[c] /\ trusted'[c] = trusted[c]
  BY <1>1 DEF PinInvalidMeansWrong, PinInvalid
<1>2. CASE ClientStep(c)
  <2>1. Take(c) /\ trusted' = trusted /\ op' = op /\ result'[c].status = Got(c).status
    BY <1>2, KeyCases
  <2>2. Got(c) = inbox[c][1] /\ 1 \in DOMAIN inbox[c]
    BY <2>1, TakesCurrent
  <2>3. QED
    BY <2>1, <2>2 DEF KeyOf
<1>3. QED
  BY <1>1, <1>2, StepShapes DEF Same, Answered, Emptied

\* A PIN the device took for wrong was wrong, of a client that has the
\* authenticator for itself: another one's wrong PIN replaces the key in between.
THEOREM Ctap2PinInvalid ==
  ASSUME \A c, d \in Clients : c = d
  PROVE  Spec => []PinInvalidMeansWrong
<1>1. Alone
  BY DEF Alone
<1>2. AnswerBase /\ KeyInv /\ PinInvalidMeansWrong /\ [Next]_vars =>
        KeyInv' /\ PinInvalidMeansWrong'
  BY <1>1, KeyStep, PinMeansStep DEF AnswerBase
<1>3. Init => KeyInv /\ PinInvalidMeansWrong
  BY NothingInitially, ErrorResults DEF KeyInv, KeyOf, PinInvalidMeansWrong, PinInvalid
<1>4. QED
  BY <1>2, <1>3, AnswerInvariant, PTL DEF Spec

(* The right PIN, and the key it is sealed under. *)

LEMMA EpochGrows == BaseInv /\ [Next]_vars => keyEpoch <= keyEpoch'
<1>. SUFFICES ASSUME BaseInv, [Next]_vars
              PROVE  keyEpoch <= keyEpoch'
  OBVIOUS
<1>. keyEpoch \in Nat
  BY DEF BaseInv, TypeOK, AuthenticatorOK
<1>1. ASSUME NEW c \in Clients, Serve(c)
      PROVE  keyEpoch' = keyEpoch \/ keyEpoch' = keyEpoch + 1
  BY <1>1 DEF Serve, Refuse, ServeInfo, ServeRetries, Blink, ServeAgreement, GrantToken, CountMiss,
     Sign, SignNext, NoNext, NoCredentials, Make, Wipe, authenticator
<1>2. QED
  BY <1>1 DEF Next, Unplug, PowerCycle, ClientNext, DeviceNext, authenticator, vars

\* Where a session comes from: the reply to a getKeyAgreement, or one that was kept.
LEMMA SessionCases ==
  ASSUME LinkOK, MemoryOK, ClientOK, NEW c \in Clients, ClientStep(c)
  PROVE  \/ /\ session'[c] = session[c] \/ session'[c] \in kept[c]
            /\ kept'[c] = kept[c]
         \/ /\ Take(c) /\ Fits(Got(c), "agree") /\ session'[c] = NewSession(c)
            /\ kept'[c] = kept[c] \/ kept'[c] = {NewSession(c)}
<1>. USE DEF MemoryOK, ClientOK
<1>1. CASE OnAgreement(c)
  <2>1. Take(c) /\ Fits(Got(c), "agree") /\ session'[c] = NewSession(c)
    BY <1>1 DEF OnAgreement, Receives, NewSession
  <2>2. kept'[c] = kept[c] \/ kept'[c] = {NewSession(c)}
    BY <1>1 DEF OnAgreement, Continue, memory, NewSession
  <2>3. QED
    BY <2>1, <2>2
<1>2. CASE Resume(c) /\ ~OnAgreement(c)
  BY <1>2 DEF Resume, OnCtapError, OnMisfit, OnGarbled, OnInfo, OnRetries, OnEmpty, OnToken,
     OnAssertion, OnSecret, OnCredential, OnTimeout, Continue, memory
<1>3. ASSUME NEW o, NEW q, Start(c, o, q), session' = session \/ \E s \in kept[c] : session'[c] = s
      PROVE  (session'[c] = session[c] \/ session'[c] \in kept[c]) /\ kept'[c] = kept[c]
  BY <1>3 DEF Start, memory
<1>4. ASSUME NEW o, NEW outcome, Immediately(c, o, outcome)
      PROVE  session'[c] = session[c] /\ kept'[c] = kept[c]
  BY <1>4 DEF Immediately, memory
<1>5. ASSUME NEW o, NEW s \in kept[c], session' = [session EXCEPT ![c] = s]
      PROVE  session'[c] = s
  BY <1>5
<1>6. CASE Invoke(c)
  BY <1>3, <1>4, <1>5, <1>6 DEF Invoke, Info, PinRetries, Reset, Wink, Simple, OpenSession, Establish,
     TokenInSession, GetHmacSecret, GetAssertion, AssertPlainly, AssertWithToken, GetNextAssertion,
     ProbeCredential, MakeCredential
<1>7. CASE Open(c)
  BY <1>7 DEF Open, Attach, Detach, memory
<1>8. ASSUME NEW o, List(c, o)
      PROVE  session' = session /\ kept'[c] = kept[c]
  BY <1>8 DEF List, Attach, Detach, memory
<1>9. QED
  BY <1>1, <1>2, <1>6, <1>7, <1>8 DEF ClientStep

OldKeyAfter(c) == op'[c].pin = "right" => session'[c].dev + 1 < keyEpoch'

EpochAsked(c, q) ==
  q.kind = "token" /\ ~(q.from[2] <= opened'[c]) =>
    q.plat = session'[c].plat /\ q.pin = {Box(session'[c], op'[c].pin)}

EpochReplied(c, p) ==
  /\ p.kind = "agree" /\ p.status = "ok" => p.key <= keyEpoch'
  /\ trusted'[c] /\ p.status = "pinInvalid" => OldKeyAfter(c)

LEMMA EpochStep == BaseInv /\ TrustInv /\ EpochInv /\ [Next]_vars => EpochInv'
<1>. SUFFICES ASSUME BaseInv, TrustInv, EpochInv, [Next]_vars, NEW c \in Clients
              PROVE  /\ session'[c].dev <= keyEpoch'
                     /\ \A s \in kept'[c] : s.dev <= keyEpoch'
                     /\ \A i \in DOMAIN inbox'[c] : EpochReplied(c, inbox'[c][i])
                     /\ trusted'[c] => \A i \in DOMAIN line'[c] : EpochAsked(c, line'[c][i])
  BY DEF EpochInv, EpochOf, OldKey, OldKeyAfter, Orphan, EpochAsked, EpochReplied
<1>. /\ EpochOf(c) /\ ChannelOf(c) /\ TypeOK /\ OperationInv /\ NumberInv
     /\ LinkOK /\ MemoryOK /\ ClientOK /\ AuthenticatorOK
  BY DEF TrustInv, EpochInv, BaseInv, TypeOK
<1>. /\ keyEpoch \in Nat /\ keyEpoch' \in Nat /\ keyEpoch <= keyEpoch'
     /\ session[c] \in Session /\ session[c].dev \in Nat
     /\ \A s \in kept[c] : s.dev \in Nat
     /\ \A i \in DOMAIN inbox[c] : inbox[c][i].key \in Nat
  <2>1. keyEpoch \in Nat /\ session[c] \in Session /\ kept[c] \subseteq Session
    BY DEF AuthenticatorOK, ClientOK, MemoryOK
  <2>2. keyEpoch' \in Nat
    BY TypeStep DEF TypeOK, AuthenticatorOK
  <2>3. \A i \in DOMAIN inbox[c] : inbox[c][i].key \in Nat
    BY ElementOfSeq, LenProperties, ReplyFields DEF LinkOK
  <2>4. QED
    BY <2>1, <2>2, <2>3, EpochGrows DEF Session
\* What was known of a session stays so while the key grows older.
<1>1. ASSUME session'[c] = session[c], op'[c] = op[c], trusted'[c] => trusted[c]
      PROVE  /\ session'[c].dev <= keyEpoch'
             /\ \A i \in DOMAIN inbox[c] : EpochReplied(c, inbox[c][i])
  <2>1. session'[c].dev <= keyEpoch'
    BY <1>1 DEF EpochOf
  <2>2. OldKey(c) => OldKeyAfter(c)
    BY <1>1 DEF OldKey, OldKeyAfter
  <2>3. QED
    BY <1>1, <2>1, <2>2 DEF EpochOf, EpochReplied
<1>2. \A s \in kept[c] : s.dev <= keyEpoch'
  BY DEF EpochOf
<1>3. CASE Same(c)
  BY <1>1, <1>2, <1>3 DEF Same, EpochOf, EpochAsked, Orphan
<1>4. CASE ClientStep(c) /\ (Rests(c) \/ \E q : Asks(c, q))
  <2>1. Hears(c)
    BY <1>4 DEF Rests, Asks
  <2>2. Take(c) /\ Fits(Got(c), "agree") => NewSession(c).dev <= keyEpoch'
    <3>1. Fits(Got(c), "agree") => Got(c).kind = "agree" /\ Got(c).status = "ok"
      BY DEF Fits
    <3>2. Take(c) => Got(c) = inbox[c][1] /\ 1 \in DOMAIN inbox[c]
      BY GotReply
    <3>3. QED
      BY <3>1, <3>2 DEF EpochOf, NewSession
  <2>3. session'[c].dev <= keyEpoch' /\ \A s \in kept'[c] : s.dev <= keyEpoch'
    BY <1>2, <1>4, <2>2, SessionCases DEF EpochOf
  <2>4. ASSUME NEW i \in DOMAIN inbox'[c]
        PROVE  EpochReplied(c, inbox'[c][i])
    <3>1. PICK j \in DOMAIN inbox[c] : inbox'[c][i] = inbox[c][j]
      BY <2>1, HeardBefore
    <3>2. ~trusted'[c]
      <4>1. trusted'[c] => inbox'[c] = << >>
        BY <2>1, HeardAll
      <4>2. QED
        BY <4>1, EmptySeq, LenProperties
    <3>3. QED
      BY <3>1, <3>2 DEF EpochOf, EpochReplied
  <2>5. ASSUME trusted'[c], NEW i \in DOMAIN line'[c]
        PROVE  EpochAsked(c, line'[c][i])
    <3>1. \A j \in DOMAIN line[c] : line[c][j].from[2] <= opened'[c]
      BY <2>1, <2>5, HeardAll
    <3>2. CASE Rests(c)
      BY <3>1, <3>2 DEF Rests, EpochAsked
    <3>3. ASSUME NEW q, Asks(c, q)
          PROVE  EpochAsked(c, line'[c][i])
      <4>1. q.kind = "token" => q.plat = session'[c].plat /\ q.pin = {Box(session'[c], op'[c].pin)}
        BY <3>3 DEF Asks, Belongs
      <4>2. QED
        BY <3>1, <3>3, <4>1, AskedBefore DEF EpochAsked
    <3>4. QED
      BY <1>4, <3>2, <3>3
  <2>6. QED
    BY <2>3, <2>4, <2>5
<1>5. ASSUME NEW k, NEW p, Answered(c, k, p)
      PROVE  /\ session'[c].dev <= keyEpoch'
             /\ \A s \in kept'[c] : s.dev <= keyEpoch'
             /\ \A i \in DOMAIN inbox'[c] : EpochReplied(c, inbox'[c][i])
             /\ trusted'[c] => \A i \in DOMAIN line'[c] : EpochAsked(c, line'[c][i])
  <2>. DEFINE q == line[c][k]
  <2>1. /\ trusted'[c] = trusted[c] /\ op'[c] = op[c] /\ opened'[c] = opened[c]
        /\ session'[c] = session[c] /\ kept'[c] = kept[c]
        /\ k \in DOMAIN line[c] /\ p.kind = q.kind /\ Effect(q, p)
    BY <1>5 DEF Answered, Serves, Answers
  <2>2. trusted'[c] => \A i \in DOMAIN line'[c] : EpochAsked(c, line'[c][i])
    BY <1>5, <2>1, AnsweredBefore DEF EpochOf, EpochAsked, Orphan
  <2>3. p.kind = "agree" /\ p.status = "ok" => p.key <= keyEpoch'
    BY <2>1 DEF Effect
  <2>4. ASSUME trusted[c], p.status = "pinInvalid", ~Orphan(c, q), op[c].pin = "right"
        PROVE  session[c].dev + 1 < keyEpoch'
    <3>1. q.kind = "token" /\ OpenedPin(q) # {"right"} /\ keyEpoch' = keyEpoch + 1
      BY <2>1, <2>4 DEF Effect
    <3>2. q.plat = session[c].plat /\ q.pin = {Box(session[c], "right")}
      BY <2>1, <2>4, <3>1 DEF EpochOf
    <3>3. OpenedPin(q) = {Unbox(Shared(q), Box(session[c], "right"), "wrong")}
      BY <3>2 DEF OpenedPin
    <3>4. Shared(q) # session[c]
      BY <3>1, <3>3 DEF Unbox, Box
    <3>5. session[c].dev # keyEpoch
      BY <3>2, <3>4 DEF Shared, Session
    <3>6. QED
      BY <3>1, <3>5 DEF EpochOf
  <2>5. ~Orphan(c, q) => EpochReplied(c, p)
    BY <2>1, <2>3, <2>4 DEF EpochReplied, OldKeyAfter
  <2>6. \A i \in DOMAIN inbox'[c] : EpochReplied(c, inbox'[c][i])
    BY <1>1, <1>5, <2>1, <2>5, AnsweredBefore
  <2>7. QED
    BY <1>1, <1>2, <2>1, <2>2, <2>6
<1>6. CASE Emptied(c)
  <2>1. /\ session'[c] = session[c] /\ kept'[c] = kept[c] /\ op'[c] = op[c]
        /\ trusted'[c] = trusted[c]
    BY <1>6 DEF Emptied
  <2>2. QED
    BY <1>1, <1>2, <1>6, <2>1, NothingAfterEmptied
<1>7. QED
  BY <1>3, <1>4, <1>5, <1>6, StepShapes

LEMMA RightPinStep ==
  BaseInv /\ TrustInv /\ EpochInv /\ RightPinNeedsOldKey /\ [Next]_vars => RightPinNeedsOldKey'
<1>. SUFFICES ASSUME BaseInv, TrustInv, EpochInv, RightPinNeedsOldKey, [Next]_vars,
                     NEW c \in Clients, trusted'[c], result'[c].res = "ctap",
                     result'[c].status = "pinInvalid", op'[c].pin = "right"
              PROVE  session'[c].dev + 1 < keyEpoch'
  BY DEF RightPinNeedsOldKey, PinInvalid
<1>. /\ EpochOf(c) /\ ChannelOf(c) /\ TypeOK /\ OperationInv /\ NumberInv
     /\ LinkOK /\ MemoryOK /\ ClientOK
  BY DEF TrustInv, EpochInv, BaseInv, TypeOK
<1>. /\ keyEpoch \in Nat /\ keyEpoch' \in Nat /\ keyEpoch <= keyEpoch' /\ session[c].dev \in Nat
  BY TypeStep, EpochGrows DEF TypeOK, AuthenticatorOK, ClientOK, Session
<1>1. CASE /\ op'[c] = op[c] /\ result'[c] = result[c] /\ trusted'[c] = trusted[c]
           /\ session'[c] = session[c]
  BY <1>1 DEF RightPinNeedsOldKey, PinInvalid
<1>2. CASE ClientStep(c)
  <2>1. /\ Take(c) /\ trusted' = trusted /\ op' = op /\ session' = session
        /\ result'[c].status = Got(c).status
    BY <1>2, KeyCases
  <2>2. Got(c) = inbox[c][1] /\ 1 \in DOMAIN inbox[c]
    BY <2>1, TakesCurrent
  <2>3. session[c].dev + 1 < keyEpoch
    BY <2>1, <2>2 DEF EpochOf, OldKey
  <2>4. QED
    BY <2>1, <2>3
<1>3. QED
  BY <1>1, <1>2, StepShapes DEF Same, Answered, Emptied

\* On a channel no exchange of which failed the right PIN is taken for a wrong one
\* only under a session whose key the authenticator has replaced since, by any
\* number of other clients: the host never seals it under the wrong key.
THEOREM Ctap2RightPin == Spec => []RightPinNeedsOldKey
<1>1. AnswerBase /\ EpochInv /\ RightPinNeedsOldKey /\ [Next]_vars =>
        EpochInv' /\ RightPinNeedsOldKey'
  BY EpochStep, RightPinStep DEF AnswerBase
<1>2. Init => EpochInv /\ RightPinNeedsOldKey
  <2>1. ASSUME Init, NEW c \in Clients
        PROVE  session[c].dev = 0 /\ kept[c] = {} /\ keyEpoch = 1
    BY <2>1 DEF Init, ClientInit, Ctap2DeviceInit, NoSecret
  <2>2. QED
    BY <2>1, NothingInitially, ErrorResults DEF EpochInv, EpochOf, RightPinNeedsOldKey, PinInvalid
<1>3. QED
  BY <1>1, <1>2, AnswerInvariant, PTL DEF Spec

(* Sequences of assertions. *)

\* A client has taken an assertion, and goes on with it or begins anew.
Reads(c) ==
  /\ Take(c) /\ want[c] \in {"assert", "next"} /\ Fits(Got(c), want[c])
  /\ trusted' = trusted /\ line' = line /\ opened' = opened
  /\ walk'[c] = IF op[c].name = "next"
                THEN Append(walk[c], [hash |-> Got(c).hash, cred |-> Got(c).cred])
                ELSE <<[hash |-> Got(c).hash, cred |-> Got(c).cred]>>

LEMMA WalkCases ==
  ASSUME LinkOK, MemoryOK, ClientOK, NEW c \in Clients, ClientStep(c)
  PROVE  \/ /\ walk'[c] = walk[c] /\ opened'[c] = opened[c] /\ (trusted'[c] => trusted[c])
            /\ trusted'[c] /\ want[c] = "assert" => Take(c) /\ ~Fits(Got(c), "assert")
         \/ walk'[c] = << >>
         \/ Reads(c)
<1>. USE DEF LinkOK, MemoryOK, ClientOK
<1>. DEFINE Kept == /\ walk'[c] = walk[c] /\ opened'[c] = opened[c] /\ (trusted'[c] => trusted[c])
                    /\ trusted'[c] /\ want[c] = "assert" => Take(c) /\ ~Fits(Got(c), "assert")
<1>1. ASSUME NEW outcome, Finish(c, outcome)
      PROVE  line' = line /\ opened' = opened
  BY <1>1 DEF Finish
<1>2. CASE OnCtapError(c) \/ OnMisfit(c)
  <2>1. Take(c) /\ trusted' = trusted /\ walk' = walk /\ \E outcome : Finish(c, outcome)
    BY <1>2 DEF OnCtapError, OnMisfit, memory
  <2>2. ~Fits(Got(c), want[c])
    BY <1>2 DEF OnCtapError, OnMisfit, Refused, Misfits, Fits
  <2>3. QED
    BY <1>1, <2>1, <2>2
<1>3. CASE OnGarbled(c) \/ OnTimeout(c)
  <2>1. \E outcome : Finish(c, outcome)
    BY <1>3 DEF OnGarbled, OnTimeout
  <2>2. trusted'[c] = FALSE /\ walk' = walk
    BY <1>3 DEF OnGarbled, OnTimeout, memory
  <2>3. opened' = opened
    BY <1>1, <2>1
  <2>4. QED
    BY <2>2, <2>3
<1>4. CASE OnInfo(c) \/ OnRetries(c) \/ OnEmpty(c) \/ OnCredential(c)
  <2>1. /\ want[c] # "assert" /\ trusted' = trusted /\ walk' = walk
        /\ \E outcome : Finish(c, outcome)
    BY <1>4 DEF OnInfo, OnRetries, OnEmpty, OnCredential, Receives, memory
  <2>2. QED
    BY <1>1, <2>1
<1>5. ASSUME NEW r, Continue(c, r)
      PROVE  UNCHANGED <<walk, trusted, opened>>
  BY <1>5 DEF Continue, memory
<1>6. CASE OnAgreement(c) \/ OnToken(c)
  <2>1. want[c] # "assert"
    BY <1>6 DEF OnAgreement, OnToken, Receives
  <2>2. \/ UNCHANGED <<walk, trusted>> /\ \E outcome : Finish(c, outcome)
        \/ \E r : Continue(c, r)
    BY <1>6 DEF OnAgreement, OnToken, memory
  <2>3. QED
    BY <1>1, <1>5, <2>1, <2>2
<1>7. CASE OnAssertion(c) \/ OnSecret(c)
  <2>1. /\ Take(c) /\ want[c] \in {"assert", "next"} /\ Fits(Got(c), want[c])
        /\ trusted' = trusted /\ Walked(c) /\ \E outcome : Finish(c, outcome)
    BY <1>7 DEF OnAssertion, OnSecret, Receives
  <2>2. QED
    BY <1>1, <2>1 DEF Reads, Walked
<1>8. CASE Resume(c)
  BY <1>2, <1>3, <1>4, <1>6, <1>7, <1>8 DEF Resume
<1>9. ASSUME NEW use, Attach(c, use)
      PROVE  walk'[c] = << >>
  BY <1>9 DEF Attach
<1>10. ASSUME Detach(c)
       PROVE  UNCHANGED <<walk, opened, trusted>>
  BY <1>10 DEF Detach, link, memory
<1>11. CASE Invoke(c)
  <2>1. (\E o, r : Start(c, o, r)) \/ \E o, outcome : Immediately(c, o, outcome)
    BY <1>11, InvokeCases
  <2>2. want[c] = "none" /\ UNCHANGED <<walk, opened>> /\ (trusted'[c] => trusted[c])
    BY <2>1 DEF Start, Immediately, Begin, memory, link
  <2>3. QED
    BY <2>2
<1>12. CASE Open(c)
  BY <1>9, <1>10, <1>12 DEF Open
<1>13. ASSUME NEW o, List(c, o)
       PROVE  Kept \/ walk'[c] = << >>
  BY <1>9, <1>10, <1>13 DEF List, Begin
<1>14. QED
  BY <1>8, <1>11, <1>12, <1>13 DEF ClientStep

\* Signed after a step.
SignedAfter(h) ==
  \/ \E p \in pending' : p.hash = h
  \/ \E c \in Clients : \E i \in DOMAIN walk'[c] : walk'[c][i].hash = h
  \/ \E c \in Clients : \E i \in DOMAIN inbox'[c] :
       inbox'[c][i].kind \in {"assert", "next"} /\ inbox'[c][i].status = "ok" /\ inbox'[c][i].hash = h

\* Of the entries of a walk after a step.
LEMMA WalkBefore ==
  ASSUME BaseInv, NEW c \in Clients, Reads(c), NEW i \in DOMAIN walk'[c]
  PROVE  \/ op[c].name = "next" /\ i \in DOMAIN walk[c] /\ walk'[c][i] = walk[c][i]
         \/ /\ walk'[c][i] = [hash |-> Got(c).hash, cred |-> Got(c).cred]
            /\ op[c].name # "next" => i = 1
            /\ op[c].name = "next" => i = Len(walk[c]) + 1 /\ i \notin DOMAIN walk[c]
<1>. DEFINE x == [hash |-> Got(c).hash, cred |-> Got(c).cred]
<1>1. walk[c] \in Seq([hash : Call, cred : SUBSET Nat])
  BY DEF BaseInv, TypeOK, MemoryOK
<1>2. x \in [hash : Call, cred : SUBSET Nat]
  BY GotReply, ReplyFields DEF Reads, BaseInv, TypeOK
<1>3. CASE op[c].name = "next"
  <2>1. walk'[c] = Append(walk[c], x)
    BY <1>3 DEF Reads
  <2>2. QED
    BY <1>1, <1>2, <1>3, <2>1, AfterAppend
<1>4. CASE op[c].name # "next"
  <2>1. walk'[c] = <<x>>
    BY <1>4 DEF Reads
  <2>2. DOMAIN walk'[c] = {1} /\ walk'[c][1] = x
    BY <2>1
  <2>3. QED
    BY <1>4, <2>2
<1>5. QED
  BY <1>3, <1>4

LEMMA ReadsAssertion ==
  ASSUME BaseInv, NEW c \in Clients, Reads(c)
  PROVE  IsAssertion(Got(c)) /\ Signed(Got(c).hash) /\ Got(c) = inbox[c][1] /\ 1 \in DOMAIN inbox[c]
<1>1. Got(c) = inbox[c][1] /\ 1 \in DOMAIN inbox[c]
  BY GotReply DEF Reads, BaseInv, TypeOK
<1>2. IsAssertion(Got(c))
  BY DEF Reads, Fits, IsAssertion
<1>3. QED
  BY <1>1, <1>2 DEF Signed

\* Nothing is signed without the authenticator.
LEMMA SignedStill ==
  ASSUME BaseInv, NEW c \in Clients, ClientStep(c), Hears(c), UNCHANGED authenticator,
         \A d \in Clients \ {c} : Same(d), NEW h, SignedAfter(h)
  PROVE  Signed(h)
<1>. LinkOK /\ MemoryOK /\ ClientOK
  BY DEF BaseInv, TypeOK
<1>1. CASE \E p \in pending' : p.hash = h
  BY <1>1 DEF authenticator, Signed
<1>2. ASSUME NEW d \in Clients, NEW i \in DOMAIN walk'[d], walk'[d][i].hash = h
      PROVE  Signed(h)
  <2>1. CASE d # c
    BY <1>2, <2>1 DEF Same, Signed
  <2>2. CASE d = c
    <3>1. CASE walk'[c] = walk[c]
      BY <1>2, <2>2, <3>1 DEF Signed
    <3>2. CASE walk'[c] = << >>
      <4>1. DOMAIN walk'[c] = {}
        BY <3>2
      <4>2. QED
        BY <1>2, <2>2, <4>1
    <3>3. CASE Reads(c)
      <4>1. \/ i \in DOMAIN walk[c] /\ walk'[c][i] = walk[c][i]
            \/ walk'[c][i] = [hash |-> Got(c).hash, cred |-> Got(c).cred]
        BY <1>2, <2>2, <3>3, WalkBefore
      <4>2. QED
        BY <1>2, <2>2, <3>3, <4>1, ReadsAssertion DEF Signed
    <3>4. QED
      BY <3>1, <3>2, <3>3, WalkCases
  <2>3. QED
    BY <2>1, <2>2
<1>3. ASSUME NEW d \in Clients, NEW i \in DOMAIN inbox'[d], inbox'[d][i].kind \in {"assert", "next"},
             inbox'[d][i].status = "ok", inbox'[d][i].hash = h
      PROVE  Signed(h)
  <2>1. \E j \in DOMAIN inbox[d] : inbox'[d][i] = inbox[d][j]
    BY <1>3, HeardBefore DEF Same
  <2>2. QED
    BY <1>3, <2>1 DEF Signed, IsAssertion
<1>4. QED
  BY <1>1, <1>2, <1>3 DEF SignedAfter

\* The authenticator signs one clientDataHash, that of the getAssertion it answers,
\* or goes on with one it has signed before.
LEMMA SignedAnswer ==
  ASSUME BaseInv, NEW c \in Clients, NEW k, NEW p, Answered(c, k, p),
         \A d \in Clients \ {c} : Same(d), NEW h, SignedAfter(h)
  PROVE  \/ Signed(h)
         \/ line[c][k].kind = "assert" /\ p.status = "ok" /\ h = line[c][k].hash
<1>. DEFINE r == line[c][k]
<1>. LinkOK
  BY DEF BaseInv, TypeOK
<1>1. /\ Effect(r, p) /\ p.kind = r.kind /\ (p.kind # "next" => p.hash = r.hash)
      /\ walk'[c] = walk[c]
  BY DEF Answered, Serves, Answers
<1>. DEFINE Goal == Signed(h) \/ (r.kind = "assert" /\ p.status = "ok" /\ h = r.hash)
<1>2. ASSUME NEW q \in pending', q.hash = h
      PROVE  Goal
  <2>1. CASE r.kind = "assert" /\ p.status = "ok"
    BY <1>1, <1>2, <2>1 DEF Effect, Signs
  <2>2. CASE r.kind = "next" /\ p.status = "ok"
    <3>1. PICK s \in pending : \E cred : pending' = {[s EXCEPT !.left = @ \ {cred}]}
      BY <1>1, <2>2 DEF Effect, SignsNext
    <3>2. s \in [hash : Call, left : SUBSET Nat]
      BY <3>1 DEF BaseInv, TypeOK, AuthenticatorOK
    <3>3. q.hash = s.hash
      BY <1>2, <3>1, <3>2
    <3>4. QED
      BY <1>2, <3>1, <3>3 DEF Signed
  <2>3. CASE pending' \subseteq pending
    BY <1>2, <2>3 DEF Signed
  <2>4. QED
    BY <1>1, <2>1, <2>2, <2>3 DEF Effect
<1>3. ASSUME NEW d \in Clients, NEW i \in DOMAIN walk'[d], walk'[d][i].hash = h
      PROVE  Goal
  <2>1. walk'[d] = walk[d]
    BY <1>1 DEF Same
  <2>2. QED
    BY <1>3, <2>1 DEF Signed
<1>4. ASSUME NEW d \in Clients, NEW i \in DOMAIN inbox'[d], inbox'[d][i].kind \in {"assert", "next"},
             inbox'[d][i].status = "ok", inbox'[d][i].hash = h
      PROVE  Goal
  <2>1. CASE i \in DOMAIN inbox[d] /\ inbox'[d][i] = inbox[d][i]
    BY <1>4, <2>1 DEF Signed, IsAssertion
  <2>2. CASE inbox'[d][i] = p
    <3>1. CASE r.kind = "assert"
      BY <1>1, <1>4, <2>2, <3>1
    <3>2. CASE r.kind = "next"
      <4>1. \E q \in pending : p.hash = q.hash
        BY <1>1, <1>4, <2>2, <3>2 DEF Effect, SignsNext
      <4>2. QED
        BY <1>4, <2>2, <4>1 DEF Signed
    <3>3. QED
      BY <1>1, <1>4, <2>2, <3>1, <3>2
  <2>3. QED
    BY <2>1, <2>2, AnsweredBefore DEF Same
<1>5. QED
  BY <1>2, <1>3, <1>4 DEF SignedAfter

NoneSigned == \A h : SignedAfter(h) => Signed(h)

OneSigned(r, p) ==
  \A h : SignedAfter(h) => Signed(h) \/ (r.kind = "assert" /\ p.status = "ok" /\ h = r.hash)

\* What a step for others does to the assertions still to come.
SignsApart(c) ==
  /\ \A h : h[1] = c /\ SignedAfter(h) => Signed(h)
  /\ \A q \in pending' :
       \/ \E s \in pending : s.hash = q.hash /\ q.left \subseteq s.left
       \/ q.hash[1] # c /\ ~Signed(q.hash)

\* Of the assertions still to come after the authenticator answered r with p.
LEMMA StillToCome ==
  ASSUME BaseInv, NEW r, NEW p, Effect(r, p), NEW q \in pending'
  PROVE  \/ \E s \in pending : s.hash = q.hash /\ q.left \subseteq s.left
         \/ r.kind = "assert" /\ p.status = "ok" /\ q.hash = r.hash
<1>1. CASE r.kind = "assert" /\ p.status = "ok"
  BY <1>1 DEF Effect, Signs
<1>2. CASE r.kind = "next" /\ p.status = "ok"
  <2>1. PICK s \in pending : \E cred : pending' = {[s EXCEPT !.left = @ \ {cred}]}
    BY <1>2 DEF Effect, SignsNext
  <2>2. s \in [hash : Call, left : SUBSET Nat]
    BY <2>1 DEF BaseInv, TypeOK, AuthenticatorOK
  <2>3. q.hash = s.hash /\ q.left \subseteq s.left
    BY <2>1, <2>2
  <2>4. QED
    BY <2>3
<1>3. CASE pending' \subseteq pending
  BY <1>3
<1>4. QED
  BY <1>1, <1>2, <1>3 DEF Effect

\* What a step signs.
LEMMA SignedStep ==
  ASSUME BaseInv, [Next]_vars, NEW h, SignedAfter(h)
  PROVE  \/ Signed(h)
         \/ \E c \in Clients : \E k, p : Answered(c, k, p) /\ h = line[c][k].hash
<1>1. CASE UNCHANGED authenticator /\ \A d \in Clients : Same(d)
  BY <1>1 DEF SignedAfter, Signed, IsAssertion, Same, authenticator
<1>2. ASSUME NEW d \in Clients, ClientStep(d), Rests(d) \/ \E r : Asks(d, r),
             UNCHANGED authenticator, \A e \in Clients \ {d} : Same(e)
      PROVE  Signed(h)
  BY <1>2, SignedStill DEF Rests, Asks
<1>3. ASSUME NEW d \in Clients, NEW k, NEW p, Answered(d, k, p), \A e \in Clients \ {d} : Same(e)
      PROVE  Signed(h) \/ h = line[d][k].hash
  BY <1>3, SignedAnswer
<1>4. CASE pending' = {} /\ \A d \in Clients : Emptied(d)
  <2>1. PICK d \in Clients : \E i \in DOMAIN walk'[d] : walk'[d][i].hash = h
    BY <1>4, NothingAfterEmptied DEF SignedAfter
  <2>2. walk'[d] = walk[d]
    BY <1>4 DEF Emptied
  <2>3. QED
    BY <2>1, <2>2 DEF Signed
<1>5. QED
  BY <1>1, <1>2, <1>3, <1>4, StepOf

LEMMA HashShapes ==
  ASSUME BaseInv, HashInv, [Next]_vars, NEW c \in Clients
  PROVE  \/ Same(c) /\ SignsApart(c)
         \/ /\ ClientStep(c) /\ (Rests(c) \/ \E r : Asks(c, r)) /\ UNCHANGED authenticator
            /\ NoneSigned
         \/ \E k, p : Answered(c, k, p) /\ OneSigned(line[c][k], p)
         \/ Emptied(c) /\ pending' = {} /\ NoneSigned
<1>1. CASE UNCHANGED authenticator /\ \A d \in Clients : Same(d)
  <2>1. NoneSigned
    BY <1>1 DEF NoneSigned, SignedAfter, Signed, IsAssertion, Same, authenticator
  <2>2. QED
    BY <1>1, <2>1 DEF SignsApart, NoneSigned, authenticator
<1>2. ASSUME NEW d \in Clients, ClientStep(d), Rests(d) \/ \E r : Asks(d, r),
             UNCHANGED authenticator, \A e \in Clients \ {d} : Same(e)
      PROVE  \/ Same(c) /\ SignsApart(c)
             \/ /\ ClientStep(c) /\ (Rests(c) \/ \E r : Asks(c, r)) /\ UNCHANGED authenticator
                /\ NoneSigned
  <2>1. Hears(d)
    BY <1>2 DEF Rests, Asks
  <2>2. NoneSigned
    BY <1>2, <2>1, SignedStill DEF NoneSigned
  <2>3. CASE d = c
    BY <1>2, <2>2, <2>3
  <2>4. CASE d # c
    BY <1>2, <2>2, <2>4 DEF SignsApart, NoneSigned, authenticator
  <2>5. QED
    BY <2>3, <2>4
<1>3. ASSUME NEW d \in Clients, NEW k, NEW p, Answered(d, k, p), \A e \in Clients \ {d} : Same(e)
      PROVE  \/ Same(c) /\ SignsApart(c)
             \/ Answered(c, k, p) /\ OneSigned(line[c][k], p)
  <2>. DEFINE r == line[d][k]
  <2>1. OneSigned(r, p)
    BY <1>3, SignedAnswer DEF OneSigned
  <2>2. /\ k \in DOMAIN line[d] /\ Effect(r, p)
        /\ r.hash = <<d, r.hash[2]>>
    BY <1>3, QueueTypes DEF Answered, Serves
  <2>3. CASE d = c
    BY <1>3, <2>1, <2>3
  <2>4. CASE d # c
    <3>1. r.hash[1] # c
      BY <2>2, <2>4
    <3>2. \A h : h[1] = c /\ SignedAfter(h) => Signed(h)
      BY <2>1, <3>1 DEF OneSigned
    <3>3. r.kind = "assert" => ~Signed(r.hash)
      BY <2>2 DEF HashInv, HashesOf
    <3>4. ASSUME NEW q \in pending'
          PROVE  \/ \E s \in pending : s.hash = q.hash /\ q.left \subseteq s.left
                 \/ q.hash[1] # c /\ ~Signed(q.hash)
      BY <2>2, <3>1, <3>3, StillToCome
    <3>5. QED
      BY <1>3, <2>4, <3>2, <3>4 DEF SignsApart
  <2>5. QED
    BY <2>3, <2>4
<1>4. CASE pending' = {} /\ \A d \in Clients : Emptied(d)
  <2>1. ASSUME NEW h, SignedAfter(h)
        PROVE  Signed(h)
    <3>1. PICK d \in Clients : \E i \in DOMAIN walk'[d] : walk'[d][i].hash = h
      BY <1>4, <2>1, NothingAfterEmptied DEF SignedAfter
    <3>2. walk'[d] = walk[d]
      BY <1>4 DEF Emptied
    <3>3. QED
      BY <3>1, <3>2 DEF Signed
  <2>2. QED
    BY <1>4, <2>1 DEF NoneSigned
<1>5. QED
  BY <1>1, <1>2, <1>3, <1>4, StepOf

\* Everything signed is of an operation that has begun.
LEMMA SignedBegun ==
  ASSUME BaseInv, HashInv, NEW h, Signed(h)
  PROVE  IsOperation(h) /\ h[2] \in Nat
<1>1. CASE \E p \in pending : p.hash = h
  <2>1. PICK p \in pending : p.hash = h
    BY <1>1
  <2>2. p \in [hash : Call, left : SUBSET Nat]
    BY DEF BaseInv, TypeOK, AuthenticatorOK
  <2>3. h \in Call /\ IsOperation(h)
    BY <2>1, <2>2 DEF HashInv
  <2>4. QED
    BY <2>3 DEF Call
<1>2. ASSUME NEW c \in Clients, NEW i \in DOMAIN walk[c], walk[c][i].hash = h
      PROVE  IsOperation(h) /\ h[2] \in Nat
  <2>1. walk[c] \in Seq([hash : Call, cred : SUBSET Nat])
    BY DEF BaseInv, TypeOK, MemoryOK
  <2>2. walk[c][i] \in [hash : Call, cred : SUBSET Nat]
    BY <2>1, ElementOfSeq, LenProperties
  <2>3. h \in Call /\ IsOperation(h)
    BY <1>2, <2>2 DEF HashInv, HashesOf
  <2>4. QED
    BY <2>3 DEF Call
<1>3. ASSUME NEW c \in Clients, NEW i \in DOMAIN inbox[c], IsAssertion(inbox[c][i]),
             inbox[c][i].hash = h
      PROVE  IsOperation(h) /\ h[2] \in Nat
  BY <1>3, QueueTypes DEF HashInv, HashesOf
<1>4. QED
  BY <1>1, <1>2, <1>3 DEF Signed

LEMMA SignedBegunStep ==
  ASSUME BaseInv, HashInv, [Next]_vars, NEW h, SignedAfter(h)
  PROVE  h[1] \in Clients /\ h[2] <= begun'[h[1]]
<1>1. ASSUME NEW d \in Clients, NEW m, m \in Nat, m <= begun[d]
      PROVE  m <= begun'[d]
  BY <1>1, BegunGrows
<1>2. CASE Signed(h)
  <2>1. h[1] \in Clients /\ h[2] <= begun[h[1]] /\ h[2] \in Nat
    BY <1>2, SignedBegun DEF IsOperation
  <2>2. QED
    BY <1>1, <2>1
<1>3. ASSUME NEW c \in Clients, NEW k, NEW p, Answered(c, k, p), h = line[c][k].hash
      PROVE  h[1] \in Clients /\ h[2] <= begun'[h[1]]
  <2>1. /\ k \in DOMAIN line[c] /\ h[1] = c /\ h[2] \in Nat /\ h[2] <= begun[c]
    BY <1>3, QueueTypes DEF Answered, Serves, NumbersOf
  <2>2. QED
    BY <1>1, <2>1
<1>4. QED
  BY <1>2, <1>3, SignedStep

\* HashesOf after a step.
UnaskedAfter(c, h) == \A i \in DOMAIN line'[c] : line'[c][i].kind = "assert" => line'[c][i].hash # h

FreshAfter(c) ==
  \A i \in DOMAIN line'[c] : line'[c][i].kind = "assert" => ~SignedAfter(line'[c][i].hash)

OnceAfter(c) ==
  \A i, j \in DOMAIN line'[c] :
    line'[c][i].kind = "assert" /\ line'[c][j].kind = "assert" /\ line'[c][j].hash = line'[c][i].hash => i = j

RefusedAfter(c, p) ==
  p.kind = "assert" /\ p.status # "ok" => ~SignedAfter(p.hash) /\ UnaskedAfter(c, p.hash)

WaitsAfter(c) ==
  want'[c] \in {"agree", "token"} =>
    /\ ~SignedAfter(<<c, begun'[c]>>) /\ UnaskedAfter(c, <<c, begun'[c]>>)
    /\ \A i \in DOMAIN inbox'[c] :
         inbox'[c][i].kind = "assert" => inbox'[c][i].hash # <<c, begun'[c]>>

LEMMA HashesStep ==
  ASSUME BaseInv, HashInv, [Next]_vars, NEW c \in Clients
  PROVE  /\ FreshAfter(c) /\ OnceAfter(c) /\ WaitsAfter(c)
         /\ \A i \in DOMAIN inbox'[c] : RefusedAfter(c, inbox'[c][i])
<1>. /\ HashesOf(c) /\ NumbersOf(c) /\ TypeOK /\ OperationInv /\ NumberInv /\ LinkOK
     /\ begun[c] \in Nat /\ line[c] \in Seq(Request)
  BY QueueTypes DEF HashInv, BaseInv, TypeOK
<1>. \A i \in DOMAIN line[c] :
       line[c][i] \in Request /\ line[c][i].hash[1] = c /\ line[c][i].hash = <<c, line[c][i].hash[2]>>
       /\ line[c][i].hash[2] \in Nat /\ line[c][i].hash[2] <= begun[c]
  BY QueueTypes DEF NumbersOf
<1>. \A i \in DOMAIN inbox[c] : inbox[c][i].kind = "assert" =>
       inbox[c][i].hash[1] = c /\ inbox[c][i].hash[2] \in Nat /\ inbox[c][i].hash[2] <= begun[c]
  BY QueueTypes DEF NumbersOf
<1>1. CASE Same(c) /\ SignsApart(c)
  <2>1. \A h : h[1] = c /\ SignedAfter(h) => Signed(h)
    BY <1>1 DEF SignsApart
  <2>2. /\ line'[c] = line[c] /\ inbox'[c] = inbox[c] /\ want'[c] = want[c] /\ begun'[c] = begun[c]
    BY <1>1 DEF Same
  <2>3. FreshAfter(c) /\ OnceAfter(c)
    BY <2>1, <2>2 DEF HashesOf, FreshAfter, OnceAfter
  <2>4. WaitsAfter(c)
    <3>1. <<c, begun[c]>>[1] = c
      OBVIOUS
    <3>2. QED
      BY <2>1, <2>2, <3>1 DEF HashesOf, WaitsAfter, UnaskedAfter, Unasked
  <2>5. \A i \in DOMAIN inbox'[c] : RefusedAfter(c, inbox'[c][i])
    BY <2>1, <2>2 DEF HashesOf, RefusedAfter, UnaskedAfter, Unasked
  <2>6. QED
    BY <2>3, <2>4, <2>5
<1>2. CASE Rests(c) /\ NoneSigned
  <2>1. line'[c] = line[c] /\ want'[c] = "none" /\ Hears(c)
    BY <1>2 DEF Rests
  <2>2. FreshAfter(c) /\ OnceAfter(c)
    BY <1>2, <2>1 DEF HashesOf, FreshAfter, OnceAfter, NoneSigned
  <2>3. WaitsAfter(c)
    BY <2>1 DEF WaitsAfter
  <2>4. ASSUME NEW i \in DOMAIN inbox'[c]
        PROVE  RefusedAfter(c, inbox'[c][i])
    <3>1. PICK j \in DOMAIN inbox[c] : inbox'[c][i] = inbox[c][j]
      BY <2>1, HeardBefore
    <3>2. QED
      BY <1>2, <2>1, <3>1 DEF HashesOf, RefusedAfter, UnaskedAfter, Unasked, NoneSigned
  <2>5. QED
    BY <2>2, <2>3, <2>4
<1>3. ASSUME NEW r, Asks(c, r), NoneSigned
      PROVE  /\ FreshAfter(c) /\ OnceAfter(c) /\ WaitsAfter(c)
             /\ \A i \in DOMAIN inbox'[c] : RefusedAfter(c, inbox'[c][i])
  <2>. DEFINE now == <<c, begun'[c]>>
  <2>1. /\ Hears(c) /\ r.hash = now /\ want'[c] = r.kind
        /\ \/ want[c] = "none" /\ begun'[c] = begun[c] + 1
           \/ /\ begun'[c] = begun[c]
              /\ \/ want[c] = "agree" /\ r.kind \in {"token", "assert"}
                 \/ want[c] = "token" /\ r.kind \in {"make", "assert"}
    BY <1>3 DEF Asks, Belongs
  \* No getAssertion of this operation has been sent.
  <2>2. /\ ~Signed(now) /\ Unasked(c, now)
        /\ \A i \in DOMAIN inbox[c] : inbox[c][i].kind = "assert" => inbox[c][i].hash # now
    <3>1. CASE begun'[c] = begun[c] + 1
      <4>1. now[1] = c /\ now[2] = begun[c] + 1
        BY <3>1
      <4>2. ~Signed(now)
        <5>1. ~(now[2] <= begun[c])
          BY <4>1
        <5>2. QED
          BY <4>1, <5>1, SignedBegun DEF IsOperation
      <4>3. Unasked(c, now)
        BY <4>1 DEF Unasked
      <4>4. \A i \in DOMAIN inbox[c] : inbox[c][i].kind = "assert" => inbox[c][i].hash # now
        BY <4>1
      <4>5. QED
        BY <4>2, <4>3, <4>4
    <3>2. CASE begun'[c] = begun[c] /\ want[c] \in {"agree", "token"}
      BY <3>2 DEF HashesOf
    <3>3. QED
      BY <2>1, <3>1, <3>2
  <2>. HIDE DEF now
  <2>3. ASSUME NEW i \in DOMAIN line'[c]
        PROVE  \/ i \in DOMAIN line[c] /\ line'[c][i] = line[c][i]
               \/ i = Len(line[c]) + 1 /\ line'[c][i] = r
    BY <1>3, AskedBefore
  <2>4. FreshAfter(c)
    BY <1>3, <2>1, <2>2, <2>3 DEF HashesOf, FreshAfter, NoneSigned
  <2>5. OnceAfter(c)
    <3>. SUFFICES ASSUME NEW i \in DOMAIN line'[c], NEW j \in DOMAIN line'[c],
                         line'[c][i].kind = "assert", line'[c][j].kind = "assert",
                         line'[c][j].hash = line'[c][i].hash
                  PROVE  i = j
      BY DEF OnceAfter
    <3>1. CASE i \in DOMAIN line[c] /\ line'[c][i] = line[c][i]
      <4>1. j \in DOMAIN line[c] /\ line'[c][j] = line[c][j]
        BY <2>1, <2>2, <2>3, <3>1 DEF Unasked
      <4>2. QED
        BY <3>1, <4>1 DEF HashesOf
    <3>2. CASE i = Len(line[c]) + 1 /\ line'[c][i] = r
      <4>1. j = Len(line[c]) + 1
        BY <2>1, <2>2, <2>3, <3>2 DEF Unasked
      <4>2. QED
        BY <3>2, <4>1
    <3>3. QED
      BY <2>3, <3>1, <3>2
  <2>6. WaitsAfter(c)
    <3>. SUFFICES ASSUME want'[c] \in {"agree", "token"}
                  PROVE  /\ ~SignedAfter(now) /\ UnaskedAfter(c, now)
                         /\ \A i \in DOMAIN inbox'[c] :
                              inbox'[c][i].kind = "assert" => inbox'[c][i].hash # now
      BY DEF WaitsAfter, now
    <3>1. r.kind # "assert"
      BY <2>1
    <3>2. UnaskedAfter(c, now)
      BY <2>2, <2>3, <3>1 DEF UnaskedAfter, Unasked
    <3>3. \A i \in DOMAIN inbox'[c] : inbox'[c][i].kind = "assert" => inbox'[c][i].hash # now
      BY <2>1, <2>2, HeardBefore
    <3>4. QED
      BY <1>3, <2>2, <3>2, <3>3 DEF NoneSigned
  <2>7. ASSUME NEW i \in DOMAIN inbox'[c]
        PROVE  RefusedAfter(c, inbox'[c][i])
    <3>1. PICK j \in DOMAIN inbox[c] : inbox'[c][i] = inbox[c][j]
      BY <2>1, HeardBefore
    <3>. SUFFICES ASSUME inbox[c][j].kind = "assert", inbox[c][j].status # "ok"
                  PROVE  ~SignedAfter(inbox[c][j].hash) /\ UnaskedAfter(c, inbox[c][j].hash)
      BY <3>1 DEF RefusedAfter
    <3>2. ~Signed(inbox[c][j].hash) /\ Unasked(c, inbox[c][j].hash)
      BY DEF HashesOf
    <3>3. UnaskedAfter(c, inbox[c][j].hash)
      BY <2>1, <2>2, <2>3, <3>2 DEF UnaskedAfter, Unasked
    <3>4. QED
      BY <1>3, <3>2, <3>3 DEF NoneSigned
  <2>8. QED
    BY <2>4, <2>5, <2>6, <2>7
<1>4. ASSUME NEW k, NEW p, Answered(c, k, p), OneSigned(line[c][k], p)
      PROVE  /\ FreshAfter(c) /\ OnceAfter(c) /\ WaitsAfter(c)
             /\ \A i \in DOMAIN inbox'[c] : RefusedAfter(c, inbox'[c][i])
  <2>. DEFINE r == line[c][k]
  <2>1. /\ want'[c] = want[c] /\ begun'[c] = begun[c] /\ k \in DOMAIN line[c]
        /\ p.kind = r.kind /\ (p.kind # "next" => p.hash = r.hash)
    BY <1>4 DEF Answered, Serves, Answers
  <2>2. ASSUME NEW h, SignedAfter(h)
        PROVE  Signed(h) \/ (r.kind = "assert" /\ p.status = "ok" /\ h = r.hash)
    BY <1>4, <2>2 DEF OneSigned
  <2>3. ASSUME NEW i \in DOMAIN line'[c]
        PROVE  Was(k, i) \in DOMAIN line[c] \ {k} /\ line'[c][i] = line[c][Was(k, i)]
    BY <1>4, AnsweredBefore
  <2>4. FreshAfter(c)
    BY <2>1, <2>2, <2>3 DEF HashesOf, FreshAfter
  <2>5. OnceAfter(c)
    <3>. SUFFICES ASSUME NEW i \in DOMAIN line'[c], NEW j \in DOMAIN line'[c],
                         line'[c][i].kind = "assert", line'[c][j].kind = "assert",
                         line'[c][j].hash = line'[c][i].hash
                  PROVE  i = j
      BY DEF OnceAfter
    <3>1. Was(k, i) = Was(k, j)
      BY <2>3 DEF HashesOf
    <3>2. i \in Nat /\ j \in Nat /\ k \in Nat
      <4>1. line'[c] \in Seq(Request)
        BY TypeStep DEF BaseInv, TypeOK, LinkOK
      <4>2. QED
        BY <2>1, <4>1, LenProperties
    <3>3. QED
      BY <3>1, <3>2 DEF Was
  <2>6. \A h : Unasked(c, h) => UnaskedAfter(c, h)
    BY <2>3 DEF Unasked, UnaskedAfter
  <2>7. ASSUME NEW i \in DOMAIN inbox[c]
        PROVE  RefusedAfter(c, inbox[c][i])
    <3>. SUFFICES ASSUME inbox[c][i].kind = "assert", inbox[c][i].status # "ok"
                  PROVE  ~SignedAfter(inbox[c][i].hash) /\ UnaskedAfter(c, inbox[c][i].hash)
      BY DEF RefusedAfter
    <3>1. ~Signed(inbox[c][i].hash) /\ Unasked(c, inbox[c][i].hash)
      BY DEF HashesOf
    <3>2. QED
      BY <2>1, <2>2, <2>6, <3>1 DEF Unasked
  <2>8. RefusedAfter(c, p)
    <3>. SUFFICES ASSUME p.kind = "assert", p.status # "ok"
                  PROVE  ~SignedAfter(r.hash) /\ UnaskedAfter(c, r.hash)
      BY <2>1 DEF RefusedAfter
    <3>1. ~SignedAfter(r.hash)
      BY <2>1, <2>2 DEF HashesOf
    <3>2. UnaskedAfter(c, r.hash)
      BY <2>1, <2>3 DEF UnaskedAfter, HashesOf
    <3>3. QED
      BY <3>1, <3>2
  <2>9. \A i \in DOMAIN inbox'[c] : RefusedAfter(c, inbox'[c][i])
    BY <1>4, <2>7, <2>8, AnsweredBefore
  <2>10. WaitsAfter(c)
    <3>. SUFFICES ASSUME want[c] \in {"agree", "token"}
                  PROVE  /\ ~SignedAfter(<<c, begun[c]>>) /\ UnaskedAfter(c, <<c, begun[c]>>)
                         /\ \A i \in DOMAIN inbox'[c] :
                              inbox'[c][i].kind = "assert" => inbox'[c][i].hash # <<c, begun[c]>>
      BY <2>1 DEF WaitsAfter
    <3>1. /\ ~Signed(<<c, begun[c]>>) /\ Unasked(c, <<c, begun[c]>>)
          /\ \A i \in DOMAIN inbox[c] :
               inbox[c][i].kind = "assert" => inbox[c][i].hash # <<c, begun[c]>>
      BY DEF HashesOf
    <3>2. r.kind = "assert" => r.hash # <<c, begun[c]>>
      BY <2>1, <3>1 DEF Unasked
    <3>3. ~SignedAfter(<<c, begun[c]>>)
      BY <2>2, <3>1, <3>2
    <3>4. ASSUME NEW i \in DOMAIN inbox'[c], inbox'[c][i].kind = "assert"
          PROVE  inbox'[c][i].hash # <<c, begun[c]>>
      <4>1. CASE i \in DOMAIN inbox[c] /\ inbox'[c][i] = inbox[c][i]
        BY <3>1, <3>4, <4>1
      <4>2. CASE inbox'[c][i] = p
        BY <2>1, <3>2, <3>4, <4>2
      <4>3. QED
        BY <1>4, <4>1, <4>2, AnsweredBefore
    <3>5. QED
      BY <2>6, <3>1, <3>3, <3>4
  <2>11. QED
    BY <2>4, <2>5, <2>9, <2>10
<1>5. CASE Emptied(c) /\ NoneSigned
  <2>1. /\ DOMAIN line'[c] = {} /\ DOMAIN inbox'[c] = {}
        /\ want'[c] = want[c] /\ begun'[c] = begun[c]
    BY <1>5, NothingAfterEmptied DEF Emptied
  <2>2. WaitsAfter(c)
    BY <1>5, <2>1 DEF WaitsAfter, HashesOf, NoneSigned, UnaskedAfter
  <2>3. QED
    BY <2>1, <2>2 DEF FreshAfter, OnceAfter
<1>6. QED
  BY <1>1, <1>2, <1>3, <1>4, <1>5, HashShapes

LEMMA HashStep == BaseInv /\ HashInv /\ [Next]_vars => HashInv'
<1>. SUFFICES ASSUME BaseInv, HashInv, [Next]_vars
              PROVE  HashInv'
  OBVIOUS
<1>. DEFINE Begun(h) == h[1] \in Clients /\ h[2] <= begun'[h[1]]
<1>1. \A h : SignedAfter(h) => Begun(h)
  BY SignedBegunStep
<1>2. \A p \in pending' : Begun(p.hash)
  BY <1>1 DEF SignedAfter
<1>3. ASSUME NEW c \in Clients
      PROVE  /\ \A i \in DOMAIN walk'[c] : Begun(walk'[c][i].hash)
             /\ \A i \in DOMAIN inbox'[c] :
                  inbox'[c][i].kind \in {"assert", "next"} /\ inbox'[c][i].status = "ok" =>
                    Begun(inbox'[c][i].hash)
  BY <1>1 DEF SignedAfter
<1>. HIDE DEF Begun
<1>4. ASSUME NEW c \in Clients
      PROVE  HashesOf(c)'
  <2>1. /\ FreshAfter(c) /\ OnceAfter(c) /\ WaitsAfter(c)
        /\ \A i \in DOMAIN inbox'[c] : RefusedAfter(c, inbox'[c][i])
    BY HashesStep
  <2>2. QED
    BY <1>3, <2>1 DEF HashesOf, FreshAfter, OnceAfter, WaitsAfter, RefusedAfter, Unasked, UnaskedAfter,
       Signed, SignedAfter, IsAssertion, IsOperation, Begun
<1>5. QED
  BY <1>2, <1>4 DEF HashInv, IsOperation, Begun

\* WalksOf after a step.
NoOrphanAfter(c) == \A i \in DOMAIN line'[c] : ~(line'[c][i].from[2] <= opened'[c])

AskedAfter(c) ==
  /\ \A i \in DOMAIN line'[c] :
       line'[c][i].kind = "assert" /\ ~(line'[c][i].from[2] <= opened'[c]) =>
         line'[c][i].hash = <<c, begun'[c]>>
  /\ \A i \in DOMAIN inbox'[c] : inbox'[c][i].kind = "assert" => inbox'[c][i].hash = <<c, begun'[c]>>

ApartAfter(c, p) ==
  /\ \A i \in DOMAIN walk'[c] : walk'[c][i].hash = p.hash => walk'[c][i].cred \cap p.left = {}
  /\ walk'[c] # << >> /\ p.hash[1] = c =>
       \/ p.hash = walk'[c][1].hash
       \/ want'[c] = "assert" /\ p.hash = <<c, begun'[c]>>

SeenAfter(c) ==
  /\ walk'[c] # << >> => NoOrphanAfter(c)
  /\ \A i \in DOMAIN walk'[c] : walk'[c][i].cred # {}
  /\ \A p \in pending' : ApartAfter(c, p)

HeardAfter(c, r) ==
  /\ NoOrphanAfter(c)
  /\ r.cred # {}
  /\ \A p \in pending' :
       /\ p.hash = r.hash => r.cred \cap p.left = {}
       /\ p.hash[1] = c => p.hash = r.hash
  /\ r.kind = "next" =>
       \A i \in DOMAIN walk'[c] :
         /\ r.hash[1] = c => r.hash = walk'[c][1].hash
         /\ r.hash = walk'[c][i].hash => walk'[c][i].cred \cap r.cred = {}

ContinuesAfter(c) ==
  \A i, j \in DOMAIN walk'[c] : i < j =>
    /\ walk'[c][j].hash = walk'[c][1].hash \/ walk'[c][j].hash[1] # c
    /\ walk'[c][i].hash = walk'[c][j].hash => walk'[c][i].cred # walk'[c][j].cred

WalkAfter(c) ==
  /\ AskedAfter(c) /\ SeenAfter(c) /\ ContinuesAfter(c)
  /\ \A i \in DOMAIN inbox'[c] :
       inbox'[c][i].kind \in {"assert", "next"} /\ inbox'[c][i].status = "ok" =>
         HeardAfter(c, inbox'[c][i])

Continues(c) ==
  \A i, j \in DOMAIN walk[c] : i < j =>
    /\ walk[c][j].hash = walk[c][1].hash \/ walk[c][j].hash[1] # c
    /\ walk[c][i].hash = walk[c][j].hash => walk[c][i].cred # walk[c][j].cred

\* The step of another client, or of the authenticator for it.
LEMMA WalkOfOthers ==
  ASSUME BaseInv, NEW c \in Clients, trusted[c], WalksOf(c), Continues(c),
         Same(c), SignsApart(c)
  PROVE  WalkAfter(c)
<1>1. /\ line'[c] = line[c] /\ inbox'[c] = inbox[c] /\ opened'[c] = opened[c]
      /\ walk'[c] = walk[c] /\ want'[c] = want[c] /\ begun'[c] = begun[c]
  BY DEF Same
<1>2. AskedOf(c) /\ SeenOf(c)
  BY DEF WalksOf
<1>3. AskedAfter(c)
  BY <1>1, <1>2 DEF AskedOf, AskedAfter, Orphan
<1>4. NoOrphan(c) => NoOrphanAfter(c)
  BY <1>1 DEF NoOrphan, NoOrphanAfter, Orphan
\* What is still to come was, or is of no sequence c has seen.
<1>5. ASSUME NEW q \in pending'
      PROVE  ApartAfter(c, q)
  <2>1. CASE \E s \in pending : s.hash = q.hash /\ q.left \subseteq s.left
    <3>1. PICK s \in pending : s.hash = q.hash /\ q.left \subseteq s.left
      BY <2>1
    <3>2. /\ \A i \in DOMAIN walk[c] : walk[c][i].hash = s.hash => walk[c][i].cred \cap s.left = {}
          /\ walk[c] # << >> /\ s.hash[1] = c =>
               \/ s.hash = walk[c][1].hash
               \/ want[c] = "assert" /\ s.hash = <<c, begun[c]>>
      BY <1>2 DEF SeenOf
    <3>3. \A i \in DOMAIN walk[c] : walk[c][i].hash = q.hash => walk[c][i].cred \cap q.left = {}
      BY <3>1, <3>2
    <3>4. QED
      BY <1>1, <3>1, <3>2, <3>3 DEF ApartAfter
  <2>2. CASE q.hash[1] # c /\ ~Signed(q.hash)
    <3>1. \A i \in DOMAIN walk[c] : walk[c][i].hash # q.hash
      BY <2>2 DEF Signed
    <3>2. QED
      BY <1>1, <2>2, <3>1 DEF ApartAfter
  <2>3. QED
    BY <2>1, <2>2 DEF SignsApart
<1>6. SeenAfter(c)
  BY <1>1, <1>2, <1>4, <1>5 DEF SeenOf, SeenAfter
<1>7. ASSUME NEW i \in DOMAIN inbox[c], IsAssertion(inbox[c][i])
      PROVE  HeardAfter(c, inbox[c][i])
  <2>. DEFINE r == inbox[c][i]
  <2>1. HeardOf(c, r)
    BY <1>7 DEF WalksOf
  <2>2. ASSUME NEW q \in pending'
        PROVE  /\ q.hash = r.hash => r.cred \cap q.left = {}
               /\ q.hash[1] = c => q.hash = r.hash
    <3>1. CASE \E s \in pending : s.hash = q.hash /\ q.left \subseteq s.left
      <4>1. PICK s \in pending : s.hash = q.hash /\ q.left \subseteq s.left
        BY <3>1
      <4>2. /\ s.hash = r.hash => r.cred \cap s.left = {}
            /\ s.hash[1] = c => s.hash = r.hash
        BY <2>1 DEF HeardOf
      <4>3. QED
        BY <4>1, <4>2
    <3>2. CASE q.hash[1] # c /\ ~Signed(q.hash)
      <4>1. r.hash # q.hash
        BY <1>7, <3>2 DEF Signed
      <4>2. QED
        BY <3>2, <4>1
    <3>3. QED
      BY <3>1, <3>2 DEF SignsApart
  <2>. HIDE DEF r
  <2>3. HeardAfter(c, r)
    BY <1>1, <1>4, <2>1, <2>2 DEF HeardOf, HeardAfter
  <2>4. QED
    BY <2>3 DEF r
<1>8. ContinuesAfter(c)
  BY <1>1 DEF Continues, ContinuesAfter
<1>9. QED
  BY <1>1, <1>3, <1>6, <1>7, <1>8 DEF WalkAfter, IsAssertion

\* The step of the authenticator for c.
LEMMA WalkOfAnswer ==
  ASSUME BaseInv, HashInv, NEW c \in Clients, trusted[c], ChannelOf(c), WalksOf(c), Continues(c),
         NEW k, NEW p, Answered(c, k, p)
  PROVE  WalkAfter(c)
<1>. DEFINE r == line[c][k]
<1>1. /\ opened'[c] = opened[c] /\ walk'[c] = walk[c] /\ want'[c] = want[c] /\ begun'[c] = begun[c]
      /\ k \in DOMAIN line[c] /\ p.of = r.from /\ p.kind = r.kind /\ Effect(r, p)
      /\ p.kind # "next" => p.hash = r.hash
  BY DEF Answered, Serves, Answers
<1>2. AskedOf(c) /\ SeenOf(c) /\ LinkOK
  BY DEF WalksOf, BaseInv, TypeOK
<1>3. ~Orphan(c, r) => r.kind = want[c] /\ (r.kind = "assert" => r.hash = <<c, begun[c]>>)
  BY <1>1, <1>2 DEF ChannelOf, Current, AskedOf
<1>4. r.kind = "assert" => ~Signed(r.hash)
  BY <1>1 DEF HashInv, HashesOf
<1>5. ASSUME NEW i \in DOMAIN line'[c]
      PROVE  Was(k, i) \in DOMAIN line[c] /\ line'[c][i] = line[c][Was(k, i)]
  BY AnsweredBefore, <1>2
<1>6. ASSUME NEW i \in DOMAIN inbox'[c]
      PROVE  \/ i \in DOMAIN inbox[c] /\ inbox'[c][i] = inbox[c][i]
             \/ inbox'[c][i] = p /\ ~Orphan(c, r)
  BY AnsweredBefore, <1>2
<1>7. AskedAfter(c)
  <2>1. ASSUME NEW i \in DOMAIN line'[c], line'[c][i].kind = "assert", ~(line'[c][i].from[2] <= opened'[c])
        PROVE  line'[c][i].hash = <<c, begun'[c]>>
    BY <1>1, <1>2, <1>5, <2>1 DEF AskedOf, Orphan
  <2>2. ASSUME NEW i \in DOMAIN inbox'[c], inbox'[c][i].kind = "assert"
        PROVE  inbox'[c][i].hash = <<c, begun'[c]>>
    BY <1>1, <1>2, <1>3, <1>6, <2>2 DEF AskedOf
  <2>3. QED
    BY <2>1, <2>2 DEF AskedAfter
<1>8. NoOrphan(c) => NoOrphanAfter(c)
  BY <1>1, <1>5 DEF NoOrphan, NoOrphanAfter, Orphan
<1>9. ASSUME NEW q \in pending'
      PROVE  ApartAfter(c, q)
  <2>1. CASE \E s \in pending : s.hash = q.hash /\ q.left \subseteq s.left
    <3>1. PICK s \in pending : s.hash = q.hash /\ q.left \subseteq s.left
      BY <2>1
    <3>2. /\ \A i \in DOMAIN walk[c] : walk[c][i].hash = s.hash => walk[c][i].cred \cap s.left = {}
          /\ walk[c] # << >> /\ s.hash[1] = c =>
               \/ s.hash = walk[c][1].hash
               \/ want[c] = "assert" /\ s.hash = <<c, begun[c]>>
      BY <1>2 DEF SeenOf
    <3>3. \A i \in DOMAIN walk[c] : walk[c][i].hash = q.hash => walk[c][i].cred \cap q.left = {}
      BY <3>1, <3>2
    <3>4. QED
      BY <1>1, <3>1, <3>2, <3>3 DEF ApartAfter
  <2>2. CASE r.kind = "assert" /\ p.status = "ok" /\ q.hash = r.hash
    <3>1. \A i \in DOMAIN walk[c] : walk[c][i].hash # q.hash
      BY <1>4, <2>2 DEF Signed
    <3>2. walk[c] # << >> => want[c] = "assert" /\ q.hash = <<c, begun[c]>>
      BY <1>1, <1>2, <1>3, <2>2 DEF SeenOf, NoOrphan
    <3>3. QED
      BY <1>1, <3>1, <3>2 DEF ApartAfter
  <2>3. QED
    BY <1>1, <2>1, <2>2, StillToCome
<1>10. SeenAfter(c)
  BY <1>1, <1>2, <1>8, <1>9 DEF SeenOf, SeenAfter
\* An assertion that was on its way before: c asked nothing else.
<1>11. ASSUME NEW i \in DOMAIN inbox[c], IsAssertion(inbox[c][i])
       PROVE  FALSE
  <2>1. NoOrphan(c)
    BY <1>11 DEF WalksOf, HeardOf
  <2>2. inbox[c] = << >>
    BY <1>1, <2>1 DEF NoOrphan, ChannelOf
  <2>3. DOMAIN inbox[c] = {}
    BY <2>2, EmptySeq, LenProperties
  <2>4. QED
    BY <1>11, <2>3
<1>12. ASSUME ~Orphan(c, r), IsAssertion(p)
       PROVE  HeardAfter(c, p)
  <2>1. line'[c] = << >>
    BY <1>12, LastServed DEF IsAssertion
  <2>2. NoOrphanAfter(c)
    <3>1. DOMAIN line'[c] = {}
      BY <2>1, EmptySeq, LenProperties
    <3>2. QED
      BY <3>1 DEF NoOrphanAfter
  <2>3. CASE r.kind = "assert"
    <3>1. PICK cred \in Candidates(r) : \E left :
            p.cred = {cred} /\ cred \notin left /\ pending' = {[hash |-> r.hash, left |-> left]}
      BY <1>1, <1>12, <2>3 DEF Effect, Signs, IsAssertion
    <3>2. PICK left : p.cred = {cred} /\ cred \notin left /\ pending' = {[hash |-> r.hash, left |-> left]}
      BY <3>1
    <3>3. \A q \in pending' : q.hash = p.hash /\ p.cred \cap q.left = {}
      BY <1>1, <2>3, <3>2
    <3>4. QED
      BY <1>1, <2>2, <2>3, <3>2, <3>3 DEF HeardAfter
  <2>4. CASE r.kind = "next"
    <3>1. PICK q \in pending : \E cred \in q.left :
            /\ p.hash = q.hash /\ p.cred = {cred}
            /\ pending' = {[q EXCEPT !.left = @ \ {cred}]}
      BY <1>1, <1>12, <2>4 DEF Effect, SignsNext, IsAssertion
    <3>2. PICK cred \in q.left :
            /\ p.hash = q.hash /\ p.cred = {cred}
            /\ pending' = {[q EXCEPT !.left = @ \ {cred}]}
      BY <3>1
    <3>3. q \in [hash : Call, left : SUBSET Nat]
      BY DEF BaseInv, TypeOK, AuthenticatorOK
    <3>4. \A s \in pending' : s.hash = p.hash /\ p.cred \cap s.left = {}
      BY <3>2, <3>3
    <3>5. ASSUME NEW i \in DOMAIN walk[c]
          PROVE  /\ p.hash[1] = c => p.hash = walk[c][1].hash
                 /\ p.hash = walk[c][i].hash => walk[c][i].cred \cap p.cred = {}
      <4>1. walk[c] # << >>
        BY EmptySeq, LenProperties
      <4>2. /\ walk[c][i].hash = q.hash => walk[c][i].cred \cap q.left = {}
            /\ q.hash[1] = c =>
                 \/ q.hash = walk[c][1].hash
                 \/ want[c] = "assert" /\ q.hash = <<c, begun[c]>>
        BY <1>2, <4>1 DEF SeenOf
      <4>3. want[c] = "next"
        BY <1>3, <1>12, <2>4
      <4>4. QED
        BY <3>2, <4>2, <4>3
    <3>6. QED
      BY <1>1, <2>2, <3>2, <3>4, <3>5 DEF HeardAfter
  <2>5. QED
    BY <1>1, <1>12, <2>3, <2>4 DEF IsAssertion
<1>13. ContinuesAfter(c)
  BY <1>1 DEF Continues, ContinuesAfter
<1>14. ASSUME NEW i \in DOMAIN inbox'[c], inbox'[c][i].kind \in {"assert", "next"}, inbox'[c][i].status = "ok"
       PROVE  HeardAfter(c, inbox'[c][i])
  BY <1>6, <1>11, <1>12, <1>14 DEF IsAssertion
<1>15. QED
  BY <1>7, <1>10, <1>13, <1>14 DEF WalkAfter

\* The step of c itself, which hears all there is to hear.
LEMMA WalkOfOwn ==
  ASSUME BaseInv, HashInv, NEW c \in Clients, ChannelOf(c), trusted'[c],
         trusted[c] => WalksOf(c) /\ Continues(c),
         ClientStep(c), Rests(c) \/ \E r : Asks(c, r), UNCHANGED authenticator
  PROVE  WalkAfter(c)
<1>1. LinkOK /\ MemoryOK /\ ClientOK /\ NumbersOf(c) /\ pending' = pending /\ Hears(c)
  BY DEF BaseInv, TypeOK, NumberInv, authenticator, Rests, Asks
<1>2. inbox'[c] = << >> /\ \A i \in DOMAIN line[c] : line[c][i].from[2] <= opened'[c]
  BY <1>1, HeardAll
<1>3. DOMAIN inbox'[c] = {}
  BY <1>2, EmptySeq, LenProperties
<1>4. AskedAfter(c)
  <2>1. CASE Rests(c)
    BY <1>2, <1>3, <2>1 DEF Rests, AskedAfter
  <2>2. ASSUME NEW r, Asks(c, r)
        PROVE  AskedAfter(c)
    <3>1. r.hash = <<c, begun'[c]>>
      BY <2>2 DEF Asks, Belongs
    <3>2. QED
      BY <1>1, <1>2, <1>3, <2>2, <3>1, AskedBefore DEF AskedAfter
  <2>3. QED
    BY <2>1, <2>2
<1>5. CASE walk'[c] = << >>
  <2>1. DOMAIN walk'[c] = {}
    BY <1>5
  <2>2. SeenAfter(c) /\ ContinuesAfter(c)
    BY <1>5, <2>1 DEF SeenAfter, ApartAfter, ContinuesAfter
  <2>3. QED
    BY <1>3, <1>4, <2>2 DEF WalkAfter
<1>6. CASE /\ walk'[c] = walk[c] /\ opened'[c] = opened[c] /\ trusted[c]
           /\ want[c] = "assert" => Take(c) /\ ~Fits(Got(c), "assert")
  <2>1. AskedOf(c) /\ SeenOf(c) /\ Continues(c)
    BY <1>6 DEF WalksOf
  <2>2. ASSUME walk[c] # << >>
        PROVE  NoOrphanAfter(c)
    <3>1. DOMAIN line[c] = {}
      <4>1. NoOrphan(c)
        BY <2>1, <2>2 DEF SeenOf
      <4>2. \A i \in DOMAIN line[c] : line[c][i].from[2] <= opened[c]
        BY <1>2, <1>6
      <4>3. QED
        BY <4>1, <4>2 DEF NoOrphan, Orphan
    <3>2. CASE Rests(c)
      BY <3>1, <3>2 DEF Rests, NoOrphanAfter
    <3>3. ASSUME NEW r, Asks(c, r)
          PROVE  NoOrphanAfter(c)
      <4>1. r.from = <<c, sent[c] + 1>>
        BY <3>3 DEF Asks, Belongs, NextCall
      <4>2. opened'[c] <= sent[c] /\ opened'[c] \in Nat /\ sent[c] \in Nat
        <5>1. opened[c] \in Nat /\ sent[c] \in Nat
          BY QueueTypes
        <5>2. QED
          BY <1>1, <1>6, <5>1 DEF NumbersOf
      <4>3. ~(r.from[2] <= opened'[c])
        BY <4>1, <4>2
      <4>4. QED
        BY <1>1, <3>1, <3>3, <4>3, AskedBefore DEF NoOrphanAfter
    <3>4. QED
      BY <3>2, <3>3
  <2>3. ASSUME NEW q \in pending, walk[c] # << >>, q.hash[1] = c
        PROVE  q.hash = walk[c][1].hash
    <3>1. q.hash = walk[c][1].hash \/ (want[c] = "assert" /\ q.hash = <<c, begun[c]>>)
      BY <2>1, <2>3 DEF SeenOf
    \* A getAssertion that failed signed nothing.
    <3>2. ASSUME want[c] = "assert", q.hash = <<c, begun[c]>>
          PROVE  FALSE
      <4>1. Got(c) = inbox[c][1] /\ 1 \in DOMAIN inbox[c] /\ Got(c).kind = "assert"
        BY <1>1, <1>6, <3>2, TakesCurrent
      <4>2. Got(c).status # "ok" /\ Got(c).hash = q.hash
        BY <1>6, <2>1, <3>2, <4>1 DEF Fits, AskedOf
      <4>3. ~Signed(q.hash)
        BY <4>1, <4>2 DEF HashInv, HashesOf
      <4>4. QED
        BY <4>3 DEF Signed
    <3>3. QED
      BY <3>1, <3>2
  <2>4. \A q \in pending' : ApartAfter(c, q)
    BY <1>1, <1>6, <2>1, <2>3 DEF SeenOf, ApartAfter
  <2>5. SeenAfter(c)
    BY <1>6, <2>1, <2>2, <2>4 DEF SeenOf, SeenAfter
  <2>6. ContinuesAfter(c)
    BY <1>6, <2>1 DEF Continues, ContinuesAfter
  <2>7. QED
    BY <1>3, <1>4, <2>5, <2>6 DEF WalkAfter
<1>7. CASE Reads(c)
  <2>. DEFINE g == Got(c)
  <2>1. /\ trusted[c] /\ line' = line /\ opened' = opened
        /\ IsAssertion(g) /\ g = inbox[c][1] /\ 1 \in DOMAIN inbox[c]
    BY <1>7, ReadsAssertion DEF Reads
  <2>2. SeenOf(c) /\ Continues(c) /\ HeardOf(c, g)
    BY <2>1 DEF WalksOf
  <2>3. op[c].name = "next" => g.kind = "next" /\ want[c] = "next"
    <3>1. want[c] \in {"assert", "next"} /\ WaitsFor(op[c], want[c])
      BY <1>7 DEF Reads, BaseInv, OperationInv, OperationOf
    <3>2. op[c].name = "next" => want[c] = "next"
      BY <3>1 DEF WaitsFor
    <3>3. g.kind = want[c]
      BY <1>1, <1>7, <2>1, TakesCurrent DEF Reads
    <3>4. QED
      BY <3>2, <3>3
  <2>4. ASSUME NEW i \in DOMAIN walk'[c]
        PROVE  \/ op[c].name = "next" /\ i \in DOMAIN walk[c] /\ walk'[c][i] = walk[c][i]
               \/ /\ walk'[c][i].hash = g.hash /\ walk'[c][i].cred = g.cred
                  /\ op[c].name # "next" => i = 1
                  /\ op[c].name = "next" => i = Len(walk[c]) + 1 /\ i \notin DOMAIN walk[c]
    <3>1. \/ op[c].name = "next" /\ i \in DOMAIN walk[c] /\ walk'[c][i] = walk[c][i]
          \/ /\ walk'[c][i] = [hash |-> Got(c).hash, cred |-> Got(c).cred]
             /\ op[c].name # "next" => i = 1
             /\ op[c].name = "next" => i = Len(walk[c]) + 1 /\ i \notin DOMAIN walk[c]
      BY <1>7, WalkBefore
    <3>2. QED
      BY <3>1
  <2>5. walk[c] \in Seq([hash : Call, cred : SUBSET Nat])
    BY <1>1 DEF MemoryOK
  \* The first is the one of before, or the one read.
  <2>6. \/ op[c].name = "next" /\ walk[c] # << >> /\ walk'[c][1] = walk[c][1]
        \/ (op[c].name = "next" => walk[c] = << >>) /\ walk'[c][1].hash = g.hash
    <3>1. 1 \in DOMAIN walk'[c]
      <4>. DEFINE x == [hash |-> g.hash, cred |-> g.cred]
      <4>1. x \in [hash : Call, cred : SUBSET Nat]
        BY <1>1, <1>7, GotReply, ReplyFields DEF Reads
      <4>2. walk'[c] = Append(walk[c], x) \/ walk'[c] = <<x>>
        BY <1>7 DEF Reads
      <4>. HIDE DEF x
      <4>3. Append(walk[c], x) \in Seq([hash : Call, cred : SUBSET Nat]) /\ Len(Append(walk[c], x)) = Len(walk[c]) + 1
        BY <2>5, <4>1
      <4>4. 1 \in DOMAIN Append(walk[c], x)
        BY <2>5, <4>3
      <4>5. QED
        BY <4>2, <4>4
    <3>2. walk[c] # << >> => 1 \in DOMAIN walk[c]
      BY <2>5, EmptySeq, LenProperties
    <3>3. walk[c] = << >> => DOMAIN walk[c] = {}
      OBVIOUS
    <3>4. QED
      BY <2>4, <3>1, <3>2, <3>3
  <2>7. NoOrphanAfter(c)
    BY <2>1, <2>2 DEF HeardOf, NoOrphan, NoOrphanAfter, Orphan
  <2>8. \A i \in DOMAIN walk'[c] : walk'[c][i].cred # {}
    BY <2>2, <2>4 DEF HeardOf, SeenOf
  <2>9. ASSUME NEW q \in pending
        PROVE  ApartAfter(c, q)
    <3>1. \A i \in DOMAIN walk'[c] : walk'[c][i].hash = q.hash => walk'[c][i].cred \cap q.left = {}
      BY <2>2, <2>4 DEF HeardOf, SeenOf
    <3>2. ASSUME q.hash[1] = c
          PROVE  q.hash = walk'[c][1].hash
      <4>1. q.hash = g.hash
        BY <2>2, <3>2 DEF HeardOf
      <4>2. op[c].name = "next" /\ walk[c] # << >> => q.hash = walk[c][1].hash
        BY <2>2, <2>3, <3>2 DEF SeenOf
      <4>3. QED
        BY <2>6, <4>1, <4>2
    <3>3. QED
      BY <3>1, <3>2 DEF ApartAfter
  <2>10. SeenAfter(c)
    BY <1>1, <2>7, <2>8, <2>9 DEF SeenAfter
  <2>11. ASSUME NEW i \in DOMAIN walk'[c], NEW j \in DOMAIN walk'[c], i < j
         PROVE  /\ walk'[c][j].hash = walk'[c][1].hash \/ walk'[c][j].hash[1] # c
                /\ walk'[c][i].hash = walk'[c][j].hash => walk'[c][i].cred # walk'[c][j].cred
    <3>1. DOMAIN walk[c] = 1..Len(walk[c]) /\ Len(walk[c]) \in Nat
      BY <2>5, LenProperties
    <3>2. op[c].name = "next" /\ i \in DOMAIN walk[c] /\ walk'[c][i] = walk[c][i]
      <4>1. CASE op[c].name # "next"
        BY <2>4, <2>11, <4>1
      <4>2. CASE op[c].name = "next" /\ i = Len(walk[c]) + 1
        <5>1. j \in 1..(Len(walk[c]) + 1)
          BY <2>4, <3>1, <4>2
        <5>2. QED
          BY <2>11, <3>1, <4>2, <5>1
      <4>3. QED
        BY <2>4, <4>1, <4>2
    <3>3. walk[c] # << >> /\ walk'[c][1] = walk[c][1]
      <4>1. DOMAIN << >> = {}
        OBVIOUS
      <4>2. QED
        BY <2>6, <3>2, <4>1
    <3>4. CASE j \in DOMAIN walk[c] /\ walk'[c][j] = walk[c][j]
      BY <2>2, <2>11, <3>2, <3>3, <3>4 DEF Continues
    <3>5. CASE walk'[c][j].hash = g.hash /\ walk'[c][j].cred = g.cred
      <4>1. /\ g.hash[1] = c => g.hash = walk[c][1].hash
            /\ g.hash = walk[c][i].hash => walk[c][i].cred \cap g.cred = {}
        BY <2>2, <2>3, <3>2 DEF HeardOf
      <4>2. g.cred # {}
        BY <2>2 DEF HeardOf
      <4>3. QED
        BY <3>2, <3>3, <3>5, <4>1, <4>2
    <3>6. QED
      BY <2>4, <3>4, <3>5
  <2>12. ContinuesAfter(c)
    BY <2>11 DEF ContinuesAfter
  <2>13. QED
    BY <1>3, <1>4, <2>10, <2>12 DEF WalkAfter
<1>8. QED
  BY <1>1, <1>5, <1>6, <1>7, WalkCases

\* A power cycle.
LEMMA WalkOfEmptied ==
  ASSUME NEW c \in Clients, trusted[c], WalksOf(c), Continues(c), Emptied(c), pending' = {}
  PROVE  WalkAfter(c)
<1>1. DOMAIN line'[c] = {} /\ DOMAIN inbox'[c] = {} /\ walk'[c] = walk[c]
  BY NothingAfterEmptied DEF Emptied
<1>2. SeenOf(c)
  BY DEF WalksOf
<1>3. QED
  BY <1>1, <1>2 DEF WalkAfter, AskedAfter, SeenAfter, NoOrphanAfter, SeenOf, Continues, ContinuesAfter

LEMMA WalkStep ==
  BaseInv /\ TrustInv /\ HashInv /\ WalkInv /\ NextContinues /\ [Next]_vars =>
    WalkInv' /\ NextContinues'
<1>. SUFFICES ASSUME BaseInv, TrustInv, HashInv, WalkInv, NextContinues, [Next]_vars
              PROVE  WalkInv' /\ NextContinues'
  OBVIOUS
<1>1. ASSUME NEW c \in Clients, trusted'[c]
      PROVE  WalkAfter(c)
  <2>1. ChannelOf(c) /\ (trusted[c] => WalksOf(c) /\ Continues(c))
    BY DEF TrustInv, WalkInv, NextContinues, Continues
  <2>2. CASE Same(c) /\ SignsApart(c)
    BY <1>1, <2>1, <2>2, WalkOfOthers DEF Same
  <2>3. CASE ClientStep(c) /\ (Rests(c) \/ \E r : Asks(c, r)) /\ UNCHANGED authenticator
    BY <1>1, <2>1, <2>3, WalkOfOwn
  <2>4. ASSUME NEW k, NEW p, Answered(c, k, p)
        PROVE  WalkAfter(c)
    <3>1. trusted[c]
      BY <1>1, <2>4 DEF Answered
    <3>2. QED
      BY <2>1, <2>4, <3>1, WalkOfAnswer
  <2>5. CASE Emptied(c) /\ pending' = {}
    BY <1>1, <2>1, <2>5, WalkOfEmptied DEF Emptied
  <2>6. QED
    BY <2>2, <2>3, <2>4, <2>5, HashShapes
<1>2. NextContinues'
  BY <1>1 DEF NextContinues, WalkAfter, ContinuesAfter
<1>3. ASSUME NEW c \in Clients
      PROVE  WalksOf(c)'
  BY <1>1, <1>3 DEF WalksOf, WalkAfter, AskedOf, AskedAfter, SeenOf, SeenAfter, ApartAfter, HeardOf,
     HeardAfter, NoOrphan, NoOrphanAfter, Orphan, IsAssertion
<1>4. QED
  BY <1>2, <1>3 DEF WalkInv

\* On a channel no exchange of which failed, a getNextAssertion sequence never
\* goes back to an earlier getAssertion of the same caller, nor to a credential it
\* has given: what get_next_assertion::call is answered is of the getAssertion the
\* sequence began with, or signed for another caller, which the hash shows.
THEOREM Ctap2NextContinues == Spec => []NextContinues
<1>. DEFINE Inv == AnswerBase /\ HashInv /\ WalkInv /\ NextContinues
<1>1. AnswerBase /\ HashInv /\ [Next]_vars => HashInv'
  BY HashStep DEF AnswerBase
<1>2. AnswerBase /\ HashInv /\ WalkInv /\ NextContinues /\ [Next]_vars => WalkInv' /\ NextContinues'
  BY WalkStep DEF AnswerBase
<1>3. Init => HashInv /\ WalkInv /\ NextContinues
  <2>. SUFFICES ASSUME Init
                PROVE  HashInv /\ WalkInv /\ NextContinues
    OBVIOUS
  <2>1. \A c \in Clients : DOMAIN walk[c] = {}
    <3>1. DOMAIN << >> = {}
      OBVIOUS
    <3>2. QED
      BY <3>1, NothingInitially
  <2>2. ASSUME NEW c \in Clients
        PROVE  HashesOf(c) /\ WalksOf(c)
    BY <2>1, NothingInitially DEF HashesOf, WalksOf, AskedOf, SeenOf
  <2>3. HashInv
    BY <2>2, NothingInitially DEF HashInv, Init, Ctap2DeviceInit
  <2>4. QED
    BY <2>1, <2>2, <2>3 DEF WalkInv, NextContinues
<1>4. QED
  BY <1>1, <1>2, <1>3, AnswerInvariant, PTL DEF Spec
=============================================================================
