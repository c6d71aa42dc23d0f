---------------------------- MODULE Ctap2_proofs ----------------------------
(***************************************************************************)
(* Theorems of Ctap2, for any clients, operations, credentials and faults: *)
(* types, and what a channel carries whose calls have not failed.          *)
(***************************************************************************)
EXTENDS Ctap2Inv, SequenceTheorems, FiniteSetTheorems, TLAPS

(* Sequences and functions. *)

LEMMA UpdateType ==
  ASSUME NEW S, NEW T, NEW f \in [S -> T], NEW x \in S, NEW y \in T
  PROVE  [f EXCEPT ![x] = y] \in [S -> T]
OBVIOUS

\* s without its i-th element, as Refuse takes it out.
Without(s, i) == SubSeq(s, 1, i - 1) \o SubSeq(s, i + 1, Len(s))

\* Where the j-th element of the rest was.
Was(i, j) == IF j < i THEN j ELSE j + 1

LEMMA WithoutProperties ==
  ASSUME NEW S, NEW s \in Seq(S), NEW i \in DOMAIN s
  PROVE  /\ Without(s, i) \in Seq(S)
         /\ Len(Without(s, i)) = Len(s) - 1
         /\ \A j \in DOMAIN Without(s, i) :
              Was(i, j) \in DOMAIN s \ {i} /\ Without(s, i)[j] = s[Was(i, j)]
<1>. DEFINE front == SubSeq(s, 1, i - 1)
            back == SubSeq(s, i + 1, Len(s))
<1>1. Len(s) \in Nat /\ DOMAIN s = 1..Len(s) /\ i \in Nat /\ 1 <= i /\ i <= Len(s)
  BY LenProperties
<1>2. /\ front \in Seq(S) /\ Len(front) = i - 1
      /\ \A j \in 1..(i - 1) : front[j] = s[j]
  BY <1>1, SubSeqProperties
<1>3. /\ back \in Seq(S) /\ Len(back) = Len(s) - i
      /\ \A j \in 1..(Len(s) - i) : back[j] = s[i + j]
  <2>1. i + 1 \in 1..(Len(s) + 1) /\ Len(s) \in i..Len(s)
    BY <1>1
  <2>2. \A j \in 1..(Len(s) - i) : i + 1 + j - 1 = i + j
    BY <1>1
  <2>3. QED
    BY <1>1, <2>1, <2>2, SubSeqProperties
<1>4. /\ front \o back \in Seq(S) /\ Len(front \o back) = Len(s) - 1
      /\ \A j \in 1..(Len(s) - 1) :
           (front \o back)[j] = IF j <= i - 1 THEN front[j] ELSE back[j - (i - 1)]
  <2>1. Len(front \o back) = (i - 1) + (Len(s) - i) /\ front \o back \in Seq(S)
    BY <1>2, <1>3, ConcatProperties
  <2>2. Len(front \o back) = Len(s) - 1
    BY <2>1, <1>1
  <2>3. \A j \in 1..(Len(front) + Len(back)) :
          (front \o back)[j] = IF j <= Len(front) THEN front[j] ELSE back[j - Len(front)]
    BY <1>2, <1>3, ConcatProperties
  <2>4. Len(front) + Len(back) = Len(s) - 1
    BY <1>1, <1>2, <1>3
  <2>5. QED
    BY <1>2, <2>1, <2>2, <2>3, <2>4
<1>5. ASSUME NEW j \in 1..(Len(s) - 1)
      PROVE  Was(i, j) \in DOMAIN s \ {i} /\ (front \o back)[j] = s[Was(i, j)]
  <2>1. CASE j < i
    BY <2>1, <1>1, <1>2, <1>4 DEF Was
  <2>2. CASE ~(j < i)
    <3>1. j - (i - 1) \in 1..(Len(s) - i) /\ i + (j - (i - 1)) = j + 1 /\ ~(j <= i - 1)
      BY <2>2, <1>1
    <3>2. (front \o back)[j] = s[j + 1]
      BY <3>1, <1>3, <1>4
    <3>3. Was(i, j) = j + 1 /\ j + 1 \in DOMAIN s \ {i}
      BY <2>2, <1>1 DEF Was
    <3>4. QED
      BY <3>2, <3>3
  <2>3. QED
    BY <2>1, <2>2
<1>6. DOMAIN (front \o back) = 1..(Len(s) - 1)
  BY <1>4, LenProperties
<1>7. QED
  BY <1>4, <1>5, <1>6 DEF Without

LEMMA TailIsWithout ==
  ASSUME NEW S, NEW s \in Seq(S), s # << >>
  PROVE  /\ 1 \in DOMAIN s /\ Head(s) = s[1] /\ Head(s) \in S
         /\ Tail(s) = Without(s, 1)
<1>1. /\ Len(s) \in Nat /\ Len(s) >= 1 /\ DOMAIN s = 1..Len(s)
      /\ Head(s) = s[1] /\ Head(s) \in S
      /\ Tail(s) \in Seq(S) /\ Len(Tail(s)) = Len(s) - 1
      /\ \A j \in 1..(Len(s) - 1) : Tail(s)[j] = s[j + 1]
  BY HeadTailProperties, LenProperties, EmptySeq
<1>2. 1 \in DOMAIN s
  BY <1>1
<1>3. /\ Without(s, 1) \in Seq(S) /\ Len(Without(s, 1)) = Len(s) - 1
      /\ \A j \in 1..(Len(s) - 1) : Without(s, 1)[j] = s[j + 1]
  <2>1. DOMAIN Without(s, 1) = 1..(Len(s) - 1)
    BY <1>1, <1>2, WithoutProperties, LenProperties
  <2>2. \A j \in 1..(Len(s) - 1) : Was(1, j) = j + 1
    BY <1>1 DEF Was
  <2>3. QED
    BY <1>2, <2>1, <2>2, WithoutProperties
<1>4. Tail(s) = Without(s, 1)
  <2>1. \A j \in 1..Len(Tail(s)) : Tail(s)[j] = Without(s, 1)[j]
    BY <1>1, <1>3
  <2>2. QED
    BY <1>1, <1>3, <2>1, SeqEqual
<1>5. QED
  BY <1>1, <1>2, <1>4

(* Types. *)

\* An operation is between its exchanges what it was when it began.
LEMMA BoxTypes ==
  ASSUME NEW S, NEW s \in Secret, NEW x \in S
  PROVE  {Box(s, x)} \in SUBSET [key : Secret, plain : S]
BY DEF Box

LEMMA OpFields ==
  ASSUME NEW o \in Op
  PROVE  /\ o.name \in Names /\ o.pin \in Pins /\ o.allow \in SUBSET Nat /\ o.salts \in Seq(Salts)
         /\ o.pin # "none" => o.name \in {"token", "secret", "assertion", "make"}
         /\ o.name = "token" => o.pin # "none"
         /\ o.name = "secret" =>
              Len(o.salts) \in 1..2 /\ \E cred \in o.allow : o.allow = {cred}
BY DEF Op

LEMMA RequestFields ==
  ASSUME NEW r \in Request
  PROVE  /\ r.kind \in Kinds /\ r.from \in Call /\ r.hash \in Call /\ r.given \in Given
         /\ r.plat \in Call \cup {NoKey} /\ r.auth \in SUBSET Nat /\ r.allow \in SUBSET Nat
         /\ r.pin \in SUBSET [key : Secret, plain : Pins]
         /\ r.salt \in SUBSET [key : Secret, plain : Seq(Salts)]
BY DEF Request

LEMMA ReplyFields ==
  ASSUME NEW p \in Replies
  PROVE  /\ p.of \in Call /\ p.kind \in Kinds /\ p.hash \in Call /\ p.status \in Statuses
         /\ p.key \in Nat /\ p.token \in SUBSET [key : Secret, plain : Nat]
         /\ p.id \in SUBSET Nat /\ p.cred \in SUBSET Nat
         /\ p.out \in SUBSET [key : Secret, plain : Seq(Outs)] /\ p.pinSet \in BOOLEAN
BY DEF Replies

LEMMA ParamType ==
  ASSUME NEW c \in Clients, sent[c] \in Nat, NEW o \in Op, NEW n \in Nat, NEW kind \in Kinds
  PROVE  /\ Param(c, o, n, kind) \in Request
         /\ Param(c, o, n, kind).kind = kind /\ Param(c, o, n, kind).from = NextCall(c)
         /\ Param(c, o, n, kind).hash = <<c, n>> /\ NextCall(c) \in Call
         /\ Param(c, o, n, kind).given = o.pin /\ Param(c, o, n, kind).auth = {}
<1>1. NextCall(c) \in Call /\ <<c, n>> \in Call
  BY DEF NextCall, Call
<1>2. o.pin \in Given
  BY OpFields DEF Given
<1>3. QED
  BY <1>1, <1>2 DEF Param, Bare, Request

LEMMA AgreementType ==
  ASSUME NEW c \in Clients, sent[c] \in Nat, NEW o \in Op, NEW n \in Nat
  PROVE  /\ AgreementRequest(c, o, n) \in Request
         /\ AgreementRequest(c, o, n).kind = "agree" /\ AgreementRequest(c, o, n).from = NextCall(c)
         /\ AgreementRequest(c, o, n).hash = <<c, n>> /\ AgreementRequest(c, o, n).auth = {}
<1>1. "agree" \in Kinds
  BY DEF Kinds
<1>2. QED
  BY <1>1, ParamType DEF AgreementRequest, Param, Bare, Request

LEMMA TokenRequestType ==
  ASSUME NEW c \in Clients, sent[c] \in Nat, NEW o \in Op, NEW n \in Nat, NEW s \in Secret
  PROVE  /\ TokenRequest(c, o, n, s) \in Request
         /\ TokenRequest(c, o, n, s).kind = "token" /\ TokenRequest(c, o, n, s).from = NextCall(c)
         /\ TokenRequest(c, o, n, s).hash = <<c, n>> /\ TokenRequest(c, o, n, s).auth = {}
         /\ TokenRequest(c, o, n, s).given = o.pin /\ TokenRequest(c, o, n, s).plat = s.plat
         /\ TokenRequest(c, o, n, s).pin = {Box(s, o.pin)}
<1>1. "token" \in Kinds /\ s.plat \in Call /\ o.pin \in Pins
  BY OpFields DEF Kinds, Secret
<1>2. {Box(s, o.pin)} \in SUBSET [key : Secret, plain : Pins]
  BY <1>1, BoxTypes
<1>3. QED
  BY <1>1, <1>2, ParamType DEF TokenRequest, Param, Bare, Request

LEMMA AssertionRequestType ==
  ASSUME NEW c \in Clients, sent[c] \in Nat, NEW o \in Op, NEW n \in Nat,
         NEW auth, auth \in SUBSET Nat,
         NEW box, box \in SUBSET [key : Secret, plain : Seq(Salts)],
         NEW plat, plat \in Call \cup {NoKey}
  PROVE  AssertionRequest(c, o, n, auth, box, plat) \in Request
<1>1. "assert" \in Kinds /\ o.allow \in SUBSET Nat
  BY OpFields DEF Kinds
<1>2. QED
  BY <1>1, ParamType DEF AssertionRequest, Param, Bare, Request

LEMMA AssertionRequestFields ==
  ASSUME NEW c, NEW o, NEW n, NEW auth, NEW box, NEW plat
  PROVE  /\ AssertionRequest(c, o, n, auth, box, plat).kind = "assert"
         /\ AssertionRequest(c, o, n, auth, box, plat).from = NextCall(c)
         /\ AssertionRequest(c, o, n, auth, box, plat).hash = <<c, n>>
         /\ AssertionRequest(c, o, n, auth, box, plat).given = o.pin
         /\ AssertionRequest(c, o, n, auth, box, plat).auth = auth
         /\ AssertionRequest(c, o, n, auth, box, plat).allow = o.allow
         /\ AssertionRequest(c, o, n, auth, box, plat).salt = box
         /\ AssertionRequest(c, o, n, auth, box, plat).plat = plat
BY DEF AssertionRequest, Param, Bare

LEMMA GivenType ==
  ASSUME NEW q \in Request, NEW given \in Given
  PROVE  /\ [q EXCEPT !.given = given] \in Request
         /\ [q EXCEPT !.given = given].kind = q.kind
         /\ [q EXCEPT !.given = given].from = q.from
         /\ [q EXCEPT !.given = given].hash = q.hash
         /\ [q EXCEPT !.given = given].given = given
         /\ [q EXCEPT !.given = given].auth = q.auth
         /\ [q EXCEPT !.given = given].allow = q.allow
BY DEF Request

LEMMA MakeRequestType ==
  ASSUME NEW c \in Clients, sent[c] \in Nat, NEW o \in Op, NEW n \in Nat, NEW auth \in SUBSET Nat
  PROVE  /\ MakeRequest(c, o, n, auth) \in Request
         /\ MakeRequest(c, o, n, auth).kind = "make" /\ MakeRequest(c, o, n, auth).from = NextCall(c)
         /\ MakeRequest(c, o, n, auth).hash = <<c, n>> /\ MakeRequest(c, o, n, auth).auth = auth
         /\ MakeRequest(c, o, n, auth).given = o.pin
<1>1. "make" \in Kinds
  BY DEF Kinds
<1>2. QED
  BY <1>1, ParamType DEF MakeRequest, Param, Bare, Request

LEMMA ReplyType ==
  ASSUME NEW r \in Request, NEW status \in Statuses
  PROVE  /\ Reply(r, status) \in Replies
         /\ Reply(r, status).of = r.from /\ Reply(r, status).kind = r.kind
         /\ Reply(r, status).hash = r.hash /\ Reply(r, status).status = status
         /\ Reply(r, status).token = {} /\ Reply(r, status).out = {}
BY RequestFields DEF Reply, Replies

(* The authenticator. *)

\* What a reply says of its request.
Answers(r, p) ==
  /\ p.of = r.from /\ p.kind = r.kind
  /\ p.kind # "next" => p.hash = r.hash
  /\ IF p.kind = "token" /\ p.status = "ok"
     THEN OpenedPin(r) = {"right"} /\ p.token = {Box(Shared(r), token + 1)}
     ELSE p.token = {}
  /\ IF p.kind = "assert" /\ p.status = "ok"
     THEN /\ \A s \in r.salt : s.key = Shared(r)
          /\ \E cred \in Candidates(r) : p.out \in Outputs(r, cred)
     ELSE p.out = {}
  /\ p.kind = "reset" /\ p.status = "ok" => Carried(r, {}) \in done'

\* The assertion p, and those that may still be given after it.
Signs(r, p) ==
  \E cred \in Candidates(r) : \E left :
    /\ p.cred = {cred} /\ cred \notin left
    /\ p.id \subseteq {cred} /\ (p.id = {} => Cardinality(r.allow) = 1)
    /\ pending' = {[hash |-> r.hash, left |-> left]}

SignsNext(p) ==
  \E q \in pending : \E cred \in q.left :
    /\ p.hash = q.hash /\ p.cred = {cred}
    /\ pending' = {[q EXCEPT !.left = @ \ {cred}]}

\* What the authenticator did for r, and says so with p.
Effect(r, p) ==
  /\ IF r.kind = "assert" /\ p.status = "ok" THEN Signs(r, p)
     ELSE IF r.kind = "next" /\ p.status = "ok" THEN SignsNext(p)
     ELSE pending' \subseteq pending
  /\ p.status = "noCredentials" => r.kind = "assert" /\ Candidates(r) = {}
  /\ p.status = "pinInvalid" =>
       r.kind = "token" /\ OpenedPin(r) # {"right"} /\ keyEpoch' = keyEpoch + 1
  /\ r.kind = "agree" /\ p.status = "ok" => p.key = keyEpoch
  /\ r.kind = "make" /\ p.status = "ok" => done' = done \cup {Carried(r, p.id)}
  /\ r.kind # "make" => creds' \subseteq creds
  /\ r.kind \notin {"token", "reset"} => keyEpoch' = keyEpoch

\* A step of the authenticator takes one request, the first unless it refuses it,
\* and answers it if it is not lost.
Serves(c, i, p) ==
  /\ i \in DOMAIN line[c] /\ p \in Replies /\ Answers(line[c][i], p)
  /\ Effect(line[c][i], p) /\ (p.status # "denied" => i = 1)
  /\ line' = [line EXCEPT ![c] = Without(@, i)]
  /\ opened' = opened
  /\ \/ inbox' = inbox
     \/ ~Orphan(c, line[c][i]) /\ inbox' = [inbox EXCEPT ![c] = Append(@, p)]
  /\ \/ misses' = misses
     \/ line[c][i].kind = "token" /\ misses' = Append(misses, line[c][i].hash)
  /\ done \subseteq done'

LEMMA RespondServes ==
  ASSUME LinkOK, NEW c \in Clients, line[c] # << >>, NEW p \in Replies,
         Answers(Head(line[c]), p), Effect(Head(line[c]), p), Respond(c, p), done \subseteq done',
         \/ misses' = misses
         \/ Head(line[c]).kind = "token" /\ misses' = Append(misses, Head(line[c]).hash)
  PROVE  \E i, q : Serves(c, i, q)
<1>1. line[c] \in Seq(Request)
  BY DEF LinkOK
<1>2. 1 \in DOMAIN line[c] /\ Head(line[c]) = line[c][1] /\ Tail(line[c]) = Without(line[c], 1)
  BY <1>1, TailIsWithout
<1>3. line' = [line EXCEPT ![c] = Without(@, 1)]
  BY <1>2 DEF Respond
<1>4. /\ opened' = opened
      /\ \/ inbox' = inbox
         \/ ~Orphan(c, line[c][1]) /\ inbox' = [inbox EXCEPT ![c] = Append(@, p)]
  BY <1>2 DEF Respond, Send
<1>5. Serves(c, 1, p)
  BY <1>2, <1>3, <1>4 DEF Serves
<1>6. QED
  BY <1>5

\* A reply that gives nothing.
LEMMA PlainAnswer ==
  ASSUME NEW r \in Request, NEW status \in Statuses, NEW p \in Replies,
         p.of = r.from, p.kind = r.kind, p.hash = r.hash, p.token = {}, p.out = {},
         ~(p.kind \in {"token", "assert", "reset"} /\ p.status = "ok")
  PROVE  Answers(r, p)
BY DEF Answers

LEMMA OpenedSalts ==
  ASSUME NEW r \in Request, \A s \in r.salt : s.key = Shared(r)
  PROVE  /\ SaltsOf(r) = {b.plain : b \in r.salt} /\ SaltsOf(r) \subseteq Seq(Salts)
         /\ r.salt # {} => Shared(r) \in Secret
<1>1. r.salt \subseteq [key : Secret, plain : Seq(Salts)]
  BY RequestFields
<1>2. ASSUME NEW b \in r.salt PROVE Unbox(Shared(r), b, << >>) = b.plain
  BY <1>2 DEF Unbox
<1>3. SaltsOf(r) = {b.plain : b \in r.salt}
  BY <1>2 DEF SaltsOf
<1>4. SaltsOf(r) \subseteq Seq(Salts)
  BY <1>1, <1>3
<1>5. r.salt # {} => Shared(r) \in Secret
  BY <1>1
<1>6. QED
  BY <1>3, <1>4, <1>5

LEMMA OutputsType ==
  ASSUME AuthenticatorOK, NEW r \in Request, \A s \in r.salt : s.key = Shared(r),
         NEW cred \in Candidates(r), NEW out \in Outputs(r, cred)
  PROVE  out \in SUBSET [key : Secret, plain : Seq(Outs)]
<1>1. cred \in Nat
  BY RequestFields DEF Candidates, AuthenticatorOK
<1>2. CASE out = {}
  BY <1>2
<1>3. CASE out # {}
  <2>1. PICK salts \in SaltsOf(r) : \E n \in 1..Len(salts) : out = {Output(r, cred, salts, n)}
    BY <1>3 DEF Outputs
  <2>. PICK n \in 1..Len(salts) : out = {Output(r, cred, salts, n)}
    BY <2>1
  <2>2. salts \in Seq(Salts) /\ Shared(r) \in Secret
    <3>1. r.salt # {}
      BY <2>1 DEF SaltsOf
    <3>2. QED
      BY <3>1, <2>1, OpenedSalts
  <2>3. ASSUME NEW i \in 1..n
        PROVE  [cred |-> cred, salt |-> salts[i], uv |-> r.auth # {}] \in Outs
    <3>1. salts[i] \in Salts
      BY <2>1, <2>2, ElementOfSeq, LenProperties
    <3>2. QED
      BY <1>1, <3>1 DEF Outs
  <2>4. [i \in 1..n |-> [cred |-> cred, salt |-> salts[i], uv |-> r.auth # {}]] \in Seq(Outs)
    <3>1. n \in Nat
      BY <2>1, <2>2, LenProperties
    <3>2. QED
      BY <2>3, <3>1, IsASeq
  <2>5. QED
    BY <2>1, <2>2, <2>4, BoxTypes DEF Output
<1>4. QED
  BY <1>2, <1>3

LEMMA KindsAndStatuses ==
  /\ {"info", "retries", "agree", "token", "assert", "next", "make", "reset", "wink"} = Kinds
  /\ {"ok", "pinInvalid", "noCredentials", "notAllowed", "denied"} = Statuses
BY DEF Kinds, Statuses

LEMMA HeadRequest ==
  ASSUME LinkOK, NEW c \in Clients, line[c] # << >>
  PROVE  Head(line[c]) \in Request
BY HeadTailProperties DEF LinkOK

\* Every step of the authenticator takes one request.
LEMMA ServeShape ==
  ASSUME LinkOK, AuthenticatorOK, NEW c \in Clients, Serve(c)
  PROVE  \E i, p : Serves(c, i, p)
<1>. DEFINE r == Head(line[c])
<1>. /\ keyEpoch \in Nat /\ token \in Nat /\ pinSet \in BOOLEAN
     /\ token + 1 \in Nat
  BY DEF AuthenticatorOK
<1>. /\ "ok" \in Statuses /\ "pinInvalid" \in Statuses /\ "noCredentials" \in Statuses
     /\ "notAllowed" \in Statuses /\ "denied" \in Statuses
  BY DEF Statuses
\* An action that keeps the misses and credentials, and whose reply gives nothing.
<1>1. ASSUME line[c] # << >>, NEW p, NEW status \in Statuses, p = Reply(r, status),
             ~(r.kind \in {"token", "assert", "reset"} /\ status = "ok"), Effect(r, p),
             Respond(c, p), misses' = misses, done' = done
      PROVE  \E i, q : Serves(c, i, q)
  <2>1. r \in Request
    BY <1>1, HeadRequest
  <2>2. p \in Replies /\ Answers(r, p)
    BY <1>1, <2>1, ReplyType, PlainAnswer
  <2>3. QED
    BY <1>1, <2>2, RespondServes
<1>2. CASE Refuse(c)
  <2>1. PICK i \in DOMAIN line[c] :
          /\ line' = [line EXCEPT ![c] = Without(@, i)]
          /\ Send(c, line[c][i], Reply(line[c][i], "denied"))
          /\ UNCHANGED authenticator
    BY <1>2 DEF Refuse, Without
  <2>2. line[c][i] \in Request
    BY ElementOfSeq, LenProperties DEF LinkOK
  <2>3. /\ Reply(line[c][i], "denied") \in Replies
        /\ Answers(line[c][i], Reply(line[c][i], "denied"))
    BY <2>2, ReplyType, PlainAnswer
  <2>4. Effect(line[c][i], Reply(line[c][i], "denied"))
    BY <2>1, <2>2, ReplyType DEF Effect, authenticator
  <2>5. Serves(c, i, Reply(line[c][i], "denied"))
    BY <2>1, <2>2, <2>3, <2>4, ReplyType DEF Send, Serves, authenticator
  <2>6. QED
    BY <2>5
<1>3. CASE ServeInfo(c)
  <2>. DEFINE p == [Reply(r, "ok") EXCEPT !.pinSet = pinSet]
  <2>1. r \in Request /\ line[c] # << >> /\ r.kind = "info"
    BY <1>3, HeadRequest DEF ServeInfo, Turn
  <2>2. /\ p \in Replies /\ p.of = r.from /\ p.kind = r.kind /\ p.hash = r.hash
        /\ p.token = {} /\ p.out = {} /\ p.status = "ok"
    BY <2>1, ReplyType DEF Replies
  <2>3. Answers(r, p)
    BY <2>1, <2>2, PlainAnswer
  <2>4. Effect(r, p)
    BY <1>3, <2>1, <2>2 DEF ServeInfo, Effect, authenticator
  <2>5. QED
    BY <1>3, <2>1, <2>2, <2>3, <2>4, RespondServes DEF ServeInfo, authenticator
<1>4. CASE ServeRetries(c)
  <2>1. r \in Request /\ line[c] # << >> /\ r.kind = "retries"
    BY <1>4, HeadRequest DEF ServeRetries, Turn
  <2>2. Effect(r, Reply(r, "ok"))
    BY <1>4, <2>1, ReplyType DEF ServeRetries, Effect, authenticator
  <2>3. QED
    BY <1>1, <1>4, <2>1, <2>2 DEF ServeRetries, authenticator
<1>5. CASE Blink(c)
  <2>1. r \in Request /\ line[c] # << >> /\ r.kind = "wink"
    BY <1>5, HeadRequest DEF Blink, Turn
  <2>2. Effect(r, Reply(r, "ok"))
    BY <1>5, <2>1, ReplyType DEF Blink, Effect, authenticator
  <2>3. QED
    BY <1>1, <1>5, <2>1, <2>2 DEF Blink, authenticator
<1>6. CASE ServeAgreement(c)
  <2>. DEFINE p == [Reply(r, "ok") EXCEPT !.key = keyEpoch]
  <2>1. r \in Request /\ line[c] # << >> /\ r.kind = "agree"
    BY <1>6, HeadRequest DEF ServeAgreement, Turn
  <2>2. /\ p \in Replies /\ p.of = r.from /\ p.kind = r.kind /\ p.hash = r.hash
        /\ p.token = {} /\ p.out = {} /\ p.status = "ok" /\ p.key = keyEpoch
    BY <2>1, ReplyType DEF Reply, Replies
  <2>3. Answers(r, p)
    BY <2>1, <2>2, PlainAnswer
  <2>4. Effect(r, p)
    BY <1>6, <2>1, <2>2 DEF ServeAgreement, Effect, authenticator
  <2>5. QED
    BY <1>6, <2>1, <2>2, <2>3, <2>4, RespondServes DEF ServeAgreement, authenticator
<1>7. CASE GrantToken(c)
  <2>. DEFINE p == [Reply(r, "ok") EXCEPT !.token = {Box(Shared(r), token + 1)}]
  <2>1. r \in Request /\ line[c] # << >> /\ r.kind = "token" /\ OpenedPin(r) = {"right"}
    BY <1>7, HeadRequest DEF GrantToken, Turn
  <2>2. Shared(r) \in Secret
    <3>1. PICK b \in r.pin : Unbox(Shared(r), b, "wrong") = "right"
      BY <2>1 DEF OpenedPin
    <3>2. b.key = Shared(r)
      BY <3>1 DEF Unbox
    <3>3. QED
      BY <2>1, <3>2, RequestFields
  <2>3. {Box(Shared(r), token + 1)} \in SUBSET [key : Secret, plain : Nat]
    BY <2>2, BoxTypes
  <2>4. /\ p \in Replies /\ p.of = r.from /\ p.kind = r.kind /\ p.hash = r.hash
        /\ p.token = {Box(Shared(r), token + 1)} /\ p.out = {} /\ p.status = "ok"
    BY <2>1, <2>3, ReplyType DEF Replies
  <2>5. Answers(r, p)
    BY <2>1, <2>4 DEF Answers
  <2>6. Effect(r, p)
    BY <1>7, <2>1, <2>4 DEF GrantToken, Effect
  <2>7. QED
    BY <1>7, <2>1, <2>4, <2>5, <2>6, RespondServes DEF GrantToken
<1>8. CASE CountMiss(c)
  <2>1. r \in Request /\ line[c] # << >> /\ r.kind = "token"
    BY <1>8, HeadRequest DEF CountMiss, Turn
  <2>2. Reply(r, "pinInvalid") \in Replies /\ Answers(r, Reply(r, "pinInvalid"))
    BY <2>1, ReplyType, PlainAnswer
  <2>3. Effect(r, Reply(r, "pinInvalid"))
    BY <1>8, <2>1, ReplyType DEF CountMiss, Effect
  <2>4. QED
    BY <1>8, <2>1, <2>2, <2>3, RespondServes DEF CountMiss
<1>9. CASE Sign(c)
  <2>1. /\ r \in Request /\ line[c] # << >> /\ r.kind = "assert"
        /\ \A s \in r.salt : s.key = Shared(r)
    BY <1>9, HeadRequest DEF Sign, Turn
  <2>2. PICK cred \in Candidates(r) :
          /\ \E out \in Outputs(r, cred), id \in Named(r, cred) :
               Respond(c, [Reply(r, "ok") EXCEPT !.id = id, !.cred = {cred}, !.out = out])
          /\ pending' = {[hash |-> r.hash, left |-> IF r.allow = {} THEN creds \ {cred} ELSE {}]}
    BY <1>9 DEF Sign
  <2>3. PICK out \in Outputs(r, cred) : \E id \in Named(r, cred) :
          Respond(c, [Reply(r, "ok") EXCEPT !.id = id, !.cred = {cred}, !.out = out])
    BY <2>2
  <2>4. PICK id \in Named(r, cred) :
          Respond(c, [Reply(r, "ok") EXCEPT !.id = id, !.cred = {cred}, !.out = out])
    BY <2>3
  <2>. DEFINE p == [Reply(r, "ok") EXCEPT !.id = id, !.cred = {cred}, !.out = out]
  <2>5. /\ out \in SUBSET [key : Secret, plain : Seq(Outs)]
        /\ cred \in Nat /\ id \in SUBSET Nat
    <3>1. cred \in Nat
      BY <2>1, RequestFields DEF Candidates, AuthenticatorOK
    <3>2. QED
      BY <2>1, <3>1, OutputsType DEF Named
  <2>6. /\ p \in Replies /\ p.of = r.from /\ p.kind = r.kind /\ p.hash = r.hash
        /\ p.token = {} /\ p.out = out /\ p.status = "ok" /\ p.id = id /\ p.cred = {cred}
    BY <2>1, <2>5, RequestFields DEF Reply, Replies
  <2>7. Answers(r, p)
    BY <2>1, <2>6 DEF Answers
  <2>8. Effect(r, p)
    <3>. HIDE DEF p
    <3>1. id \subseteq {cred} /\ (id = {} => Cardinality(r.allow) = 1)
      BY DEF Named
    <3>2. Signs(r, p)
      BY <2>2, <2>6, <3>1 DEF Signs
    <3>3. creds' = creds /\ keyEpoch' = keyEpoch
      BY <1>9 DEF Sign
    <3>4. QED
      BY <2>1, <2>6, <3>2, <3>3 DEF Effect
  <2>9. QED
    BY <1>9, <2>1, <2>4, <2>6, <2>7, <2>8, RespondServes DEF Sign, Record
<1>10. CASE SignNext(c)
  <2>1. r \in Request /\ line[c] # << >> /\ r.kind = "next"
    BY <1>10, HeadRequest DEF SignNext, Turn
  <2>2. PICK a \in pending : \E cred \in a.left :
          /\ Respond(c, [Reply(r, "ok") EXCEPT !.hash = a.hash, !.id = {cred}, !.cred = {cred}])
          /\ pending' = {[a EXCEPT !.left = @ \ {cred}]}
    BY <1>10 DEF SignNext
  <2>3. PICK cred \in a.left :
          /\ Respond(c, [Reply(r, "ok") EXCEPT !.hash = a.hash, !.id = {cred}, !.cred = {cred}])
          /\ pending' = {[a EXCEPT !.left = @ \ {cred}]}
    BY <2>2
  <2>. DEFINE p == [Reply(r, "ok") EXCEPT !.hash = a.hash, !.id = {cred}, !.cred = {cred}]
  <2>4. a.hash \in Call /\ cred \in Nat
    BY <2>2, <2>3 DEF AuthenticatorOK
  <2>5. /\ p \in Replies /\ p.of = r.from /\ p.kind = r.kind
        /\ p.token = {} /\ p.out = {} /\ p.status = "ok" /\ p.hash = a.hash /\ p.cred = {cred}
    BY <2>1, <2>4, RequestFields DEF Reply, Replies
  <2>6. Answers(r, p)
    BY <2>1, <2>5 DEF Answers
  <2>7. Effect(r, p)
    <3>. HIDE DEF p
    <3>1. SignsNext(p)
      BY <2>3, <2>5 DEF SignsNext
    <3>2. creds' = creds /\ keyEpoch' = keyEpoch
      BY <1>10 DEF SignNext
    <3>3. QED
      BY <2>1, <2>5, <3>1, <3>2 DEF Effect
  <2>8. QED
    BY <1>10, <2>1, <2>3, <2>5, <2>6, <2>7, RespondServes DEF SignNext
<1>11. CASE NoNext(c)
  <2>1. r \in Request /\ line[c] # << >> /\ r.kind = "next"
    BY <1>11, HeadRequest DEF NoNext, Turn
  <2>2. Effect(r, Reply(r, "notAllowed"))
    BY <1>11, <2>1, ReplyType DEF NoNext, Effect, authenticator
  <2>3. QED
    BY <1>1, <1>11, <2>1, <2>2 DEF NoNext, authenticator
<1>12. CASE NoCredentials(c)
  <2>1. r \in Request /\ line[c] # << >> /\ r.kind = "assert"
    BY <1>12, HeadRequest DEF NoCredentials, Turn
  <2>2. Effect(r, Reply(r, "noCredentials"))
    BY <1>12, <2>1, ReplyType DEF NoCredentials, Effect, authenticator
  <2>3. QED
    BY <1>1, <1>12, <2>1, <2>2 DEF NoCredentials, authenticator
<1>13. CASE Make(c)
  <2>1. r \in Request /\ line[c] # << >> /\ r.kind = "make" /\ NewCred \in Nat
    BY <1>13, HeadRequest DEF Make, Turn, AuthenticatorOK, NewCred
  <2>. DEFINE p == [Reply(r, "ok") EXCEPT !.id = {NewCred}, !.cred = {NewCred}]
  <2>2. /\ p \in Replies /\ p.of = r.from /\ p.kind = r.kind /\ p.hash = r.hash
        /\ p.token = {} /\ p.out = {} /\ p.id = {NewCred} /\ p.status = "ok"
    BY <2>1, RequestFields DEF Reply, Replies
  <2>3. Answers(r, p)
    BY <2>1, <2>2, PlainAnswer
  <2>4. /\ done' = done \cup {Carried(r, {NewCred})}
        /\ pending' = pending /\ keyEpoch' = keyEpoch
    BY <1>13 DEF Make, Record
  <2>5. Effect(r, p)
    <3>. HIDE DEF p
    <3>1. QED
      BY <2>1, <2>2, <2>4 DEF Effect
  <2>6. QED
    BY <1>13, <2>1, <2>2, <2>3, <2>5, RespondServes DEF Make, Record
<1>14. CASE Wipe(c)
  <2>1. r \in Request /\ line[c] # << >> /\ r.kind = "reset"
    BY <1>14, HeadRequest DEF Wipe, Turn
  <2>2. /\ Reply(r, "ok") \in Replies /\ Reply(r, "ok").kind = "reset"
        /\ Reply(r, "ok").token = {} /\ Reply(r, "ok").out = {}
        /\ Reply(r, "ok").of = r.from /\ Reply(r, "ok").hash = r.hash
        /\ Reply(r, "ok").status = "ok"
    BY <2>1, ReplyType
  <2>3. Answers(r, Reply(r, "ok"))
    BY <1>14, <2>1, <2>2 DEF Answers, Wipe, Record
  <2>4. Effect(r, Reply(r, "ok"))
    BY <1>14, <2>1, <2>2 DEF Effect, Wipe
  <2>5. QED
    BY <1>14, <2>1, <2>2, <2>3, <2>4, RespondServes DEF Wipe, Record
<1>15. QED
  BY <1>2, <1>3, <1>4, <1>5, <1>6, <1>7, <1>8, <1>9, <1>10, <1>11, <1>12, <1>13, <1>14 DEF Serve

LEMMA ServesLink ==
  ASSUME LinkOK, NEW c \in Clients, NEW i, NEW p, Serves(c, i, p)
  PROVE  LinkOK'
<1>1. line[c] \in Seq(Request) /\ inbox[c] \in Seq(Replies)
  BY DEF LinkOK
<1>2. Without(line[c], i) \in Seq(Request) /\ Append(inbox[c], p) \in Seq(Replies)
  BY <1>1, WithoutProperties, AppendProperties DEF Serves
<1>3. line' \in [Clients -> Seq(Request)]
  BY <1>2, UpdateType DEF Serves, LinkOK
<1>4. inbox' \in [Clients -> Seq(Replies)]
  BY <1>2, UpdateType DEF Serves, LinkOK
<1>5. QED
  BY <1>3, <1>4 DEF Serves, LinkOK

LEMMA OnePending ==
  ASSUME NEW p
  PROVE  Cardinality({p}) <= 1 /\ Cardinality({}) <= 1
<1>1. Cardinality({p}) = 1
  BY FS_Singleton
<1>2. Cardinality({}) = 0
  BY FS_EmptySet
<1>3. QED
  BY <1>1, <1>2

\* The type of `done`.
Deeds == [from : Call, kind : Kinds, uv : BOOLEAN, given : Given, cred : SUBSET Nat]

LEMMA ServeAuthenticator ==
  ASSUME LinkOK, AuthenticatorOK, NEW c \in Clients, Serve(c)
  PROVE  AuthenticatorOK'
<1>. DEFINE r == Head(line[c])
<1>. /\ keyEpoch \in Nat /\ token \in Nat \ {0} /\ retries \in 0..MaxRetries
     /\ pinSet \in BOOLEAN /\ creds \subseteq Nat /\ made \in Nat /\ misses \in Seq(Call)
     /\ pending \subseteq [hash : Call, left : SUBSET Nat] /\ Cardinality(pending) <= 1
     /\ done \subseteq Deeds
     /\ MaxRetries \in Nat \ {0}
  BY Ctap2DeviceAssumption DEF AuthenticatorOK, Deeds
<1>1. ASSUME UNCHANGED authenticator
      PROVE  AuthenticatorOK'
  BY <1>1 DEF authenticator, AuthenticatorOK
<1>2. ASSUME line[c] # << >>
      PROVE  /\ r \in Request /\ r.hash \in Call
             /\ \A cred \in SUBSET Nat : Carried(r, cred) \in Deeds
  <2>1. r \in Request
    BY <1>2, HeadRequest
  <2>2. QED
    BY <2>1, RequestFields DEF Carried, Deeds
<1>3. CASE GrantToken(c)
  BY <1>3 DEF GrantToken, AuthenticatorOK
<1>4. CASE CountMiss(c)
  <2>1. line[c] # << >>
    BY <1>4 DEF CountMiss, Turn
  <2>2. misses' \in Seq(Call)
    BY <1>2, <1>4, <2>1, AppendProperties DEF CountMiss
  <2>3. QED
    BY <1>4, <2>2 DEF CountMiss, AuthenticatorOK
<1>5. CASE Sign(c)
  <2>1. line[c] # << >>
    BY <1>5 DEF Sign, Turn
  <2>2. PICK cred \in Candidates(r) :
          pending' = {[hash |-> r.hash, left |-> IF r.allow = {} THEN creds \ {cred} ELSE {}]}
    BY <1>5 DEF Sign
  <2>. DEFINE left == IF r.allow = {} THEN creds \ {cred} ELSE {}
  <2>3. pending' \subseteq [hash : Call, left : SUBSET Nat]
    <3>1. left \in SUBSET Nat /\ pending' = {[hash |-> r.hash, left |-> left]}
      BY <2>2
    <3>2. QED
      BY <1>2, <2>1, <3>1
  <2>4. Cardinality(pending') <= 1
    BY <2>2, OnePending
  <2>5. done' \subseteq Deeds
    BY <1>2, <1>5, <2>1 DEF Sign, Record
  <2>6. QED
    BY <1>5, <2>3, <2>4, <2>5 DEF Sign, AuthenticatorOK, Deeds
<1>6. CASE SignNext(c)
  <2>1. PICK a \in pending : \E cred \in a.left : pending' = {[a EXCEPT !.left = @ \ {cred}]}
    BY <1>6 DEF SignNext
  <2>2. pending' \subseteq [hash : Call, left : SUBSET Nat]
    BY <2>1
  <2>3. Cardinality(pending') <= 1
    BY <2>1, OnePending
  <2>4. QED
    BY <1>6, <2>2, <2>3 DEF SignNext, AuthenticatorOK
<1>7. CASE Make(c)
  <2>1. line[c] # << >> /\ NewCred \in Nat
    BY <1>7 DEF Make, Turn, NewCred
  <2>2. done' \subseteq Deeds
    BY <1>2, <1>7, <2>1 DEF Make, Record
  <2>3. QED
    BY <1>7, <2>1, <2>2 DEF Make, AuthenticatorOK, Deeds
<1>8. CASE Wipe(c)
  <2>1. line[c] # << >>
    BY <1>8 DEF Wipe, Turn
  <2>2. done' \subseteq Deeds
    BY <1>2, <1>8, <2>1 DEF Wipe, Record
  <2>3. Cardinality(pending') <= 1 /\ pending' = {}
    BY <1>8, OnePending DEF Wipe
  <2>4. creds' \subseteq Nat /\ pinSet' \in BOOLEAN /\ made' \in Nat /\ misses' \in Seq(Call)
    BY <1>8 DEF Wipe
  <2>6. retries' \in 0..MaxRetries
    BY <1>8 DEF Wipe
  <2>7. token' \in Nat \ {0} /\ keyEpoch' \in Nat
    BY <1>8 DEF Wipe
  <2>5. QED
    BY <2>2, <2>3, <2>4, <2>6, <2>7 DEF AuthenticatorOK, Deeds
<1>9. CASE UNCHANGED authenticator
  BY <1>1, <1>9
<1>10. QED
  BY <1>3, <1>4, <1>5, <1>6, <1>7, <1>8, <1>9
     DEF Serve, Refuse, ServeInfo, ServeRetries, ServeAgreement, Blink, NoNext, NoCredentials

LEMMA PowerCycleTypes ==
  ASSUME LinkOK, AuthenticatorOK, PowerCycle
  PROVE  LinkOK' /\ AuthenticatorOK'
<1>1. Cardinality(pending') <= 1 /\ pending' = {}
  BY OnePending DEF PowerCycle
<1>2. << >> \in Seq(Request) /\ << >> \in Seq(Replies)
  BY EmptySeq
<1>3. QED
  BY <1>1, <1>2 DEF PowerCycle, LinkOK, AuthenticatorOK

(* The clients. *)

NewSession(c) == [dev |-> Got(c).key, plat |-> <<c, sent[c]>>]

Auth(c) == OpenedToken(session[c], Got(c).token)

\* The first request of an operation.
Opening(c, o, r) ==
  \/ /\ session' = session
     /\ \/ \E kind \in {"info", "retries", "reset", "wink", "next", "make"} :
             /\ WaitsFor(o, kind) /\ (kind = "make" => o.pin = "none")
             /\ r = Param(c, o, This(c), kind)
        \/ WaitsFor(o, "agree") /\ r = AgreementRequest(c, o, This(c))
        \/ /\ o.name \in {"assertion", "probe"} /\ o.pin = "none"
           /\ r = AssertionRequest(c, o, This(c), {}, {}, NoKey)
        \/ /\ o.name = "with"
           /\ \E h \in held[c] :
                r = [AssertionRequest(c, o, This(c), {h.token}, {}, NoKey) EXCEPT !.given = h.given]
  \/ /\ o.name = "token"
     /\ \E s \in kept[c] :
          r = TokenRequest(c, o, This(c), s) /\ session' = [session EXCEPT ![c] = s]

\* A later one.
Going(c, r) ==
  \/ /\ want[c] = "agree" /\ session' = [session EXCEPT ![c] = NewSession(c)]
     /\ \/ /\ op[c].name # "session" /\ op[c].pin # "none"
           /\ r = TokenRequest(c, op[c], begun[c], NewSession(c))
        \/ /\ op[c].name = "secret" /\ op[c].pin = "none"
           /\ r = AssertionRequest(c, op[c], begun[c], {}, SaltBox(NewSession(c), op[c]),
                                   SaltKey(NewSession(c), op[c]))
  \/ /\ want[c] = "token" /\ Fits(Got(c), "token") /\ session' = session
     /\ \/ op[c].name = "make" /\ r = MakeRequest(c, op[c], begun[c], Auth(c))
        \/ /\ op[c].name \in {"secret", "assertion"}
           /\ r = AssertionRequest(c, op[c], begun[c], Auth(c), SaltBox(session[c], op[c]),
                                   SaltKey(session[c], op[c]))

\* An operation that asks nothing returns what it knows, or that it may not ask.
LEMMA InvokeCases ==
  ASSUME ClientOK, NEW c \in Clients, Invoke(c)
  PROVE  \E o \in Op :
           \/ \E r : Start(c, o, r) /\ Opening(c, o, r)
           \/ Immediately(c, o, Done) /\ o.name = "info"
           \/ Immediately(c, o, Error("malformed"))
<1>1. PICK o \in plan.ops :
        \/ Info(c, o) \/ PinRetries(c, o) \/ Reset(c, o) \/ Wink(c, o)
        \/ OpenSession(c, o) \/ TokenInSession(c, o)
        \/ GetHmacSecret(c, o) \/ GetAssertion(c, o) \/ AssertWithToken(c, o)
        \/ GetNextAssertion(c, o) \/ ProbeCredential(c, o) \/ MakeCredential(c, o)
  BY DEF Invoke
<1>2. o \in Op
  BY DEF ClientOK, Plan
<1>3. ASSUME NEW kind \in {"info", "retries", "reset", "wink", "next", "make"},
             WaitsFor(o, kind), kind = "make" => o.pin = "none", Simple(c, o, kind)
      PROVE  \E r : Start(c, o, r) /\ Opening(c, o, r)
  BY <1>3 DEF Simple, Opening
<1>4. ASSUME WaitsFor(o, "agree"), Establish(c, o)
      PROVE  \E r : Start(c, o, r) /\ Opening(c, o, r)
  BY <1>4 DEF Establish, Opening
<1>5. ASSUME o.name \in {"assertion", "probe"}, o.pin = "none", AssertPlainly(c, o)
      PROVE  \E r : Start(c, o, r) /\ Opening(c, o, r)
  BY <1>5 DEF AssertPlainly, Opening
<1>6. CASE Info(c, o)
  BY <1>2, <1>3, <1>6 DEF Info, WaitsFor
<1>7. CASE PinRetries(c, o) \/ Reset(c, o) \/ Wink(c, o) \/ GetNextAssertion(c, o)
  BY <1>2, <1>3, <1>7 DEF PinRetries, Reset, Wink, GetNextAssertion, WaitsFor
<1>8. CASE OpenSession(c, o) \/ GetHmacSecret(c, o)
  BY <1>2, <1>4, <1>8 DEF OpenSession, GetHmacSecret, WaitsFor
<1>9. CASE TokenInSession(c, o)
  <2>1. PICK s \in kept[c] :
          Start(c, o, TokenRequest(c, o, This(c), s)) /\ session' = [session EXCEPT ![c] = s]
    BY <1>9 DEF TokenInSession
  <2>2. Opening(c, o, TokenRequest(c, o, This(c), s))
    BY <1>9, <2>1 DEF TokenInSession, Opening
  <2>3. QED
    BY <1>2, <2>1, <2>2
<1>10. CASE GetAssertion(c, o)
  BY <1>2, <1>4, <1>5, <1>10 DEF GetAssertion, WaitsFor
<1>11. CASE AssertWithToken(c, o)
  <2>1. PICK h \in held[c] :
          Start(c, o, [AssertionRequest(c, o, This(c), {h.token}, {}, NoKey)
                         EXCEPT !.given = h.given])
    BY <1>11 DEF AssertWithToken
  <2>2. Opening(c, o, [AssertionRequest(c, o, This(c), {h.token}, {}, NoKey)
                         EXCEPT !.given = h.given])
    BY <1>11, <2>1 DEF AssertWithToken, Opening
  <2>3. QED
    BY <1>2, <2>1, <2>2
<1>12. CASE ProbeCredential(c, o)
  <2>1. o.pin = "none"
    BY <1>2, <1>12, OpFields DEF ProbeCredential
  <2>2. QED
    BY <1>2, <1>5, <1>12, <2>1 DEF ProbeCredential
<1>13. CASE MakeCredential(c, o)
  BY <1>2, <1>3, <1>4, <1>13 DEF MakeCredential, WaitsFor
<1>14. QED
  BY <1>1, <1>6, <1>7, <1>8, <1>9, <1>10, <1>11, <1>12, <1>13

Outcomes ==
  [res : {"none", "ok"} \cup Errors, status : Statuses, cred : SUBSET Nat, secrets : Seq(Outs)]

\* The end of an operation: what it keeps.
Ends(c) ==
  /\ want[c] # "none"
  /\ \/ Take(c) /\ (trusted' = trusted \/ trusted' = [trusted EXCEPT ![c] = FALSE])
     \/ UNCHANGED inbox /\ trusted' = [trusted EXCEPT ![c] = FALSE]
  /\ \E outcome \in Outcomes : Finish(c, outcome)
  /\ \/ UNCHANGED <<session, memory>>
     \/ /\ want[c] = "agree" /\ Take(c) /\ session' = [session EXCEPT ![c] = NewSession(c)]
        /\ kept' = [kept EXCEPT ![c] = {NewSession(c)}]
        /\ UNCHANGED <<held, cache, walk>>
     \/ /\ want[c] = "token" /\ Receives(c, "token")
        /\ held' = [held EXCEPT ![c] = Hold(c, Auth(c))]
        /\ UNCHANGED <<session, kept, cache, walk>>
     \/ /\ want[c] = "info" /\ Take(c) /\ trusted' = trusted
        /\ \/ UNCHANGED cache
           \/ cache' = [cache EXCEPT ![c] =
                {[pinSet |-> Got(c).pinSet, real |-> Got(c).kind = "info"]}]
        /\ UNCHANGED <<session, kept, held, walk>>
     \/ /\ Take(c) /\ Walked(c)
        /\ UNCHANGED <<session, kept, held, cache>>

LEMMA OutcomeTypes ==
  /\ \A res \in Errors : Error(res) \in Outcomes
  /\ Done \in Outcomes /\ NoResult \in Outcomes
  /\ \A status \in Statuses : Outcome("ctap", status, {}, << >>) \in Outcomes
  /\ \A cred \in SUBSET Nat, secrets \in Seq(Outs) : Ok(cred, secrets) \in Outcomes
<1>1. "ok" \in Statuses /\ "ctap" \in Errors
  BY DEF Statuses, Errors
<1>2. << >> \in Seq(Outs)
  BY EmptySeq
<1>3. QED
  BY <1>1, <1>2 DEF Error, Done, NoResult, Outcome, Ok, Outcomes

LEMMA GotReply ==
  ASSUME LinkOK, NEW c \in Clients, Take(c)
  PROVE  /\ Got(c) \in Replies /\ Got(c) = inbox[c][1] /\ 1 \in DOMAIN inbox[c]
         /\ Tail(inbox[c]) = Without(inbox[c], 1) /\ Tail(inbox[c]) \in Seq(Replies)
<1>1. inbox[c] \in Seq(Replies) /\ inbox[c] # << >>
  BY DEF LinkOK, Take
<1>2. QED
  BY <1>1, TailIsWithout, HeadTailProperties DEF Got

LEMMA SecretOutcomeType ==
  ASSUME NEW c \in Clients, NEW p \in Replies
  PROVE  SecretOutcome(c, p) \in Outcomes
<1>1. Error("malformed") \in Outcomes /\ Error("missing") \in Outcomes
  BY OutcomeTypes DEF Errors
<1>2. Noise \in Outs
  BY DEF Noise, Outs
<1>3. ASSUME NEW b \in p.out
      PROVE  Opened(session[c], b) \in Seq(Outs)
  <2>1. b.plain \in Seq(Outs)
    BY <1>3, ReplyFields
  <2>2. [i \in DOMAIN b.plain |-> Noise] \in Seq(Outs)
    <3>1. DOMAIN b.plain = 1..Len(b.plain) /\ Len(b.plain) \in Nat
      BY <2>1, LenProperties
    <3>2. QED
      BY <3>1, <1>2, IsASeq
  <2>3. QED
    BY <2>1, <2>2 DEF Opened, Unbox
<1>4. ASSUME NEW b \in p.out
      PROVE  Ok({}, Opened(session[c], CHOOSE d \in p.out : TRUE)) \in Outcomes
  <2>1. (CHOOSE d \in p.out : TRUE) \in p.out
    BY <1>4
  <2>2. QED
    BY <1>3, <2>1, OutcomeTypes
<1>5. QED
  BY <1>1, <1>4 DEF SecretOutcome

LEMMA ResumeCases ==
  ASSUME LinkOK, MemoryOK, ClientOK, NEW c \in Clients, Resume(c)
  PROVE  \/ Ends(c)
         \/ Take(c) /\ want[c] # "none" /\ \E r : Continue(c, r) /\ Going(c, r)
<1>1. "hid" \in Errors /\ "malformed" \in Errors
  BY DEF Errors
<1>2. CASE OnCtapError(c)
  <2>. DEFINE out == IF op[c].name = "probe" /\ Got(c).status = "noCredentials" THEN Done
                     ELSE Outcome("ctap", Got(c).status, {}, << >>)
  <2>1. out \in Outcomes
    BY <1>2, GotReply, ReplyFields, OutcomeTypes DEF OnCtapError
  <2>2. Finish(c, out)
    BY <1>2 DEF OnCtapError
  <2>3. QED
    BY <1>2, <2>1, <2>2 DEF OnCtapError, Ends, Take
<1>3. CASE OnMisfit(c)
  BY <1>1, <1>3, OutcomeTypes DEF OnMisfit, Ends, Take
<1>4. CASE OnGarbled(c)
  BY <1>1, <1>4, OutcomeTypes DEF OnGarbled, Ends, Take
<1>5. CASE OnTimeout(c)
  BY <1>1, <1>5, OutcomeTypes DEF OnTimeout, Ends
<1>6. CASE OnInfo(c)
  <2>1. \/ cache' = cache
        \/ cache' = [cache EXCEPT ![c] =
             {[pinSet |-> Got(c).pinSet, real |-> Got(c).kind = "info"]}]
    <3>1. CASE op[c].name = "list"
      <4>1. cache' = [cache EXCEPT ![c] = cache[c]]
        BY <1>6, <3>1 DEF OnInfo
      <4>2. QED
        BY <4>1 DEF MemoryOK
    <3>2. CASE op[c].name # "list"
      BY <1>6, <3>2 DEF OnInfo
    <3>3. QED
      BY <3>1, <3>2
  <2>2. Take(c) /\ want[c] = "info" /\ Finish(c, Done) /\ UNCHANGED <<session, kept, held, walk, trusted>>
    BY <1>6 DEF OnInfo, Receives
  <2>3. QED
    BY <2>1, <2>2, OutcomeTypes DEF Ends
<1>7. CASE OnRetries(c) \/ OnEmpty(c)
  BY <1>7, OutcomeTypes DEF OnRetries, OnEmpty, Receives, Ends, Take
<1>8. CASE OnAgreement(c)
  <2>1. /\ Take(c) /\ want[c] = "agree"
        /\ session' = [session EXCEPT ![c] = NewSession(c)]
    BY <1>8 DEF OnAgreement, Receives, NewSession
  <2>2. CASE op[c].name = "session"
    <3>1. /\ kept' = [kept EXCEPT ![c] = {NewSession(c)}] /\ Finish(c, Done)
          /\ UNCHANGED <<held, cache, walk, trusted>>
      BY <1>8, <2>2 DEF OnAgreement, NewSession
    <3>2. QED
      BY <2>1, <3>1, OutcomeTypes DEF Ends
  <2>3. CASE op[c].name # "session" /\ op[c].pin # "none"
    <3>1. Continue(c, TokenRequest(c, op[c], begun[c], NewSession(c)))
      BY <1>8, <2>3 DEF OnAgreement, NewSession
    <3>2. Going(c, TokenRequest(c, op[c], begun[c], NewSession(c)))
      BY <2>1, <2>3 DEF Going
    <3>3. QED
      BY <2>1, <3>1, <3>2
  <2>4. CASE op[c].name # "session" /\ op[c].pin = "none"
    <3>1. /\ op[c].name = "secret"
          /\ Continue(c, AssertionRequest(c, op[c], begun[c], {}, SaltBox(NewSession(c), op[c]),
                                          SaltKey(NewSession(c), op[c])))
      BY <1>8, <2>4 DEF OnAgreement, NewSession
    <3>2. Going(c, AssertionRequest(c, op[c], begun[c], {}, SaltBox(NewSession(c), op[c]),
                                    SaltKey(NewSession(c), op[c])))
      BY <2>1, <2>4, <3>1 DEF Going
    <3>3. QED
      BY <2>1, <3>1, <3>2
  <2>5. QED
    BY <2>2, <2>3, <2>4
<1>9. CASE OnToken(c)
  <2>1. /\ Take(c) /\ want[c] = "token" /\ Fits(Got(c), "token") /\ session' = session
        /\ Receives(c, "token")
    BY <1>9 DEF OnToken, Receives
  <2>2. \/ /\ op[c].name = "token" /\ held' = [held EXCEPT ![c] = Hold(c, Auth(c))]
           /\ Finish(c, Done) /\ UNCHANGED <<kept, cache, walk, trusted>>
        \/ Finish(c, Error("malformed")) /\ UNCHANGED <<memory, trusted>>
        \/ op[c].name = "make" /\ Continue(c, MakeRequest(c, op[c], begun[c], Auth(c)))
        \/ /\ op[c].name \in {"secret", "assertion"}
           /\ Continue(c, AssertionRequest(c, op[c], begun[c], Auth(c), SaltBox(session[c], op[c]),
                                           SaltKey(session[c], op[c])))
    BY <1>9 DEF OnToken, Auth
  <2>3. CASE /\ op[c].name = "token" /\ held' = [held EXCEPT ![c] = Hold(c, Auth(c))]
             /\ Finish(c, Done) /\ UNCHANGED <<kept, cache, walk, trusted>>
    BY <2>1, <2>3, OutcomeTypes DEF Ends
  <2>4. CASE Finish(c, Error("malformed")) /\ UNCHANGED <<memory, trusted>>
    BY <1>1, <2>1, <2>4, OutcomeTypes DEF Ends
  <2>5. CASE op[c].name = "make" /\ Continue(c, MakeRequest(c, op[c], begun[c], Auth(c)))
    BY <2>1, <2>5 DEF Going
  <2>6. CASE /\ op[c].name \in {"secret", "assertion"}
             /\ Continue(c, AssertionRequest(c, op[c], begun[c], Auth(c), SaltBox(session[c], op[c]),
                                             SaltKey(session[c], op[c])))
    BY <2>1, <2>6 DEF Going
  <2>7. QED
    BY <2>2, <2>3, <2>4, <2>5, <2>6
<1>10. CASE OnAssertion(c)
  <2>1. Take(c) /\ want[c] # "none"
    BY <1>10 DEF OnAssertion, Receives, Take
  <2>2. Got(c).id \in SUBSET Nat /\ << >> \in Seq(Outs)
    BY <2>1, GotReply, ReplyFields, EmptySeq
  <2>3. Ok(Got(c).id, << >>) \in Outcomes
    BY <2>2, OutcomeTypes
  <2>4. QED
    BY <1>10, <2>1, <2>3 DEF OnAssertion, Ends
<1>11. CASE OnSecret(c)
  <2>1. Take(c) /\ want[c] # "none"
    BY <1>11 DEF OnSecret, Receives, Take
  <2>2. SecretOutcome(c, Got(c)) \in Outcomes
    BY <2>1, GotReply, SecretOutcomeType
  <2>3. QED
    BY <1>11, <2>1, <2>2 DEF OnSecret, Ends
<1>12. CASE OnCredential(c)
  <2>1. Take(c) /\ want[c] # "none"
    BY <1>12 DEF OnCredential, Receives, Take
  <2>2. Got(c).id \in SUBSET Nat /\ << >> \in Seq(Outs)
    BY <2>1, GotReply, ReplyFields, EmptySeq
  <2>3. Ok(Got(c).id, << >>) \in Outcomes
    BY <2>2, OutcomeTypes
  <2>4. QED
    BY <1>12, <2>1, <2>3 DEF OnCredential, Ends
<1>13. QED
  BY <1>2, <1>3, <1>4, <1>5, <1>6, <1>7, <1>8, <1>9, <1>10, <1>11, <1>12 DEF Resume

(* Requests. *)

\* The PinUvAuthToken in a request is that of a PinToken, or the one just received.
RightAuth(c, o, r) ==
  \/ r.auth = {} /\ (r.kind \in {"assert", "make"} => o.pin = "none")
  \/ o.name = "with" /\ \E h \in held[c] : r.auth = {h.token} /\ r.given = h.given
  \/ /\ want[c] = "token" /\ Fits(Got(c), "token") /\ o = op[c] /\ o.name # "token" /\ o.pin # "none"
     /\ r.auth = Auth(c) /\ r.given = o.pin

\* Request r belongs to operation o, the n-th of c.
Belongs(c, o, n, r) ==
  /\ r \in Request /\ r.from = NextCall(c) /\ r.hash = <<c, n>> /\ WaitsFor(o, r.kind)
  /\ session'[c] \in Session /\ session' = [session EXCEPT ![c] = session'[c]]
  /\ r.kind = "token" =>
       /\ session'[c] \in Secret /\ session'[c].plat[2] <= sent[c]
       /\ o.name # "token" =>
            session'[c].plat[2] = sent[c] /\ want[c] = "agree" /\ session'[c] = NewSession(c)
       /\ r.given = o.pin /\ r.plat = session'[c].plat /\ r.pin = {Box(session'[c], o.pin)}
  /\ r.kind = "assert" => r.allow = o.allow
  /\ r.kind = "assert" /\ o.name = "secret" =>
       r.plat = session'[c].plat /\ r.salt = {Box(session'[c], o.salts)}
  /\ RightAuth(c, o, r)

LEMMA SecretSession ==
  ASSUME NEW s \in Session, s.plat # NoKey
  PROVE  s \in Secret
BY DEF Session, Secret

LEMMA FitsToken ==
  ASSUME NEW p, Fits(p, "token")
  PROVE  p.kind = "token" /\ p.status = "ok"
<1>1. "token" \notin {"assert", "next"}
  OBVIOUS
<1>2. {p.kind, "token"} # {"assert", "next"}
  BY <1>1
<1>3. QED
  BY <1>2 DEF Fits

LEMMA NewSessionType ==
  ASSUME LinkOK, ClientOK, NEW c \in Clients, Take(c)
  PROVE  /\ NewSession(c) \in Secret /\ NewSession(c) \in Session
         /\ NewSession(c).plat = <<c, sent[c]>> /\ NewSession(c).plat[2] = sent[c]
         /\ NewSession(c).plat # NoKey
<1>1. Got(c).key \in Nat /\ sent[c] \in Nat
  BY GotReply, ReplyFields DEF ClientOK
<1>2. <<c, sent[c]>> \in Call
  BY <1>1 DEF Call
<1>3. QED
  BY <1>1, <1>2 DEF NewSession, Secret, Session, NoKey

LEMMA AuthType ==
  ASSUME LinkOK, NEW c \in Clients, Take(c)
  PROVE  Auth(c) \in SUBSET Nat
<1>1. Got(c).token \in SUBSET [key : Secret, plain : Nat]
  BY GotReply, ReplyFields
<1>2. QED
  BY <1>1 DEF Auth, OpenedToken, Unbox

LEMMA OpeningBelongs ==
  ASSUME LinkOK, MemoryOK, ClientOK, NumberInv, NEW c \in Clients, NEW o \in Op, NEW r,
         Opening(c, o, r)
  PROVE  Belongs(c, o, This(c), r)
<1>. /\ sent[c] \in Nat /\ begun[c] \in Nat /\ This(c) \in Nat /\ session \in [Clients -> Session]
     /\ session[c] \in Session
  BY DEF ClientOK, This
<1>. o.pin \in Given /\ o.pin \in Pins
  BY OpFields DEF Given
<1>. {} \in SUBSET Nat /\ {} \in SUBSET [key : Secret, plain : Seq(Salts)]
     /\ NoKey \in Call \cup {NoKey}
  OBVIOUS
<1>1. ASSUME session' = session
      PROVE  session'[c] \in Session /\ session' = [session EXCEPT ![c] = session'[c]]
  BY <1>1
<1>2. ASSUME session' = session, NEW kind \in {"info", "retries", "reset", "wink", "next", "make"},
             WaitsFor(o, kind), kind = "make" => o.pin = "none", r = Param(c, o, This(c), kind)
      PROVE  Belongs(c, o, This(c), r)
  <2>1. kind \in Kinds
    BY <1>2 DEF Kinds
  <2>2. /\ r \in Request /\ r.kind = kind /\ r.from = NextCall(c) /\ r.hash = <<c, This(c)>>
        /\ r.auth = {}
    BY <1>2, <2>1, ParamType
  <2>3. r.kind \notin {"token", "assert"}
    BY <1>2, <2>2
  <2>4. QED
    BY <1>1, <1>2, <2>2, <2>3 DEF Belongs, RightAuth
<1>3. ASSUME session' = session, WaitsFor(o, "agree"), r = AgreementRequest(c, o, This(c))
      PROVE  Belongs(c, o, This(c), r)
  <2>1. /\ r \in Request /\ r.kind = "agree" /\ r.from = NextCall(c) /\ r.hash = <<c, This(c)>>
        /\ r.auth = {}
    BY <1>3, AgreementType
  <2>2. QED
    BY <1>1, <1>3, <2>1 DEF Belongs, RightAuth
<1>4. ASSUME session' = session, o.name \in {"assertion", "probe"}, o.pin = "none",
             r = AssertionRequest(c, o, This(c), {}, {}, NoKey)
      PROVE  Belongs(c, o, This(c), r)
  <2>1. /\ r \in Request /\ r.kind = "assert" /\ r.from = NextCall(c) /\ r.hash = <<c, This(c)>>
        /\ r.auth = {} /\ r.allow = o.allow
    <3>1. r \in Request
      BY <1>4, AssertionRequestType
    <3>2. QED
      BY <1>4, <3>1, AssertionRequestFields
  <2>2. WaitsFor(o, "assert") /\ o.name # "secret"
    BY <1>4 DEF WaitsFor
  <2>3. QED
    BY <1>1, <1>4, <2>1, <2>2 DEF Belongs, RightAuth
<1>5. ASSUME session' = session, o.name = "with", NEW h \in held[c],
             r = [AssertionRequest(c, o, This(c), {h.token}, {}, NoKey) EXCEPT !.given = h.given]
      PROVE  Belongs(c, o, This(c), r)
  <2>1. {h.token} \in SUBSET Nat /\ h.given \in Given
    BY <1>5 DEF MemoryOK
  <2>2. /\ r \in Request /\ r.kind = "assert" /\ r.from = NextCall(c) /\ r.hash = <<c, This(c)>>
        /\ r.auth = {h.token} /\ r.given = h.given /\ r.allow = o.allow
    <3>. DEFINE q == AssertionRequest(c, o, This(c), {h.token}, {}, NoKey)
    <3>1. /\ q \in Request /\ q.kind = "assert" /\ q.from = NextCall(c) /\ q.hash = <<c, This(c)>>
          /\ q.auth = {h.token} /\ q.allow = o.allow
      <4>1. q \in Request
        BY <2>1, AssertionRequestType
      <4>2. QED
        BY <4>1, AssertionRequestFields
    <3>2. QED
      BY <1>5, <2>1, <3>1, GivenType
  <2>3. WaitsFor(o, "assert") /\ o.name # "secret"
    BY <1>5 DEF WaitsFor
  <2>4. RightAuth(c, o, r)
    BY <1>5, <2>2 DEF RightAuth
  <2>5. QED
    BY <1>1, <1>5, <2>2, <2>3, <2>4 DEF Belongs
<1>6. ASSUME o.name = "token", NEW s \in kept[c], r = TokenRequest(c, o, This(c), s),
             session' = [session EXCEPT ![c] = s]
      PROVE  Belongs(c, o, This(c), r)
  <2>1. s \in Session /\ s \in Secret /\ s.plat[2] <= sent[c]
    BY <1>6, SecretSession DEF MemoryOK, NumberInv, NumbersOf
  <2>2. session'[c] = s
    BY <1>6
  <2>3. /\ r \in Request /\ r.kind = "token" /\ r.from = NextCall(c) /\ r.hash = <<c, This(c)>>
        /\ r.auth = {} /\ r.given = o.pin /\ r.plat = s.plat /\ r.pin = {Box(s, o.pin)}
    BY <1>6, <2>1, TokenRequestType
  <2>4. WaitsFor(o, "token")
    BY <1>6, OpFields DEF WaitsFor
  <2>5. RightAuth(c, o, r)
    BY <2>3 DEF RightAuth
  <2>6. QED
    BY <1>6, <2>1, <2>2, <2>3, <2>4, <2>5 DEF Belongs
<1>7. QED
  BY <1>2, <1>3, <1>4, <1>5, <1>6 DEF Opening

LEMMA GoingBelongs ==
  ASSUME LinkOK, MemoryOK, ClientOK, OperationInv, NEW c \in Clients, NEW r, Take(c), Going(c, r)
  PROVE  Belongs(c, op[c], begun[c], r)
<1>. DEFINE o == op[c]
            n == begun[c]
<1>. /\ sent[c] \in Nat /\ n \in Nat /\ session \in [Clients -> Session] /\ session[c] \in Session
     /\ o \in Op
  BY DEF ClientOK
<1>. o.pin \in Given /\ o.pin \in Pins /\ o.salts \in Seq(Salts) /\ want[c] # "none"
  BY OpFields DEF Given, Take
<1>0. WaitsFor(o, want[c]) /\ (want[c] = "token" => session[c].plat # NoKey)
  BY DEF OperationInv, OperationOf
<1>1. ASSUME NEW s \in Secret
      PROVE  /\ SaltBox(s, o) \in SUBSET [key : Secret, plain : Seq(Salts)]
             /\ SaltKey(s, o) \in Call \cup {NoKey}
             /\ o.name = "secret" => SaltBox(s, o) = {Box(s, o.salts)} /\ SaltKey(s, o) = s.plat
  <2>1. {Box(s, o.salts)} \in SUBSET [key : Secret, plain : Seq(Salts)]
    BY BoxTypes
  <2>2. s.plat \in Call
    BY DEF Secret
  <2>3. QED
    BY <2>1, <2>2 DEF SaltBox, SaltKey
<1>2. ASSUME want[c] = "agree", session' = [session EXCEPT ![c] = NewSession(c)],
             o.name # "session", o.pin # "none",
             r = TokenRequest(c, o, n, NewSession(c))
      PROVE  Belongs(c, o, n, r)
  <2>1. /\ NewSession(c) \in Secret /\ NewSession(c) \in Session
        /\ NewSession(c).plat[2] = sent[c]
    BY NewSessionType
  <2>2. session'[c] = NewSession(c)
    BY <1>2
  <2>3. /\ r \in Request /\ r.kind = "token" /\ r.from = NextCall(c) /\ r.hash = <<c, n>>
        /\ r.auth = {} /\ r.given = o.pin /\ r.plat = NewSession(c).plat
        /\ r.pin = {Box(NewSession(c), o.pin)}
    BY <1>2, <2>1, TokenRequestType
  <2>4. WaitsFor(o, "token")
    BY <1>0, <1>2 DEF WaitsFor
  <2>5. RightAuth(c, o, r)
    BY <2>3 DEF RightAuth
  <2>6. QED
    BY <1>2, <2>1, <2>2, <2>3, <2>4, <2>5 DEF Belongs
<1>3. ASSUME want[c] = "agree", session' = [session EXCEPT ![c] = NewSession(c)],
             o.name = "secret", o.pin = "none",
             r = AssertionRequest(c, o, n, {}, SaltBox(NewSession(c), o), SaltKey(NewSession(c), o))
      PROVE  Belongs(c, o, n, r)
  <2>1. NewSession(c) \in Secret /\ NewSession(c) \in Session
    BY NewSessionType
  <2>2. session'[c] = NewSession(c)
    BY <1>3
  <2>3. {} \in SUBSET Nat
    OBVIOUS
  <2>4. /\ r \in Request /\ r.kind = "assert" /\ r.from = NextCall(c) /\ r.hash = <<c, n>>
        /\ r.auth = {} /\ r.allow = o.allow /\ r.plat = NewSession(c).plat
        /\ r.salt = {Box(NewSession(c), o.salts)}
    <3>1. r \in Request
      BY <1>1, <1>3, <2>1, <2>3, AssertionRequestType
    <3>2. QED
      BY <1>1, <1>3, <2>1, <3>1, AssertionRequestFields
  <2>5. WaitsFor(o, "assert")
    BY <1>3 DEF WaitsFor
  <2>6. RightAuth(c, o, r)
    BY <1>3, <2>4 DEF RightAuth
  <2>7. QED
    BY <1>3, <2>1, <2>2, <2>4, <2>5, <2>6 DEF Belongs
<1>4. ASSUME want[c] = "token", Fits(Got(c), "token"), session' = session
      PROVE  /\ session[c] \in Secret /\ Auth(c) \in SUBSET Nat /\ o.pin # "none"
             /\ session'[c] = session[c] /\ session' = [session EXCEPT ![c] = session'[c]]
  BY <1>0, <1>4, AuthType, SecretSession DEF WaitsFor
<1>5. ASSUME want[c] = "token", Fits(Got(c), "token"), session' = session,
             o.name = "make", r = MakeRequest(c, o, n, Auth(c))
      PROVE  Belongs(c, o, n, r)
  <2>1. /\ r \in Request /\ r.kind = "make" /\ r.from = NextCall(c) /\ r.hash = <<c, n>>
        /\ r.auth = Auth(c) /\ r.given = o.pin
    BY <1>4, <1>5, MakeRequestType
  <2>2. WaitsFor(o, "make") /\ RightAuth(c, o, r)
    BY <1>4, <1>5, <2>1 DEF WaitsFor, RightAuth
  <2>3. QED
    BY <1>4, <1>5, <2>1, <2>2 DEF Belongs
<1>6. ASSUME want[c] = "token", Fits(Got(c), "token"), session' = session,
             o.name \in {"secret", "assertion"},
             r = AssertionRequest(c, o, n, Auth(c), SaltBox(session[c], o), SaltKey(session[c], o))
      PROVE  Belongs(c, o, n, r)
  <2>1. /\ r \in Request /\ r.kind = "assert" /\ r.from = NextCall(c) /\ r.hash = <<c, n>>
        /\ r.auth = Auth(c) /\ r.given = o.pin /\ r.allow = o.allow
        /\ r.salt = SaltBox(session[c], o) /\ r.plat = SaltKey(session[c], o)
    <3>1. r \in Request
      BY <1>1, <1>4, <1>6, AssertionRequestType
    <3>2. QED
      BY <1>6, <3>1, AssertionRequestFields
  <2>2. WaitsFor(o, "assert") /\ RightAuth(c, o, r)
    BY <1>4, <1>6, <2>1 DEF WaitsFor, RightAuth
  <2>3. QED
    BY <1>1, <1>4, <1>6, <2>1, <2>2 DEF Belongs
<1>7. QED
  BY <1>2, <1>3, <1>5, <1>6 DEF Going

(* The steps of a client keep the types. *)

LEMMA AskTypes ==
  ASSUME LinkOK, ClientOK, NEW c \in Clients, NEW r \in Request, Ask(c, r)
  PROVE  /\ line' \in [Clients -> Seq(Request)] /\ sent' \in [Clients -> Nat]
         /\ want' \in [Clients -> Kinds \cup {"none"}]
<1>1. Append(line[c], r) \in Seq(Request)
  BY AppendProperties DEF LinkOK
<1>2. r.kind \in Kinds \cup {"none"} /\ sent[c] + 1 \in Nat
  BY RequestFields DEF ClientOK
<1>3. QED
  BY <1>1, <1>2, UpdateType DEF Ask, LinkOK, ClientOK

LEMMA PlanType ==
  ASSUME ClientOK, plan.opens > 0, plan' = [plan EXCEPT !.opens = @ - 1]
  PROVE  plan' \in Plan
<1>1. plan.opens - 1 \in Nat
  BY DEF ClientOK, Plan
<1>2. plan \in [ops : SUBSET Op, calls : Nat, opens : Nat, cycles : Nat]
  BY DEF ClientOK, Plan
<1>3. QED
  BY <1>1, <1>2 DEF Plan

LEMMA AttachTypes ==
  ASSUME LinkOK, MemoryOK, ClientOK, NEW c \in Clients, NEW use \in {"open", "probe"}, Attach(c, use)
  PROVE  /\ inbox' \in [Clients -> Seq(Replies)] /\ opened' \in [Clients -> Nat]
         /\ MemoryOK'
         /\ plan' \in Plan /\ trusted' \in [Clients -> BOOLEAN]
         /\ handle' \in [Clients -> {"closed", "open", "probe", "dead"}]
<1>1. << >> \in Seq(Replies) /\ << >> \in Seq([hash : Call, cred : SUBSET Nat])
  BY EmptySeq
<1>2. inbox' \in [Clients -> Seq(Replies)] /\ opened' \in [Clients -> Nat]
  BY <1>1 DEF Attach, LinkOK, ClientOK
<1>3. walk' \in [Clients -> Seq([hash : Call, cred : SUBSET Nat])]
  BY <1>1 DEF Attach, MemoryOK
<1>4. cache' \in [Clients -> SUBSET [pinSet : BOOLEAN, real : BOOLEAN]]
  BY DEF Attach, MemoryOK
<1>5. MemoryOK'
  BY <1>3, <1>4 DEF Attach, MemoryOK
<1>6. plan' \in Plan
  BY PlanType DEF Attach
<1>7. trusted' \in [Clients -> BOOLEAN] /\ handle' \in [Clients -> {"closed", "open", "probe", "dead"}]
  BY DEF Attach, ClientOK
<1>8. QED
  BY <1>2, <1>5, <1>6, <1>7

LEMMA DetachTypes ==
  ASSUME LinkOK, MemoryOK, ClientOK, NEW c \in Clients, Detach(c)
  PROVE  /\ LinkOK' /\ MemoryOK' /\ plan' \in Plan /\ trusted' \in [Clients -> BOOLEAN]
         /\ handle' \in [Clients -> {"closed", "open", "probe", "dead"}]
<1>1. plan' \in Plan
  BY PlanType DEF Detach
<1>2. LinkOK' /\ MemoryOK'
  BY DEF Detach, LinkOK, MemoryOK, link, memory
<1>3. QED
  BY <1>1, <1>2 DEF Detach, ClientOK

LEMMA ResultType ==
  ASSUME ClientOK, NEW c \in Clients, NEW outcome \in Outcomes, result' = [result EXCEPT ![c] = outcome]
  PROVE  result' \in [Clients -> Outcomes]
BY UpdateType DEF ClientOK, Outcomes

LEMMA FinishTypes ==
  ASSUME ClientOK, NEW c \in Clients, NEW outcome \in Outcomes, Finish(c, outcome)
  PROVE  /\ want' \in [Clients -> Kinds \cup {"none"}] /\ result' \in [Clients -> Outcomes]
         /\ handle' \in [Clients -> {"closed", "open", "probe", "dead"}]
<1>1. TheDevice \in Nat /\ << >> \in Seq(Outs)
  BY EmptySeq DEF TheDevice
<1>2. Ok({TheDevice}, << >>) \in Outcomes /\ Done \in Outcomes
  BY <1>1, OutcomeTypes
<1>3. \E out \in Outcomes : result' = [result EXCEPT ![c] = out]
  BY <1>2 DEF Finish
<1>4. result' \in [Clients -> Outcomes]
  BY <1>3, ResultType
<1>5. handle' \in [Clients -> {"closed", "open", "probe", "dead"}]
  BY DEF Finish, ClientOK
<1>6. QED
  BY <1>4, <1>5 DEF Finish, ClientOK

LEMMA BeginTypes ==
  ASSUME ClientOK, NEW c \in Clients, NEW o \in Op, Begin(c, o)
  PROVE  begun' \in [Clients -> Nat] /\ op' \in [Clients -> Op]
BY DEF Begin, ClientOK

\* What Start, Immediately, List, Open, Finish and Continue leave to show.
LEMMA ClientFromParts ==
  ASSUME plan' \in Plan, handle' \in [Clients -> {"closed", "open", "probe", "dead"}],
         begun' \in [Clients -> Nat], sent' \in [Clients -> Nat], op' \in [Clients -> Op],
         want' \in [Clients -> Kinds \cup {"none"}], session' \in [Clients -> Session],
         result' \in [Clients -> Outcomes], trusted' \in [Clients -> BOOLEAN]
  PROVE  ClientOK'
BY DEF ClientOK, Outcomes

LEMMA ClientParts ==
  ASSUME ClientOK
  PROVE  /\ plan \in Plan /\ handle \in [Clients -> {"closed", "open", "probe", "dead"}]
         /\ begun \in [Clients -> Nat] /\ sent \in [Clients -> Nat] /\ op \in [Clients -> Op]
         /\ want \in [Clients -> Kinds \cup {"none"}] /\ session \in [Clients -> Session]
         /\ result \in [Clients -> Outcomes] /\ trusted \in [Clients -> BOOLEAN]
BY DEF ClientOK, Outcomes

LEMMA StartTypes ==
  ASSUME LinkOK, MemoryOK, ClientOK, NEW c \in Clients, NEW o \in Op, NEW r \in Request,
         Start(c, o, r), session' \in [Clients -> Session]
  PROVE  LinkOK' /\ MemoryOK' /\ ClientOK'
<1>1. NoResult \in Outcomes /\ Error("hid") \in Outcomes
  BY OutcomeTypes DEF Errors
<1>2. result' \in [Clients -> Outcomes]
  BY <1>1, ResultType DEF Start
<1>3. MemoryOK' /\ inbox' = inbox /\ opened' = opened /\ plan' = plan /\ handle' = handle
  BY DEF Start, memory, MemoryOK
<1>4. begun' \in [Clients -> Nat] /\ op' \in [Clients -> Op]
  BY BeginTypes DEF Start
<1>5. trusted' \in [Clients -> BOOLEAN]
  BY DEF Start, ClientOK
<1>6. /\ line' \in [Clients -> Seq(Request)] /\ sent' \in [Clients -> Nat]
      /\ want' \in [Clients -> Kinds \cup {"none"}]
  <2>1. CASE Ask(c, r)
    BY <2>1, AskTypes
  <2>2. CASE UNCHANGED <<line, sent, want>>
    BY <2>2 DEF LinkOK, ClientOK
  <2>3. QED
    BY <2>1, <2>2 DEF Start
<1>7. QED
  BY <1>2, <1>3, <1>4, <1>5, <1>6, ClientParts, ClientFromParts DEF LinkOK

LEMMA EndsTypes ==
  ASSUME LinkOK, MemoryOK, ClientOK, NEW c \in Clients, Ends(c)
  PROVE  LinkOK' /\ MemoryOK' /\ ClientOK'
<1>1. PICK outcome \in Outcomes : Finish(c, outcome)
  BY DEF Ends
<1>2. /\ want' \in [Clients -> Kinds \cup {"none"}] /\ result' \in [Clients -> Outcomes]
      /\ handle' \in [Clients -> {"closed", "open", "probe", "dead"}]
      /\ UNCHANGED <<plan, line, opened, begun, sent, op>>
  BY <1>1, FinishTypes DEF Finish
<1>3. trusted' \in [Clients -> BOOLEAN]
  BY DEF Ends, ClientOK
<1>4. inbox' \in [Clients -> Seq(Replies)]
  <2>1. CASE Take(c)
    BY <2>1, GotReply, UpdateType DEF Take, LinkOK
  <2>2. CASE inbox' = inbox
    BY <2>2 DEF LinkOK
  <2>3. QED
    BY <2>1, <2>2 DEF Ends
<1>5. session' \in [Clients -> Session] /\ MemoryOK'
  <2>1. CASE UNCHANGED <<session, memory>>
    BY <2>1 DEF memory, MemoryOK, ClientOK
  <2>2. CASE /\ want[c] = "agree" /\ Take(c) /\ session' = [session EXCEPT ![c] = NewSession(c)]
             /\ kept' = [kept EXCEPT ![c] = {NewSession(c)}]
             /\ UNCHANGED <<held, cache, walk>>
    <3>1. NewSession(c) \in Session
      BY <2>2, NewSessionType
    <3>2. session' \in [Clients -> Session] /\ kept' \in [Clients -> SUBSET Session]
      BY <2>2, <3>1 DEF ClientOK, MemoryOK
    <3>3. QED
      BY <2>2, <3>2 DEF MemoryOK
  <2>3. CASE /\ want[c] = "token" /\ Receives(c, "token")
             /\ held' = [held EXCEPT ![c] = Hold(c, Auth(c))]
             /\ UNCHANGED <<session, kept, cache, walk>>
    <3>1. Take(c)
      BY <2>3 DEF Receives
    <3>2. Auth(c) \in SUBSET Nat /\ op[c].pin \in Given /\ "unsure" \in Given
      BY <3>1, AuthType, OpFields DEF ClientOK, Given
    <3>3. Hold(c, Auth(c)) \in SUBSET [token : Nat, given : Given]
      BY <3>2 DEF Hold
    <3>4. held' \in [Clients -> SUBSET [token : Nat, given : Given]]
      BY <2>3, <3>3, UpdateType DEF MemoryOK
    <3>5. QED
      BY <2>3, <3>4 DEF MemoryOK, ClientOK
  <2>4. CASE /\ Take(c)
             /\ \/ UNCHANGED cache
                \/ cache' = [cache EXCEPT ![c] =
                     {[pinSet |-> Got(c).pinSet, real |-> Got(c).kind = "info"]}]
             /\ UNCHANGED <<session, kept, held, walk>>
    <3>1. Got(c).pinSet \in BOOLEAN /\ (Got(c).kind = "info") \in BOOLEAN
      BY <2>4, GotReply, ReplyFields
    <3>2. {[pinSet |-> Got(c).pinSet, real |-> Got(c).kind = "info"]}
            \in SUBSET [pinSet : BOOLEAN, real : BOOLEAN]
      BY <3>1
    <3>3. cache' \in [Clients -> SUBSET [pinSet : BOOLEAN, real : BOOLEAN]]
      <4>1. cache \in [Clients -> SUBSET [pinSet : BOOLEAN, real : BOOLEAN]]
        BY DEF MemoryOK
      <4>2. [cache EXCEPT ![c] = {[pinSet |-> Got(c).pinSet, real |-> Got(c).kind = "info"]}]
              \in [Clients -> SUBSET [pinSet : BOOLEAN, real : BOOLEAN]]
        BY <3>2, <4>1, UpdateType
      <4>3. QED
        BY <2>4, <4>1, <4>2
    <3>4. UNCHANGED <<session, kept, held, walk>>
      BY <2>4
    <3>5. QED
      BY <3>3, <3>4 DEF MemoryOK, ClientOK
  <2>5. CASE /\ Take(c) /\ Walked(c)
             /\ UNCHANGED <<session, kept, held, cache>>
    <3>. DEFINE this == [hash |-> Got(c).hash, cred |-> Got(c).cred]
                Seen == [hash : Call, cred : SUBSET Nat]
    <3>1. this \in Seen
      BY <2>5, GotReply, ReplyFields
    <3>2. <<this>> \in Seq(Seen)
      BY <3>1
    <3>5. Append(walk[c], this) \in Seq(Seen)
      <4>1. walk[c] \in Seq(Seen)
        BY DEF MemoryOK
      <4>2. QED
        BY <3>1, <4>1, AppendProperties
    <3>3. walk' \in [Clients -> Seq(Seen)]
      BY <2>5, <3>2, <3>5, UpdateType DEF Walked, MemoryOK
    <3>4. QED
      BY <2>5, <3>3 DEF MemoryOK, ClientOK
  <2>6. QED
    BY <2>1, <2>2, <2>3, <2>4, <2>5 DEF Ends
<1>6. QED
  BY <1>2, <1>3, <1>4, <1>5, ClientParts, ClientFromParts DEF LinkOK

LEMMA ContinueTypes ==
  ASSUME LinkOK, MemoryOK, ClientOK, NEW c \in Clients, NEW r \in Request, Take(c), Continue(c, r),
         session' \in [Clients -> Session]
  PROVE  LinkOK' /\ MemoryOK' /\ ClientOK'
<1>1. /\ line' \in [Clients -> Seq(Request)] /\ sent' \in [Clients -> Nat]
      /\ want' \in [Clients -> Kinds \cup {"none"}]
  BY AskTypes DEF Continue
<1>2. inbox' \in [Clients -> Seq(Replies)]
  BY GotReply, UpdateType DEF Take, LinkOK
<1>3. MemoryOK' /\ UNCHANGED <<plan, opened, handle, begun, op, result, trusted>>
  BY DEF Continue, memory, MemoryOK
<1>4. QED
  BY <1>1, <1>2, <1>3, ClientParts, ClientFromParts DEF LinkOK

LEMMA ImmediatelyTypes ==
  ASSUME LinkOK, MemoryOK, ClientOK, NEW c \in Clients, NEW o \in Op, NEW outcome \in Outcomes,
         Immediately(c, o, outcome)
  PROVE  LinkOK' /\ MemoryOK' /\ ClientOK'
<1>1. result' \in [Clients -> Outcomes]
  BY ResultType DEF Immediately
<1>2. begun' \in [Clients -> Nat] /\ op' \in [Clients -> Op]
  BY BeginTypes DEF Immediately
<1>3. /\ UNCHANGED <<line, inbox, opened>> /\ UNCHANGED <<kept, held, cache, walk>>
      /\ UNCHANGED <<plan, handle, sent, want, session, trusted>>
  BY DEF Immediately, link, memory
<1>4. LinkOK' /\ MemoryOK'
  BY <1>3 DEF LinkOK, MemoryOK
<1>5. QED
  BY <1>1, <1>2, <1>3, <1>4, ClientParts, ClientFromParts

LEMMA ListTypes ==
  ASSUME LinkOK, MemoryOK, ClientOK, NEW c \in Clients, NEW o \in Op, List(c, o)
  PROVE  LinkOK' /\ MemoryOK' /\ ClientOK'
<1>1. NoResult \in Outcomes /\ Done \in Outcomes
  BY OutcomeTypes
<1>2. result' \in [Clients -> Outcomes]
  BY <1>1, ResultType DEF List
<1>3. begun' \in [Clients -> Nat] /\ op' \in [Clients -> Op] /\ session' = session
  BY BeginTypes DEF List
<1>4. CASE Attach(c, "probe") /\ Ask(c, Param(c, o, This(c), "info"))
  <2>1. Param(c, o, This(c), "info") \in Request
    <3>1. "info" \in Kinds /\ This(c) \in Nat /\ sent[c] \in Nat
      BY DEF Kinds, This, ClientOK
    <3>2. QED
      BY <3>1, ParamType
  <2>2. /\ line' \in [Clients -> Seq(Request)] /\ sent' \in [Clients -> Nat]
        /\ want' \in [Clients -> Kinds \cup {"none"}]
    BY <1>4, <2>1, AskTypes
  <2>3. /\ inbox' \in [Clients -> Seq(Replies)] /\ opened' \in [Clients -> Nat] /\ MemoryOK'
        /\ plan' \in Plan /\ trusted' \in [Clients -> BOOLEAN]
        /\ handle' \in [Clients -> {"closed", "open", "probe", "dead"}]
    BY <1>4, AttachTypes
  <2>4. QED
    BY <1>2, <1>3, <2>2, <2>3, ClientParts, ClientFromParts DEF LinkOK
<1>5. CASE Detach(c) /\ UNCHANGED <<sent, want>>
  BY <1>2, <1>3, <1>5, DetachTypes, ClientParts, ClientFromParts
<1>6. QED
  BY <1>4, <1>5 DEF List

LEMMA OpenTypes ==
  ASSUME LinkOK, MemoryOK, ClientOK, NEW c \in Clients, Open(c)
  PROVE  LinkOK' /\ MemoryOK' /\ ClientOK'
<1>1. NoResult \in Outcomes /\ Error("hid") \in Outcomes
  BY OutcomeTypes DEF Errors
<1>2. result' \in [Clients -> Outcomes] /\ UNCHANGED <<begun, sent, op, want, session>>
  BY <1>1, ResultType DEF Open
<1>3. CASE Attach(c, "open") /\ UNCHANGED line
  <2>1. /\ inbox' \in [Clients -> Seq(Replies)] /\ opened' \in [Clients -> Nat] /\ MemoryOK'
        /\ plan' \in Plan /\ trusted' \in [Clients -> BOOLEAN]
        /\ handle' \in [Clients -> {"closed", "open", "probe", "dead"}]
    BY <1>3, AttachTypes
  <2>2. LinkOK'
    BY <1>3, <2>1 DEF LinkOK
  <2>3. QED
    BY <1>2, <2>1, <2>2, ClientParts, ClientFromParts
<1>4. CASE Detach(c)
  BY <1>2, <1>4, DetachTypes, ClientParts, ClientFromParts
<1>5. QED
  BY <1>3, <1>4 DEF Open

LEMMA ClientTypes ==
  ASSUME LinkOK, MemoryOK, ClientOK, OperationInv, NumberInv, NEW c \in Clients, ClientStep(c)
  PROVE  LinkOK' /\ MemoryOK' /\ ClientOK'
<1>1. ASSUME NEW n, NEW o, NEW r, Belongs(c, o, n, r)
      PROVE  r \in Request /\ session' \in [Clients -> Session]
  BY <1>1, UpdateType DEF Belongs, ClientOK
<1>2. CASE Resume(c)
  <2>1. CASE Ends(c)
    BY <2>1, EndsTypes
  <2>2. ASSUME Take(c), NEW r, Continue(c, r), Going(c, r)
        PROVE  LinkOK' /\ MemoryOK' /\ ClientOK'
    BY <1>1, <2>2, GoingBelongs, ContinueTypes
  <2>3. QED
    BY <1>2, <2>1, <2>2, ResumeCases
<1>3. CASE Invoke(c)
  <2>1. PICK o \in Op :
           \/ \E r : Start(c, o, r) /\ Opening(c, o, r)
           \/ Immediately(c, o, Done) /\ o.name = "info"
           \/ Immediately(c, o, Error("malformed"))
    BY <1>3, InvokeCases
  <2>2. ASSUME NEW r, Start(c, o, r), Opening(c, o, r)
        PROVE  LinkOK' /\ MemoryOK' /\ ClientOK'
    BY <1>1, <2>2, OpeningBelongs, StartTypes
  <2>3. Done \in Outcomes /\ Error("malformed") \in Outcomes
    BY OutcomeTypes DEF Errors
  <2>4. QED
    BY <2>1, <2>2, <2>3, ImmediatelyTypes
<1>4. CASE Open(c)
  BY <1>4, OpenTypes
<1>5. ASSUME NEW o \in plan.ops, List(c, o)
      PROVE  LinkOK' /\ MemoryOK' /\ ClientOK'
  <2>1. o \in Op
    BY DEF ClientOK, Plan
  <2>2. QED
    BY <1>5, <2>1, ListTypes
<1>6. QED
  BY <1>2, <1>3, <1>4, <1>5 DEF ClientStep

LEMMA UnplugTypes ==
  ASSUME LinkOK, MemoryOK, ClientOK, AuthenticatorOK, Unplug
  PROVE  TypeOK'
<1>1. LinkOK' /\ AuthenticatorOK'
  BY PowerCycleTypes DEF Unplug
<1>2. plan' \in Plan
  <2>1. plan.cycles - 1 \in Nat /\ plan' = [plan EXCEPT !.cycles = plan.cycles - 1]
    BY DEF Unplug, ClientOK, Plan
  <2>2. plan \in [ops : SUBSET Op, calls : Nat, opens : Nat, cycles : Nat]
    BY DEF ClientOK, Plan
  <2>3. QED
    BY <2>1, <2>2 DEF Plan
<1>3. handle' \in [Clients -> {"closed", "open", "probe", "dead"}]
  BY DEF Unplug
<1>4. MemoryOK'
  BY DEF Unplug, memory, MemoryOK
<1>5. ClientOK'
  BY <1>2, <1>3, ClientParts, ClientFromParts DEF Unplug
<1>6. QED
  BY <1>1, <1>4, <1>5 DEF TypeOK

LEMMA InitTypes == Init => TypeOK
<1>. SUFFICES ASSUME Init PROVE TypeOK
  OBVIOUS
<1>. USE DEF Init, ClientInit, Ctap2DeviceInit
<1>1. << >> \in Seq(Request) /\ << >> \in Seq(Replies) /\ << >> \in Seq([hash : Call, cred : SUBSET Nat])
      /\ << >> \in Seq(Call) /\ << >> \in Seq(Salts)
  BY EmptySeq
<1>2. LinkOK
  BY <1>1 DEF LinkOK
<1>3. MemoryOK
  BY <1>1 DEF MemoryOK
<1>4. NoOp \in Op
  BY <1>1 DEF NoOp, Op, Names, Pins
<1>5. NoSecret \in Session
  BY DEF NoSecret, Session
<1>6. result \in [Clients -> Outcomes]
  BY OutcomeTypes
<1>7. ClientOK
  <2>1. plan \in Plan
    BY ClientAssumption
  <2>2. QED
    BY <1>4, <1>5, <1>6, <2>1 DEF ClientOK, Outcomes
<1>8. AuthenticatorOK
  <2>1. Cardinality(pending) <= 1
    BY OnePending
  <2>2. QED
    BY <1>1, <2>1, Ctap2DeviceAssumption DEF AuthenticatorOK
<1>9. QED
  BY <1>2, <1>3, <1>7, <1>8 DEF TypeOK

(* What a step does to a client. *)

\* Nothing: the steps of other clients, and the authenticator's for them.
Same(c) ==
  /\ line'[c] = line[c] /\ inbox'[c] = inbox[c] /\ opened'[c] = opened[c]
  /\ begun'[c] = begun[c] /\ sent'[c] = sent[c] /\ op'[c] = op[c] /\ want'[c] = want[c]
  /\ session'[c] = session[c] /\ kept'[c] = kept[c] /\ held'[c] = held[c]
  /\ cache'[c] = cache[c] /\ walk'[c] = walk[c] /\ result'[c] = result[c]
  /\ trusted'[c] = trusted[c]

\* What c has heard: nothing, a reply, that there is none, or a new channel.
Hears(c) ==
  \/ want[c] = "none" /\ inbox'[c] = inbox[c] /\ opened'[c] = opened[c] /\ (trusted'[c] => trusted[c])
  \/ want[c] # "none" /\ Take(c) /\ opened'[c] = opened[c] /\ (trusted'[c] => trusted[c])
  \/ want[c] # "none" /\ inbox'[c] = inbox[c] /\ opened'[c] = opened[c] /\ ~trusted'[c]
  \/ want[c] = "none" /\ inbox'[c] = << >> /\ opened'[c] = sent[c]

\* It is between operations after the step.
Rests(c) ==
  /\ Hears(c)
  /\ want'[c] = "none" /\ line'[c] = line[c] /\ sent'[c] = sent[c]
  /\ \/ begun'[c] = begun[c]
     \/ begun'[c] = begun[c] + 1 /\ want[c] = "none"
  /\ \/ kept'[c] = kept[c]
     \/ kept'[c] = {NewSession(c)} /\ Take(c)
  /\ \/ held'[c] = held[c]
     \/ held'[c] = Hold(c, Auth(c)) /\ want[c] = "token" /\ Receives(c, "token")

\* It has sent r: the first request of an operation, or the next.
Asks(c, r) ==
  /\ Hears(c)
  /\ Belongs(c, op'[c], begun'[c], r)
  /\ line'[c] = Append(line[c], r) /\ want'[c] = r.kind /\ sent'[c] = sent[c] + 1
  /\ kept'[c] = kept[c] /\ held'[c] = held[c] /\ result'[c] = NoResult
  /\ \/ want[c] = "none" /\ begun'[c] = begun[c] + 1
     \/ /\ Take(c) /\ begun'[c] = begun[c] /\ op'[c] = op[c]
        /\ \/ want[c] = "agree" /\ r.kind \in {"token", "assert"}
           \/ want[c] = "token" /\ r.kind \in {"make", "assert"}

LEMMA BeginSame ==
  ASSUME NEW c, NEW o, Begin(c, o), NEW d, d # c
  PROVE  begun'[d] = begun[d] /\ op'[d] = op[d]
BY DEF Begin

LEMMA GoingKinds ==
  ASSUME NEW c, NEW r, Going(c, r)
  PROVE  \/ want[c] = "agree" /\ r.kind \in {"token", "assert"}
         \/ want[c] = "token" /\ r.kind \in {"make", "assert"}
<1>1. ASSUME NEW s, r = TokenRequest(c, op[c], begun[c], s)
      PROVE  r.kind = "token"
  BY <1>1 DEF TokenRequest, Param, Bare
<1>2. ASSUME NEW auth, r = MakeRequest(c, op[c], begun[c], auth)
      PROVE  r.kind = "make"
  BY <1>2 DEF MakeRequest, Param, Bare
<1>3. ASSUME NEW auth, NEW box, NEW plat,
             r = AssertionRequest(c, op[c], begun[c], auth, box, plat)
      PROVE  r.kind = "assert"
  BY <1>3 DEF AssertionRequest, Param, Bare
<1>4. QED
  BY <1>1, <1>2, <1>3 DEF Going

LEMMA OthersSame ==
  ASSUME LinkOK, MemoryOK, ClientOK, NEW c \in Clients, ClientStep(c), NEW d \in Clients, d # c
  PROVE  Same(d)
<1>. USE DEF LinkOK, MemoryOK, ClientOK
<1>1. ASSUME NEW r, Ask(c, r)
      PROVE  line'[d] = line[d] /\ sent'[d] = sent[d] /\ want'[d] = want[d]
  BY <1>1 DEF Ask
<1>2. ASSUME NEW use, Attach(c, use)
      PROVE  /\ inbox'[d] = inbox[d] /\ opened'[d] = opened[d] /\ trusted'[d] = trusted[d]
             /\ cache'[d] = cache[d] /\ walk'[d] = walk[d] /\ kept' = kept /\ held' = held
  BY <1>2 DEF Attach
<1>3. ASSUME Detach(c)
      PROVE  UNCHANGED <<line, inbox, opened, kept, held, cache, walk, trusted>>
  BY <1>3 DEF Detach, link, memory
<1>4. CASE Resume(c)
  <2>1. CASE Ends(c)
    <3>1. PICK outcome \in Outcomes : Finish(c, outcome)
      BY <2>1 DEF Ends
    <3>2. /\ UNCHANGED <<line, opened, begun, sent, op>>
          /\ want'[d] = want[d] /\ result'[d] = result[d]
      BY <3>1 DEF Finish
    <3>3. inbox'[d] = inbox[d] /\ trusted'[d] = trusted[d]
      BY <2>1 DEF Ends, Take
    <3>4. /\ session'[d] = session[d] /\ kept'[d] = kept[d] /\ held'[d] = held[d]
          /\ cache'[d] = cache[d] /\ walk'[d] = walk[d]
      BY <2>1 DEF Ends, memory, Walked
    <3>5. QED
      BY <3>2, <3>3, <3>4 DEF Same
  <2>2. ASSUME Take(c), NEW r, Continue(c, r), Going(c, r)
        PROVE  Same(d)
    <3>1. line'[d] = line[d] /\ sent'[d] = sent[d] /\ want'[d] = want[d]
      BY <1>1, <2>2 DEF Continue
    <3>2. UNCHANGED <<opened, begun, op, result, kept, held, cache, walk, trusted>>
      BY <2>2 DEF Continue, memory
    <3>3. inbox'[d] = inbox[d] /\ session'[d] = session[d]
      BY <2>2 DEF Take, Going
    <3>4. QED
      BY <3>1, <3>2, <3>3 DEF Same
  <2>3. QED
    BY <1>4, <2>1, <2>2, ResumeCases
<1>5. CASE Invoke(c)
  <2>1. PICK o \in Op :
           \/ \E r : Start(c, o, r) /\ Opening(c, o, r)
           \/ Immediately(c, o, Done) /\ o.name = "info"
           \/ Immediately(c, o, Error("malformed"))
    BY <1>5, InvokeCases
  <2>2. ASSUME NEW r, Start(c, o, r), Opening(c, o, r)
        PROVE  Same(d)
    <3>1. line'[d] = line[d] /\ sent'[d] = sent[d] /\ want'[d] = want[d]
      BY <1>1, <2>2 DEF Start
    <3>2. UNCHANGED <<inbox, opened, kept, held, cache, walk>>
      BY <2>2 DEF Start, memory
    <3>3. begun'[d] = begun[d] /\ op'[d] = op[d]
      BY <2>2, BeginSame DEF Start
    <3>4. result'[d] = result[d] /\ trusted'[d] = trusted[d]
      BY <2>2 DEF Start
    <3>5. session'[d] = session[d]
      BY <2>2 DEF Opening
    <3>6. QED
      BY <3>1, <3>2, <3>3, <3>4, <3>5 DEF Same
  <2>3. ASSUME NEW outcome, Immediately(c, o, outcome)
        PROVE  Same(d)
    <3>1. /\ UNCHANGED <<line, inbox, opened, sent, want, session, kept, held, cache, walk, trusted>>
          /\ begun'[d] = begun[d] /\ op'[d] = op[d] /\ result'[d] = result[d]
      BY <2>3, BeginSame DEF Immediately, link, memory
    <3>2. QED
      BY <3>1 DEF Same
  <2>4. QED
    BY <2>1, <2>2, <2>3
<1>6. CASE Open(c)
  <2>1. /\ UNCHANGED <<begun, sent, op, want, session>>
        /\ \/ Attach(c, "open") /\ UNCHANGED line
           \/ Detach(c)
        /\ result'[d] = result[d]
    BY <1>6 DEF Open
  <2>2. QED
    BY <1>2, <1>3, <2>1 DEF Same
<1>7. ASSUME NEW o \in plan.ops, List(c, o)
      PROVE  Same(d)
  <2>1. /\ begun'[d] = begun[d] /\ op'[d] = op[d] /\ session' = session
        /\ \/ Attach(c, "probe") /\ Ask(c, Param(c, o, This(c), "info"))
           \/ Detach(c) /\ UNCHANGED <<sent, want>>
        /\ result'[d] = result[d]
    BY <1>7, BeginSame DEF List
  <2>2. QED
    BY <1>1, <1>2, <1>3, <2>1 DEF Same
<1>8. QED
  BY <1>4, <1>5, <1>6, <1>7 DEF ClientStep

LEMMA OwnStep ==
  ASSUME LinkOK, MemoryOK, ClientOK, OperationInv, NumberInv, NEW c \in Clients, ClientStep(c)
  PROVE  Rests(c) \/ \E r : Asks(c, r)
<1>. USE DEF LinkOK, MemoryOK, ClientOK
<1>1. ASSUME NEW r, Ask(c, r)
      PROVE  /\ line'[c] = Append(line[c], r) /\ sent'[c] = sent[c] + 1 /\ want'[c] = r.kind
  BY <1>1 DEF Ask
<1>2. ASSUME NEW use, Attach(c, use), want[c] = "none"
      PROVE  Hears(c) /\ kept' = kept /\ held' = held
  BY <1>2 DEF Attach, Hears
<1>3. ASSUME Detach(c), want[c] = "none"
      PROVE  Hears(c) /\ UNCHANGED <<line, kept, held>>
  BY <1>3 DEF Detach, Hears, link, memory
<1>4. ASSUME NEW o, Begin(c, o)
      PROVE  want[c] = "none" /\ begun'[c] = begun[c] + 1 /\ op'[c] = o /\ begun'[c] = This(c)
  BY <1>4 DEF Begin, This
<1>5. CASE Resume(c)
  <2>1. CASE Ends(c)
    <3>1. PICK outcome \in Outcomes : Finish(c, outcome)
      BY <2>1 DEF Ends
    <3>2. /\ UNCHANGED <<line, opened, begun, sent>> /\ want'[c] = "none"
      BY <3>1 DEF Finish
    <3>3. Hears(c)
      <4>1. CASE Take(c) /\ (trusted' = trusted \/ trusted' = [trusted EXCEPT ![c] = FALSE])
        BY <4>1, <3>2 DEF Hears, Take
      <4>2. CASE UNCHANGED inbox /\ trusted' = [trusted EXCEPT ![c] = FALSE]
        BY <4>2, <2>1, <3>2 DEF Hears, Ends
      <4>3. QED
        BY <2>1, <4>1, <4>2 DEF Ends
    <3>4. /\ \/ kept'[c] = kept[c]
             \/ kept'[c] = {NewSession(c)} /\ Take(c)
          /\ \/ held'[c] = held[c]
             \/ held'[c] = Hold(c, Auth(c)) /\ want[c] = "token" /\ Receives(c, "token")
      BY <2>1 DEF Ends, memory
    <3>5. Rests(c)
      BY <3>2, <3>3, <3>4 DEF Rests
    <3>6. QED
      BY <3>5
  <2>2. ASSUME Take(c), NEW r, Continue(c, r), Going(c, r)
        PROVE  Asks(c, r)
    <3>1. line'[c] = Append(line[c], r) /\ sent'[c] = sent[c] + 1 /\ want'[c] = r.kind
      BY <1>1, <2>2 DEF Continue
    <3>2. UNCHANGED <<opened, begun, op, result, kept, held, trusted>>
      BY <2>2 DEF Continue, memory
    <3>3. Hears(c) /\ want[c] # "none" /\ result[c] = NoResult
      BY <2>2, <3>2 DEF Hears, Take, OperationInv, OperationOf
    <3>4. Belongs(c, op'[c], begun'[c], r)
      BY <2>2, <3>2, GoingBelongs
    <3>5. \/ want[c] = "agree" /\ r.kind \in {"token", "assert"}
          \/ want[c] = "token" /\ r.kind \in {"make", "assert"}
      BY <2>2, GoingKinds
    <3>6. QED
      BY <2>2, <3>1, <3>2, <3>3, <3>4, <3>5 DEF Asks
  <2>3. QED
    BY <1>5, <2>1, <2>2, ResumeCases
<1>6. CASE Invoke(c)
  <2>1. PICK o \in Op :
           \/ \E r : Start(c, o, r) /\ Opening(c, o, r)
           \/ Immediately(c, o, Done) /\ o.name = "info"
           \/ Immediately(c, o, Error("malformed"))
    BY <1>6, InvokeCases
  <2>2. ASSUME NEW r, Start(c, o, r), Opening(c, o, r)
        PROVE  Rests(c) \/ Asks(c, r)
    <3>1. /\ UNCHANGED <<inbox, opened, kept, held>>
          /\ want[c] = "none" /\ begun'[c] = begun[c] + 1 /\ op'[c] = o /\ begun'[c] = This(c)
      BY <1>4, <2>2 DEF Start, memory
    <3>2. CASE Ask(c, r) /\ result' = [result EXCEPT ![c] = NoResult] /\ UNCHANGED trusted
      <4>1. Belongs(c, op'[c], begun'[c], r)
        <5>1. Belongs(c, o, This(c), r)
          BY <2>2, OpeningBelongs
        <5>2. QED
          BY <3>1, <5>1
      <4>2. Asks(c, r)
        BY <1>1, <3>1, <3>2, <4>1 DEF Asks, Hears
      <4>3. QED
        BY <4>2
    <3>3. CASE trusted' = [trusted EXCEPT ![c] = FALSE] /\ UNCHANGED <<line, sent, want>>
      BY <3>1, <3>3 DEF Rests, Hears
    <3>4. QED
      BY <2>2, <3>2, <3>3 DEF Start
  <2>3. ASSUME NEW outcome, Immediately(c, o, outcome)
        PROVE  Rests(c)
    <3>1. /\ UNCHANGED <<line, inbox, opened, sent, want, kept, held, trusted>>
          /\ want[c] = "none" /\ begun'[c] = begun[c] + 1
      BY <1>4, <2>3 DEF Immediately, link, memory
    <3>2. QED
      BY <3>1 DEF Rests, Hears
  <2>4. QED
    BY <2>1, <2>2, <2>3
<1>7. CASE Open(c)
  <2>1. /\ UNCHANGED <<begun, sent, want>> /\ want[c] = "none"
        /\ \/ Attach(c, "open") /\ UNCHANGED line
           \/ Detach(c)
    BY <1>7 DEF Open
  <2>2. QED
    BY <1>2, <1>3, <2>1 DEF Rests
<1>8. ASSUME NEW o \in plan.ops, List(c, o)
      PROVE  Rests(c) \/ \E r : Asks(c, r)
  <2>1. /\ want[c] = "none" /\ begun'[c] = begun[c] + 1 /\ op'[c] = o /\ begun'[c] = This(c)
        /\ session' = session /\ o.name = "list" /\ o \in Op
    BY <1>4, <1>8 DEF List, Plan
  <2>2. CASE Detach(c) /\ UNCHANGED <<sent, want>>
    BY <1>3, <2>1, <2>2 DEF Rests
  <2>3. CASE /\ Attach(c, "probe") /\ Ask(c, Param(c, o, This(c), "info"))
             /\ result' = [result EXCEPT ![c] = NoResult]
    <3>. DEFINE r == Param(c, o, This(c), "info")
    <3>1. Opening(c, o, r)
      BY <2>1 DEF Opening, WaitsFor
    <3>. HIDE DEF r
    <3>2. Belongs(c, op'[c], begun'[c], r)
      <4>1. Belongs(c, o, This(c), r)
        BY <2>1, <3>1, OpeningBelongs
      <4>2. QED
        BY <2>1, <4>1
    <3>3. Asks(c, r)
      BY <1>1, <1>2, <2>1, <2>3, <3>2 DEF Asks, r
    <3>4. QED
      BY <3>3
  <2>4. QED
    BY <1>8, <2>2, <2>3 DEF List
<1>9. QED
  BY <1>5, <1>6, <1>7, <1>8 DEF ClientStep

\* The authenticator takes its i-th request, and replies p.
Answered(c, i, p) ==
  /\ Serves(c, i, p)
  /\ begun'[c] = begun[c] /\ sent'[c] = sent[c] /\ op'[c] = op[c] /\ want'[c] = want[c]
  /\ session'[c] = session[c] /\ kept'[c] = kept[c] /\ held'[c] = held[c]
  /\ cache'[c] = cache[c] /\ walk'[c] = walk[c] /\ result'[c] = result[c]
  /\ trusted'[c] = trusted[c]

\* A power cycle: nothing is on its way any more.
Emptied(c) ==
  /\ line'[c] = << >> /\ inbox'[c] = << >> /\ opened'[c] = opened[c]
  /\ begun'[c] = begun[c] /\ sent'[c] = sent[c] /\ op'[c] = op[c] /\ want'[c] = want[c]
  /\ session'[c] = session[c] /\ kept'[c] = kept[c] /\ held'[c] = held[c]
  /\ cache'[c] = cache[c] /\ walk'[c] = walk[c] /\ result'[c] = result[c]
  /\ trusted'[c] = trusted[c]

\* The attempts counted and the requests carried out, as others see them.
Elsewhere(c) ==
  /\ done \subseteq done'
  /\ \/ misses' = misses
     \/ \E d \in Clients \ {c} : \E i \in DOMAIN line[d] :
          line[d][i].kind = "token" /\ misses' = Append(misses, line[d][i].hash)

LEMMA StepShapes ==
  ASSUME TypeOK, OperationInv, NumberInv, [Next]_vars, NEW c \in Clients
  PROVE  \/ Same(c) /\ Elsewhere(c)
         \/ Rests(c) /\ ClientStep(c) /\ UNCHANGED authenticator
         \/ (\E r : Asks(c, r)) /\ ClientStep(c) /\ UNCHANGED authenticator
         \/ \E i, p : Answered(c, i, p)
         \/ Emptied(c) /\ UNCHANGED <<misses, done>>
<1>. LinkOK /\ MemoryOK /\ ClientOK /\ AuthenticatorOK
  BY DEF TypeOK
<1>1. CASE UNCHANGED vars
  <2>1. UNCHANGED <<line, inbox, opened, begun, sent, op, want, session, kept, held, cache, walk,
                    result, trusted, misses, done>>
    BY <1>1 DEF vars, link, client, authenticator, memory
  <2>2. QED
    BY <2>1 DEF Same, Elsewhere
<1>2. CASE Unplug
  <2>1. line'[c] = << >> /\ inbox'[c] = << >> /\ UNCHANGED <<opened, misses, done>>
    BY <1>2 DEF Unplug, PowerCycle
  <2>2. UNCHANGED <<begun, sent, op, want, session, kept, held, cache, walk, result, trusted>>
    BY <1>2 DEF Unplug, memory
  <2>3. QED
    BY <2>1, <2>2 DEF Emptied
<1>3. ASSUME NEW d \in Clients, ClientNext(d)
      PROVE  \/ Same(c) /\ Elsewhere(c)
             \/ Rests(c) /\ ClientStep(c) /\ UNCHANGED authenticator
             \/ (\E r : Asks(c, r)) /\ ClientStep(c) /\ UNCHANGED authenticator
  <2>1. ClientStep(d) /\ UNCHANGED authenticator /\ UNCHANGED <<misses, done>>
    BY <1>3 DEF ClientNext, authenticator
  <2>2. CASE d = c
    BY <2>1, <2>2, OwnStep
  <2>3. CASE d # c
    BY <2>1, <2>3, OthersSame DEF Elsewhere
  <2>4. QED
    BY <2>2, <2>3
<1>4. ASSUME NEW d \in Clients, DeviceNext(d)
      PROVE  (Same(c) /\ Elsewhere(c)) \/ \E i, p : Answered(c, i, p)
  <2>1. PICK i, p : Serves(d, i, p)
    BY <1>4, ServeShape DEF DeviceNext
  <2>2. UNCHANGED <<begun, sent, op, want, session, kept, held, cache, walk, result, trusted>>
    BY <1>4 DEF DeviceNext, client, memory
  <2>3. CASE d = c
    BY <2>1, <2>2, <2>3 DEF Answered
  <2>4. CASE d # c
    <3>1. line'[c] = line[c] /\ inbox'[c] = inbox[c] /\ opened'[c] = opened[c]
      BY <2>1, <2>4 DEF Serves, LinkOK
    <3>2. Elsewhere(c)
      BY <2>1, <2>4 DEF Serves, Elsewhere
    <3>3. QED
      BY <2>2, <3>1, <3>2 DEF Same
  <2>5. QED
    BY <2>3, <2>4
<1>5. QED
  BY <1>1, <1>2, <1>3, <1>4 DEF Next

(* What is in the queues of a client after a step. *)

LEMMA AfterAppend ==
  ASSUME NEW S, NEW s \in Seq(S), NEW x \in S, NEW i \in DOMAIN Append(s, x)
  PROVE  \/ i \in DOMAIN s /\ Append(s, x)[i] = s[i]
         \/ i = Len(s) + 1 /\ i \notin DOMAIN s /\ Append(s, x)[i] = x
<1>1. /\ Append(s, x) \in Seq(S) /\ Len(Append(s, x)) = Len(s) + 1
      /\ \A j \in 1..Len(s) : Append(s, x)[j] = s[j]
      /\ Append(s, x)[Len(s) + 1] = x
  BY AppendProperties
<1>2. DOMAIN s = 1..Len(s) /\ Len(s) \in Nat /\ DOMAIN Append(s, x) = 1..(Len(s) + 1)
  BY <1>1, LenProperties
<1>3. QED
  BY <1>1, <1>2

\* What is heard was there.
LEMMA HeardBefore ==
  ASSUME LinkOK, NEW c \in Clients, Hears(c), NEW i \in DOMAIN inbox'[c]
  PROVE  \E j \in DOMAIN inbox[c] : inbox'[c][i] = inbox[c][j]
<1>1. inbox[c] \in Seq(Replies)
  BY DEF LinkOK
<1>2. CASE Take(c)
  <2>1. inbox'[c] = Without(inbox[c], 1)
    BY <1>2, GotReply DEF Take, LinkOK
  <2>2. 1 \in DOMAIN inbox[c]
    BY <1>2, GotReply
  <2>3. Was(1, i) \in DOMAIN inbox[c] /\ inbox'[c][i] = inbox[c][Was(1, i)]
    BY <1>1, <2>1, <2>2, WithoutProperties
  <2>4. QED
    BY <2>3
<1>3. CASE inbox'[c] = inbox[c]
  BY <1>3
<1>4. CASE inbox'[c] = << >>
  <2>1. DOMAIN inbox'[c] = {}
    BY <1>4, EmptySeq, LenProperties
  <2>2. QED
    BY <2>1
<1>5. QED
  BY <1>2, <1>3, <1>4 DEF Hears

LEMMA AskedBefore ==
  ASSUME LinkOK, NEW c \in Clients, NEW r, Asks(c, r), NEW i \in DOMAIN line'[c]
  PROVE  \/ i \in DOMAIN line[c] /\ line'[c][i] = line[c][i]
         \/ i = Len(line[c]) + 1 /\ i \notin DOMAIN line[c] /\ line'[c][i] = r
BY AfterAppend DEF Asks, Belongs, LinkOK

LEMMA AnsweredBefore ==
  ASSUME LinkOK, NEW c \in Clients, NEW k, NEW p, Answered(c, k, p)
  PROVE  /\ k \in DOMAIN line[c] /\ line[c][k] \in Request
         /\ \A i \in DOMAIN line'[c] :
              Was(k, i) \in DOMAIN line[c] \ {k} /\ line'[c][i] = line[c][Was(k, i)]
         /\ \A i \in DOMAIN inbox'[c] :
              \/ i \in DOMAIN inbox[c] /\ inbox'[c][i] = inbox[c][i]
              \/ i = Len(inbox[c]) + 1 /\ inbox'[c][i] = p /\ ~Orphan(c, line[c][k])
<1>1. line[c] \in Seq(Request) /\ inbox[c] \in Seq(Replies) /\ p \in Replies /\ k \in DOMAIN line[c]
  BY DEF Answered, Serves, LinkOK
<1>2. line[c][k] \in Request
  BY <1>1, ElementOfSeq, LenProperties
<1>3. line'[c] = Without(line[c], k)
  BY DEF Answered, Serves, LinkOK
<1>4. \/ inbox'[c] = inbox[c]
      \/ ~Orphan(c, line[c][k]) /\ inbox'[c] = Append(inbox[c], p)
  BY DEF Answered, Serves, LinkOK
<1>5. \A i \in DOMAIN line'[c] :
        Was(k, i) \in DOMAIN line[c] \ {k} /\ line'[c][i] = line[c][Was(k, i)]
  BY <1>1, <1>3, WithoutProperties
<1>6. ASSUME NEW i \in DOMAIN inbox'[c]
      PROVE  \/ i \in DOMAIN inbox[c] /\ inbox'[c][i] = inbox[c][i]
             \/ i = Len(inbox[c]) + 1 /\ inbox'[c][i] = p /\ ~Orphan(c, line[c][k])
  BY <1>1, <1>4, AfterAppend
<1>7. QED
  BY <1>1, <1>2, <1>5, <1>6

LEMMA NothingAfterEmptied ==
  ASSUME NEW c, Emptied(c)
  PROVE  DOMAIN line'[c] = {} /\ DOMAIN inbox'[c] = {} /\ Len(inbox'[c]) = 0
BY EmptySeq, LenProperties DEF Emptied

(* Types, operations and numbers. *)

BaseInv == TypeOK /\ OperationInv /\ NumberInv

LEMMA TypeStep == BaseInv /\ [Next]_vars => TypeOK'
<1>. SUFFICES ASSUME BaseInv, [Next]_vars PROVE TypeOK'
  OBVIOUS
<1>. LinkOK /\ MemoryOK /\ ClientOK /\ AuthenticatorOK /\ OperationInv /\ NumberInv
  BY DEF BaseInv, TypeOK
<1>1. CASE UNCHANGED vars
  BY <1>1 DEF vars, link, client, memory, authenticator, TypeOK, LinkOK, MemoryOK, ClientOK,
              AuthenticatorOK
<1>2. CASE Unplug
  BY <1>2, UnplugTypes
<1>3. ASSUME NEW c \in Clients, ClientNext(c)
      PROVE  TypeOK'
  <2>1. LinkOK' /\ MemoryOK' /\ ClientOK'
    BY <1>3, ClientTypes DEF ClientNext
  <2>2. AuthenticatorOK'
    BY <1>3 DEF ClientNext, authenticator, AuthenticatorOK
  <2>3. QED
    BY <2>1, <2>2 DEF TypeOK
<1>4. ASSUME NEW c \in Clients, DeviceNext(c)
      PROVE  TypeOK'
  <2>1. AuthenticatorOK'
    BY <1>4, ServeAuthenticator DEF DeviceNext
  <2>2. LinkOK'
    BY <1>4, ServeShape, ServesLink DEF DeviceNext
  <2>3. MemoryOK' /\ ClientOK'
    BY <1>4 DEF DeviceNext, client, memory, MemoryOK, ClientOK
  <2>4. QED
    BY <2>1, <2>2, <2>3 DEF TypeOK
<1>5. QED
  BY <1>1, <1>2, <1>3, <1>4 DEF Next

LEMMA CallPlat ==
  ASSUME NEW s \in Secret
  PROVE  s.plat # NoKey
<1>1. PICK c \in Clients, n \in Nat : s.plat = <<c, n>>
  BY DEF Secret, Call
<1>2. QED
  BY <1>1 DEF NoKey

LEMMA OperationStep == BaseInv /\ [Next]_vars => OperationInv'
<1>. SUFFICES ASSUME BaseInv, [Next]_vars, NEW c \in Clients PROVE OperationOf(c)'
  BY DEF OperationInv
<1>. TypeOK /\ OperationInv /\ NumberInv /\ OperationOf(c)
  BY DEF BaseInv, OperationInv
<1>1. CASE Same(c)
  BY <1>1 DEF Same, OperationOf
<1>2. CASE Rests(c)
  BY <1>2 DEF Rests, OperationOf
<1>3. ASSUME NEW r, Asks(c, r)
      PROVE  OperationOf(c)'
  <2>1. /\ result'[c] = NoResult /\ want'[c] = r.kind /\ sent'[c] = sent[c] + 1
        /\ WaitsFor(op'[c], r.kind)
        /\ r.kind = "token" =>
             session'[c] \in Secret /\ (op'[c].name # "token" => session'[c].plat[2] = sent[c])
    BY <1>3 DEF Asks, Belongs
  <2>2. QED
    BY <2>1, CallPlat DEF OperationOf
<1>4. ASSUME NEW i, NEW p, Answered(c, i, p)
      PROVE  OperationOf(c)'
  BY <1>4 DEF Answered, OperationOf
<1>5. CASE Emptied(c)
  BY <1>5 DEF Emptied, OperationOf
<1>6. QED
  BY <1>1, <1>2, <1>3, <1>4, <1>5, StepShapes

LEMMA NumberStep == BaseInv /\ [Next]_vars => NumberInv'
<1>. SUFFICES ASSUME BaseInv, [Next]_vars, NEW c \in Clients PROVE NumbersOf(c)'
  BY DEF NumberInv
<1>. TypeOK /\ OperationInv /\ NumberInv /\ NumbersOf(c) /\ LinkOK /\ ClientOK
  BY DEF BaseInv, NumberInv, TypeOK
<1>. sent[c] \in Nat /\ opened[c] \in Nat /\ begun[c] \in Nat
  BY DEF LinkOK, ClientOK
<1>. /\ line[c] \in Seq(Request) /\ \A i \in DOMAIN line[c] : line[c][i] \in Request
     /\ \A i \in DOMAIN inbox[c] : inbox[c][i] \in Replies
  BY ElementOfSeq, LenProperties DEF LinkOK
<1>. /\ \A i \in DOMAIN line[c] : line[c][i].from[2] \in Nat /\ line[c][i].hash[2] \in Nat
     /\ \A i \in DOMAIN inbox[c] : inbox[c][i].of[2] \in Nat /\ inbox[c][i].hash[2] \in Nat
  BY RequestFields, ReplyFields DEF Call
<1>1. CASE Same(c)
  BY <1>1 DEF Same, NumbersOf
<1>. DEFINE Later == sent'[c] \in Nat /\ begun'[c] \in Nat
                     /\ sent[c] <= sent'[c] /\ begun[c] <= begun'[c]
\* Replies are heard as they were.
<1>2. ASSUME Hears(c), Later
      PROVE  /\ opened'[c] <= sent'[c]
             /\ \A i \in DOMAIN inbox'[c] :
                  /\ inbox'[c][i].of[1] = c /\ inbox'[c][i].of[2] <= sent'[c]
                  /\ inbox'[c][i].kind # "next" =>
                       inbox'[c][i].hash[1] = c /\ inbox'[c][i].hash[2] <= begun'[c]
  <2>1. opened'[c] <= sent'[c]
    BY <1>2 DEF Hears, NumbersOf
  <2>2. ASSUME NEW i \in DOMAIN inbox'[c]
        PROVE  /\ inbox'[c][i].of[1] = c /\ inbox'[c][i].of[2] <= sent'[c]
               /\ inbox'[c][i].kind # "next" =>
                    inbox'[c][i].hash[1] = c /\ inbox'[c][i].hash[2] <= begun'[c]
    <3>1. PICK j \in DOMAIN inbox[c] : inbox'[c][i] = inbox[c][j]
      BY <1>2, HeardBefore
    <3>2. QED
      BY <1>2, <3>1 DEF NumbersOf
  <2>3. QED
    BY <2>1, <2>2
<1>3. CASE Rests(c)
  <2>1. Later /\ Hears(c) /\ line'[c] = line[c] /\ sent'[c] = sent[c]
    BY <1>3 DEF Rests
  <2>2. \A s \in kept'[c] : s.plat # NoKey /\ s.plat[2] <= sent'[c]
    <3>1. CASE kept'[c] = kept[c]
      BY <2>1, <3>1 DEF NumbersOf
    <3>2. CASE kept'[c] = {NewSession(c)} /\ Take(c)
      BY <2>1, <3>2, NewSessionType
    <3>3. QED
      BY <1>3, <3>1, <3>2 DEF Rests
  <2>3. \A i \in DOMAIN line'[c] :
          /\ line'[c][i].from[1] = c /\ line'[c][i].from[2] <= sent'[c]
          /\ line'[c][i].hash[1] = c /\ line'[c][i].hash[2] <= begun'[c]
    BY <2>1 DEF NumbersOf
  <2>4. \A i, j \in DOMAIN line'[c] : i < j => line'[c][i].from[2] < line'[c][j].from[2]
    BY <2>1 DEF NumbersOf
  <2>5. QED
    BY <1>2, <2>1, <2>2, <2>3, <2>4 DEF NumbersOf
<1>4. ASSUME NEW r, Asks(c, r)
      PROVE  NumbersOf(c)'
  <2>1. /\ Later /\ Hears(c) /\ sent'[c] = sent[c] + 1 /\ kept'[c] = kept[c]
        /\ r.from = <<c, sent[c] + 1>> /\ r.hash = <<c, begun'[c]>>
    BY <1>4 DEF Asks, Belongs, NextCall
  <2>2. \A s \in kept'[c] : s.plat # NoKey /\ s.plat[2] <= sent'[c]
    <3>1. ASSUME NEW s \in kept[c]
          PROVE  s.plat[2] \in Nat
      BY SecretSession DEF NumbersOf, TypeOK, MemoryOK, Secret, Call
    <3>2. QED
      BY <2>1, <3>1 DEF NumbersOf
  <2>3. ASSUME NEW i \in DOMAIN line'[c]
        PROVE  /\ line'[c][i].from[1] = c /\ line'[c][i].from[2] <= sent'[c]
               /\ line'[c][i].hash[1] = c /\ line'[c][i].hash[2] <= begun'[c]
    <3>1. CASE i \in DOMAIN line[c] /\ line'[c][i] = line[c][i]
      BY <2>1, <3>1 DEF NumbersOf
    <3>2. CASE line'[c][i] = r
      BY <2>1, <3>2
    <3>3. QED
      BY <1>4, <3>1, <3>2, AskedBefore
  <2>4. ASSUME NEW i \in DOMAIN line'[c], NEW j \in DOMAIN line'[c], i < j
        PROVE  line'[c][i].from[2] < line'[c][j].from[2]
    <3>1. DOMAIN line[c] = 1..Len(line[c]) /\ Len(line[c]) \in Nat
      BY LenProperties
    <3>2. i \in DOMAIN line[c] /\ line'[c][i] = line[c][i]
      <4>1. i # Len(line[c]) + 1
        BY <1>4, <2>4, <3>1, AskedBefore
      <4>2. QED
        BY <1>4, <4>1, AskedBefore
    <3>3. line[c][i].from[2] <= sent[c] /\ line[c][i].from[2] \in Nat
      BY <3>2 DEF NumbersOf
    <3>4. CASE j \in DOMAIN line[c] /\ line'[c][j] = line[c][j]
      BY <2>4, <3>2, <3>4 DEF NumbersOf
    <3>5. CASE line'[c][j] = r
      BY <2>1, <3>2, <3>3, <3>5
    <3>6. QED
      BY <1>4, <3>4, <3>5, AskedBefore
  <2>5. QED
    BY <1>2, <2>1, <2>2, <2>3, <2>4 DEF NumbersOf
<1>5. ASSUME NEW k, NEW p, Answered(c, k, p)
      PROVE  NumbersOf(c)'
  <2>1. /\ sent'[c] = sent[c] /\ begun'[c] = begun[c] /\ kept'[c] = kept[c] /\ opened'[c] = opened[c]
        /\ k \in DOMAIN line[c] /\ p.of = line[c][k].from
        /\ p.kind # "next" => p.hash = line[c][k].hash
    BY <1>5 DEF Answered, Serves, Answers
  <2>2. ASSUME NEW i \in DOMAIN line'[c]
        PROVE  /\ line'[c][i].from[1] = c /\ line'[c][i].from[2] <= sent'[c]
               /\ line'[c][i].hash[1] = c /\ line'[c][i].hash[2] <= begun'[c]
    BY <1>5, <2>1, AnsweredBefore DEF NumbersOf
  <2>3. ASSUME NEW i \in DOMAIN line'[c], NEW j \in DOMAIN line'[c], i < j
        PROVE  line'[c][i].from[2] < line'[c][j].from[2]
    <3>1. i \in Nat /\ j \in Nat /\ k \in Nat
      <4>1. line'[c] \in Seq(Request)
        BY TypeStep DEF TypeOK, LinkOK
      <4>2. QED
        BY <2>1, <4>1, LenProperties
    <3>2. Was(k, i) < Was(k, j)
      BY <2>3, <3>1 DEF Was
    <3>3. QED
      BY <1>5, <3>2, AnsweredBefore DEF NumbersOf
  <2>4. ASSUME NEW i \in DOMAIN inbox'[c]
        PROVE  /\ inbox'[c][i].of[1] = c /\ inbox'[c][i].of[2] <= sent'[c]
               /\ inbox'[c][i].kind # "next" =>
                    inbox'[c][i].hash[1] = c /\ inbox'[c][i].hash[2] <= begun'[c]
    BY <1>5, <2>1, AnsweredBefore DEF NumbersOf
  <2>5. QED
    BY <2>1, <2>2, <2>3, <2>4 DEF NumbersOf
<1>6. CASE Emptied(c)
  BY <1>6, NothingAfterEmptied DEF NumbersOf, Emptied
<1>7. QED
  BY <1>1, <1>3, <1>4, <1>5, <1>6, StepShapes

LEMMA BaseInitially == Init => BaseInv
<1>. SUFFICES ASSUME Init PROVE BaseInv
  OBVIOUS
<1>1. TypeOK
  BY InitTypes
<1>2. OperationInv
  BY DEF Init, ClientInit, OperationInv, OperationOf
<1>3. NumberInv
  <2>1. DOMAIN << >> = {}
    OBVIOUS
  <2>2. ASSUME NEW c \in Clients
        PROVE  /\ DOMAIN line[c] = {} /\ DOMAIN inbox[c] = {} /\ kept[c] = {}
               /\ opened[c] = 0 /\ sent[c] = 0
    BY <2>1 DEF Init, ClientInit
  <2>3. SUFFICES ASSUME NEW c \in Clients
                 PROVE  NumbersOf(c)
    BY DEF NumberInv
  <2>4. opened[c] <= sent[c]
    BY <2>2
  <2>5. QED
    BY <2>2, <2>4 DEF NumbersOf
<1>4. QED
  BY <1>1, <1>2, <1>3 DEF BaseInv

LEMMA BaseInvariant == Spec => []BaseInv
<1>1. BaseInv /\ [Next]_vars => BaseInv'
  BY TypeStep, OperationStep, NumberStep DEF BaseInv
<1>2. QED
  BY <1>1, BaseInitially, PTL DEF Spec

\* Messages, memories and the authenticator's state keep their types, with any
\* number of clients: no arithmetic leaves its range, no attempt is counted below
\* none, and no secret is made of a key that was not exchanged.
THEOREM Ctap2TypeSafety == Spec => []TypeOK
<1>1. BaseInv => TypeOK
  BY DEF BaseInv
<1>2. QED
  BY <1>1, BaseInvariant, PTL
=============================================================================
