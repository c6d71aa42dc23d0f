------------------------------ MODULE Ctap2Inv ------------------------------
(***************************************************************************)
(* Why the invariants of Ctap2 hold: the inductive invariant its proofs    *)
(* use, in the parts they use it.                                          *)
(***************************************************************************)
EXTENDS Ctap2

-----------------------------------------------------------------------------
(* Operations. *)

\* An exchange an operation makes.
WaitsFor(o, kind) ==
  \/ kind = "info" /\ o.name \in {"info", "list"}
  \/ kind \in {"retries", "reset", "wink", "next"} /\ o.name = kind
  \/ kind = "agree" /\ o.name \in {"session", "secret"}
  \/ kind = "agree" /\ o.name \in {"assertion", "make"} /\ o.pin # "none"
  \/ kind = "token" /\ o.name \in {"token", "secret", "assertion", "make"} /\ o.pin # "none"
  \/ kind = "assert" /\ o.name \in {"probe", "with", "secret", "assertion"}
  \/ kind = "make" /\ o.name = "make"

\* While an operation runs it has returned nothing, and the session it asks for
\* a token with is that of the getKeyAgreement right before, or a kept one.
OperationOf(c) ==
  want[c] # "none" =>
    /\ result[c] = NoResult
    /\ WaitsFor(op[c], want[c])
    /\ want[c] = "token" =>
         /\ session[c].plat # NoKey
         /\ op[c].name # "token" => session[c].plat[2] + 1 = sent[c]

OperationInv == \A c \in Clients : OperationOf(c)

-----------------------------------------------------------------------------
(* Numbers. *)

\* Requests are of their client, in the order they were sent, replies are to
\* requests sent, and a kept session is of a getKeyAgreement sent.
NumbersOf(c) ==
  /\ opened[c] <= sent[c]
  /\ \A i \in DOMAIN line[c] :
       /\ line[c][i].from[1] = c /\ line[c][i].from[2] <= sent[c]
       /\ line[c][i].hash[1] = c /\ line[c][i].hash[2] <= begun[c]
  /\ \A i, j \in DOMAIN line[c] : i < j => line[c][i].from[2] < line[c][j].from[2]
  /\ \A i \in DOMAIN inbox[c] :
       /\ inbox[c][i].of[1] = c /\ inbox[c][i].of[2] <= sent[c]
       /\ inbox[c][i].kind # "next" => inbox[c][i].hash[1] = c /\ inbox[c][i].hash[2] <= begun[c]
  /\ \A s \in kept[c] : s.plat # NoKey /\ s.plat[2] <= sent[c]

NumberInv == \A c \in Clients : NumbersOf(c)

\* x, a request or the reply to it, is of the exchange c waits for.
Current(c, of, kind) == want[c] # "none" /\ of = <<c, sent[c]>> /\ kind = want[c]

\* On a channel no exchange of which has failed there is nothing but the one
\* exchange its client waits for.
ChannelOf(c) ==
  trusted[c] =>
    /\ Len(inbox[c]) <= 1
    /\ \A i \in DOMAIN inbox[c] : Current(c, inbox[c][i].of, inbox[c][i].kind)
    /\ \A i \in DOMAIN line[c] : ~Orphan(c, line[c][i]) =>
         Current(c, line[c][i].from, line[c][i].kind) /\ inbox[c] = << >>

TrustInv == \A c \in Clients : ChannelOf(c)

\* A reset that was answered with OK was carried out.
ResetsOf(c) ==
  \A i \in DOMAIN inbox[c] :
    inbox[c][i].kind = "reset" /\ inbox[c][i].status = "ok" =>
      \E d \in done : d.kind = "reset" /\ d.from = inbox[c][i].of

WipedInv == \A c \in Clients : ResetsOf(c)

\* A request that was carried out was sent, and is not carried out again.
ServedOf(c) ==
  \A d \in done : d.from[1] = c =>
    /\ d.from[2] <= sent[c]
    /\ \A i \in DOMAIN line[c] : line[c][i].from # d.from

ServedInv == \A c \in Clients : ServedOf(c)

-----------------------------------------------------------------------------
(* PINs and tokens. *)

\* The PIN sealed in a request is the one it names, under a session made before
\* the request, and that of the operation if the operation waits for it.
SealedPin(r) ==
  \E b \in r.pin :
    r.pin = {b} /\ b.plain = r.given /\ b.key.plat = r.plat /\ b.key.plat[2] < r.from[2]

PinRequest(c, r) ==
  /\ SealedPin(r)
  /\ want[c] = "token" /\ r.from[2] = sent[c] => r.given = op[c].pin

\* A token is sealed under the session of its request, and came for the right PIN.
SealedToken(p) ==
  \E b \in p.token : p.token = {b} /\ b.plain # 0 /\ b.key.plat[2] < p.of[2]

TokenReply(c, p) ==
  /\ SealedToken(p)
  /\ want[c] = "token" /\ p.of[2] = sent[c] => op[c].pin = "right"

Proven == {"right", "unsure"}

PinsOf(c) ==
  /\ \A i \in DOMAIN line[c] :
       /\ line[c][i].kind = "token" => PinRequest(c, line[c][i])
       /\ \A t \in line[c][i].auth : t # 0 => line[c][i].given \in Proven
       /\ line[c][i].kind = "reset" => line[c][i].auth = {}
  /\ \A i \in DOMAIN inbox[c] :
       IF inbox[c][i].kind = "token" /\ inbox[c][i].status = "ok"
       THEN TokenReply(c, inbox[c][i])
       ELSE inbox[c][i].token = {}
  /\ \A h \in held[c] : h.token # 0 => h.given \in Proven

PinInv == \A c \in Clients : PinsOf(c)

-----------------------------------------------------------------------------
(* PIN attempts. *)

IsMiss(hash) == \E i \in DOMAIN misses : misses[i] = hash

\* A PIN is tried by one request of its operation, and counted when it is gone.
AttemptsOf(c) ==
  /\ \A i \in DOMAIN line[c] : line[c][i].kind = "token" =>
       /\ ~IsMiss(line[c][i].hash)
       /\ \A j \in DOMAIN line[c] :
            line[c][j].kind = "token" /\ line[c][j].hash = line[c][i].hash => i = j
  /\ want[c] = "agree" =>
       /\ ~IsMiss(<<c, begun[c]>>)
       /\ \A i \in DOMAIN line[c] : line[c][i].kind = "token" => line[c][i].hash # <<c, begun[c]>>

AttemptInv ==
  /\ OneAttemptPerOperation
  /\ \A i \in DOMAIN misses : misses[i][1] \in Clients /\ misses[i][2] <= begun[misses[i][1]]
  /\ \A c \in Clients : AttemptsOf(c)

-----------------------------------------------------------------------------
(* Secrets. *)

\* The getAssertion of get_hmac_secret asks for what the operation was given.
SecretRequest(c, r) ==
  /\ r.allow = op[c].allow
  /\ r.auth # {} <=> op[c].pin # "none"
  /\ r.plat = session[c].plat
  /\ r.salt = {Box(session[c], op[c].salts)}

\* Outputs for the first n salts of o.
FirstOf(o, outputs) ==
  \E n \in 1..Len(o.salts) : outputs = [i \in 1..n |-> Wanted(o)[i]]

SecretOutput(c, b) == b.key = session[c] /\ FirstOf(op[c], b.plain)

SecretReply(c, p) == p.out = {} \/ \E b \in p.out : p.out = {b} /\ SecretOutput(c, b)

\* An operation sends one getAssertion, its last request.
SecretsOf(c) ==
  /\ \A i \in DOMAIN line[c] : line[c][i].kind = "assert" =>
       /\ line[c][i].hash = <<c, begun[c]>> =>
            line[c][i].from[2] = sent[c] /\ want[c] \in {"none", "assert"}
       /\ want[c] = "assert" /\ op[c].name = "secret" /\ line[c][i].from[2] = sent[c] =>
            SecretRequest(c, line[c][i])
  /\ \A i \in DOMAIN inbox[c] :
       IF inbox[c][i].kind = "assert" /\ inbox[c][i].status = "ok"
       THEN /\ inbox[c][i].hash = <<c, begun[c]>> =>
                 inbox[c][i].of[2] = sent[c] /\ want[c] \in {"none", "assert"}
            /\ want[c] = "assert" /\ op[c].name = "secret" /\ inbox[c][i].of[2] = sent[c] =>
                 SecretReply(c, inbox[c][i])
       ELSE inbox[c][i].out = {}

SecretInv == \A c \in Clients : SecretsOf(c)

-----------------------------------------------------------------------------
(* Answers. *)

ProbeReply(o, p) ==
  /\ o.allow # {} => p.id \subseteq o.allow
  /\ p.id = {} => Cardinality(o.allow) = 1

\* A getAssertion on its way for a probe has its allow list, and what was
\* answered to a probe fits it; the credential that answers a makeCredential is
\* the one made for it.
AnswersOf(c) ==
  trusted[c] =>
    /\ \A i \in DOMAIN line[c] :
         line[c][i].kind = "assert" /\ ~Orphan(c, line[c][i]) /\ op[c].name = "probe" =>
           line[c][i].allow = op[c].allow
    /\ \A i \in DOMAIN inbox[c] : inbox[c][i].status = "ok" =>
         /\ inbox[c][i].kind = "assert" /\ op[c].name = "probe" => ProbeReply(op[c], inbox[c][i])
         /\ inbox[c][i].kind = "make" => MadeBy(inbox[c][i].of) = {inbox[c][i].id}

AnswerInv == \A c \in Clients : AnswersOf(c)

\* Nothing of c is on its way that would make the credential a probe did not find.
AbsentFor(c) == line[c] = << >> /\ Absent(c)

NothingFound(c) ==
  Returned(c, "probe") /\ result[c].cred = {} /\ Cardinality(op[c].allow) # 1

\* Of one client.
ProbesOf(c) ==
  trusted[c] =>
    /\ \A i \in DOMAIN inbox[c] :
         inbox[c][i].status = "noCredentials" /\ op[c].name = "probe" => AbsentFor(c)
    /\ NothingFound(c) => AbsentFor(c)

ProbeInv == \A c \in Clients : ProbesOf(c)

\* A PIN is sealed under the key the authenticator has, and nothing is carried
\* out before it.  Of one client.
KeyOf(c) ==
  trusted[c] =>
    /\ \A i \in DOMAIN inbox[c] :
         /\ inbox[c][i].kind = "agree" /\ inbox[c][i].status = "ok" =>
              inbox[c][i].key = keyEpoch /\ line[c] = << >>
         /\ inbox[c][i].status = "pinInvalid" /\ op[c].name # "token" => op[c].pin = "wrong"
    /\ \A i \in DOMAIN line[c] :
         line[c][i].kind = "token" /\ ~Orphan(c, line[c][i]) /\ op[c].name # "token" =>
           /\ i = 1
           /\ line[c][i].pin = {Box(Shared(line[c][i]), op[c].pin)}

KeyInv == \A c \in Clients : KeyOf(c)

\* The PIN of c was sealed under a key the authenticator has given up.
OldKey(c) == op[c].pin = "right" => session[c].dev + 1 < keyEpoch

\* Sessions are made with keys the authenticator had, and a PIN c waits to be
\* asked about is sealed under its session.
EpochOf(c) ==
  /\ session[c].dev <= keyEpoch
  /\ \A s \in kept[c] : s.dev <= keyEpoch
  /\ \A i \in DOMAIN inbox[c] :
       inbox[c][i].kind = "agree" /\ inbox[c][i].status = "ok" => inbox[c][i].key <= keyEpoch
  /\ trusted[c] =>
       /\ \A i \in DOMAIN line[c] :
            line[c][i].kind = "token" /\ ~Orphan(c, line[c][i]) =>
              /\ line[c][i].plat = session[c].plat
              /\ line[c][i].pin = {Box(session[c], op[c].pin)}
       /\ \A i \in DOMAIN inbox[c] : inbox[c][i].status = "pinInvalid" => OldKey(c)

EpochInv == \A c \in Clients : EpochOf(c)

-----------------------------------------------------------------------------
(* Sequences of assertions. *)

IsAssertion(p) == p.kind \in {"assert", "next"} /\ p.status = "ok"

\* A getAssertion with the clientDataHash h was carried out, as far as anyone knows.
Signed(h) ==
  \/ \E p \in pending : p.hash = h
  \/ \E c \in Clients : \E i \in DOMAIN walk[c] : walk[c][i].hash = h
  \/ \E c \in Clients : \E i \in DOMAIN inbox[c] : IsAssertion(inbox[c][i]) /\ inbox[c][i].hash = h

Unasked(c, h) == \A i \in DOMAIN line[c] : line[c][i].kind = "assert" => line[c][i].hash # h

IsOperation(h) == h[1] \in Clients /\ h[2] <= begun[h[1]]

\* A clientDataHash is signed by one getAssertion, which was not refused.
HashesOf(c) ==
  /\ \A i \in DOMAIN line[c] : line[c][i].kind = "assert" =>
       /\ ~Signed(line[c][i].hash)
       /\ \A j \in DOMAIN line[c] :
            line[c][j].kind = "assert" /\ line[c][j].hash = line[c][i].hash => i = j
  /\ \A i \in DOMAIN inbox[c] : inbox[c][i].kind = "assert" /\ inbox[c][i].status # "ok" =>
       ~Signed(inbox[c][i].hash) /\ Unasked(c, inbox[c][i].hash)
  /\ want[c] \in {"agree", "token"} =>
       /\ ~Signed(<<c, begun[c]>>) /\ Unasked(c, <<c, begun[c]>>)
       /\ \A i \in DOMAIN inbox[c] :
            inbox[c][i].kind = "assert" => inbox[c][i].hash # <<c, begun[c]>>
  /\ \A i \in DOMAIN walk[c] : IsOperation(walk[c][i].hash)
  /\ \A i \in DOMAIN inbox[c] : IsAssertion(inbox[c][i]) => IsOperation(inbox[c][i].hash)

HashInv ==
  /\ \A p \in pending : IsOperation(p.hash)
  /\ \A c \in Clients : HashesOf(c)

\* Nothing asked on an earlier channel is carried out any more.
NoOrphan(c) == \A i \in DOMAIN line[c] : ~Orphan(c, line[c][i])

\* The assertions seen are not among those still to come, and those of c itself
\* are of the getAssertion the sequence began with.
SeenOf(c) ==
  /\ walk[c] # << >> => NoOrphan(c)
  /\ \A i \in DOMAIN walk[c] : walk[c][i].cred # {}
  /\ \A p \in pending :
       /\ \A i \in DOMAIN walk[c] : walk[c][i].hash = p.hash => walk[c][i].cred \cap p.left = {}
       /\ walk[c] # << >> /\ p.hash[1] = c =>
            \/ p.hash = walk[c][1].hash
            \/ want[c] = "assert" /\ p.hash = <<c, begun[c]>>

\* So it is with an assertion that is on its way to c.
HeardOf(c, r) ==
  /\ NoOrphan(c)
  /\ r.cred # {}
  /\ \A p \in pending :
       /\ p.hash = r.hash => r.cred \cap p.left = {}
       /\ p.hash[1] = c => p.hash = r.hash
  /\ r.kind = "next" =>
       \A i \in DOMAIN walk[c] :
         /\ r.hash[1] = c => r.hash = walk[c][1].hash
         /\ r.hash = walk[c][i].hash => walk[c][i].cred \cap r.cred = {}

\* The getAssertion c waits for is that of its operation.
AskedOf(c) ==
  /\ \A i \in DOMAIN line[c] :
       line[c][i].kind = "assert" /\ ~Orphan(c, line[c][i]) => line[c][i].hash = <<c, begun[c]>>
  /\ \A i \in DOMAIN inbox[c] : inbox[c][i].kind = "assert" => inbox[c][i].hash = <<c, begun[c]>>

WalksOf(c) ==
  trusted[c] =>
    /\ AskedOf(c)
    /\ SeenOf(c)
    /\ \A i \in DOMAIN inbox[c] : IsAssertion(inbox[c][i]) => HeardOf(c, inbox[c][i])

WalkInv == \A c \in Clients : WalksOf(c)
=============================================================================
