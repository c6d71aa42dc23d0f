----------------------------- MODULE Ctap2Device -----------------------------
(***************************************************************************)
(* The CTAP2 authenticator (PIN protocol one) as src/src/cmd and           *)
(* src/src/pin.rs rely on it.  None of it is under src/.  It is kept as    *)
(* permissive as the specification: it may refuse anything (no touch,      *)
(* policy, busy), give only one hmac-secret output, or none.               *)
(***************************************************************************)
EXTENDS Ctap2Link, FiniteSets

CONSTANTS
  FirstCreds,   \* credentials that exist at the start, numbered before the others
  MaxRetries    \* PIN attempts

ASSUME Ctap2DeviceAssumption ==
  /\ FirstCreds \subseteq 1..99
  /\ MaxRetries \in Nat \ {0}

VARIABLES
  keyEpoch,   \* how often the key agreement key was replaced
  token,      \* the pinUvAuthToken in force; 0 is never one
  pinSet,
  retries,
  creds,      \* credentials on the device
  made,       \* credentials made so far
  misses,     \* the operations whose PIN was counted as wrong, in order
  pending,    \* the assertions getNextAssertion may still give, if any
  done        \* requests carried out that used or changed credentials

authenticator == <<keyEpoch, token, pinSet, retries, creds, made, misses, pending, done>>

Ctap2DeviceInit ==
  /\ keyEpoch = 1
  /\ token = 1
  /\ pinSet = TRUE
  /\ retries = MaxRetries
  /\ creds = FirstCreds
  /\ made = 0
  /\ misses = << >>
  /\ pending = {}
  /\ done = {}

-----------------------------------------------------------------------------
\* A reply goes to the channel of its request.
Send(c, request, reply) ==
  /\ inbox' = IF Orphan(c, request) THEN inbox ELSE [inbox EXCEPT ![c] = Append(@, reply)]
  /\ UNCHANGED opened

Respond(c, reply) ==
  /\ line' = [line EXCEPT ![c] = Tail(@)]
  /\ \/ Send(c, Head(line[c]), reply)
     \/ Faults /\ ~Orphan(c, Head(line[c])) /\ UNCHANGED <<inbox, opened>>

Turn(c, kind) == line[c] # << >> /\ Head(line[c]).kind = kind

\* Only what changes or uses credentials is recorded; `cred` is the one it created.
Carried(r, cred) ==
  [from |-> r.from, kind |-> r.kind, uv |-> r.auth # {}, given |-> r.given, cred |-> cred]

Record(r, cred) == done' = done \cup {Carried(r, cred)}

\* The request is not carried out: no touch, a policy, another transaction of
\* the device (channel busy), which may overtake requests before it.
Refuse(c) ==
  \E i \in DOMAIN line[c] :
    /\ line' = [line EXCEPT ![c] = SubSeq(@, 1, i - 1) \o SubSeq(@, i + 1, Len(@))]
    /\ Send(c, line[c][i], Reply(line[c][i], "denied"))
    /\ UNCHANGED authenticator

ServeInfo(c) ==
  /\ Turn(c, "info")
  /\ Respond(c, [Reply(Head(line[c]), "ok") EXCEPT !.pinSet = pinSet])
  /\ UNCHANGED authenticator

ServeRetries(c) ==
  /\ Turn(c, "retries")
  /\ Respond(c, Reply(Head(line[c]), "ok"))
  /\ UNCHANGED authenticator

Blink(c) ==
  /\ Turn(c, "wink")
  /\ Respond(c, Reply(Head(line[c]), "ok"))
  /\ UNCHANGED authenticator

ServeAgreement(c) ==
  /\ Turn(c, "agree")
  /\ Respond(c, [Reply(Head(line[c]), "ok") EXCEPT !.key = keyEpoch])
  /\ UNCHANGED authenticator

Shared(r) == [dev |-> keyEpoch, plat |-> r.plat]

OpenedPin(r) == {Unbox(Shared(r), b, "wrong") : b \in r.pin}

\* A new token for the right PIN.
GrantToken(c) ==
  LET r == Head(line[c])
  IN  /\ Turn(c, "token")
      /\ pinSet /\ retries > 0
      /\ OpenedPin(r) = {"right"}
      /\ token' = token + 1
      /\ retries' = MaxRetries
      /\ Respond(c, [Reply(r, "ok") EXCEPT !.token = {Box(Shared(r), token + 1)}])
      /\ UNCHANGED <<keyEpoch, pinSet, creds, made, misses, pending, done>>

\* A wrong PIN, or one that cannot be decrypted: an attempt is lost and the key
\* agreement key is replaced.
CountMiss(c) ==
  LET r == Head(line[c])
  IN  /\ Turn(c, "token")
      /\ pinSet /\ retries > 0
      /\ OpenedPin(r) # {"right"}
      /\ keyEpoch' = keyEpoch + 1
      /\ retries' = retries - 1
      /\ misses' = Append(misses, r.hash)
      /\ Respond(c, Reply(r, "pinInvalid"))
      /\ UNCHANGED <<token, pinSet, creds, made, pending, done>>

\* pinUvAuthParam is absent or made with the token in force.
Authorised(r) == r.auth \subseteq {token}

SaltsOf(r) == {Unbox(Shared(r), b, << >>) : b \in r.salt}

Output(r, cred, salts, n) ==
  Box(Shared(r), [i \in 1..n |-> [cred |-> cred, salt |-> salts[i], uv |-> r.auth # {}]])

\* The extension's output for all salts, for the first only, or left out.
Outputs(r, cred) ==
  {{}} \cup
    UNION {{{Output(r, cred, salts, n)} : n \in 1..Len(salts)} : salts \in SaltsOf(r)}

Candidates(r) == IF r.allow = {} THEN creds ELSE r.allow \cap creds

\* An authenticator of CTAP 2.0 may leave out the id when only one was allowed.
Named(r, cred) == {{cred}} \cup {id \in {{}} : Cardinality(r.allow) = 1}

\* The assertions for the other credentials wait for getNextAssertion, in place
\* of those of any getAssertion before, whoever asked for it.
Sign(c) ==
  LET r == Head(line[c])
  IN  /\ Turn(c, "assert")
      /\ Authorised(r)
      /\ \A s \in r.salt : s.key = Shared(r)
      /\ \E cred \in Candidates(r) :
           /\ \E out \in Outputs(r, cred), id \in Named(r, cred) :
                Respond(c, [Reply(r, "ok") EXCEPT !.id = id, !.cred = {cred}, !.out = out])
           /\ pending' = {[hash |-> r.hash, left |-> IF r.allow = {} THEN creds \ {cred} ELSE {}]}
      /\ Record(r, {})
      /\ UNCHANGED <<keyEpoch, token, pinSet, retries, creds, made, misses>>

SignNext(c) ==
  LET r == Head(line[c])
  IN  /\ Turn(c, "next")
      /\ \E p \in pending : \E cred \in p.left :
           /\ Respond(c, [Reply(r, "ok") EXCEPT !.hash = p.hash, !.id = {cred}, !.cred = {cred}])
           /\ pending' = {[p EXCEPT !.left = @ \ {cred}]}
      /\ UNCHANGED <<keyEpoch, token, pinSet, retries, creds, made, misses, done>>

NoNext(c) ==
  /\ Turn(c, "next")
  /\ \A p \in pending : p.left = {}
  /\ Respond(c, Reply(Head(line[c]), "notAllowed"))
  /\ UNCHANGED authenticator

NoCredentials(c) ==
  LET r == Head(line[c])
  IN  /\ Turn(c, "assert")
      /\ Authorised(r)
      /\ Candidates(r) = {}
      /\ Respond(c, Reply(r, "noCredentials"))
      /\ UNCHANGED authenticator

\* Numbered after the first ones.
NewCred == 100 + made

Make(c) ==
  LET r == Head(line[c])
  IN  /\ Turn(c, "make")
      /\ Authorised(r)
      /\ creds' = creds \cup {NewCred}
      /\ made' = made + 1
      /\ Respond(c, [Reply(r, "ok") EXCEPT !.id = {NewCred}, !.cred = {NewCred}])
      /\ Record(r, {NewCred})
      /\ UNCHANGED <<keyEpoch, token, pinSet, retries, misses, pending>>

Wipe(c) ==
  LET r == Head(line[c])
  IN  /\ Turn(c, "reset")
      /\ creds' = {}
      /\ pinSet' = FALSE
      /\ retries' = MaxRetries
      /\ keyEpoch' = keyEpoch + 1
      /\ token' = token + 1
      /\ pending' = {}
      /\ Respond(c, Reply(r, "ok"))
      /\ Record(r, {})
      /\ UNCHANGED <<made, misses>>

Serve(c) ==
  \/ Refuse(c) \/ ServeInfo(c) \/ ServeRetries(c) \/ ServeAgreement(c)
  \/ GrantToken(c) \/ CountMiss(c)
  \/ Sign(c) \/ NoCredentials(c) \/ SignNext(c) \/ NoNext(c)
  \/ Make(c) \/ Wipe(c) \/ Blink(c)

\* Unplugged and plugged in again: what was on its way is gone, and the key
\* agreement key, the token and the pending assertions with it.
PowerCycle ==
  /\ keyEpoch' = keyEpoch + 1
  /\ token' = token + 1
  /\ pending' = {}
  /\ line' = [c \in Clients |-> << >>]
  /\ inbox' = [c \in Clients |-> << >>]
  /\ UNCHANGED <<opened, pinSet, retries, creds, made, misses, done>>
=============================================================================
