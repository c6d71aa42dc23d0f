-------------------------------- MODULE Ctap2 --------------------------------
(***************************************************************************)
(* Clients of one authenticator at the level of CTAP2 commands, and what   *)
(* may be said of the operations of src/src/cmd when their exchanges are   *)
(* interleaved, time out, or are answered a call too late.                 *)
(***************************************************************************)
EXTENDS Ctap2Client, Ctap2Device

vars == <<link, client, authenticator>>

Init == ClientInit /\ Ctap2DeviceInit

ClientNext(c) == ClientStep(c) /\ UNCHANGED authenticator

DeviceNext(c) == Serve(c) /\ UNCHANGED client

\* The authenticator is unplugged and plugged in again: an open handle is of no
\* use any more.
Unplug ==
  /\ Faults
  /\ plan.cycles > 0
  /\ PowerCycle
  /\ plan' = [plan EXCEPT !.cycles = @ - 1]
  /\ handle' = [c \in Clients |-> IF handle[c] = "closed" THEN "closed" ELSE "dead"]
  /\ UNCHANGED <<begun, sent, op, want, session, memory, result, trusted>>

Next == Unplug \/ \E c \in Clients : ClientNext(c) \/ DeviceNext(c)

Spec == Init /\ [][Next]_vars

-----------------------------------------------------------------------------
Outs == [cred : Nat, salt : Salts \cup {"noise"}, uv : BOOLEAN]

Replies ==
  [of : Call, kind : Kinds, hash : Call, status : Statuses, key : Nat,
   token : SUBSET [key : Secret, plain : Nat], id : SUBSET Nat, cred : SUBSET Nat,
   out : SUBSET [key : Secret, plain : Seq(Outs)], pinSet : BOOLEAN]

LinkOK ==
  /\ line \in [Clients -> Seq(Request)]
  /\ inbox \in [Clients -> Seq(Replies)]
  /\ opened \in [Clients -> Nat]

Session == [dev : Nat, plat : Call \cup {NoKey}]

MemoryOK ==
  /\ kept \in [Clients -> SUBSET Session]
  /\ held \in [Clients -> SUBSET [token : Nat, given : Given]]
  /\ cache \in [Clients -> SUBSET [pinSet : BOOLEAN, real : BOOLEAN]]
  /\ walk \in [Clients -> Seq([hash : Call, cred : SUBSET Nat])]

ClientOK ==
  /\ plan \in Plan
  /\ handle \in [Clients -> {"closed", "open", "probe", "dead"}]
  /\ begun \in [Clients -> Nat]
  /\ sent \in [Clients -> Nat]
  /\ op \in [Clients -> Op]
  /\ want \in [Clients -> Kinds \cup {"none"}]
  /\ session \in [Clients -> Session]
  /\ result \in [Clients -> [res : {"none", "ok"} \cup Errors, status : Statuses,
                             cred : SUBSET Nat, secrets : Seq(Outs)]]
  /\ trusted \in [Clients -> BOOLEAN]

AuthenticatorOK ==
  /\ keyEpoch \in Nat /\ token \in Nat \ {0} /\ retries \in 0..MaxRetries
  /\ pinSet \in BOOLEAN
  /\ creds \subseteq Nat /\ made \in Nat
  /\ misses \in Seq(Call)
  /\ pending \subseteq [hash : Call, left : SUBSET Nat] /\ Cardinality(pending) <= 1
  /\ done \subseteq
       [from : Call, kind : Kinds, uv : BOOLEAN, given : Given, cred : SUBSET Nat]

TypeOK == LinkOK /\ MemoryOK /\ ClientOK /\ AuthenticatorOK

-----------------------------------------------------------------------------
Returned(c, name) == op[c].name = name /\ result[c].res = "ok"

Wanted(o) ==
  [i \in DOMAIN o.salts |->
     [cred |-> CHOOSE a \in o.allow : TRUE, salt |-> o.salts[i], uv |-> o.pin # "none"]]

RightSecret(c) == Returned(c, "secret") => result[c].secrets = Wanted(op[c])

\* get_hmac_secret returns the output of the credential and of the salts asked
\* for, of the UV kind exactly when a PIN was given, and never noise: as long
\* as no call timed out, whatever the other clients do between its exchanges,
\* and after that too when public_key is given (call_hmac_secret).
SecretIsRequested ==
  \A c \in Clients : trusted[c] \/ op[c].verify => RightSecret(c)

PinInvalid(c) == trusted[c] /\ result[c].res = "ctap" /\ result[c].status = "pinInvalid"

\* A PIN the device took for wrong was wrong: the platform key and the device's
\* are those of one getKeyAgreement (PinSession::establish, get_pin_token), the
\* device unplugged in between or not.
PinInvalidMeansWrong ==
  \A c \in Clients : PinInvalid(c) /\ op[c].name # "token" => op[c].pin = "wrong"

\* "0x31: PIN is invalid" (src/src/error.rs:38), of pin_token in a session too.
PinInvalidInSession == \A c \in Clients : PinInvalid(c) => op[c].pin = "wrong"

\* A right PIN counts as wrong only if the device has replaced its key since the
\* getKeyAgreement of the session: another caller's wrong PIN or reset, in between
\* or before a token in a kept session.  (Counting it replaces the key once more.)
RightPinNeedsOldKey ==
  \A c \in Clients : PinInvalid(c) /\ op[c].pin = "right" => session[c].dev + 1 < keyEpoch

\* The device never creates a credential or signs with user verification for an
\* operation that was not given the right PIN, not with a token of before a
\* reopening or a power cycle, nor when a late reply brings the token of an
\* operation before: the key it is sealed with is gone.  (A token fetched on a
\* Transport that had failed may be the one of an earlier PIN.)
UvProvesPin == \A d \in done : d.uv => d.given \in {"right", "unsure"}

\* An operation with a wrong PIN ends at the PIN: no touch is asked for.
WrongPinGoesNoFurther ==
  \A c \in Clients : trusted[c] /\ op[c].pin = "wrong" => want[c] \notin {"assert", "make"}

\* An operation costs at most one PIN attempt, whatever fails in it.
OneAttemptPerOperation ==
  \A i, j \in DOMAIN misses : misses[i] = misses[j] => i = j

\* reset returns Ok only if the device was wiped by it, though it looks at no
\* reply: after a failed call only a new Authenticator is believed, to which
\* nothing of the old one is answered.
ResetMeansWiped ==
  \A c \in Clients : trusted[c] /\ Returned(c, "reset") =>
    \E d \in done : d.kind = "reset" /\ d.from = <<c, sent[c]>>

\* Authenticator.info is filled by an answer to getInfo only, as long as no call
\* timed out: it stays for the life of the Authenticator.
CacheIsInfo == \A c \in Clients : trusted[c] => \A i \in cache[c] : i.real

\* The doc of client_pin_set: "True iff a client PIN is currently set on the
\* device" (src/src/cmd/mod.rs:117), of the value info returns.
ClientPinSetIsCurrent ==
  \A c \in Clients : trusted[c] /\ Returned(c, "info") =>
    \A i \in cache[c] : i.pinSet = pinSet

Absent(c) == op[c].allow \cap creds = {}

\* As long as no exchange failed, a probe names a credential of its allow list (of
\* an empty one, which is left out, any).
ProbeFitsList ==
  \A c \in Clients :
    trusted[c] /\ Returned(c, "probe") /\ op[c].allow # {} => result[c].cred \subseteq op[c].allow

\* The credentials the authenticator created for one request.
MadeBy(of) == {d.cred : d \in {e \in done : e.kind = "make" /\ e.from = of}}

\* As long as no exchange failed, make_credential returns the credential that its
\* own request created, which created no other: not that of a call that failed
\* on an earlier Authenticator, nor another client's.
CredentialIsOfThisCall ==
  \A c \in Clients :
    trusted[c] /\ Returned(c, "make") => MadeBy(<<c, sent[c]>>) = {result[c].cred}

\* A probe for several credentials returns None only when the device has none of
\* them, and as long as its client asks nothing more that stays so: what an
\* earlier channel left on its way has been carried out by then.
NoneOfSeveral ==
  \A c \in Clients :
    trusted[c] /\ Returned(c, "probe") /\ result[c].cred = {} =>
      Absent(c) \/ Cardinality(op[c].allow) = 1

\* A getNextAssertion sequence never goes back to a getAssertion the same caller
\* made before, nor to a credential it has already given: what other callers do
\* in between can end it, or show in the clientDataHash that was signed
\* (get_next_assertion::call sends nothing that says which sequence it means).
NextContinues ==
  \A c \in Clients : trusted[c] =>
    \A i, j \in DOMAIN walk[c] : i < j =>
      /\ walk[c][j].hash = walk[c][1].hash \/ walk[c][j].hash[1] # c
      /\ walk[c][i].hash = walk[c][j].hash => walk[c][i].cred # walk[c][j].cred
=============================================================================
