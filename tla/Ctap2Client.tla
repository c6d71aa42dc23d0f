----------------------------- MODULE Ctap2Client -----------------------------
(***************************************************************************)
(* The operations of an Authenticator (src/src/cmd) and of the PIN         *)
(* protocol (src/src/pin.rs): what each one asks of the device, in which   *)
(* order, what it keeps between the exchanges, and what it returns.  An    *)
(* operation is not atomic: other clients are served between its exchanges.*)
(***************************************************************************)
EXTENDS Ctap2Link

CONSTANT Plans   \* what the clients of a run may do, records of Plan

Names == {"info", "retries", "session", "token", "secret", "assertion", "with", "next",
          "probe", "make", "reset", "wink", "list"}

\* allow: the credentials named, salts: one or two, verify: public_key is given,
\* long: a credBlob of more than 32 bytes.  The signatures of src/src/cmd say who
\* takes a PIN, and that get_hmac_secret names one credential.
Op == {o \in [name : Names, pin : Pins, allow : SUBSET Nat, salts : Seq(Salts),
              verify : BOOLEAN, long : BOOLEAN] :
  /\ o.pin # "none" => o.name \in {"token", "secret", "assertion", "make"}
  /\ o.name = "token" => o.pin # "none"
  /\ o.name = "secret" => Len(o.salts) \in 1..2 /\ \E cred \in o.allow : o.allow = {cred}}

\* The operations of every client and how many of them, and the opens and power
\* cycles of all clients together.
Plan == [ops : SUBSET Op, calls : Nat, opens : Nat, cycles : Nat]

ASSUME ClientAssumption == Plans \subseteq Plan

VARIABLES
  plan,     \* what may still happen
  handle,   \* the open device of c: an Authenticator, the one of list_devices, none
  begun,    \* operations so far
  sent,     \* requests so far
  op,       \* the last operation
  want,     \* the reply the operation waits for; "none" between operations
  session,  \* PinSession.shared_secret of the operation
  kept,     \* the PinSession of an Authenticator::pin_session
  held,     \* the PinToken of an Authenticator::pin_token
  cache,    \* Authenticator.info
  walk,     \* the assertions of the last getAssertion, and those next to it
  result,   \* what the last operation returned
  trusted   \* FALSE once an exchange of the open device failed

memory == <<kept, held, cache, walk>>

client == <<plan, handle, begun, sent, op, want, session, memory, result, trusted>>

-----------------------------------------------------------------------------
NoOp == [name |-> "info", pin |-> "none", allow |-> {}, salts |-> << >>,
         verify |-> FALSE, long |-> FALSE]

Errors == {"ctap", "hid", "malformed", "missing"}

\* cred, secrets: what an "ok" carries.
Outcome(res, status, cred, secrets) ==
  [res |-> res, status |-> status, cred |-> cred, secrets |-> secrets]

NoResult == Outcome("none", "ok", {}, << >>)
Error(res) == Outcome(res, "ok", {}, << >>)
Ok(cred, secrets) == Outcome("ok", "ok", cred, secrets)
Done == Ok({}, << >>)

\* In the place of a credential: the DeviceInfo list_devices returns.
TheDevice == 0

NoSecret == [dev |-> 0, plat |-> NoKey]

ClientInit ==
  /\ plan \in Plans
  /\ line = [c \in Clients |-> << >>]
  /\ inbox = [c \in Clients |-> << >>]
  /\ opened = [c \in Clients |-> 0]
  /\ handle = [c \in Clients |-> "closed"]
  /\ begun = [c \in Clients |-> 0]
  /\ sent = [c \in Clients |-> 0]
  /\ op = [c \in Clients |-> NoOp]
  /\ want = [c \in Clients |-> "none"]
  /\ session = [c \in Clients |-> NoSecret]
  /\ kept = [c \in Clients |-> {}]
  /\ held = [c \in Clients |-> {}]
  /\ cache = [c \in Clients |-> {}]
  /\ walk = [c \in Clients |-> << >>]
  /\ result = [c \in Clients |-> NoResult]
  /\ trusted = [c \in Clients |-> TRUE]

-----------------------------------------------------------------------------
(* Requests. *)

NextCall(c) == <<c, sent[c] + 1>>

Param(c, o, n, kind) == Bare(kind, NextCall(c), <<c, n>>, o.pin)

\* The platform key is made for the request, before it is sent.
AgreementRequest(c, o, n) == [Param(c, o, n, "agree") EXCEPT !.plat = NextCall(c)]

\* Mutant: the platform key sent is not the one of the session.
TokenRequest_OtherKey(c, o, n, s) ==
  [Param(c, o, n, "token") EXCEPT !.plat = NextCall(c), !.pin = {Box(s, o.pin)}]

TokenRequest(c, o, n, s) ==
  [Param(c, o, n, "token") EXCEPT !.plat = s.plat, !.pin = {Box(s, o.pin)}]

\* Mutants: the allow list is left out; the token is.
AssertionRequest_NoList(c, o, n, auth, box, plat) ==
  [Param(c, o, n, "assert") EXCEPT !.auth = auth, !.salt = box, !.plat = plat]

AssertionRequest_NoAuth(c, o, n, auth, box, plat) ==
  [Param(c, o, n, "assert") EXCEPT !.allow = o.allow, !.salt = box, !.plat = plat]

\* `auth` is the PinToken, `box` the sealed salts of hmac-secret.
AssertionRequest(c, o, n, auth, box, plat) ==
  [Param(c, o, n, "assert") EXCEPT
     !.allow = o.allow, !.auth = auth, !.salt = box, !.plat = plat]

MakeRequest(c, o, n, auth) == [Param(c, o, n, "make") EXCEPT !.auth = auth]

\* Transport::transact up to its first read.
Ask(c, request) ==
  /\ Len(line[c]) < LineCap
  /\ line' = [line EXCEPT ![c] = Append(@, request)]
  /\ sent' = [sent EXCEPT ![c] = @ + 1]
  /\ want' = [want EXCEPT ![c] = request.kind]

-----------------------------------------------------------------------------
(* The open device.  A client lets go of the one it has before another. *)

\* Mutant: the channel stays the one of before.
Attach_OldReplies(c, use) ==
  /\ plan.opens > 0
  /\ plan' = [plan EXCEPT !.opens = @ - 1]
  /\ handle' = [handle EXCEPT ![c] = use]
  /\ trusted' = [trusted EXCEPT ![c] = TRUE]
  /\ cache' = [cache EXCEPT ![c] = {}]
  /\ walk' = [walk EXCEPT ![c] = << >>]
  /\ UNCHANGED <<inbox, opened, kept, held>>

\* Transport::open: a channel of its own, on which nothing is on its way.
Attach(c, use) ==
  /\ plan.opens > 0
  /\ plan' = [plan EXCEPT !.opens = @ - 1]
  /\ handle' = [handle EXCEPT ![c] = use]
  /\ opened' = [opened EXCEPT ![c] = sent[c]]
  /\ inbox' = [inbox EXCEPT ![c] = << >>]
  /\ trusted' = [trusted EXCEPT ![c] = TRUE]
  /\ cache' = [cache EXCEPT ![c] = {}]
  /\ walk' = [walk EXCEPT ![c] = << >>]
  /\ UNCHANGED <<kept, held>>

\* Transport::open fails, also where another client opens the device.
Detach(c) ==
  /\ plan.opens > 0
  /\ plan' = [plan EXCEPT !.opens = @ - 1]
  /\ handle' = [handle EXCEPT ![c] = "closed"]
  /\ UNCHANGED <<link, memory, trusted>>

\* A PinSession and a PinToken outlive the Authenticator they are of.
Open(c) ==
  /\ want[c] = "none"
  /\ \/ Attach(c, "open") /\ result' = [result EXCEPT ![c] = NoResult] /\ UNCHANGED line
     \/ Detach(c) /\ result' = [result EXCEPT ![c] = Error("hid")]
  /\ UNCHANGED <<begun, sent, op, want, session>>

-----------------------------------------------------------------------------
(* The start of an operation. *)

Begin(c, o) ==
  /\ want[c] = "none"
  /\ begun[c] < plan.calls
  /\ begun' = [begun EXCEPT ![c] = @ + 1]
  /\ op' = [op EXCEPT ![c] = o]

\* A device that was unplugged takes no report: Error::Hid.
Start(c, o, request) ==
  /\ Begin(c, o)
  /\ \/ /\ handle[c] = "open"
        /\ Ask(c, request)
        /\ result' = [result EXCEPT ![c] = NoResult]
        /\ UNCHANGED trusted
     \/ /\ handle[c] = "dead"
        /\ result' = [result EXCEPT ![c] = Error("hid")]
        /\ trusted' = [trusted EXCEPT ![c] = FALSE]
        /\ UNCHANGED <<line, sent, want>>
  /\ UNCHANGED <<plan, inbox, opened, handle, memory>>

Immediately(c, o, outcome) ==
  /\ Begin(c, o)
  /\ result' = [result EXCEPT ![c] = outcome]
  /\ UNCHANGED <<plan, link, handle, sent, want, session, memory, trusted>>

This(c) == begun[c] + 1

Simple(c, o, kind) ==
  /\ Start(c, o, Param(c, o, This(c), kind))
  /\ UNCHANGED session

\* list_devices: open, getInfo, and close; a device that fails is left out.
List(c, o) ==
  /\ o.name = "list"
  /\ Begin(c, o)
  /\ \/ /\ Attach(c, "probe")
        /\ Ask(c, Param(c, o, This(c), "info"))
        /\ result' = [result EXCEPT ![c] = NoResult]
     \/ /\ Detach(c)
        /\ result' = [result EXCEPT ![c] = Done]
        /\ UNCHANGED <<sent, want>>
  /\ UNCHANGED session

Info(c, o) ==
  /\ o.name = "info"
  /\ \/ cache[c] = {} /\ Simple(c, o, "info")
     \/ cache[c] # {} /\ Immediately(c, o, Done)

PinRetries(c, o) == o.name = "retries" /\ Simple(c, o, "retries")

Reset(c, o) == o.name = "reset" /\ Simple(c, o, "reset")

Wink(c, o) == o.name = "wink" /\ Simple(c, o, "wink")

\* PinSession::establish up to its transact.
Establish(c, o) ==
  /\ Start(c, o, AgreementRequest(c, o, This(c)))
  /\ UNCHANGED session

OpenSession(c, o) == o.name = "session" /\ Establish(c, o)

\* get_pin_token with a PinSession of before.
TokenInSession(c, o) ==
  /\ o.name = "token"
  /\ \E s \in kept[c] :
       /\ Start(c, o, TokenRequest(c, o, This(c), s))
       /\ session' = [session EXCEPT ![c] = s]

GetHmacSecret(c, o) == o.name = "secret" /\ Establish(c, o)

AssertPlainly(c, o) ==
  /\ Start(c, o, AssertionRequest(c, o, This(c), {}, {}, NoKey))
  /\ UNCHANGED session

\* Mutant: the session of the last operation is used again.
GetAssertion_OldSession(c, o) ==
  /\ o.name = "assertion"
  /\ \/ o.pin # "none" /\ session[c] = NoSecret /\ Establish(c, o)
     \/ /\ o.pin # "none" /\ session[c] # NoSecret
        /\ Start(c, o, TokenRequest(c, o, This(c), session[c]))
        /\ UNCHANGED session
     \/ o.pin = "none" /\ AssertPlainly(c, o)

GetAssertion(c, o) ==
  /\ o.name = "assertion"
  /\ \/ o.pin # "none" /\ Establish(c, o)
     \/ o.pin = "none" /\ AssertPlainly(c, o)

\* The silent probe and the one with touch differ in the `up` option only.
ProbeCredential(c, o) == o.name = "probe" /\ AssertPlainly(c, o)

\* get_assertion::call with a PinToken of before.
AssertWithToken(c, o) ==
  /\ o.name = "with"
  /\ \E h \in held[c] :
       Start(c, o, [AssertionRequest(c, o, This(c), {h.token}, {}, NoKey)
                      EXCEPT !.given = h.given])
  /\ UNCHANGED session

\* Mutant: getAssertion is sent once more.
GetNextAssertion_Again(c, o) == o.name = "next" /\ AssertPlainly(c, o)

GetNextAssertion(c, o) == o.name = "next" /\ Simple(c, o, "next")

\* "credBlob exceeds 32 bytes" is found after the PIN exchange.
MakeCredential(c, o) ==
  /\ o.name = "make"
  /\ \/ o.pin # "none" /\ Establish(c, o)
     \/ o.pin = "none" /\ ~o.long /\ Simple(c, o, "make")
     \/ o.pin = "none" /\ o.long /\ Immediately(c, o, Error("malformed"))

Invoke(c) ==
  /\ handle[c] # "closed"
  /\ \E o \in plan.ops :
       \/ Info(c, o) \/ PinRetries(c, o) \/ Reset(c, o) \/ Wink(c, o)
       \/ OpenSession(c, o) \/ TokenInSession(c, o)
       \/ GetHmacSecret(c, o) \/ GetAssertion(c, o) \/ AssertWithToken(c, o)
       \/ GetNextAssertion(c, o) \/ ProbeCredential(c, o) \/ MakeCredential(c, o)

-----------------------------------------------------------------------------
(* The replies. *)

Take(c) ==
  /\ want[c] # "none"
  /\ inbox[c] # << >>
  /\ inbox' = [inbox EXCEPT ![c] = Tail(@)]

Got(c) == Head(inbox[c])

\* A reply with CTAP status OK from which the parser of `kind` takes what it
\* needs.  An assertion and the next have one parser; the fields of the others
\* have other numbers or types; getInfo takes any map, and reset anything but
\* another CTAPHID command.
Fits(reply, kind) ==
  /\ reply.status = "ok"
  /\ \/ reply.kind = kind
     \/ {reply.kind, kind} = {"assert", "next"}
     \/ kind = "info" /\ reply.kind \notin {"reset", "wink"}
     \/ kind = "reset" /\ reply.kind # "wink"

\* A status, or an ERROR report, which fits every command.
Refused(reply, kind) ==
  /\ reply.status # "ok"
  /\ kind = "wink" => reply.kind = "wink" \/ reply.status = "denied"

Misfits(reply, kind) ==
  \/ reply.status = "ok" /\ ~Fits(reply, kind)
  \/ reply.status # "ok" /\ kind = "wink" /\ reply.kind # "wink"

Receives(c, kind) == Take(c) /\ want[c] = kind /\ Fits(Got(c), kind)

\* list_devices returns what it found, and has no device open any more.  The one
\* device there is advertises hmac-secret, so that the filter of list_devices
\* leaves out nothing that getInfo was read from.
Finish(c, outcome) ==
  /\ want' = [want EXCEPT ![c] = "none"]
  /\ result' = [result EXCEPT ![c] =
       IF op[c].name # "list" THEN outcome
       ELSE IF outcome.res = "ok" THEN Ok({TheDevice}, << >>) ELSE Done]
  /\ handle' = [handle EXCEPT ![c] = IF op[c].name = "list" THEN "closed" ELSE @]
  /\ UNCHANGED <<plan, line, opened, begun, sent, op>>

Continue(c, request) ==
  /\ Ask(c, request)
  /\ UNCHANGED <<plan, opened, handle, begun, op, result, memory, trusted>>

\* Mutants: info makes up an answer, a refusal is taken for nothing found, an
\* operation goes on without its token, or tries its PIN again.
OnCtapError_DefaultInfo(c) ==
  /\ Take(c)
  /\ Refused(Got(c), want[c])
  /\ Finish(c, Done)
  /\ cache' = [cache EXCEPT ![c] = {[pinSet |-> FALSE, real |-> FALSE]}]
  /\ UNCHANGED <<session, kept, held, walk, trusted>>

OnCtapError_NotFound(c) ==
  /\ Take(c)
  /\ Refused(Got(c), want[c])
  /\ Finish(c, Done)
  /\ UNCHANGED <<session, memory, trusted>>

OnCtapError_NoToken(c) ==
  /\ Take(c)
  /\ Got(c).status = "pinInvalid"
  /\ Continue(c, AssertionRequest(c, op[c], begun[c], {}, {}, NoKey))
  /\ UNCHANGED session

OnCtapError_PinAgain(c) ==
  /\ Take(c)
  /\ Got(c).status = "pinInvalid"
  /\ sent[c] < 3 * plan.calls
  /\ Continue(c, AgreementRequest(c, op[c], begun[c]))
  /\ UNCHANGED session

\* Error::Ctap.  The probes turn NoCredentials into Ok(None).
OnCtapError(c) ==
  /\ Take(c)
  /\ Refused(Got(c), want[c])
  /\ Finish(c, IF op[c].name = "probe" /\ Got(c).status = "noCredentials" THEN Done
               ELSE Outcome("ctap", Got(c).status, {}, << >>))
  /\ UNCHANGED <<session, memory, trusted>>

\* Error::Cbor, Error::Pin or Error::Parse.
OnMisfit(c) ==
  /\ Take(c)
  /\ Misfits(Got(c), want[c])
  /\ Finish(c, Error("malformed"))
  /\ UNCHANGED <<session, memory, trusted>>

\* Error::Parse of the transport: some reports of the reply were lost.
OnGarbled(c) ==
  /\ Faults
  /\ Take(c)
  /\ trusted' = [trusted EXCEPT ![c] = FALSE]
  /\ Finish(c, Error("malformed"))
  /\ UNCHANGED <<session, memory>>

\* What getInfo said of the PIN, and whether it was getInfo that said it.
OnInfo(c) ==
  /\ Receives(c, "info")
  /\ cache' = [cache EXCEPT ![c] =
       IF op[c].name = "list" THEN @
       ELSE {[pinSet |-> Got(c).pinSet, real |-> Got(c).kind = "info"]}]
  /\ Finish(c, Done)
  /\ UNCHANGED <<session, kept, held, walk, trusted>>

OnRetries(c) ==
  /\ Receives(c, "retries")
  /\ Finish(c, Done)
  /\ UNCHANGED <<session, memory, trusted>>

\* The body is not looked at.
OnEmpty(c) ==
  /\ Receives(c, "reset") \/ Receives(c, "wink")
  /\ Finish(c, Done)
  /\ UNCHANGED <<session, memory, trusted>>

SaltBox(s, o) == IF o.name = "secret" THEN {Box(s, o.salts)} ELSE {}
SaltKey(s, o) == IF o.name = "secret" THEN s.plat ELSE NoKey

\* The rest of PinSession::establish, and what its caller does next.
OnAgreement(c) ==
  LET s == [dev |-> Got(c).key, plat |-> <<c, sent[c]>>]
      o == op[c]
      n == begun[c]
  IN  /\ Receives(c, "agree")
      /\ session' = [session EXCEPT ![c] = s]
      /\ \/ /\ o.name = "session"
            /\ kept' = [kept EXCEPT ![c] = {s}]
            /\ Finish(c, Done)
            /\ UNCHANGED <<held, cache, walk, trusted>>
         \/ /\ o.name # "session" /\ o.pin # "none"
            /\ Continue(c, TokenRequest(c, o, n, s))
         \/ /\ o.name = "secret" /\ o.pin = "none"
            /\ Continue(c, AssertionRequest(c, o, n, {}, SaltBox(s, o), SaltKey(s, o)))

\* aes256_cbc_decrypt of pinUvAuthToken; 0 is a token the device never gave.
OpenedToken(s, boxes) == {Unbox(s, b, 0) : b \in boxes}

\* The PinToken, and the PIN it was asked for with.
Hold(c, auth) ==
  {[token |-> t, given |-> IF trusted[c] THEN op[c].pin ELSE "unsure"] : t \in auth}

\* The rest of get_pin_token, and what its caller does next.
OnToken(c) ==
  LET s == session[c]
      o == op[c]
      n == begun[c]
      auth == OpenedToken(s, Got(c).token)
  IN  /\ Receives(c, "token")
      /\ UNCHANGED session
      /\ \/ /\ o.name = "token"
            /\ held' = [held EXCEPT ![c] = Hold(c, auth)]
            /\ Finish(c, Done)
            /\ UNCHANGED <<kept, cache, walk, trusted>>
         \/ /\ o.name = "make" /\ o.long
            /\ Finish(c, Error("malformed"))
            /\ UNCHANGED <<memory, trusted>>
         \/ /\ o.name = "make" /\ ~o.long
            /\ Continue(c, MakeRequest(c, o, n, auth))
         \/ /\ o.name \in {"secret", "assertion"}
            /\ Continue(c, AssertionRequest(c, o, n, auth, SaltBox(s, o), SaltKey(s, o)))

\* What the caller has seen of the device's assertions: a getAssertion begins
\* anew, a getNextAssertion goes on.
Walked(c) ==
  LET this == [hash |-> Got(c).hash, cred |-> Got(c).cred]
  IN  walk' = [walk EXCEPT ![c] = IF op[c].name = "next" THEN Append(@, this) ELSE <<this>>]

\* credential_id is the id of the reply, if it has one.
OnAssertion(c) ==
  /\ Receives(c, "assert") \/ Receives(c, "next")
  /\ op[c].name # "secret"
  /\ Walked(c)
  /\ Finish(c, Ok(Got(c).id, << >>))
  /\ UNCHANGED <<session, kept, held, cache, trusted>>

\* Mutant: the clientDataHash is left out of the signed message.
Verified_AuthDataOnly(c, reply) == op[c].verify => reply.cred = op[c].allow

\* verify: the signature is over the reply and the clientDataHash of this call.
Verified(c, reply) ==
  op[c].verify => reply.cred = op[c].allow /\ reply.hash = <<c, begun[c]>>

\* Mutant: the output is returned as it came.
Opened_Sealed(s, box) == [i \in DOMAIN box.plain |-> box]

Opened(s, box) == Unbox(s, box, [i \in DOMAIN box.plain |-> Noise])

\* One output where two were asked for is refused.
Enough(outputs, asked) == outputs \in asked..2

\* What call_hmac_secret makes of the output.
SecretOutcome(c, reply) ==
  IF ~Verified(c, reply) THEN Error("malformed")
  ELSE IF \E b \in reply.out : Enough(Len(b.plain), Len(op[c].salts))
  THEN Ok({}, Opened(session[c], CHOOSE b \in reply.out : TRUE))
  ELSE Error("missing")

OnSecret(c) ==
  /\ Receives(c, "assert")
  /\ op[c].name = "secret"
  /\ Walked(c)
  /\ Finish(c, SecretOutcome(c, Got(c)))
  /\ UNCHANGED <<session, kept, held, cache, trusted>>

OnCredential(c) ==
  /\ Receives(c, "make")
  /\ Finish(c, Ok(Got(c).id, << >>))
  /\ UNCHANGED <<session, memory, trusted>>

\* Error::Hid: no reply within READ_TIMEOUT, or no device.
OnTimeout(c) ==
  /\ Faults
  /\ want[c] # "none"
  /\ inbox[c] = << >>
  /\ trusted' = [trusted EXCEPT ![c] = FALSE]
  /\ Finish(c, Error("hid"))
  /\ UNCHANGED <<inbox, session, memory>>

Resume(c) ==
  \/ OnCtapError(c) \/ OnMisfit(c) \/ OnGarbled(c) \/ OnInfo(c) \/ OnRetries(c)
  \/ OnEmpty(c) \/ OnAgreement(c) \/ OnToken(c) \/ OnAssertion(c) \/ OnSecret(c)
  \/ OnCredential(c) \/ OnTimeout(c)

ClientStep(c) ==
  \/ Resume(c) \/ Invoke(c) \/ Open(c)
  \/ \E o \in plan.ops : List(c, o)
=============================================================================
