------------------------------ MODULE Ctap2Link ------------------------------
(***************************************************************************)
(* Whole CTAP2 messages between the clients of src/src/cmd and the         *)
(* authenticator: Transport::transact of src/src/hid.rs seen from above,   *)
(* as CtapHid models it from below.  A client's replies come in the order  *)
(* the authenticator answered; a request the client no longer waits for    *)
(* may still be taken, answered, refused out of turn, or lose its reply.   *)
(* A client that opens the device anew has another channel: what it asked  *)
(* on the old one may still be carried out, but is not answered to it.     *)
(***************************************************************************)
EXTENDS Naturals, Sequences

CONSTANTS
  Clients,   \* Authenticator values of independent threads or processes
  Salts,     \* hmac-secret salts
  LineCap,   \* requests of one client the authenticator may still have to take
  Faults     \* TRUE when calls may time out and replies may be lost

ASSUME LinkAssumption ==
  /\ LineCap \in Nat \ {0}
  /\ Faults \in BOOLEAN

VARIABLES
  line,    \* line[c]: requests of c not answered yet
  inbox,   \* inbox[c]: replies to c not read yet
  opened   \* opened[c]: requests c had sent when it opened its channel

link == <<line, inbox, opened>>

\* A request of a channel that was given up.
Orphan(c, request) == request.from[2] <= opened[c]

-----------------------------------------------------------------------------
\* Request n of client c, and the n-th operation of client c.
Call == Clients \X Nat

\* What both ends of an ECDH exchange compute: from the authenticator's key,
\* numbered by how often it was replaced, and the platform's, named by the
\* getKeyAgreement request it was made for.
Secret == [dev : Nat, plat : Call]

NoKey == << >>

\* AES-CBC under a shared secret.  Opened with another key it gives as many
\* blocks of noise.
Box(secret, plain) == [key |-> secret, plain |-> plain]
Unbox(secret, box, noise) == IF box.key = secret THEN box.plain ELSE noise

-----------------------------------------------------------------------------
Pins == {"none", "right", "wrong"}

\* The PIN a request owes its user verification to; "unsure" when the token
\* was fetched by a Transport that had failed before.
Given == Pins \cup {"unsure"}

Kinds == {"info", "retries", "agree", "token", "assert", "next", "make", "reset", "wink"}

\* Sets of at most one element are optional fields.
Request ==
  [kind : Kinds, from : Call, hash : Call, given : Given,
   plat : Call \cup {NoKey},
   pin : SUBSET [key : Secret, plain : Pins],
   auth : SUBSET Nat,
   allow : SUBSET Nat,
   salt : SUBSET [key : Secret, plain : Seq(Salts)]]

\* A request without parameters.  `hash` stands for the clientDataHash, fresh
\* for every operation; no one looks at `given`.
Bare(kind, from, hash, given) ==
  [kind |-> kind, from |-> from, hash |-> hash, given |-> given, plat |-> NoKey,
   pin |-> {}, auth |-> {}, allow |-> {}, salt |-> {}]

Noise == [cred |-> 0, salt |-> "noise", uv |-> FALSE]

Statuses == {"ok", "pinInvalid", "noCredentials", "notAllowed", "denied"}

\* The signed part of an assertion is `cred`, `hash` and `out`; `id` is the
\* credential it names.
Reply(r, status) ==
  [of |-> r.from, kind |-> r.kind, hash |-> r.hash, status |-> status,
   key |-> 0, token |-> {}, id |-> {}, cred |-> {}, out |-> {}, pinSet |-> FALSE]
=============================================================================
