---------------------------- MODULE CallContract ----------------------------
(***************************************************************************)
(* What the layers above (src/src/cmd) may rely on when they call a        *)
(* Transport of src/src/hid.rs: no reports, no queues, no channels.  A     *)
(* Transport is trusted from open until one of its calls returns a Hid or  *)
(* Parse error.  A trusted one answers the request just sent; the other    *)
(* may answer any request it ever sent, but still never another handle's.  *)
(***************************************************************************)
EXTENDS Naturals

CONSTANT Handles

VARIABLES
  phase,     \* "closed", "opening", "ready" or "called"
  asked,     \* requests sent by a handle so far
  trusted,
  result,    \* what the last call returned, and the requests it answers
  done       \* requests the authenticator has carried out

contractVars == <<phase, asked, trusted, result, done>>

NoResult == [res |-> "none", of |-> {}]

ContractInit ==
  /\ phase = [h \in Handles |-> "closed"]
  /\ asked = [h \in Handles |-> 0]
  /\ trusted = [h \in Handles |-> FALSE]
  /\ result = [h \in Handles |-> NoResult]
  /\ done = {}

Move(h, from, to) ==
  /\ phase[h] = from
  /\ phase' = [phase EXCEPT ![h] = to]

Results(h, res, of) == result' = [result EXCEPT ![h] = [res |-> res, of |-> of]]

StartOpen(h) ==
  /\ Move(h, "closed", "opening")
  /\ Results(h, "none", {})
  /\ UNCHANGED <<asked, trusted, done>>

Opened(h) ==
  /\ Move(h, "opening", "ready")
  /\ trusted' = [trusted EXCEPT ![h] = TRUE]
  /\ UNCHANGED <<asked, result, done>>

OpenFailed(h) ==
  /\ Move(h, "opening", "closed")
  /\ \E e \in {"hid", "parse"} : Results(h, e, {})
  /\ UNCHANGED <<asked, trusted, done>>

Closed(h) ==
  /\ Move(h, "ready", "closed")
  /\ UNCHANGED <<asked, trusted, result, done>>

Ask(h) ==
  /\ Move(h, "ready", "called")
  /\ asked' = [asked EXCEPT ![h] = @ + 1]
  /\ Results(h, "none", {})
  /\ UNCHANGED <<trusted, done>>

Refused(h) ==
  /\ phase[h] = "ready"
  /\ Results(h, "parse", {})
  /\ UNCHANGED <<phase, asked, trusted, done>>

\* Each request is carried out at most once: nothing below retries.
CarryOut(h, k) ==
  /\ k \in 1..asked[h]
  /\ <<h, k>> \notin done
  /\ done' = done \cup {<<h, k>>}
  /\ UNCHANGED <<phase, asked, trusted, result>>

Answer(h) ==
  /\ trusted[h]
  /\ Move(h, "called", "ready")
  /\ \/ Results(h, "ctap", {<<h, asked[h]>>})
     \/ <<h, asked[h]>> \in done /\ Results(h, "ok", {<<h, asked[h]>>})
  /\ UNCHANGED <<asked, trusted, done>>

AnyAnswer(h) ==
  /\ ~trusted[h]
  /\ Move(h, "called", "ready")
  /\ \E of \in SUBSET ({h} \X (0..asked[h])) :
       \/ Results(h, "ctap", of)
       \/ of \subseteq done /\ Results(h, "ok", of)
  /\ UNCHANGED <<asked, trusted, done>>

Fail(h) ==
  /\ Move(h, "called", "ready")
  /\ trusted' = [trusted EXCEPT ![h] = FALSE]
  /\ \E e \in {"hid", "parse"} : Results(h, e, {})
  /\ UNCHANGED <<asked, done>>

ContractNext ==
  \E h \in Handles :
    \/ StartOpen(h) \/ Opened(h) \/ OpenFailed(h) \/ Closed(h)
    \/ Ask(h) \/ Refused(h) \/ Answer(h) \/ AnyAnswer(h) \/ Fail(h)
    \/ \E k \in 1..asked[h] : CarryOut(h, k)

ContractSpec == ContractInit /\ [][ContractNext]_contractVars
=============================================================================
