------------------------------- MODULE Parsers -------------------------------
(***************************************************************************)
(* A reply from its status byte to what the caller gets: the fields first, *)
(* then the byte string or the key among them that is looked into.         *)
(***************************************************************************)
EXTENDS Responses, AuthData

vars == <<response, auth>>

Init == ResponseInit /\ AuthIdle

Job ==
  [assertion |-> "extensions", credential |-> "credential", agreement |-> "agreement",
   token |-> "token"]

\* What the string is, is not looked at before; the other fields are done with.
OpenReply ==
  /\ outcome = <<"ok">>
  /\ parser \in DOMAIN Job
  /\ outcome' = <<"opened">>
  /\ reply' = [status |-> 0, shape |-> "map", map |-> << >>]
  /\ entries' = << >> /\ found' = << >>
  /\ UNCHANGED <<parser, ahead>>
  /\ \/ parser = "assertion" /\ \E b \in Blobs, n \in 1..2 : Load("extensions", b, n)
     \/ parser = "credential" /\ \E b \in Blobs : Load("credential", b, 1)
     \/ parser \in {"agreement", "token"} /\ Load(Job[parser], NoBlob, 1)

Next ==
  \/ ResponseNext /\ UNCHANGED auth
  \/ OpenReply
  \/ AuthNext /\ UNCHANGED response

Spec == Init /\ [][Next]_vars

-----------------------------------------------------------------------------
TypeOK ==
  /\ parser \in DOMAIN Fields
  /\ reply \in [status : 0..255, shape : Shapes, map : Maps \cup {<< >>}]
  /\ \A i \in DOMAIN entries : entries[i] \in DOMAIN reply.map
  /\ \A i \in DOMAIN found : found[i] \subseteq DOMAIN reply.map
  /\ Len(found) + Len(ahead) <= Len(Fields[parser])
  /\ blob \in Blobs \cup {NoBlob}
  /\ key \in Keys \cup {NoCoseKey}
  /\ offset \in 0..blob.len
  /\ salts \in 1..2 /\ secrets \in 0..2
  /\ result \in {"none", "ok", "parse", "cbor", "pin", "missing"}
=============================================================================
