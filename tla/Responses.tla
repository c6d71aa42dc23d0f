----------------------------- MODULE Responses -----------------------------
(***************************************************************************)
(* From the status byte to the fields: transact, CtapStatus, cbor.rs and   *)
(* the parsers of the replies.  A reply's map is the sequence of its       *)
(* entries; parse_response takes fields out with swap_remove, which moves  *)
(* the last entry to the gap, the other parsers look them up in place.     *)
(***************************************************************************)
EXTENDS Integers, Sequences, FiniteSetsExt, Functions

CONSTANTS
  Maps,      \* sequences of Entry
  Statuses   \* status bytes

\* "desc": a map whose "id" is a byte string; "cose": a COSE_Key; u8 and u32:
\* integers that fit.  Keys that no parser asks for are 0.
Types == {"bytes", "text", "desc", "map", "cose", "array", "bool", "u8", "u32", "big"}

Entry == [key : 0..20, type : Types]

ASSUME MapAssumption == Maps \subseteq Seq(Entry)
ASSUME StatusAssumption == Statuses \subseteq 0..255

VARIABLES
  parser,
  reply,    \* the reply: status byte, shape and entries
  entries,  \* the entries that are left, by their places in the reply
  ahead,    \* the fields still to be looked for
  found,    \* the entry taken for each field so far, if any
  outcome

response == <<parser, reply, entries, ahead, found, outcome>>

-----------------------------------------------------------------------------
(* CtapStatus. *)

Named ==
  [Ok |-> 0, InvalidCommand |-> 1, ChannelBusy |-> 6, CborUnexpectedType |-> 17,
   InvalidCbor |-> 18, MissingParameter |-> 19, OperationDenied |-> 39,
   KeepaliveCancel |-> 45, NoCredentials |-> 46, UserActionTimeout |-> 47,
   PinInvalid |-> 49, PinBlocked |-> 50, PinAuthInvalid |-> 51, PinAuthBlocked |-> 52,
   PinNotSet |-> 53, PinRequired |-> 54, PinPolicyViolation |-> 55]

\* Mutant: a byte without a name loses its value.
FromByte_Unnamed(b) == IF b \in Range(Named) THEN <<AntiFunction(Named)[b]>> ELSE <<"Other", 1>>

FromByte(b) == IF b \in Range(Named) THEN <<AntiFunction(Named)[b]>> ELSE <<"Other", b>>

AsByte(status) == IF status[1] = "Other" THEN status[2] ELSE Named[status[1]]

-----------------------------------------------------------------------------
(* cbor.rs. *)

KeyOf(place) == reply.map[place].key
TypeOf(place) == reply.map[place].type

Hits(k) == {i \in DOMAIN entries : KeyOf(entries[i]) = k}

\* Mutant: the gap is closed by dropping what follows it.
SwapRemove_Truncates(s, i) == SubSeq(s, 1, i - 1)

SwapRemove(s, i) == SubSeq([s EXCEPT ![i] = s[Len(s)]], 1, Len(s) - 1)

-----------------------------------------------------------------------------
(* The fields each parser asks for, in its order. *)

Field(k, types, needed) == [key |-> k, types |-> types, needed |-> needed]
Needs(k, type) == Field(k, {type}, TRUE)
MayHave(k, types) == Field(k, types, FALSE)

Fields ==
  [assertion  |-> <<MayHave(1, {"desc"}), Needs(2, "bytes"), Needs(3, "bytes"),
                    MayHave(4, {"desc"}), MayHave(5, {"u8", "u32"})>>,
   credential |-> <<Needs(1, "text"), Needs(2, "bytes"), Field(3, Types, TRUE),
                    MayHave(4, {"bytes"})>>,
   agreement  |-> <<Needs(1, "cose")>>,
   token      |-> <<Needs(2, "bytes")>>,
   retries    |-> <<Needs(3, "u8")>>,
   info       |-> [k \in 1..20 |->
                     MayHave(k, CASE k \in {1, 2, 6, 9, 10} -> {"array"}
                                  [] k = 3 -> {"bytes"}
                                  [] k = 4 -> {"map", "desc", "cose"}
                                  [] k = 12 -> {"bool"}
                                  [] k = 19 -> {}
                                  [] OTHER -> {"u8", "u32"})],
   reset      |-> << >>]

\* The parsers that take ownership of the map, which must be one.
Takes(p) == p \in {"assertion", "credential"}

Shapes == {"map", "other", "broken", "empty"}

ResponseInit ==
  /\ parser \in DOMAIN Fields
  /\ reply \in {[status |-> 0, shape |-> "map", map |-> m] : m \in Maps}
            \cup [status : Statuses, shape : Shapes \ {"map"}, map : {<< >>}]
  /\ entries = << >> /\ ahead = Fields[parser] /\ found = << >> /\ outcome = <<"none">>

Answer(o) == outcome' = o /\ UNCHANGED <<parser, reply, entries, ahead, found>>

\* Transport::transact, and cbor::decode.  "empty" is a reply without a byte.
ReadStatus ==
  /\ outcome = <<"none">>
  /\ \/ reply.shape = "empty" /\ Answer(<<"parse">>)
     \/ reply.shape # "empty" /\ reply.status # 0 /\ Answer(<<"ctap", FromByte(reply.status)>>)
     \/ reply.status = 0 /\ reply.shape = "broken" /\ parser # "reset" /\ Answer(<<"cbor">>)
     \/ reply.status = 0 /\ reply.shape = "other" /\ Takes(parser) /\ Answer(<<"parse">>)
     \/ /\ reply.status = 0
        /\ \/ reply.shape = "map"
           \/ reply.shape = "other" /\ ~Takes(parser)
           \/ reply.shape = "broken" /\ parser = "reset"
        /\ entries' = [i \in DOMAIN reply.map |-> i]
        /\ outcome' = <<"parsing">>
        /\ UNCHANGED <<parser, reply, ahead, found>>

\* take_int_field or get_int_field, and the test of the type.  "parse" stands
\* for Error::Parse and for the Error::Pin of pin.rs.
LookUp ==
  LET f == Head(ahead)
      hits == Hits(f.key)
      fits == hits # {} /\ TypeOf(entries[Min(hits)]) \in f.types
  IN  /\ outcome = <<"parsing">>
      /\ ahead # << >>
      /\ ahead' = Tail(ahead)
      /\ entries' = IF Takes(parser) /\ hits # {} THEN SwapRemove(entries, Min(hits)) ELSE entries
      /\ found' = Append(found, IF fits THEN {entries[Min(hits)]} ELSE {})
      /\ outcome' = IF f.needed /\ ~fits THEN <<"parse">> ELSE outcome
      /\ UNCHANGED <<parser, reply>>

Parsed ==
  /\ outcome = <<"parsing">>
  /\ ahead = << >>
  /\ Answer(<<"ok">>)

ResponseNext == ReadStatus \/ LookUp \/ Parsed

-----------------------------------------------------------------------------
\* The places of the reply where field k has a usable value.
Usable(f) == {i \in DOMAIN reply.map : KeyOf(i) = f.key /\ TypeOf(i) \in f.types}

\* No key twice, as CTAP2 demands of its maps.
Distinct == IsInjective([i \in DOMAIN reply.map |-> KeyOf(i)])

\* The parsers take every field from its own key, whatever the order of the
\* entries and whatever else the map has, and refuse a reply exactly when a
\* needed field is missing: swap_remove never loses or hides an entry.  Of a
\* key sent twice one of the values is taken.
FieldsAreReplys ==
  /\ \A i \in DOMAIN found :
       LET f == Fields[parser][i]
       IN  found[i] \subseteq Usable(f) /\ (Distinct => found[i] = Usable(f))
  /\ Distinct /\ reply.shape = "map" =>
       /\ outcome = <<"parse">> =>
            \E i \in DOMAIN found : Fields[parser][i].needed /\ Usable(Fields[parser][i]) = {}
       /\ outcome = <<"ok">> =>
            \A i \in DOMAIN Fields[parser] :
              Fields[parser][i].needed => Usable(Fields[parser][i]) # {}

\* "Unknown bytes flow through `Other` losslessly" (src/tests/primitives.rs:20):
\* the byte of an Error::Ctap is the one the device sent, and only success is
\* parsed.
StatusSurvives ==
  /\ outcome[1] = "ctap" => AsByte(outcome[2]) = reply.status
  /\ outcome = <<"ok">> => reply.status = 0
=============================================================================
