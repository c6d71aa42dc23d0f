--------------------------- MODULE Parsers_proofs ---------------------------
(***************************************************************************)
(* For every reply a device can send: the walks over authData stay inside  *)
(* it and end where its layout says, what is well-formed is accepted, keys *)
(* and secrets are the ones that were sent, every field comes from its own *)
(* key, and a status byte survives.                                        *)
(***************************************************************************)
EXTENDS Parsers, SequenceTheorems, FiniteSetTheorems, TLAPS

Lens ==
  blob.len \in Nat /\ blob.idLen \in Nat /\ blob.key \in Nat /\ blob.ext \in Nat /\ offset \in Nat

\* Where a walk is, by its step.
Walk ==
  /\ at = "attested" => Has("ED") /\ Has("AT") /\ offset = 37 /\ offset <= blob.len
  /\ at = "key" => Has("AT") /\ offset = 55 + blob.idLen /\ offset <= blob.len
  /\ at = "key" /\ job = "extensions" => Has("ED")
  /\ at = "rest" =>
       /\ Has("ED") /\ offset = ExtensionsAt /\ offset <= blob.len
       /\ Has("AT") => blob.key > 0
  /\ at = "output" => offset = ExtensionsAt /\ Has("ED") /\ WellFormed
  /\ at \in {"echo", "verify"} => offset = ExtensionsAt /\ offset <= blob.len /\ Has("AT")
  /\ at \in {"attested", "rest", "output"} => job = "extensions"
  /\ at \in {"idle", "start"} => result = "none"

Inside == Lens /\ Walk /\ NoPanic

\* Nothing has been read before a reply is opened.
LEMMA InsideInit == Init => Inside
<1> SUFFICES ASSUME Init PROVE Inside
  OBVIOUS
<1>1. Lens /\ Walk
  BY DEF Init, AuthIdle, Lens, Walk, NoBlob
<1>2. NoPanic
  BY DEF Init, AuthIdle, NoPanic, NoBlob, Part, Blocks, AES_BLOCK
<1> QED
  BY <1>1, <1>2 DEF Inside

\* The last slice stays inside when the blob is still the one it was taken of.
LEMMA SliceKept ==
  ASSUME NoPanic, UNCHANGED <<blob, slice, sealed>>, result' # "ok" \/ job' # "agreement"
  PROVE  NoPanic'
BY DEF NoPanic, Blocks

\* A slice whose ends were checked.
LEMMA SliceTaken ==
  ASSUME NoPanic, NEW from, NEW to, Slice(from, to), from <= to, to <= blob.len,
         UNCHANGED <<blob, sealed>>, result' # "ok" \/ job' # "agreement"
  PROVE  NoPanic'
<1>1. slice'.from = from /\ slice'.to = to
  BY DEF Slice, Part
<1> QED
  BY <1>1 DEF NoPanic, Blocks

LEMMA U16IsNat == \A n \in U16 : n \in Nat
BY SMTT(30) DEF U16

LEMMA BlobLens ==
  ASSUME NEW b \in Blob
  PROVE  b.len \in Nat /\ b.idLen \in Nat /\ b.key \in Nat /\ b.ext \in Nat
<1>1. b.len \in Nat /\ b.key \in Nat /\ b.ext \in Nat
  BY DEF Blob
<1>2. b.idLen \in U16
  BY DEF Blob
<1> QED
  BY <1>1, <1>2, U16IsNat

LEMMA NoBlobIsBlob == NoBlob \in Blob
<1>1. {} \in SUBSET {"AT", "ED"} /\ 0 \in U16
  BY DEF U16
<1> QED
  BY <1>1 DEF NoBlob, Blob

\* Opening a reply starts a walk at the first byte of some authData.
LEMMA InsideLoad ==
  ASSUME Inside, at = "idle", offset = 0, slice = Part(0, 0),
         NEW j, NEW b \in Blob, NEW n, Load(j, b, n)
  PROVE  Inside'
<1>1. Lens'
  BY BlobLens DEF Inside, Lens, Load
<1>2. at' = "start" /\ result' = "none"
  BY DEF Inside, Walk, Load
<1>3. Walk'
  BY <1>2 DEF Walk
<1>4. slice'.from = 0 /\ slice'.to = 0 /\ sealed' = sealed
  BY DEF Load, Part
<1>5. NoPanic'
  BY <1>1, <1>2, <1>4 DEF Inside, Lens, NoPanic, Blocks
<1> QED
  BY <1>1, <1>3, <1>5 DEF Inside

-----------------------------------------------------------------------------
(* decode_extensions. *)

LEMMA InsideHeader == ASSUME Inside, CheckHeader PROVE Inside'
<1>0. blob' = blob /\ job' = "extensions" /\ job = "extensions" /\ sealed' = sealed
  BY DEF CheckHeader, Walks, Step
<1>1. Lens'
  BY <1>0 DEF Inside, Lens, CheckHeader, Goto, End, AUTH_DATA_HEADER
<1>2. Walk'
  BY <1>0 DEF Inside, Lens, Walk, CheckHeader, Goto, End, AUTH_DATA_HEADER, Has, ExtensionsAt
<1>3. NoPanic'
  <2>1. CASE UNCHANGED slice
    BY <1>0, <2>1, SliceKept DEF Inside
  <2>2. CASE Slice(32, 33) /\ blob.len >= AUTH_DATA_HEADER
    BY <1>0, <2>2, SliceTaken DEF Inside, Lens, AUTH_DATA_HEADER
  <2> QED
    BY <2>1, <2>2 DEF CheckHeader
<1> QED
  BY <1>1, <1>2, <1>3 DEF Inside

LEMMA InsideAttested == ASSUME Inside, CheckAttested PROVE Inside'
<1>0. blob' = blob /\ job' = "extensions" /\ job = "extensions" /\ sealed' = sealed
  BY DEF CheckAttested, Walks, Step
<1>1. Lens'
  BY <1>0 DEF Inside, Lens, CheckAttested, Goto, End, ATTESTED_FIXED
<1>2. Walk'
  BY <1>0 DEF Inside, Lens, Walk, CheckAttested, Walks, Step, Goto, End, ATTESTED_FIXED, Has
<1>3. NoPanic'
  <2>1. CASE UNCHANGED slice
    BY <1>0, <2>1, SliceKept DEF Inside
  <2>2. CASE Slice(offset + 16, offset + 18) /\ blob.len >= offset + ATTESTED_FIXED
    BY <1>0, <2>2, SliceTaken DEF Inside, Lens, ATTESTED_FIXED
  <2> QED
    BY <2>1, <2>2 DEF CheckAttested
<1> QED
  BY <1>1, <1>2, <1>3 DEF Inside

LEMMA InsideKey == ASSUME Inside, SkipKey PROVE Inside'
<1>0. /\ blob' = blob /\ job' = "extensions" /\ job = "extensions" /\ at = "key"
      /\ UNCHANGED <<slice, sealed>>
  BY DEF SkipKey, Walks, Step
<1>1. Lens'
  BY <1>0 DEF Inside, Lens, SkipKey, Goto, End
<1>2. Walk'
  BY <1>0 DEF Inside, Lens, Walk, SkipKey, Goto, End, IsItem, Has, ExtensionsAt
<1>3. NoPanic'
  BY <1>0, SliceKept DEF Inside
<1> QED
  BY <1>1, <1>2, <1>3 DEF Inside

LEMMA InsideRest == ASSUME Inside, DecodeRest PROVE Inside'
<1>0. /\ blob' = blob /\ job' = "extensions" /\ job = "extensions" /\ at = "rest"
      /\ sealed' = sealed
  BY DEF DecodeRest, Walks, Step
<1>1. Lens'
  BY <1>0 DEF Inside, Lens, DecodeRest, Goto, End
<1>2. Walk'
  BY <1>0 DEF Inside, Lens, Walk, DecodeRest, Goto, End, IsRest, Has, ExtensionsAt, WellFormed
<1>3. Slice(offset, blob.len) /\ offset <= blob.len
  BY <1>0 DEF Inside, Walk, DecodeRest
<1>4. NoPanic'
  BY <1>0, <1>3, SliceTaken DEF Inside, Lens
<1> QED
  BY <1>1, <1>2, <1>4 DEF Inside

-----------------------------------------------------------------------------
(* parse_credential. *)

LEMMA InsideCredential == ASSUME Inside, CheckCredential PROVE Inside'
<1>0. blob' = blob /\ job' = "credential" /\ job = "credential" /\ sealed' = sealed
  BY DEF CheckCredential, Reads, Step
<1>1. Lens'
  BY <1>0 DEF Inside, Lens, CheckCredential, Goto, End
<1>2. Walk'
  BY <1>0 DEF Inside, Lens, Walk, CheckCredential, Goto, End, Has
<1>3. NoPanic'
  <2>1. CASE UNCHANGED slice
    BY <1>0, <2>1, SliceKept DEF Inside
  <2>2. CASE blob.len >= 55 /\ (Slice(32, 33) \/ Slice(53, 55))
    BY <1>0, <2>2, SliceTaken DEF Inside, Lens
  <2>3. CASE Slice(55, 55 + blob.idLen) /\ 55 + blob.idLen <= blob.len
    BY <1>0, <2>3, SliceTaken DEF Inside, Lens
  <2> QED
    BY <2>1, <2>2, <2>3 DEF CheckCredential
<1> QED
  BY <1>1, <1>2, <1>3 DEF Inside

LEMMA InsideParseKey == ASSUME Inside, ParseKey PROVE Inside'
<1>0. /\ blob' = blob /\ job' = "credential" /\ job = "credential" /\ at = "key"
      /\ sealed' = sealed
  BY DEF ParseKey, Reads, Step
<1>1. \/ at' = "done" /\ offset' = offset /\ slice' = slice
      \/ /\ at' = "echo" /\ offset' = offset + blob.key
         /\ IsItem(blob.key) /\ Slice(offset, offset + blob.key)
  BY DEF ParseKey, Goto, End
<1>2. Lens'
  BY <1>0, <1>1 DEF Inside, Lens
<1>3. Walk'
  BY <1>0, <1>1 DEF Inside, Lens, Walk, IsItem, Has, ExtensionsAt
<1>4. NoPanic'
  <2>1. CASE slice' = slice
    BY <1>0, <2>1, SliceKept DEF Inside
  <2>2. CASE IsItem(blob.key) /\ Slice(offset, offset + blob.key)
    BY <1>0, <2>2, SliceTaken DEF Inside, Lens, IsItem
  <2> QED
    BY <1>1, <2>1, <2>2
<1> QED
  BY <1>2, <1>3, <1>4 DEF Inside

LEMMA InsideEcho == ASSUME Inside, ParseEcho PROVE Inside'
<1>0. /\ blob' = blob /\ job' = "credential" /\ job = "credential" /\ at = "echo"
      /\ sealed' = sealed
  BY DEF ParseEcho, Reads, Step
<1>1. Lens'
  BY <1>0 DEF Inside, Lens, ParseEcho, Goto, End
<1>2. Walk'
  BY <1>0 DEF Inside, Lens, Walk, ParseEcho, Goto, End, Has, ExtensionsAt
<1>3. NoPanic'
  <2>1. CASE UNCHANGED slice
    BY <1>0, <2>1, SliceKept DEF Inside
  <2>2. CASE offset < blob.len /\ Slice(offset, blob.len)
    BY <1>0, <2>2, SliceTaken DEF Inside, Lens
  <2> QED
    BY <2>1, <2>2 DEF ParseEcho
<1> QED
  BY <1>1, <1>2, <1>3 DEF Inside

LEMMA InsideVerify == ASSUME Inside, VerifyWithKey PROVE Inside'
<1>0. /\ blob' = blob /\ job' = "credential" /\ job = "credential"
      /\ at' = "done" /\ UNCHANGED <<offset, slice, sealed>>
  BY DEF VerifyWithKey, Reads, Step, End
<1>1. Lens' /\ Walk'
  BY <1>0 DEF Inside, Lens, Walk
<1>2. NoPanic'
  BY <1>0, SliceKept DEF Inside
<1> QED
  BY <1>1, <1>2 DEF Inside

-----------------------------------------------------------------------------
\* What is decrypted or copied has the length that was checked.
LEMMA InsideStrings ==
  ASSUME Inside, NoOutput \/ TakeOutput \/ TakeToken \/ AgreeOnKey
  PROVE  Inside'
<1>0. /\ UNCHANGED <<blob, job, offset, slice>> /\ at' = "done"
      /\ sealed' = sealed \/ Blocks(sealed')
      /\ job = "agreement" /\ result' = "ok" => Wide(key')
  <2>1. CASE NoOutput
    BY <2>1 DEF NoOutput, Walks, Step, End
  <2>2. CASE TakeOutput
    BY <2>2 DEF TakeOutput, Step, End, Decrypt
  <2>3. CASE TakeToken
    BY <2>3 DEF TakeToken, Step, End, Decrypt
  <2>4. CASE AgreeOnKey
    BY <2>4 DEF AgreeOnKey, Step, End, ParseP256
  <2> QED
    BY <2>1, <2>2, <2>3, <2>4
<1>1. Lens' /\ Walk'
  BY <1>0 DEF Inside, Lens, Walk
<1>2. NoPanic'
  BY <1>0 DEF Inside, NoPanic, Blocks
<1> QED
  BY <1>1, <1>2 DEF Inside

-----------------------------------------------------------------------------
\* Before a reply is opened no job has moved.
Waiting == at = "idle" => offset = 0 /\ slice = Part(0, 0)

LEMMA WaitingNext == ASSUME Waiting, [Next]_vars PROVE Waiting'
<1>1. at' = "idle" => UNCHANGED <<at, offset, slice>>
  <2>1. CASE AuthNext
    BY <2>1 DEF AuthNext, CheckHeader, CheckAttested, SkipKey, DecodeRest, NoOutput, TakeOutput,
      TakeToken, CheckCredential, ParseKey, ParseEcho, VerifyWithKey, AgreeOnKey, Goto, End
  <2>2. CASE OpenReply
    BY <2>2 DEF OpenReply, Load
  <2>3. CASE UNCHANGED auth
    BY <2>3 DEF auth
  <2> QED
    BY <2>1, <2>2, <2>3 DEF Next, vars
<1> QED
  BY <1>1 DEF Waiting

LEMMA InsideNext == ASSUME Inside, Waiting, [Next]_vars PROVE Inside'
<1>1. CASE UNCHANGED auth
  BY <1>1 DEF Inside, Lens, Walk, NoPanic, WellFormed, ExtensionsAt, Has, auth
<1>2. CASE OpenReply
  <2>0. NoBlob \in Blob
    BY NoBlobIsBlob
  <2>1. NoBlob \in Blob /\ Blobs \subseteq Blob
    BY <2>0, BlobAssumption
  <2>2. \E b \in Blob : \E j, n : Load(j, b, n)
    BY <1>2, <2>1 DEF OpenReply
  <2>3. PICK b \in Blob : \E j, n : Load(j, b, n)
    BY <2>2
  <2>4. PICK j, n : Load(j, b, n)
    BY <2>3
  <2>5. at = "idle" /\ offset = 0 /\ slice = Part(0, 0)
    BY <2>4 DEF Waiting, Load
  <2> QED
    BY <2>4, <2>5, InsideLoad
<1>3. CASE AuthNext
  BY <1>3, InsideHeader, InsideAttested, InsideKey, InsideRest, InsideCredential,
     InsideParseKey, InsideEcho, InsideVerify, InsideStrings DEF AuthNext
<1> QED
  BY <1>1, <1>2, <1>3 DEF Next, vars

LEMMA InsideAlways == Spec => []Inside
<1>1. Init => Waiting
  BY DEF Init, AuthIdle, Waiting
<1> QED
  BY <1>1, InsideInit, InsideNext, WaitingNext, PTL DEF Spec

-----------------------------------------------------------------------------
\* No slice, index, copy or assert! of the parsers can panic, whatever lengths
\* authData, its credential id, its CBOR items and the sealed strings have
\* (decode_extensions, parse_credential, parse_authdata_pubkey, get_pin_token).
THEOREM ParsersNeverPanic == Spec => []NoPanic
<1>1. Inside => NoPanic
  BY DEF Inside
<1> QED
  BY <1>1, InsideAlways, PTL

\* Both walks reach the extensions where the layout of authData has them, and
\* decode_extensions only in an authData that ends with them.
THEOREM WalksFollowLayout == Spec => []LayoutFollowed
<1>1. Inside => LayoutFollowed
  BY DEF Inside, Walk, LayoutFollowed
<1> QED
  BY <1>1, InsideAlways, PTL

-----------------------------------------------------------------------------
(* What decode_extensions and call_hmac_secret accept. *)

\* Nothing well-formed is refused on the way.
Accepting == Inside /\ WellFormedAccepted

LEMMA AcceptingStep == ASSUME Accepting, AuthNext PROVE WellFormedAccepted'
<1>. Inside /\ Lens /\ Walk /\ UNCHANGED blob /\ at # "done"
  BY DEF Accepting, Inside, AuthNext, CheckHeader, CheckAttested, SkipKey, DecodeRest, NoOutput, TakeOutput,
     TakeToken, CheckCredential, ParseKey, ParseEcho, VerifyWithKey, AgreeOnKey, Walks, Reads, Step
<1>. SUFFICES ASSUME at' = "done", WellFormed
              PROVE  /\ job' = "extensions" /\ Has("ED") => offset' = ExtensionsAt /\ result' # "cbor"
                     /\ job' = "credential" /\ Has("AT") => result' \in {"ok", "pin"}
  BY DEF WellFormedAccepted, WellFormed, ExtensionsAt, Has
<1>1. CASE CheckHeader
  BY <1>1 DEF CheckHeader, Walks, Step, Goto, End, Has, WellFormed, ExtensionsAt, Lens, AUTH_DATA_HEADER
<1>2. CASE CheckAttested
  BY <1>2 DEF CheckAttested, Walks, Step, Goto, End, Has, WellFormed, ExtensionsAt, Lens, ATTESTED_FIXED, Walk
<1>3. CASE SkipKey
  BY <1>3 DEF SkipKey, Walks, Step, Goto, End, Has, WellFormed, ExtensionsAt, Lens, IsItem, Walk
<1>4. CASE DecodeRest
  BY <1>4 DEF DecodeRest, Walks, Step, Goto, End, Has, WellFormed, ExtensionsAt, Lens, IsRest, Walk
<1>5. CASE NoOutput
  BY <1>5 DEF NoOutput, Walks, Step, End, Walk
<1>6. CASE TakeOutput
  BY <1>6 DEF TakeOutput, Step, End, Walk, Decrypted
<1>7. CASE TakeToken \/ AgreeOnKey
  BY <1>7 DEF TakeToken, AgreeOnKey, Step
<1>8. CASE CheckCredential
  BY <1>8 DEF CheckCredential, Reads, Step, Goto, End, Has, WellFormed, ExtensionsAt, Lens
<1>9. CASE ParseKey
  BY <1>9 DEF ParseKey, Reads, Step, Goto, End, Has, WellFormed, ExtensionsAt, Lens, IsItem, Walk
<1>10. CASE ParseEcho
  BY <1>10 DEF ParseEcho, Reads, Step, Goto, End, Has, WellFormed, ExtensionsAt, Lens, IsRest, Walk
<1>11. CASE VerifyWithKey
  BY <1>11 DEF VerifyWithKey, Reads, Step, End
<1>12. QED
  BY <1>1, <1>2, <1>3, <1>4, <1>5, <1>6, <1>7, <1>8, <1>9, <1>10, <1>11 DEF AuthNext

\* A well-formed authData with what the caller needs is never refused by
\* decode_extensions or parse_credential, whatever the lengths in it are.
THEOREM WellFormedIsAccepted == Spec => []WellFormedAccepted
<1>1. Init => WellFormedAccepted
  BY DEF Init, AuthIdle, WellFormedAccepted
<1>2. Inside /\ WellFormedAccepted /\ [Next]_vars => WellFormedAccepted'
  <2>1. CASE UNCHANGED auth
    BY <2>1 DEF auth, WellFormedAccepted, WellFormed, ExtensionsAt, Has
  <2>2. CASE OpenReply
    BY <2>2 DEF OpenReply, Load, WellFormedAccepted
  <2>3. QED
    BY <2>1, <2>2, AcceptingStep DEF Accepting, Next, vars
<1>3. QED
  BY <1>1, <1>2, InsideAlways, PTL DEF Spec

-----------------------------------------------------------------------------
(* The keys that are kept. *)

\* A key is kept once it was validated, or taken for the agreement.
KeyKept ==
  key # NoCoseKey =>
    \/ job = "credential" /\ at \in {"echo", "verify"} /\ Validate(key)
    \/ at = "done" /\ result # "pin"

LEMMA ValidatedVerifies == ASSUME NEW k, Validate(k) PROVE Verifiable(k)
BY DEF Validate, Verifiable, Wide

LEMMA KeyKeptStep == ASSUME KeyKept, [Next]_vars PROVE KeyKept'
<1>1. CASE UNCHANGED auth
  BY <1>1 DEF auth, KeyKept
<1>2. CASE OpenReply
  BY <1>2 DEF OpenReply, Load, KeyKept
<1>3. CASE CheckHeader \/ CheckAttested \/ SkipKey \/ DecodeRest \/ NoOutput
  BY <1>3 DEF CheckHeader, CheckAttested, SkipKey, DecodeRest, NoOutput, Walks, Step, KeyKept
<1>4. CASE TakeOutput \/ TakeToken
  BY <1>4 DEF TakeOutput, TakeToken, Step, KeyKept
<1>5. CASE CheckCredential
  BY <1>5 DEF CheckCredential, Reads, Step, KeyKept
<1>6. CASE ParseKey
  BY <1>6 DEF ParseKey, Reads, Step, Goto, KeyKept
<1>7. CASE ParseEcho
  BY <1>7 DEF ParseEcho, Reads, Step, Goto, End, KeyKept
<1>8. CASE VerifyWithKey
  BY <1>8, ValidatedVerifies DEF VerifyWithKey, Reads, Step, End, KeyKept
<1>9. CASE AgreeOnKey
  BY <1>9 DEF AgreeOnKey, Step, End, KeyKept
<1>10. QED
  BY <1>1, <1>2, <1>3, <1>4, <1>5, <1>6, <1>7, <1>8, <1>9 DEF Next, AuthNext, vars

\* A credential key that validate took has every field that verify asks for, so
\* CredentialPublicKey::verify never refuses it for one.
THEOREM ValidKeysVerify == Spec => []ValidKeyVerifies
<1>1. Init => KeyKept
  BY DEF Init, AuthIdle, KeyKept
<1>2. KeyKept => ValidKeyVerifies
  BY DEF KeyKept, ValidKeyVerifies
<1>3. QED
  BY <1>1, <1>2, KeyKeptStep, PTL DEF Spec

-----------------------------------------------------------------------------
(* Secrets. *)

SecretsKept ==
  /\ salts \in 1..2
  /\ result # "none" => at = "done"
  /\ EverySaltAnswered

LEMMA SecretsKeptStep == ASSUME SecretsKept, [Next]_vars PROVE SecretsKept'
<1>1. CASE UNCHANGED auth
  BY <1>1 DEF auth, SecretsKept, EverySaltAnswered
<1>2. CASE OpenReply
  <2>1. \E j, b : \E n \in 1..2 : Load(j, b, n)
    BY <1>2 DEF OpenReply
  <2>2. QED
    BY <2>1 DEF Load, SecretsKept, EverySaltAnswered
<1>3. CASE CheckHeader \/ CheckAttested \/ SkipKey \/ DecodeRest \/ NoOutput
  BY <1>3 DEF CheckHeader, CheckAttested, SkipKey, DecodeRest, NoOutput, Walks, Step, Goto, End,
     SecretsKept, EverySaltAnswered
<1>4. CASE TakeOutput
  <2>1. PICK n \in Lengths :
          \/ result' = "pin"
          \/ /\ result' = Decrypted(n)
             /\ secrets' = IF Decrypted(n) = "ok" THEN n \div 32 ELSE 0
             /\ sealed' = n
    BY <1>4 DEF TakeOutput, Decrypt, End
  <2>2. UNCHANGED <<salts, job>> /\ at' = "done"
    BY <1>4 DEF TakeOutput, Step, End
  <2>3. ASSUME result' = "ok"
        PROVE  salts <= secrets' /\ (sealed' = 32 * salts => secrets' = salts)
    <3>1. Decrypted(n) = "ok" /\ secrets' = n \div 32 /\ sealed' = n
      BY <2>1, <2>3
    <3>2. n = 64 \/ (n = 32 /\ salts # 2)
      BY <3>1 DEF Decrypted
    <3>3. QED
      BY <3>1, <3>2 DEF SecretsKept
  <2>4. QED
    BY <2>2, <2>3 DEF SecretsKept, EverySaltAnswered
<1>5. CASE TakeToken \/ AgreeOnKey
  BY <1>5 DEF TakeToken, AgreeOnKey, Step, End, SecretsKept, EverySaltAnswered
<1>6. CASE CheckCredential \/ ParseKey \/ ParseEcho \/ VerifyWithKey
  BY <1>6 DEF CheckCredential, ParseKey, ParseEcho, VerifyWithKey, Reads, Step, Goto, End,
     SecretsKept, EverySaltAnswered
<1>7. QED
  BY <1>1, <1>2, <1>3, <1>4, <1>5, <1>6 DEF Next, AuthNext, vars

\* Whatever the length of what the device sealed, call_hmac_secret that returns
\* has a secret for every salt that was sent, and no more than that when the
\* device sealed one output for each.
THEOREM EverySaltIsAnswered == Spec => []EverySaltAnswered
<1>1. Init => SecretsKept
  BY DEF Init, AuthIdle, SecretsKept, EverySaltAnswered
<1>2. SecretsKept => EverySaltAnswered
  BY DEF SecretsKept
<1>3. QED
  BY <1>1, <1>2, SecretsKeptStep, PTL DEF Spec

-----------------------------------------------------------------------------
(* From the map of a reply to its fields. *)

\* A set of numbers has a least one: of the intervals below them one is smallest.
LEMMA LeastIsMember ==
  ASSUME NEW H \in SUBSET Nat, H # {}
  PROVE  Min(H) \in H
<1>. DEFINE Below(x) == 1..x
           T == {Below(x) : x \in H}
           R == StrictSubsetOrdering(Nat)
<1>1. \A x \in Nat : Below(x) \in SUBSET Nat /\ IsFiniteSet(Below(x))
  BY FS_Interval
<1>2. IsWellFoundedOn(R, FiniteSubsetsOf(Nat))
  BY FS_StrictSubsetOrderingWellFounded
<1>3. T \subseteq FiniteSubsetsOf(Nat) /\ T # {}
  BY <1>1 DEF FiniteSubsetsOf
<1>4. PICK t \in T : \A u \in T : ~(<<u, t>> \in R)
  <2>. HIDE DEF T, R
  <2>1. QED
    BY <1>2, <1>3, WFMin
<1>5. PICK x \in H : t = Below(x)
  BY <1>4
<1>6. ASSUME NEW y \in H
      PROVE  x <= y
  <2>1. x \in Nat /\ y \in Nat
    OBVIOUS
  <2>2. ASSUME y < x
        PROVE  FALSE
    <3>1. Below(y) \subseteq Below(x)
      BY <2>1, <2>2
    <3>2. x \in Below(x) /\ x \notin Below(y)
      BY <2>1, <2>2
    <3>3. Below(x) \in SUBSET Nat /\ Below(y) \in SUBSET Nat
      BY <1>1, <2>1
    <3>. HIDE DEF Below
    <3>4. <<Below(y), Below(x)>> \in R
      BY <3>1, <3>2, <3>3 DEF StrictSubsetOrdering
    <3>5. QED
      BY <1>4, <1>5, <3>4
  <2>3. QED
    BY <2>1, <2>2
<1>7. \E z \in H : \A y \in H : z <= y
  BY <1>6
<1>8. QED
  BY <1>7 DEF Min

\* Nothing but the entry taken out is lost.
LEMMA SwapRemoveKeeps ==
  ASSUME NEW S, NEW s \in Seq(S), NEW i \in DOMAIN s
  PROVE  /\ SwapRemove(s, i) \in Seq(S)
         /\ \A k \in DOMAIN s : k # i =>
              \E m \in DOMAIN SwapRemove(s, i) : SwapRemove(s, i)[m] = s[k]
<1>. DEFINE n == Len(s)
           t == [s EXCEPT ![i] = s[n]]
<1>1. n \in Nat /\ DOMAIN s = 1..n /\ i \in 1..n /\ n >= 1 /\ s[n] \in S
  BY ElementOfSeq, LenProperties
<1>2. t \in Seq(S) /\ Len(t) = n /\ \A j \in 1..n : t[j] = IF j = i THEN s[n] ELSE s[j]
  BY <1>1, ExceptSeq
<1>. HIDE DEF t
<1>3. /\ SubSeq(t, 1, n - 1) \in Seq(S) /\ DOMAIN SubSeq(t, 1, n - 1) = 1..(n - 1)
      /\ \A j \in 1..(n - 1) : SubSeq(t, 1, n - 1)[j] = t[j]
  <2>1. \A j \in 1..(n - 1) : t[j] \in S
    BY <1>1, <1>2, ElementOfSeq
  <2>2. QED
    BY <1>1, <1>2, <2>1, SubSeqProperties, LenProperties
<1>4. ASSUME NEW k \in DOMAIN s, k # i
      PROVE  \E m \in 1..(n - 1) : t[m] = s[k]
  <2>1. CASE k = n
    <3>1. i \in 1..(n - 1) /\ t[i] = s[k]
      BY <1>1, <1>2, <1>4, <2>1
    <3>2. QED
      BY <3>1
  <2>2. CASE k # n
    <3>1. k \in 1..(n - 1) /\ t[k] = s[k]
      BY <1>1, <1>2, <1>4, <2>2
    <3>2. QED
      BY <3>1
  <2>3. QED
    BY <2>1, <2>2
<1>5. SwapRemove(s, i) = SubSeq(t, 1, n - 1)
  BY DEF SwapRemove, t
<1>6. QED
  BY <1>3, <1>4, <1>5

FieldType == [key : 0..20, types : SUBSET Types, needed : BOOLEAN]

LEMMA FieldTypes == ASSUME NEW p \in DOMAIN Fields PROVE Fields[p] \in Seq(FieldType)
<1>1. p \in {"assertion", "credential", "agreement", "token", "retries", "info", "reset"}
  BY DEF Fields
<1>2. CASE p = "assertion"
  BY <1>2 DEF Fields, FieldType, Field, Needs, MayHave, Types
<1>3. CASE p = "credential"
  BY <1>3 DEF Fields, FieldType, Field, Needs, MayHave, Types
<1>4. CASE p \in {"agreement", "token", "retries"}
  <2>1. \A k \in 1..3 : \A type \in {"cose", "bytes", "u8"} : Needs(k, type) \in FieldType
    BY DEF FieldType, Field, Needs, Types
  <2>2. Fields[p] \in {<<Needs(1, "cose")>>, <<Needs(2, "bytes")>>, <<Needs(3, "u8")>>}
    BY <1>4 DEF Fields
  <2>. HIDE DEF FieldType, Needs
  <2>3. QED
    BY <2>1, <2>2
<1>5. CASE p = "reset"
  <2>1. Fields[p] = << >>
    BY <1>5 DEF Fields
  <2>2. QED
    BY <2>1
<1>6. CASE p = "info"
  <2>. DEFINE F == Fields["info"]
  <2>1. \A k \in 1..20 : F[k] \in FieldType
    BY DEF Fields, FieldType, Field, MayHave, Types
  <2>2. DOMAIN F = 1..20 /\ F = [k \in 1..20 |-> F[k]]
    BY DEF Fields
  <2>. HIDE DEF F
  <2>3. F \in Seq(FieldType)
    BY <2>1, <2>2, IsASeq
  <2>4. QED
    BY <1>6, <2>3 DEF F
<1>7. QED
  BY <1>1, <1>2, <1>3, <1>4, <1>5, <1>6

\* The parsers that take fields out of the map ask for each key once.
LEMMA KeysOnce ==
  ASSUME NEW p \in DOMAIN Fields, Takes(p),
         NEW i \in DOMAIN Fields[p], NEW j \in DOMAIN Fields[p], i # j
  PROVE  Fields[p][i].key # Fields[p][j].key
<1>1. CASE p = "assertion"
  <2>1. DOMAIN Fields[p] = 1..5 /\ \A k \in 1..5 : Fields[p][k].key = k
    BY <1>1 DEF Fields, Field, Needs, MayHave
  <2>2. QED
    BY <2>1
<1>2. CASE p = "credential"
  <2>1. DOMAIN Fields[p] = 1..4 /\ \A k \in 1..4 : Fields[p][k].key = k
    BY <1>2 DEF Fields, Field, Needs, MayHave
  <2>2. QED
    BY <2>1
<1>3. QED
  BY <1>1, <1>2 DEF Takes

-----------------------------------------------------------------------------
(* Types. *)

ResponseTypes ==
  /\ parser \in DOMAIN Fields
  /\ reply \in [status : 0..255, shape : Shapes, map : Maps \cup {<< >>}]
  /\ entries \in Seq(DOMAIN reply.map)
  /\ found \in Seq(SUBSET DOMAIN reply.map)
  /\ ahead \in Seq(FieldType)
  /\ Len(found) + Len(ahead) <= Len(Fields[parser])

\* The entry a field is taken from, and what is left of the map.
LEMMA TakenEntry ==
  ASSUME ResponseTypes, ahead # << >>, Hits(Head(ahead).key) # {}
  PROVE  LET i == Min(Hits(Head(ahead).key))
         IN  /\ i \in DOMAIN entries /\ entries[i] \in DOMAIN reply.map
             /\ KeyOf(entries[i]) = Head(ahead).key
             /\ SwapRemove(entries, i) \in Seq(DOMAIN reply.map)
             /\ \A k \in DOMAIN entries : k # i =>
                  \E m \in DOMAIN SwapRemove(entries, i) : SwapRemove(entries, i)[m] = entries[k]
<1>. DEFINE H == Hits(Head(ahead).key)
            i == Min(H)
<1>1. entries \in Seq(DOMAIN reply.map)
  BY DEF ResponseTypes
<1>2. DOMAIN entries \subseteq Nat
  BY <1>1, LenProperties
<1>3. H \in SUBSET Nat /\ H \subseteq DOMAIN entries
  BY <1>2 DEF Hits
<1>4. i \in H
  BY <1>3, LeastIsMember
<1>5. i \in DOMAIN entries /\ KeyOf(entries[i]) = Head(ahead).key
  BY <1>4 DEF Hits
<1>6. entries[i] \in DOMAIN reply.map
  BY <1>1, <1>5, ElementOfSeq, LenProperties
<1>. HIDE DEF i
<1>7. /\ SwapRemove(entries, i) \in Seq(DOMAIN reply.map)
      /\ \A k \in DOMAIN entries : k # i =>
           \E m \in DOMAIN SwapRemove(entries, i) : SwapRemove(entries, i)[m] = entries[k]
  BY <1>1, <1>5, SwapRemoveKeeps
<1>8. QED
  BY <1>5, <1>6, <1>7 DEF i

LEMMA NextField ==
  ASSUME ResponseTypes, ahead # << >>
  PROVE  /\ Head(ahead) \in FieldType /\ Head(ahead) = ahead[1] /\ 1 \in DOMAIN ahead
         /\ Tail(ahead) \in Seq(FieldType) /\ Len(Tail(ahead)) = Len(ahead) - 1
         /\ \A j \in DOMAIN Tail(ahead) : j + 1 \in DOMAIN ahead /\ Tail(ahead)[j] = ahead[j + 1]
<1>1. ahead \in Seq(FieldType)
  BY DEF ResponseTypes
<1>2. /\ Head(ahead) \in FieldType /\ Head(ahead) = ahead[1]
      /\ Tail(ahead) \in Seq(FieldType) /\ Len(Tail(ahead)) = Len(ahead) - 1
      /\ \A j \in 1..Len(Tail(ahead)) : Tail(ahead)[j] = ahead[j + 1]
  BY <1>1, HeadTailProperties
<1>3. Len(ahead) \in Nat /\ Len(ahead) # 0 /\ DOMAIN ahead = 1..Len(ahead)
      /\ DOMAIN Tail(ahead) = 1..(Len(ahead) - 1)
  BY <1>1, <1>2, EmptySeq, LenProperties
<1>4. QED
  BY <1>2, <1>3

\* What a lookup finds.
Found ==
  LET hits == Hits(Head(ahead).key)
  IN  IF hits # {} /\ TypeOf(entries[Min(hits)]) \in Head(ahead).types
      THEN {entries[Min(hits)]} ELSE {}

LEMMA LookUpTypes ==
  ASSUME ResponseTypes, LookUp
  PROVE  /\ ResponseTypes' /\ UNCHANGED <<parser, reply>>
         /\ outcome = <<"parsing">> /\ ahead # << >> /\ ahead' = Tail(ahead)
         /\ found' = Append(found, Found) /\ Found \in SUBSET DOMAIN reply.map
         /\ Len(found') = Len(found) + 1 /\ Len(found) \in Nat
         /\ \/ Head(ahead).needed /\ Found = {} /\ outcome' = <<"parse">>
            \/ ~(Head(ahead).needed /\ Found = {}) /\ outcome' = outcome
         /\ \/ entries' = entries
            \/ /\ Takes(parser) /\ Hits(Head(ahead).key) # {}
               /\ entries' = SwapRemove(entries, Min(Hits(Head(ahead).key)))
<1>. DEFINE hits == Hits(Head(ahead).key)
            fits == hits # {} /\ TypeOf(entries[Min(hits)]) \in Head(ahead).types
<1>1. /\ UNCHANGED <<parser, reply>> /\ outcome = <<"parsing">> /\ ahead # << >>
      /\ ahead' = Tail(ahead)
      /\ entries' = IF Takes(parser) /\ hits # {} THEN SwapRemove(entries, Min(hits)) ELSE entries
      /\ found' = Append(found, IF fits THEN {entries[Min(hits)]} ELSE {})
      /\ outcome' = IF Head(ahead).needed /\ ~fits THEN <<"parse">> ELSE outcome
  BY DEF LookUp
<1>2. Found = IF fits THEN {entries[Min(hits)]} ELSE {}
  BY DEF Found
<1>3. hits # {} => Min(hits) \in DOMAIN entries /\ entries[Min(hits)] \in DOMAIN reply.map
                   /\ SwapRemove(entries, Min(hits)) \in Seq(DOMAIN reply.map)
  BY <1>1, TakenEntry
<1>4. Found \in SUBSET DOMAIN reply.map /\ (fits <=> Found # {})
  BY <1>2, <1>3
<1>. HIDE DEF fits, hits
<1>5. found \in Seq(SUBSET DOMAIN reply.map) /\ entries \in Seq(DOMAIN reply.map)
  BY DEF ResponseTypes
<1>6. found' = Append(found, Found)
  BY <1>1, <1>2
<1>7. found' \in Seq(SUBSET DOMAIN reply.map) /\ Len(found') = Len(found) + 1 /\ Len(found) \in Nat
  BY <1>4, <1>5, <1>6, AppendProperties, LenProperties
<1>8. entries' \in Seq(DOMAIN reply.map)
  BY <1>1, <1>3, <1>5
<1>9. ahead' \in Seq(FieldType) /\ Len(ahead') = Len(ahead) - 1 /\ Len(ahead) \in Nat
  BY <1>1, NextField, LenProperties DEF ResponseTypes
<1>10. Fields' = Fields
  BY DEF Fields
<1>11. ResponseTypes'
  <2>1. Len(Fields[parser]) \in Nat
    BY FieldTypes, LenProperties DEF ResponseTypes
  <2>2. Len(found') + Len(ahead') <= Len(Fields[parser])
    BY <1>7, <1>9, <2>1 DEF ResponseTypes
  <2>3. QED
    BY <1>1, <1>7, <1>8, <1>9, <2>2 DEF ResponseTypes
<1>12. QED
  BY <1>1, <1>4, <1>6, <1>7, <1>11 DEF hits

\* What becomes of the reply itself.
LEMMA ReplyIs == Init => ResponseTypes
<1>. SUFFICES ASSUME Init PROVE ResponseTypes
  OBVIOUS
<1>1. /\ parser \in DOMAIN Fields /\ entries = << >> /\ found = << >> /\ ahead = Fields[parser]
  BY DEF Init, ResponseInit
<1>2. reply \in [status : 0..255, shape : Shapes, map : Maps \cup {<< >>}]
  <2>1. CASE \E m \in Maps : reply = [status |-> 0, shape |-> "map", map |-> m]
    BY <2>1 DEF Shapes
  <2>2. CASE reply \in [status : Statuses, shape : Shapes \ {"map"}, map : {<< >>}]
    BY <2>2, StatusAssumption
  <2>3. QED
    BY <2>1, <2>2 DEF Init, ResponseInit
<1>3. ahead \in Seq(FieldType)
  BY <1>1, FieldTypes
<1>4. Len(found) + Len(ahead) <= Len(Fields[parser])
  BY <1>1, <1>3, LenProperties
<1>5. QED
  BY <1>1, <1>2, <1>3, <1>4 DEF ResponseTypes

LEMMA ReadTypes ==
  ASSUME ResponseTypes, ReadStatus
  PROVE  /\ ResponseTypes' /\ UNCHANGED <<parser, reply, ahead, found>>
         /\ \/ /\ outcome' = <<"parsing">> /\ reply.status = 0
               /\ entries' = [i \in DOMAIN reply.map |-> i]
            \/ outcome' = <<"parse">> /\ reply.shape # "map"
            \/ outcome' = <<"ctap", FromByte(reply.status)>>
            \/ outcome' = <<"cbor">>
<1>1. UNCHANGED <<parser, reply, ahead, found>>
  BY DEF ReadStatus, Answer
<1>2. \/ /\ outcome' = <<"parsing">> /\ reply.status = 0
         /\ entries' = [i \in DOMAIN reply.map |-> i]
      \/ entries' = entries /\ outcome' = <<"parse">> /\ reply.shape # "map"
      \/ entries' = entries /\ outcome' = <<"ctap", FromByte(reply.status)>>
      \/ entries' = entries /\ outcome' = <<"cbor">>
  BY DEF ReadStatus, Answer
<1>3. entries' \in Seq(DOMAIN reply.map)
  <2>1. reply.map \in Seq(Entry)
    BY MapAssumption DEF ResponseTypes
  <2>2. DOMAIN reply.map = 1..Len(reply.map) /\ Len(reply.map) \in Nat
    BY <2>1, LenProperties
  <2>3. [i \in 1..Len(reply.map) |-> i] \in Seq(1..Len(reply.map))
    BY <2>2, IsASeq
  <2>4. QED
    BY <1>2, <2>2, <2>3 DEF ResponseTypes
<1>4. QED
  BY <1>1, <1>2, <1>3 DEF ResponseTypes

LEMMA OpenTypes ==
  ASSUME ResponseTypes, OpenReply
  PROVE  ResponseTypes' /\ found' = << >> /\ outcome' = <<"opened">>
<1>1. /\ outcome' = <<"opened">> /\ entries' = << >> /\ found' = << >> /\ UNCHANGED <<parser, ahead>>
      /\ reply' = [status |-> 0, shape |-> "map", map |-> << >>]
  BY DEF OpenReply
<1>2. reply' \in [status : 0..255, shape : Shapes, map : Maps \cup {<< >>}]
  BY <1>1 DEF Shapes
<1>3. Len(found') + Len(ahead') <= Len(Fields[parser])
  <2>1. Len(found) \in Nat /\ Len(ahead) \in Nat /\ Len(Fields[parser]) \in Nat
    BY FieldTypes, LenProperties DEF ResponseTypes
  <2>2. QED
    BY <1>1, <2>1 DEF ResponseTypes
<1>4. QED
  BY <1>1, <1>2, <1>3 DEF ResponseTypes

LEMMA ResponseTypesStep == ResponseTypes /\ [Next]_vars => ResponseTypes'
<1>1. ASSUME ResponseTypes, UNCHANGED response
      PROVE  ResponseTypes'
  BY <1>1 DEF response, ResponseTypes
<1>2. ASSUME ResponseTypes, Parsed
      PROVE  ResponseTypes'
  BY <1>2 DEF Parsed, Answer, ResponseTypes
<1>3. QED
  BY <1>1, <1>2, LookUpTypes, ReadTypes, OpenTypes DEF Next, ResponseNext, vars

AuthTypes ==
  /\ blob \in Blobs \cup {NoBlob}
  /\ key \in Keys \cup {NoCoseKey}
  /\ offset \in 0..blob.len
  /\ salts \in 1..2 /\ secrets \in 0..2
  /\ result \in {"none", "ok", "parse", "cbor", "pin", "missing"}

LEMMA AuthTypesStep == Inside /\ Waiting /\ AuthTypes /\ [Next]_vars => AuthTypes'
<1>. SUFFICES ASSUME Inside, Waiting, AuthTypes, [Next]_vars
              PROVE  AuthTypes'
  OBVIOUS
<1>. Lens /\ Walk
  BY DEF Inside
<1>1. CASE UNCHANGED auth
  BY <1>1 DEF auth, AuthTypes
<1>2. CASE OpenReply
  <2>1. \E j : \E b \in Blobs \cup {NoBlob}, n \in 1..2 : Load(j, b, n)
    BY <1>2 DEF OpenReply
  <2>2. PICK j : \E b \in Blobs \cup {NoBlob}, n \in 1..2 : Load(j, b, n)
    BY <2>1
  <2>3. PICK b \in Blobs \cup {NoBlob}, n \in 1..2 : Load(j, b, n)
    BY <2>2
  <2>4. b \in Blob
    BY BlobAssumption, NoBlobIsBlob
  <2>5. b.len \in Nat
    BY <2>4, BlobLens
  <2>6. offset = 0 /\ offset' = offset /\ blob' = b /\ salts' = n
        /\ UNCHANGED <<key, secrets, result>>
    BY <2>3 DEF Waiting, Load
  <2>7. QED
    BY <2>5, <2>6 DEF AuthTypes
<1>3. CASE CheckHeader \/ CheckAttested \/ SkipKey \/ DecodeRest \/ NoOutput
  BY <1>3 DEF CheckHeader, CheckAttested, SkipKey, DecodeRest, NoOutput, Walks, Step, Goto, End,
     AuthTypes, Lens, Walk, IsItem, AUTH_DATA_HEADER, ATTESTED_FIXED
<1>4. CASE TakeOutput
  <2>1. PICK n \in Lengths :
          \/ result' = "pin" /\ secrets' = secrets
          \/ /\ result' = Decrypted(n)
             /\ secrets' = IF Decrypted(n) = "ok" THEN n \div 32 ELSE 0
    BY <1>4 DEF TakeOutput, End
  <2>2. UNCHANGED <<blob, key, offset, salts>>
    BY <1>4 DEF TakeOutput, Step, End
  <2>3. secrets' \in 0..2 /\ result' \in {"ok", "parse", "pin", "missing"}
    <3>1. Decrypted(n) = "ok" => n \in {32, 64}
      BY DEF Decrypted
    <3>2. Decrypted(n) \in {"ok", "parse", "missing"}
      BY DEF Decrypted
    <3>3. QED
      BY <2>1, <3>1, <3>2 DEF AuthTypes
  <2>4. QED
    BY <2>2, <2>3 DEF AuthTypes
<1>5. CASE TakeToken \/ AgreeOnKey
  BY <1>5 DEF TakeToken, AgreeOnKey, Step, End, AuthTypes
<1>6. CASE CheckCredential \/ ParseKey \/ ParseEcho \/ VerifyWithKey
  BY <1>6 DEF CheckCredential, ParseKey, ParseEcho, VerifyWithKey, Reads, Step, Goto, End,
     AuthTypes, Lens, Walk, IsItem
<1>7. QED
  BY <1>1, <1>2, <1>3, <1>4, <1>5, <1>6 DEF Next, AuthNext, vars

\* Every variable of the parsers keeps its type, whatever a reply holds: the
\* entries left and found are places of the reply, and offsets are in authData.
THEOREM ParserTypes == Spec => []TypeOK
<1>1. Init => ResponseTypes /\ AuthTypes /\ Waiting
  <2>1. Init => ResponseTypes
    BY ReplyIs
  <2>2. Init => AuthTypes /\ Waiting
    BY DEF Init, AuthIdle, AuthTypes, Waiting, NoBlob
  <2>3. QED
    BY <2>1, <2>2
<1>2. ResponseTypes /\ AuthTypes => TypeOK
  <2>. SUFFICES ASSUME ResponseTypes, AuthTypes
                PROVE  TypeOK
    OBVIOUS
  <2>1. \A i \in DOMAIN entries : entries[i] \in DOMAIN reply.map
    BY ElementOfSeq, LenProperties DEF ResponseTypes
  <2>2. \A i \in DOMAIN found : found[i] \in SUBSET DOMAIN reply.map
    <3>1. found \in Seq(SUBSET DOMAIN reply.map)
      BY DEF ResponseTypes
    <3>2. QED
      BY <3>1, ElementOfSeq, LenProperties
  <2>3. QED
    BY <2>1, <2>2 DEF ResponseTypes, AuthTypes, TypeOK
<1>3. QED
  BY <1>1, <1>2, ResponseTypesStep, AuthTypesStep, WaitingNext, InsideAlways, PTL DEF Spec

-----------------------------------------------------------------------------
(* Fields. *)

\* The fields looked for are those ahead, in the order of the parser.
InOrder ==
  outcome # <<"opened">> =>
    /\ Len(found) + Len(ahead) = Len(Fields[parser])
    /\ \A j \in DOMAIN ahead : ahead[j] = Fields[parser][Len(found) + j]

\* What was taken for a field is what the reply has for it.
TakenFor(f, places) == places \subseteq Usable(f) /\ (Distinct => places = Usable(f))

AllTaken == \A i \in DOMAIN found : TakenFor(Fields[parser][i], found[i])

\* No entry a field ahead may come from has been lost.
NothingLost ==
  outcome = <<"parsing">> =>
    \A j \in DOMAIN ahead : \A p \in DOMAIN reply.map :
      KeyOf(p) = ahead[j].key => \E i \in DOMAIN entries : entries[i] = p

Outcomes ==
  /\ outcome = <<"none">> => found = << >>
  /\ outcome \in {<<"parsing">>, <<"ok">>} =>
       /\ reply.status = 0
       /\ \A i \in DOMAIN found : Fields[parser][i].needed => found[i] # {}
  /\ outcome = <<"ok">> => ahead = << >>
  /\ outcome = <<"parse">> /\ reply.shape = "map" =>
       \E i \in DOMAIN found : Fields[parser][i].needed /\ found[i] = {}
  /\ outcome[1] = "ctap" => outcome[2] = FromByte(reply.status)

FieldsInv == ResponseTypes /\ InOrder /\ AllTaken /\ NothingLost /\ Outcomes

\* A lookup takes the value of the field, if the reply has one.
LEMMA FoundIsTaken ==
  ASSUME FieldsInv, outcome = <<"parsing">>, ahead # << >>
  PROVE  TakenFor(Head(ahead), Found)
<1>. DEFINE f == Head(ahead)
            hits == Hits(f.key)
            e == entries[Min(hits)]
<1>1. ResponseTypes /\ NothingLost /\ f = ahead[1] /\ 1 \in DOMAIN ahead
  BY NextField DEF FieldsInv
<1>2. hits # {} => e \in DOMAIN reply.map /\ KeyOf(e) = f.key
  BY <1>1, TakenEntry
<1>3. ASSUME NEW p \in Usable(f)
      PROVE  hits # {} /\ (Distinct => p = e /\ TypeOf(e) \in f.types)
  <2>1. p \in DOMAIN reply.map /\ KeyOf(p) = f.key /\ TypeOf(p) \in f.types
    BY DEF Usable
  <2>2. hits # {}
    BY <1>1, <2>1 DEF NothingLost, Hits
  <2>3. Distinct => p = e
    BY <1>2, <2>1, <2>2 DEF Distinct, IsInjective
  <2>4. QED
    BY <2>1, <2>2, <2>3
<1>4. CASE hits # {} /\ TypeOf(e) \in f.types
  <2>1. Found = {e} /\ e \in Usable(f)
    BY <1>2, <1>4 DEF Found, Usable
  <2>2. QED
    BY <1>3, <2>1 DEF TakenFor
<1>5. CASE ~(hits # {} /\ TypeOf(e) \in f.types)
  <2>1. Found = {}
    BY <1>5 DEF Found
  <2>2. QED
    BY <1>3, <1>5, <2>1 DEF TakenFor
<1>6. QED
  BY <1>4, <1>5

\* swap_remove keeps what the fields after this one may come from.
LEMMA LostNothing ==
  ASSUME FieldsInv, LookUp
  PROVE  \A j \in DOMAIN ahead' : \A p \in DOMAIN reply.map :
           KeyOf(p) = ahead'[j].key => \E i \in DOMAIN entries' : entries'[i] = p
<1>. SUFFICES ASSUME NEW j \in DOMAIN ahead', NEW p \in DOMAIN reply.map, KeyOf(p) = ahead'[j].key
              PROVE  \E i \in DOMAIN entries' : entries'[i] = p
  OBVIOUS
<1>. DEFINE i == Min(Hits(Head(ahead).key))
<1>1. /\ ResponseTypes /\ outcome = <<"parsing">> /\ ahead # << >> /\ ahead' = Tail(ahead)
      /\ \/ entries' = entries
         \/ /\ Takes(parser) /\ Hits(Head(ahead).key) # {}
            /\ entries' = SwapRemove(entries, i)
  BY LookUpTypes DEF FieldsInv
<1>2. /\ Head(ahead) = ahead[1] /\ 1 \in DOMAIN ahead
      /\ j + 1 \in DOMAIN ahead /\ ahead'[j] = ahead[j + 1]
  BY <1>1, NextField
<1>3. PICK k \in DOMAIN entries : entries[k] = p
  BY <1>1, <1>2 DEF FieldsInv, NothingLost
<1>4. CASE entries' = entries
  BY <1>3, <1>4
<1>5. CASE Takes(parser) /\ Hits(Head(ahead).key) # {} /\ entries' = SwapRemove(entries, i)
  <2>1. /\ KeyOf(entries[i]) = Head(ahead).key
        /\ \A m \in DOMAIN entries : m # i =>
             \E n \in DOMAIN SwapRemove(entries, i) : SwapRemove(entries, i)[n] = entries[m]
    BY <1>1, <1>5, TakenEntry
  <2>2. ahead[1].key # ahead[j + 1].key
    <3>. DEFINE F == Fields[parser]
                n == Len(found)
    <3>1. /\ n \in Nat /\ Len(ahead) \in Nat /\ DOMAIN ahead = 1..Len(ahead)
          /\ DOMAIN F = 1..Len(F) /\ Len(F) \in Nat
          /\ j \in Nat /\ j >= 1
      <4>1. DOMAIN ahead' = 1..Len(ahead') /\ Len(ahead') \in Nat
        BY <1>1, NextField, LenProperties
      <4>2. j \in Nat /\ j >= 1
        BY <4>1
      <4>3. QED
        BY <1>1, <4>2, FieldTypes, LenProperties DEF ResponseTypes
    <3>2. n + Len(ahead) = Len(F) /\ \A m \in DOMAIN ahead : ahead[m] = F[n + m]
      BY <1>1 DEF FieldsInv, InOrder
    <3>3. n + 1 \in DOMAIN F /\ n + (j + 1) \in DOMAIN F /\ n + 1 # n + (j + 1)
      BY <1>2, <3>1, <3>2
    <3>4. parser \in DOMAIN Fields
      BY <1>1 DEF ResponseTypes
    <3>5. F[n + 1].key # F[n + (j + 1)].key
      BY <1>5, <3>3, <3>4, KeysOnce
    <3>6. QED
      BY <1>2, <3>2, <3>5
  <2>3. k # i
    BY <1>2, <1>3, <2>1, <2>2
  <2>4. QED
    BY <1>3, <1>5, <2>1, <2>3
<1>6. QED
  BY <1>1, <1>4, <1>5

LEMMA LookUpKeeps == ASSUME FieldsInv, LookUp PROVE FieldsInv'
<1>. DEFINE f == Head(ahead)
            n == Len(found)
<1>1. /\ ResponseTypes /\ ResponseTypes' /\ UNCHANGED <<parser, reply>>
      /\ outcome = <<"parsing">> /\ ahead # << >> /\ ahead' = Tail(ahead)
      /\ found' = Append(found, Found) /\ Len(found') = n + 1 /\ n \in Nat
      /\ \/ f.needed /\ Found = {} /\ outcome' = <<"parse">>
         \/ ~(f.needed /\ Found = {}) /\ outcome' = outcome
  BY LookUpTypes DEF FieldsInv
<1>2. /\ Fields' = Fields /\ Distinct' = Distinct
      /\ \A g : Usable(g)' = Usable(g)
      /\ \A p : KeyOf(p)' = KeyOf(p)
  BY <1>1 DEF Distinct, Usable, KeyOf, TypeOf
<1>3. /\ f = ahead[1] /\ 1 \in DOMAIN ahead /\ Len(ahead') = Len(ahead) - 1
      /\ \A j \in DOMAIN ahead' : j + 1 \in DOMAIN ahead /\ ahead'[j] = ahead[j + 1] /\ j \in Nat
  <2>1. \A j \in DOMAIN ahead' : j \in Nat
    BY <1>1, NextField, LenProperties
  <2>2. QED
    BY <1>1, <2>1, NextField
<1>4. Len(ahead) \in Nat
  BY <1>1, LenProperties DEF ResponseTypes
<1>5. /\ n + Len(ahead) = Len(Fields[parser])
      /\ \A j \in DOMAIN ahead : ahead[j] = Fields[parser][n + j]
  BY <1>1 DEF FieldsInv, InOrder
<1>6. InOrder'
  <2>1. Len(found') + Len(ahead') = Len(Fields[parser])
    BY <1>1, <1>3, <1>4, <1>5
  <2>2. ASSUME NEW j \in DOMAIN ahead'
        PROVE  ahead'[j] = Fields[parser][Len(found') + j]
    <3>1. ahead'[j] = Fields[parser][n + (j + 1)] /\ j \in Nat
      BY <1>3, <1>5
    <3>2. n + (j + 1) = Len(found') + j
      BY <1>1, <3>1
    <3>3. QED
      BY <3>1, <3>2
  <2>3. QED
    BY <1>1, <1>2, <2>1, <2>2 DEF InOrder
<1>7. f = Fields[parser][n + 1]
  BY <1>3, <1>5
<1>8. ASSUME NEW i \in DOMAIN found'
      PROVE  \/ i \in DOMAIN found /\ found'[i] = found[i]
             \/ i = n + 1 /\ found'[i] = Found
  <2>1. found \in Seq(SUBSET DOMAIN reply.map) /\ Found \in SUBSET DOMAIN reply.map
    BY LookUpTypes DEF FieldsInv, ResponseTypes
  <2>2. /\ DOMAIN found = 1..n /\ DOMAIN found' = 1..(n + 1)
        /\ \A k \in 1..n : found'[k] = found[k]
        /\ found'[n + 1] = Found
    BY <1>1, <2>1, AppendProperties, LenProperties
  <2>3. QED
    BY <1>1, <2>2
<1>9. n + 1 \in DOMAIN found' /\ found'[n + 1] = Found
  <2>1. found \in Seq(SUBSET DOMAIN reply.map) /\ Found \in SUBSET DOMAIN reply.map
    BY LookUpTypes DEF FieldsInv, ResponseTypes
  <2>2. QED
    BY <1>1, <2>1, AppendProperties, LenProperties
<1>10. AllTaken'
  <2>1. ASSUME NEW i \in DOMAIN found'
        PROVE  TakenFor(Fields[parser][i], found'[i])
    BY <1>1, <1>7, <1>8, FoundIsTaken DEF FieldsInv, AllTaken
  <2>2. QED
    BY <1>1, <1>2, <2>1 DEF AllTaken, TakenFor
<1>11. NothingLost'
  BY <1>1, <1>2, LostNothing DEF NothingLost
<1>12. Outcomes'
  <2>1. CASE f.needed /\ Found = {} /\ outcome' = <<"parse">>
    <3>1. \E i \in DOMAIN found' : Fields[parser][i].needed /\ found'[i] = {}
      BY <1>7, <1>9, <2>1
    <3>2. QED
      BY <1>1, <1>2, <2>1, <3>1 DEF Outcomes
  <2>2. CASE ~(f.needed /\ Found = {}) /\ outcome' = outcome
    <3>1. /\ reply.status = 0
          /\ \A i \in DOMAIN found : Fields[parser][i].needed => found[i] # {}
      BY <1>1 DEF FieldsInv, Outcomes
    <3>2. \A i \in DOMAIN found' : Fields[parser][i].needed => found'[i] # {}
      BY <1>7, <1>8, <2>2, <3>1
    <3>3. QED
      BY <1>1, <1>2, <2>2, <3>1, <3>2 DEF Outcomes
  <2>3. QED
    BY <1>1, <2>1, <2>2
<1>13. QED
  BY <1>1, <1>6, <1>10, <1>11, <1>12 DEF FieldsInv

LEMMA FieldsStep == FieldsInv /\ [Next]_vars => FieldsInv'
<1>. SUFFICES ASSUME FieldsInv, [Next]_vars
              PROVE  FieldsInv'
  OBVIOUS
<1>. ResponseTypes /\ ResponseTypes'
  BY ResponseTypesStep DEF FieldsInv
<1>1. CASE UNCHANGED response
  <2>1. UNCHANGED <<parser, reply, entries, ahead, found, outcome>>
    BY <1>1 DEF response
  <2>2. /\ Fields' = Fields /\ Distinct' = Distinct
        /\ \A g : Usable(g)' = Usable(g)
        /\ \A p : KeyOf(p)' = KeyOf(p)
    BY <2>1 DEF Fields, Distinct, Usable, KeyOf, TypeOf
  <2>3. FromByte(reply.status)' = FromByte(reply.status)
    BY <2>1 DEF FromByte, Named
  <2>4. InOrder'
    BY <2>1, <2>2 DEF FieldsInv, InOrder
  <2>5. AllTaken'
    BY <2>1, <2>2 DEF FieldsInv, AllTaken, TakenFor
  <2>6. NothingLost'
    BY <2>1, <2>2 DEF FieldsInv, NothingLost
  <2>7. Outcomes'
    BY <2>1, <2>2, <2>3 DEF FieldsInv, Outcomes
  <2>8. QED
    BY <2>4, <2>5, <2>6, <2>7 DEF FieldsInv
<1>2. CASE LookUp
  BY <1>2, LookUpKeeps
<1>3. CASE ReadStatus
  <2>1. /\ UNCHANGED <<parser, reply, ahead, found>>
        /\ \/ /\ outcome' = <<"parsing">> /\ reply.status = 0
              /\ entries' = [i \in DOMAIN reply.map |-> i]
           \/ outcome' = <<"parse">> /\ reply.shape # "map"
           \/ outcome' = <<"ctap", FromByte(reply.status)>>
           \/ outcome' = <<"cbor">>
    BY <1>3, ReadTypes
  <2>2. outcome = <<"none">> /\ found = << >> /\ DOMAIN found = {}
    <3>1. DOMAIN << >> = {}
      OBVIOUS
    <3>2. QED
      BY <1>3, <3>1 DEF ReadStatus, FieldsInv, Outcomes
  <2>3. Fields' = Fields /\ FromByte(reply.status)' = FromByte(reply.status)
    BY <2>1 DEF Fields, FromByte, Named
  <2>4. InOrder' /\ AllTaken'
    BY <2>1, <2>2, <2>3 DEF FieldsInv, InOrder, AllTaken
  <2>5. NothingLost'
    BY <2>1 DEF NothingLost
  <2>6. Outcomes'
    BY <2>1, <2>2, <2>3 DEF Outcomes
  <2>7. QED
    BY <2>4, <2>5, <2>6 DEF FieldsInv
<1>4. CASE Parsed
  <2>1. /\ outcome = <<"parsing">> /\ outcome' = <<"ok">> /\ ahead = << >>
        /\ UNCHANGED <<parser, reply, entries, ahead, found>>
    BY <1>4 DEF Parsed, Answer
  <2>2. Fields' = Fields /\ Distinct' = Distinct /\ \A g : Usable(g)' = Usable(g)
    BY <2>1 DEF Fields, Distinct, Usable, KeyOf, TypeOf
  <2>3. QED
    BY <2>1, <2>2 DEF FieldsInv, InOrder, AllTaken, TakenFor, NothingLost, Outcomes
<1>5. CASE OpenReply
  <2>1. found' = << >> /\ outcome' = <<"opened">> /\ DOMAIN << >> = {}
    BY <1>5, OpenTypes
  <2>2. QED
    BY <2>1 DEF FieldsInv, InOrder, AllTaken, NothingLost, Outcomes
<1>6. QED
  BY <1>1, <1>2, <1>3, <1>4, <1>5 DEF Next, ResponseNext, vars

LEMMA FieldsAlways == Spec => []FieldsInv
<1>1. Init => FieldsInv
  <2>. SUFFICES ASSUME Init PROVE FieldsInv
    OBVIOUS
  <2>1. ResponseTypes
    BY ReplyIs
  <2>2. ahead = Fields[parser] /\ found = << >> /\ outcome = <<"none">> /\ DOMAIN << >> = {} /\ Len(<< >>) = 0
    BY DEF Init, ResponseInit
  <2>3. Len(ahead) \in Nat /\ DOMAIN ahead = 1..Len(ahead)
    BY <2>1, LenProperties DEF ResponseTypes
  <2>4. QED
    BY <2>1, <2>2, <2>3 DEF FieldsInv, InOrder, AllTaken, NothingLost, Outcomes
<1>2. QED
  BY <1>1, FieldsStep, PTL DEF Spec

\* Every parser takes every field from its own key, and refuses a map exactly
\* when a needed field is not in it: swap_remove loses no entry that a later
\* take_int_field looks for, in whatever order the device sends them.
THEOREM FieldsAreTheReplys == Spec => []FieldsAreReplys
<1>1. FieldsInv => FieldsAreReplys
  <2>. SUFFICES ASSUME FieldsInv
                PROVE  FieldsAreReplys
    OBVIOUS
  <2>1. \A i \in DOMAIN found : TakenFor(Fields[parser][i], found[i])
    BY DEF FieldsInv, AllTaken
  <2>2. ASSUME Distinct, reply.shape = "map", outcome = <<"parse">>
        PROVE  \E i \in DOMAIN found : Fields[parser][i].needed /\ Usable(Fields[parser][i]) = {}
    BY <2>1, <2>2 DEF FieldsInv, Outcomes, TakenFor
  <2>3. ASSUME Distinct, outcome = <<"ok">>, NEW i \in DOMAIN Fields[parser], Fields[parser][i].needed
        PROVE  Usable(Fields[parser][i]) # {}
    <3>1. ahead = << >> /\ Len(ahead) = 0
      BY <2>3 DEF FieldsInv, Outcomes
    <3>2. Len(found) = Len(Fields[parser])
      <4>1. Len(found) \in Nat /\ Len(found) + Len(ahead) = Len(Fields[parser])
        BY <2>3, LenProperties DEF FieldsInv, InOrder, ResponseTypes
      <4>2. QED
        BY <3>1, <4>1
    <3>3. i \in DOMAIN found
      BY <3>2, FieldTypes, LenProperties DEF FieldsInv, ResponseTypes
    <3>4. found[i] # {}
      BY <2>3, <3>3 DEF FieldsInv, Outcomes
    <3>5. QED
      BY <2>1, <2>3, <3>3, <3>4 DEF TakenFor
  <2>4. QED
    BY <2>1, <2>2, <2>3 DEF FieldsAreReplys, TakenFor
<1>2. QED
  BY <1>1, FieldsAlways, PTL

\* CtapStatus keeps every byte.
LEMMA BytesSurvive == ASSUME NEW b PROVE AsByte(FromByte(b)) = b
<1>1. CASE b \in Range(Named)
  <2>. DEFINE name == AntiFunction(Named)[b]
  <2>1. name = CHOOSE s \in DOMAIN Named : b \in Range(Named) => Named[s] = b
    BY <1>1 DEF AntiFunction, Inverse
  <2>2. \E s \in DOMAIN Named : Named[s] = b
    BY <1>1 DEF Range
  <2>3. name \in DOMAIN Named /\ Named[name] = b
    BY <1>1, <2>1, <2>2
  <2>4. "Other" \notin DOMAIN Named
    BY DEF Named
  <2>5. FromByte(b) = <<name>>
    BY <1>1 DEF FromByte
  <2>. HIDE DEF name
  <2>6. QED
    BY <2>3, <2>4, <2>5 DEF AsByte
<1>2. CASE b \notin Range(Named)
  BY <1>2 DEF FromByte, AsByte
<1>3. QED
  BY <1>1, <1>2

\* The status byte of an Error::Ctap is the one the device sent, named or not,
\* and what is parsed came with CTAP1_ERR_SUCCESS.
THEOREM StatusBytesSurvive == Spec => []StatusSurvives
<1>1. FieldsInv => StatusSurvives
  BY BytesSurvive DEF FieldsInv, Outcomes, StatusSurvives
<1>2. QED
  BY <1>1, FieldsAlways, PTL
=============================================================================
