------------------------------ MODULE AuthData ------------------------------
(***************************************************************************)
(* The byte strings inside the replies, by their lengths: authData as      *)
(* decode_extensions and parse_credential walk it, the hmac-secret output, *)
(* and the encrypted pinUvAuthToken.  The lengths are the device's.        *)
(*                                                                         *)
(*   rpIdHash(32) flags(1) signCount(4)                                    *)
(*     [AT: aaguid(16) credIdLen(2) credId credPubKey]  [ED: extensions]   *)
(***************************************************************************)
EXTENDS CoseKeys

CONSTANTS
  Blobs,     \* authData byte strings
  Keys,      \* COSE_Key maps
  Lengths    \* lengths of strings under AES-CBC

AUTH_DATA_HEADER == 37
ATTESTED_FIXED == 16 + 2
AES_BLOCK == 16

U16 == 0..65535

\* `key` and `ext` are the lengths of the CBOR items that begin where the key
\* and the extensions are looked for, 0 when there is none.
Blob == [len : Nat, flags : SUBSET {"AT", "ED"}, idLen : U16, key : Nat, ext : Nat]

NoBlob == [len |-> 0, flags |-> {}, idLen |-> 0, key |-> 0, ext |-> 0]

ASSUME BlobAssumption == Blobs \subseteq Blob
ASSUME KeyAssumption == Keys \subseteq CoseKey
ASSUME LengthAssumption == Lengths \subseteq Nat

VARIABLES
  blob,
  job,      \* "extensions", "credential", "agreement" or "token"
  at,       \* the step of the job
  offset,   \* where in the blob it is
  key,      \* the COSE_Key read
  salts,    \* salts that were sent
  secrets,  \* secrets returned
  slice,    \* the last index or slice of authData
  sealed,   \* the length last given to AES-CBC
  result

auth == <<blob, job, at, offset, key, salts, secrets, slice, sealed, result>>

Part(from, to) == [from |-> from, to |-> to]

AuthIdle ==
  /\ blob = NoBlob /\ job = "none" /\ at = "idle" /\ offset = 0
  /\ key = NoCoseKey /\ salts = 1 /\ secrets = 0 /\ result = "none"
  /\ slice = Part(0, 0) /\ sealed = AES_BLOCK

\* A reply of `j` was taken: its byte string or key is looked into.
Load(j, b, n) ==
  /\ at = "idle"
  /\ job' = j /\ blob' = b /\ salts' = n /\ at' = "start"
  /\ UNCHANGED <<offset, key, secrets, slice, sealed, result>>

-----------------------------------------------------------------------------
Has(flag) == flag \in blob.flags

Step(j, step) == job = j /\ at = step /\ UNCHANGED <<blob, job, salts>>

\* A step of a walk: nothing is decrypted and no key is taken.
Walks(step) ==
  Step("extensions", step) /\ UNCHANGED <<key, secrets, sealed>>

Goto(step, o) == at' = step /\ offset' = o /\ UNCHANGED result

End(r) == at' = "done" /\ result' = r /\ UNCHANGED offset

\* auth_data[from..to]
Slice(from, to) == slice' = Part(from, to)

\* ciborium::from_reader at `offset`, and cbor::decode of all the rest.
IsItem(n) == n > 0 /\ offset + n <= blob.len
IsRest(n) == n > 0 /\ offset + n = blob.len

-----------------------------------------------------------------------------
(* decode_extensions. *)

CheckHeader ==
  /\ Walks("start")
  /\ \/ blob.len < AUTH_DATA_HEADER /\ UNCHANGED slice /\ End("parse")
     \/ /\ blob.len >= AUTH_DATA_HEADER
        /\ Slice(32, 33)
        /\ \/ ~Has("ED") /\ End("missing")
           \/ Has("ED") /\ Goto(IF Has("AT") THEN "attested" ELSE "rest", AUTH_DATA_HEADER)

\* Mutants: the length of the id is taken on trust; its own bytes are not counted.
CheckAttested_Trusting ==
  /\ Walks("attested")
  /\ Slice(offset + 16, offset + 18)
  /\ Goto("rest", offset + ATTESTED_FIXED + blob.idLen)

CheckAttested_NoLength ==
  /\ Walks("attested")
  /\ UNCHANGED slice
  /\ Goto("key", offset + 16 + blob.idLen)

CheckAttested ==
  LET next == offset + ATTESTED_FIXED + blob.idLen
  IN  /\ Walks("attested")
      /\ \/ blob.len < offset + ATTESTED_FIXED /\ UNCHANGED slice /\ End("parse")
         \/ /\ blob.len >= offset + ATTESTED_FIXED
            /\ Slice(offset + 16, offset + 18)
            /\ \/ next > blob.len /\ End("parse")
               \/ next <= blob.len /\ Goto("key", next)

\* Mutant: the key is taken to be as long as one of ES256.
SkipKey_Fixed ==
  /\ Walks("key")
  /\ UNCHANGED slice
  /\ \/ ~IsItem(77) /\ End("cbor")
     \/ IsItem(77) /\ Goto("rest", offset + 77)

SkipKey ==
  /\ Walks("key")
  /\ UNCHANGED slice
  /\ \/ ~IsItem(blob.key) /\ End("cbor")
     \/ IsItem(blob.key) /\ Goto("rest", offset + blob.key)

DecodeRest ==
  /\ Walks("rest")
  /\ Slice(offset, blob.len)
  /\ \/ ~IsRest(blob.ext) /\ End("cbor")
     \/ IsRest(blob.ext) /\ Goto("output", offset)

-----------------------------------------------------------------------------
(* call_hmac_secret from there, and the token of get_pin_token. *)

Blocks(n) == n > 0 /\ n % AES_BLOCK = 0

\* aes256_cbc_decrypt asserts that it was given whole blocks.
Decrypt(n) == sealed' = n

NoOutput == Walks("output") /\ UNCHANGED slice /\ End("missing")

\* Mutant: half of the answer passes for all of it.
Decrypted_Half(n) == IF n \in {32, 64} THEN "ok" ELSE "parse"

Decrypted(n) ==
  IF n = 32 /\ salts = 2 THEN "missing" ELSE IF n \in {32, 64} THEN "ok" ELSE "parse"

TakeOutput ==
  /\ Step("extensions", "output")
  /\ UNCHANGED <<key, slice>>
  /\ \E n \in Lengths :
       \/ ~Blocks(n) /\ UNCHANGED <<secrets, sealed>> /\ End("pin")
       \/ /\ Blocks(n)
          /\ Decrypt(n)
          /\ secrets' = IF Decrypted(n) = "ok" THEN n \div 32 ELSE 0
          /\ End(Decrypted(n))

TakeToken ==
  /\ Step("token", "start")
  /\ UNCHANGED <<key, secrets, slice>>
  /\ \E n \in Lengths :
       \/ (~Blocks(n) \/ n > 48) /\ UNCHANGED sealed /\ End("pin")
       \/ Blocks(n) /\ n <= 48 /\ Decrypt(n) /\ End("ok")

-----------------------------------------------------------------------------
(* parse_credential, the key it returns used by verify, and the key of a    *)
(* getKeyAgreement response.                                                *)

Reads(step) == Step("credential", step) /\ UNCHANGED <<secrets, sealed>>

CheckCredential ==
  LET idEnd == 55 + blob.idLen
  IN  /\ Reads("start")
      /\ UNCHANGED key
      /\ \/ blob.len < 55 /\ UNCHANGED slice /\ End("parse")
         \/ blob.len >= 55 /\ ~Has("AT") /\ Slice(32, 33) /\ End("parse")
         \/ blob.len >= 55 /\ Has("AT") /\ idEnd > blob.len /\ Slice(53, 55) /\ End("parse")
         \/ blob.len >= 55 /\ Has("AT") /\ idEnd <= blob.len /\ Slice(55, idEnd)
            /\ Goto("key", idEnd)

\* parse_authdata_pubkey.
ParseKey ==
  /\ Reads("key")
  /\ \/ ~IsItem(blob.key) /\ UNCHANGED <<key, slice>> /\ End("cbor")
     \/ /\ IsItem(blob.key)
        /\ \E k \in Keys :
             \/ ~Validate(k) /\ UNCHANGED <<key, slice>> /\ End("pin")
             \/ /\ Validate(k)
                /\ key' = k
                /\ Slice(offset, offset + blob.key)
                /\ Goto("echo", offset + blob.key)

\* An echo that is not a map counts as none.
ParseEcho ==
  /\ Reads("echo")
  /\ UNCHANGED key
  /\ \/ (~Has("ED") \/ offset >= blob.len) /\ UNCHANGED slice /\ Goto("verify", offset)
     \/ /\ Has("ED") /\ offset < blob.len
        /\ Slice(offset, blob.len)
        /\ \/ ~IsRest(blob.ext) /\ End("cbor")
           \/ IsRest(blob.ext) /\ Goto("verify", offset)

\* CredentialPublicKey::verify up to the point and the signature.
VerifyWithKey ==
  /\ Reads("verify")
  /\ UNCHANGED <<key, slice>>
  /\ End(IF Verifiable(key) THEN "ok" ELSE "pin")

\* parse_cose_p256_pubkey.
AgreeOnKey ==
  /\ Step("agreement", "start")
  /\ UNCHANGED <<secrets, slice, sealed>>
  /\ \E k \in Keys :
       \/ ~ParseP256(k) /\ UNCHANGED key /\ End("pin")
       \/ ParseP256(k) /\ key' = k /\ End("ok")

AuthNext ==
  \/ CheckHeader \/ CheckAttested \/ SkipKey \/ DecodeRest \/ NoOutput \/ TakeOutput
  \/ TakeToken \/ CheckCredential \/ ParseKey \/ ParseEcho \/ VerifyWithKey \/ AgreeOnKey

-----------------------------------------------------------------------------
\* No index or slice leaves authData, no assert! of pin.rs fires, and no
\* coordinate of another length reaches GenericArray::from_slice, whatever
\* lengths a device sends.
NoPanic ==
  /\ slice.from <= slice.to /\ slice.to <= blob.len
  /\ Blocks(sealed)
  /\ job = "agreement" /\ result = "ok" => Wide(key)

\* Where WebAuthn 6.1 puts the extensions.
ExtensionsAt == IF Has("AT") THEN 55 + blob.idLen + blob.key ELSE AUTH_DATA_HEADER

WellFormed ==
  /\ Has("AT") => blob.key > 0
  /\ Has("ED") => blob.ext > 0
  /\ blob.len = ExtensionsAt + (IF Has("ED") THEN blob.ext ELSE 0)

\* Both walks find the extensions at the one place where the layout has them,
\* decode_extensions only when they fill the rest of a well-formed authData.
LayoutFollowed ==
  /\ job = "extensions" /\ at = "output" =>
       offset = ExtensionsAt /\ Has("ED") /\ WellFormed
  /\ job = "credential" /\ at \in {"echo", "verify"} =>
       offset = ExtensionsAt /\ offset <= blob.len /\ Has("AT")

\* A well-formed authData with what the caller needs is never refused: not for
\* an empty id, a key that ends the string, or one of either algorithm.
WellFormedAccepted ==
  at = "done" /\ WellFormed =>
    /\ job = "extensions" /\ Has("ED") => offset = ExtensionsAt /\ result # "cbor"
    /\ job = "credential" /\ Has("AT") => result \in {"ok", "pin"}

\* "a malformed blob fails here rather than at verification time"
\* (src/src/cose.rs:45-46): a key taken by validate is never refused by verify
\* for its fields.
ValidKeyVerifies == at = "done" /\ key # NoCoseKey => result # "pin"

\* What call_hmac_secret returns has a secret for every salt that was sent, and one
\* for each if the device sealed one for each: half of an answer is an error.  The
\* device may still seal two for one salt, and both are returned.
EverySaltAnswered ==
  job = "extensions" /\ result = "ok" =>
    /\ salts <= secrets
    /\ sealed = 32 * salts => secrets = salts

\* "The second slot is `None` when `salt2` was not requested"
\* (src/src/cmd/get_assertion.rs:284-285), and secret2 is "Present iff
\* [`HmacSecretRequest::salt2`] was supplied" (274): one secret for each salt.
OneSecretPerSalt == job = "extensions" /\ result = "ok" => secrets = salts
=============================================================================
