------------------------------ MODULE CoseKeys ------------------------------
(***************************************************************************)
(* The COSE_Key maps of src/src/cose.rs and src/src/pin.rs: which fields   *)
(* each reader of a key asks for.  A missing field is {}; of a coordinate  *)
(* only the length is kept, and what the curves say of a point is not.     *)
(***************************************************************************)
EXTENDS Integers

COSE_KTY_OKP == 1
COSE_KTY_EC2 == 2
COSE_ALG_ES256 == -7
COSE_ALG_EDDSA == -8
COSE_ALG_ECDH_ES_HKDF_256 == -25
COSE_CRV_P256 == 1
COSE_CRV_ED25519 == 6

CoseKey == [kty : SUBSET Int, alg : SUBSET Int, crv : SUBSET Int,
            x : SUBSET Nat, y : SUBSET Nat]

NoCoseKey == [kty |-> {}, alg |-> {}, crv |-> {}, x |-> {}, y |-> {}]

Wide(k) == k.x = {32} /\ k.y = {32}

\* Mutant: the second coordinate is not asked for.
Validate_NoY(k) ==
  /\ k.kty \in {{COSE_KTY_EC2}, {COSE_KTY_OKP}}
  /\ k.alg \in {{COSE_ALG_ES256}, {COSE_ALG_EDDSA}}
  /\ k.x = {32}

\* A credential key that parse_authdata_pubkey or from_cose_bytes takes.
Validate(k) ==
  \/ /\ k.alg = {COSE_ALG_ES256} /\ k.kty = {COSE_KTY_EC2} /\ k.crv = {COSE_CRV_P256}
     /\ Wide(k)
  \/ /\ k.alg = {COSE_ALG_EDDSA} /\ k.kty = {COSE_KTY_OKP} /\ k.crv = {COSE_CRV_ED25519}
     /\ k.x = {32}

\* A key whose fields verify_es256 or verify_eddsa can start from.
Verifiable(k) ==
  \/ k.alg = {COSE_ALG_ES256} /\ Wide(k)
  \/ k.alg = {COSE_ALG_EDDSA} /\ k.x = {32}

\* The authenticator's key of a getKeyAgreement response.
ParseP256(k) ==
  /\ k.kty = {COSE_KTY_EC2} /\ k.alg = {COSE_ALG_ECDH_ES_HKDF_256} /\ k.crv = {COSE_CRV_P256}
  /\ Wide(k)
=============================================================================
