----------------------------- MODULE SigFormats -----------------------------
(***************************************************************************)
(* The wire formats of sign.rs at their real byte lengths: the six layouts *)
(* of public keys, secret keys and signatures, the dispatch of key         *)
(* generation and the tag -> posture tables.                               *)
(*                                                                         *)
(* A scheme is one tag: Composite44/65/87 pair ML-DSA with Ed25519 (tags   *)
(* 0x01-0x03), Pure87 is ML-DSA-87 alone (0x10), Matched65 pairs ML-DSA-65 *)
(* with Ed448 (0x13), Matched87 pairs ML-DSA-87 with ECDSA-P-521 (0x14).   *)
(***************************************************************************)
EXTENDS Integers

Suites    == {"Hybrid", "HybridMatched", "PureCnsa2"}
SigLevels == {"Cat2", "Cat3", "Cat5"}

LevelSchemes == {"Composite44", "Composite65", "Composite87"}
SuiteSchemes == {"Pure87", "Matched65", "Matched87"}
SigSchemes   == LevelSchemes \cup SuiteSchemes

(* PureCnsa2 signatures are Cat-5 only. *)
SigSupported(suite, level) == suite = "PureCnsa2" => level = "Cat5"

(* The dispatch of generate_signing_keypair_suite, as a table. *)
LevelScheme == [Cat2 |-> "Composite44", Cat3 |-> "Composite65", Cat5 |-> "Composite87"]

KeypairScheme(suite, level) ==
  IF suite = "PureCnsa2" THEN "Pure87"
  ELSE IF suite = "Hybrid" \/ level = "Cat2" THEN LevelScheme[level]
  ELSE IF level = "Cat3" THEN "Matched65" ELSE "Matched87"

(* The component algorithms: lengths of a seed, public key and signature.    *)
Lens(seed, pk, sig) == [seed |-> seed, pk |-> pk, sig |-> sig]

Component ==
  [none    |-> Lens( 0,    0,    0),   \* the classical half of PureCnsa2
   Ed25519 |-> Lens(32,   32,   64),
   Ed448   |-> Lens(57,   57,  114),
   P521    |-> Lens(66,  133,  132),
   MlDsa44 |-> Lens(32, 1312, 2420),
   MlDsa65 |-> Lens(32, 1952, 3309),
   MlDsa87 |-> Lens(32, 2592, 4627)]

(* Version tag and the two halves of each scheme, in wire order.             *)
Layout(tag, classical, pq) == [tag |-> tag, classical |-> classical, pq |-> pq]

SigFormat ==
  [Composite44 |-> Layout( 1, "Ed25519", "MlDsa44"),
   Composite65 |-> Layout( 2, "Ed25519", "MlDsa65"),
   Composite87 |-> Layout( 3, "Ed25519", "MlDsa87"),
   Pure87      |-> Layout(16, "none",    "MlDsa87"),
   Matched65   |-> Layout(19, "Ed448",   "MlDsa65"),
   Matched87   |-> Layout(20, "P521",    "MlDsa87")]

SigTag(s)      == SigFormat[s].tag
Classical(s)   == SigFormat[s].classical
PostQuantum(s) == SigFormat[s].pq

SecretKeyLen(s) == 1 + Component[Classical(s)].seed + Component[PostQuantum(s)].seed
PublicKeyLen(s) == 1 + Component[Classical(s)].pk + Component[PostQuantum(s)].pk
SignatureLen(s) == 1 + Component[Classical(s)].sig + Component[PostQuantum(s)].sig

(* The lengths sign asks of a secret key.                                    *)
SigningKeyLen ==
  [Composite44 |-> 1 + 32 + 32, Composite65 |-> 1 + 32 + 32, Composite87 |-> 1 + 32 + 32,
   Pure87 |-> 1 + 32, Matched65 |-> 1 + 57 + 32, Matched87 |-> 1 + 66 + 32]

(* Faulty variant: Ed448's length in the P-521 row.                          *)
DerivingKeyLenWrongRow ==
  [Composite44 |-> 1 + 32 + 32, Composite65 |-> 1 + 32 + 32, Composite87 |-> 1 + 32 + 32,
   Pure87 |-> 1 + 32, Matched65 |-> 1 + 57 + 32, Matched87 |-> 1 + 57 + 32]

(* Those derive_public_key asks, in parsers of its own.                      *)
DerivingKeyLen ==
  [Composite44 |-> 1 + 32 + 32, Composite65 |-> 1 + 32 + 32, Composite87 |-> 1 + 32 + 32,
   Pure87 |-> 1 + 32, Matched65 |-> 1 + 57 + 32, Matched87 |-> 1 + 66 + 32]

(* posture_from_tag; the Cat-2 tag is Hybrid's, whichever suite asked.       *)
TagPosture ==
  [Composite44 |-> <<"Hybrid", "Cat2">>, Composite65 |-> <<"Hybrid", "Cat3">>,
   Composite87 |-> <<"Hybrid", "Cat5">>, Pure87 |-> <<"PureCnsa2", "Cat5">>,
   Matched65 |-> <<"HybridMatched", "Cat3">>, Matched87 |-> <<"HybridMatched", "Cat5">>]

(* expected_public_key_len and expected_signature_len: the posture calls     *)
(* keep tables of their own.                                                 *)
ExpectedPublicKeyLen ==
  [Composite44 |-> 1 + 32 + 1312, Composite65 |-> 1 + 32 + 1952,
   Composite87 |-> 1 + 32 + 2592, Pure87 |-> 1 + 2592,
   Matched65 |-> 1 + 57 + 1952, Matched87 |-> 1 + 133 + 2592]

(* Faulty variant: Ed25519's length in a P-521 row.                          *)
ExpectedSignatureLenWrongRow ==
  [Composite44 |-> 1 + 64 + 2420, Composite65 |-> 1 + 64 + 3309,
   Composite87 |-> 1 + 64 + 4627, Pure87 |-> 1 + 4627,
   Matched65 |-> 1 + 114 + 3309, Matched87 |-> 1 + 64 + 4627]

ExpectedSignatureLen ==
  [Composite44 |-> 1 + 64 + 2420, Composite65 |-> 1 + 64 + 3309,
   Composite87 |-> 1 + 64 + 4627, Pure87 |-> 1 + 4627,
   Matched65 |-> 1 + 114 + 3309, Matched87 |-> 1 + 132 + 4627]
=============================================================================
