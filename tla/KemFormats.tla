----------------------------- MODULE KemFormats -----------------------------
(***************************************************************************)
(* The wire formats of the KEM layer, at their real byte lengths: the six  *)
(* sealed formats of hybrid.rs and suite.rs, the two dispatches on a       *)
(* (suite, level) pair, and the routing check is_hybrid_ciphertext.        *)
(*                                                                         *)
(* A scheme is one row of the format tables: Hybrid512/768/1024 are the    *)
(* combineKEMS + XSalsa20-Poly1305 formats (tags 0x01-0x03), Pure1024 is   *)
(* PureCnsa2 (0x10), Matched768 and Matched1024 are HybridMatched at Cat-3 *)
(* (X448, 0x13) and Cat-5 (P-521, 0x14).                                   *)
(***************************************************************************)
EXTENDS Integers

Suites == {"Hybrid", "HybridMatched", "PureCnsa2"}
Levels == {"Cat1", "Cat3", "Cat5"}

CombineSchemes  == {"Hybrid512", "Hybrid768", "Hybrid1024"}
EnvelopeSchemes == {"Pure1024", "Matched768", "Matched1024"}
Schemes         == CombineSchemes \cup EnvelopeSchemes

(* PureCnsa2 exists at Cat-5 only; every other pair is supported. *)
Supported(suite, level) == suite = "PureCnsa2" => level = "Cat5"

WithLevel(level) ==
  CASE level = "Cat1" -> "Hybrid512"
    [] level = "Cat3" -> "Hybrid768"
    [] level = "Cat5" -> "Hybrid1024"

(* Faulty variant: matched keys at Cat-1 no longer delegate to Hybrid.        *)
KeygenSchemeNoDelegation(suite, level) ==
  CASE suite = "Hybrid" -> WithLevel(level)
    [] suite = "HybridMatched" /\ level \in {"Cat1", "Cat3"} -> "Matched768"
    [] suite = "HybridMatched" /\ level = "Cat5" -> "Matched1024"
    [] suite = "PureCnsa2" -> "Pure1024"

(* The dispatch of generate_hybrid_keypair_suite: whose layout a new key has. *)
KeygenScheme(suite, level) ==
  CASE suite = "Hybrid" \/ (suite = "HybridMatched" /\ level = "Cat1") -> WithLevel(level)
    [] suite = "HybridMatched" /\ level = "Cat3" -> "Matched768"
    [] suite = "HybridMatched" /\ level = "Cat5" -> "Matched1024"
    [] suite = "PureCnsa2" -> "Pure1024"

(* The dispatch of hybrid_seal_suite_with_context: which format it emits. *)
SealScheme(suite, level) ==
  CASE suite = "Hybrid" -> WithLevel(level)
    [] suite = "HybridMatched" /\ level = "Cat1" -> "Hybrid512"
    [] suite = "HybridMatched" /\ level = "Cat3" -> "Matched768"
    [] suite = "HybridMatched" /\ level = "Cat5" -> "Matched1024"
    [] suite = "PureCnsa2" -> "Pure1024"

(* One row per scheme: version tag; ML-KEM encapsulation key and ciphertext  *)
(* lengths; classical public key length (the second half of the combined     *)
(* public key and, as an ephemeral key, of the KEM ciphertext); AEAD nonce;  *)
(* and the shortest ciphertext its opener accepts (MIN_*_LEN).               *)
Row(tag, ek, ct, ecc, nonce, min) ==
  [tag |-> tag, ek |-> ek, ct |-> ct, ecc |-> ecc, nonce |-> nonce, min |-> min]

Format ==
  [Hybrid512   |-> Row( 1,  800,  768,  32, 24, 1 + (768 + 32) + 24 + 16),
   Hybrid768   |-> Row( 2, 1184, 1088,  32, 24, 1 + (1088 + 32) + 24 + 16),
   Hybrid1024  |-> Row( 3, 1568, 1568,  32, 24, 1 + (1568 + 32) + 24 + 16),
   Pure1024    |-> Row(16, 1568, 1568,   0, 12, 1 + 1568 + 12 + 16),
   Matched768  |-> Row(19, 1184, 1088,  56, 12, 1 + 1088 + 56 + 12 + 16),
   Matched1024 |-> Row(20, 1568, 1568, 133, 12, 1 + 1568 + 133 + 12 + 16)]

MacLen    == 16
SeedLen   == 32
X25519Len == 32

Tag(s)    == Format[s].tag
PkLen(s)  == Format[s].ek + Format[s].ecc

(* Faulty variant: the nonce is left out of the minimum, which the routing    *)
(* check and the opener share.                                               *)
MinLenWithoutNonce(s) == Format[s].min - Format[s].nonce

MinLen(s) == Format[s].min

(* The bytes an opener slices off before what it decrypts: tag, ML-KEM        *)
(* ciphertext, ephemeral key and nonce.                                      *)
HeaderLen(s) == 1 + Format[s].ct + Format[s].ecc + Format[s].nonce

(* What the sealers assemble around a plaintext. *)
Overhead(s) == 1 + Format[s].ct + Format[s].ecc + Format[s].nonce + MacLen

(* Shortest X25519 sealed box: ephemeral public key and MAC (MIN_SEALED_LEN). *)
MinSealedLen == X25519Len + MacLen

(* Faulty variants: the tags of the first release only; an off-by-one at the *)
(* minimum.                                                                  *)
LooksHybridOldTags(first, len) ==
  \E s \in CombineSchemes : first = Tag(s) /\ len >= MinLen(s)
LooksHybridLonger(first, len) == \E s \in Schemes : first = Tag(s) /\ len > MinLen(s)

(* The test of is_hybrid_ciphertext on the first byte and the length. *)
LooksHybrid(first, len) == \E s \in Schemes : first = Tag(s) /\ len >= MinLen(s)
=============================================================================
