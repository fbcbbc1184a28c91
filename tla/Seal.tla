-------------------------------- MODULE Seal --------------------------------
(***************************************************************************)
(* The seal layer: seal.rs over hybrid.rs (with the envelope of suite.rs)  *)
(* and box_seal.rs.  The library keeps no state of its own; what persists  *)
(* between calls is what its callers store: the keys each user generated   *)
(* (its ring, old keys included) and the sealed texts.  Every action is    *)
(* one call of the public API with any arguments callers may pass it: keys *)
(* from any ring, a key of the wrong kind, None, an empty string.          *)
(*                                                                         *)
(* A key is [owner, form, gen]; the same record stands for its public and  *)
(* its secret half.  A sealed text is a record of the bytes the code looks *)
(* at (first byte and length), of what encryption bound into the rest      *)
(* (form, recipient key, context label, plaintext), and of whether the     *)
(* rest still is what was sealed.  Encryption is ideal: an AEAD opens for  *)
(* the key, domain and bytes it was sealed with and for no others, so      *)
(* "Rejected" covers CryptoError::Decryption and the malformed-point       *)
(* errors of the two matched openers, which callers cannot tell apart by   *)
(* anything the layer does next.                                           *)
(***************************************************************************)
EXTENDS KemFormats, FiniteSets

CONSTANTS
  Users,          \* the parties
  Nobody,         \* owner of the arguments that are not keys
  Plaintexts,     \* what is sealed
  NoText,         \* the plaintext of a failed call
  PtLen,          \* length of each plaintext
  Labels,         \* context labels
  DefaultLabel,   \* SEAL_CONTEXT_V1
  Requests,       \* the (suite, level) pairs callers ask for
  EphBytes,       \* first bytes an X25519 ephemeral key may have
  CutLens,        \* lengths a stored text may be cut to
  MaxKeys,        \* bound: KEM keys generated in all
  MaxWire         \* bound: texts stored

ASSUME ConstantsAssumption ==
  /\ Nobody \notin Users
  /\ NoText \notin Plaintexts
  /\ PtLen \in [Plaintexts -> Nat]
  /\ DefaultLabel \in Labels
  /\ Requests \subseteq Suites \X Levels
  /\ EphBytes \subseteq 0..255
  /\ CutLens \subseteq Nat
  /\ MaxKeys \in Nat /\ MaxWire \in Nat

VARIABLES
  ring,     \* the KEM keys each user generated
  made,     \* how many KEM keys were generated
  wire,     \* the sealed texts in storage
  learned   \* the plaintexts each user obtained by opening

vars == <<ring, made, wire, learned>>

-----------------------------------------------------------------------------
(* Arguments and results *)

BoxKey(u) == [owner |-> u, form |-> "X25519", gen |-> 0]

(* Key arguments that are no key: None, "", bad base64, a wrong length. *)
NotAKey(form) == [owner |-> Nobody, form |-> form, gen |-> 0]
NotKeys == {NotAKey(f) : f \in {"none", "empty", "garbled", "short"}}

Ok(p)  == [err |-> "none", pt |-> p]
Err(e) == [err |-> e, pt |-> NoText]

(* Whether Some(non-empty) was passed. *)
Given(k) == k.form \notin {"none", "empty"}

PublicLen(k) ==
  IF k.form \in Schemes THEN PkLen(k.form)
  ELSE IF k.form = "X25519" THEN X25519Len ELSE 0

(* Every secret key is 32 untagged bytes, whatever it is the key of. *)
SecretLen(k) == IF k.form \in Schemes \cup {"X25519"} THEN 32 ELSE 0

NoByte == -1
Text(first, len, form, to, label, p) ==
  [first |-> first, len |-> len, form |-> form, to |-> to, label |-> label,
   pt |-> p, state |-> "intact"]

-----------------------------------------------------------------------------
(* Openers: pure functions of their arguments *)

(* load_seed, and the same checks inlined in the 0x01-0x03 openers. *)
SeedError(seed) ==
  IF seed.form = "garbled" THEN "Base64"
  ELSE IF SecretLen(seed) # SeedLen THEN "InvalidLength" ELSE "none"

(* Faulty variants: a content key that does not depend on the shared secret; *)
(* a derivation that leaves the context label out.                           *)
DecryptsForAnyone(c, s, seed, label) ==
  c.state = "intact" /\ c.form = s /\ (s \in EnvelopeSchemes => c.label = label)
DecryptsUnderAnyLabel(c, s, seed, label) ==
  c.state = "intact" /\ c.form = s /\ c.to = seed

(* Decapsulation, key derivation and authenticated decryption. The envelope  *)
(* binds tag and label; the combineKEMS formats bind no label.               *)
Decrypts(c, s, seed, label) ==
  /\ c.state = "intact"
  /\ c.form = s
  /\ c.to = seed
  /\ s \in EnvelopeSchemes => c.label = label

(* Faulty variant: a failed authentication hands back an empty answer.       *)
DecryptedUnchecked(c, ok) == Ok(IF ok THEN c.pt ELSE NoText)

Decrypted(c, ok) == IF ok THEN Ok(c.pt) ELSE Err("Rejected")

(* What follows the checks of an opener. A slice past the end of the text    *)
(* panics, as does an array made of a seed of another length; what is left   *)
(* for the AEAD may be shorter than its tag, which is a failed               *)
(* authentication like any other.                                            *)
Parsed(c, s, seed, label) ==
  IF c.len < HeaderLen(s) \/ SecretLen(seed) # SeedLen THEN Err("Panic")
  ELSE Decrypted(c, Decrypts(c, s, seed, label))

(* hybrid_open_512/768/1024: the seed is checked before the length. *)
OpenCombine(c, s, seed, label) ==
  IF SeedError(seed) # "none" THEN Err(SeedError(seed))
  ELSE IF c.len < MinLen(s) THEN Err("TooShort")
  ELSE Parsed(c, s, seed, label)

(* open_pure_cnsa2, open_matched_cat3/5: the length before the seed. *)
OpenEnvelope(c, s, seed, label) ==
  IF c.len < MinLen(s) THEN Err("TooShort")
  ELSE IF SeedError(seed) # "none" THEN Err(SeedError(seed))
  ELSE Parsed(c, s, seed, label)

(* hybrid_open_with_context: routes on the first byte alone. *)
HybridOpen(c, seed, label) ==
  IF c.state = "garbled" THEN Err("Base64")
  ELSE IF \E s \in CombineSchemes : c.first = Tag(s)
    THEN OpenCombine(c, CHOOSE s \in CombineSchemes : c.first = Tag(s), seed, label)
  ELSE IF \E s \in EnvelopeSchemes : c.first = Tag(s)
    THEN OpenEnvelope(c, CHOOSE s \in EnvelopeSchemes : c.first = Tag(s), seed, label)
  ELSE Err("BadTag")

IsHybrid(c) == c.state # "garbled" /\ LooksHybrid(c.first, c.len)

(* box_seal_open. The nonce hashes the public key in, so both halves of one  *)
(* pair are needed. The ephemeral key is split off the text, which panics on *)
(* a shorter one.                                                            *)
BoxOpen(c, pk, sk) ==
  IF c.state = "garbled" \/ pk.form = "garbled" \/ sk.form = "garbled" THEN Err("Base64")
  ELSE IF PublicLen(pk) # X25519Len THEN Err("InvalidLength")
  ELSE IF SecretLen(sk) # X25519Len THEN Err("InvalidLength")
  ELSE IF c.len < MinSealedLen THEN Err("TooShort")
  ELSE IF c.len < X25519Len THEN Err("Panic")
  ELSE Decrypted(c, c.state = "intact" /\ c.form = "X25519" /\ c.to = sk /\ pk = sk)

(* Faulty variant: what looks hybrid never reaches the legacy opener.        *)
UnsealNoFallback(c, pk, sk, pq) ==
  IF Given(pq) /\ IsHybrid(c) THEN HybridOpen(c, pq, DefaultLabel) ELSE BoxOpen(c, pk, sk)

(* unseal_from_user: hybrid first when it looks hybrid and a PQ key is       *)
(* given; whatever the hybrid opener refuses goes to the legacy opener.      *)
Unseal(c, pk, sk, pq) ==
  IF Given(pq) /\ IsHybrid(c) /\ HybridOpen(c, pq, DefaultLabel).err = "none"
  THEN HybridOpen(c, pq, DefaultLabel)
  ELSE BoxOpen(c, pk, sk)

-----------------------------------------------------------------------------
(* Sealers: the set of texts a call may produce, empty when it fails *)

(* Faulty variant: a key with bytes to spare is taken, the rest ignored.     *)
SealUnderLongKey(s, k, label, p) ==
  IF k.form # "garbled" /\ PublicLen(k) >= PkLen(s)
  THEN {Text(Tag(s), Overhead(s) + PtLen[p], s, k,
             IF s \in EnvelopeSchemes THEN label ELSE DefaultLabel, p)}
  ELSE {}

(* The six sealers check the length of the public key and emit their tag. *)
SealUnder(s, k, label, p) ==
  IF k.form # "garbled" /\ PublicLen(k) = PkLen(s)
  THEN {Text(Tag(s), Overhead(s) + PtLen[p], s, k,
             IF s \in EnvelopeSchemes THEN label ELSE DefaultLabel, p)}
  ELSE {}

(* hybrid_seal_suite_with_context *)
HybridSeal(k, suite, level, label, p) ==
  IF Supported(suite, level) THEN SealUnder(SealScheme(suite, level), k, label, p) ELSE {}

(* box_seal: the first byte is that of a fresh ephemeral public key. *)
BoxSeal(pk, p) ==
  IF pk.form # "garbled" /\ PublicLen(pk) = X25519Len
  THEN {Text(b, MinSealedLen + PtLen[p], "X25519", pk, DefaultLabel, p) : b \in EphBytes}
  ELSE {}

(* Faulty variant: a hybrid seal that fails falls back to the classical one. *)
SealForUserFallback(pk, pq, suite, level, p) ==
  IF Given(pq) /\ HybridSeal(pq, suite, level, DefaultLabel, p) # {}
  THEN HybridSeal(pq, suite, level, DefaultLabel, p) ELSE BoxSeal(pk, p)

(* seal_for_user_with_suite; seal_for_user and seal_for_user_with_level are  *)
(* its instances at suite Hybrid.                                            *)
SealForUser(pk, pq, suite, level, p) ==
  IF Given(pq) THEN HybridSeal(pq, suite, level, DefaultLabel, p) ELSE BoxSeal(pk, p)

-----------------------------------------------------------------------------
(* Calls *)

KemKeys  == UNION {ring[u] : u \in Users}
BoxKeys  == {BoxKey(u) : u \in Users}
KeyArgs  == KemKeys \cup BoxKeys \cup NotKeys

Init ==
  /\ ring = [u \in Users |-> {}]
  /\ made = 0
  /\ wire = {}
  /\ learned = [u \in Users |-> {}]

GenerateKeypair(u, suite, level) ==
  /\ made < MaxKeys
  /\ Supported(suite, level)
  /\ made' = made + 1
  /\ ring' = [ring EXCEPT ![u] = @ \cup
                {[owner |-> u, form |-> KeygenScheme(suite, level), gen |-> made']}]
  /\ UNCHANGED <<wire, learned>>

(* Bound: texts in storage.                                                  *)
HasRoom == Cardinality(wire) < MaxWire

Store(c) ==
  /\ wire' = wire \cup {c}
  /\ UNCHANGED <<ring, made, learned>>

SealCall(pk, pq, suite, level, p) ==
  HasRoom /\ \E c \in SealForUser(pk, pq, suite, level, p) : Store(c)

SealWithContextCall(k, suite, level, label, p) ==
  HasRoom /\ \E c \in HybridSeal(k, suite, level, label, p) : Store(c)

(* The caller keeps the plaintext of a call that succeeds. *)
Learn(u, result) ==
  /\ result.err = "none"
  /\ learned' = [learned EXCEPT ![u] = @ \cup {result.pt}]
  /\ UNCHANGED <<ring, made, wire>>

(* The secret keys u can pass: its own, or something that is no key. *)
Secrets(u) == ring[u] \cup {BoxKey(u)} \cup NotKeys

UnsealCall(u, c, pk, sk, pq) == Learn(u, Unseal(c, pk, sk, pq))

OpenWithContextCall(u, c, seed, label) == Learn(u, HybridOpen(c, seed, label))

(* Storage and transport may damage a text: it comes back cut short, with   *)
(* another first byte, with other bytes changed, or as no base64 at all.    *)
Damaged(c) ==
  {[c EXCEPT !.len = n, !.first = IF n = 0 THEN NoByte ELSE @, !.state = "damaged"] :
      n \in {m \in CutLens : m < c.len}}
  \cup {[c EXCEPT !.first = b, !.state = "damaged"] : b \in EphBytes \ {c.first}}
  \cup {[c EXCEPT !.state = st] : st \in {"damaged", "garbled"}}

Damage(c) ==
  /\ c.state = "intact"
  /\ \E d \in Damaged(c) : wire' = (wire \ {c}) \cup {d}
  /\ UNCHANGED <<ring, made, learned>>

Next ==
  \/ \E u \in Users, r \in Requests : GenerateKeypair(u, r[1], r[2])
  \/ \E pk, pq \in KeyArgs, r \in Requests, p \in Plaintexts :
        SealCall(pk, pq, r[1], r[2], p)
  \/ \E k \in KeyArgs, r \in Requests, l \in Labels, p \in Plaintexts :
        SealWithContextCall(k, r[1], r[2], l, p)
  \/ \E u \in Users, c \in wire, pk \in KeyArgs :
        \E sk, pq \in Secrets(u) : UnsealCall(u, c, pk, sk, pq)
  \/ \E u \in Users, c \in wire, l \in Labels :
        \E seed \in Secrets(u) : OpenWithContextCall(u, c, seed, l)
  \/ \E c \in wire : Damage(c)

Spec == Init /\ [][Next]_vars

-----------------------------------------------------------------------------
(* Properties *)

Forms    == Schemes \cup {"X25519"}
KeyType  == [owner : Users, form : Forms, gen : Nat]
TextType == [first : 0..255 \cup {NoByte}, len : Nat, form : Forms, to : KeyType,
             label : Labels, pt : Plaintexts, state : {"intact", "damaged", "garbled"}]

(* Types of the variables; the rings hold KEM keys under their owner's name  *)
(* (what generate_hybrid_keypair_suite hands out).                           *)
TypeOK ==
  /\ ring \in [Users -> SUBSET [owner : Users, form : Schemes, gen : Nat]]
  /\ \A u \in Users : \A k \in ring[u] : k.owner = u
  /\ made \in Nat
  /\ wire \subseteq TextType
  /\ learned \in [Users -> SUBSET Plaintexts]

(* An undamaged text is what its sealer assembled: a hybrid text carries    *)
(* the tag of its own scheme, is at least as long as that scheme's gate     *)
(* asks, and was sealed to a key of that very scheme (the public key length *)
(* check let no other key through); a box was sealed to an X25519 key. A    *)
(* text that binds no label counts as one under the default label.          *)
WellSealed(c) ==
  c.state = "intact" =>
    \/ /\ c.form \in Schemes
       /\ c.first = Tag(c.form)
       /\ c.len = Overhead(c.form) + PtLen[c.pt]
       /\ c.to.form = c.form
       /\ c.form \in CombineSchemes => c.label = DefaultLabel
    \/ /\ c.form = "X25519"
       /\ c.len = MinSealedLen + PtLen[c.pt]
       /\ c.to.form = "X25519"

SealedWell == \A c \in wire : WellSealed(c)

(* A legacy sealed box opens for its owner whatever its random first byte   *)
(* and its length are, and whatever PQ key, right or wrong, comes along     *)
(* with the call: unseal_from_user's fallback covers every collision with a *)
(* hybrid tag and length.                                                   *)
LegacyAlwaysOpens ==
  \A c \in wire : c.state = "intact" /\ c.form = "X25519" =>
    \A pq \in KeyArgs : Unseal(c, c.to, c.to, pq) = Ok(c.pt)

(* A hybrid text under the default label opens through unseal_from_user for *)
(* the holder of its seed, whatever X25519 keys are passed: a wrong or empty *)
(* legacy key never gets in the way.                                        *)
HybridOpensForHolder ==
  \A c \in wire :
    (c.state = "intact" /\ c.form \in Schemes /\ c.label = DefaultLabel) =>
      \A pk, sk \in KeyArgs : Unseal(c, pk, sk, c.to) = Ok(c.pt)

(* No stored text makes an opener panic, whatever storage did to it: one that *)
(* was cut, or whose first byte was changed, is routed on that byte alone to *)
(* the opener of some other format, with any key or none and any label, and  *)
(* the gate it meets there covers every slice that opener takes. So for      *)
(* hybrid_open_with_context, which checks nothing before it routes, for the  *)
(* fallback's box_seal_open, and hence for unseal_from_user.                 *)
OpenersNeverPanic ==
  \A c \in wire : \A k \in KeyArgs :
    /\ \A l \in Labels : HybridOpen(c, k, l).err # "Panic"
    /\ \A pk, pq \in KeyArgs : /\ BoxOpen(c, pk, k).err # "Panic"
                               /\ Unseal(c, pk, k, pq).err # "Panic"

(* A text of the 0x10/0x13/0x14 formats opens under the label it was sealed *)
(* with and no other, so one under a custom label never opens through       *)
(* unseal_from_user; the 0x01-0x03 formats open under every label.          *)
LabelBinds ==
  \A c \in wire : c.state = "intact" /\ c.form \in Schemes =>
    /\ \A l \in Labels : HybridOpen(c, c.to, l) =
         IF c.form \in CombineSchemes \/ l = c.label THEN Ok(c.pt) ELSE Err("Rejected")
    /\ c.label # DefaultLabel =>
         \A pk, sk \in KeyArgs : Unseal(c, pk, sk, c.to).err # "none"

(* The routing check and the gates of the six openers are in lockstep: with *)
(* a well-formed seed, is_hybrid_ciphertext says yes exactly when           *)
(* hybrid_open gets as far as decapsulating.                                *)
GateLockstep ==
  \A c \in wire : \A k \in KemKeys \cup BoxKeys, l \in Labels :
    IsHybrid(c) <=>
      HybridOpen(c, k, l).err \notin {"Base64", "BadTag", "TooShort", "Panic"}

(* The dispatch of key generation, the dispatch of sealing and the public   *)
(* key lengths agree: a key made for one request is accepted for exactly    *)
(* the requests that would have made a key of its scheme, and refused for   *)
(* every other (a stale key with a new suite never seals), and what it      *)
(* sealed opens under its seed, the empty plaintext included.               *)
KeyFitsRequest ==
  \A k \in KemKeys, r \in Requests, l \in Labels, p \in Plaintexts :
    LET sealed == HybridSeal(k, r[1], r[2], l, p)
    IN /\ (sealed # {}) <=> (Supported(r[1], r[2]) /\ KeygenScheme(r[1], r[2]) = k.form)
       /\ \A c \in sealed : IsHybrid(c) /\ HybridOpen(c, k, l) = Ok(p)

(* Handed a PQ key, seal_for_user* never answers with a classical box, however   *)
(* good the legacy key that comes with it: it seals to that PQ key in the    *)
(* format of the request or fails.                                           *)
NoSilentDowngrade ==
  \A pk \in BoxKeys, pq \in KeyArgs, r \in Requests, p \in Plaintexts :
    Given(pq) => \A c \in SealForUser(pk, pq, r[1], r[2], p) :
                   c.to = pq /\ c.form = KeygenScheme(r[1], r[2])

(* What unseal_from_user's documentation lists: 0x01, 0x02 and 0x03 are     *)
(* hybrid and everything else is opened by the legacy box_seal_open.        *)
OtherTagsAreLegacy ==
  \A c \in wire : c.first \notin {1, 2, 3} =>
    \A pk, sk, pq \in KeyArgs : Unseal(c, pk, sk, pq) = BoxOpen(c, pk, sk)

(* The layer implements the mailbox: sealing posts, opening reads.          *)
Posted == {[to |-> c.to.owner, pt |-> c.pt] : c \in wire}
MB == INSTANCE Mailbox WITH posted <- Posted
ImplementsMailbox == MB!Spec
=============================================================================
