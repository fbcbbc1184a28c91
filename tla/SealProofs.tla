----------------------------- MODULE SealProofs -----------------------------
(***************************************************************************)
(* Theorems about Seal for every set of users, plaintexts and labels, every *)
(* plaintext length and every first byte.                                  *)
(***************************************************************************)
EXTENDS Seal, TLAPS

-----------------------------------------------------------------------------
(* The format tables *)

(* The version tags of hybrid.rs and suite.rs tell the six formats apart. *)
LEMMA TagInjective ==
  ASSUME NEW s \in Schemes, NEW t \in Schemes, Tag(s) = Tag(t)
  PROVE  s = t
BY DEF Schemes, CombineSchemes, EnvelopeSchemes, Tag, Format, Row

LEMMA TagIsByte == \A s \in Schemes : Tag(s) \in 0..255
BY DEF Schemes, CombineSchemes, EnvelopeSchemes, Tag, Format, Row

(* The combined public keys of the six schemes all differ in length, so the *)
(* length check of a sealer accepts the keys of its own scheme only.        *)
LEMMA PkLenInjective ==
  ASSUME NEW s \in Schemes, NEW t \in Schemes, PkLen(s) = PkLen(t)
  PROVE  s = t
BY DEF Schemes, CombineSchemes, EnvelopeSchemes, PkLen, Format, Row

LEMMA PkLenRange ==
  \A s \in Schemes : PkLen(s) \in Nat /\ PkLen(s) # 0 /\ PkLen(s) # X25519Len
BY DEF Schemes, CombineSchemes, EnvelopeSchemes, PkLen, Format, Row, X25519Len

(* The minimum an opener enforces is what its sealer emits for an empty     *)
(* plaintext.                                                               *)
LEMMA MinLenIsOverhead == \A s \in Schemes : MinLen(s) = Overhead(s) /\ MinLen(s) \in Nat
BY DEF Schemes, CombineSchemes, EnvelopeSchemes, MinLen, Overhead, Format,
       Row, MacLen

(* The gate of an opener covers every slice it takes.                       *)
LEMMA GateCoversHeader ==
  ASSUME NEW s \in Schemes, NEW n \in Nat, ~(n < MinLen(s))
  PROVE  ~(n < HeaderLen(s))
BY DEF Schemes, CombineSchemes, EnvelopeSchemes, MinLen, HeaderLen, Format, Row

(* The two dispatches on (suite, level) send every supported pair to the    *)
(* same scheme.                                                             *)
LEMMA DispatchesAgree ==
  ASSUME NEW suite \in Suites, NEW level \in Levels, Supported(suite, level)
  PROVE  /\ SealScheme(suite, level) = KeygenScheme(suite, level)
         /\ KeygenScheme(suite, level) \in Schemes
BY DEF Suites, Levels, Supported, SealScheme, KeygenScheme, WithLevel,
       Schemes, CombineSchemes, EnvelopeSchemes

-----------------------------------------------------------------------------
(* What sealers return *)

(* Key arguments other than None and ill-formed strings name a user.  *)
LEMMA KeyArgCases ==
  ASSUME TypeOK, NEW k \in KeyArgs
  PROVE  /\ k.form \in Schemes => k \in KeyType
         /\ k.form = "X25519" => k \in KeyType
         /\ k.form \in Schemes \cup {"X25519", "none", "empty", "garbled", "short"}
BY DEF TypeOK, KeyArgs, KemKeys, BoxKeys, BoxKey, NotKeys, NotAKey, KeyType, Forms,
       Schemes, CombineSchemes, EnvelopeSchemes

(* A sealer of hybrid.rs that succeeds was given a key of its own scheme    *)
(* and emits a well-formed text to it.                                      *)
LEMMA SealUnderWell ==
  ASSUME TypeOK, NEW s \in Schemes, NEW k \in KeyArgs, NEW label \in Labels,
         NEW p \in Plaintexts, NEW c \in SealUnder(s, k, label, p)
  PROVE  /\ c \in TextType /\ WellSealed(c)
         /\ c.state = "intact" /\ c.form = s /\ c.to = k /\ c.pt = p /\ k.form = s
         /\ s \in EnvelopeSchemes => c.label = label
<1>1. /\ PublicLen(k) = PkLen(s)
      /\ c = Text(Tag(s), Overhead(s) + PtLen[p], s, k,
                  IF s \in EnvelopeSchemes THEN label ELSE DefaultLabel, p)
  BY DEF SealUnder
<1>2. k.form = s
  <2>1. PkLen(s) \in Nat /\ PkLen(s) # 0 /\ PkLen(s) # X25519Len
    BY PkLenRange
  <2>2. k.form \in Schemes /\ PkLen(k.form) = PkLen(s)
    BY <1>1, <2>1 DEF PublicLen
  <2>3. QED
    BY <2>2, PkLenInjective
<1>3. k \in KeyType
  BY <1>2, KeyArgCases
<1>4. Tag(s) \in 0..255 /\ Overhead(s) \in Nat /\ PtLen[p] \in Nat
  BY TagIsByte, MinLenIsOverhead, ConstantsAssumption
<1>5. c \in TextType
  BY <1>1, <1>3, <1>4, ConstantsAssumption DEF Text, TextType, Forms
<1>6. WellSealed(c)
  <2>1. s \in CombineSchemes => s \notin EnvelopeSchemes
    BY DEF CombineSchemes, EnvelopeSchemes
  <2>2. QED
    BY <1>1, <1>2, <2>1 DEF WellSealed, Text
<1>7. QED
  BY <1>1, <1>2, <1>5, <1>6 DEF Text

(* The same through the dispatch on (suite, level). *)
LEMMA HybridSealWell ==
  ASSUME TypeOK, NEW k \in KeyArgs, NEW suite \in Suites, NEW level \in Levels,
         NEW label \in Labels, NEW p \in Plaintexts,
         NEW c \in HybridSeal(k, suite, level, label, p)
  PROVE  /\ Supported(suite, level)
         /\ c \in SealUnder(KeygenScheme(suite, level), k, label, p)
         /\ KeygenScheme(suite, level) \in Schemes
<1>1. Supported(suite, level) /\ c \in SealUnder(SealScheme(suite, level), k, label, p)
  BY DEF HybridSeal
<1>2. QED
  BY <1>1, DispatchesAgree

LEMMA BoxSealWell ==
  ASSUME TypeOK, NEW pk \in KeyArgs, NEW p \in Plaintexts, NEW c \in BoxSeal(pk, p)
  PROVE  /\ c \in TextType /\ WellSealed(c) /\ c.to = pk /\ c.pt = p
<1>1. PICK b \in EphBytes : c = Text(b, MinSealedLen + PtLen[p], "X25519", pk, DefaultLabel, p)
  BY DEF BoxSeal
<1>2. PublicLen(pk) = X25519Len
  BY DEF BoxSeal
<1>3. pk.form = "X25519"
  BY <1>2, PkLenRange DEF PublicLen, X25519Len
<1>4. pk \in KeyType
  BY <1>3, KeyArgCases
<1>5. b \in 0..255 /\ PtLen[p] \in Nat
  BY ConstantsAssumption
<1>6. c \in TextType
  BY <1>1, <1>4, <1>5, ConstantsAssumption
  DEF Text, TextType, Forms, MinSealedLen, X25519Len, MacLen
<1>7. QED
  BY <1>1, <1>3, <1>6 DEF WellSealed, Text

-----------------------------------------------------------------------------
(* What openers return *)

(* hybrid_open_with_context on a text whose first byte is the tag of s, and  *)
(* on one whose first byte is no tag.                                        *)
LEMMA OpenRoutes ==
  ASSUME NEW c, NEW seed, NEW label, NEW s \in Schemes,
         c.state # "garbled", c.first = Tag(s)
  PROVE  HybridOpen(c, seed, label) =
           IF s \in CombineSchemes THEN OpenCombine(c, s, seed, label)
                                   ELSE OpenEnvelope(c, s, seed, label)
<1>1. \A t \in Schemes : c.first = Tag(t) => t = s
  BY TagInjective
<1>2. CombineSchemes \subseteq Schemes /\ EnvelopeSchemes \subseteq Schemes
      /\ CombineSchemes \cap EnvelopeSchemes = {}
  BY DEF Schemes, CombineSchemes, EnvelopeSchemes
<1>3. CASE s \in CombineSchemes
  <2>1. (CHOOSE t \in CombineSchemes : c.first = Tag(t)) = s
    BY <1>1, <1>2, <1>3
  <2>2. QED
    BY <1>3, <2>1 DEF HybridOpen
<1>4. CASE s \notin CombineSchemes
  <2>1. s \in EnvelopeSchemes
    BY <1>4 DEF Schemes
  <2>2. ~ \E t \in CombineSchemes : c.first = Tag(t)
    BY <1>1, <1>2, <1>4
  <2>3. (CHOOSE t \in EnvelopeSchemes : c.first = Tag(t)) = s
    BY <1>1, <1>2, <2>1
  <2>4. QED
    BY <1>4, <2>1, <2>2, <2>3 DEF HybridOpen
<1>5. QED
  BY <1>3, <1>4

LEMMA OpenNoRoute ==
  ASSUME NEW c, NEW seed, NEW label, c.state # "garbled",
         \A s \in Schemes : c.first # Tag(s)
  PROVE  HybridOpen(c, seed, label) = Err("BadTag")
BY DEF HybridOpen, Schemes

(* Behind the two checks of an opener nothing can panic.                    *)
LEMMA ParsedBehindGates ==
  ASSUME NEW c, NEW s \in Schemes, NEW seed, NEW label,
         c.len \in Nat, ~(c.len < MinLen(s)), SeedError(seed) = "none"
  PROVE  Parsed(c, s, seed, label) = Decrypted(c, Decrypts(c, s, seed, label))
<1>1. SecretLen(seed) = SeedLen
  BY DEF SeedError
<1>2. QED
  BY <1>1, GateCoversHeader DEF Parsed

(* With a 32-byte seed the order of the length and seed checks, opposite in *)
(* the two families of openers, does not show.                              *)
LEMMA OpenWithSeed ==
  ASSUME NEW c, NEW label, NEW s \in Schemes, NEW k, k.form \in Forms,
         c.len \in Nat, c.state # "garbled", c.first = Tag(s)
  PROVE  HybridOpen(c, k, label) =
           IF c.len < MinLen(s) THEN Err("TooShort")
           ELSE Decrypted(c, Decrypts(c, s, k, label))
<1>1. SeedError(k) = "none"
  BY DEF Forms, SeedError, SecretLen, SeedLen, Schemes, CombineSchemes, EnvelopeSchemes
<1>2. QED
  BY <1>1, OpenRoutes, ParsedBehindGates DEF OpenCombine, OpenEnvelope

(* An opener that answers passed every check. *)
LEMMA OpenOnlyIfDecrypts ==
  ASSUME NEW c, NEW seed, NEW label, HybridOpen(c, seed, label).err = "none"
  PROVE  /\ \E s \in Schemes : c.first = Tag(s) /\ Decrypts(c, s, seed, label)
         /\ HybridOpen(c, seed, label) = Ok(c.pt)
<1>1. c.state # "garbled"
  BY DEF HybridOpen, Err
<1>2. PICK s \in Schemes : c.first = Tag(s)
  BY <1>1, OpenNoRoute DEF Err
<1>3. SeedError(seed) \in {"none", "Base64", "InvalidLength"}
  BY DEF SeedError
<1>4. HybridOpen(c, seed, label) \in
        {Err("Base64"), Err("InvalidLength"), Err("TooShort"), Err("Panic"),
         Decrypted(c, Decrypts(c, s, seed, label))}
  BY <1>1, <1>2, <1>3, OpenRoutes DEF OpenCombine, OpenEnvelope, Parsed
<1>5. HybridOpen(c, seed, label) = Decrypted(c, Decrypts(c, s, seed, label))
  BY <1>4 DEF Err
<1>6. QED
  BY <1>2, <1>5 DEF Decrypted, Err, Ok

LEMMA BoxOpenOnlyIfOwner ==
  ASSUME NEW c, NEW pk, NEW sk, BoxOpen(c, pk, sk).err = "none"
  PROVE  /\ BoxOpen(c, pk, sk) = Ok(c.pt)
         /\ c.state = "intact" /\ c.form = "X25519" /\ c.to = sk /\ pk = sk
BY DEF BoxOpen, Decrypted, Err, Ok

(* unseal_from_user never answers for a key the text was not sealed to. *)
LEMMA UnsealOnlyForHolder ==
  ASSUME NEW c, NEW pk, NEW sk, NEW pq, Unseal(c, pk, sk, pq).err = "none"
  PROVE  /\ Unseal(c, pk, sk, pq) = Ok(c.pt)
         /\ c.state = "intact"
         /\ c.to = IF c.form = "X25519" THEN sk ELSE pq
<1>1. CASE Given(pq) /\ IsHybrid(c) /\ HybridOpen(c, pq, DefaultLabel).err = "none"
  <2>1. Unseal(c, pk, sk, pq) = HybridOpen(c, pq, DefaultLabel)
    BY <1>1 DEF Unseal
  <2>2. PICK s \in Schemes : Decrypts(c, s, pq, DefaultLabel)
    BY <1>1, OpenOnlyIfDecrypts
  <2>3. s # "X25519"
    BY DEF Schemes, CombineSchemes, EnvelopeSchemes
  <2>4. QED
    BY <1>1, <2>1, <2>2, <2>3, OpenOnlyIfDecrypts DEF Decrypts
<1>2. CASE ~(Given(pq) /\ IsHybrid(c) /\ HybridOpen(c, pq, DefaultLabel).err = "none")
  <2>1. Unseal(c, pk, sk, pq) = BoxOpen(c, pk, sk)
    BY <1>2 DEF Unseal
  <2>2. QED
    BY <2>1, BoxOpenOnlyIfOwner
<1>3. QED
  BY <1>1, <1>2

-----------------------------------------------------------------------------
(* The inductive invariant *)

SealInv == TypeOK /\ SealedWell

LEMMA LearnKeepsInv ==
  ASSUME SealInv, NEW u \in Users, NEW result, Learn(u, result),
         result.err = "none" => result.pt \in Plaintexts
  PROVE  SealInv'
<1>1. TypeOK'
  BY DEF SealInv, TypeOK, Learn
<1>2. SealedWell'
  BY DEF SealInv, SealedWell, Learn
<1>3. QED
  BY <1>1, <1>2 DEF SealInv

LEMMA StoreKeepsInv ==
  ASSUME SealInv, NEW c \in TextType, WellSealed(c), Store(c)
  PROVE  SealInv'
<1>1. TypeOK'
  BY DEF SealInv, TypeOK, Store
<1>2. SealedWell'
  BY DEF SealInv, SealedWell, Store
<1>3. QED
  BY <1>1, <1>2 DEF SealInv

LEMMA DamageKeepsInv ==
  ASSUME SealInv, NEW c \in wire, Damage(c)
  PROVE  SealInv'
<1>1. PICK d \in Damaged(c) : wire' = (wire \ {c}) \cup {d}
  BY DEF Damage
<1>2. c \in TextType
  BY DEF SealInv, TypeOK
<1>3. d \in TextType /\ d.state # "intact"
  <2>1. CASE d \in {[c EXCEPT !.len = n, !.first = IF n = 0 THEN NoByte ELSE @,
                       !.state = "damaged"] : n \in {m \in CutLens : m < c.len}}
    <3>1. PICK n \in CutLens :
            d = [c EXCEPT !.len = n, !.first = IF n = 0 THEN NoByte ELSE @,
                          !.state = "damaged"]
      BY <2>1
    <3>2. n \in Nat
      BY ConstantsAssumption
    <3>3. d = [first |-> IF n = 0 THEN NoByte ELSE c.first, len |-> n, form |-> c.form,
               to |-> c.to, label |-> c.label, pt |-> c.pt, state |-> "damaged"]
      BY <1>2, <3>1 DEF TextType
    <3>4. QED
      BY <1>2, <3>2, <3>3 DEF TextType
  <2>2. CASE d \in {[c EXCEPT !.first = b, !.state = "damaged"] : b \in EphBytes \ {c.first}}
    <3>1. PICK b \in EphBytes : d = [c EXCEPT !.first = b, !.state = "damaged"]
      BY <2>2
    <3>2. b \in 0..255
      BY ConstantsAssumption
    <3>3. d = [first |-> b, len |-> c.len, form |-> c.form, to |-> c.to,
               label |-> c.label, pt |-> c.pt, state |-> "damaged"]
      BY <1>2, <3>1 DEF TextType
    <3>4. QED
      BY <1>2, <3>2, <3>3 DEF TextType
  <2>3. CASE d \in {[c EXCEPT !.state = st] : st \in {"damaged", "garbled"}}
    BY <1>2, <2>3 DEF TextType
  <2>4. QED
    BY <2>1, <2>2, <2>3 DEF Damaged
<1>4. TypeOK'
  BY <1>1, <1>3 DEF SealInv, TypeOK, Damage
<1>5. SealedWell'
  BY <1>1, <1>3 DEF SealInv, SealedWell, WellSealed
<1>6. QED
  BY <1>4, <1>5 DEF SealInv

LEMMA SealInvInductive == SealInv /\ [Next]_vars => SealInv'
<1> SUFFICES ASSUME SealInv, [Next]_vars PROVE SealInv'
  OBVIOUS
<1> USE DEF SealInv
<1>1. ASSUME NEW u \in Users, NEW r \in Requests, GenerateKeypair(u, r[1], r[2])
      PROVE  SealInv'
  <2>1. r[1] \in Suites /\ r[2] \in Levels
    BY ConstantsAssumption
  <2>2. KeygenScheme(r[1], r[2]) \in Schemes
    BY <1>1, <2>1, DispatchesAgree DEF GenerateKeypair
  <2>3. made' \in Nat
    BY <1>1 DEF GenerateKeypair, TypeOK
  <2> DEFINE k == [owner |-> u, form |-> KeygenScheme(r[1], r[2]), gen |-> made']
  <2>4. k \in [owner : Users, form : Schemes, gen : Nat] /\ k.owner = u
    BY <2>2, <2>3
  <2>5. ring' = [ring EXCEPT ![u] = @ \cup {k}] /\ UNCHANGED <<wire, learned>>
    BY <1>1 DEF GenerateKeypair
  <2> HIDE DEF k
  <2>6. TypeOK'
    BY <2>3, <2>4, <2>5 DEF TypeOK
  <2>7. SealedWell'
    BY <2>5 DEF SealedWell
  <2>8. QED
    BY <2>6, <2>7
<1>2. ASSUME NEW pk \in KeyArgs, NEW pq \in KeyArgs, NEW r \in Requests,
             NEW p \in Plaintexts, SealCall(pk, pq, r[1], r[2], p)
      PROVE  SealInv'
  <2>1. PICK c \in SealForUser(pk, pq, r[1], r[2], p) : Store(c)
    BY <1>2 DEF SealCall
  <2>2. r[1] \in Suites /\ r[2] \in Levels /\ DefaultLabel \in Labels
    BY ConstantsAssumption
  <2>3. CASE c \in HybridSeal(pq, r[1], r[2], DefaultLabel, p)
    BY <2>1, <2>2, <2>3, HybridSealWell, SealUnderWell, StoreKeepsInv
  <2>4. CASE c \in BoxSeal(pk, p)
    BY <2>1, <2>4, BoxSealWell, StoreKeepsInv
  <2>5. QED
    BY <2>1, <2>3, <2>4 DEF SealForUser
<1>3. ASSUME NEW k \in KeyArgs, NEW r \in Requests, NEW l \in Labels,
             NEW p \in Plaintexts, SealWithContextCall(k, r[1], r[2], l, p)
      PROVE  SealInv'
  <2>1. PICK c \in HybridSeal(k, r[1], r[2], l, p) : Store(c)
    BY <1>3 DEF SealWithContextCall
  <2>2. r[1] \in Suites /\ r[2] \in Levels
    BY ConstantsAssumption
  <2>3. QED
    BY <2>1, <2>2, HybridSealWell, SealUnderWell, StoreKeepsInv
<1>4. ASSUME NEW u \in Users, NEW c \in wire, NEW pk \in KeyArgs,
             NEW sk \in Secrets(u), NEW pq \in Secrets(u), UnsealCall(u, c, pk, sk, pq)
      PROVE  SealInv'
  <2>1. c.pt \in Plaintexts
    BY DEF TypeOK, TextType
  <2>2. QED
    BY <1>4, <2>1, UnsealOnlyForHolder, LearnKeepsInv DEF UnsealCall, Ok
<1>5. ASSUME NEW u \in Users, NEW c \in wire, NEW l \in Labels,
             NEW seed \in Secrets(u), OpenWithContextCall(u, c, seed, l)
      PROVE  SealInv'
  <2>1. c.pt \in Plaintexts
    BY DEF TypeOK, TextType
  <2>2. QED
    BY <1>5, <2>1, OpenOnlyIfDecrypts, LearnKeepsInv DEF OpenWithContextCall, Ok
<1>6. ASSUME NEW c \in wire, Damage(c)
      PROVE  SealInv'
  BY <1>6, DamageKeepsInv
<1>7. CASE UNCHANGED vars
  BY <1>7 DEF vars, TypeOK, SealedWell
<1>8. QED
  BY <1>1, <1>2, <1>3, <1>4, <1>5, <1>6, <1>7 DEF Next

LEMMA SealInvAlways == Spec => []SealInv
<1>1. Init => SealInv
  BY DEF Init, SealInv, TypeOK, SealedWell
<1>2. QED
  BY <1>1, SealInvInductive, PTL DEF Spec

-----------------------------------------------------------------------------
(* Theorems *)

(* Every variable of the seal layer keeps its type, whatever is called. *)
THEOREM TypeCorrect == Spec => []TypeOK
BY SealInvAlways, PTL DEF SealInv

(* Undamaged texts carry their own scheme's tag and length and are sealed   *)
(* to a key of that scheme.                                                 *)
THEOREM TextsWellSealed == Spec => []SealedWell
BY SealInvAlways, PTL DEF SealInv

(* An undamaged hybrid text and the key it was sealed to: the routing check *)
(* says yes and the opener of its tag decrypts unless the label differs.    *)
LEMMA HybridTextOpens ==
  ASSUME SealInv, NEW c \in wire, c.state = "intact", c.form \in Schemes, NEW label
  PROVE  /\ IsHybrid(c) /\ c.to.form = c.form
         /\ HybridOpen(c, c.to, label) =
              Decrypted(c, c.form \in EnvelopeSchemes => c.label = label)
<1>1. c.first = Tag(c.form) /\ c.len = Overhead(c.form) + PtLen[c.pt] /\ c.to.form = c.form
  <2>1. c.form # "X25519"
    BY DEF Schemes, CombineSchemes, EnvelopeSchemes
  <2>2. QED
    BY <2>1 DEF SealInv, SealedWell, WellSealed
<1>2. PtLen[c.pt] \in Nat
  BY ConstantsAssumption DEF SealInv, TypeOK, TextType
<1>3. MinLen(c.form) \in Nat /\ c.len \in Nat /\ c.len >= MinLen(c.form)
  BY <1>1, <1>2, MinLenIsOverhead
<1>4. IsHybrid(c)
  BY <1>1, <1>3 DEF IsHybrid, LooksHybrid
<1>5. ~(c.len < MinLen(c.form))
  BY <1>3
<1>6. HybridOpen(c, c.to, label) = Decrypted(c, Decrypts(c, c.form, c.to, label))
  BY <1>1, <1>3, <1>5, OpenWithSeed DEF Forms
<1>7. Decrypts(c, c.form, c.to, label) <=> (c.form \in EnvelopeSchemes => c.label = label)
  BY DEF Decrypts
<1>8. QED
  BY <1>1, <1>4, <1>6, <1>7 DEF Decrypted

LEMMA InvImpliesLegacyOpens == SealInv => LegacyAlwaysOpens
<1> SUFFICES ASSUME SealInv, NEW c \in wire, c.state = "intact", c.form = "X25519",
                    NEW pq \in KeyArgs
             PROVE  Unseal(c, c.to, c.to, pq) = Ok(c.pt)
  BY DEF LegacyAlwaysOpens
<1>1. "X25519" \notin Schemes
  BY DEF Schemes, CombineSchemes, EnvelopeSchemes
<1>2. c.to.form = "X25519" /\ c.len = MinSealedLen + PtLen[c.pt]
  BY <1>1 DEF SealInv, SealedWell, WellSealed
<1>3. ~(c.len < MinSealedLen) /\ ~(c.len < X25519Len)
  <2>1. PtLen[c.pt] \in Nat
    BY ConstantsAssumption DEF SealInv, TypeOK, TextType
  <2>2. QED
    BY <1>2, <2>1 DEF MinSealedLen, X25519Len, MacLen
<1>4. BoxOpen(c, c.to, c.to) = Ok(c.pt)
  BY <1>1, <1>2, <1>3 DEF BoxOpen, Decrypted, PublicLen, SecretLen, X25519Len
<1>5. HybridOpen(c, pq, DefaultLabel).err # "none"
  BY <1>1, OpenOnlyIfDecrypts DEF Decrypts
<1>6. QED
  BY <1>4, <1>5 DEF Unseal

(* Availability of pre-migration data: no first byte, length or PQ key ever *)
(* keeps the owner from opening a legacy sealed box.                        *)
THEOREM LegacyAvailability == Spec => []LegacyAlwaysOpens
BY SealInvAlways, InvImpliesLegacyOpens, PTL

LEMMA InvImpliesHybridOpens == SealInv => HybridOpensForHolder
<1> SUFFICES ASSUME SealInv, NEW c \in wire, c.state = "intact", c.form \in Schemes,
                    c.label = DefaultLabel, NEW pk \in KeyArgs, NEW sk \in KeyArgs
             PROVE  Unseal(c, pk, sk, c.to) = Ok(c.pt)
  BY DEF HybridOpensForHolder
<1>1. IsHybrid(c) /\ c.to.form = c.form /\ HybridOpen(c, c.to, DefaultLabel) = Decrypted(c, TRUE)
  BY HybridTextOpens
<1>2. Given(c.to)
  BY <1>1 DEF Given, Schemes, CombineSchemes, EnvelopeSchemes
<1>3. QED
  BY <1>1, <1>2 DEF Unseal, Decrypted, Ok

(* The holder of the seed opens every default-label hybrid text through     *)
(* unseal_from_user, whatever X25519 keys it passes.                        *)
THEOREM HybridAvailability == Spec => []HybridOpensForHolder
BY SealInvAlways, InvImpliesHybridOpens, PTL

(* An opener of hybrid.rs panics on no text, whatever its first byte says. *)
LEMMA HybridNeverPanics ==
  ASSUME NEW c, c.len \in Nat, NEW seed, NEW label
  PROVE  HybridOpen(c, seed, label).err # "Panic"
<1>1. CASE c.state = "garbled"
  BY <1>1 DEF HybridOpen, Err
<1>2. CASE c.state # "garbled" /\ \E s \in Schemes : c.first = Tag(s)
  <2>1. PICK s \in Schemes : c.first = Tag(s)
    BY <1>2
  <2>2. SeedError(seed) \in {"none", "Base64", "InvalidLength"}
    BY DEF SeedError
  <2>3. HybridOpen(c, seed, label) \in
          {Err("Base64"), Err("InvalidLength"), Err("TooShort"),
           Decrypted(c, Decrypts(c, s, seed, label))}
    BY <1>2, <2>1, <2>2, OpenRoutes, ParsedBehindGates DEF OpenCombine, OpenEnvelope
  <2>4. QED
    BY <2>3 DEF Decrypted, Ok, Err
<1>3. CASE c.state # "garbled" /\ ~ \E s \in Schemes : c.first = Tag(s)
  BY <1>3, OpenNoRoute DEF Err
<1>4. QED
  BY <1>1, <1>2, <1>3

LEMMA BoxNeverPanics ==
  ASSUME NEW c, c.len \in Nat, NEW pk, NEW sk
  PROVE  BoxOpen(c, pk, sk).err # "Panic"
<1>1. c.len < X25519Len => c.len < MinSealedLen
  BY DEF MinSealedLen, X25519Len, MacLen
<1>2. BoxOpen(c, pk, sk).err \in {"none", "Base64", "InvalidLength", "TooShort", "Rejected"}
  BY <1>1 DEF BoxOpen, Decrypted, Ok, Err
<1>3. QED
  BY <1>2

LEMMA InvImpliesNeverPanic == SealInv => OpenersNeverPanic
<1> SUFFICES ASSUME SealInv, NEW c \in wire, NEW k \in KeyArgs
             PROVE  /\ \A l \in Labels : HybridOpen(c, k, l).err # "Panic"
                    /\ \A pk, pq \in KeyArgs : /\ BoxOpen(c, pk, k).err # "Panic"
                                               /\ Unseal(c, pk, k, pq).err # "Panic"
  BY DEF OpenersNeverPanic
<1>1. c.len \in Nat
  BY DEF SealInv, TypeOK, TextType
<1>2. \A l \in Labels : HybridOpen(c, k, l).err # "Panic"
  BY <1>1, HybridNeverPanics
<1>3. ASSUME NEW pk \in KeyArgs, NEW pq \in KeyArgs
      PROVE  BoxOpen(c, pk, k).err # "Panic" /\ Unseal(c, pk, k, pq).err # "Panic"
  <2>1. BoxOpen(c, pk, k).err # "Panic"
    BY <1>1, BoxNeverPanics
  <2>2. HybridOpen(c, pq, DefaultLabel).err # "Panic"
    BY <1>1, HybridNeverPanics
  <2>3. QED
    BY <2>1, <2>2 DEF Unseal
<1>4. QED
  BY <1>2, <1>3

(* Every length gate of the six openers and of box_seal_open covers the     *)
(* slices behind it, so no text of any length, under any first byte, makes  *)
(* an opener panic.                                                         *)
THEOREM NeverPanics == Spec => []OpenersNeverPanic
BY SealInvAlways, InvImpliesNeverPanic, PTL

LEMMA InvImpliesLabelBinds == SealInv => LabelBinds
<1> SUFFICES ASSUME SealInv, NEW c \in wire, c.state = "intact", c.form \in Schemes
             PROVE  /\ \A l \in Labels : HybridOpen(c, c.to, l) =
                         IF c.form \in CombineSchemes \/ l = c.label
                         THEN Ok(c.pt) ELSE Err("Rejected")
                    /\ c.label # DefaultLabel =>
                         \A pk, sk \in KeyArgs : Unseal(c, pk, sk, c.to).err # "none"
  BY DEF LabelBinds
<1>1. c.form \in CombineSchemes <=> c.form \notin EnvelopeSchemes
  BY DEF Schemes, CombineSchemes, EnvelopeSchemes
<1>2. ASSUME NEW l \in Labels
      PROVE  HybridOpen(c, c.to, l) = IF c.form \in CombineSchemes \/ l = c.label
                                      THEN Ok(c.pt) ELSE Err("Rejected")
  BY <1>1, <1>2, HybridTextOpens DEF Decrypted
<1>3. ASSUME c.label # DefaultLabel, NEW pk \in KeyArgs, NEW sk \in KeyArgs,
             Unseal(c, pk, sk, c.to).err = "none"
      PROVE  FALSE
  <2>1. c.form # "X25519"
    BY DEF Schemes, CombineSchemes, EnvelopeSchemes
  <2>2. BoxOpen(c, pk, sk).err # "none"
    BY <2>1, BoxOpenOnlyIfOwner
  <2>3. HybridOpen(c, c.to, DefaultLabel).err = "none"
    BY <1>3, <2>2 DEF Unseal
  <2>4. PICK s \in Schemes : Decrypts(c, s, c.to, DefaultLabel)
    BY <2>3, OpenOnlyIfDecrypts
  <2>5. c.form \in CombineSchemes
    BY <1>1, <1>3, <2>4 DEF Decrypts
  <2>6. QED
    BY <1>3, <2>1, <2>5 DEF SealInv, SealedWell, WellSealed
<1>4. QED
  BY <1>2, <1>3

(* The label of an envelope is binding, through every opener.               *)
THEOREM LabelBinding == Spec => []LabelBinds
BY SealInvAlways, InvImpliesLabelBinds, PTL

LEMMA InvImpliesLockstep == SealInv => GateLockstep
<1> SUFFICES ASSUME SealInv, NEW c \in wire, NEW k \in KemKeys \cup BoxKeys, NEW l \in Labels
             PROVE  IsHybrid(c) <=>
                      HybridOpen(c, k, l).err \notin {"Base64", "BadTag", "TooShort", "Panic"}
  BY DEF GateLockstep
<1>1. k.form \in Forms
  BY DEF SealInv, TypeOK, KemKeys, BoxKeys, BoxKey, Forms
<1>2. CASE c.state = "garbled"
  BY <1>2 DEF IsHybrid, HybridOpen, Err
<1>3. CASE c.state # "garbled" /\ \E s \in Schemes : c.first = Tag(s)
  <2>1. PICK s \in Schemes : c.first = Tag(s)
    BY <1>3
  <2>2. IsHybrid(c) <=> c.len >= MinLen(s)
    BY <1>3, <2>1, TagInjective DEF IsHybrid, LooksHybrid
  <2>3. c.len \in Nat /\ MinLen(s) \in Nat
    BY MinLenIsOverhead DEF SealInv, TypeOK, TextType
  <2>4. HybridOpen(c, k, l) = IF c.len < MinLen(s) THEN Err("TooShort")
                              ELSE Decrypted(c, Decrypts(c, s, k, l))
    BY <1>1, <1>3, <2>1, <2>3, OpenWithSeed
  <2>5. Decrypted(c, Decrypts(c, s, k, l)).err \in {"none", "Rejected"}
    BY DEF Decrypted, Ok, Err
  <2>6. CASE c.len < MinLen(s)
    BY <2>2, <2>3, <2>4, <2>6 DEF Err
  <2>7. CASE ~(c.len < MinLen(s))
    BY <2>2, <2>3, <2>4, <2>5, <2>7
  <2>8. QED
    BY <2>6, <2>7
<1>4. CASE c.state # "garbled" /\ ~ \E s \in Schemes : c.first = Tag(s)
  BY <1>4, OpenNoRoute DEF IsHybrid, LooksHybrid, Err
<1>5. QED
  BY <1>2, <1>3, <1>4

(* is_hybrid_ciphertext and the six open gates agree on every byte string.  *)
THEOREM RoutingLockstep == Spec => []GateLockstep
BY SealInvAlways, InvImpliesLockstep, PTL

LEMMA InvImpliesNoDowngrade == SealInv => NoSilentDowngrade
<1> SUFFICES ASSUME SealInv, NEW pk \in BoxKeys, NEW pq \in KeyArgs, NEW r \in Requests,
                    NEW p \in Plaintexts, Given(pq),
                    NEW c \in SealForUser(pk, pq, r[1], r[2], p)
             PROVE  c.to = pq /\ c.form = KeygenScheme(r[1], r[2])
  BY DEF NoSilentDowngrade
<1>1. c \in HybridSeal(pq, r[1], r[2], DefaultLabel, p)
  BY DEF SealForUser
<1>2. r[1] \in Suites /\ r[2] \in Levels /\ DefaultLabel \in Labels
  BY ConstantsAssumption
<1>3. QED
  BY <1>1, <1>2, HybridSealWell, SealUnderWell DEF SealInv

(* A PQ key handed to seal_for_user* is used or the call fails.             *)
THEOREM NoDowngrade == Spec => []NoSilentDowngrade
BY SealInvAlways, InvImpliesNoDowngrade, PTL

LEMMA InvImpliesKeyFits == SealInv => KeyFitsRequest
<1> SUFFICES ASSUME SealInv, NEW k \in KemKeys, NEW r \in Requests, NEW l \in Labels,
                    NEW p \in Plaintexts
             PROVE  LET sealed == HybridSeal(k, r[1], r[2], l, p)
                    IN /\ (sealed # {}) <=>
                            (Supported(r[1], r[2]) /\ KeygenScheme(r[1], r[2]) = k.form)
                       /\ \A c \in sealed : IsHybrid(c) /\ HybridOpen(c, k, l) = Ok(p)
  BY DEF KeyFitsRequest
<1>1. r[1] \in Suites /\ r[2] \in Levels
  BY ConstantsAssumption
<1>2. k \in KeyArgs /\ k.form \in Schemes
  BY DEF KeyArgs, KemKeys, SealInv, TypeOK
<1>3. k.form # "garbled"
  BY <1>2 DEF Schemes, CombineSchemes, EnvelopeSchemes
<1>4. ASSUME NEW c \in HybridSeal(k, r[1], r[2], l, p)
      PROVE  /\ Supported(r[1], r[2]) /\ KeygenScheme(r[1], r[2]) = k.form
             /\ IsHybrid(c) /\ HybridOpen(c, k, l) = Ok(p)
  <2> DEFINE s == KeygenScheme(r[1], r[2])
  <2>1. s \in Schemes /\ Supported(r[1], r[2]) /\ c \in SealUnder(s, k, l, p)
    BY <1>1, <1>2, HybridSealWell DEF SealInv
  <2>2. /\ WellSealed(c) /\ c \in TextType
        /\ c.state = "intact" /\ c.form = s /\ c.to = k /\ c.pt = p /\ k.form = s
        /\ s \in EnvelopeSchemes => c.label = l
    BY <1>2, <2>1, SealUnderWell DEF SealInv
  <2> HIDE DEF s
  <2>3. s # "X25519"
    BY <2>1 DEF Schemes, CombineSchemes, EnvelopeSchemes
  <2>4. c.first = Tag(s) /\ c.len = Overhead(s) + PtLen[p]
    BY <2>2, <2>3 DEF WellSealed
  <2>5. MinLen(s) \in Nat /\ Overhead(s) = MinLen(s) /\ PtLen[p] \in Nat
    BY <2>1, MinLenIsOverhead, ConstantsAssumption
  <2>6. c.len \in Nat /\ c.len >= MinLen(s) /\ ~(c.len < MinLen(s))
    BY <2>4, <2>5
  <2>7. IsHybrid(c)
    BY <2>1, <2>2, <2>4, <2>6 DEF IsHybrid, LooksHybrid
  <2>8. HybridOpen(c, k, l) = Decrypted(c, Decrypts(c, s, k, l))
    BY <1>2, <2>1, <2>2, <2>4, <2>6, OpenWithSeed DEF Forms
  <2>9. Decrypts(c, s, k, l)
    BY <2>2 DEF Decrypts
  <2>10. QED
    BY <2>1, <2>2, <2>7, <2>8, <2>9 DEF Decrypted, s
<1>5. ASSUME Supported(r[1], r[2]), KeygenScheme(r[1], r[2]) = k.form
      PROVE  HybridSeal(k, r[1], r[2], l, p) # {}
  <2>1. SealScheme(r[1], r[2]) = k.form
    BY <1>1, <1>5, DispatchesAgree
  <2>2. SealUnder(k.form, k, l, p) # {}
    BY <1>2, <1>3 DEF SealUnder, PublicLen
  <2>3. QED
    BY <1>5, <2>1, <2>2 DEF HybridSeal
<1>6. QED
  BY <1>4, <1>5

(* Key generation, sealing and opening agree on the scheme of every request *)
(* and refuse every other key, for all plaintext lengths.                   *)
THEOREM KeyFits == Spec => []KeyFitsRequest
BY SealInvAlways, InvImpliesKeyFits, PTL

-----------------------------------------------------------------------------
(* The seal layer implements the mailbox *)

LEMMA SecretsAreOwn ==
  ASSUME SealInv, NEW u \in Users, NEW k \in Secrets(u), k.owner \in Users
  PROVE  k.owner = u
BY ConstantsAssumption DEF SealInv, TypeOK, Secrets, BoxKey, NotKeys, NotAKey

LEMMA StorePosts ==
  ASSUME SealInv, NEW c \in TextType, Store(c)
  PROVE  MB!Next
<1>1. c.to.owner \in Users /\ c.pt \in Plaintexts
  BY DEF TextType, KeyType
<1>2. Posted' = Posted \cup {[to |-> c.to.owner, pt |-> c.pt]}
  BY DEF Store, Posted
<1>3. MB!Post(c.to.owner, c.pt)
  BY <1>2 DEF MB!Post, Store
<1>4. QED
  BY <1>1, <1>3 DEF MB!Next

LEMMA LearnReads ==
  ASSUME SealInv, NEW u \in Users, NEW c \in wire, c.to \in Secrets(u), Learn(u, Ok(c.pt))
  PROVE  MB!Next
<1>1. c.to.owner \in Users /\ c.pt \in Plaintexts
  BY DEF SealInv, TypeOK, TextType, KeyType
<1>2. [to |-> u, pt |-> c.pt] \in Posted
  BY <1>1, SecretsAreOwn DEF Posted
<1>3. Posted' = Posted
  BY DEF Learn, Posted
<1>4. MB!Read(u, c.pt)
  BY <1>2, <1>3 DEF MB!Read, Learn, Ok
<1>5. QED
  BY <1>1, <1>4 DEF MB!Next

LEMMA DamagePostsNothing ==
  ASSUME SealInv, NEW c \in wire, Damage(c)
  PROVE  UNCHANGED <<Posted, learned>>
<1>1. PICK d \in Damaged(c) : wire' = (wire \ {c}) \cup {d}
  BY DEF Damage
<1>2. c \in TextType
  BY DEF SealInv, TypeOK
<1>3. d.to = c.to /\ d.pt = c.pt
  BY <1>2 DEF Damaged, TextType
<1>4. Posted' = Posted
  BY <1>1, <1>3 DEF Posted
<1>5. QED
  BY <1>4 DEF Damage

LEMMA StepImplements == SealInv /\ [Next]_vars => [MB!Next]_<<Posted, learned>>
<1> SUFFICES ASSUME SealInv, [Next]_vars PROVE MB!Next \/ UNCHANGED <<Posted, learned>>
  OBVIOUS
<1>1. ASSUME NEW u \in Users, NEW r \in Requests, GenerateKeypair(u, r[1], r[2])
      PROVE  UNCHANGED <<Posted, learned>>
  BY <1>1 DEF GenerateKeypair, Posted
<1>2. ASSUME NEW pk \in KeyArgs, NEW pq \in KeyArgs, NEW r \in Requests,
             NEW p \in Plaintexts, SealCall(pk, pq, r[1], r[2], p)
      PROVE  MB!Next
  <2>1. PICK c \in SealForUser(pk, pq, r[1], r[2], p) : Store(c)
    BY <1>2 DEF SealCall
  <2>2. r[1] \in Suites /\ r[2] \in Levels /\ DefaultLabel \in Labels
    BY ConstantsAssumption
  <2>3. CASE c \in HybridSeal(pq, r[1], r[2], DefaultLabel, p)
    BY <2>1, <2>2, <2>3, HybridSealWell, SealUnderWell, StorePosts DEF SealInv
  <2>4. CASE c \in BoxSeal(pk, p)
    BY <2>1, <2>4, BoxSealWell, StorePosts DEF SealInv
  <2>5. QED
    BY <2>1, <2>3, <2>4 DEF SealForUser
<1>3. ASSUME NEW k \in KeyArgs, NEW r \in Requests, NEW l \in Labels,
             NEW p \in Plaintexts, SealWithContextCall(k, r[1], r[2], l, p)
      PROVE  MB!Next
  <2>1. PICK c \in HybridSeal(k, r[1], r[2], l, p) : Store(c)
    BY <1>3 DEF SealWithContextCall
  <2>2. r[1] \in Suites /\ r[2] \in Levels
    BY ConstantsAssumption
  <2>3. QED
    BY <2>1, <2>2, HybridSealWell, SealUnderWell, StorePosts DEF SealInv
<1>4. ASSUME NEW u \in Users, NEW c \in wire, NEW pk \in KeyArgs,
             NEW sk \in Secrets(u), NEW pq \in Secrets(u), UnsealCall(u, c, pk, sk, pq)
      PROVE  MB!Next
  <2>1. Unseal(c, pk, sk, pq) = Ok(c.pt) /\ c.to \in Secrets(u)
    BY <1>4, UnsealOnlyForHolder DEF UnsealCall, Learn
  <2>2. QED
    BY <1>4, <2>1, LearnReads DEF UnsealCall
<1>5. ASSUME NEW u \in Users, NEW c \in wire, NEW l \in Labels,
             NEW seed \in Secrets(u), OpenWithContextCall(u, c, seed, l)
      PROVE  MB!Next
  <2>1. HybridOpen(c, seed, l) = Ok(c.pt) /\ c.to = seed
    BY <1>5, OpenOnlyIfDecrypts DEF OpenWithContextCall, Learn, Decrypts
  <2>2. QED
    BY <1>5, <2>1, LearnReads DEF OpenWithContextCall
<1>6. ASSUME NEW c \in wire, Damage(c)
      PROVE  UNCHANGED <<Posted, learned>>
  BY <1>6, DamagePostsNothing
<1>7. CASE UNCHANGED vars
  BY <1>7 DEF vars, Posted
<1>8. QED
  BY <1>1, <1>2, <1>3, <1>4, <1>5, <1>6, <1>7 DEF Next

(* The seal layer implements the abstract mailbox: sealing posts to the     *)
(* owner of the key, a successful open reads what was posted to the caller, *)
(* and key generation, refused calls and damage are stutters.               *)
THEOREM Refinement == Spec => ImplementsMailbox
<1>1. Init => MB!Init
  BY DEF Init, MB!Init, Posted
<1>2. QED
  BY <1>1, StepImplements, SealInvAlways, PTL DEF Spec, ImplementsMailbox, MB!Spec
=============================================================================
