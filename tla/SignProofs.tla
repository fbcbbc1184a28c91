----------------------------- MODULE SignProofs -----------------------------
(***************************************************************************)
(* Theorems about Sign for every set of contexts and messages, every       *)
(* number of keypairs and signatures and every retagging of an artifact.   *)
(***************************************************************************)
EXTENDS Sign, FiniteSetTheorems, SequenceLemmas

-----------------------------------------------------------------------------
(* The frame and the format tables *)

(* frame() tells context and message apart: equal frames are of equal       *)
(* contexts and messages.                                                   *)
LEMMA FrameInjective ==
  ASSUME NEW c1 \in Seq(Nat), NEW m1 \in Seq(Nat),
         NEW c2 \in Seq(Nat), NEW m2 \in Seq(Nat),
         Frame(c1, m1) = Frame(c2, m2)
  PROVE  c1 = c2 /\ m1 = m2
<1> DEFINE Prefix(c) == <<Len(c)>>
<1>1. ASSUME NEW c \in Seq(Nat)
      PROVE  /\ c \in Over(Nat) /\ Prefix(c) \in Over(Nat) /\ Len(c) \in Nat
             /\ 1 \in 1..Len(Joined(Prefix(c), c))
             /\ Len(Joined(Prefix(c), c)) = 1 + Len(c) /\ Len(Prefix(c)) = 1
             /\ Joined(Prefix(c), c)[1] = Len(c)
  <2>1. Prefix(c) \in Seq(Nat) /\ Len(Prefix(c)) = 1 /\ Prefix(c)[1] = Len(c) /\ Len(c) \in Nat
    OBVIOUS
  <2>2. Len(Prefix(c) \o c) = 1 + Len(c)
    BY <2>1, ConcatProperties
  <2>3. (Prefix(c) \o c)[1] = Len(c)
    BY <2>1, ConcatFront
  <2>4. QED
    BY <2>1, <2>2, <2>3 DEF Over, Joined
<1> HIDE DEF Prefix
<1>2. ASSUME NEW c \in Seq(Nat), NEW m \in Seq(Nat)
      PROVE  Joined(Joined(Prefix(c), c), m)[1] = Len(c)
  <2>1. Joined(Prefix(c), c) \in Over(Nat) /\ m \in Over(Nat)
    BY <1>1, JoinedOver
  <2>2. 1 \in 1..Len(Joined(Prefix(c), c)) /\ Joined(Prefix(c), c)[1] = Len(c)
    BY <1>1
  <2>3. QED
    BY ONLY <2>1, <2>2, JoinedFront
<1>3. Joined(Joined(Prefix(c1), c1), m1) = Joined(Joined(Prefix(c2), c2), m2)
  BY DEF Frame, Joined, Prefix
<1>4. Len(c1) = Len(c2)
  BY <1>2, <1>3
<1>5. /\ Joined(Prefix(c1), c1) \in Over(Nat) /\ Joined(Prefix(c2), c2) \in Over(Nat)
      /\ Len(Joined(Prefix(c1), c1)) = Len(Joined(Prefix(c2), c2))
      /\ m1 \in Over(Nat) /\ m2 \in Over(Nat)
  BY <1>1, <1>4, JoinedOver
<1>6. Joined(Prefix(c1), c1) = Joined(Prefix(c2), c2) /\ m1 = m2
  BY ONLY <1>3, <1>5, JoinedCancel
<1>7. c1 = c2
  <2>1. /\ Prefix(c1) \in Over(Nat) /\ Prefix(c2) \in Over(Nat) /\ c1 \in Over(Nat) /\ c2 \in Over(Nat)
        /\ Len(Prefix(c1)) = Len(Prefix(c2))
    BY <1>1
  <2>2. QED
    BY ONLY <2>1, <1>6, JoinedCancel
<1>8. QED
  BY <1>6, <1>7

(* Frames of statements, in the form the invariants use.                    *)
LEMMA FramedInjective ==
  ASSUME NEW st \in Statements, NEW su \in Statements, Framed(st) = Framed(su)
  PROVE  st = su
<1>1. /\ st[1] \in Seq(Nat) /\ st[2] \in Seq(Nat) /\ su[1] \in Seq(Nat)
      /\ su[2] \in Seq(Nat) /\ st = <<st[1], st[2]>> /\ su = <<su[1], su[2]>>
  BY SignAssumption DEF Statements
<1>2. st[1] = su[1] /\ st[2] = su[2]
  BY <1>1, FrameInjective DEF Framed
<1>3. QED
  BY <1>1, <1>2

LEMMA SigTagInjective ==
  ASSUME NEW s \in SigSchemes, NEW t \in SigSchemes, SigTag(s) = SigTag(t)
  PROVE  s = t
BY DEF SigSchemes, LevelSchemes, SuiteSchemes, SigTag, SigFormat, Layout

(* What the tables hold for each scheme.                                    *)
LEMMA SchemeFacts ==
  ASSUME NEW s \in SigSchemes
  PROVE  /\ SigTag(s) \in 0..255
         /\ Classical(s) \in Algs /\ PostQuantum(s) \in Algs
         /\ PostQuantum(s) # "none" /\ PostQuantum(s) # Classical(s)
         /\ SecretKeyLen(s) \in Nat /\ PublicKeyLen(s) \in Nat /\ SignatureLen(s) \in Nat
         /\ Classical(s) = "none" <=> s = "Pure87"
BY DEF SigSchemes, LevelSchemes, SuiteSchemes, SigTag, SigFormat, Layout, Classical,
       PostQuantum, SecretKeyLen, PublicKeyLen, SignatureLen, Component, Lens, Algs

(* verify's length checks and the posture calls' tables agree.              *)
LEMMA LengthTablesAgree ==
  ASSUME NEW s \in SigSchemes
  PROVE  /\ ExpectedPublicKeyLen[s] = PublicKeyLen(s)
         /\ ExpectedSignatureLen[s] = SignatureLen(s)
BY DEF SigSchemes, LevelSchemes, SuiteSchemes, SigFormat, Layout, Classical,
       PostQuantum, PublicKeyLen, SignatureLen, Component, Lens,
       ExpectedPublicKeyLen, ExpectedSignatureLen

(* The key generation dispatch yields a scheme that declares the request.   *)
LEMMA KeypairSchemeFits ==
  ASSUME NEW suite \in Suites, NEW level \in SigLevels, SigSupported(suite, level)
  PROVE  /\ KeypairScheme(suite, level) \in SigSchemes
         /\ TagPosture[KeypairScheme(suite, level)] =
              <<IF level = "Cat2" THEN "Hybrid" ELSE suite, level>>
BY DEF Suites, SigLevels, SigSupported, KeypairScheme, LevelScheme, SigSchemes,
       LevelSchemes, SuiteSchemes, TagPosture

-----------------------------------------------------------------------------
(* Arguments and results of the calls *)

LEMMA KeyTyped ==
  ASSUME NEW s \in SigSchemes, NEW n \in Nat
  PROVE  /\ Key(Classical(s), n) \in KeyType /\ Key(PostQuantum(s), n) \in KeyType
         /\ Key(PostQuantum(s), n) # NoKey
         /\ Key(Classical(s), n) = NoKey <=> Classical(s) = "none"
         /\ Keys(s, n) \subseteq KeyType
BY SchemeFacts DEF Key, NoKey, Keys, KeyType

LEMMA SecretArgSeed ==
  ASSUME TypeOK, NEW sk \in SecretArgs
  PROVE  sk.seed \in Nat
<1>1. \A k \in SecretKeys : k.seed \in Nat
  BY DEF TypeOK, SecretKeys, SecretKey
<1>2. \A k \in SecretKeys : \A b \in Retagged(k) \cup Resized(k) : b.seed = k.seed
  BY DEF SecretKeys, SecretKey, Retagged, Resized
<1>3. QED
  BY <1>1, <1>2 DEF SecretArgs

(* A public key that derive_public_key returns is one of a known scheme.    *)
LEMMA PublicKeyShape ==
  ASSUME TypeOK, NEW pk \in PublicKeys
  PROVE  \E s \in SigSchemes, n \in Nat : pk = PublicKey(s, n)
BY SecretArgSeed DEF PublicKeys, Derived, DeriveScheme

LEMMA OnlyNoneIsEmpty ==
  ASSUME NEW alg \in Algs
  PROVE  /\ Component[alg].pk \in Nat
         /\ Component[alg].pk = 0 => alg = "none"
BY DEF Algs, Component, Lens

(* The component keys in a public key argument are keys or absent, and an   *)
(* artifact of PureCnsa2's tag and length holds no classical part.          *)
LEMMA PublicArgShape ==
  ASSUME TypeOK, NEW pk \in PublicArgs
  PROVE  /\ pk.c \in KeyType /\ pk.m \in KeyType
         /\ \A s \in SigSchemes :
              (/\ pk.tag = SigTag(s) /\ pk.len = PublicKeyLen(s)
               /\ pk.m.alg = PostQuantum(s) /\ Classical(s) = "none") => pk.c = NoKey
<1>1. NoKey \in KeyType /\ NoKey.alg = "none"
  BY DEF NoKey, Key, KeyType, Algs
<1>2. CASE \E p \in PublicKeys : pk \in {p} \cup Resized(p)
  <2>1. PICK p \in PublicKeys : pk \in {p} \cup Resized(p)
    BY <1>2
  <2>2. PICK s0 \in SigSchemes, n \in Nat : p = PublicKey(s0, n)
    BY PublicKeyShape
  <2>3. /\ pk.tag = SigTag(s0)
        /\ pk.c = Key(Classical(s0), n) /\ pk.m = Key(PostQuantum(s0), n)
    BY <2>1, <2>2 DEF Resized, PublicKey
  <2>4. QED
    BY <2>3, KeyTyped, SigTagInjective
<1>3. CASE \E t \in Retags, c \in {NoKey} \cup {a.c : a \in PublicKeys}, p \in PublicKeys :
             pk = JoinedKey(t, c, p.m)
  <2>1. PICK t \in Retags, c \in {NoKey} \cup {a.c : a \in PublicKeys}, p \in PublicKeys :
               pk = JoinedKey(t, c, p.m)
    BY <1>3
  <2>2. p.m \in KeyType
    BY PublicKeyShape, KeyTyped DEF PublicKey
  <2>3. c \in KeyType /\ (c.alg = "none" => c = NoKey)
    <3>1. CASE c = NoKey
      BY <1>1, <3>1
    <3>2. CASE \E a \in PublicKeys : c = a.c
      <4>1. PICK s0 \in SigSchemes, n \in Nat : c = Key(Classical(s0), n)
        BY <3>2, PublicKeyShape DEF PublicKey
      <4>2. QED
        BY <4>1, KeyTyped DEF Key
    <3>3. QED
      BY <3>1, <3>2
  <2>4. /\ pk.c = c /\ pk.m = p.m
        /\ pk.len = 1 + Component[c.alg].pk + Component[p.m.alg].pk
    BY <2>1 DEF JoinedKey
  <2>5. ASSUME NEW s \in SigSchemes, pk.len = PublicKeyLen(s),
               pk.m.alg = PostQuantum(s), Classical(s) = "none"
        PROVE  c = NoKey
    <3>1. c.alg \in Algs /\ p.m.alg \in Algs
      BY <2>2, <2>3 DEF KeyType
    <3>2. PublicKeyLen(s) = 1 + 0 + Component[p.m.alg].pk
      BY <2>4, <2>5 DEF PublicKeyLen, Component, Lens
    <3>3. Component[c.alg].pk = 0
      BY <2>4, <2>5, <3>1, <3>2, OnlyNoneIsEmpty
    <3>4. QED
      BY <2>3, <3>1, <3>3, OnlyNoneIsEmpty
  <2>6. QED
    BY <2>2, <2>3, <2>4, <2>5
<1>4. CASE \E t \in Blanks : pk = [tag |-> t, len |-> 0, c |-> NoKey, m |-> NoKey]
  BY <1>1, <1>4
<1>5. QED
  BY <1>2, <1>3, <1>4 DEF PublicArgs

(* A signature argument is put together from halves in storage.             *)
LEMMA SigArgShape ==
  ASSUME TypeOK, NEW sig \in SigArgs
  PROVE  /\ sig.c = NoSig \/ \E a \in sigs : sig.c = a.c
         /\ sig.m = NoSig \/ \E a \in sigs : sig.m = a.m
<1>1. ASSUME NEW a \in sigs, sig \in Resized(a) PROVE sig.c = a.c /\ sig.m = a.m
  BY <1>1 DEF Resized, TypeOK
<1>2. QED
  BY <1>1 DEF SigArgs, JoinedSig

(* verify says yes only at its end, with one scheme throughout.             *)
LEMMA VerifyTrue ==
  ASSUME NEW st, NEW sig, NEW pk, Verify(st, sig, pk) = "true"
  PROVE  \E s \in SigSchemes : /\ sig.tag = SigTag(s) /\ pk.tag = SigTag(s)
                               /\ BothVerify(s, sig, pk, Framed(st))
BY DEF Verify, VerifyNewSuite, Answer, SigSchemes

-----------------------------------------------------------------------------
(* The inductive invariant *)

SignInv == TypeOK /\ IsFiniteSet(pairs) /\ SigsWellSigned

(* What sign returns is typed, and is well signed once the signer's record  *)
(* holds the statement.                                                     *)
LEMMA SignedByWell ==
  ASSUME TypeOK, NEW sk \in SecretArgs, NEW st \in Statements, NEW sig \in SignedBy(sk, st)
  PROVE  \E s \in SignScheme(sk) :
           /\ s \in SigSchemes /\ sk.seed \in Nat
           /\ sig = Signature(s, sk.seed, Framed(st))
           /\ sig \in [tag : 0..255, len : Nat, c : HalfType, m : HalfType]
<1>1. PICK s \in SignScheme(sk) : sig = Signature(s, sk.seed, Framed(st))
  BY DEF SignedBy
<1>2. s \in SigSchemes /\ sk.seed \in Nat
  BY SecretArgSeed DEF SignScheme
<1>3. Framed(st) \in FrameType
  BY DEF FrameType
<1>4. QED
  BY <1>1, <1>2, <1>3, SchemeFacts, KeyTyped DEF Signature, HalfSig, HalfType

LEMMA SignCallKeepsInv ==
  ASSUME SignInv, NEW sk \in SecretArgs, NEW st \in Statements, SignCall(sk, st)
  PROVE  SignInv'
<1>1. PICK sig \in SignedBy(sk, st) : sigs' = sigs \cup {sig}
  BY DEF SignCall
<1>2. PICK s \in SignScheme(sk) :
        /\ s \in SigSchemes /\ sk.seed \in Nat
        /\ sig = Signature(s, sk.seed, Framed(st))
        /\ sig \in [tag : 0..255, len : Nat, c : HalfType, m : HalfType]
  BY SignedByWell DEF SignInv
<1>3. /\ signed' = signed \cup {<<k, st>> : k \in UNION {Keys(r, sk.seed) : r \in SignScheme(sk)}}
      /\ UNCHANGED <<pairs, accepted>>
  BY DEF SignCall
<1>4. \A r \in SignScheme(sk) : Keys(r, sk.seed) \subseteq KeyType
  BY <1>2, KeyTyped DEF SignScheme
<1>5. TypeOK'
  <2>1. signed' \subseteq KeyType \X Statements
    BY <1>3, <1>4 DEF SignInv, TypeOK
  <2>2. QED
    BY <1>1, <1>2, <1>3, <2>1 DEF SignInv, TypeOK
<1>6. WellSigned(sig)'
  <2>1. {sig.c.key, sig.m.key} \ {NoKey} = Keys(s, sk.seed)
    BY <1>2 DEF Signature, HalfSig, Keys
  <2>2. Keys(s, sk.seed) # {}
    BY <1>2, KeyTyped DEF Keys
  <2>3. \A k \in Keys(s, sk.seed) : <<k, st>> \in signed'
    BY <1>2, <1>3
  <2>4. sig.c.over = Framed(st) /\ sig.m.over = Framed(st)
    BY <1>2 DEF Signature, HalfSig
  <2>5. QED
    BY <2>1, <2>2, <2>3, <2>4 DEF WellSigned
<1>7. \A a \in sigs : WellSigned(a)'
  BY <1>3 DEF SignInv, SigsWellSigned, WellSigned
<1>8. SigsWellSigned'
  BY <1>1, <1>6, <1>7 DEF SigsWellSigned
<1>9. IsFiniteSet(pairs)'
  BY <1>3 DEF SignInv
<1>10. QED
  BY <1>5, <1>8, <1>9 DEF SignInv

LEMMA SignInvInductive == SignInv /\ [Next]_vars => SignInv'
<1> SUFFICES ASSUME SignInv, [Next]_vars PROVE SignInv'
  OBVIOUS
<1>1. ASSUME NEW r \in SigRequests, GenerateKeypair(r[1], r[2])
      PROVE  SignInv'
  <2>1. r[1] \in Suites /\ r[2] \in SigLevels
    BY SignAssumption
  <2>2. Cardinality(pairs) + 1 \in Nat
    BY FS_CardinalityType DEF SignInv
  <2>3. PICK p \in [suite : Suites, level : SigLevels, seed : Nat] :
          /\ pairs' = pairs \cup {p} /\ SigSupported(p.suite, p.level)
          /\ UNCHANGED <<sigs, signed, accepted>>
    BY <1>1, <2>1, <2>2 DEF GenerateKeypair, Generated
  <2>4. IsFiniteSet(pairs)'
    BY <2>3, FS_AddElement DEF SignInv
  <2>5. TypeOK'
    BY <2>3 DEF SignInv, TypeOK
  <2>6. SigsWellSigned'
    BY <2>3 DEF SignInv, SigsWellSigned, WellSigned
  <2>7. QED
    BY <2>4, <2>5, <2>6 DEF SignInv
<1>2. ASSUME NEW sk \in SecretArgs, NEW st \in Statements, SignCall(sk, st)
      PROVE  SignInv'
  BY <1>2, SignCallKeepsInv
<1>3. ASSUME NEW st \in Statements, NEW sig \in SigArgs, NEW pk \in PublicArgs,
             VerifyCall(st, sig, pk)
      PROVE  SignInv'
  <2>1. Named(pk) \subseteq KeyType
    BY PublicArgShape DEF Named, SignInv
  <2>2. TypeOK'
    BY <1>3, <2>1 DEF VerifyCall, SignInv, TypeOK
  <2>3. QED
    BY <1>3, <2>2 DEF VerifyCall, SignInv, SigsWellSigned, WellSigned
<1>4. CASE UNCHANGED vars
  BY <1>4 DEF vars, SignInv, TypeOK, SigsWellSigned, WellSigned
<1>5. QED
  BY <1>1, <1>2, <1>3, <1>4 DEF Next

LEMMA SignInvAlways == Spec => []SignInv
<1>1. Init => SignInv
  BY FS_EmptySet DEF Init, SignInv, TypeOK, SigsWellSigned
<1>2. QED
  BY <1>1, SignInvInductive, PTL DEF Spec

(* The variables of Sign are always typed.                                  *)
THEOREM SignTypeCorrect == Spec => []TypeOK
BY SignInvAlways, PTL DEF SignInv

(* Every half of every signature in storage was made over a statement its   *)
(* key signed, both halves over the same one.                               *)
THEOREM AllWellSigned == Spec => []SigsWellSigned
BY SignInvAlways, PTL DEF SignInv

-----------------------------------------------------------------------------
(* Verification *)

(* A half in storage over a statement's frame was made by a key that signed *)
(* that statement: frames tell statements apart.                            *)
LEMMA HalfSigned ==
  ASSUME SignInv, NEW a \in sigs, NEW h \in {a.c, a.m}, h.key # NoKey,
         NEW st \in Statements, h.over = Framed(st)
  PROVE  <<h.key, st>> \in signed
<1>1. PICK su \in Statements :
        /\ a.c.over = Framed(su) /\ a.m.over = Framed(su)
        /\ \A k \in {a.c.key, a.m.key} \ {NoKey} : <<k, su>> \in signed
  BY DEF SignInv, SigsWellSigned, WellSigned
<1>2. su = st
  BY <1>1, FramedInjective
<1>3. QED
  BY <1>1, <1>2

(* The strict AND, for one call.                                            *)
LEMMA AcceptedOnlyIfSigned ==
  ASSUME SignInv, NEW st \in Statements, NEW sig \in SigArgs, NEW pk \in PublicArgs,
         Verify(st, sig, pk) = "true"
  PROVE  /\ \A k \in Named(pk) : <<k, st>> \in signed
         /\ \E s \in SigSchemes :
               /\ SigTag(s) = pk.tag /\ SigTag(s) = sig.tag
               /\ pk.len = PublicKeyLen(s) /\ sig.len = SignatureLen(s)
               /\ {k.alg : k \in Named(pk)} = {Classical(s), PostQuantum(s)} \ {"none"}
<1>1. PICK s \in SigSchemes : /\ sig.tag = SigTag(s) /\ pk.tag = SigTag(s)
                             /\ BothVerify(s, sig, pk, Framed(st))
  BY VerifyTrue
<1>2. /\ sig.len = SignatureLen(s) /\ pk.len = PublicKeyLen(s)
      /\ pk.m.alg = PostQuantum(s) /\ sig.m.key = pk.m /\ sig.m.over = Framed(st)
      /\ Classical(s) # "none" =>
           pk.c.alg = Classical(s) /\ sig.c.key = pk.c /\ sig.c.over = Framed(st)
  BY <1>1 DEF BothVerify, HalfVerifies
<1>3. NoKey.alg = "none" /\ NoSig.key = NoKey
  BY DEF NoKey, Key, NoSig, HalfSig
<1>4. pk.m # NoKey /\ PostQuantum(s) # "none" /\ PostQuantum(s) # Classical(s)
  BY <1>2, <1>3, SchemeFacts
<1>5. <<pk.m, st>> \in signed
  <2>1. sig.m # NoSig
    BY <1>2, <1>3, <1>4
  <2>2. PICK a \in sigs : sig.m = a.m
    BY <2>1, SigArgShape DEF SignInv
  <2>3. QED
    BY <1>2, <1>4, <2>2, HalfSigned
<1>6. CASE Classical(s) = "none"
  <2>1. pk.c = NoKey
    BY <1>1, <1>2, <1>6, PublicArgShape DEF SignInv
  <2>2. Named(pk) = {pk.m}
    BY <1>4, <2>1 DEF Named
  <2>3. QED
    BY <1>1, <1>2, <1>4, <1>5, <1>6, <2>2
<1>7. CASE Classical(s) # "none"
  <2>1. pk.c # NoKey /\ sig.c # NoSig
    BY <1>2, <1>3, <1>7
  <2>2. PICK a \in sigs : sig.c = a.c
    BY <2>1, SigArgShape DEF SignInv
  <2>3. <<pk.c, st>> \in signed
    BY <1>2, <1>7, <2>1, <2>2, HalfSigned
  <2>4. Named(pk) = {pk.c, pk.m}
    BY <1>4, <2>1 DEF Named
  <2>5. QED
    BY <1>1, <1>2, <1>4, <1>5, <1>7, <2>3, <2>4
<1>8. QED
  BY <1>6, <1>7

(* Strict AND: whatever verify accepts was signed by every component key of *)
(* the public key, and those are the components its tag stands for.         *)
THEOREM BothHalvesRequired == Spec => []StrictAnd
<1>1. SignInv => StrictAnd
  BY AcceptedOnlyIfSigned DEF StrictAnd
<1>2. QED
  BY <1>1, SignInvAlways, PTL

(* The declared posture of what verifies is one and the same, and that of a *)
(* generated key is its request's.                                          *)
THEOREM PostureReliable == Spec => []PostureAgrees
<1>1. ASSUME SignInv, NEW st \in Statements, NEW sig \in SigArgs, NEW pk \in PublicArgs,
             Verify(st, sig, pk) = "true"
      PROVE  SignaturePosture(sig) = PublicKeyPosture(pk) /\ PublicKeyPosture(pk) # {}
  <2>1. PICK s \in SigSchemes :
          /\ sig.tag = SigTag(s) /\ pk.tag = SigTag(s)
          /\ pk.len = PublicKeyLen(s) /\ sig.len = SignatureLen(s)
    BY <1>1, AcceptedOnlyIfSigned
  <2>2. {t \in SigSchemes : SigTag(t) = pk.tag /\ pk.len = ExpectedPublicKeyLen[t]} = {s}
    BY <2>1, SigTagInjective, LengthTablesAgree
  <2>3. {t \in SigSchemes : SigTag(t) = sig.tag /\ sig.len = ExpectedSignatureLen[t]} = {s}
    BY <2>1, SigTagInjective, LengthTablesAgree
  <2>4. QED
    BY <2>2, <2>3 DEF SignaturePosture, PublicKeyPosture
<1>2. ASSUME SignInv, NEW p \in pairs
      PROVE  PublicKeyPosture(PublicKey(SchemeOf(p), p.seed)) =
               {<<IF p.level = "Cat2" THEN "Hybrid" ELSE p.suite, p.level>>}
  <2> DEFINE s == SchemeOf(p)
  <2>1. /\ s \in SigSchemes
        /\ TagPosture[s] = <<IF p.level = "Cat2" THEN "Hybrid" ELSE p.suite, p.level>>
    BY <1>2, KeypairSchemeFits DEF SignInv, TypeOK, SchemeOf
  <2> HIDE DEF s
  <2>2. PublicKey(s, p.seed).tag = SigTag(s) /\ PublicKey(s, p.seed).len = PublicKeyLen(s)
    BY DEF PublicKey
  <2>3. {t \in SigSchemes : /\ SigTag(t) = PublicKey(s, p.seed).tag
                            /\ PublicKey(s, p.seed).len = ExpectedPublicKeyLen[t]} = {s}
    BY <2>1, <2>2, SigTagInjective, LengthTablesAgree
  <2>4. PublicKeyPosture(PublicKey(s, p.seed)) = {TagPosture[s]}
    BY <2>3 DEF PublicKeyPosture
  <2>5. QED
    BY <2>1, <2>4 DEF s
<1>3. SignInv => PostureAgrees
  BY <1>1, <1>2 DEF PostureAgrees
<1>4. QED
  BY <1>3, SignInvAlways, PTL

-----------------------------------------------------------------------------
(* Signing and derivation *)

(* The parsers of sign and of derive_public_key ask the lengths keygen writes. *)
LEMMA KeyLensAgree ==
  ASSUME NEW s \in SigSchemes
  PROVE  SigningKeyLen[s] = SecretKeyLen(s) /\ DerivingKeyLen[s] = SecretKeyLen(s)
BY DEF SigSchemes, LevelSchemes, SuiteSchemes, SigFormat, Layout, Classical,
       PostQuantum, SecretKeyLen, Component, Lens, SigningKeyLen, DerivingKeyLen

LEMMA ReadAlike == \A sk : SignScheme(sk) = DeriveScheme(sk)
BY KeyLensAgree DEF SignScheme, DeriveScheme

LEMMA DeriveSchemeOfKey ==
  ASSUME NEW s \in SigSchemes, NEW n
  PROVE  DeriveScheme(SecretKey(s, n)) = {s}
BY SigTagInjective, KeyLensAgree DEF DeriveScheme, SecretKey

LEMMA VerifiesOwn ==
  ASSUME NEW s \in SigSchemes, NEW n, NEW st
  PROVE  Verify(st, Signature(s, n, Framed(st)), PublicKey(s, n)) = "true"
<1> DEFINE sig == Signature(s, n, Framed(st))
           pk == PublicKey(s, n)
<1>1. sig.tag = SigTag(s) /\ pk.tag = SigTag(s)
  BY DEF Signature, PublicKey
<1>2. BothVerify(s, sig, pk, Framed(st))
  BY DEF Signature, PublicKey, BothVerify, HalfVerifies, HalfSig, Key
<1>3. SigTag(s) # NotBase64 /\ SigTag(s) # NoTag
  BY SchemeFacts DEF NotBase64, NoTag
<1> HIDE DEF sig, pk
<1>4. CASE s \in SuiteSchemes
  BY <1>1, <1>2, <1>3, <1>4 DEF Verify, VerifyNewSuite, Answer, IsSuiteTag, sig, pk
<1>5. CASE s \in LevelSchemes
  <2>1. ~IsSuiteTag(SigTag(s)) /\ IsLevelTag(SigTag(s))
    BY <1>5 DEF IsSuiteTag, IsLevelTag, SuiteSchemes, LevelSchemes, SigTag, SigFormat, Layout
  <2>2. QED
    BY <1>1, <1>2, <1>3, <1>5, <2>1 DEF Verify, Answer, sig, pk
<1>6. QED
  BY <1>4, <1>5 DEF SigSchemes

(* sign and derive_public_key accept the same secret keys and fit together, *)
(* whatever tag and length a secret key comes back with.                    *)
THEOREM SignFitsDerive == Spec => []SignMatchesDerive
<1>1. ASSUME NEW sk \in SecretArgs, NEW st \in Statements
      PROVE  /\ SignedBy(sk, st) = {} <=> Derived(sk) = {}
             /\ \A sig \in SignedBy(sk, st), pk \in Derived(sk) :
                  Verify(st, sig, pk) = "true"
  <2>1. SignedBy(sk, st) = {} <=> Derived(sk) = {}
    BY ReadAlike DEF SignedBy, Derived
  <2>2. ASSUME NEW s \in SignScheme(sk), NEW t \in DeriveScheme(sk)
        PROVE  s = t /\ s \in SigSchemes
    BY SigTagInjective DEF SignScheme, DeriveScheme
  <2>3. QED
    BY <2>1, <2>2, VerifiesOwn DEF SignedBy, Derived
<1>2. ASSUME SignInv, NEW p \in pairs
      PROVE  Derived(SecretKey(SchemeOf(p), p.seed)) = {PublicKey(SchemeOf(p), p.seed)}
  <2>1. SchemeOf(p) \in SigSchemes
    BY <1>2, KeypairSchemeFits DEF SignInv, TypeOK, SchemeOf
  <2>2. SecretKey(SchemeOf(p), p.seed).seed = p.seed
    BY DEF SecretKey
  <2>3. QED
    BY <2>1, <2>2, DeriveSchemeOfKey DEF Derived
<1>3. SignInv => SignMatchesDerive
  BY <1>1, <1>2 DEF SignMatchesDerive
<1>4. QED
  BY <1>3, SignInvAlways, PTL

-----------------------------------------------------------------------------
(* Refinement *)

LEMMA SignStepImplements == SignInv /\ [Next]_vars => [AT!Next]_<<signed, accepted>>
<1> SUFFICES ASSUME SignInv, [Next]_vars PROVE AT!Next \/ UNCHANGED <<signed, accepted>>
  OBVIOUS
<1>1. ASSUME NEW r \in SigRequests, GenerateKeypair(r[1], r[2])
      PROVE  UNCHANGED <<signed, accepted>>
  BY <1>1 DEF GenerateKeypair
<1>2. ASSUME NEW sk \in SecretArgs, NEW st \in Statements, SignCall(sk, st)
      PROVE  AT!Attest
  BY <1>2 DEF SignCall, AT!Attest
<1>3. ASSUME NEW st \in Statements, NEW sig \in SigArgs, NEW pk \in PublicArgs,
             VerifyCall(st, sig, pk)
      PROVE  AT!Accept
  <2>1. /\ \A k \in Named(pk) : <<k, st>> \in signed
        /\ \E s \in SigSchemes :
             {k.alg : k \in Named(pk)} = {Classical(s), PostQuantum(s)} \ {"none"}
    BY <1>3, AcceptedOnlyIfSigned DEF VerifyCall
  <2>2. Named(pk) # {}
    BY <2>1, SchemeFacts
  <2>3. accepted' = accepted \cup {<<Named(pk), st>>} /\ UNCHANGED signed
    BY <1>3 DEF VerifyCall
  <2>4. \A a \in accepted' \ accepted : a = <<Named(pk), st>>
    BY <2>3
  <2>5. QED
    BY <2>1, <2>2, <2>3, <2>4 DEF AT!Accept
<1>4. CASE UNCHANGED vars
  BY <1>4 DEF vars
<1>5. QED
  BY <1>1, <1>2, <1>3, <1>4 DEF Next, AT!Next

(* Sign implements attestation: signing attests, and verify accepts nothing *)
(* that was not attested by every key named.                                *)
THEOREM SignImplements == Spec => ImplementsAttestation
<1>1. Init => AT!Init
  BY DEF Init, AT!Init
<1>2. QED
  BY <1>1, SignStepImplements, SignInvAlways, PTL DEF Spec, ImplementsAttestation, AT!Spec
=============================================================================
