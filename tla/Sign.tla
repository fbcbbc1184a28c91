-------------------------------- MODULE Sign --------------------------------
(***************************************************************************)
(* Composite signatures: sign.rs.  As in Seal, the library keeps no state; *)
(* what persists between calls is what callers keep: the keypairs they     *)
(* generated and the signatures they stored.  Every call takes whatever    *)
(* callers may hand it: a secret key under another level's tag, an         *)
(* artifact put together from parts of stored ones, one that lost or       *)
(* gained a byte, an empty string, a string that is no base64.             *)
(*                                                                         *)
(* A decoded artifact is a record of the bytes the code looks at (tag and  *)
(* length) and of its two component parts.  The seeds of one keypair are   *)
(* numbered; [alg, seed] is a component key, its public and secret halves  *)
(* alike.  Signature algorithms are ideal: a half verifies under the key   *)
(* that made it, over the bytes it was made over, and nothing else does,   *)
(* so a half whose bytes were changed is one made over other bytes.        *)
(***************************************************************************)
EXTENDS SigFormats, Framing, FiniteSets

CONSTANTS
  Contexts,      \* context labels, as sequences of bytes
  Messages,      \* messages, as sequences of bytes
  SigRequests,   \* the (suite, level) pairs callers ask for
  Retags,        \* the tags an artifact may come back with
  MaxPairs,      \* bound: keypairs generated
  MaxSigs,       \* bound: signatures stored
  MaxAccepted    \* bound: accepted statements remembered

ASSUME SignAssumption ==
  /\ \A c \in Contexts : c \in Seq(Nat)
  /\ \A m \in Messages : m \in Seq(Nat)
  /\ SigRequests \subseteq Suites \X SigLevels
  /\ Retags \subseteq 0..255
  /\ MaxPairs \in Nat /\ MaxSigs \in Nat /\ MaxAccepted \in Nat

VARIABLES
  pairs,      \* the keypairs generated: [suite, level, seed]
  sigs,       \* the signatures in storage
  signed,     \* what each component key signed: <<key, statement>>
  accepted    \* what verify said yes to: <<component keys, statement>>

vars == <<pairs, sigs, signed, accepted>>

Statements == Contexts \X Messages
Framed(st) == Frame(st[1], st[2])

-----------------------------------------------------------------------------
(* Artifacts *)

(* The "tag" of a string that decodes to no bytes, or does not decode.       *)
NoTag     == -1
NotBase64 == -2

Key(alg, n) == [alg |-> alg, seed |-> IF alg = "none" THEN 0 ELSE n]
NoKey       == Key("none", 0)
Keys(s, n)  == {Key(Classical(s), n), Key(PostQuantum(s), n)} \ {NoKey}

SecretKey(s, n) == [tag |-> SigTag(s), len |-> SecretKeyLen(s), seed |-> n]

PublicKey(s, n) ==
  [tag |-> SigTag(s), len |-> PublicKeyLen(s),
   c |-> Key(Classical(s), n), m |-> Key(PostQuantum(s), n)]

HalfSig(k, f) == [key |-> k, over |-> f]

Signature(s, n, f) ==
  [tag |-> SigTag(s), len |-> SignatureLen(s),
   c |-> HalfSig(Key(Classical(s), n), f), m |-> HalfSig(Key(PostQuantum(s), n), f)]

-----------------------------------------------------------------------------
(* The calls, as functions of their arguments *)

(* Faulty variant: PureCnsa2 below Cat-5 is not refused.                     *)
GeneratedAnyway(suite, level) == {KeypairScheme(suite, level)}

(* generate_signing_keypair_suite *)
Generated(suite, level) ==
  IF SigSupported(suite, level) THEN {KeypairScheme(suite, level)} ELSE {}

(* The scheme sign reads off a secret key, and the one derive_public_key     *)
(* does: none unless the tag is known and the length is that scheme's.       *)
SignScheme(sk)   == {s \in SigSchemes : SigTag(s) = sk.tag /\ sk.len = SigningKeyLen[s]}
DeriveScheme(sk) == {s \in SigSchemes : SigTag(s) = sk.tag /\ sk.len = DerivingKeyLen[s]}

(* Faulty variant: the Ed25519 half covers the bare message, the context     *)
(* left out.                                                                 *)
SignedByHalfFramed(sk, st) ==
  {[Signature(s, sk.seed, Framed(st)) EXCEPT !.c.over = Frame(<<>>, st[2])] :
     s \in SignScheme(sk)}

(* derive_public_key and sign: the set of results, empty on error.           *)
Derived(sk)     == {PublicKey(s, sk.seed) : s \in DeriveScheme(sk)}
SignedBy(sk, st) == {Signature(s, sk.seed, Framed(st)) : s \in SignScheme(sk)}

(* Their error, by what the call read: for the 0x01-0x03 layouts the buffer  *)
(* has been wiped, and with it emptied, by the time its length is put into   *)
(* the error.                                                                *)
SecretKeyError(read, sk) ==
  IF sk.tag = NotBase64 THEN [err |-> "Base64", got |-> 0]
  ELSE IF \A s \in SigSchemes : SigTag(s) # sk.tag THEN [err |-> "UnknownTag", got |-> 0]
  ELSE IF read = {}
    THEN [err |-> "InvalidLength",
          got |-> IF \E s \in LevelSchemes : SigTag(s) = sk.tag THEN 0 ELSE sk.len]
  ELSE [err |-> "none", got |-> 0]

(* ed448_verify, p521_ecdsa_verify, mldsa_verify and Ed25519's verify.       *)
HalfVerifies(alg, half, key, f) == key.alg = alg /\ half.key = key /\ half.over = f

(* Faulty variant: one good half is enough.                                  *)
EitherVerifies(s, sig, pk, f) ==
  /\ sig.len = SignatureLen(s)
  /\ pk.len = PublicKeyLen(s)
  /\ \/ Classical(s) # "none" /\ HalfVerifies(Classical(s), sig.c, pk.c, f)
     \/ HalfVerifies(PostQuantum(s), sig.m, pk.m, f)

(* The end of verify and of each arm of verify_new_suite: lengths, then both *)
(* halves.                                                                   *)
BothVerify(s, sig, pk, f) ==
  /\ sig.len = SignatureLen(s)
  /\ pk.len = PublicKeyLen(s)
  /\ Classical(s) # "none" => HalfVerifies(Classical(s), sig.c, pk.c, f)
  /\ HalfVerifies(PostQuantum(s), sig.m, pk.m, f)

IsSuiteTag(tag) == \E s \in SuiteSchemes : tag = SigTag(s)
IsLevelTag(tag) == \E s \in LevelSchemes : tag = SigTag(s)

Answer(schemes, sig, pk, st) ==
  IF \E s \in schemes : sig.tag = SigTag(s) /\ BothVerify(s, sig, pk, Framed(st))
  THEN "true" ELSE "false"

(* verify_new_suite reads pk[0] before anything else.                        *)
VerifyNewSuite(st, sig, pk) ==
  IF pk.tag = NoTag THEN "panic"
  ELSE IF sig.tag # pk.tag THEN "false"
  ELSE Answer(SuiteSchemes, sig, pk, st)

Verify(st, sig, pk) ==
  IF sig.tag = NotBase64 \/ pk.tag = NotBase64 THEN "Base64"
  ELSE IF IsSuiteTag(sig.tag) THEN VerifyNewSuite(st, sig, pk)
  ELSE IF IsSuiteTag(pk.tag) THEN "false"
  ELSE IF ~IsLevelTag(sig.tag) \/ ~IsLevelTag(pk.tag) THEN "UnknownTag"
  ELSE IF sig.tag # pk.tag THEN "false"
  ELSE Answer(LevelSchemes, sig, pk, st)

(* signature_posture and signature_posture_from_signature: the declared      *)
(* posture, nothing on error.                                                *)
PublicKeyPosture(pk) ==
  {TagPosture[s] : s \in {t \in SigSchemes : SigTag(t) = pk.tag
                                           /\ pk.len = ExpectedPublicKeyLen[t]}}
SignaturePosture(sig) ==
  {TagPosture[s] : s \in {t \in SigSchemes : SigTag(t) = sig.tag
                                           /\ sig.len = ExpectedSignatureLen[t]}}

-----------------------------------------------------------------------------
(* Arguments *)

SchemeOf(p) == KeypairScheme(p.suite, p.level)
SecretKeys  == {SecretKey(SchemeOf(p), p.seed) : p \in pairs}

Retagged(b) == {[b EXCEPT !.tag = t] : t \in Retags}
Resized(b)  == {[b EXCEPT !.len = n] : n \in {b.len - 1, b.len + 1}}
Blanks      == {NoTag, NotBase64}

(* Secret keys as stored, under another tag, a byte short or long, or blank. *)
SecretArgs ==
  (UNION {{sk} \cup Retagged(sk) \cup Resized(sk) : sk \in SecretKeys})
  \cup {[tag |-> t, len |-> 0, seed |-> 0] : t \in Blanks}

PublicKeys == UNION {Derived(sk) : sk \in SecretArgs}

(* Public keys as derived, a byte short or long, put together from the parts *)
(* of two or with the classical part dropped, under any tag, or blank.       *)
JoinedKey(t, c, m) ==
  [tag |-> t, len |-> 1 + Component[c.alg].pk + Component[m.alg].pk, c |-> c, m |-> m]

PublicArgs ==
  (UNION {{pk} \cup Resized(pk) : pk \in PublicKeys})
  \cup {JoinedKey(t, c, pk.m) :
           t \in Retags, c \in {NoKey} \cup {a.c : a \in PublicKeys}, pk \in PublicKeys}
  \cup {[tag |-> t, len |-> 0, c |-> NoKey, m |-> NoKey] : t \in Blanks}

(* The same for stored signatures.                                           *)
NoSig == HalfSig(NoKey, <<>>)

JoinedSig(t, c, m) ==
  [tag |-> t, len |-> 1 + Component[c.key.alg].sig + Component[m.key.alg].sig,
   c |-> c, m |-> m]

SigArgs ==
  (UNION {{sig} \cup Resized(sig) : sig \in sigs})
  \cup {JoinedSig(t, c, sig.m) :
           t \in Retags, c \in {NoSig} \cup {a.c : a \in sigs}, sig \in sigs}
  \cup {[tag |-> t, len |-> 0, c |-> NoSig, m |-> NoSig] : t \in Blanks}

-----------------------------------------------------------------------------
(* Calls *)

Init == pairs = {} /\ sigs = {} /\ signed = {} /\ accepted = {}

GenerateKeypair(suite, level) ==
  /\ Cardinality(pairs) < MaxPairs
  /\ \E s \in Generated(suite, level) :
        pairs' = pairs \cup {[suite |-> suite, level |-> level,
                             seed |-> Cardinality(pairs) + 1]}
  /\ UNCHANGED <<sigs, signed, accepted>>

SignCall(sk, st) ==
  /\ Cardinality(sigs) < MaxSigs
  /\ \E sig \in SignedBy(sk, st) : sigs' = sigs \cup {sig}
  /\ signed' = signed \cup
       {<<k, st>> : k \in UNION {Keys(s, sk.seed) : s \in SignScheme(sk)}}
  /\ UNCHANGED <<pairs, accepted>>

(* The component keys a public key names.                                    *)
Named(pk) == {pk.c, pk.m} \ {NoKey}

VerifyCall(st, sig, pk) ==
  /\ Cardinality(accepted) < MaxAccepted
  /\ Verify(st, sig, pk) = "true"
  /\ accepted' = accepted \cup {<<Named(pk), st>>}
  /\ UNCHANGED <<pairs, sigs, signed>>

Next ==
  \/ \E r \in SigRequests : GenerateKeypair(r[1], r[2])
  \/ \E sk \in SecretArgs, st \in Statements : SignCall(sk, st)
  \/ \E st \in Statements, sig \in SigArgs, pk \in PublicArgs : VerifyCall(st, sig, pk)

Spec == Init /\ [][Next]_vars

-----------------------------------------------------------------------------
(* Properties *)

Algs      == {"none", "Ed25519", "Ed448", "P521", "MlDsa44", "MlDsa65", "MlDsa87"}
KeyType   == [alg : Algs, seed : Nat]
FrameType == {Framed(st) : st \in Statements}
HalfType  == [key : KeyType, over : FrameType]

(* Types of the variables; no keypair came of an unsupported request.        *)
TypeOK ==
  /\ pairs \subseteq [suite : Suites, level : SigLevels, seed : Nat]
  /\ \A p \in pairs : SigSupported(p.suite, p.level)
  /\ sigs \subseteq [tag : 0..255, len : Nat, c : HalfType, m : HalfType]
  /\ signed \subseteq KeyType \X Statements
  /\ accepted \subseteq (SUBSET KeyType) \X Statements

(* Every half in storage was made over a statement its key did sign, both    *)
(* halves of one signature over the same statement.                          *)
WellSigned(sig) ==
  \E st \in Statements :
    /\ sig.c.over = Framed(st) /\ sig.m.over = Framed(st)
    /\ {sig.c.key, sig.m.key} \ {NoKey} # {}
    /\ \A k \in {sig.c.key, sig.m.key} \ {NoKey} : <<k, st>> \in signed

SigsWellSigned == \A sig \in sigs : WellSigned(sig)

(* Strict AND.  verify says yes only if every component key in the public    *)
(* key signed that very message under that very context, and the key holds   *)
(* the two algorithms its tag names: no artifact with a half stripped, taken *)
(* from another signature, or read under another suite's or level's tag      *)
(* gets through, whatever bytes separate context and message.                *)
StrictAnd ==
  \A st \in Statements, sig \in SigArgs, pk \in PublicArgs :
    Verify(st, sig, pk) = "true" =>
      /\ \A k \in Named(pk) : <<k, st>> \in signed
      /\ \E s \in SigSchemes :
            /\ SigTag(s) = pk.tag
            /\ {k.alg : k \in Named(pk)} = {Classical(s), PostQuantum(s)} \ {"none"}

(* sign and derive_public_key, each with parsers of its own, read a secret   *)
(* key alike: they accept the same ones, whatever tag and length those come  *)
(* back with, and what one signs verifies under what the other derives; for  *)
(* a stored secret key that is the public key its generation returned.       *)
SignMatchesDerive ==
  /\ \A sk \in SecretArgs, st \in Statements :
        /\ SignedBy(sk, st) = {} <=> Derived(sk) = {}
        /\ \A sig \in SignedBy(sk, st), pk \in Derived(sk) : Verify(st, sig, pk) = "true"
  /\ \A p \in pairs :
        Derived(SecretKey(SchemeOf(p), p.seed)) = {PublicKey(SchemeOf(p), p.seed)}

(* A declared posture can be relied on: a signature and a key that verify    *)
(* declare one and the same posture (verify's length checks and the posture  *)
(* calls' own tables agree), and a key generated for a request declares that *)
(* request, Cat-2 of either hybrid suite being Hybrid's.                     *)
PostureAgrees ==
  /\ \A st \in Statements, sig \in SigArgs, pk \in PublicArgs :
        Verify(st, sig, pk) = "true" =>
          SignaturePosture(sig) = PublicKeyPosture(pk) /\ PublicKeyPosture(pk) # {}
  /\ \A p \in pairs :
        PublicKeyPosture(PublicKey(SchemeOf(p), p.seed)) =
          {<<IF p.level = "Cat2" THEN "Hybrid" ELSE p.suite, p.level>>}

(* verify's documentation: Ok(false) for tags or lengths that do not match,  *)
(* Err only for bad base64 or an unknown tag; it always answers.             *)
AlwaysAnswers ==
  \A st \in Statements, sig \in SigArgs, pk \in PublicArgs :
    Verify(st, sig, pk) # "panic"

(* CryptoError::InvalidLength: "got" is the actual byte count.               *)
ReportsActualLength ==
  \A sk \in SecretArgs :
    \A read \in {SignScheme(sk), DeriveScheme(sk)} :
      SecretKeyError(read, sk).err = "InvalidLength" => SecretKeyError(read, sk).got = sk.len

(* Composite signatures implement attestation.                               *)
AT == INSTANCE Attestation WITH attested <- signed
ImplementsAttestation == AT!Spec
=============================================================================
