------------------------------- MODULE Poprf --------------------------------
(* poprf.rs: the partially oblivious PRF of RFC 9497 over ristretto255.      *)
(* Hashing is ideal: a hash is what it was made of, and where it is used as  *)
(* a scalar or a point that is a constant operator of it.  Bytes of a wrong  *)
(* length are Misfit, bytes that encode no scalar or point NoScalar, NoPoint.*)
(* A call answers with an error, with None (an empty val) or with a value.   *)
EXTENDS Groups, Integers, Sequences

CONSTANTS
  Strings,             \* byte strings used as input and info
  Seeds,               \* master secrets of key derivation
  HashToGroup(_),      \* input |-> point
  InfoScalar(_),       \* info |-> the tweak m
  Weight(_, _, _),     \* a composite's transcript |-> scalar
  ChallengeScalar(_),  \* a challenge's transcript |-> scalar
  SeedScalar(_, _, _), \* seed, info, counter |-> scalar
  CounterMax,          \* the last counter tried: u8::MAX
  LenModulus,          \* 2^16: lengths a two-byte prefix tells apart
  NoScalar, NoPoint, Misfit

(* The hash of a challenge is its transcript of five points; <<>> stands for *)
(* bytes that are zero and no transcript's hash.                             *)
Transcripts == Point \X Point \X Point \X Point \X Point
Challenges  == Transcripts \cup {<<>>}
Proofs      == [c : Challenges, s : Scalar \cup {NoScalar}]

(* A weight of zero, a 2^-252 event, would let any two points pass.          *)
ASSUME HashAssumption ==
  /\ CounterMax \in Nat /\ LenModulus \in Nat \ {0}
  /\ \A x \in Strings : x \in Seq(Nat) /\ HashToGroup(x) \in PrimePoint /\ InfoScalar(x) \in Scalar
  /\ \A b, c, d \in PrimePoint : Weight(b, c, d) \in Scalar \ {Zero}
  /\ ChallengeScalar(<<>>) = Zero
  /\ \A t \in Challenges : ChallengeScalar(t) \in Scalar
  /\ \A s \in Seeds, i \in Strings, n \in 0..CounterMax : SeedScalar(s, i, n) \in Scalar
  /\ Misfit \notin Scalar \cup Point \cup Proofs /\ NoScalar \notin Scalar /\ NoPoint \notin Point

(* What a call returns.                                                      *)
Ok(x)    == [res |-> "Ok", val |-> <<x>>]
Rejected == [res |-> "Ok", val |-> <<>>]
Err(e)   == [res |-> e, val |-> <<>>]
Answered(r) == r.val # <<>>

(*************************** Encodings and hashes ***************************)

(* deserialize_element rejects the identity, deserialize_scalar takes zero.  *)
IsElement(bytes) == bytes \in PrimePoint \ {Id}
IsScalar(bytes)  == bytes \in Scalar

(* push_len16 *)
Framed(x) == <<Len(x) % LenModulus>> \o x

(* Faulty variant: input and info share a frame.                             *)
FinalHashUnframed(input, info, element) == Framed(input \o info) \o Framed(<<element>>)

(* The last hash of poprf_finalize and poprf_evaluate.  A point's 32 bytes   *)
(* are one element; the constant suffix is left out.                         *)
FinalHash(input, info, element) == Framed(input) \o Framed(info) \o Framed(<<element>>)

(******************************** DLEQ proofs *******************************)
(* Every caller proves one pair, so the lists C and D have one point each.   *)

(* compute_composites_fast *)
CompositesFast(k, b, c, d) ==
  LET m == Act(Weight(b, c, d), c) IN <<m, Act(k, m)>>

(* compute_composites *)
Composites(b, c, d) == <<Act(Weight(b, c, d), c), Act(Weight(b, c, d), d)>>

(* dleq_challenge *)
DleqChallenge(b, m, z, t2, t3) == <<b, m, z, t2, t3>>

(* Faulty variant: the response of another signature scheme, r + c * k.      *)
GenerateProofPlus(k, a, b, c, d, r) ==
  LET mz == CompositesFast(k, b, c, d)
      ch == DleqChallenge(b, mz[1], mz[2], Act(r, a), Act(r, mz[1]))
  IN  [c |-> ch, s |-> Plus(r, Times(ChallengeScalar(ch), k))]

(* generate_proof_with_random: k * a = b and k * c = d.                      *)
GenerateProof(k, a, b, c, d, r) ==
  LET mz == CompositesFast(k, b, c, d)
      ch == DleqChallenge(b, mz[1], mz[2], Act(r, a), Act(r, mz[1]))
  IN  [c |-> ch, s |-> Minus(r, Times(ChallengeScalar(ch), k))]

(* Faulty variant: the challenge does not cover the composites.              *)
VerifyProofKeyOnly(a, b, c, d, proof) ==
  /\ proof.c \in Challenges \ {<<>>} /\ IsScalar(proof.s)
  /\ b = proof.c[1]
  /\ proof.c[4] = Add(Act(proof.s, a), Act(ChallengeScalar(proof.c), b))

(* verify_proof *)
VerifyProof(a, b, c, d, proof) ==
  /\ proof.c \in Challenges /\ IsScalar(proof.s)
  /\ LET e  == ChallengeScalar(proof.c)
         mz == Composites(b, c, d)
         t2 == Add(Act(proof.s, a), Act(e, b))
         t3 == Add(Act(proof.s, mz[1]), Act(e, mz[2]))
     IN  DleqChallenge(b, mz[1], mz[2], t2, t3) = proof.c

(******************************** The calls *********************************)

(* The public half of a scalar.                                              *)
PublicKey(sk) == Act(sk, Base)

(* poprf_public_key: zero passes, its public half is the identity.           *)
PoprfPublicKey(sk) ==
  IF sk = Misfit THEN Err("InvalidLength")
  ELSE IF ~IsScalar(sk) THEN Err("Poprf")
  ELSE Ok(PublicKey(sk))

(* Faulty variant: the first counter's scalar, whatever it is.               *)
DeriveKeyPairFirst(seed, info) == Ok(SeedScalar(seed, info, 0))

(* poprf_derive_key_pair: the first counter whose scalar is not zero.        *)
DeriveKeyPair(seed, info) ==
  LET usable == {n \in 0..CounterMax : SeedScalar(seed, info, n) # Zero}
  IN  IF seed = Misfit THEN Err("InvalidLength")
      ELSE IF usable = {} THEN Err("Poprf")
      ELSE Ok(SeedScalar(seed, info, CHOOSE n \in usable : \A k \in usable : n <= k))

(* The tweaked public key of poprf_blind_with_scalar.                        *)
TweakedKey(info, pk) == Add(Act(InfoScalar(info), Base), pk)

(* t of poprf_blind_evaluate and poprf_evaluate.                             *)
TweakedSecret(sk, info) == Plus(sk, InfoScalar(info))

BlindState(input, info, pk, blind) ==
  [blind |-> blind, blinded |-> Act(blind, HashToGroup(input)), tweaked |-> TweakedKey(info, pk)]

(* Faulty variant: a tweaked key that is the identity goes unnoticed.        *)
BlindWithScalarAnyKey(input, info, pk, blind) ==
  IF Misfit \in {pk, blind} THEN Err("InvalidLength")
  ELSE IF ~IsElement(pk) \/ ~IsScalar(blind) \/ HashToGroup(input) = Id THEN Err("Poprf")
  ELSE Ok(BlindState(input, info, pk, blind))

(* Faulty variant: an input that hashes to the identity goes unnoticed.      *)
BlindWithScalarAnyInput(input, info, pk, blind) ==
  IF Misfit \in {pk, blind} THEN Err("InvalidLength")
  ELSE IF ~IsElement(pk) \/ ~IsScalar(blind) \/ TweakedKey(info, pk) = Id THEN Err("Poprf")
  ELSE Ok(BlindState(input, info, pk, blind))

(* poprf_blind_with_scalar *)
BlindWithScalar(input, info, pk, blind) ==
  IF Misfit \in {pk, blind} THEN Err("InvalidLength")
  ELSE IF ~IsElement(pk) \/ ~IsScalar(blind) THEN Err("Poprf")
  ELSE IF TweakedKey(info, pk) = Id \/ HashToGroup(input) = Id THEN Err("Poprf")
  ELSE Ok(BlindState(input, info, pk, blind))

(* random_scalar: the blinds of poprf_blind, the nonces of                   *)
(* poprf_blind_evaluate and the keys of poprf_generate_keypair.              *)
RandomScalars == Scalar \ {Zero}

(* poprf_blind_evaluate_with_random *)
BlindEvaluate(sk, blinded, info, r) ==
  LET t == TweakedSecret(sk, info)
      evaluated == Act(Invert(t), blinded)
  IN  IF Misfit \in {sk, blinded, r} THEN Err("InvalidLength")
      ELSE IF ~IsScalar(sk) \/ ~IsElement(blinded) \/ ~IsScalar(r) THEN Err("Poprf")
      ELSE IF t = Zero THEN Err("Poprf")
      ELSE Ok([evaluated |-> evaluated,
               proof |-> GenerateProof(t, Act(One, Base), Act(t, Base), evaluated, blinded, r)])

(* poprf_finalize *)
Finalize(input, blind, evaluated, blinded, proof, info, tweaked) ==
  IF Misfit \in {blind, evaluated, blinded, tweaked} \/ proof = Misfit THEN Err("InvalidLength")
  ELSE IF ~IsScalar(blind) \/ ~IsElement(evaluated) \/ ~IsElement(blinded) \/ ~IsElement(tweaked)
       THEN Err("Poprf")
  ELSE IF ~VerifyProof(Act(One, Base), tweaked, evaluated, blinded, proof) THEN Rejected
  ELSE Ok(FinalHash(input, info, Act(Invert(blind), evaluated)))

(* poprf_evaluate *)
Evaluate(sk, input, info) ==
  LET t == TweakedSecret(sk, info)
  IN  IF sk = Misfit THEN Err("InvalidLength")
      ELSE IF ~IsScalar(sk) \/ HashToGroup(input) = Id \/ t = Zero THEN Err("Poprf")
      ELSE Ok(FinalHash(input, info, Act(Invert(t), HashToGroup(input))))
=============================================================================
