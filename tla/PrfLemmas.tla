----------------------------- MODULE PrfLemmas ------------------------------
(* What the functions of Poprf and Ecvrf compute, whatever the groups, the   *)
(* hashes and the arguments are.                                             *)
EXTENDS Ecvrf, GroupLemmas, FiniteSetTheorems

-----------------------------------------------------------------------------
(* Counters *)

(* Among counters that will do there is a first.                             *)
LEMMA FirstCounter ==
  ASSUME NEW S \in SUBSET (0..CounterMax), S # {}
  PROVE  \E n \in S : \A k \in S : n <= k
<1> DEFINE R == StrictSubsetOrdering(0..CounterMax)
           T == {0..n : n \in S}
<1>1. IsWellFoundedOn(R, FiniteSubsetsOf(0..CounterMax))
  BY FS_StrictSubsetOrderingWellFounded
<1>2. T \subseteq FiniteSubsetsOf(0..CounterMax) /\ T # {}
  <2>1. CounterMax \in Nat
    BY HashAssumption
  <2>2. IsFiniteSet(0..CounterMax)
    BY <2>1, FS_Interval
  <2>3. \A n \in S : 0..n \subseteq 0..CounterMax /\ IsFiniteSet(0..n)
    BY <2>1, <2>2, FS_Subset
  <2>4. QED
    BY <2>3 DEF FiniteSubsetsOf
<1>3. PICK x \in T : \A y \in T : <<y, x>> \notin R
  <2> HIDE DEF R, T
  <2>1. QED
    BY <1>1, <1>2, WFMin
<1>4. PICK n \in S : x = 0..n
  OBVIOUS
<1>5. ASSUME NEW k \in S PROVE n <= k
  <2>1. CounterMax \in Nat /\ <<0..k, 0..n>> \notin R
    BY <1>3, <1>4, HashAssumption
  <2>2. 0..k \in SUBSET (0..CounterMax) /\ 0..n \in SUBSET (0..CounterMax)
    BY <2>1
  <2>3. ~(0..k \subseteq 0..n /\ 0..k # 0..n)
    BY <2>1, <2>2 DEF StrictSubsetOrdering
  <2>4. CASE k < n
    <3>1. n \in 0..n /\ n \notin 0..k /\ 0..k \subseteq 0..n
      BY <2>4
    <3>2. QED
      BY <2>3, <3>1
  <2>5. QED
    BY <2>1, <2>4
<1>6. QED
  BY <1>5

(* poprf_derive_key_pair never answers with the scalar zero.                 *)
LEMMA DerivedKey ==
  ASSUME NEW seed \in Seeds, NEW info \in Strings, Answered(DeriveKeyPair(seed, info))
  PROVE  DeriveKeyPair(seed, info).val[1] \in RandomScalars
<1> DEFINE usable == {n \in 0..CounterMax : SeedScalar(seed, info, n) # Zero}
           first == CHOOSE n \in usable : \A k \in usable : n <= k
<1>1. seed # Misfit /\ usable # {} /\ DeriveKeyPair(seed, info) = Ok(SeedScalar(seed, info, first))
  BY DEF DeriveKeyPair, Answered, Err
<1>2. first \in usable
  BY <1>1, FirstCounter
<1>3. SeedScalar(seed, info, first) \in Scalar \ {Zero}
  BY <1>2, HashAssumption
<1>4. QED
  BY <1>1, <1>3 DEF Ok, RandomScalars

-----------------------------------------------------------------------------
(* Keys and tweaks *)

LEMMA PublicKeyElement ==
  ASSUME NEW sk \in RandomScalars
  PROVE  PublicKey(sk) \in PrimePoint \ {Id}
BY PrimePoints, ActNotId DEF PublicKey, RandomScalars

LEMMA PublicKeyGiven ==
  ASSUME NEW sk \in RandomScalars
  PROVE  PoprfPublicKey(sk).val[1] = PublicKey(sk)
BY HashAssumption DEF PoprfPublicKey, RandomScalars, IsScalar, Ok

(* The client tweaks the public key as the server tweaks the secret.         *)
LEMMA TweaksAgree ==
  ASSUME NEW sk \in Scalar, NEW info \in Strings
  PROVE  /\ TweakedSecret(sk, info) \in Scalar
         /\ TweakedKey(info, PublicKey(sk)) = Act(TweakedSecret(sk, info), Base)
         /\ TweakedKey(info, PublicKey(sk)) \in PrimePoint
         /\ TweakedKey(info, PublicKey(sk)) = Id <=> TweakedSecret(sk, info) = Zero
<1> DEFINE m == InfoScalar(info)
<1>1. m \in Scalar
  BY HashAssumption
<1> HIDE DEF m
<1>2. Plus(sk, m) \in Scalar /\ Plus(sk, m) = Plus(m, sk)
  BY <1>1, ScalarLaws
<1>3. Act(Plus(m, sk), Base) = Add(Act(m, Base), Act(sk, Base))
  BY <1>1, BaseSums
<1>4. TweakedKey(info, PublicKey(sk)) = Act(Plus(sk, m), Base) /\ TweakedSecret(sk, info) = Plus(sk, m)
  BY <1>2, <1>3 DEF TweakedKey, PublicKey, TweakedSecret, m
<1>5. Act(Plus(sk, m), Base) = Id => Plus(sk, m) = Zero
  BY <1>2, PrimePoints, PrimeLaws
<1>6. Act(Zero, Base) = Id
  BY PrimePoints, PointLaws
<1>7. QED
  BY <1>2, <1>4, <1>5, <1>6, PrimePoints

-----------------------------------------------------------------------------
(* DLEQ proofs *)

LEMMA GeneratorIsBase == Act(One, Base) = Base
BY PrimePoints, PointLaws

(* Prover and verifier compute one pair of composites.                       *)
LEMMA CompositesAgree ==
  ASSUME NEW k \in Scalar, NEW b \in PrimePoint, NEW c \in PrimePoint
  PROVE  LET m == Act(Weight(b, c, Act(k, c)), c)
         IN  /\ m \in PrimePoint
             /\ CompositesFast(k, b, c, Act(k, c)) = <<m, Act(k, m)>>
             /\ Composites(b, c, Act(k, c)) = <<m, Act(k, m)>>
<1> DEFINE w == Weight(b, c, Act(k, c))
<1>1. Act(k, c) \in PrimePoint
  BY PrimePoints
<1>2. w \in Scalar
  BY <1>1, HashAssumption
<1>3. Act(w, c) \in PrimePoint /\ Act(w, Act(k, c)) = Act(k, Act(w, c))
  BY <1>2, PrimePoints, ActCommutes
<1>4. QED
  BY <1>3 DEF CompositesFast, Composites

(* generate_proof_with_random makes proofs that verify_proof accepts, and    *)
(* their hash is that of a transcript whose second and third points have the *)
(* key for their logarithm.                                                  *)
LEMMA GeneratedProofVerifies ==
  ASSUME NEW k \in Scalar, NEW c \in PrimePoint, NEW r \in Scalar
  PROVE  LET b == Act(k, Base)
             proof == GenerateProof(k, Base, b, c, Act(k, c), r)
         IN  /\ proof.c \in Transcripts /\ proof.s \in Scalar
             /\ proof.c[1] = b /\ proof.c[2] \in PrimePoint /\ proof.c[3] = Act(k, proof.c[2])
             /\ proof = [c |-> proof.c, s |-> proof.s]
             /\ VerifyProof(Base, b, c, Act(k, c), proof)
<1> DEFINE b == Act(k, Base)
           m == Act(Weight(b, c, Act(k, c)), c)
           ch == <<b, m, Act(k, m), Act(r, Base), Act(r, m)>>
           e == ChallengeScalar(ch)
           s == Minus(r, Times(e, k))
<1>1. b \in PrimePoint
  BY PrimePoints
<1>2. m \in PrimePoint /\ CompositesFast(k, b, c, Act(k, c)) = <<m, Act(k, m)>>
      /\ Composites(b, c, Act(k, c)) = <<m, Act(k, m)>>
  BY <1>1, CompositesAgree
<1> HIDE DEF m
<1>3. GenerateProof(k, Base, b, c, Act(k, c), r) = [c |-> ch, s |-> s]
  BY <1>2 DEF GenerateProof, DleqChallenge
<1>4. ch \in Transcripts
  BY <1>1, <1>2, PrimePoints DEF Transcripts
<1>5. e \in Scalar /\ s \in Scalar
  <2>1. e \in Scalar
    BY <1>4, HashAssumption DEF Challenges
  <2>2. QED
    BY <2>1, ScalarLaws
<1>6. Add(Act(s, Base), Act(e, Act(k, Base))) = Act(r, Base)
      /\ Add(Act(s, m), Act(e, Act(k, m))) = Act(r, m)
  BY <1>2, <1>5, MinusResponse, PrimePoints
<1>7. VerifyProof(Base, b, c, Act(k, c), [c |-> ch, s |-> s])
  BY <1>2, <1>4, <1>5, <1>6 DEF VerifyProof, DleqChallenge, IsScalar, Challenges
<1>8. QED
  BY <1>2, <1>3, <1>4, <1>5, <1>7

(* What verify_proof accepts over an honest transcript is true: the two      *)
(* pairs have one logarithm.                                                 *)
LEMMA AcceptedProofIsTrue ==
  ASSUME NEW t \in Scalar, NEW c \in PrimePoint, NEW d \in PrimePoint, NEW proof,
         proof.c = <<>> \/ \E k \in Scalar : /\ proof.c[1] = Act(k, Base)
                                             /\ proof.c[3] = Act(k, proof.c[2]),
         VerifyProof(Base, Act(t, Base), c, d, proof)
  PROVE  d = Act(t, c)
<1> DEFINE b == Act(t, Base)
           w == Weight(b, c, d)
           m == Act(w, c)
           z == Act(w, d)
           e == ChallengeScalar(proof.c)
           t2 == Add(Act(proof.s, Base), Act(e, b))
           t3 == Add(Act(proof.s, m), Act(e, z))
<1>1. b \in PrimePoint
  BY PrimePoints
<1>2. w \in Scalar \ {Zero}
  BY <1>1, HashAssumption
<1>3. proof.c = <<b, m, z, t2, t3>>
  BY DEF VerifyProof, Composites, DleqChallenge
<1> HIDE DEF w, t2, t3
<1>4. proof.c # <<>>
  BY <1>3
<1>5. PICK k \in Scalar : proof.c[1] = Act(k, Base) /\ proof.c[3] = Act(k, proof.c[2])
  BY <1>4
<1>6. Act(k, Base) = Act(t, Base) /\ z = Act(k, m)
  BY <1>3, <1>5
<1>7. k = t
  BY <1>6, ActInjective, PrimePoints
<1>8. Act(w, d) = Act(w, Act(t, c)) /\ Act(t, c) \in PrimePoint
  BY <1>2, <1>6, <1>7, ActCommutes, PrimePoints
<1>9. QED
  BY <1>2, <1>8, ActCancels

-----------------------------------------------------------------------------
(* Blinding *)

LEMMA Unblinded ==
  ASSUME NEW t \in Scalar \ {Zero}, NEW b \in Scalar \ {Zero}, NEW h \in PrimePoint
  PROVE  Act(Invert(b), Act(Invert(t), Act(b, h))) = Act(Invert(t), h)
<1>1. Invert(t) \in Scalar
  BY ScalarLaws
<1>2. Act(Invert(t), Act(b, h)) = Act(b, Act(Invert(t), h)) /\ Act(Invert(t), h) \in PrimePoint
  BY <1>1, ActCommutes, PrimePoints
<1>3. QED
  BY <1>2, ActUndone

(* Any non-zero point can be reached from any other.                         *)
LEMMA Reachable ==
  ASSUME NEW p \in PrimePoint \ {Id}, NEW q \in PrimePoint \ {Id}
  PROVE  \E b \in RandomScalars : Act(b, p) = q
<1>1. PICK n \in Scalar : p = Act(n, Base)
  BY DEF PrimePoint
<1>2. PICK d \in Scalar : q = Act(d, Base)
  BY DEF PrimePoint
<1>3. Act(Zero, Base) = Id
  BY PrimePoints, PointLaws
<1>4. n # Zero /\ d # Zero
  BY <1>1, <1>2, <1>3
<1>5. Invert(n) \in Scalar \ {Zero}
  BY <1>4, ScalarLaws
<1> DEFINE b == Times(d, Invert(n))
<1>6. b \in Scalar /\ b # Zero
  BY <1>4, <1>5, ScalarLaws
<1>7. Act(b, p) = Act(d, Act(Invert(n), Act(n, Base)))
  BY <1>1, <1>5, PrimeLaws
<1>8. Act(Invert(n), Act(n, Base)) = Base
  BY <1>4, ActUndone, PrimePoints
<1>9. QED
  BY <1>2, <1>6, <1>7, <1>8 DEF RandomScalars

-----------------------------------------------------------------------------
(* The partially oblivious function *)

(* A challenge is the hash of a true statement, if of any: that its second   *)
(* and third points are as the base point and its first.                     *)
TrueStatement(c) == c = <<>> \/ \E k \in Scalar : c[1] = Act(k, Base) /\ c[3] = Act(k, c[2])

(* poprf_blind_evaluate answers with ev and the proof of c and s.            *)
Serves(sk, blinded, info, r, ev, c, s) ==
  BlindEvaluate(sk, blinded, info, r) = Ok([evaluated |-> ev, proof |-> [c |-> c, s |-> s]])

(* Of a question that can be evaluated, poprf_finalize makes the operator's  *)
(* answer from the operator's reply.                                         *)
LEMMA PoprfCompletes ==
  ASSUME NEW sk \in RandomScalars, NEW input \in Strings, NEW info \in Strings,
         NEW blind \in RandomScalars, NEW r \in RandomScalars,
         TweakedSecret(sk, info) # Zero, HashToGroup(input) # Id
  PROVE  /\ Answered(Evaluate(sk, input, info))
         /\ \E ev \in PrimePoint, c \in Transcripts, s \in Scalar :
              /\ Serves(sk, Act(blind, HashToGroup(input)), info, r, ev, c, s)
              /\ TrueStatement(c)
              /\ Finalize(input, blind, ev, Act(blind, HashToGroup(input)), [c |-> c, s |-> s],
                          info, TweakedKey(info, PublicKey(sk)))
                   = Evaluate(sk, input, info)
<1> DEFINE h == HashToGroup(input)
           t == TweakedSecret(sk, info)
           blinded == Act(blind, h)
           ev == Act(Invert(t), blinded)
           proof == GenerateProof(t, Base, Act(t, Base), ev, blinded, r)
<1>1. h \in PrimePoint \ {Id} /\ blind \in Scalar \ {Zero} /\ r \in Scalar /\ sk \in Scalar
  BY HashAssumption DEF RandomScalars
<1>2. t \in Scalar \ {Zero} /\ TweakedKey(info, PublicKey(sk)) = Act(t, Base)
  BY <1>1, TweaksAgree
<1> HIDE DEF h, t
<1>3. blinded \in PrimePoint \ {Id}
  BY <1>1, ActNotId
<1>4. Invert(t) \in Scalar \ {Zero}
  BY <1>2, ScalarLaws
<1>5. ev \in PrimePoint \ {Id} /\ Act(t, ev) = blinded
  BY <1>2, <1>3, <1>4, ActNotId, ActUndone
<1>6. /\ proof.c \in Transcripts /\ proof.s \in Scalar
      /\ proof.c[1] = Act(t, Base) /\ proof.c[2] \in PrimePoint /\ proof.c[3] = Act(t, proof.c[2])
      /\ proof = [c |-> proof.c, s |-> proof.s]
      /\ VerifyProof(Base, Act(t, Base), ev, blinded, proof)
  BY <1>1, <1>2, <1>5, GeneratedProofVerifies
<1> HIDE DEF proof
<1>7. Misfit \notin {sk, blinded, r, blind, ev, Act(t, Base)} /\ proof # Misfit
  <2>1. proof \in Proofs
    BY <1>6 DEF Proofs, Challenges
  <2>2. {sk, blinded, r, blind, ev, Act(t, Base)} \subseteq Scalar \cup Point
    BY <1>1, <1>2, <1>3, <1>5, PrimePoints
  <2>3. QED
    BY <2>1, <2>2, HashAssumption
<1>8. BlindEvaluate(sk, blinded, info, r) = Ok([evaluated |-> ev, proof |-> proof])
  BY <1>1, <1>2, <1>3, <1>7, GeneratorIsBase
     DEF BlindEvaluate, IsScalar, IsElement, proof, t
<1>9. Evaluate(sk, input, info) = Ok(FinalHash(input, info, Act(Invert(t), h)))
  BY <1>1, <1>2, <1>7 DEF Evaluate, IsScalar, t, h
<1>10. Act(Invert(blind), ev) = Act(Invert(t), h)
  BY <1>1, <1>2, Unblinded
<1>11. Act(t, Base) \in PrimePoint \ {Id}
  BY <1>2, ActNotId, PrimePoints
<1>12. Finalize(input, blind, ev, blinded, [c |-> proof.c, s |-> proof.s], info, Act(t, Base))
         = Ok(FinalHash(input, info, Act(Invert(t), h)))
  BY <1>1, <1>3, <1>5, <1>6, <1>7, <1>10, <1>11, GeneratorIsBase
     DEF Finalize, IsScalar, IsElement
<1>13. Answered(Evaluate(sk, input, info))
  BY <1>9 DEF Ok, Answered
<1>14. Serves(sk, blinded, info, r, ev, proof.c, proof.s)
  BY <1>6, <1>8 DEF Serves
<1>15. Finalize(input, blind, ev, blinded, [c |-> proof.c, s |-> proof.s], info,
               TweakedKey(info, PublicKey(sk)))
         = Evaluate(sk, input, info)
  BY <1>2, <1>9, <1>12
<1>16. TrueStatement(proof.c)
  BY <1>2, <1>6 DEF TrueStatement
<1> HIDE DEF ev
<1>17. QED
  BY <1>5, <1>6, <1>13, <1>14, <1>15, <1>16 DEF h

(* Whatever reply poprf_finalize accepts: the answer is the operator's.      *)
LEMMA PoprfIsSound ==
  ASSUME NEW sk \in RandomScalars, NEW input \in Strings, NEW info \in Strings,
         NEW blind \in RandomScalars, NEW evaluated, NEW c, NEW s,
         TweakedSecret(sk, info) # Zero, HashToGroup(input) # Id,
         c = <<>> \/ \E k \in Scalar : c[1] = Act(k, Base) /\ c[3] = Act(k, c[2]),
         Answered(Finalize(input, blind, evaluated, Act(blind, HashToGroup(input)),
                           [c |-> c, s |-> s], info, TweakedKey(info, PublicKey(sk))))
  PROVE  Finalize(input, blind, evaluated, Act(blind, HashToGroup(input)),
                  [c |-> c, s |-> s], info, TweakedKey(info, PublicKey(sk)))
           = Evaluate(sk, input, info)
<1> DEFINE h == HashToGroup(input)
           t == TweakedSecret(sk, info)
           blinded == Act(blind, h)
           proof == [c |-> c, s |-> s]
<1>1. h \in PrimePoint \ {Id} /\ blind \in Scalar \ {Zero} /\ sk \in Scalar
  BY HashAssumption DEF RandomScalars
<1>2. t \in Scalar \ {Zero} /\ TweakedKey(info, PublicKey(sk)) = Act(t, Base)
  BY <1>1, TweaksAgree
<1>3. blinded \in PrimePoint
  BY <1>1, PrimePoints
<1>4. /\ evaluated \in PrimePoint
      /\ VerifyProof(Base, Act(t, Base), evaluated, blinded, proof)
      /\ Finalize(input, blind, evaluated, blinded, proof, info, Act(t, Base))
           = Ok(FinalHash(input, info, Act(Invert(blind), evaluated)))
  BY <1>2, GeneratorIsBase DEF Finalize, Answered, Err, Rejected, IsElement
<1> HIDE DEF h, t, blinded
<1>5. blinded = Act(t, evaluated)
  BY <1>2, <1>3, <1>4, AcceptedProofIsTrue
<1>6. evaluated = Act(Invert(t), blinded)
  BY <1>2, <1>4, <1>5, ActUndone
<1>7. Act(Invert(blind), evaluated) = Act(Invert(t), h)
  BY <1>1, <1>2, <1>6, Unblinded DEF blinded
<1>8. sk # Misfit
  BY <1>1, HashAssumption
<1>9. Evaluate(sk, input, info) = Ok(FinalHash(input, info, Act(Invert(t), h)))
  BY <1>1, <1>2, <1>8 DEF Evaluate, IsScalar, t, h
<1>10. QED
  BY <1>2, <1>4, <1>7, <1>9 DEF h, t, blinded

-----------------------------------------------------------------------------
(* The verifiable functions *)

LEMMA Cofactors ==
  ASSUME NEW suite \in VrfSuites
  PROVE  /\ \A p \in DecodedPoints(suite) : p \in Point /\ ClearCofactor(suite, p) \in PrimePoint
         /\ \A p \in PrimePoint : ClearCofactor(suite, p) \in PrimePoint
         /\ \A p, q \in Point : ClearCofactor(suite, Sub(p, q))
                                  = Sub(ClearCofactor(suite, p), ClearCofactor(suite, q))
         /\ \A a \in Scalar, p \in Point : ClearCofactor(suite, Act(a, p))
                                             = Act(a, ClearCofactor(suite, p))
         /\ \A p \in PrimePoint \ {Id} : ClearCofactor(suite, p) # Id
<1>1. CASE suite = "P256"
  BY <1>1, PrimePoints DEF ClearCofactor, DecodedPoints
<1>2. CASE suite = "Ed25519"
  <2>1. Clear(Act(Zero, Base)) = Act(Zero, Clear(Base)) /\ Zero \in Scalar
    BY PrimePoints, CofactorLaws, ScalarLaws
  <2>2. Act(Zero, Base) = Id /\ Act(Zero, Clear(Base)) = Id
    BY PrimePoints, CofactorLaws, PointLaws
  <2>3. \A p \in PrimePoint \ {Id} : Clear(p) # Id
    BY <2>1, <2>2, PrimePoints, CofactorLaws
  <2>4. QED
    BY <1>2, <2>3, PrimePoints, CofactorLaws DEF ClearCofactor, DecodedPoints
<1>3. QED
  BY <1>1, <1>2 DEF VrfSuites

(* Try-and-increment yields nothing or a point of prime order.               *)
LEMMA HashedElement ==
  ASSUME NEW suite \in VrfSuites, NEW y \in Point, NEW alpha \in Strings,
         HashToCurve(suite, y, alpha) # <<>>
  PROVE  /\ HashToCurve(suite, y, alpha)[1] \in PrimePoint \ {Id}
         /\ HashToCurve(suite, y, alpha) = <<HashToCurve(suite, y, alpha)[1]>>
<1> DEFINE good == {n \in 0..CounterMax :
                      /\ Candidate(suite, y, alpha, n) # NoPoint
                      /\ ~SmallOrder(suite, Candidate(suite, y, alpha, n))}
           first == CHOOSE n \in good : \A k \in good : n <= k
           p == Candidate(suite, y, alpha, first)
<1>1. good # {} /\ HashToCurve(suite, y, alpha) = <<ClearCofactor(suite, p)>>
  BY DEF HashToCurve
<1>2. first \in good
  BY <1>1, FirstCounter
<1>3. first \in 0..CounterMax /\ p # NoPoint /\ ClearCofactor(suite, p) # Id
  BY <1>2 DEF SmallOrder
<1>4. p \in DecodedPoints(suite)
  BY <1>3, VrfAssumption
<1> HIDE DEF p
<1>5. ClearCofactor(suite, p) \in PrimePoint
  BY <1>4, Cofactors
<1>6. QED
  BY <1>1, <1>3, <1>5

(* A proof that can be made is accepted, and gives the value of the function *)
(* at alpha, which is what proof_to_hash gives too; where none can be made,  *)
(* try-and-increment has run out of candidates.                              *)
LEMMA VrfCompletes ==
  ASSUME NEW suite \in VrfSuites, NEW x \in RandomScalars, NEW alpha \in Strings
  PROVE  LET y == PublicKey(x)
             hs == HashToCurve(suite, y, alpha)
             reply == Prove(suite, x, alpha)
             p == reply.val[1]
         IN  /\ Answered(reply) <=> hs # <<>>
             /\ hs # <<>> =>
                  /\ p.gamma \in PrimePoint /\ p.c \in Transcripts /\ p.s \in Scalar
                  /\ p.c[2] \in PrimePoint
                  /\ \E k \in Scalar : p.c[1] = Act(k, Base) /\ p.c[3] = Act(k, p.c[2])
                  /\ ProofToHash(suite, p) = Ok(GammaToHash(suite, Act(x, hs[1])))
                  /\ Verify(suite, y, alpha, [gamma |-> p.gamma, c |-> p.c, s |-> p.s])
                       = Ok(GammaToHash(suite, Act(x, hs[1])))
<1> DEFINE y == PublicKey(x)
           hs == HashToCurve(suite, y, alpha)
           h == hs[1]
           k == Nonce(x, h)
           gamma == Act(x, h)
           c == <<y, h, gamma, Act(k, Base), Act(k, h)>>
           e == ChallengeScalar(c)
           s == Plus(k, Times(e, x))
           p == [gamma |-> gamma, c |-> c, s |-> s]
<1>1. x \in Scalar /\ x # Zero /\ x # Misfit
  BY HashAssumption DEF RandomScalars
<1>2. y \in PrimePoint \ {Id} /\ y = Act(x, Base)
  BY PublicKeyElement, SMTT(30) DEF PublicKey
<1>3. CASE hs = <<>>
  BY <1>1, <1>3 DEF Prove, Answered, Err
<1>4. CASE hs # <<>>
  <2>1. h \in PrimePoint \ {Id}
    BY <1>2, <1>4, HashedElement, PrimePoints
  <2> HIDE DEF y, hs, h
  <2>2. k \in Scalar \ {Zero}
    BY <1>1, <2>1, PrimePoints, VrfAssumption
  <2> HIDE DEF k
  <2>3. gamma \in PrimePoint \ {Id}
    BY <1>1, <2>1, ActNotId
  <2>4. Act(k, Base) \in PrimePoint \ {Id} /\ Act(k, h) \in PrimePoint \ {Id}
    BY <2>1, <2>2, PrimePoints, ActNotId
  <2>5. c \in Transcripts
    BY <1>2, <2>1, <2>3, <2>4, PrimePoints DEF Transcripts
  <2>6. e \in Scalar /\ s \in Scalar
    <3>1. e \in Scalar
      BY <2>5, HashAssumption DEF Challenges
    <3>2. QED
      BY <1>1, <2>2, <3>1, ScalarLaws
  <2>7. Id \notin {y, h, gamma, Act(k, Base), Act(k, h)} /\ HasEncoding(suite, c)
    <3>1. Id \notin {y, h, gamma, Act(k, Base), Act(k, h)}
      BY <1>2, <2>1, <2>3, <2>4
    <3> HIDE DEF gamma
    <3>2. QED
      BY <3>1 DEF HasEncoding
  <2>8. Prove(suite, x, alpha) = Ok(p)
    BY <1>1, <1>4, <2>7 DEF Prove, IsScalar, y, hs, h, k
  <2>9. p # Misfit /\ y # Misfit /\ y \in Point /\ gamma \in Point /\ gamma \in DecodedPoints(suite)
        /\ y \in DecodedPoints(suite)
    <3>1. y \in Point /\ gamma \in Point
      BY <1>2, <2>3, PrimePoints
    <3>2. p \in VrfProofs
      BY <3>1, <2>5, <2>6 DEF VrfProofs, Challenges
    <3>3. QED
      BY <1>2, <2>3, <3>1, <3>2, VrfAssumption, HashAssumption DEF DecodedPoints
  <2>10. ProofToHash(suite, p) = Ok(GammaToHash(suite, gamma))
    BY <2>9 DEF ProofToHash
  <2>11. Recommitted(y, h, gamma, e, s) = <<Act(k, Base), Act(k, h)>>
    <3>1. Sub(Act(s, Base), Act(e, Act(x, Base))) = Act(k, Base)
      BY <1>1, <2>2, <2>6, PrimePoints, PlusResponse
    <3>2. Sub(Act(s, h), Act(e, Act(x, h))) = Act(k, h)
      BY <1>1, <2>1, <2>2, <2>6, PlusResponse
    <3>3. QED
      BY <1>2, <3>1, <3>2 DEF Recommitted
  <2>12. ~SmallOrder(suite, y)
    BY <1>2, Cofactors DEF SmallOrder
  <2>13. Verify(suite, y, alpha, p) = Ok(GammaToHash(suite, gamma))
    <3> HIDE DEF gamma, s, e
    <3>1. DEFINE uv == Recommitted(y, h, p.gamma, ChallengeScalar(p.c), p.s)
    <3>2. uv = <<Act(k, Base), Act(k, h)>>
      BY <2>11 DEF e
    <3>3. <<y, h, p.gamma, uv[1], uv[2]>> = c
      BY <3>2
    <3>4. QED
      BY <1>4, <2>6, <2>7, <2>9, <2>12, <3>3 DEF Verify, IsScalar, hs, h
  <2>14. Answered(Ok(p)) /\ Ok(p).val[1] = p
    BY DEF Answered, Ok
  <2>15. c[1] = Act(x, Base) /\ c[2] = h /\ c[3] = Act(x, h)
    BY <1>2
  <2>16. QED
    <3> HIDE DEF gamma, s, e, c
    <3>1. [gamma |-> p.gamma, c |-> p.c, s |-> p.s] = p /\ p.gamma = gamma /\ p.c = c /\ p.s = s
      OBVIOUS
    <3>2. gamma = Act(x, h)
      BY DEF gamma
    <3>3. c[2] = h /\ h \in PrimePoint
      BY <2>1, <2>15
    <3> HIDE DEF p
    <3>4. c[2] \in PrimePoint /\ \E q \in Scalar : c[1] = Act(q, Base) /\ c[3] = Act(q, c[2])
      BY <1>1, <2>15, <3>3
    <3>5. Answered(Prove(suite, x, alpha)) /\ Prove(suite, x, alpha).val[1] = p
      BY <2>8, <2>14
    <3>6. gamma \in PrimePoint
      BY <2>3
    <3>7. ProofToHash(suite, p) = Ok(GammaToHash(suite, Act(x, h)))
          /\ Verify(suite, y, alpha, [gamma |-> p.gamma, c |-> p.c, s |-> p.s])
               = Ok(GammaToHash(suite, Act(x, h)))
      BY <2>10, <2>13, <3>1, <3>2
    <3>8. QED
      BY <1>4, <2>5, <2>6, <3>1, <3>2, <3>4, <3>5, <3>6, <3>7 DEF y, hs, h
<1>5. QED
  BY <1>3, <1>4

(* Whatever proof verify accepts, its output is the function's value.        *)
LEMMA VrfIsSound ==
  ASSUME NEW suite \in VrfSuites, NEW x \in RandomScalars, NEW alpha \in Strings,
         NEW gamma, NEW c, NEW s,
         c = <<>> \/ \E k \in Scalar : c[1] = Act(k, Base) /\ c[3] = Act(k, c[2]),
         Answered(Verify(suite, PublicKey(x), alpha, [gamma |-> gamma, c |-> c, s |-> s]))
  PROVE  LET hs == HashToCurve(suite, PublicKey(x), alpha)
         IN  /\ hs # <<>>
             /\ Verify(suite, PublicKey(x), alpha, [gamma |-> gamma, c |-> c, s |-> s])
                  = Ok(GammaToHash(suite, Act(x, hs[1])))
<1> DEFINE y == PublicKey(x)
           hs == HashToCurve(suite, y, alpha)
           h == hs[1]
           uv == Recommitted(y, h, gamma, ChallengeScalar(c), s)
<1>1. /\ hs # <<>> /\ c = <<y, h, gamma, uv[1], uv[2]>>
      /\ Verify(suite, y, alpha, [gamma |-> gamma, c |-> c, s |-> s]) = Ok(GammaToHash(suite, gamma))
  BY DEF Verify, Answered, Err, Rejected
<1> HIDE DEF hs, uv
<1>2. PICK k \in Scalar : c[1] = Act(k, Base) /\ c[3] = Act(k, c[2])
  BY <1>1
<1>3. Act(k, Base) = Act(x, Base) /\ gamma = Act(k, h) /\ x \in Scalar
  BY <1>1, <1>2 DEF PublicKey, RandomScalars
<1>4. k = x
  BY <1>3, ActInjective, PrimePoints
<1>5. QED
  BY <1>1, <1>3, <1>4 DEF hs

(* A Gamma that two challenges can be answered for over one commitment gives *)
(* the function's value, even under a key that differs in small order.       *)
LEMMA OneVrfIndex ==
  ASSUME NEW suite \in VrfSuites, NEW x \in RandomScalars, NEW h \in PrimePoint \ {Id},
         NEW y \in DecodedPoints(suite), NEW g \in DecodedPoints(suite),
         ClearCofactor(suite, y) = ClearCofactor(suite, PublicKey(x)),
         NEW e1 \in Scalar, NEW e2 \in Scalar, NEW s1 \in Scalar, NEW s2 \in Scalar, e1 # e2,
         Recommitted(y, h, g, e1, s1) = Recommitted(y, h, g, e2, s2)
  PROVE  GammaToHash(suite, g) = GammaToHash(suite, Act(x, h))
<1> DEFINE C(p) == ClearCofactor(suite, p)
<1>1. /\ \A p \in DecodedPoints(suite) : p \in Point /\ C(p) \in PrimePoint
      /\ \A p \in PrimePoint : C(p) \in PrimePoint
      /\ \A p, q \in Point : C(Sub(p, q)) = Sub(C(p), C(q))
      /\ \A a \in Scalar, p \in Point : C(Act(a, p)) = Act(a, C(p))
      /\ \A p \in PrimePoint \ {Id} : C(p) # Id
  BY Cofactors
<1> HIDE DEF C
<1>2. x \in Scalar /\ y \in Point /\ g \in Point /\ h \in Point /\ Base \in Point
      /\ Base \in PrimePoint \ {Id}
  BY <1>1, PrimePoints DEF RandomScalars
<1>3. C(Base) \in PrimePoint \ {Id} /\ C(h) \in PrimePoint /\ C(g) \in PrimePoint
      /\ C(y) = Act(x, C(Base))
  BY <1>1, <1>2 DEF PublicKey, C
<1>4. ASSUME NEW e \in Scalar, NEW s \in Scalar, NEW p \in Point, NEW q \in Point
      PROVE  C(Sub(Act(s, p), Act(e, q))) = Sub(Act(s, C(p)), Act(e, C(q)))
  <2>1. Act(s, p) \in Point /\ Act(e, q) \in Point
    BY PointLaws
  <2>2. QED
    BY <2>1, <1>1
<1>5. Sub(Act(s1, Base), Act(e1, y)) = Sub(Act(s2, Base), Act(e2, y))
      /\ Sub(Act(s1, h), Act(e1, g)) = Sub(Act(s2, h), Act(e2, g))
  BY DEF Recommitted
<1>6. Sub(Act(s1, C(Base)), Act(e1, C(y))) = Sub(Act(s2, C(Base)), Act(e2, C(y)))
      /\ Sub(Act(s1, C(h)), Act(e1, C(g))) = Sub(Act(s2, C(h)), Act(e2, C(g)))
  BY <1>2, <1>4, <1>5
<1>7. C(g) = Act(x, C(h))
  BY <1>2, <1>3, <1>6, ForcedLog
<1>8. QED
  BY <1>1, <1>2, <1>7 DEF GammaToHash, C
=============================================================================
