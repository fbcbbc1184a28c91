------------------------------- MODULE Ecvrf --------------------------------
(* vrf.rs and vrf_p256.rs: the ECVRFs of RFC 9381 with try-and-increment     *)
(* hashing.  Both files are one algorithm; they differ in the cofactor, in   *)
(* which secrets are keys, and in that P-256 has no 33-byte encoding of the  *)
(* identity.  The suite is the first argument of what differs.               *)
EXTENDS Poprf

CONSTANTS
  Candidate(_, _, _, _), \* suite, salt, alpha, counter |-> a point or NoPoint
  Nonce(_, _)            \* secret, hashed point |-> the prover's nonce

VrfSuites == {"Ed25519", "P256"}

(* The points a public key, a proof or a hash can decode to.                 *)
DecodedPoints(suite) == IF suite = "P256" THEN PrimePoint \ {Id} ELSE Point

VrfProofs == [gamma : Point \cup {NoPoint}, c : Challenges, s : Scalar \cup {NoScalar}]

ASSUME VrfAssumption ==
  /\ Misfit \notin VrfProofs
  /\ \A suite \in VrfSuites, y \in Point, alpha \in Strings, n \in 0..CounterMax :
       Candidate(suite, y, alpha, n) \in DecodedPoints(suite) \cup {NoPoint}
  /\ \A x \in Scalar, h \in Point : Nonce(x, h) \in Scalar \ {Zero}

(* mul_by_cofactor, by 1 on P-256.                                           *)
ClearCofactor(suite, p) == IF suite = "P256" THEN p ELSE Clear(p)

(* is_small_order; on P-256 only the identity is.                            *)
SmallOrder(suite, p) == ClearCofactor(suite, p) = Id

(* Faulty variant: a candidate of small order is taken like any other.       *)
HashToCurveAnyOrder(suite, salt, alpha) ==
  LET good == {n \in 0..CounterMax : Candidate(suite, salt, alpha, n) # NoPoint}
  IN  IF good = {} THEN <<>>
      ELSE <<ClearCofactor(suite, Candidate(suite, salt, alpha,
               CHOOSE n \in good : \A k \in good : n <= k))>>

(* hash_to_curve_tai: the first candidate that decodes to a point not of     *)
(* small order, cleared of the cofactor; <<>> when the counter runs out.     *)
HashToCurve(suite, salt, alpha) ==
  LET good == {n \in 0..CounterMax : /\ Candidate(suite, salt, alpha, n) # NoPoint
                                     /\ ~SmallOrder(suite, Candidate(suite, salt, alpha, n))}
  IN  IF good = {} THEN <<>>
      ELSE <<ClearCofactor(suite, Candidate(suite, salt, alpha,
               CHOOSE n \in good : \A k \in good : n <= k))>>

(* challenge() panics in point_to_string when a point has no encoding of the *)
(* fixed length.                                                             *)
HasEncoding(suite, points) == suite = "P256" => \A i \in DOMAIN points : points[i] # Id

(* Faulty variant: Gamma hashed as it is, though it may have a component of  *)
(* small order.                                                              *)
GammaToHashUncleared(suite, gamma) == <<suite, gamma>>

(* gamma_to_hash *)
GammaToHash(suite, gamma) == <<suite, ClearCofactor(suite, gamma)>>

(* Faulty variant: the sign of the challenge is the other one.               *)
ProveMinus(suite, x, alpha) ==
  LET y == PublicKey(x)
      hs == HashToCurve(suite, y, alpha)
      h == hs[1]
      k == Nonce(x, h)
      c == <<y, h, Act(x, h), Act(k, Base), Act(k, h)>>
  IN  IF hs = <<>> THEN Err("Vrf")
      ELSE Ok([gamma |-> Act(x, h), c |-> c, s |-> Minus(k, Times(ChallengeScalar(c), x))])

(* ecvrf_prove, ecvrf_p256_prove.  The Ed25519 secret is any 32 bytes, which *)
(* are hashed and clamped: x is the scalar that comes of it, none is refused.*)
Prove(suite, x, alpha) ==
  LET y == PublicKey(x)
      hs == HashToCurve(suite, y, alpha)
      h == hs[1]
      k == Nonce(x, h)
      c == <<y, h, Act(x, h), Act(k, Base), Act(k, h)>>
  IN  IF x = Misfit THEN Err("InvalidLength")
      ELSE IF suite = "P256" /\ (~IsScalar(x) \/ x = Zero) THEN Err("Vrf")
      ELSE IF hs = <<>> THEN Err("Vrf")
      ELSE IF ~HasEncoding(suite, c) THEN Err("Panic")
      ELSE Ok([gamma |-> Act(x, h), c |-> c, s |-> Plus(k, Times(ChallengeScalar(c), x))])

(* U and V, which verification recomputes.                                   *)
Recommitted(y, h, gamma, e, s) == <<Sub(Act(s, Base), Act(e, y)), Sub(Act(s, h), Act(e, gamma))>>

(* ecvrf_verify, ecvrf_p256_verify                                           *)
Verify(suite, pk, alpha, proof) ==
  LET hs == HashToCurve(suite, pk, alpha)
      h  == hs[1]
      uv == Recommitted(pk, h, proof.gamma, ChallengeScalar(proof.c), proof.s)
      c  == <<pk, h, proof.gamma, uv[1], uv[2]>>
  IN  IF pk = Misfit \/ proof = Misfit THEN Err("InvalidLength")
      ELSE IF pk \notin DecodedPoints(suite) \/ SmallOrder(suite, pk) THEN Rejected
      ELSE IF proof.gamma \notin DecodedPoints(suite) \/ ~IsScalar(proof.s) THEN Rejected
      ELSE IF hs = <<>> THEN Rejected
      ELSE IF ~HasEncoding(suite, c) THEN Err("Panic")
      ELSE IF c # proof.c THEN Rejected
      ELSE Ok(GammaToHash(suite, proof.gamma))

(* ecvrf_proof_to_hash, ecvrf_p256_proof_to_hash                             *)
ProofToHash(suite, proof) ==
  IF proof = Misfit THEN Err("InvalidLength")
  ELSE IF proof.gamma \notin DecodedPoints(suite) THEN Err("Vrf")
  ELSE Ok(GammaToHash(suite, proof.gamma))
=============================================================================
