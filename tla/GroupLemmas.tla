---------------------------- MODULE GroupLemmas -----------------------------
(* What the proofs about Poprf and Ecvrf need of the groups' laws.           *)
EXTENDS Groups, TLAPS

-----------------------------------------------------------------------------
(* Scalars *)

LEMMA MinusSelf == ASSUME NEW a \in Scalar PROVE Minus(a, a) = Zero
<1>1. Plus(Zero, a) = a
  BY ScalarLaws
<1>2. Minus(Plus(Zero, a), a) = Zero
  BY ScalarLaws
<1>3. QED
  BY <1>1, <1>2

LEMMA MinusZero ==
  ASSUME NEW a \in Scalar, NEW b \in Scalar, Minus(a, b) = Zero
  PROVE  a = b
<1>1. Plus(Minus(a, b), b) = a /\ Plus(Zero, b) = b
  BY ScalarLaws
<1>2. QED
  BY <1>1

(* Moving the right-hand sides of two differences across.                   *)
LEMMA Shifted ==
  ASSUME NEW v \in Scalar, NEW p \in Scalar, NEW q \in Scalar, NEW w \in Scalar,
         Minus(Plus(v, p), q) = w
  PROVE  Minus(p, q) = Minus(w, v)
<1> DEFINE d == Minus(w, v)
<1>1. d \in Scalar /\ Plus(d, v) = w /\ Plus(d, q) \in Scalar
  BY ScalarLaws
<1> HIDE DEF d
<1>2. Plus(v, p) = Plus(w, q)
  BY ScalarLaws, ZenonT(60)
<1>3. Plus(w, q) = Plus(Plus(d, q), v)
  <2>1. d \in Scalar
    BY <1>1
  <2>2. Plus(Plus(d, v), q) = Plus(d, Plus(v, q))
    BY <2>1, ScalarLaws
  <2>3. Plus(v, q) = Plus(q, v)
    BY ScalarLaws
  <2>4. Plus(d, Plus(q, v)) = Plus(Plus(d, q), v)
    BY <2>1, ScalarLaws
  <2>5. QED
    BY <1>1, <2>2, <2>3, <2>4
<1>4. Plus(p, v) = Plus(Plus(d, q), v)
  BY <1>2, <1>3, ScalarLaws
<1>5. p = Plus(d, q)
  <2>1. Minus(Plus(p, v), v) = p /\ Minus(Plus(Plus(d, q), v), v) = Plus(d, q)
    BY <1>1, ScalarLaws
  <2>2. QED
    BY <1>4, <2>1
<1>6. Minus(Plus(d, q), q) = d
  BY <1>1, ScalarLaws
<1>7. QED
  BY <1>5, <1>6 DEF d

(* A field has no zero divisors.                                            *)
LEMMA TimesApart ==
  ASSUME NEW e \in Scalar, NEW f \in Scalar, e # f, NEW c \in Scalar, NEW d \in Scalar,
         Minus(Times(e, c), Times(e, d)) = Minus(Times(f, c), Times(f, d))
  PROVE  c = d
<1> DEFINE z == Minus(c, d)
<1>1. z \in Scalar
  BY ScalarLaws
<1>2. ASSUME NEW g \in Scalar PROVE Minus(Times(g, c), Times(g, d)) = Times(g, z)
  <2>1. Times(z, g) = Minus(Times(c, g), Times(d, g))
    BY ScalarLaws
  <2>2. Times(z, g) = Times(g, z) /\ Times(c, g) = Times(g, c) /\ Times(d, g) = Times(g, d)
    BY <1>1, ScalarLaws
  <2>3. QED
    BY <2>1, <2>2
<1>3. Times(e, z) = Times(f, z) /\ Times(f, z) \in Scalar
  BY <1>1, <1>2, ScalarLaws
<1>4. Times(Minus(e, f), z) = Minus(Times(e, z), Times(f, z))
  BY <1>1, ScalarLaws
<1>5. Times(Minus(e, f), z) = Zero
  BY <1>3, <1>4, MinusSelf
<1>6. Minus(e, f) = Zero \/ z = Zero
  BY <1>1, <1>5, ScalarLaws
<1>7. QED
  BY <1>6, MinusZero

-----------------------------------------------------------------------------
(* Points of prime order *)

LEMMA PrimePoints ==
  /\ Base \in PrimePoint \ {Id} /\ Id \in PrimePoint /\ PrimePoint \subseteq Point
  /\ \A a \in Scalar, p \in PrimePoint : Act(a, p) \in PrimePoint
<1>1. Base \in PrimePoint \ {Id}
  <2>1. One \in Scalar
    BY ScalarLaws
  <2>2. Base = Act(One, Base) /\ Base # Id
    BY PointLaws
  <2>3. QED
    BY <2>1, <2>2 DEF PrimePoint
<1>2. Id \in PrimePoint
  <2>1. Zero \in Scalar
    BY ScalarLaws
  <2>2. Id = Act(Zero, Base)
    BY PointLaws
  <2>3. QED
    BY <2>1, <2>2 DEF PrimePoint
<1>3. PrimePoint \subseteq Point
  <2>1. \A a \in Scalar : Act(a, Base) \in Point
    BY PointLaws
  <2>2. QED
    BY <2>1 DEF PrimePoint
<1>4. ASSUME NEW a \in Scalar, NEW p \in PrimePoint PROVE Act(a, p) \in PrimePoint
  <2>1. PICK b \in Scalar : p = Act(b, Base)
    BY DEF PrimePoint
  <2>2. Act(a, p) = Act(Times(a, b), Base) /\ Times(a, b) \in Scalar
    BY <1>1, <2>1, PrimeLaws, ScalarLaws
  <2>3. QED
    BY <2>2 DEF PrimePoint
<1>5. QED
  BY <1>1, <1>2, <1>3, <1>4

LEMMA ActNotId ==
  ASSUME NEW a \in Scalar \ {Zero}, NEW p \in PrimePoint \ {Id}
  PROVE  Act(a, p) \in PrimePoint \ {Id}
BY PrimePoints, PrimeLaws

LEMMA ActCommutes ==
  ASSUME NEW a \in Scalar, NEW b \in Scalar, NEW p \in PrimePoint
  PROVE  Act(a, Act(b, p)) = Act(b, Act(a, p))
<1>1. Act(Times(a, b), p) = Act(a, Act(b, p)) /\ Act(Times(b, a), p) = Act(b, Act(a, p))
  BY PrimeLaws
<1>2. Times(a, b) = Times(b, a)
  BY ScalarLaws
<1>3. QED
  BY <1>1, <1>2

LEMMA ActUndone ==
  ASSUME NEW a \in Scalar \ {Zero}, NEW p \in PrimePoint
  PROVE  Act(Invert(a), Act(a, p)) = p /\ Act(a, Act(Invert(a), p)) = p
<1>1. Invert(a) \in Scalar /\ Times(Invert(a), a) = One
  BY ScalarLaws
<1>2. Act(Times(Invert(a), a), p) = Act(Invert(a), Act(a, p))
  BY <1>1, PrimeLaws
<1>3. Act(One, p) = p
  BY PrimePoints, PointLaws
<1>4. QED
  BY <1>1, <1>2, <1>3, ActCommutes

LEMMA ActCancels ==
  ASSUME NEW a \in Scalar \ {Zero}, NEW p \in PrimePoint, NEW q \in PrimePoint,
         Act(a, p) = Act(a, q)
  PROVE  p = q
<1>1. p = Act(Invert(a), Act(a, p)) /\ q = Act(Invert(a), Act(a, q))
  BY ActUndone
<1>2. QED
  BY <1>1

LEMMA SubSelf == ASSUME NEW p \in Point PROVE Sub(p, p) = Id
<1>1. Add(Id, p) = p /\ Sub(Add(Id, p), p) = Id
  BY PointLaws
<1>2. QED
  BY <1>1

(* The discrete logarithm is unique.                                        *)
LEMMA ActInjective ==
  ASSUME NEW a \in Scalar, NEW b \in Scalar, NEW p \in PrimePoint \ {Id}, Act(a, p) = Act(b, p)
  PROVE  a = b
<1>1. Act(Minus(a, b), p) = Sub(Act(a, p), Act(b, p)) /\ Minus(a, b) \in Scalar
  BY PrimeLaws, ScalarLaws
<1>2. Act(Minus(a, b), p) = Id
  BY <1>1, SubSelf, PrimePoints
<1>3. Minus(a, b) = Zero
  BY <1>1, <1>2, PrimeLaws
<1>4. QED
  BY <1>3, MinusZero

LEMMA BaseSums ==
  ASSUME NEW a \in Scalar, NEW b \in Scalar
  PROVE  /\ Plus(a, b) \in Scalar /\ Act(Plus(a, b), Base) = Add(Act(a, Base), Act(b, Base))
         /\ Minus(a, b) \in Scalar /\ Act(Minus(a, b), Base) = Sub(Act(a, Base), Act(b, Base))
<1>1. Plus(a, b) \in Scalar /\ Minus(a, b) \in Scalar
  BY ScalarLaws
<1>2. Base \in PrimePoint
  BY PrimePoints
<1>3. QED
  BY <1>1, <1>2, PrimeLaws

(* The response of generate_proof_with_random opens its commitment.         *)
LEMMA MinusResponse ==
  ASSUME NEW r \in Scalar, NEW e \in Scalar, NEW k \in Scalar, NEW p \in PrimePoint
  PROVE  Add(Act(Minus(r, Times(e, k)), p), Act(e, Act(k, p))) = Act(r, p)
<1> DEFINE s == Minus(r, Times(e, k))
<1>1. s \in Scalar /\ Times(e, k) \in Scalar /\ Plus(s, Times(e, k)) = r
  BY ScalarLaws
<1>2. Act(Plus(s, Times(e, k)), p) = Add(Act(s, p), Act(Times(e, k), p))
  BY <1>1, PrimeLaws
<1>3. Act(Times(e, k), p) = Act(e, Act(k, p))
  BY PrimeLaws
<1>4. QED
  BY <1>1, <1>2, <1>3

(* So does that of ecvrf_prove.                                             *)
LEMMA PlusResponse ==
  ASSUME NEW r \in Scalar, NEW e \in Scalar, NEW k \in Scalar, NEW p \in PrimePoint
  PROVE  Sub(Act(Plus(r, Times(e, k)), p), Act(e, Act(k, p))) = Act(r, p)
<1> DEFINE s == Plus(r, Times(e, k))
<1>1. s \in Scalar /\ Times(e, k) \in Scalar /\ Minus(s, Times(e, k)) = r
  BY ScalarLaws
<1>2. Act(Minus(s, Times(e, k)), p) = Sub(Act(s, p), Act(Times(e, k), p))
  BY <1>1, PrimeLaws
<1>3. Act(Times(e, k), p) = Act(e, Act(k, p))
  BY PrimeLaws
<1>4. QED
  BY <1>1, <1>2, <1>3

(* Two answered challenges over one commitment: both points have one        *)
(* discrete logarithm.                                                      *)
LEMMA ForcedLog ==
  ASSUME NEW b \in PrimePoint \ {Id}, NEW h \in PrimePoint, NEW g \in PrimePoint,
         NEW x \in Scalar, NEW e1 \in Scalar, NEW e2 \in Scalar, e1 # e2,
         NEW s1 \in Scalar, NEW s2 \in Scalar,
         Sub(Act(s1, b), Act(e1, Act(x, b))) = Sub(Act(s2, b), Act(e2, Act(x, b))),
         Sub(Act(s1, h), Act(e1, g)) = Sub(Act(s2, h), Act(e2, g))
  PROVE  g = Act(x, h)
<1> DEFINE u == Minus(s1, Times(e1, x))
<1>1. u \in Scalar /\ u = Minus(s2, Times(e2, x))
  <2>1. ASSUME NEW e \in Scalar, NEW s \in Scalar
        PROVE  /\ Minus(s, Times(e, x)) \in Scalar
               /\ Act(Minus(s, Times(e, x)), b) = Sub(Act(s, b), Act(e, Act(x, b)))
    <3>1. Times(e, x) \in Scalar /\ Minus(s, Times(e, x)) \in Scalar
      BY ScalarLaws
    <3>2. Act(Times(e, x), b) = Act(e, Act(x, b))
      BY PrimeLaws
    <3>3. Act(Minus(s, Times(e, x)), b) = Sub(Act(s, b), Act(Times(e, x), b))
      BY <3>1, PrimeLaws
    <3>4. QED
      BY <3>1, <3>2, <3>3
  <2>2. QED
    BY <2>1, ActInjective
<1>2. PICK n \in Scalar : h = Act(n, Base)
  BY DEF PrimePoint
<1>3. PICK d \in Scalar : g = Act(d, Base)
  BY DEF PrimePoint
<1> DEFINE c == Times(x, n)
           v == Times(u, n)
<1>4. c \in Scalar /\ v \in Scalar /\ Act(c, Base) = Act(x, h)
  <2>1. c \in Scalar /\ v \in Scalar
    BY <1>1, ScalarLaws
  <2>2. Act(Times(x, n), Base) = Act(x, Act(n, Base))
    BY PrimePoints, PrimeLaws
  <2>3. QED
    BY <1>2, <2>1, <2>2
<1>5. ASSUME NEW e \in Scalar, NEW s \in Scalar, u = Minus(s, Times(e, x))
      PROVE  LET w == Minus(Plus(v, Times(e, c)), Times(e, d))
             IN  w \in Scalar /\ Sub(Act(s, h), Act(e, g)) = Act(w, Base)
  <2>1. Times(e, x) \in Scalar /\ Times(e, c) \in Scalar /\ Times(e, d) \in Scalar
    BY <1>4, ScalarLaws
  <2>2. s = Plus(u, Times(e, x))
    BY <2>1, <1>5, ScalarLaws
  <2>3. Act(s, h) = Add(Act(u, h), Act(Times(e, x), h))
    BY <1>1, <2>1, <2>2, PrimeLaws
  <2>4. Act(u, h) = Act(v, Base)
    <3>1. u \in Scalar
      BY <1>1
    <3> HIDE DEF u
    <3>2. Act(Times(u, n), Base) = Act(u, Act(n, Base))
      BY <3>1, PrimePoints, PrimeLaws
    <3>3. QED
      BY <1>2, <3>2
  <2>5. Act(Times(e, x), h) = Act(Times(e, c), Base)
    <3>1. Act(Times(e, x), h) = Act(e, Act(x, h))
      BY PrimeLaws
    <3>2. Act(Times(e, c), Base) = Act(e, Act(c, Base))
      BY <1>4, PrimePoints, PrimeLaws
    <3>3. QED
      BY <1>4, <3>1, <3>2
  <2>6. Act(e, g) = Act(Times(e, d), Base)
    BY <1>3, PrimePoints, PrimeLaws
  <2>7. Plus(v, Times(e, c)) \in Scalar
        /\ Act(Plus(v, Times(e, c)), Base) = Add(Act(v, Base), Act(Times(e, c), Base))
    BY <1>4, <2>1, BaseSums
  <2>8. Minus(Plus(v, Times(e, c)), Times(e, d)) \in Scalar
        /\ Act(Minus(Plus(v, Times(e, c)), Times(e, d)), Base)
             = Sub(Act(Plus(v, Times(e, c)), Base), Act(Times(e, d), Base))
    BY <2>1, <2>7, BaseSums
  <2>9. QED
    BY <2>3, <2>4, <2>5, <2>6, <2>7, <2>8
<1> DEFINE w1 == Minus(Plus(v, Times(e1, c)), Times(e1, d))
           w2 == Minus(Plus(v, Times(e2, c)), Times(e2, d))
<1>6. w1 \in Scalar /\ w1 = w2
  <2>1. w1 \in Scalar /\ Sub(Act(s1, h), Act(e1, g)) = Act(w1, Base)
    BY <1>5
  <2>2. w2 \in Scalar /\ Sub(Act(s2, h), Act(e2, g)) = Act(w2, Base)
    BY <1>1, <1>5
  <2> HIDE DEF w1, w2
  <2>3. QED
    BY <2>1, <2>2, ActInjective, PrimePoints
<1>7. Times(e1, c) \in Scalar /\ Times(e1, d) \in Scalar
      /\ Times(e2, c) \in Scalar /\ Times(e2, d) \in Scalar
  BY <1>4, ScalarLaws
<1> HIDE DEF c, v, u
<1>8. Minus(Times(e1, c), Times(e1, d)) = Minus(Times(e2, c), Times(e2, d))
  BY <1>4, <1>6, <1>7, Shifted
<1>9. c = d
  BY <1>4, <1>8, TimesApart
<1>10. QED
  BY <1>3, <1>4, <1>9
=============================================================================
