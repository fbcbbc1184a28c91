------------------------------- MODULE Groups -------------------------------
(* The arithmetic that poprf.rs, vrf.rs and vrf_p256.rs take from their      *)
(* curve libraries: scalars modulo a prime, points, and the cofactor of      *)
(* edwards25519.  Only the laws the three files rely on are stated, as       *)
(* assumptions; the runs instantiate them with integers.                     *)
(* ristretto255 and P-256 are PrimePoint; edwards25519 is Point, where the   *)
(* points outside PrimePoint have a component of small order.                *)
CONSTANTS
  Scalar, Zero, One, Plus(_, _), Minus(_, _), Times(_, _), Invert(_),
  Point, Id, Base, Add(_, _), Sub(_, _), Act(_, _),
  Clear(_)             \* mul_by_cofactor

(* The points a scalar multiple of the base point reaches.                   *)
PrimePoint == {Act(a, Base) : a \in Scalar}

ASSUME ScalarLaws ==
  /\ Zero \in Scalar /\ One \in Scalar /\ Zero # One
  /\ \A a \in Scalar : Plus(a, Zero) = a /\ Times(a, One) = a
  /\ \A a \in Scalar : Invert(a) \in Scalar
  /\ \A a \in Scalar \ {Zero} : Invert(a) # Zero /\ Times(Invert(a), a) = One
  /\ \A a, b \in Scalar :
       /\ Plus(a, b) \in Scalar /\ Minus(a, b) \in Scalar /\ Times(a, b) \in Scalar
       /\ Plus(a, b) = Plus(b, a) /\ Times(a, b) = Times(b, a)
       /\ Plus(Minus(a, b), b) = a /\ Minus(Plus(a, b), b) = a
       /\ Times(a, b) = Zero => a = Zero \/ b = Zero
  /\ \A a, b, c \in Scalar :
       /\ Plus(a, Plus(b, c)) = Plus(Plus(a, b), c)
       /\ Times(a, Times(b, c)) = Times(Times(a, b), c)
       /\ Times(Minus(a, b), c) = Minus(Times(a, c), Times(b, c))

ASSUME PointLaws ==
  /\ Id \in Point /\ Base \in Point /\ Base # Id
  /\ \A p \in Point : Add(p, Id) = p /\ Act(Zero, p) = Id /\ Act(One, p) = p
  /\ \A p, q \in Point :
       /\ Add(p, q) \in Point /\ Sub(p, q) \in Point
       /\ Add(p, q) = Add(q, p)
       /\ Add(Sub(p, q), q) = p /\ Sub(Add(p, q), q) = p
  /\ \A a \in Scalar, p \in Point : Act(a, p) \in Point

(* On points of prime order scalars behave as exponents do.                  *)
ASSUME PrimeLaws ==
  \A p \in PrimePoint, a, b \in Scalar :
    /\ Act(Plus(a, b), p) = Add(Act(a, p), Act(b, p))
    /\ Act(Minus(a, b), p) = Sub(Act(a, p), Act(b, p))
    /\ Act(Times(a, b), p) = Act(a, Act(b, p))
    /\ Act(a, p) = Id => a = Zero \/ p = Id

(* Clearing the cofactor sends every point to one of prime order and loses   *)
(* nothing on those.                                                         *)
ASSUME CofactorLaws ==
  /\ \A p \in Point : Clear(p) \in PrimePoint
  /\ \A p, q \in Point : Clear(Add(p, q)) = Add(Clear(p), Clear(q))
                         /\ Clear(Sub(p, q)) = Sub(Clear(p), Clear(q))
  /\ \A a \in Scalar, p \in Point : Clear(Act(a, p)) = Act(a, Clear(p))
  /\ \A p, q \in PrimePoint : Clear(p) = Clear(q) => p = q
=============================================================================
