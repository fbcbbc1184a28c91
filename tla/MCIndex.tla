------------------------------ MODULE MCIndex -------------------------------
(* IndexDerivation over the integers modulo 10: scalars are those modulo 5,  *)
(* the base point is 2, so points of prime order are the even ones and 5 has *)
(* order two.  Hashes are tables with the cases that matter: an input that   *)
(* maps to the identity, an info that cancels a key, seeds whose first       *)
(* scalars are zero, candidates that decode to nothing or to a point of      *)
(* small order, and a label that no candidate is left for.                   *)
EXTENDS IndexDerivation, TLC

MCScalar == 0..4
MCPlus(a, b)  == (a + b) % 5
MCMinus(a, b) == (a + 5 - b) % 5
MCTimes(a, b) == (a * b) % 5
MCInvert(a)   == IF a = 0 THEN 0 ELSE CHOOSE b \in MCScalar : (a * b) % 5 = 1

MCPoint == 0..9
MCAdd(p, q) == (p + q) % 10
MCSub(p, q) == (p + 10 - q) % 10
MCAct(a, p) == (a * p) % 10
MCClear(p)  == (2 * p) % 10

(* <<7>> with <<7>> and <<7, 7>> with <<>> are the same bytes in a row.      *)
MCInputs  == {<<7>>, <<7, 7>>, <<>>}
MCInfos   == {<<7>>, <<>>}
MCStrings == MCInputs \cup MCInfos
MCSeeds   == {"low", "zero"}

MCHashToGroup(x) == CASE Len(x) = 0 -> 0 [] Len(x) = 1 -> 4 [] OTHER -> 8
MCInfoScalar(x)  == IF x = <<>> THEN 1 ELSE 4
MCWeight(b, c, d) == 1 + ((b + c + 3 * d) % 4)
MCChallengeScalar(t) == IF t = <<>> THEN 0 ELSE (t[1] + 2 * t[2] + t[3] + 3 * t[4] + t[5]) % 5
MCSeedScalar(s, i, n) == IF s = "zero" \/ n = 0 THEN 0 ELSE 1

(* The first candidate decodes to nothing, the next has small order where    *)
(* the curve has such points, and the label <<>> has no candidate at all.    *)
(* The salt tells: a key with a component of small order hashes otherwise.   *)
MCCandidate(suite, y, alpha, n) ==
  IF n = 0 \/ alpha = <<>> THEN NoPoint
  ELSE IF n = 1 THEN (IF suite = "P256" THEN NoPoint ELSE 5)
  ELSE IF suite = "P256" THEN (IF Len(alpha) = 1 THEN 4 ELSE 6)
  ELSE IF (Len(alpha) = 1) = (y % 2 = 0) THEN 7 ELSE 8
MCNonce(x, h) == 1 + ((x + h) % 4)

MCSymmetry == Permutations(Lookups)
=============================================================================
