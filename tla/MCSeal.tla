------------------------------- MODULE MCSeal -------------------------------
(* Seal on small instances.  "empty" seals to exactly the minimum length of  *)
(* every format; "key32" is the usual content, a 32-byte context key, whose  *)
(* legacy box is shorter than every hybrid minimum; "bulk" makes a legacy    *)
(* box of 1749 bytes, longer than every hybrid minimum, so a box whose first *)
(* byte is a tag collides with that tag's length as well.  "edge" makes a    *)
(* box of 841 bytes, exactly the Cat-1 minimum.                              *)
EXTENDS Seal, TLC

CONSTANTS alice, bob, empty, key32, edge, bulk

MCPtLen == [p \in Plaintexts |->
  CASE p = empty -> 0 [] p = key32 -> 32 [] p = edge -> 793 [] p = bulk -> 1701]

AllRequests == Suites \X Levels
SomeTags    == {Tag(s) : s \in {"Hybrid512", "Pure1024", "Matched1024"}} \cup {0}
MCSymmetry  == Permutations(Users)

(* Cuts to nothing, one byte below the shortest box, the shortest and the    *)
(* longest hybrid minimum, and what the Cat-1 opener slices off.             *)
MinCuts == {0} \cup {n - 1 : n \in {MinSealedLen, HeaderLen("Hybrid512"),
                                     MinLen("Hybrid512"), MinLen("Matched1024")}}

(* One byte below the Cat-1 minimum.                                         *)
SomeCuts == {841}
=============================================================================
