------------------------------- MODULE MCSign -------------------------------
(* Sign on small instances.  The two contexts and messages are chosen so     *)
(* that joining them without a length is ambiguous: <<1>> with <<2, 3>> and  *)
(* <<1, 2>> with <<3>> are the same bytes.                                   *)
EXTENDS Sign

MCContexts == {<<1>>, <<1, 2>>}
MCMessages == {<<2, 3>>, <<3>>}
OneContext == {<<1>>}

AllSigRequests == Suites \X SigLevels
AllTags        == {SigTag(s) : s \in SigSchemes} \cup {0}

(* The requests whose signatures hold an ML-DSA-87 half.                     *)
Cat5Requests == {<<"Hybrid", "Cat5">>, <<"HybridMatched", "Cat5">>, <<"PureCnsa2", "Cat5">>}
Cat5Tags     == {3, 16, 20}
=============================================================================
