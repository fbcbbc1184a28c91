----------------------------- MODULE MCAccount ------------------------------
(* Secrets of three bytes, so that a code has two groups; bytes at both ends *)
(* of the range, one whose digits have all overlapping bits set, and a code  *)
(* (JFFSSC) with letters that ligatures, sharp s and long s stand for.       *)
EXTENDS Account

CONSTANTS alpha, s1

MCDrawn == {<<0, 255, 88>>, <<40, 133, 16>>}
MCSetups == {[password |-> alpha, salt |-> s1, drawn |-> <<0, 255, 88>>]}
=============================================================================
