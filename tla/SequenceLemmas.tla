--------------------------- MODULE SequenceLemmas ---------------------------
(* Facts about concatenation that the framing lemmas of SignProofs and       *)
(* IndexProofs rest on.                                                      *)
EXTENDS Integers, Sequences, SequenceTheorems, TLAPS

(* Elements of a concatenation, in front and behind the seam.               *)
LEMMA ConcatFront ==
  ASSUME NEW S, NEW s \in Seq(S), NEW t \in Seq(S), NEW i \in 1..Len(s)
  PROVE  (s \o t)[i] = s[i]
<1>1. Len(s) \in Nat /\ Len(t) \in Nat
  OBVIOUS
<1>2. i \in 1..Len(s) + Len(t) /\ i <= Len(s)
  BY <1>1
<1>3. QED
  BY <1>2, ConcatProperties

LEMMA ConcatBehind ==
  ASSUME NEW S, NEW s \in Seq(S), NEW t \in Seq(S), NEW i \in 1..Len(t)
  PROVE  (s \o t)[Len(s) + i] = t[i]
<1>1. Len(s) \in Nat /\ Len(t) \in Nat
  OBVIOUS
<1>2. Len(s) + i \in 1..Len(s) + Len(t) /\ ~(Len(s) + i <= Len(s)) /\ Len(s) + i - Len(s) = i
  BY <1>1
<1>3. QED
  BY <1>2, ConcatProperties

(* Names for what sequences are made of: a leaf that uses these names and    *)
(* the lemmas on them leaves the provers no sequence to reason about.        *)
Over(S)      == Seq(S)
Joined(s, t) == s \o t

LEMMA JoinedOver ==
  ASSUME NEW S, NEW s \in Over(S), NEW t \in Over(S)
  PROVE  Joined(s, t) \in Over(S)
BY ConcatProperties DEF Over, Joined

LEMMA JoinedFront ==
  ASSUME NEW S, NEW s \in Over(S), NEW t \in Over(S), NEW i \in 1..Len(s)
  PROVE  Joined(s, t)[i] = s[i]
BY ConcatFront DEF Over, Joined

LEMMA JoinedAssociative ==
  ASSUME NEW S, NEW s \in Over(S), NEW t \in Over(S), NEW u \in Over(S)
  PROVE  Joined(Joined(s, t), u) = Joined(s, Joined(t, u))
<1>1. ASSUME NEW a \in Seq(S), NEW b \in Seq(S), NEW c \in Seq(S)
      PROVE  (a \o b) \o c = a \o (b \o c)
  BY ONLY ConcatAssociative, SMTT(30)
<1>2. QED
  BY <1>1 DEF Over, Joined

(* Two concatenations whose first parts are of one length agree in both.    *)
LEMMA JoinedCancel ==
  ASSUME NEW S, NEW s \in Over(S), NEW t \in Over(S), NEW u \in Over(S), NEW v \in Over(S),
         Joined(s, t) = Joined(u, v), Len(s) = Len(u)
  PROVE  s = u /\ t = v
<1> USE DEF Over, Joined
<1>1. Len(s \o t) = Len(s) + Len(t) /\ Len(u \o v) = Len(u) + Len(v)
  BY ConcatProperties
<1>2. Len(t) = Len(v)
  <2>1. Len(s) \in Nat /\ Len(t) \in Nat /\ Len(v) \in Nat
    OBVIOUS
  <2>2. QED
    BY <1>1, <2>1
<1>3. \A i \in 1..Len(s) : s[i] = u[i]
  BY ConcatFront
<1>4. ASSUME NEW i \in 1..Len(t) PROVE t[i] = v[i]
  <2>1. i \in 1..Len(v)
    BY <1>2
  <2>2. (s \o t)[Len(s) + i] = t[i] /\ (u \o v)[Len(u) + i] = v[i]
    BY <2>1, ConcatBehind
  <2>3. QED
    BY <2>2
<1>5. QED
  BY <1>2, <1>3, <1>4, SeqEqual
=============================================================================
