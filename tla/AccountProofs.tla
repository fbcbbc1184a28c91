---------------------------- MODULE AccountProofs ---------------------------
(***************************************************************************)
(* Theorems about Account for secrets of every length, every set of        *)
(* passwords, salts and random bytes and any number of devices.            *)
(***************************************************************************)
EXTENDS Account, FiniteSetTheorems, FunctionTheorems, TLAPS

-----------------------------------------------------------------------------
(* Recovery codes *)

LEMMA OverlapBits == ASSUME NEW a \in 0..3, NEW b \in 0..3 PROVE Or2(a, b) \in 0..3 /\ Or2(a, a) = a
BY DEF Or2

(* Only digits that agree in their overlap are some byte's.                  *)
LEMMA OverlapKept ==
  ASSUME NEW a \in 0..3, NEW b \in 0..3, Or2(a, b) = a, Or2(a, b) = b
  PROVE  a = b
BY DEF Or2

LEMMA EncodedDigits ==
  ASSUME NEW b \in Bytes
  PROVE  EncodeByte(b)[1] \in Digits /\ EncodeByte(b)[2] \in Digits
BY DEF EncodeByte, Bytes, Digits

LEMMA DecodedByte == ASSUME NEW i \in Digits, NEW j \in Digits PROVE DecodePair(i, j) \in Bytes
<1>1. i \div 8 \in 0..3 /\ j % 4 \in 0..3 /\ i % 8 \in 0..7 /\ j \div 4 \in 0..7
  BY DEF Digits
<1>2. Or2(i \div 8, j % 4) \in 0..3
  BY <1>1, OverlapBits
<1>3. QED
  BY <1>1, <1>2 DEF DecodePair, Bytes

LEMMA ByteRoundTrip ==
  ASSUME NEW b \in Bytes
  PROVE  DecodePair(EncodeByte(b)[1], EncodeByte(b)[2]) = b
<1> DEFINE i == b % 32
           j == (b \div 8) % 32
<1>1. EncodeByte(b)[1] = i /\ EncodeByte(b)[2] = j
  BY DEF EncodeByte
<1>2. i \div 8 = j % 4 /\ i \div 8 \in 0..3
  BY DEF Bytes
<1>3. Or2(i \div 8, j % 4) = i \div 8
  BY <1>2, OverlapBits
<1>4. (i % 8) + 8 * ((i \div 8) + 4 * (j \div 4)) = b
  BY DEF Bytes
<1>5. QED
  BY <1>1, <1>3, <1>4 DEF DecodePair

LEMMA DigitsOf ==
  ASSUME NEW r \in 0..7, NEW o \in 0..3, NEW q \in 0..7
  PROVE  EncodeByte(r + 8 * (o + 4 * q)) = <<r + 8 * o, o + 4 * q>>
<1> DEFINE d == r + 8 * (o + 4 * q)
<1>1. d % 32 = r + 8 * o
  OBVIOUS
<1>2. d \div 8 = o + 4 * q /\ (o + 4 * q) % 32 = o + 4 * q
  OBVIOUS
<1>3. EncodeByte(d) = <<d % 32, (d \div 8) % 32>>
  BY DEF EncodeByte
<1> HIDE DEF d
<1>4. EncodeByte(d) = <<r + 8 * o, o + 4 * q>>
  BY <1>1, <1>2, <1>3
<1>5. QED
  BY <1>4 DEF d

LEMMA DigitsRoundTrip ==
  ASSUME NEW i \in Digits, NEW j \in Digits
  PROVE  EncodeByte(DecodePair(i, j)) = <<i, j>> <=> i \div 8 = j % 4
<1> DEFINE a == i \div 8
           b == j % 4
           r == i % 8
           q == j \div 4
           o == Or2(a, b)
<1>1. a \in 0..3 /\ b \in 0..3 /\ r \in 0..7 /\ q \in 0..7 /\ i = r + 8 * a /\ j = b + 4 * q
  BY DEF Digits
<1>2. o \in 0..3 /\ Or2(a, a) = a
  BY <1>1, OverlapBits
<1>3. DecodePair(i, j) = r + 8 * (o + 4 * q)
  BY DEF DecodePair
<1> HIDE DEF a, b, r, q, o
<1>4. EncodeByte(DecodePair(i, j)) = <<r + 8 * o, o + 4 * q>>
  BY <1>1, <1>2, <1>3, DigitsOf, SMTT(30)
<1>5. <<r + 8 * o, o + 4 * q>> = <<i, j>> <=> o = a /\ o = b
  <2>1. r + 8 * o = i <=> o = a
    BY <1>1, <1>2
  <2>2. o + 4 * q = j <=> o = b
    BY <1>1, <1>2
  <2>3. QED
    BY <2>1, <2>2
<1>6. o = a /\ o = b <=> a = b
  BY <1>1, <1>2, OverlapKept DEF o
<1>7. QED
  BY <1>4, <1>5, <1>6 DEF a, b

(* Where the digits of a code are.                                           *)
LEMMA DigitPlace ==
  ASSUME NEW L \in Nat, NEW k \in 1..L
  PROVE  LET p == k + (k - 1) \div 5
         IN  p \in 1..L + (L - 1) \div 5 /\ p % 6 # 0 /\ p - p \div 6 = k
<1> DEFINE a == (k - 1) \div 5
           r == (k - 1) % 5
           z == (L - 1) \div 5
<1>1. a \in Nat /\ r \in 0..4 /\ k = 5 * a + r + 1
  OBVIOUS
<1>2. z \in Nat /\ a <= z
  OBVIOUS
<1>3. k + a = 6 * a + (r + 1)
  BY <1>1
<1> HIDE DEF a, r, z
<1>4. (6 * a + (r + 1)) % 6 = r + 1 /\ (6 * a + (r + 1)) \div 6 = a
  BY <1>1
<1>5. k + a \in 1..L + z /\ (k + a) % 6 # 0 /\ k + a - (k + a) \div 6 = k
  BY <1>1, <1>2, <1>3, <1>4
<1>6. QED
  BY <1>5 DEF a, z

(* Stripping.                                                                *)
Kept(spelling) == {i \in DOMAIN spelling : spelling[i] # Hyphen}

(* The members of a set of places, in order.                                 *)
Enumerates(f, K, places) ==
  /\ K \in Nat /\ f \in [1..K -> places]
  /\ \A m, n \in 1..K : m < n => f[m] < f[n]
  /\ \A i \in places : \E n \in 1..K : f[n] = i

LEMMA NthPlace ==
  ASSUME NEW kept, kept \subseteq Nat \ {0}, NEW K, NEW f, Enumerates(f, K, kept)
  PROVE  Cardinality(kept) = K /\ \A n \in 1..K : Nth(kept, n) = f[n]
<1>1. /\ K \in Nat /\ f \in [1..K -> kept]
      /\ \A n \in 1..K : f[n] \in kept /\ f[n] \in Nat \ {0}
      /\ \A m, n \in 1..K : m < n => f[m] < f[n]
      /\ \A i \in kept : \E n \in 1..K : f[n] = i
  BY DEF Enumerates
<1>2. \A m, n \in 1..K : f[m] = f[n] => m = n
  <2> SUFFICES ASSUME NEW m \in 1..K, NEW n \in 1..K, m < n PROVE f[m] # f[n]
    BY <1>1
  <2>1. QED
    BY <1>1
<1>3. f \in Bijection(1..K, kept)
  BY <1>1, <1>2, Fun_IsBij
<1>4. Cardinality(kept) = K
  BY <1>1, <1>3, FS_CountingElements DEF ExistsBijection
<1>5. ASSUME NEW n \in 1..K PROVE Cardinality(kept \cap 1..f[n]) = n
  <2> DEFINE g == [m \in 1..n |-> f[m]]
             T == kept \cap 1..f[n]
  <2>1. n \in Nat /\ \A m \in 1..n : m \in 1..K
    BY <1>1
  <2>2. \A m \in 1..n : g[m] = f[m] /\ f[m] \in T
    <3> SUFFICES ASSUME NEW m \in 1..n PROVE f[m] \in T
      OBVIOUS
    <3>1. m \in 1..K /\ (m = n \/ m < n)
      BY <2>1
    <3>2. f[m] <= f[n]
      BY <1>1, <3>1
    <3>3. QED
      BY <1>1, <3>1, <3>2
  <2>3. \A i \in T : \E m \in 1..n : g[m] = i
    <3> SUFFICES ASSUME NEW i \in T PROVE \E m \in 1..n : f[m] = i
      OBVIOUS
    <3>1. PICK m \in 1..K : f[m] = i
      BY <1>1
    <3>2. ~(n < m)
      BY <1>1, <3>1
    <3>3. QED
      BY <3>1, <3>2
  <2>4. g \in [1..n -> T]
    BY <2>2
  <2>5. \A a, b \in 1..n : g[a] = g[b] => a = b
    BY <1>2, <2>1, <2>2
  <2> HIDE DEF g, T
  <2>6. g \in Bijection(1..n, T)
    BY <2>3, <2>4, <2>5, Fun_IsBij
  <2>7. Cardinality(T) = n
    BY <2>1, <2>6, FS_CountingElements DEF ExistsBijection
  <2>8. QED
    BY <2>7 DEF T
<1>6. ASSUME NEW n \in 1..K PROVE Nth(kept, n) = f[n]
  <2>1. \A i \in kept : Cardinality(kept \cap 1..i) = n => i = f[n]
    <3> SUFFICES ASSUME NEW i \in kept, Cardinality(kept \cap 1..i) = n PROVE i = f[n]
      OBVIOUS
    <3>1. PICK m \in 1..K : f[m] = i
      BY <1>1
    <3>2. QED
      BY <1>5, <3>1
  <2>2. f[n] \in kept /\ Cardinality(kept \cap 1..f[n]) = n
    BY <1>1, <1>5
  <2>3. QED
    BY <2>1, <2>2 DEF Nth
<1>7. QED
  BY <1>4, <1>6

LEMMA StrippedAt ==
  ASSUME NEW spelling, DOMAIN spelling \subseteq Nat \ {0}, NEW K, NEW f,
         Enumerates(f, K, Kept(spelling))
  PROVE  Stripped(spelling) = [n \in 1..K |-> spelling[f[n]]]
<1> DEFINE kept == Kept(spelling)
<1>1. kept \subseteq Nat \ {0}
  BY DEF Kept
<1>2. Stripped(spelling) = [n \in 1..Cardinality(kept) |-> spelling[Nth(kept, n)]]
  BY DEF Stripped, Kept
<1> HIDE DEF kept
<1>3. Cardinality(kept) = K /\ \A n \in 1..K : Nth(kept, n) = f[n]
  BY <1>1, NthPlace DEF kept
<1>4. QED
  BY <1>2, <1>3

(* The places of a text in upper case that are used.                         *)
Capitals(text, j) == Uppercase(text[(j + 2) \div 3])
Used(text) == {j \in 1..3 * Len(text) : (j - 1) % 3 < Len(Capitals(text, j))}

LEMMA UppercasedAt ==
  ASSUME NEW text, Len(text) \in Nat, NEW K, NEW f, Enumerates(f, K, Used(text))
  PROVE  Uppercased(text) = [n \in 1..K |-> Capitals(text, f[n])[1 + ((f[n] - 1) % 3)]]
<1> DEFINE used == Used(text)
<1>1. used \subseteq Nat \ {0}
  BY DEF Used
<1>2. Uppercased(text) = [n \in 1..Cardinality(used) |->
                            Capitals(text, Nth(used, n))[1 + ((Nth(used, n) - 1) % 3)]]
  BY DEF Uppercased, Used, Capitals
<1> HIDE DEF used
<1>3. Cardinality(used) = K /\ \A n \in 1..K : Nth(used, n) = f[n]
  BY <1>1, NthPlace DEF used
<1>4. QED
  BY <1>2, <1>3

(* A text whose characters each have one character for upper case.           *)
LEMMA PlainUppercased ==
  ASSUME NEW K \in Nat, NEW S, NEW text \in [1..K -> S], NEW T, NEW g \in [1..K -> T],
         \A n \in 1..K : Uppercase(text[n]) = <<g[n]>>
  PROVE  Uppercased(text) = g
<1> DEFINE f == [n \in 1..K |-> 3 * n - 2]
<1>1. Len(text) = K
  OBVIOUS
<1>2. ASSUME NEW j \in 1..3 * K
      PROVE  (j + 2) \div 3 \in 1..K /\ ((j - 1) % 3 < 1 => j = 3 * ((j + 2) \div 3) - 2)
  OBVIOUS
<1>3. ASSUME NEW n \in 1..K
      PROVE  3 * n - 2 \in 1..3 * K /\ (3 * n - 2 + 2) \div 3 = n /\ (3 * n - 2 - 1) % 3 = 0
  OBVIOUS
<1>4. Used(text) = {j \in 1..3 * K : (j - 1) % 3 < 1}
  <2>1. \A n \in 1..K : Len(Uppercase(text[n])) = 1
    OBVIOUS
  <2>2. \A j \in 1..3 * K : Len(Capitals(text, j)) = 1
    BY <1>2, <2>1 DEF Capitals
  <2>3. QED
    BY <1>1, <2>2 DEF Used
<1>5. \A n \in 1..K : f[n] = 3 * n - 2 /\ f[n] \in Used(text)
  BY <1>3, <1>4
<1>6. Enumerates(f, K, Used(text))
  <2>1. \A j \in Used(text) : \E n \in 1..K : f[n] = j
    BY <1>2, <1>4
  <2>2. \A m, n \in 1..K : m < n => f[m] < f[n]
    OBVIOUS
  <2>3. f \in [1..K -> Used(text)]
    BY <1>5
  <2> HIDE DEF f
  <2>4. QED
    BY <2>1, <2>2, <2>3 DEF Enumerates
<1> HIDE DEF f
<1>7. Uppercased(text) = [n \in 1..K |-> Capitals(text, f[n])[1 + ((f[n] - 1) % 3)]]
  BY <1>1, <1>6, UppercasedAt
<1>8. ASSUME NEW n \in 1..K PROVE Capitals(text, f[n])[1 + ((f[n] - 1) % 3)] = g[n]
  <2>1. Capitals(text, f[n]) = <<g[n]>> /\ (f[n] - 1) % 3 = 0
    BY <1>3, <1>5 DEF Capitals
  <2>2. QED
    BY <2>1
<1>9. QED
  BY <1>7, <1>8

LEMMA SpecialUpper ==
  ASSUME NEW ch \in Specials
  PROVE  /\ ch # Hyphen /\ Len(Uppercase(ch)) \in 1..3
         /\ DOMAIN Uppercase(ch) = 1..Len(Uppercase(ch))
         /\ Len(Uppercase(ch)) \in DOMAIN Uppercase(ch)
<1>1. DOMAIN InCapitals = 1..6
  BY DEF InCapitals
<1>2. PICK i \in 1..6 : ch = 201 + i
  BY <1>1 DEF Specials, Foreign
<1>3. Uppercase(ch) = InCapitals[i]
  <2>1. ch - 100 \notin Letters /\ ch - 201 = i
    BY <1>2 DEF Letters
  <2>2. QED
    BY <2>1 DEF Uppercase, Foreign
<1>4. InCapitals[i] \in {<< 16 >>, <<16, 16>>, <<5, 5>>, <<5, 10>>, <<5, 5, 10>>, <<16, 17>>}
  BY DEF InCapitals
<1>5. ASSUME NEW w \in {<< 16 >>, <<16, 16>>, <<5, 5>>, <<5, 10>>, <<5, 5, 10>>, <<16, 17>>}
      PROVE  Len(w) \in 1..3 /\ DOMAIN w = 1..Len(w)
  OBVIOUS
<1>6. ch # Hyphen
  BY <1>2 DEF Hyphen
<1> DEFINE w == Uppercase(ch)
<1>7. Len(w) \in 1..3 /\ DOMAIN w = 1..Len(w)
  BY <1>3, <1>4, <1>5
<1> HIDE DEF w
<1>8. Len(w) \in 1..Len(w)
  BY <1>7
<1>9. QED
  BY <1>6, <1>7, <1>8 DEF w

LEMMA PlainDigit ==
  ASSUME NEW i \in Digits
  PROVE  /\ Uppercase(i) = <<i>> /\ Uppercase(Small(i)) = <<i>>
         /\ i # Hyphen /\ Small(i) # Hyphen
<1>1. \A ch \in Specials : ch > 201
  BY DEF Specials, InCapitals, Foreign
<1>2. QED
  BY <1>1 DEF Uppercase, Small, Digits, Letters, Hyphen

LEMMA PlainForeign == Uppercase(Foreign) = <<Foreign>> /\ Foreign \notin Digits /\ Foreign # Hyphen
<1>1. \A ch \in Specials : ch > 201
  BY DEF Specials, InCapitals, Foreign
<1>2. QED
  BY <1>1 DEF Uppercase, Foreign, Letters, Digits, Hyphen

(* A character that stands for some digits of a text is read as them.        *)
LEMMA SplicedUppercased ==
  ASSUME NEW K \in Nat, NEW b \in [1..K -> Digits], NEW i \in 1..K, NEW ch \in Specials,
         StandsAt(ch, b, i)
  PROVE  Uppercased(Spliced(ch, b, i)) = b
<1> DEFINE u == Uppercase(ch)
           k == Len(u)
           s == Spliced(ch, b, i)
           f == [n \in 1..K |-> IF n < i THEN 3 * n - 2
                                ELSE IF n < i + k THEN 2 * i - 2 + n ELSE 3 * (n - k) + 1]
<1>1. k \in 1..3 /\ DOMAIN u = 1..k
  BY SpecialUpper
<1>2. i + k - 1 <= K /\ \A m \in 1..k : b[i + m - 1] = u[m]
  <2>1. \A m \in 1..k : i + m - 1 \in 1..K /\ b[i + m - 1] = u[m]
    BY <1>1 DEF StandsAt
  <2>2. k \in 1..k
    BY <1>1
  <2>3. QED
    BY <2>1, <2>2
<1>3. /\ DOMAIN s = 1..K - k + 1 /\ Len(s) = K - k + 1 /\ s[i] = ch
      /\ \A n \in 1..K - k + 1 : n < i => s[n] = b[n]
      /\ \A n \in 1..K - k + 1 : n > i => s[n] = b[n + k - 1]
  <2>1. Len(b) = K /\ K - (k - 1) = K - k + 1 /\ K - k + 1 \in Nat /\ i \in 1..K - k + 1
    BY <1>1, <1>2
  <2>2. s = [n \in 1..K - (k - 1) |-> IF n < i THEN b[n] ELSE IF n = i THEN ch ELSE b[n + (k - 1)]]
    BY <2>1 DEF Spliced
  <2>3. \A n \in 1..K : n + (k - 1) = n + k - 1
    BY <1>1
  <2> HIDE DEF s, k, u
  <2>4. QED
    BY <2>1, <2>2, <2>3
<1>4. \A n \in 1..K : Uppercase(b[n]) = <<b[n]>>
  BY PlainDigit
<1> HIDE DEF s, u, k
<1> DEFINE M == K - k + 1
<1>5. M \in Nat \ {0} /\ i \in 1..M
  BY <1>1, <1>2
<1>6. ASSUME NEW j \in 1..3 * M
      PROVE  /\ (j + 2) \div 3 \in 1..M /\ (j - 1) % 3 \in 0..2
             /\ j = 3 * ((j + 2) \div 3) - 2 + ((j - 1) % 3)
  BY <1>5
<1>7. ASSUME NEW n \in 1..M, NEW m \in 0..2
      PROVE  /\ 3 * n - 2 + m \in 1..3 * M
             /\ (3 * n - 2 + m + 2) \div 3 = n /\ (3 * n - 2 + m - 1) % 3 = m
  BY <1>5
<1>8. \A n \in 1..M : Uppercase(s[n]) = IF n < i THEN <<b[n]>> ELSE IF n = i THEN u
                                         ELSE <<b[n + k - 1]>>
  BY <1>1, <1>2, <1>3, <1>4 DEF u
<1>9. Used(s) = {j \in 1..3 * M : (j - 1) % 3 < IF (j + 2) \div 3 = i THEN k ELSE 1}
  <2>1. \A n \in 1..M : Len(Uppercase(s[n])) = IF n = i THEN k ELSE 1
    <3> SUFFICES ASSUME NEW n \in 1..M
                 PROVE  Len(Uppercase(s[n])) = IF n = i THEN k ELSE 1
      OBVIOUS
    <3>1. CASE n = i
      BY <1>3, <1>5, <3>1 DEF k, u
    <3>2. CASE n # i
      <4>1. Uppercase(s[n]) = <<b[n]>> \/ Uppercase(s[n]) = <<b[n + k - 1]>>
        BY <1>8, <3>2
      <4>2. QED
        BY <3>2, <4>1
    <3>3. QED
      BY <3>1, <3>2
  <2>2. \A j \in 1..3 * M : Len(Capitals(s, j)) = IF (j + 2) \div 3 = i THEN k ELSE 1
    BY <1>6, <2>1 DEF Capitals
  <2>3. QED
    BY <1>3, <2>2 DEF Used
<1> DEFINE Place(a, q) == 3 * a - 2 + q
<1>10. ASSUME NEW a \in 1..M, NEW q \in 0..2, q < IF a = i THEN k ELSE 1
       PROVE  /\ Place(a, q) \in Used(s) /\ Capitals(s, Place(a, q)) = Uppercase(s[a])
              /\ (Place(a, q) - 1) % 3 = q
  <2>1. /\ 3 * a - 2 + q \in 1..3 * M /\ (3 * a - 2 + q + 2) \div 3 = a
        /\ (3 * a - 2 + q - 1) % 3 = q
    BY <1>7
  <2>2. QED
    BY <1>9, <1>10, <2>1 DEF Capitals
<1>11. ASSUME NEW n \in 1..K
       PROVE  f[n] \in Used(s) /\ Capitals(s, f[n])[1 + ((f[n] - 1) % 3)] = b[n]
  <2>1. CASE n < i
    <3>1. n \in 1..M /\ f[n] = Place(n, 0) /\ n # i /\ 0 \in 0..2
      BY <1>5, <2>1
    <3> HIDE DEF f, Place, M
    <3>2. /\ Place(n, 0) \in Used(s) /\ Capitals(s, Place(n, 0)) = Uppercase(s[n])
          /\ (Place(n, 0) - 1) % 3 = 0
      BY <1>10, <3>1
    <3>3. f[n] \in Used(s) /\ Capitals(s, f[n]) = <<b[n]>> /\ (f[n] - 1) % 3 = 0
      BY <1>8, <2>1, <3>1, <3>2
    <3>4. QED
      BY <3>3
  <2>2. CASE ~(n < i) /\ n < i + k
    <3>1. n - i \in 0..2 /\ n - i < k /\ f[n] = Place(i, n - i)
      BY <1>1, <2>2
    <3> HIDE DEF f, Place, M
    <3>2. f[n] \in Used(s) /\ Capitals(s, f[n]) = u /\ (f[n] - 1) % 3 = n - i
      <4>1. i \in 1..M /\ Uppercase(s[i]) = u
        BY <1>3, <1>5 DEF u
      <4>2. QED
        BY <1>10, <3>1, <4>1
    <3>3. n - i + 1 \in 1..k /\ i + (n - i + 1) - 1 = n /\ 1 + (n - i) = n - i + 1
      BY <1>1, <3>1
    <3>4. QED
      BY <1>2, <3>2, <3>3
  <2>3. CASE ~(n < i + k)
    <3> DEFINE a == n - k + 1
    <3>1. a \in 1..M /\ a > i /\ a + k - 1 = n /\ f[n] = Place(a, 0) /\ 0 \in 0..2
      BY <1>1, <2>3
    <3> HIDE DEF f, Place, M, a
    <3>2. a # i /\ ~(a < i)
      BY <1>5, <3>1 DEF M
    <3>3. /\ Place(a, 0) \in Used(s) /\ Capitals(s, Place(a, 0)) = Uppercase(s[a])
          /\ (Place(a, 0) - 1) % 3 = 0
      BY <1>10, <3>1, <3>2
    <3>4. Uppercase(s[a]) = <<b[n]>>
      BY <1>8, <3>1, <3>2
    <3>5. QED
      BY <3>1, <3>3, <3>4
  <2>4. QED
    BY <2>1, <2>2, <2>3
<1>12. ASSUME NEW j \in Used(s) PROVE \E n \in 1..K : f[n] = j
  <2> DEFINE a == (j + 2) \div 3
             q == (j - 1) % 3
  <2>1. /\ a \in 1..M /\ q \in 0..2 /\ j = 3 * a - 2 + q /\ q < IF a = i THEN k ELSE 1
    BY <1>6, <1>9
  <2> HIDE DEF a, q
  <2>2. CASE a < i
    <3>1. a \in 1..K /\ f[a] = j
      BY <1>1, <2>1, <2>2
    <3>2. QED
      BY <3>1
  <2>3. CASE a = i
    <3>1. i + q \in 1..K /\ f[i + q] = j
      BY <1>1, <1>2, <2>1, <2>3
    <3>2. QED
      BY <3>1
  <2>4. CASE a > i
    <3> DEFINE n == a + k - 1
    <3>1. n \in 1..K /\ ~(n < i) /\ ~(n < i + k) /\ 3 * (n - k) + 1 = 3 * a - 2 /\ q = 0
      BY <1>1, <2>1, <2>4
    <3> HIDE DEF n, M
    <3>2. f[n] = 3 * (n - k) + 1
      BY <3>1
    <3> HIDE DEF f
    <3>3. f[n] = j
      BY <2>1, <3>1, <3>2
    <3>4. QED
      BY <3>1, <3>3
  <2>5. QED
    BY <2>1, <2>2, <2>3, <2>4
<1>13. \A m, n \in 1..K : m < n => f[m] < f[n]
  BY <1>1
<1>14. Enumerates(f, K, Used(s))
  <2>1. f \in [1..K -> Used(s)]
    BY <1>11
  <2> HIDE DEF f
  <2>2. QED
    BY <1>12, <1>13, <2>1 DEF Enumerates
<1> HIDE DEF f
<1>15. Uppercased(s) = [n \in 1..K |-> Capitals(s, f[n])[1 + ((f[n] - 1) % 3)]]
  BY <1>1, <1>3, <1>14, UppercasedAt
<1>16. QED
  BY <1>11, <1>15 DEF s

LEMMA EncodedTyped ==
  ASSUME NEW d \in Secrets
  PROVE  Encoded(d) \in [1..2 * SecretLen -> Digits]
<1>1. ASSUME NEW n \in 1..2 * SecretLen PROVE (n + 1) \div 2 \in 1..SecretLen
  BY SecretAssumption
<1>2. QED
  BY <1>1, EncodedDigits, SecretAssumption DEF Encoded, Secrets

(* The characters of a spelling of a code: digits, maybe small letters, and  *)
(* a hyphen in every sixth place.                                            *)
CodeSize == 2 * SecretLen + (2 * SecretLen - 1) \div 5

InGroups(c) == DOMAIN c = 1..CodeSize /\ \A n \in 1..CodeSize : c[n] = Hyphen <=> n % 6 = 0

LEMMA CodeInGroups ==
  ASSUME NEW d \in Secrets
  PROVE  /\ InGroups(Grouped(Encoded(d)))
         /\ \A n \in 1..2 * SecretLen : DigitOf(Grouped(Encoded(d)), n) = Encoded(d)[n]
         /\ Grouped(Encoded(d)) \in [1..CodeSize -> Digits \cup {Hyphen}]
<1> DEFINE e == Encoded(d)
<1>1. e \in [1..2 * SecretLen -> Digits] /\ SecretLen \in Nat \ {0}
  BY EncodedTyped, SecretAssumption
<1> HIDE DEF e
<1>2. Len(e) = 2 * SecretLen
  BY <1>1
<1>3. Grouped(e) = [n \in 1..CodeSize |-> IF n % 6 = 0 THEN Hyphen ELSE e[n - n \div 6]]
  BY <1>2 DEF Grouped, CodeSize
<1>4. ASSUME NEW n \in 1..CodeSize, n % 6 # 0 PROVE n - n \div 6 \in 1..2 * SecretLen
  BY <1>1, <1>4 DEF CodeSize
<1>5. ASSUME NEW n \in 1..CodeSize, n % 6 # 0 PROVE Grouped(e)[n] \in Digits /\ Grouped(e)[n] # Hyphen
  <2>1. Grouped(e)[n] = e[n - n \div 6]
    BY <1>3, <1>5
  <2>2. e[n - n \div 6] \in Digits
    BY <1>1, <1>4, <1>5
  <2>3. QED
    BY <2>1, <2>2 DEF Digits, Hyphen
<1>6. ASSUME NEW n \in 1..2 * SecretLen PROVE DigitOf(Grouped(e), n) = e[n]
  <2> DEFINE p == n + (n - 1) \div 5
  <2>1. p \in 1..CodeSize /\ p % 6 # 0 /\ p - p \div 6 = n
    BY <1>1, DigitPlace DEF CodeSize
  <2> HIDE DEF p
  <2>2. Grouped(e)[p] = e[n]
    BY <1>3, <2>1
  <2>3. QED
    BY <2>2 DEF DigitOf, p
<1>7. InGroups(Grouped(e))
  BY <1>3, <1>5 DEF InGroups
<1>8. Grouped(e) \in [1..CodeSize -> Digits \cup {Hyphen}]
  <2>1. \A n \in 1..CodeSize : Grouped(e)[n] \in Digits \cup {Hyphen}
    BY <1>3, <1>5
  <2>2. QED
    BY <1>3, <2>1
<1>9. QED
  BY <1>6, <1>7, <1>8 DEF e

LEMMA SizeTyped == CodeSize \in Nat /\ 2 * SecretLen \in Nat /\ 1 \in 1..CodeSize
BY SecretAssumption DEF CodeSize

(* What the places of a code's digits are, and that there are no others.     *)
LEMMA PlacesOfCode ==
  /\ \A n \in 1..2 * SecretLen : n + (n - 1) \div 5 \in 1..CodeSize /\ (n + (n - 1) \div 5) % 6 # 0
  /\ \A m, n \in 1..2 * SecretLen : m < n => m + (m - 1) \div 5 < n + (n - 1) \div 5
  /\ \A i \in 1..CodeSize : i % 6 # 0 => \E n \in 1..2 * SecretLen : n + (n - 1) \div 5 = i
<1>1. SecretLen \in Nat \ {0} /\ 2 * SecretLen \in Nat
  BY SecretAssumption
<1>2. \A n \in 1..2 * SecretLen : n + (n - 1) \div 5 \in 1..CodeSize /\ (n + (n - 1) \div 5) % 6 # 0
  BY <1>1, DigitPlace DEF CodeSize
<1>3. ASSUME NEW m \in Nat \ {0}, NEW n \in Nat, m < n PROVE m + (m - 1) \div 5 < n + (n - 1) \div 5
  BY <1>3
<1>4. ASSUME NEW i \in 1..CodeSize, i % 6 # 0 PROVE \E n \in 1..2 * SecretLen : n + (n - 1) \div 5 = i
  <2>1. i - i \div 6 \in 1..2 * SecretLen
    BY <1>1, <1>4 DEF CodeSize
  <2>2. (i - i \div 6) + ((i - i \div 6) - 1) \div 5 = i
    <3> DEFINE q == i \div 6
               r == i % 6
    <3>1. q \in Nat /\ r \in 1..5 /\ i = 6 * q + r
      BY <1>4, SizeTyped
    <3>2. i - q = 5 * q + r
      BY <3>1
    <3> HIDE DEF q, r
    <3>3. (5 * q + r - 1) \div 5 = q
      BY <3>1
    <3>4. (i - q) + ((i - q) - 1) \div 5 = i
      BY <3>1, <3>2, <3>3
    <3>5. QED
      BY <3>4 DEF q
  <2>3. QED
    BY <2>1, <2>2
<1>5. QED
  BY <1>2, <1>3, <1>4

(* Without its hyphens a spelling in groups is its digits.                   *)
LEMMA GroupsStripped ==
  ASSUME NEW c, InGroups(c)
  PROVE  Stripped(c) = [n \in 1..2 * SecretLen |-> DigitOf(c, n)]
<1> DEFINE f == [n \in 1..2 * SecretLen |-> n + (n - 1) \div 5]
<1>1. Kept(c) = {i \in 1..CodeSize : i % 6 # 0} /\ DOMAIN c \subseteq Nat \ {0}
  BY SizeTyped DEF InGroups, Kept
<1>2. f \in [1..2 * SecretLen -> Kept(c)]
  BY <1>1, PlacesOfCode
<1>3. \A m, n \in 1..2 * SecretLen : m < n => f[m] < f[n]
  BY PlacesOfCode
<1>4. \A i \in Kept(c) : \E n \in 1..2 * SecretLen : f[n] = i
  BY <1>1, PlacesOfCode
<1>5. \A n \in 1..2 * SecretLen : f[n] = n + (n - 1) \div 5
  OBVIOUS
<1> HIDE DEF f
<1>6. Enumerates(f, 2 * SecretLen, Kept(c))
  BY <1>2, <1>3, <1>4, SizeTyped DEF Enumerates
<1>7. Stripped(c) = [n \in 1..2 * SecretLen |-> c[f[n]]]
  BY <1>1, <1>6, StrippedAt
<1>8. QED
  BY <1>5, <1>7 DEF DigitOf

(* Stripping leaves a spelling without hyphens as it is.                     *)
LEMMA BareStripped ==
  ASSUME NEW K \in Nat, NEW S, NEW b \in [1..K -> S], \A n \in 1..K : b[n] # Hyphen
  PROVE  Stripped(b) = b
<1> DEFINE f == [n \in 1..K |-> n]
<1>1. DOMAIN b = 1..K /\ Kept(b) = 1..K
  <2>1. DOMAIN b = 1..K
    OBVIOUS
  <2>2. QED
    BY <2>1 DEF Kept
<1>2. f \in [1..K -> Kept(b)] /\ \A n \in 1..K : f[n] = n
  BY <1>1
<1> HIDE DEF f
<1>3. Enumerates(f, K, Kept(b))
  BY <1>1, <1>2 DEF Enumerates
<1>4. Stripped(b) = [n \in 1..K |-> b[f[n]]]
  BY <1>1, <1>3, StrippedAt
<1>5. QED
  BY <1>2, <1>4

(* Whatever is typed that is a secret's digits once its hyphens are dropped  *)
(* and its letters are in upper case is read as that secret.                 *)
THEOREM SpellingRead ==
  ASSUME NEW d \in Secrets, NEW spelling, Uppercased(Stripped(spelling)) = Encoded(d)
  PROVE  RecoveryKeyToSecret(spelling) = Ok(d)
<1> DEFINE digits == Uppercased(Stripped(spelling))
           e == Encoded(d)
<1>1. e \in [1..2 * SecretLen -> Digits] /\ SecretLen \in Nat \ {0} /\ d \in [1..SecretLen -> Bytes]
  BY EncodedTyped, SecretAssumption DEF Secrets
<1>2. digits = e
  OBVIOUS
<1>3. ASSUME NEW n \in 1..SecretLen
      PROVE  DecodePair(e[2 * n - 1], e[2 * n]) = d[n]
  <2>1. 2 * n - 1 \in 1..2 * SecretLen /\ 2 * n \in 1..2 * SecretLen
    BY SecretAssumption
  <2>2. /\ (2 * n - 1 + 1) \div 2 = n /\ (2 * n - 1) % 2 = 1
        /\ (2 * n + 1) \div 2 = n /\ (2 * n) % 2 # 1
    BY SecretAssumption
  <2>3. e[2 * n - 1] = EncodeByte(d[n])[1] /\ e[2 * n] = EncodeByte(d[n])[2]
    BY <2>1, <2>2 DEF Encoded
  <2>4. d[n] \in Bytes
    BY <1>1
  <2> HIDE DEF e
  <2>5. QED
    BY <2>3, <2>4, ByteRoundTrip
<1>4. RecoveryKeyToSecret(spelling)
        = IF digits \notin [1..2 * SecretLen -> Digits] THEN Err("InvalidRecoveryKey")
          ELSE Ok([n \in 1..SecretLen |-> DecodePair(digits[2 * n - 1], digits[2 * n])])
  BY DEF RecoveryKeyToSecret
<1> HIDE DEF digits, e
<1>5. RecoveryKeyToSecret(spelling) = Ok([n \in 1..SecretLen |-> DecodePair(e[2 * n - 1], e[2 * n])])
  BY <1>1, <1>2, <1>4
<1>6. [n \in 1..SecretLen |-> DecodePair(e[2 * n - 1], e[2 * n])] = d
  BY <1>1, <1>3
<1>7. QED
  BY <1>5, <1>6

(* What is in upper case of another length, or leaves the alphabet, is        *)
(* refused.                                                                  *)
LEMMA SpellingRefused ==
  ASSUME NEW spelling, Uppercased(Stripped(spelling)) \notin [1..2 * SecretLen -> Digits]
  PROVE  ~Answered(RecoveryKeyToSecret(spelling))
BY DEF RecoveryKeyToSecret, Answered, Err

(* However the user spells the code of a secret, it is read as that secret.  *)
LEMMA CodeRead ==
  ASSUME NEW d \in Secrets, NEW spelling \in Spellings(GenerateRecoveryKey(d).code)
  PROVE  RecoveryKeyToSecret(spelling) = Ok(d)
<1> DEFINE c == Grouped(Encoded(d))
           e == Encoded(d)
           L == 2 * SecretLen
<1>1. /\ GenerateRecoveryKey(d).code = c /\ InGroups(c) /\ L \in Nat
      /\ e \in [1..L -> Digits] /\ \A n \in 1..L : DigitOf(c, n) = e[n]
      /\ c \in [1..CodeSize -> Digits \cup {Hyphen}]
  BY CodeInGroups, EncodedTyped, SecretAssumption DEF GenerateRecoveryKey
<1>2. \A n \in 1..L : e[n] \in Digits /\ e[n] # Hyphen
  <2>1. \A i \in Digits : i # Hyphen
    BY DEF Digits, Hyphen
  <2> HIDE DEF e
  <2>2. QED
    BY <1>1, <2>1
<1> HIDE DEF c, e, L
<1>3. e = [n \in 1..L |-> e[n]]
  BY <1>1
<1>4. InGroups(Lower(c)) /\ \A n \in 1..L : DigitOf(Lower(c), n) = Small(e[n])
  <2>1. DOMAIN c = 1..CodeSize /\ \A n \in 1..CodeSize : c[n] = Hyphen <=> n % 6 = 0
    BY <1>1 DEF InGroups
  <2>2. \A n \in 1..CodeSize : Lower(c)[n] = Hyphen <=> n % 6 = 0
    <3>1. Hyphen \notin Digits
      BY DEF Hyphen, Digits
    <3>2. QED
      BY <1>1, <2>1, <3>1, PlainDigit DEF Lower
  <2>3. \A n \in 1..L : Lower(c)[n + (n - 1) \div 5] = Small(c[n + (n - 1) \div 5])
    BY <1>1, <1>2, <2>1, PlacesOfCode DEF Lower, DigitOf, L
  <2>4. QED
    BY <1>1, <2>1, <2>2, <2>3 DEF InGroups, DigitOf, Lower
<1>5. Bare(c) = e /\ Bare(Lower(c)) = [n \in 1..L |-> Small(e[n])]
  <2>1. Bare(c) = [n \in 1..L |-> DigitOf(c, n)] /\ Bare(Lower(c)) = [n \in 1..L |-> DigitOf(Lower(c), n)]
    BY DEF Bare, L
  <2>2. [n \in 1..L |-> DigitOf(c, n)] = [n \in 1..L |-> e[n]]
    BY <1>1
  <2>3. [n \in 1..L |-> e[n]] = e
    BY <1>1
  <2>4. [n \in 1..L |-> DigitOf(Lower(c), n)] = [n \in 1..L |-> Small(e[n])]
    BY <1>4
  <2>5. QED
    BY <2>1, <2>2, <2>3, <2>4
<1>6. Stripped(c) = e /\ Stripped(Lower(c)) = [n \in 1..L |-> Small(e[n])]
  <2>1. Stripped(c) = Bare(c) /\ Stripped(Lower(c)) = Bare(Lower(c))
    BY <1>1, <1>4, GroupsStripped DEF Bare
  <2>2. QED
    BY <1>5, <2>1
<1>7. Stripped(e) = e
  BY <1>1, <1>2, BareStripped
<1>8. Stripped(Bare(Lower(c))) = Bare(Lower(c))
  <2> DEFINE b == Bare(Lower(c))
  <2>1. b \in [1..L -> {Small(i) : i \in Digits}]
    BY <1>2, <1>5
  <2>2. \A n \in 1..L : b[n] # Hyphen
    BY <1>2, <1>5, PlainDigit
  <2> HIDE DEF b
  <2>3. Stripped(b) = b
    BY <1>1, <2>1, <2>2, BareStripped
  <2>4. QED
    BY <2>3 DEF b
<1>9. Uppercased(e) = e
  <2>1. \A n \in 1..L : Uppercase(e[n]) = <<e[n]>>
    BY <1>2, PlainDigit
  <2>2. QED
    BY <1>1, <2>1, PlainUppercased
<1>10. Uppercased([n \in 1..L |-> Small(e[n])]) = e
  <2> DEFINE s == [n \in 1..L |-> Small(e[n])]
  <2>1. s \in [1..L -> {Small(i) : i \in Digits}] /\ \A n \in 1..L : s[n] = Small(e[n])
    BY <1>2
  <2>2. \A n \in 1..L : Uppercase(s[n]) = <<e[n]>>
    BY <1>2, <2>1, PlainDigit
  <2> HIDE DEF s
  <2>3. Uppercased(s) = e
    BY <1>1, <2>1, <2>2, PlainUppercased
  <2>4. QED
    BY <2>3 DEF s
<1>11. ASSUME NEW s \in {c, Lower(c), Bare(c), Bare(Lower(c))} PROVE Uppercased(Stripped(s)) = e
  <2>1. Stripped(s) = e \/ Stripped(s) = [n \in 1..L |-> Small(e[n])]
    BY <1>5, <1>6, <1>7, <1>8
  <2>2. QED
    BY <1>9, <1>10, <2>1
<1>12. ASSUME NEW i \in 1..L, NEW ch \in Specials, StandsAt(ch, e, i)
       PROVE  Uppercased(Stripped(Spliced(ch, e, i))) = e
  <2> DEFINE s == Spliced(ch, e, i)
  <2>1. Uppercased(s) = e
    BY <1>1, <1>12, SplicedUppercased
  <2>2. ch # Hyphen /\ Len(Uppercase(ch)) \in 1..3 /\ Len(Uppercase(ch)) \in DOMAIN Uppercase(ch)
    BY SpecialUpper
  <2>3. i + Len(Uppercase(ch)) - 1 <= L /\ Len(e) = L
    BY <1>1, <1>12, <2>2 DEF StandsAt
  <2> DEFINE M == L - (Len(Uppercase(ch)) - 1)
  <2>4. M \in Nat /\ s \in [1..M -> Digits \cup {ch}] /\ \A n \in 1..M : s[n] # Hyphen
    <3>1. M \in Nat
      BY <1>1, <2>2, <2>3
    <3>2. /\ DOMAIN s = 1..M /\ s = [n \in 1..M |-> s[n]]
          /\ \A n \in 1..M : s[n] = IF n < i THEN e[n] ELSE IF n = i THEN ch
                                    ELSE e[n + (Len(Uppercase(ch)) - 1)]
      BY <2>3 DEF Spliced
    <3>3. \A n \in 1..M : n \in 1..L /\ n + (Len(Uppercase(ch)) - 1) \in 1..L
      BY <1>1, <2>2, <2>3
    <3> HIDE DEF s, M
    <3>4. \A n \in 1..M : s[n] \in Digits \cup {ch} /\ s[n] # Hyphen
      BY <1>2, <2>2, <3>2, <3>3
    <3>5. QED
      BY <3>1, <3>2, <3>4
  <2> HIDE DEF s, M
  <2>5. Stripped(s) = s
    BY <2>4, BareStripped
  <2>6. QED
    BY <2>1, <2>5 DEF s
<1>13. spelling \in {c, Lower(c), Bare(c), Bare(Lower(c))} \cup Ligatured(e)
  BY <1>1, <1>5 DEF Spellings
<1>14. Uppercased(Stripped(spelling)) = e
  <2>1. CASE spelling \in Ligatured(e)
    <3>1. PICK i \in 1..L : spelling \in {Spliced(ch, e, i) : ch \in {x \in Specials : StandsAt(x, e, i)}}
      BY <1>1, <2>1 DEF Ligatured
    <3>2. PICK ch \in Specials : StandsAt(ch, e, i) /\ spelling = Spliced(ch, e, i)
      BY <3>1
    <3>3. QED
      BY <1>12, <3>2
  <2>2. QED
    BY <1>11, <1>13, <2>1
<1>15. QED
  BY <1>14, SpellingRead DEF e

(* A text is a code short of its first digit.                                *)
TailOf(t, c) == DOMAIN t = 1..CodeSize - 1 /\ \A n \in 1..CodeSize - 1 : t[n] = c[n + 1]

(* A code short of its first digit is one digit less.                        *)
LEMMA TailStripped ==
  ASSUME NEW c, InGroups(c), NEW t, TailOf(t, c)
  PROVE  \E f \in [1..2 * SecretLen - 1 -> Kept(t)] :
           Stripped(t) = [n \in 1..2 * SecretLen - 1 |-> t[f[n]]]
<1> DEFINE L == 2 * SecretLen
           f == [n \in 1..L - 1 |-> n + n \div 5]
<1>1. L \in Nat \ {0} /\ L - 1 \in Nat /\ CodeSize \in Nat
  BY SecretAssumption, SizeTyped
<1>2. Kept(t) = {i \in 1..CodeSize - 1 : (i + 1) % 6 # 0} /\ DOMAIN t \subseteq Nat \ {0}
  <2>1. \A i \in 1..CodeSize - 1 : i + 1 \in 1..CodeSize
    BY <1>1
  <2>2. \A i \in 1..CodeSize - 1 : t[i] = Hyphen <=> (i + 1) % 6 = 0
    BY <2>1 DEF InGroups, TailOf
  <2>3. QED
    BY <1>1, <2>2 DEF Kept, TailOf
<1>3. \A n \in 1..L - 1 : n + n \div 5 = (n + 1) + ((n + 1) - 1) \div 5 - 1 /\ n + 1 \in 1..L
  BY <1>1
<1>4. /\ \A n \in 1..L : n + (n - 1) \div 5 \in 1..CodeSize /\ (n + (n - 1) \div 5) % 6 # 0
      /\ \A m, n \in 1..L : m < n => m + (m - 1) \div 5 < n + (n - 1) \div 5
      /\ \A i \in 1..CodeSize : i % 6 # 0 => \E n \in 1..L : n + (n - 1) \div 5 = i
  BY PlacesOfCode
<1>5. ASSUME NEW n \in 1..L - 1 PROVE n + n \div 5 \in Kept(t)
  <2> DEFINE p == (n + 1) + ((n + 1) - 1) \div 5
  <2>1. p \in 1..CodeSize /\ p % 6 # 0 /\ n + n \div 5 = p - 1
    BY <1>3, <1>4
  <2>2. p >= 2
    BY <1>1
  <2> HIDE DEF p
  <2>3. p - 1 \in 1..CodeSize - 1 /\ (p - 1) + 1 = p
    BY <1>1, <2>1, <2>2
  <2>4. QED
    BY <1>2, <2>1, <2>3
<1>6. \A m, n \in 1..L - 1 : m < n => f[m] < f[n]
  BY <1>1
<1>7. ASSUME NEW i \in Kept(t) PROVE \E n \in 1..L - 1 : f[n] = i
  <2>1. i + 1 \in 1..CodeSize /\ (i + 1) % 6 # 0 /\ i >= 1
    BY <1>1, <1>2
  <2>2. PICK k \in 1..L : k + (k - 1) \div 5 = i + 1
    BY <1>4, <2>1
  <2>3. k # 1
    BY <1>2, <2>1, <2>2
  <2>4. k - 1 \in 1..L - 1
    BY <1>1, <2>3
  <2>5. (k - 1) + (k - 1) \div 5 = i
    <3> DEFINE q == (k - 1) \div 5
    <3>1. k \in Nat /\ q \in Nat /\ i \in Nat /\ k + q = i + 1
      BY <1>1, <1>2, <2>2
    <3> HIDE DEF q
    <3>2. (k - 1) + q = i
      BY <3>1
    <3>3. QED
      BY <3>2 DEF q
  <2>6. QED
    BY <2>4, <2>5
<1>8. Enumerates(f, L - 1, Kept(t))
  <2>1. f \in [1..L - 1 -> Kept(t)]
    BY <1>5
  <2> HIDE DEF f, L
  <2>2. QED
    BY <1>1, <1>6, <1>7, <2>1 DEF Enumerates
<1> DEFINE K == L - 1
<1>9. DOMAIN t \subseteq Nat \ {0} /\ Enumerates(f, K, Kept(t))
  BY <1>2, <1>8
<1> HIDE DEF f, K
<1>10. Stripped(t) = [n \in 1..K |-> t[f[n]]] /\ f \in [1..K -> Kept(t)]
  <2>1. Stripped(t) = [n \in 1..K |-> t[f[n]]]
    BY ONLY <1>9, StrippedAt
  <2>2. QED
    BY <1>9, <2>1 DEF Enumerates
<1>11. QED
  BY <1>10 DEF K

(* A code with a digit after it has one digit more.                          *)
LEMMA AppendStripped ==
  ASSUME NEW c, InGroups(c), NEW t, DOMAIN t = 1..CodeSize + 1,
         \A n \in 1..CodeSize : t[n] = c[n], t[CodeSize + 1] # Hyphen
  PROVE  \E f \in [1..2 * SecretLen + 1 -> Kept(t)] :
           Stripped(t) = [n \in 1..2 * SecretLen + 1 |-> t[f[n]]]
<1> DEFINE L == 2 * SecretLen
           f == [n \in 1..L + 1 |-> IF n = L + 1 THEN CodeSize + 1 ELSE n + (n - 1) \div 5]
<1>1. L \in Nat /\ L + 1 \in Nat /\ CodeSize \in Nat
  BY SizeTyped
<1>2. /\ Kept(t) = {i \in 1..CodeSize : i % 6 # 0} \cup {CodeSize + 1}
      /\ DOMAIN t \subseteq Nat \ {0}
  <2>1. 1..CodeSize + 1 = 1..CodeSize \cup {CodeSize + 1}
    BY <1>1
  <2>2. \A i \in 1..CodeSize : t[i] = Hyphen <=> i % 6 = 0
    BY DEF InGroups
  <2>3. QED
    BY <1>1, <2>1, <2>2 DEF Kept
<1>3. /\ \A n \in 1..L : n + (n - 1) \div 5 \in 1..CodeSize /\ (n + (n - 1) \div 5) % 6 # 0
      /\ \A m, n \in 1..L : m < n => m + (m - 1) \div 5 < n + (n - 1) \div 5
      /\ \A i \in 1..CodeSize : i % 6 # 0 => \E n \in 1..L : n + (n - 1) \div 5 = i
  BY PlacesOfCode
<1>4. \A n \in 1..L : n \in 1..L + 1 /\ n # L + 1 /\ f[n] = n + (n - 1) \div 5
  BY <1>1
<1>5. L + 1 \in 1..L + 1 /\ f[L + 1] = CodeSize + 1 /\ \A n \in 1..L + 1 : n \in 1..L \/ n = L + 1
  BY <1>1
<1>6. f \in [1..L + 1 -> Kept(t)]
  BY <1>2, <1>3, <1>5
<1> HIDE DEF f
<1>7. ASSUME NEW m \in 1..L + 1, NEW n \in 1..L + 1, m < n PROVE f[m] < f[n]
  <2>1. m \in 1..L
    BY <1>1, <1>7
  <2>2. CASE n \in 1..L
    BY <1>3, <1>4, <1>7, <2>1, <2>2
  <2>3. CASE n = L + 1
    <3>1. f[m] \in 1..CodeSize
      BY <1>3, <1>4, <2>1
    <3>2. QED
      BY <1>1, <1>5, <2>3, <3>1
  <2>4. QED
    BY <1>5, <2>2, <2>3
<1>8. ASSUME NEW i \in Kept(t) PROVE \E n \in 1..L + 1 : f[n] = i
  <2>1. CASE i = CodeSize + 1
    BY <1>5, <2>1
  <2>2. CASE i \in 1..CodeSize /\ i % 6 # 0
    BY <1>3, <1>4, <2>2
  <2>3. QED
    BY <1>2, <2>1, <2>2
<1>9. Enumerates(f, L + 1, Kept(t))
  BY <1>1, <1>6, <1>7, <1>8 DEF Enumerates
<1> DEFINE K == L + 1
<1>10. DOMAIN t \subseteq Nat \ {0} /\ Enumerates(f, K, Kept(t))
  BY <1>2, <1>9
<1> HIDE DEF K
<1>11. Stripped(t) = [n \in 1..K |-> t[f[n]]] /\ f \in [1..K -> Kept(t)]
  <2>1. Stripped(t) = [n \in 1..K |-> t[f[n]]]
    BY ONLY <1>10, StrippedAt
  <2>2. QED
    BY <1>10, <2>1 DEF Enumerates
<1>12. QED
  BY <1>11 DEF K

(* Whatever digits are typed, another number of them than a code has is      *)
(* refused.                                                                  *)
LEMMA OtherLengthRefused ==
  ASSUME NEW K \in Nat, K # 2 * SecretLen, NEW t, \A i \in Kept(t) : t[i] \in Digits,
         \E f \in [1..K -> Kept(t)] : Stripped(t) = [n \in 1..K |-> t[f[n]]]
  PROVE  ~Answered(RecoveryKeyToSecret(t))
<1>1. PICK f \in [1..K -> Kept(t)] : Stripped(t) = [n \in 1..K |-> t[f[n]]]
  OBVIOUS
<1> DEFINE s == Stripped(t)
<1>2. s \in [1..K -> Digits]
  BY <1>1
<1> HIDE DEF s
<1>3. \A n \in 1..K : Uppercase(s[n]) = <<s[n]>>
  BY <1>2, PlainDigit
<1>4. Uppercased(s) = s
  BY <1>2, <1>3, PlainUppercased
<1>5. DOMAIN Uppercased(s) # 1..2 * SecretLen
  <2>1. 1..K # 1..2 * SecretLen
    BY SecretAssumption
  <2>2. QED
    BY <1>2, <1>4, <2>1
<1>6. QED
  BY <1>5, SpellingRefused DEF s

(* A code that was mistyped is refused.                                      *)
LEMMA MistypedRefused ==
  ASSUME NEW d \in Secrets, NEW spelling \in Mistyped(GenerateRecoveryKey(d).code)
  PROVE  ~Answered(RecoveryKeyToSecret(spelling))
<1> DEFINE c == Grouped(Encoded(d))
           L == 2 * SecretLen
<1>1. /\ GenerateRecoveryKey(d).code = c /\ InGroups(c)
      /\ c \in [1..CodeSize -> Digits \cup {Hyphen}]
      /\ L \in Nat \ {0} /\ CodeSize \in Nat \ {0}
  BY CodeInGroups, SizeTyped, SecretAssumption DEF GenerateRecoveryKey
<1> HIDE DEF c
<1>2. DOMAIN c = 1..CodeSize /\ c[1] # Hyphen
  BY <1>1 DEF InGroups
<1>3. c \in Seq(Digits \cup {Hyphen}) /\ Len(c) = CodeSize /\ c # <<>>
  BY <1>1
<1>4. CASE spelling = Tail(c)
  <2>1. DOMAIN Tail(c) = 1..CodeSize - 1 /\ \A n \in 1..CodeSize - 1 : Tail(c)[n] = c[n + 1]
    BY <1>1, <1>3
  <2>2. \E f \in [1..L - 1 -> Kept(Tail(c))] : Stripped(Tail(c)) = [n \in 1..L - 1 |-> Tail(c)[f[n]]]
    <3> DEFINE t == Tail(c)
    <3>1. TailOf(t, c)
      BY <2>1 DEF TailOf
    <3> HIDE DEF t
    <3>2. \E f \in [1..2 * SecretLen - 1 -> Kept(t)] :
            Stripped(t) = [n \in 1..2 * SecretLen - 1 |-> t[f[n]]]
      BY <1>1, <3>1, TailStripped
    <3>3. QED
      BY <3>2 DEF t
  <2>3. \A i \in Kept(Tail(c)) : Tail(c)[i] \in Digits
    <3>1. \A i \in 1..CodeSize - 1 : i + 1 \in 1..CodeSize
      BY <1>1
    <3>2. QED
      BY <1>1, <2>1, <3>1 DEF Kept
  <2>4. L - 1 \in Nat /\ L - 1 # L
    BY <1>1
  <2> HIDE DEF L
  <2>5. ~Answered(RecoveryKeyToSecret(Tail(c)))
    BY <2>2, <2>3, <2>4, OtherLengthRefused DEF L
  <2>6. QED
    BY <1>4, <2>5
<1>5. CASE spelling = Append(c, 0)
  <2>1. /\ DOMAIN Append(c, 0) = 1..CodeSize + 1 /\ \A n \in 1..CodeSize : Append(c, 0)[n] = c[n]
        /\ Append(c, 0)[CodeSize + 1] # Hyphen
    BY <1>1, <1>3 DEF Hyphen
  <2> DEFINE t == Append(c, 0)
  <2>2. t[CodeSize + 1] = 0 /\ 0 \in Digits
    BY <1>1, <1>3 DEF Digits
  <2>3. /\ DOMAIN t = 1..CodeSize + 1 /\ \A n \in 1..CodeSize : t[n] = c[n]
        /\ t[CodeSize + 1] # Hyphen
    BY <2>1
  <2> HIDE DEF t
  <2>4. \E f \in [1..2 * SecretLen + 1 -> Kept(t)] :
          Stripped(t) = [n \in 1..2 * SecretLen + 1 |-> t[f[n]]]
    BY <1>1, <2>3, AppendStripped
  <2>5. \A i \in Kept(t) : t[i] \in Digits
    <3>1. \A i \in 1..CodeSize + 1 : i \in 1..CodeSize \/ i = CodeSize + 1
      BY <1>1
    <3>2. QED
      BY <1>1, <2>2, <2>3, <3>1 DEF Kept
  <2>6. L + 1 \in Nat /\ L + 1 # L
    BY <1>1
  <2>7. ~Answered(RecoveryKeyToSecret(t))
    BY <2>4, <2>5, <2>6, OtherLengthRefused
  <2>8. QED
    BY <1>5, <2>7 DEF t
<1>6. CASE spelling = [c EXCEPT ![1] = Foreign]
  <2>1. 1 \in 1..CodeSize /\ 1 \in 1..L /\ 1 + (1 - 1) \div 5 = 1
    BY <1>1
  <2>2. DOMAIN spelling = 1..CodeSize /\ spelling[1] = Foreign
        /\ \A n \in 1..CodeSize : n # 1 => spelling[n] = c[n]
    BY <1>2, <1>6, <2>1
  <2>3. InGroups(spelling)
    BY <1>1, <1>2, <2>2, PlainForeign DEF InGroups
  <2>4. Stripped(spelling) = [n \in 1..L |-> DigitOf(spelling, n)]
    BY <2>3, GroupsStripped
  <2>5. DigitOf(spelling, 1) = Foreign /\ \A n \in 1..L : DigitOf(spelling, n) \in Digits \cup {Foreign}
    <3>1. DigitOf(spelling, 1) = Foreign
      BY <2>1, <2>2 DEF DigitOf
    <3>2. ASSUME NEW n \in 1..L PROVE DigitOf(spelling, n) \in Digits \cup {Foreign}
      <4>1. n + (n - 1) \div 5 \in 1..CodeSize /\ (n + (n - 1) \div 5) % 6 # 0
        BY PlacesOfCode
      <4>2. \A p \in 1..CodeSize : p % 6 # 0 => spelling[p] \in Digits \cup {Foreign}
        BY <1>1, <2>2 DEF InGroups
      <4>3. QED
        BY <4>1, <4>2 DEF DigitOf
    <3>3. QED
      BY <3>1, <3>2
  <2> DEFINE s == Stripped(spelling)
  <2>6. s \in [1..L -> Digits \cup {Foreign}] /\ s[1] = Foreign
    BY <2>1, <2>4, <2>5
  <2> HIDE DEF s
  <2>7. \A n \in 1..L : Uppercase(s[n]) = <<s[n]>>
    BY <2>6, PlainDigit, PlainForeign
  <2>8. Uppercased(s) = s
    BY <1>1, <2>6, <2>7, PlainUppercased
  <2>9. Uppercased(s)[1] \notin Digits
    BY <2>1, <2>6, <2>8, PlainForeign
  <2>10. Uppercased(s) \notin [1..L -> Digits]
    BY <2>1, <2>9
  <2>11. QED
    BY <2>10, SpellingRefused DEF s
<1>7. CASE spelling = <<>>
  <2>1. spelling \in [1..0 -> {}] /\ \A n \in 1..0 : spelling[n] # Hyphen
    BY <1>7
  <2>2. Stripped(spelling) = spelling
    BY <2>1, BareStripped
  <2>3. \A n \in 1..0 : Uppercase(spelling[n]) = <<spelling[n]>>
    OBVIOUS
  <2>4. Uppercased(spelling) = spelling
    BY <2>1, <2>3, PlainUppercased
  <2>5. 1..L # 1..0
    BY <1>1
  <2>6. QED
    BY <2>1, <2>2, <2>4, <2>5, SpellingRefused
<1>8. QED
  BY <1>1, <1>4, <1>5, <1>6, <1>7 DEF Mistyped

LEMMA CodesTyped == Codes \subseteq Seq(Digits \cup {Hyphen})
<1> SUFFICES ASSUME NEW d \in Drawn PROVE GenerateRecoveryKey(d).code \in Seq(Digits \cup {Hyphen})
  BY DEF Codes
<1>1. d \in Secrets
  BY AccountAssumption
<1>2. Grouped(Encoded(d)) \in [1..CodeSize -> Digits \cup {Hyphen}] /\ CodeSize \in Nat
  BY <1>1, CodeInGroups, SizeTyped
<1>3. QED
  BY <1>2 DEF GenerateRecoveryKey

-----------------------------------------------------------------------------
(* Wrapping and unwrapping *)

Wrapped(p, s) == [key |-> [password |-> p, salt |-> s], plain |-> PrivateKey]

LEMMA WrapAnswers ==
  ASSUME NEW p \in Passwords, NEW s \in Salts
  PROVE  /\ WrapWithPassword(PrivateKey, p, s)
              = Ok([keyHash |-> KeyHash(s), wrapped |-> Wrapped(p, s)])
         /\ Wrapped(p, s) \in [key : SessionKeys, plain : {PrivateKey}]
<1> DEFINE key == [password |-> p, salt |-> s]
<1>1. key \in SessionKeys
  BY DEF SessionKeys
<1>2. s # NotBase64 /\ s # Odd /\ key # NotBase64 /\ key # Odd
  BY <1>1, AccountAssumption
<1>3. DeriveSessionKey(p, s) = Ok(key)
  BY <1>2 DEF DeriveSessionKey
<1>4. EncryptSecretbox(PrivateKey, key) = Ok(Wrapped(p, s))
  BY <1>2 DEF EncryptSecretbox, Box, Wrapped
<1>5. Wrapped(p, s) \in [key : SessionKeys, plain : {PrivateKey}]
  BY <1>1 DEF Wrapped
<1> HIDE DEF key
<1>6. QED
  BY <1>3, <1>4, <1>5 DEF WrapWithPassword, Answered, Ok

(* The secret handed out with a code is the one that was drawn.             *)
Backup(d) == [key |-> d, plain |-> PrivateKey]

LEMMA BackupAnswers ==
  ASSUME NEW d \in Drawn
  PROVE  /\ WrapForRecovery(PrivateKey, d) = Ok([code |-> GenerateRecoveryKey(d).code, backup |-> Backup(d)])
         /\ Backup(d) \in [key : Secrets, plain : {PrivateKey}]
<1>1. d \in Secrets /\ d # NotBase64 /\ d # Odd
  BY AccountAssumption
<1>2. GenerateRecoveryKey(d).secret = Ok(d)
  <2>1. GenerateRecoveryKey(d).code \in Spellings(GenerateRecoveryKey(d).code)
    BY DEF Spellings
  <2>2. RecoveryKeyToSecret(GenerateRecoveryKey(d).code) = Ok(d)
    BY <1>1, <2>1, CodeRead
  <2>3. QED
    BY <2>2 DEF GenerateRecoveryKey
<1>3. EncryptSecretbox(PrivateKey, d) = Ok(Backup(d))
  BY <1>1 DEF EncryptSecretbox, Box, Backup
<1>4. Backup(d) \in [key : Secrets, plain : {PrivateKey}]
  BY <1>1 DEF Backup
<1>5. QED
  BY <1>2, <1>3, <1>4 DEF WrapForRecovery, Answered, Ok

(* Every box of an account holds the private key.                            *)
LEMMA UnboxedKey ==
  ASSUME NEW box \in Boxes, NEW key, Answered(DecryptSecretbox(box, key))
  PROVE  DecryptSecretbox(box, key) = Ok(PrivateKey)
<1>1. box.plain = PrivateKey
  BY DEF Boxes
<1>2. QED
  BY <1>1 DEF DecryptSecretbox, Answered, Err, Ok

LEMMA ColumnBoxes ==
  ASSUME NEW seen \in Columns
  PROVE  seen.wrapped \in Boxes /\ seen.backup \in Boxes
BY DEF Columns, Boxes

LEMMA UnwrappedKey ==
  ASSUME NEW t \in Tasks, Answered(Unwrapped(t))
  PROVE  Unwrapped(t) = Ok(PrivateKey)
<1>1. t.seen.wrapped \in Boxes /\ t.seen.backup \in Boxes
  BY ColumnBoxes DEF Tasks
<1>2. CASE t.change = "recover"
  BY <1>1, <1>2, UnboxedKey DEF Unwrapped, UnwrapWithCode
<1>3. CASE t.change # "recover"
  BY <1>1, <1>3, UnboxedKey DEF Unwrapped, UnwrapWithPassword
<1>4. QED
  BY <1>2, <1>3

(* What a closure can give.                                                  *)
PasswordColumns(t, s) == <<[keyHash |-> KeyHash(s), wrapped |-> Wrapped(t.new, s)]>>
CodeColumns(d) == <<[code |-> GenerateRecoveryKey(d).code, backup |-> Backup(d)]>>

LEMMA GivenColumns ==
  ASSUME NEW t \in Tasks, Answered(Unwrapped(t))
  PROVE  /\ \A s \in Salts : Rewrapped(t, s) = PasswordColumns(t, s)
         /\ \A d \in Drawn : NewBackup(t, d) = CodeColumns(d)
<1>1. Unwrapped(t).val[1] = PrivateKey /\ t.new \in Passwords
  BY UnwrappedKey DEF Ok, Tasks
<1>2. ASSUME NEW s \in Salts PROVE Rewrapped(t, s) = PasswordColumns(t, s)
  BY <1>1, WrapAnswers DEF Rewrapped, Ok, PasswordColumns
<1>3. ASSUME NEW d \in Drawn PROVE NewBackup(t, d) = CodeColumns(d)
  BY <1>1, BackupAnswers DEF NewBackup, Ok, CodeColumns
<1>4. QED
  BY <1>2, <1>3

-----------------------------------------------------------------------------
(* The inductive invariant *)

(* A call ended with its own closure's result, or with a panic; columns for  *)
(* a new password are wrapped with a salt that has been drawn, and a new     *)
(* code goes with the backup under the bytes it was made of.                 *)
OutcomeRight(t, o, drawn) ==
  \/ \E p \in {NoRandomness, NotSpawned} : o = Panic(p)
  \/ \E v \in Results(t) :
       /\ o = Value(v)
       /\ v # <<>> /\ t.change # "code" => \E s \in drawn : v = PasswordColumns(t, s)
       /\ v # <<>> /\ t.change = "code" => \E d \in Drawn : v = CodeColumns(d)

(* The current key hash and wrapped key are the current password's, and the  *)
(* backup is under the very bytes that the current code is made of.          *)
ColumnsOf(s, d) ==
  /\ code = GenerateRecoveryKey(d).code
  /\ stored = [keyHash |-> KeyHash(s), wrapped |-> Wrapped(password, s), backup |-> Backup(d)]

CurrentColumns == \E s \in salts, d \in Drawn : ColumnsOf(s, d)

AccountInv ==
  /\ phase \in [Callers -> Phases]
  /\ task = [c \in Callers |-> task[c]] /\ outcome = [c \in Callers |-> outcome[c]]
  /\ password \in Passwords /\ salts \subseteq Salts
  /\ CurrentColumns
  /\ \A c \in Callers : phase[c] # "idle" => task[c] \in Tasks
  /\ \A c \in Callers :
       phase[c] \in {"exited", "returned", "unwound"} => OutcomeRight(task[c], outcome[c], salts)
  /\ \A c \in Callers : phase[c] = "returned" => outcome[c].how = "value"
  /\ \A c \in Callers : phase[c] = "unwound" => outcome[c].how = "panic"

LEMMA AccountInvInit == Init => AccountInv
<1> SUFFICES ASSUME Init PROVE AccountInv
  OBVIOUS
<1>1. PICK a \in Setups :
        LET w == WrapWithPassword(PrivateKey, a.password, a.salt)
            r == WrapForRecovery(PrivateKey, a.drawn)
        IN  /\ Answered(w) /\ Answered(r)
            /\ password = a.password /\ salts = {a.salt}
            /\ code = r.val[1].code
            /\ stored = [keyHash |-> w.val[1].keyHash, wrapped |-> w.val[1].wrapped,
                         backup |-> r.val[1].backup]
  BY DEF Init
<1>2. a.password \in Passwords /\ a.salt \in Salts /\ a.drawn \in Drawn
  BY AccountAssumption
<1>3. WrapWithPassword(PrivateKey, a.password, a.salt)
        = Ok([keyHash |-> KeyHash(a.salt), wrapped |-> Wrapped(a.password, a.salt)])
  BY <1>2, WrapAnswers
<1>4. WrapForRecovery(PrivateKey, a.drawn)
        = Ok([code |-> GenerateRecoveryKey(a.drawn).code, backup |-> Backup(a.drawn)])
  BY <1>2, BackupAnswers
<1>5. code = GenerateRecoveryKey(a.drawn).code
  BY <1>1, <1>4 DEF Ok
<1>6. stored = [keyHash |-> KeyHash(a.salt), wrapped |-> Wrapped(password, a.salt),
                backup |-> Backup(a.drawn)]
  BY <1>1, <1>3, <1>4 DEF Ok
<1>7. QED
  BY <1>1, <1>2, <1>5, <1>6 DEF Init, StackInit, AccountInv, CurrentColumns, ColumnsOf, Phases

LEMMA StoredTyped == ASSUME AccountInv PROVE stored \in Columns /\ code \in Codes
<1>1. PICK s \in salts, d \in Drawn : ColumnsOf(s, d)
  BY DEF AccountInv, CurrentColumns
<1>2. s \in Salts /\ password \in Passwords
  BY DEF AccountInv
<1>3. Wrapped(password, s) \in [key : SessionKeys, plain : {PrivateKey}]
  BY <1>2, WrapAnswers
<1>4. Backup(d) \in [key : Secrets, plain : {PrivateKey}]
  BY BackupAnswers
<1>5. QED
  BY <1>1, <1>2, <1>3, <1>4 DEF ColumnsOf, Columns, Codes

(* The closures that devices start.                                          *)
LEMMA StartedTask ==
  ASSUME AccountInv, NEW c \in Callers, Start(c)
  PROVE  \E t \in Tasks : OnSigningStack(c, t)
<1>1. /\ password \in Passwords /\ password \in Passwords \cup Codes /\ code \in Passwords \cup Codes
      /\ stored \in Columns
  BY StoredTyped DEF AccountInv
<1>2. ASSUME NEW change \in Changes, NEW typed \in Passwords \cup Codes, NEW new \in Passwords
      PROVE  Task(change, typed, new) \in Tasks
  BY <1>1 DEF Task, Tasks
<1>3. {"password", "code", "recover"} \subseteq Changes
  BY DEF Changes
<1>4. QED
  BY <1>1, <1>2, <1>3 DEF Start

LEMMA MoreSalts ==
  ASSUME NEW t, NEW o, NEW drawn, NEW more, OutcomeRight(t, o, drawn), drawn \subseteq more
  PROVE  OutcomeRight(t, o, more)
BY DEF OutcomeRight

LEMMA RunGives ==
  ASSUME AccountInv, NEW c \in Callers, Run(c)
  PROVE  /\ phase[c] = "running" /\ UNCHANGED <<stored, password, code>>
         /\ salts \subseteq salts' /\ salts' \subseteq Salts
         /\ \E o : Work(c, o) /\ OutcomeRight(task[c], o, salts')
<1>1. phase[c] = "running" /\ task[c] \in Tasks /\ salts \subseteq Salts
      /\ UNCHANGED <<stored, password, code>>
  BY DEF Run, AccountInv
<1>2. CASE Work(c, Panic(NoRandomness)) /\ UNCHANGED salts
  BY <1>1, <1>2 DEF OutcomeRight
<1>3. CASE ~Answered(Unwrapped(task[c])) /\ Work(c, Value(<<>>)) /\ UNCHANGED salts
  <2>1. <<>> \in Results(task[c])
    BY <1>3 DEF Results
  <2>2. OutcomeRight(task[c], Value(<<>>), salts')
    BY <2>1 DEF OutcomeRight
  <2>3. QED
    BY <1>1, <1>3, <2>2
<1>4. ASSUME Answered(Unwrapped(task[c])), task[c].change = "code", UNCHANGED salts,
             NEW d \in Drawn, Work(c, Value(NewBackup(task[c], d)))
      PROVE  OutcomeRight(task[c], Value(NewBackup(task[c], d)), salts')
  <2>1. NewBackup(task[c], d) \in Results(task[c])
    BY <1>4 DEF Results
  <2>2. NewBackup(task[c], d) = CodeColumns(d)
    BY <1>1, <1>4, GivenColumns
  <2>3. QED
    BY <1>4, <2>1, <2>2 DEF OutcomeRight
<1>5. ASSUME Answered(Unwrapped(task[c])), task[c].change # "code",
             NEW s \in Salts \ salts, Work(c, Value(Rewrapped(task[c], s))), salts' = salts \cup {s}
      PROVE  OutcomeRight(task[c], Value(Rewrapped(task[c], s)), salts')
  <2>1. Rewrapped(task[c], s) \in Results(task[c])
    BY <1>5 DEF Results
  <2>2. Rewrapped(task[c], s) = PasswordColumns(task[c], s) /\ s \in salts'
    BY <1>1, <1>5, GivenColumns
  <2>3. QED
    BY <1>5, <2>1, <2>2 DEF OutcomeRight
<1>6. QED
  BY <1>1, <1>2, <1>3, <1>4, <1>5 DEF Run, FreshSalts

LEMMA ColumnsKept ==
  ASSUME CurrentColumns, UNCHANGED <<stored, password, code>>, salts \subseteq salts'
  PROVE  CurrentColumns'
BY DEF CurrentColumns, ColumnsOf

LEMMA AccountInvInductive == AccountInv /\ [Next]_vars => AccountInv'
<1> SUFFICES ASSUME AccountInv, [Next]_vars PROVE AccountInv'
  OBVIOUS
<1> USE DEF AccountInv
<1>1. ASSUME NEW c \in Callers, Start(c) PROVE AccountInv'
  <2>1. PICK t \in Tasks : OnSigningStack(c, t)
    BY <1>1, StartedTask
  <2>2. UNCHANGED <<stored, password, code, salts>>
    BY <1>1 DEF Start
  <2>3. QED
    BY <2>1, <2>2, ColumnsKept DEF OnSigningStack, Phases
<1>2. ASSUME NEW c \in Callers, Spawn(c), UNCHANGED <<stored, password, code, salts>> PROVE AccountInv'
  BY <1>2, ColumnsKept DEF Spawn, Phases
<1>3. ASSUME NEW c \in Callers, SpawnRefused(c), UNCHANGED <<stored, password, code, salts>>
      PROVE  AccountInv'
  <2>1. OutcomeRight(task[c], Panic(NotSpawned), salts) /\ Panic(NotSpawned).how = "panic"
    BY DEF OutcomeRight, Panic
  <2>2. QED
    BY <1>3, <2>1, ColumnsKept DEF SpawnRefused, Phases
<1>4. ASSUME NEW c \in Callers, Join(c), UNCHANGED <<stored, password, code, salts>> PROVE AccountInv'
  <2>1. outcome[c].how \in {"value", "panic"}
    BY <1>4 DEF OutcomeRight, Panic, Value, Join
  <2>2. QED
    BY <1>4, <2>1, ColumnsKept DEF Join, Phases
<1>5. ASSUME NEW c \in Callers, Run(c) PROVE AccountInv'
  <2>1. PICK o : Work(c, o) /\ OutcomeRight(task[c], o, salts')
    BY <1>5, RunGives
  <2>2. /\ phase[c] = "running" /\ UNCHANGED <<stored, password, code>>
        /\ salts \subseteq salts' /\ salts' \subseteq Salts
    BY <1>5, RunGives
  <2>3. \A d \in Callers : phase[d] \in {"exited", "returned", "unwound"} =>
          OutcomeRight(task[d], outcome[d], salts')
    BY <2>2, MoreSalts
  <2>4. QED
    BY <2>1, <2>2, <2>3, ColumnsKept DEF Work, Phases
<1>6. ASSUME NEW c \in Callers, Store(c) PROVE AccountInv'
  <2> DEFINE t == task[c]
             new == outcome[c].out[1]
  <2>1. t \in Tasks /\ outcome[c].how = "value" /\ outcome[c].out # <<>>
        /\ OutcomeRight(t, outcome[c], salts)
    BY <1>6 DEF Store
  <2>2. PICK s \in salts, d \in Drawn : ColumnsOf(s, d)
    BY DEF CurrentColumns
  <2>3. CASE t.change = "code"
    <3>1. PICK n \in Drawn : outcome[c].out = CodeColumns(n)
      BY <2>1, <2>3 DEF OutcomeRight, Panic, Value
    <3>2. new.code = GenerateRecoveryKey(n).code /\ new.backup = Backup(n)
      BY <3>1 DEF CodeColumns
    <3>3. /\ stored' = [keyHash |-> KeyHash(s), wrapped |-> Wrapped(password, s), backup |-> Backup(n)]
          /\ code' = GenerateRecoveryKey(n).code /\ UNCHANGED <<password, salts>>
      BY <1>6, <2>2, <2>3, <3>2 DEF Store, ColumnsOf
    <3>4. ColumnsOf(s, n)'
      BY <3>3 DEF ColumnsOf
    <3>5. CurrentColumns'
      BY <3>3, <3>4 DEF CurrentColumns
    <3>6. QED
      BY <1>6, <3>3, <3>5, ZenonT(60) DEF Store, Resume, Phases
  <2>4. CASE t.change # "code"
    <3>1. PICK r \in salts : outcome[c].out = PasswordColumns(t, r)
      BY <2>1, <2>4 DEF OutcomeRight, Panic, Value
    <3>2. new.keyHash = KeyHash(r) /\ new.wrapped = Wrapped(t.new, r)
      BY <3>1 DEF PasswordColumns
    <3>3. /\ stored' = [keyHash |-> KeyHash(r), wrapped |-> Wrapped(t.new, r), backup |-> Backup(d)]
          /\ password' = t.new /\ t.new \in Passwords /\ UNCHANGED <<code, salts>>
      BY <1>6, <2>1, <2>2, <2>4, <3>2, ZenonT(60) DEF Store, Tasks, ColumnsOf
    <3>4. ColumnsOf(r, d)'
      BY <2>2, <3>3 DEF ColumnsOf
    <3>5. CurrentColumns'
      BY <3>3, <3>4 DEF CurrentColumns
    <3>6. QED
      BY <1>6, <3>3, <3>5, ZenonT(60) DEF Store, Resume, Phases
  <2>5. QED
    BY <2>3, <2>4
<1>7. ASSUME NEW c \in Callers, GiveUp(c) PROVE AccountInv'
  BY <1>7, ColumnsKept DEF GiveUp, Resume, Phases
<1>8. CASE UNCHANGED vars
  BY <1>8, ColumnsKept DEF vars, stackVars
<1>9. QED
  BY <1>1, <1>2, <1>3, <1>4, <1>5, <1>6, <1>7, <1>8 DEF Next, OnStack

LEMMA AccountInvAlways == Spec => []AccountInv
<1>1. QED
  BY AccountInvInit, AccountInvInductive, PTL DEF Spec

-----------------------------------------------------------------------------
(* Invariants *)

(* The stored columns are boxes under a session key and a recovery secret,   *)
(* with the salt of the key hash among those drawn.                          *)
THEOREM AccountTypesAlways == Spec => []TypeOK
<1>1. AccountInv => TypeOK
  <2> SUFFICES ASSUME AccountInv PROVE TypeOK
    OBVIOUS
  <2>1. PICK s \in salts, d \in Drawn : ColumnsOf(s, d)
    BY DEF AccountInv, CurrentColumns
  <2>2. s \in Salts /\ password \in Passwords /\ salts \subseteq Salts
    BY DEF AccountInv
  <2>3. Wrapped(password, s) \in [key : SessionKeys, plain : {PrivateKey}]
    BY <2>2, WrapAnswers
  <2>4. stored.keyHash \in {KeyHash(r) : r \in salts} /\ stored.wrapped.key \in SessionKeys
        /\ stored.backup.key \in Secrets
    BY <2>1, <2>3, BackupAnswers DEF ColumnsOf
  <2>5. code \in Seq(Digits \cup {Hyphen})
    BY CodesTyped, StoredTyped
  <2>6. QED
    BY <2>2, <2>4, <2>5 DEF AccountInv, TypeOK
<1>2. QED
  BY <1>1, AccountInvAlways, PTL

(* The digits of a byte give the byte, the pairs of digits that agree in the *)
(* overlap are exactly those that some byte has, and the code a user holds   *)
(* is all of the bytes that were drawn.                                      *)
THEOREM CodesAlwaysRoundTrip == Spec => []CodesRoundTrip
<1>1. BytesRoundTrip
  BY ByteRoundTrip, DecodedByte, DigitsRoundTrip DEF BytesRoundTrip
<1>2. ASSUME NEW d \in Drawn, NEW n \in 1..SecretLen, code = GenerateRecoveryKey(d).code
      PROVE  DecodePair(DigitOf(code, 2 * n - 1), DigitOf(code, 2 * n)) = d[n]
  <2>1. d \in Secrets /\ d[n] \in Bytes /\ code = Grouped(Encoded(d))
    BY <1>2, AccountAssumption DEF Secrets, GenerateRecoveryKey
  <2>2. 2 * n - 1 \in 1..2 * SecretLen /\ 2 * n \in 1..2 * SecretLen
    BY SecretAssumption
  <2>3. /\ (2 * n - 1 + 1) \div 2 = n /\ (2 * n - 1) % 2 = 1
        /\ (2 * n + 1) \div 2 = n /\ (2 * n) % 2 # 1
    BY SecretAssumption
  <2>4. Encoded(d)[2 * n - 1] = EncodeByte(d[n])[1] /\ Encoded(d)[2 * n] = EncodeByte(d[n])[2]
    BY <2>2, <2>3 DEF Encoded
  <2>5. QED
    BY <2>1, <2>2, <2>4, CodeInGroups, ByteRoundTrip
<1>3. AccountInv => CodesRoundTrip
  <2> SUFFICES ASSUME AccountInv PROVE CodesRoundTrip
    OBVIOUS
  <2>1. PICK d \in Drawn : code = GenerateRecoveryKey(d).code
    BY DEF AccountInv, CurrentColumns, ColumnsOf
  <2>2. QED
    BY <1>1, <1>2, <2>1 DEF CodesRoundTrip
<1>4. QED
  BY <1>3, AccountInvAlways, PTL

LEMMA KeyHashApart == ASSUME NEW r, NEW s PROVE KeyHash(r) = KeyHash(s) <=> r = s
BY DEF KeyHash

LEMMA SessionKeyAnswers ==
  ASSUME NEW p \in Passwords, NEW h \in KeyHashes
  PROVE  \/ ~Answered(SessionKeyOf(h, p)) /\ \A s \in Salts : h # KeyHash(s)
         \/ \E s \in Salts : /\ h = KeyHash(s)
                             /\ SessionKeyOf(h, p) = Ok([password |-> p, salt |-> s])
<1>1. CASE \E s \in Salts : h = <<s>>
  <2>1. PICK s \in Salts : h = <<s>>
    BY <1>1
  <2>2. ~Answered(SessionKeyOf(h, p))
    BY <2>1 DEF SessionKeyOf, ParseSalt, Answered, Err
  <2>3. \A r \in Salts : h # KeyHash(r)
    BY <2>1 DEF KeyHash
  <2>4. QED
    BY <2>2, <2>3
<1>2. CASE \E s \in Salts \cup {NotBase64, Odd} : h = KeyHash(s)
  <2>1. PICK s \in Salts \cup {NotBase64, Odd} : h = KeyHash(s)
    BY <1>2
  <2>2. ParseSalt(h) = Ok(s)
    BY <2>1 DEF ParseSalt, KeyHash
  <2>3. SessionKeyOf(h, p) = DeriveSessionKey(p, s)
    BY <2>2 DEF SessionKeyOf, Answered, Ok
  <2>4. CASE s \in Salts
    <3>1. s # NotBase64 /\ s # Odd
      BY <2>4, AccountAssumption
    <3>2. QED
      BY <2>1, <2>3, <2>4, <3>1 DEF DeriveSessionKey
  <2>5. CASE s \in {NotBase64, Odd}
    <3>1. ~Answered(SessionKeyOf(h, p))
      BY <2>3, <2>5 DEF DeriveSessionKey, Answered, Err
    <3>2. \A r \in Salts : h # KeyHash(r)
      BY <2>1, <2>5, AccountAssumption, KeyHashApart
    <3>3. QED
      BY <3>1, <3>2
  <2>6. QED
    BY <2>1, <2>4, <2>5
<1>3. QED
  BY <1>1, <1>2 DEF KeyHashes

(* The user's password opens the private key with the stored key hash, and   *)
(* nothing else does.                                                        *)
THEOREM PasswordAlwaysOpens == Spec => []PasswordOpens
<1>1. ASSUME AccountInv, NEW p \in Passwords, NEW h \in KeyHashes
      PROVE  LET private == UnwrapWithPassword(h, stored.wrapped, p)
             IN  IF p = password /\ h = stored.keyHash THEN private = Ok(PrivateKey)
                 ELSE ~Answered(private)
  <2> DEFINE private == UnwrapWithPassword(h, stored.wrapped, p)
  <2>1. PICK s \in salts : stored.keyHash = KeyHash(s) /\ stored.wrapped = Wrapped(password, s)
    BY <1>1 DEF AccountInv, CurrentColumns, ColumnsOf
  <2>2. s \in Salts /\ password \in Passwords
    BY <1>1 DEF AccountInv
  <2>3. Wrapped(password, s) # NotBase64 /\ Wrapped(password, s) # Odd
    BY <2>2, WrapAnswers, AccountAssumption, ZenonT(60) DEF Boxes
  <2>4. CASE ~Answered(SessionKeyOf(h, p)) /\ \A r \in Salts : h # KeyHash(r)
    <3>1. ~Answered(private) /\ h # stored.keyHash
      BY <2>1, <2>2, <2>4 DEF UnwrapWithPassword
    <3>2. QED
      BY <3>1
  <2>5. ASSUME NEW r \in Salts, h = KeyHash(r), SessionKeyOf(h, p) = Ok([password |-> p, salt |-> r])
        PROVE  IF p = password /\ h = stored.keyHash THEN private = Ok(PrivateKey)
               ELSE ~Answered(private)
    <3> DEFINE key == [password |-> p, salt |-> r]
    <3>1. private = DecryptSecretbox(Wrapped(password, s), key)
      BY <2>1, <2>5 DEF UnwrapWithPassword, Answered, Ok
    <3>2. key # NotBase64 /\ key # Odd
      BY AccountAssumption DEF SessionKeys
    <3>3. Wrapped(password, s).key = key <=> p = password /\ r = s
      BY DEF Wrapped
    <3>4. h = stored.keyHash <=> r = s
      BY <2>1, <2>5, KeyHashApart
    <3>5. Wrapped(password, s).plain = PrivateKey
      BY DEF Wrapped
    <3> HIDE DEF key, private
    <3>6. QED
      BY <2>3, <3>1, <3>2, <3>3, <3>4, <3>5 DEF DecryptSecretbox, Answered, Ok, Err
  <2>6. QED
    BY <2>4, <2>5, SessionKeyAnswers
<1>2. AccountInv => PasswordOpens
  BY <1>1 DEF PasswordOpens
<1>3. QED
  BY <1>2, AccountInvAlways, PTL

(* The user's code opens the backup however it is spelled, with ligatures    *)
(* and sharp s included; the code of other bytes does not, and one of another *)
(* length or with a character that has no place in a code is not even read.  *)
THEOREM CodeAlwaysOpens == Spec => []CodeOpens
<1>1. ASSUME NEW c \in Codes
      PROVE  \E e \in Drawn : c = GenerateRecoveryKey(e).code /\ RecoveryKeyToSecret(c) = Ok(e)
  <2>1. PICK e \in Drawn : c = GenerateRecoveryKey(e).code
    BY DEF Codes
  <2>2. c \in Spellings(GenerateRecoveryKey(e).code)
    BY <2>1 DEF Spellings
  <2>3. QED
    BY <2>1, <2>2, CodeRead, AccountAssumption
<1>2. SpellingsRead
  <2>1. ASSUME NEW c \in Codes, NEW spelling \in Spellings(c)
        PROVE  RecoveryKeyToSecret(spelling) = RecoveryKeyToSecret(c)
    <3>1. PICK e \in Drawn : c = GenerateRecoveryKey(e).code /\ RecoveryKeyToSecret(c) = Ok(e)
      BY <1>1
    <3>2. QED
      BY <3>1, CodeRead, AccountAssumption
  <2>2. ASSUME NEW c \in Codes, NEW spelling \in Mistyped(c)
        PROVE  ~Answered(RecoveryKeyToSecret(spelling))
    <3>1. PICK e \in Drawn : c = GenerateRecoveryKey(e).code
      BY DEF Codes
    <3>2. QED
      BY <3>1, MistypedRefused, AccountAssumption
  <2>3. QED
    BY <2>1, <2>2 DEF SpellingsRead
<1>3. ASSUME AccountInv, NEW c \in Codes
      PROVE  LET private == UnwrapWithCode(stored.backup, c)
             IN  IF c = code THEN private = Ok(PrivateKey) ELSE ~Answered(private)
  <2> DEFINE private == UnwrapWithCode(stored.backup, c)
  <2>1. PICK s \in salts, d \in Drawn : ColumnsOf(s, d)
    BY <1>3 DEF AccountInv, CurrentColumns
  <2>2. PICK e \in Drawn : c = GenerateRecoveryKey(e).code /\ RecoveryKeyToSecret(c) = Ok(e)
    BY <1>1
  <2>3. private = DecryptSecretbox(Backup(d), e)
    BY <2>1, <2>2 DEF UnwrapWithCode, Answered, Ok, ColumnsOf
  <2>4. Backup(d) # NotBase64 /\ Backup(d) # Odd /\ e # NotBase64 /\ e # Odd
    BY BackupAnswers, AccountAssumption DEF Boxes
  <2>5. Backup(d).key = d /\ Backup(d).plain = PrivateKey
    BY DEF Backup
  <2>6. c = code <=> e = d
    <3>1. e = d => c = code
      BY <2>1, <2>2 DEF ColumnsOf
    <3>2. ASSUME c = code PROVE e = d
      <4>1. c \in Spellings(GenerateRecoveryKey(d).code)
        BY <2>1, <3>2 DEF ColumnsOf, Spellings
      <4>2. RecoveryKeyToSecret(c) = Ok(d)
        BY <4>1, CodeRead, AccountAssumption
      <4>3. QED
        BY <2>2, <4>2 DEF Ok
    <3>3. QED
      BY <3>1, <3>2
  <2> HIDE DEF private
  <2>7. QED
    BY <2>3, <2>4, <2>5, <2>6 DEF DecryptSecretbox, Answered, Ok, Err, private
<1>4. AccountInv => CodeOpens
  BY <1>2, <1>3 DEF CodeOpens
<1>5. QED
  BY <1>4, AccountInvAlways, PTL

-----------------------------------------------------------------------------
(* The refinement *)

(* To its caller, a closure run by on_signing_stack ran inline.              *)
THEOREM StackImplementsInline == Spec => ImplementsInline
<1> DEFINE call == [c \in Callers |-> Seen(c)]
<1>1. Init => IC!ICInit
  BY SMTT(30) DEF Init, StackInit, Seen, IC!ICInit, IC!Idle
<1>2. ASSUME AccountInv, [Next]_vars PROVE [IC!ICNext]_call
  <2>1. ASSUME NEW c \in Callers,
               \A d \in Callers : d # c => phase'[d] = phase[d] /\ task'[d] = task[d] /\ outcome'[d] = outcome[d]
        PROVE  call' = [call EXCEPT ![c] = Seen(c)']
    BY <2>1 DEF Seen, Ended
  <2>2. ASSUME NEW c \in Callers, Start(c) PROVE IC!ICNext
    <3>1. PICK t \in Tasks : OnSigningStack(c, t)
      BY <1>2, <2>2, StartedTask
    <3>2. Seen(c) = IC!Idle /\ Seen(c)' = [at |-> "running", task |-> t]
      BY <1>2, <3>1 DEF OnSigningStack, Seen, Ended, IC!Idle, AccountInv
    <3>3. call' = [call EXCEPT ![c] = Seen(c)']
      BY <1>2, <2>1, <3>1 DEF OnSigningStack, AccountInv
    <3>4. call[c] = IC!Idle /\ call'[c] = [at |-> "running", task |-> t]
      BY <3>2, <3>3
    <3>5. call' = [call EXCEPT ![c] = call'[c]]
      BY <3>2, <3>3, <3>4
    <3> HIDE DEF call
    <3>6. IC!Begin(c)
      BY <3>4, <3>5 DEF IC!Begin, call
    <3>7. QED
      BY <3>6 DEF IC!ICNext
  <2>3. ASSUME NEW c \in Callers, Spawn(c) PROVE UNCHANGED call
    BY <1>2, <2>3 DEF Spawn, Seen, Ended, AccountInv
  <2>4. ASSUME NEW c \in Callers, SpawnRefused(c) PROVE IC!ICNext
    <3>1. Seen(c) = [at |-> "running", task |-> task[c]]
      BY <2>4 DEF SpawnRefused, Seen, Ended
    <3>2. Seen(c)' = [at |-> "panic", task |-> task[c], out |-> NotSpawned]
      BY <1>2, <2>4 DEF SpawnRefused, Seen, Ended, Panic, AccountInv
    <3>3. call' = [call EXCEPT ![c] = Seen(c)']
      BY <1>2, <2>1, <2>4 DEF SpawnRefused, AccountInv
    <3>4. call[c].at = "running" /\ call[c].task = task[c]
      BY <3>1
    <3>5. call' = [call EXCEPT ![c] = [at |-> "panic", task |-> call[c].task, out |-> NotSpawned]]
      BY <3>2, <3>3, <3>4
    <3>6. IC!Unwind(c)
      BY <3>4, <3>5 DEF IC!Unwind, IC!Running
    <3>7. QED
      BY <3>6 DEF IC!ICNext
  <2>5. ASSUME NEW c \in Callers, Run(c) PROVE UNCHANGED call
    BY <1>2, <2>5, RunGives DEF Work, Seen, Ended, AccountInv
  <2>6. ASSUME NEW c \in Callers, Join(c) PROVE IC!ICNext
    <3>1. Seen(c) = [at |-> "running", task |-> task[c]] /\ OutcomeRight(task[c], outcome[c], salts)
      BY <1>2, <2>6 DEF Join, Seen, Ended, AccountInv
    <3>2. Seen(c)' = [at |-> outcome[c].how, task |-> task[c], out |-> outcome[c].out]
      BY <1>2, <2>6 DEF Join, Seen, Ended, AccountInv
    <3>3. call' = [call EXCEPT ![c] = Seen(c)']
      BY <1>2, <2>1, <2>6 DEF Join, AccountInv
    <3>4. call[c].at = "running" /\ call[c].task = task[c]
      BY <3>1
    <3>5. CASE \E p \in {NoRandomness, NotSpawned} : outcome[c] = Panic(p)
      <4>1. PICK p \in {NoRandomness, NotSpawned} : outcome[c] = Panic(p)
        BY <3>5
      <4>2. call' = [call EXCEPT ![c] = [at |-> "panic", task |-> call[c].task, out |-> p]]
        <5>1. outcome[c].how = "panic" /\ outcome[c].out = p
          BY <4>1 DEF Panic
        <5>2. Seen(c)' = [at |-> "panic", task |-> call[c].task, out |-> p]
          BY <3>2, <3>4, <5>1
        <5> HIDE DEF call
        <5>3. QED
          BY <3>3, <5>2
      <4>3. IC!Unwind(c)
        BY <3>4, <4>1, <4>2 DEF IC!Unwind, IC!Running
      <4>4. QED
        BY <4>3 DEF IC!ICNext
    <3>6. CASE \E v \in Results(task[c]) : outcome[c] = Value(v)
      <4>1. PICK v \in Results(task[c]) : outcome[c] = Value(v)
        BY <3>6
      <4>2. call' = [call EXCEPT ![c] = [at |-> "value", task |-> call[c].task, out |-> v]]
        <5>1. outcome[c].how = "value" /\ outcome[c].out = v
          BY <4>1 DEF Value
        <5>2. Seen(c)' = [at |-> "value", task |-> call[c].task, out |-> v]
          BY <3>2, <3>4, <5>1
        <5> HIDE DEF call
        <5>3. QED
          BY <3>3, <5>2
      <4>3. v \in Results(call[c].task)
        BY <3>4, <4>1
      <4>4. call'[c].at = "value"
        BY <4>2
      <4>5. IC!Return(c)
        BY <3>4, <4>2, <4>3, <4>4 DEF IC!Return, IC!Running
      <4>6. QED
        BY <4>5 DEF IC!ICNext
    <3>7. QED
      BY <3>1, <3>5, <3>6 DEF OutcomeRight
  <2>7. ASSUME NEW c \in Callers, Resume(c) PROVE IC!ICNext
    <3>1. Seen(c) = [at |-> outcome[c].how, task |-> task[c], out |-> outcome[c].out]
          /\ outcome[c].how \in {"value", "panic"}
      BY <1>2, <2>7 DEF Resume, Seen, Ended, AccountInv
    <3>2. Seen(c)' = IC!Idle
      BY <1>2, <2>7 DEF Resume, Seen, Ended, IC!Idle, AccountInv
    <3>3. call' = [call EXCEPT ![c] = Seen(c)']
      BY <1>2, <2>1, <2>7 DEF Resume, AccountInv
    <3>4. IC!Take(c)
      BY <3>1, <3>2, <3>3 DEF IC!Take, IC!Running, IC!Idle
    <3>5. QED
      BY <3>4 DEF IC!ICNext
  <2>8. CASE UNCHANGED vars
    BY <2>8 DEF vars, stackVars, Seen, Ended
  <2>9. QED
    BY <1>2, <2>2, <2>3, <2>4, <2>5, <2>6, <2>7, <2>8 DEF Next, OnStack, Store, GiveUp
<1>3. QED
  BY <1>1, <1>2, AccountInvAlways, PTL DEF Spec, ImplementsInline, IC!ICSpec
=============================================================================
