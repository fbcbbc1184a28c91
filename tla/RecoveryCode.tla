---------------------------- MODULE RecoveryCode ----------------------------
(* recovery.rs: a 32-byte secret written as 64 base-32 digits in groups of   *)
(* five.  A character is 0..31 for a digit of the alphabet, 100 + d for the  *)
(* small letter of digit d, or one of those below.                           *)
EXTENDS Integers, Sequences, FiniteSets

CONSTANT SecretLen     \* 32: bytes of a secret

ASSUME SecretAssumption == SecretLen \in Nat \ {0}

Digits  == 0..31
Bytes   == 0..255
Secrets == [1..SecretLen -> Bytes]

Letters == 0..23       \* digits 24..31 are written 2..9 and have no case
Small(d) == IF d \in Letters THEN 100 + d ELSE d
Hyphen  == 200
Foreign == 201         \* I, O, 0, 1 and whatever else has no place in a code

(* The upper case of a character is Unicode's: long s (U+017F), sharp s      *)
(* (U+00DF) and the ligatures ff (U+FB00), fl (U+FB02), ffl (U+FB04) and st  *)
(* (U+FB05, U+FB06) become letters of the alphabet, up to three of them, as  *)
(* no other character outside ASCII does.                                    *)
InCapitals == LET F == 5  L == 10  S == 16  T == 17
              IN  << <<S>>, <<S, S>>, <<F, F>>, <<F, L>>, <<F, F, L>>, <<S, T>> >>
Specials   == {Foreign + i : i \in DOMAIN InCapitals}

Ok(x)  == [res |-> "Ok", val |-> <<x>>]
Err(e) == [res |-> e, val |-> <<>>]
Answered(r) == r.val # <<>>

(* Faulty variant: both digits from the low end, as if they did not overlap. *)
EncodeByteShift5(b) == <<b % 32, (b \div 32) % 32>>

(* The two digits of a byte: its low and its high five bits, which overlap.  *)
EncodeByte(b) == <<b % 32, (b \div 8) % 32>>

(* The overlap: bits 3 and 4, "or" of the high bits of one digit and the low *)
(* bits of the other.                                                        *)
Or2(a, b) == (IF a % 2 = 1 \/ b % 2 = 1 THEN 1 ELSE 0) + (IF a > 1 \/ b > 1 THEN 2 ELSE 0)

(* i | (j << 3)                                                              *)
DecodePair(i, j) == (i % 8) + 8 * (Or2(i \div 8, j % 4) + 4 * (j \div 4))

(* The digits of a secret, two for each byte.                                *)
Encoded(secret) ==
  [n \in 1..2 * SecretLen |-> EncodeByte(secret[(n + 1) \div 2])[IF n % 2 = 1 THEN 1 ELSE 2]]

(* Groups of five joined by hyphens.                                         *)
Grouped(digits) ==
  [n \in 1..Len(digits) + (Len(digits) - 1) \div 5 |->
     IF n % 6 = 0 THEN Hyphen ELSE digits[n - n \div 6]]

(* The n-th of a set of places.                                              *)
Nth(places, n) == CHOOSE i \in places : Cardinality(places \cap 1..i) = n

(* replace('-', ""): the characters that are no hyphens, in their order.     *)
Stripped(spelling) ==
  LET kept == {i \in DOMAIN spelling : spelling[i] # Hyphen}
  IN  [n \in 1..Cardinality(kept) |-> spelling[Nth(kept, n)]]

(* Faulty variant: letters are looked up as they are.                        *)
UppercaseNone(ch) == <<ch>>

(* to_uppercase of one character; a foreign one stands for any whose upper   *)
(* case is not all of the alphabet.                                          *)
Uppercase(ch) ==
  CASE ch - 100 \in Letters -> <<ch - 100>>
    [] ch \in Specials -> InCapitals[ch - Foreign]
    [] OTHER -> <<ch>>

(* to_uppercase of a text: place j is part (j - 1) % 3 of what character     *)
(* (j + 2) \div 3 becomes.                                                   *)
Uppercased(text) ==
  LET Capitals(j) == Uppercase(text[(j + 2) \div 3])
      used == {j \in 1..3 * Len(text) : (j - 1) % 3 < Len(Capitals(j))}
  IN  [n \in 1..Cardinality(used) |->
         Capitals(Nth(used, n))[1 + ((Nth(used, n) - 1) % 3)]]

(* recovery_key_to_secret: another length, counted in upper case, and a      *)
(* character that is no digit are the same error.                            *)
RecoveryKeyToSecret(spelling) ==
  LET digits == Uppercased(Stripped(spelling))
  IN  IF digits \notin [1..2 * SecretLen -> Digits] THEN Err("InvalidRecoveryKey")
      ELSE Ok([n \in 1..SecretLen |-> DecodePair(digits[2 * n - 1], digits[2 * n])])

(* generate_recovery_key: the secret handed out is the one decoded from the  *)
(* code, not the one drawn.                                                  *)
GenerateRecoveryKey(drawn) ==
  [code |-> Grouped(Encoded(drawn)), secret |-> RecoveryKeyToSecret(Grouped(Encoded(drawn)))]
=============================================================================
