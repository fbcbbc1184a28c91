------------------------------ MODULE Account -------------------------------
(* An account as an application keeps it with KeyVault: a key hash, the      *)
(* private key wrapped under the password's session key, and a backup of it  *)
(* under a recovery code.  Devices read the account, compute a change in a   *)
(* closure they hand to on_signing_stack, and store the columns it gives.    *)
(* Devices interleave; a closure panics when the OS has no randomness.       *)
EXTENDS KeyVault, SigningStack

CONSTANTS
  PrivateKey,
  Drawn,               \* bound: the 32 random bytes that recovery codes are made of
  Setups               \* bound: passwords, salts and bytes that accounts start with

NoRandomness == "OS CSPRNG unavailable"

(* The private key under a session key or a recovery secret.                 *)
Boxes == [key : SessionKeys, plain : {PrivateKey}] \cup [key : Secrets, plain : {PrivateKey}]

ASSUME AccountAssumption ==
  /\ Drawn \subseteq Secrets
  /\ Setups \subseteq [password : Passwords, salt : Salts, drawn : Drawn]
  /\ \A text \in {NotBase64, Odd} :
       text \notin Salts /\ text \notin SessionKeys /\ text \notin Secrets /\ text \notin Boxes

VARIABLES
  stored,              \* the account's columns
  password, code,      \* what the user knows since the last change
  salts                \* salts drawn so far

vars == <<stackVars, stored, password, code, salts>>

(* The closures: what the device read, and what its user typed.              *)
Changes == {"password", "code", "recover"}

Task(change, typed, new) == [change |-> change, seen |-> stored, typed |-> typed, new |-> new]

Init ==
  /\ StackInit
  /\ \E a \in Setups :
       LET w == WrapWithPassword(PrivateKey, a.password, a.salt)
           r == WrapForRecovery(PrivateKey, a.drawn)
       IN  /\ Answered(w) /\ Answered(r)
           /\ password = a.password /\ salts = {a.salt}
           /\ code = r.val[1].code
           /\ stored = [keyHash |-> w.val[1].keyHash, wrapped |-> w.val[1].wrapped,
                        backup |-> r.val[1].backup]

(* The private key a closure works with.                                     *)
Unwrapped(t) ==
  IF t.change = "recover" THEN UnwrapWithCode(t.seen.backup, t.typed)
  ELSE UnwrapWithPassword(t.seen.keyHash, t.seen.wrapped, t.typed)

(* The columns a closure gives: those of a new password with a salt it       *)
(* draws, or a new code and its backup.                                      *)
Rewrapped(t, s) == WrapWithPassword(Unwrapped(t).val[1], t.new, s).val
NewBackup(t, d) == WrapForRecovery(Unwrapped(t).val[1], d).val

(* What users do: another password, a mistyped one, a new code, a recovery.  *)
Start(c) ==
  /\ \/ \E new \in Passwords \ {password} : OnSigningStack(c, Task("password", password, new))
     \/ \E wrong \in Passwords \ {password} : OnSigningStack(c, Task("password", wrong, wrong))
     \/ OnSigningStack(c, Task("code", password, password))
     \/ \E new \in Passwords : OnSigningStack(c, Task("recover", code, new))
  /\ UNCHANGED <<stored, password, code, salts>>

(* A salt is never drawn twice.                                              *)
FreshSalts == Salts \ salts

(* The worker runs the closure, which needs randomness unless it fails       *)
(* before.                                                                   *)
Run(c) ==
  LET t == task[c]
      opened == Answered(Unwrapped(t))
  IN  /\ phase[c] = "running"
      /\ \/ opened /\ Work(c, Panic(NoRandomness)) /\ UNCHANGED salts
         \/ ~opened /\ Work(c, Value(<<>>)) /\ UNCHANGED salts
         \/ /\ opened /\ t.change = "code"
            /\ \E d \in Drawn : Work(c, Value(NewBackup(t, d)))
            /\ UNCHANGED salts
         \/ /\ opened /\ t.change # "code"
            /\ \E s \in FreshSalts : Work(c, Value(Rewrapped(t, s))) /\ salts' = salts \cup {s}
      /\ UNCHANGED <<stored, password, code>>

(* The device stores what came back, one statement for the columns it has.   *)
Store(c) ==
  /\ phase[c] = "returned" /\ outcome[c].out # <<>>
  /\ LET new == outcome[c].out[1]
     IN  IF task[c].change = "code"
         THEN /\ stored' = [stored EXCEPT !.backup = new.backup]
              /\ code' = new.code
              /\ UNCHANGED password
         ELSE /\ stored' = [stored EXCEPT !.keyHash = new.keyHash, !.wrapped = new.wrapped]
              /\ password' = task[c].new
              /\ UNCHANGED code
  /\ Resume(c)
  /\ UNCHANGED salts

(* The call failed or panicked: the account stays as it is.                  *)
GiveUp(c) ==
  /\ phase[c] = "unwound" \/ (phase[c] = "returned" /\ outcome[c].out = <<>>)
  /\ Resume(c)
  /\ UNCHANGED <<stored, password, code, salts>>

OnStack(c) == Spawn(c) \/ SpawnRefused(c) \/ Join(c)

Next ==
  \E c \in Callers :
    \/ Start(c) \/ Run(c) \/ Store(c) \/ GiveUp(c)
    \/ OnStack(c) /\ UNCHANGED <<stored, password, code, salts>>

(* The operating system runs threads, and a closure ends, whatever with.     *)
Exit(c) == phase[c] = "running" /\ phase' = [phase EXCEPT ![c] = "exited"]

Fairness ==
  \A c \in Callers :
    /\ WF_vars(OnStack(c) /\ UNCHANGED <<stored, password, code, salts>>)
    /\ WF_phase(Exit(c))

Spec == Init /\ [][Next]_vars /\ Fairness

(******************************** Properties ********************************)

TypeOK ==
  /\ phase \in [Callers -> Phases]
  /\ password \in Passwords /\ salts \subseteq Salts
  /\ stored.keyHash \in {KeyHash(s) : s \in salts}
  /\ stored.wrapped.key \in SessionKeys /\ stored.backup.key \in Secrets
  /\ code \in Seq(Digits \cup {Hyphen})

(* Whatever passwords were changed, codes replaced and accounts recovered,   *)
(* by whichever devices at once: the password the user knows, with the salt  *)
(* in the stored key hash, opens the private key.  No other password does,   *)
(* nor the key hash of another time, nor a malformed one.                    *)
KeyHashes == {KeyHash(s) : s \in Salts \cup {NotBase64, Odd}} \cup {<<s>> : s \in Salts}

PasswordOpens ==
  \A p \in Passwords, h \in KeyHashes :
    LET private == UnwrapWithPassword(h, stored.wrapped, p)
    IN  IF p = password /\ h = stored.keyHash THEN private = Ok(PrivateKey) ELSE ~Answered(private)

(* Where the digits of a code are.                                           *)
DigitOf(c, n) == c[n + (n - 1) \div 5]

(* A recovery code as its user may type or paste it: small letters, no       *)
(* hyphens, a special character for the digits that are its upper case.      *)
Lower(c) == [n \in DOMAIN c |-> IF c[n] \in Digits THEN Small(c[n]) ELSE c[n]]
Bare(c)  == [n \in 1..2 * SecretLen |-> DigitOf(c, n)]

StandsAt(ch, b, i) ==
  \A m \in DOMAIN Uppercase(ch) : i + m - 1 \in DOMAIN b /\ b[i + m - 1] = Uppercase(ch)[m]
Spliced(ch, b, i) ==
  LET more == Len(Uppercase(ch)) - 1
  IN  [n \in 1..Len(b) - more |-> IF n < i THEN b[n] ELSE IF n = i THEN ch ELSE b[n + more]]
Ligatured(b) ==
  UNION {{Spliced(ch, b, i) : ch \in {x \in Specials : StandsAt(x, b, i)}} : i \in DOMAIN b}

Spellings(c) == {c, Lower(c), Bare(c), Bare(Lower(c))} \cup Ligatured(Bare(c))
Mistyped(c)  == {Tail(c), Append(c, 0), [c EXCEPT ![1] = Foreign], <<>>}

Codes == {GenerateRecoveryKey(d).code : d \in Drawn}

(* However a code is spelled it is read alike: in small letters, without     *)
(* hyphens, with a ligature or a sharp s for two of its letters, which makes *)
(* it shorter.  One with a digit too many or too few, or with a character    *)
(* whose upper case leaves the alphabet, is not read.                        *)
SpellingsRead ==
  \A c \in Codes :
    /\ \A spelling \in Spellings(c) : RecoveryKeyToSecret(spelling) = RecoveryKeyToSecret(c)
    /\ \A spelling \in Mistyped(c) : ~Answered(RecoveryKeyToSecret(spelling))

(* The code the user holds recovers the private key however it is spelled,   *)
(* before and after any password change; a replaced code does not, nor a     *)
(* mistyped one.                                                             *)
CodeOpens ==
  /\ SpellingsRead
  /\ \A c \in Codes :
       LET private == UnwrapWithCode(stored.backup, c)
       IN  IF c = code THEN private = Ok(PrivateKey) ELSE ~Answered(private)

(* The two overlapping digits of a byte give that byte back; other pairs of  *)
(* digits give a byte too, and of the pairs that agree in the overlap each   *)
(* is some byte's.                                                           *)
BytesRoundTrip ==
  /\ \A b \in Bytes : DecodePair(EncodeByte(b)[1], EncodeByte(b)[2]) = b
  /\ \A i, j \in Digits :
       /\ DecodePair(i, j) \in Bytes
       /\ EncodeByte(DecodePair(i, j)) = <<i, j>> <=> i \div 8 = j % 4

(* The code the user holds, read between its hyphens and pair by pair, still *)
(* is all of the random bytes it was made of, and would be for any bytes.    *)
CodesRoundTrip ==
  /\ BytesRoundTrip
  /\ \E d \in Drawn : \A n \in 1..SecretLen :
       DecodePair(DigitOf(code, 2 * n - 1), DigitOf(code, 2 * n)) = d[n]

(* To its caller a call looks as if the closure had run inline: it ends with *)
(* a value of this very closure, or with its panic, or the refused spawn's.  *)
Columns == [keyHash : {KeyHash(s) : s \in Salts}, wrapped : [key : SessionKeys, plain : {PrivateKey}],
            backup : [key : Secrets, plain : {PrivateKey}]]
Tasks == [change : Changes, seen : Columns, new : Passwords,
          typed : Passwords \cup Codes]
Results(t) ==
  IF ~Answered(Unwrapped(t)) THEN {<<>>}
  ELSE IF t.change = "code" THEN {NewBackup(t, d) : d \in Drawn}
  ELSE {Rewrapped(t, s) : s \in Salts}

IC == INSTANCE InlineCall WITH
        Values <- Results, Panics <- {NoRandomness, NotSpawned},
        call <- [c \in Callers |-> Seen(c)]
ImplementsInline == IC!ICSpec

(* A call that is made returns or unwinds, a refused spawn included.         *)
CallsReturn == \A c \in Callers : phase[c] = "calling" ~> Ended(c)
=============================================================================
