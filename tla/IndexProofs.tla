---------------------------- MODULE IndexProofs -----------------------------
(***************************************************************************)
(* Theorems about IndexDerivation for every group, every ideal hash, every *)
(* set of inputs and keys and any number of replies, repeated and garbled. *)
(***************************************************************************)
EXTENDS IndexDerivation, PrfLemmas, SequenceLemmas

-----------------------------------------------------------------------------
(* The inductive invariant *)

(* What a lookup keeps was blinded for its own question, which has an index.*)
OpenRight(o) ==
  /\ o = [q |-> o.q, state |-> o.state] /\ o.q \in Questions
  /\ o.q.suite # "Poprf" => o.state = <<>>
  /\ o.q.suite = "Poprf" =>
       /\ o.q.info \in Infos
       /\ TweakedSecret(o.q.key, o.q.info) # Zero /\ HashToGroup(o.q.input) # Id
       /\ \E b \in RandomScalars :
            o.state = <<BlindState(o.q.input, o.q.info, PublicKey(o.q.key), b)>>

IndexInv ==
  /\ keys \subseteq RandomScalars
  /\ asked = [l \in Lookups |-> asked[l]]
  /\ \A l \in Lookups : asked[l] # NoQuestion => OpenRight(asked[l])
  /\ wire \subseteq Replies
  /\ \A m \in wire : TrueStatement(m.c)
  /\ found = [l \in Lookups |-> found[l]]
  /\ \A l \in Lookups :
       found[l] # <<>> => asked[l] # NoQuestion /\ found[l] = IndexOf(asked[l].q)
  /\ garbled \in 0..MaxGarbled

-----------------------------------------------------------------------------
(* What the calls answer *)

LEMMA BlindAnswers ==
  ASSUME NEW sk \in RandomScalars, NEW input \in Strings, NEW info \in Strings,
         NEW b \in RandomScalars
  PROVE  LET r == BlindWithScalar(input, info, PublicKey(sk), b)
         IN  /\ Answered(r) <=> TweakedSecret(sk, info) # Zero /\ HashToGroup(input) # Id
             /\ Answered(r) => r = Ok(BlindState(input, info, PublicKey(sk), b))
<1>1. PublicKey(sk) \in PrimePoint \ {Id} /\ PublicKey(sk) # Misfit /\ b # Misfit /\ b \in Scalar
  BY PublicKeyElement, PrimePoints, HashAssumption DEF RandomScalars
<1>2. TweakedKey(info, PublicKey(sk)) = Id <=> TweakedSecret(sk, info) = Zero
  BY TweaksAgree DEF RandomScalars
<1>3. QED
  BY <1>1, <1>2 DEF BlindWithScalar, Answered, Ok, Err, IsElement, IsScalar

LEMMA EvaluateAnswers ==
  ASSUME NEW sk \in RandomScalars, NEW input \in Strings, NEW info \in Strings
  PROVE  Answered(Evaluate(sk, input, info))
           <=> TweakedSecret(sk, info) # Zero /\ HashToGroup(input) # Id
<1>1. sk \in Scalar /\ sk # Misfit
  BY HashAssumption DEF RandomScalars
<1>2. QED
  BY <1>1 DEF Evaluate, Answered, Ok, Err, IsScalar

LEMMA QuestionParts ==
  ASSUME NEW q \in Questions
  PROVE  /\ q.suite \in Suites /\ (q.suite # "Poprf" => q.suite \in VrfSuites)
         /\ q.key \in RandomScalars /\ q.input \in Inputs /\ q.input \in Strings
BY IndexAssumption DEF Questions, Suites

LEMMA OpenIsTyped ==
  ASSUME NEW o, OpenRight(o)
  PROVE  o \in Opens /\ (o.q.suite = "Poprf" <=> o.state # <<>>)
<1>1. CASE o.q.suite # "Poprf"
  BY <1>1 DEF OpenRight, Opens
<1>2. CASE o.q.suite = "Poprf"
  <2>1. PICK b \in RandomScalars :
          o.state = <<BlindState(o.q.input, o.q.info, PublicKey(o.q.key), b)>>
    BY <1>2 DEF OpenRight
  <2>2. o.q.key \in RandomScalars /\ o.q.input \in Strings /\ o.q.info \in Strings
    BY <1>2, QuestionParts, IndexAssumption DEF OpenRight
  <2>3. BlindState(o.q.input, o.q.info, PublicKey(o.q.key), b) \in BlindStates
    <3>1. HashToGroup(o.q.input) \in PrimePoint /\ b \in Scalar /\ o.q.key \in Scalar
      BY <2>2, HashAssumption DEF RandomScalars
    <3>2. Act(b, HashToGroup(o.q.input)) \in PrimePoint
      BY <3>1, PrimePoints
    <3>3. TweakedKey(o.q.info, PublicKey(o.q.key)) \in PrimePoint
      BY <2>2, <3>1, TweaksAgree
    <3>4. QED
      BY <3>2, <3>3 DEF BlindState, BlindStates
  <2>4. QED
    BY <1>2, <2>1, <2>3 DEF OpenRight, Opens
<1>3. QED
  BY <1>1, <1>2

(* What finalize or verify accepts for a lookup is its question's index.     *)
LEMMA CheckedIsIndex ==
  ASSUME NEW o, OpenRight(o), NEW m \in Replies, TrueStatement(m.c), Answered(Checked(o, m))
  PROVE  Checked(o, m).val = IndexOf(o.q)
<1>1. o.q \in Questions /\ o.q.key \in RandomScalars /\ o.q.input \in Strings
  BY QuestionParts DEF OpenRight
<1>2. CASE o.q.suite = "Poprf"
  <2>1. PICK b \in RandomScalars :
          o.state = <<BlindState(o.q.input, o.q.info, PublicKey(o.q.key), b)>>
    BY <1>2 DEF OpenRight
  <2>2. o.q.info \in Strings
    BY <1>2, IndexAssumption DEF OpenRight
  <2>3. TweakedSecret(o.q.key, o.q.info) # Zero /\ HashToGroup(o.q.input) # Id
    BY <1>2 DEF OpenRight
  <2>4. Checked(o, m) = Finalize(o.q.input, b, m.point, Act(b, HashToGroup(o.q.input)),
                          [c |-> m.c, s |-> m.s], o.q.info, TweakedKey(o.q.info, PublicKey(o.q.key)))
    BY <1>2, <2>1 DEF Checked, BlindState
  <2>5. Checked(o, m) = Evaluate(o.q.key, o.q.input, o.q.info)
    BY <1>1, <2>2, <2>3, <2>4, PoprfIsSound DEF TrueStatement
  <2>6. QED
    BY <1>2, <2>5 DEF IndexOf, VrfOutput
<1>3. CASE o.q.suite # "Poprf"
  <2> DEFINE hs == HashToCurve(o.q.suite, PublicKey(o.q.key), o.q.input)
  <2>1. o.q.suite \in VrfSuites
    BY <1>1, <1>3, QuestionParts
  <2>2. Checked(o, m) = Verify(o.q.suite, PublicKey(o.q.key), o.q.input,
                               [gamma |-> m.point, c |-> m.c, s |-> m.s])
    BY <1>3 DEF Checked
  <2>3. hs # <<>> /\ Checked(o, m) = Ok(GammaToHash(o.q.suite, Act(o.q.key, hs[1])))
    BY <1>1, <2>1, <2>2, VrfIsSound DEF TrueStatement
  <2>4. IndexOf(o.q) = IF hs = <<>> THEN <<>> ELSE <<GammaToHash(o.q.suite, Act(o.q.key, hs[1]))>>
    BY <1>3 DEF IndexOf, VrfOutput
  <2>5. Ok(GammaToHash(o.q.suite, Act(o.q.key, hs[1]))).val
          = <<GammaToHash(o.q.suite, Act(o.q.key, hs[1]))>>
    BY DEF Ok
  <2> HIDE DEF hs
  <2>6. QED
    BY <2>3, <2>4, <2>5
<1>4. QED
  BY <1>2, <1>3

-----------------------------------------------------------------------------
(* The invariant is inductive *)

LEMMA IndexInvInit == Init => IndexInv
BY IndexAssumption DEF Init, IndexInv

(* The server's replies state truths, whichever request, key and info they   *)
(* are made for.                                                             *)
LEMMA EvaluationIsTrue ==
  ASSUME IndexInv, NEW l \in Lookups, NEW sk \in keys, NEW info \in Infos, NEW r \in Nonces,
         Blinded(l), Answered(BlindEvaluate(sk, asked[l].state[1].blinded, info, r))
  PROVE  LET e == BlindEvaluate(sk, asked[l].state[1].blinded, info, r).val[1]
             m == Reply("Poprf", e.evaluated, e.proof.c, e.proof.s)
         IN  m \in Replies /\ TrueStatement(m.c)
<1> DEFINE q == asked[l].q
<1>1. OpenRight(asked[l]) /\ asked[l].state # <<>>
  BY DEF IndexInv, Blinded
<1>2. q \in Questions /\ q.suite = "Poprf" /\ q.input \in Strings /\ HashToGroup(q.input) # Id
  BY <1>1, QuestionParts DEF OpenRight
<1>3. PICK b \in RandomScalars : asked[l].state = <<BlindState(q.input, q.info, PublicKey(q.key), b)>>
  BY <1>1, <1>2 DEF OpenRight
<1>4. asked[l].state[1].blinded = Act(b, HashToGroup(q.input))
  BY <1>3 DEF BlindState
<1>5. sk \in RandomScalars /\ info \in Strings /\ r \in RandomScalars /\ sk \in Scalar
  BY IndexAssumption DEF IndexInv, RandomScalars
<1>6. TweakedSecret(sk, info) # Zero
  BY DEF BlindEvaluate, Answered, Err
<1> HIDE DEF q
<1>7. PICK ev \in PrimePoint, c \in Transcripts, s \in Scalar :
        /\ Serves(sk, Act(b, HashToGroup(q.input)), info, r, ev, c, s)
        /\ TrueStatement(c)
  BY <1>2, <1>5, <1>6, PoprfCompletes
<1>8. BlindEvaluate(sk, asked[l].state[1].blinded, info, r).val[1]
        = [evaluated |-> ev, proof |-> [c |-> c, s |-> s]]
  BY <1>4, <1>7 DEF Serves, Ok
<1>9. Reply("Poprf", ev, c, s) \in Replies /\ TrueStatement(Reply("Poprf", ev, c, s).c)
  BY <1>7, PrimePoints DEF Reply, Replies, Suites, Challenges
<1>10. QED
  BY <1>8, <1>9

LEMMA ProofIsTrue ==
  ASSUME NEW suite \in VrfSuites, NEW sk \in RandomScalars, NEW x \in Strings,
         Answered(Prove(suite, sk, x))
  PROVE  LET p == Prove(suite, sk, x).val[1]
             m == Reply(suite, p.gamma, p.c, p.s)
         IN  m \in Replies /\ TrueStatement(m.c)
<1> DEFINE p == Prove(suite, sk, x).val[1]
<1>1. /\ p.gamma \in PrimePoint /\ p.c \in Transcripts /\ p.s \in Scalar
      /\ \E k \in Scalar : p.c[1] = Act(k, Base) /\ p.c[3] = Act(k, p.c[2])
  BY VrfCompletes
<1> HIDE DEF p
<1>2. QED
  BY <1>1, PrimePoints DEF Reply, Replies, Suites, Challenges, TrueStatement, p

(* Garbling cannot make a false statement look true.                         *)
LEMMA GarbledIsTrue ==
  ASSUME NEW m \in Replies, TrueStatement(m.c), NEW g \in Garblings(m)
  PROVE  g \in Replies /\ TrueStatement(g.c)
<1>1. CASE \E p \in GarbledPoints : g = [m EXCEPT !.point = p]
  BY <1>1, IndexAssumption DEF Replies, TrueStatement
<1>2. CASE \E s \in GarbledScalars : g = [m EXCEPT !.s = s]
  BY <1>2, IndexAssumption DEF Replies, TrueStatement
<1>3. CASE g = [m EXCEPT !.c = <<>>, !.s = Zero]
  BY <1>3, ScalarLaws DEF Replies, TrueStatement, Challenges
<1>4. QED
  BY <1>1, <1>2, <1>3 DEF Garblings

(* What poprf_blind keeps is right.                                          *)
LEMMA AskedBlindedRight ==
  ASSUME NEW sk \in RandomScalars, NEW x \in Inputs, NEW i \in Infos, NEW b \in RandomScalars,
         Answered(BlindWithScalar(x, i, PublicKey(sk), b))
  PROVE  OpenRight(Open("Poprf", sk, x, i, BlindWithScalar(x, i, PublicKey(sk), b).val))
<1>1. x \in Strings /\ i \in Strings
  BY IndexAssumption
<1>2. /\ TweakedSecret(sk, i) # Zero /\ HashToGroup(x) # Id
      /\ BlindWithScalar(x, i, PublicKey(sk), b).val = <<BlindState(x, i, PublicKey(sk), b)>>
  BY <1>1, BlindAnswers DEF Ok
<1>3. QED
  BY <1>2 DEF Open, OpenRight, Questions, Suites

LEMMA IndexInvInductive == IndexInv /\ [Next]_vars => IndexInv'
<1> SUFFICES ASSUME IndexInv, [Next]_vars PROVE IndexInv'
  OBVIOUS
<1> USE DEF IndexInv
<1>1. ASSUME NEW sk \in Secrets, GenerateKey(sk) PROVE IndexInv'
  BY <1>1, IndexAssumption DEF GenerateKey
<1>2. ASSUME NEW seed \in Seeds, NEW i \in Infos, DeriveKey(seed, i) PROVE IndexInv'
  BY <1>2, IndexAssumption, DerivedKey DEF DeriveKey
<1>3. ASSUME NEW l \in Lookups, NEW sk \in keys, NEW x \in Inputs, NEW i \in Infos, NEW b \in Blinds,
             AskBlinded(l, sk, x, i, b)
      PROVE  IndexInv'
  <2>1. OpenRight(asked'[l])
    BY <1>3, AskedBlindedRight, PublicKeyGiven, IndexAssumption DEF AskBlinded
  <2>2. QED
    BY <1>3, <2>1 DEF AskBlinded
<1>4. ASSUME NEW l \in Lookups, NEW suite \in VrfSuites, NEW sk \in keys, NEW x \in Inputs,
             AskPlain(l, suite, sk, x)
      PROVE  IndexInv'
  <2>1. OpenRight(asked'[l])
    BY <1>4, SMTT(30) DEF AskPlain, Open, OpenRight, Questions, Suites, VrfSuites
  <2>2. QED
    BY <1>4, <2>1 DEF AskPlain
<1>5. ASSUME NEW l \in Lookups, NEW sk \in keys, NEW i \in Infos, NEW r \in Nonces,
             EvaluateBlinded(l, sk, i, r)
      PROVE  IndexInv'
  BY <1>5, EvaluationIsTrue, ZenonT(60) DEF EvaluateBlinded
<1>6. ASSUME NEW suite \in VrfSuites, NEW sk \in keys, NEW x \in Inputs, ProveIndex(suite, sk, x)
      PROVE  IndexInv'
  BY <1>6, ProofIsTrue, IndexAssumption DEF ProveIndex
<1>7. ASSUME NEW m \in wire, Garble(m) PROVE IndexInv'
  <2>1. PICK g \in Garblings(m) : wire' = (wire \ {m}) \cup {g}
    BY <1>7 DEF Garble
  <2>2. g \in Replies /\ TrueStatement(g.c)
    BY GarbledIsTrue
  <2>3. garbled' \in 0..MaxGarbled
    BY <1>7, IndexAssumption DEF Garble
  <2>4. QED
    BY <1>7, <2>1, <2>2, <2>3 DEF Garble
<1>8. ASSUME NEW l \in Lookups, NEW m \in wire, Complete(l, m) PROVE IndexInv'
  <2>1. Checked(asked[l], m).val = IndexOf(asked[l].q)
    BY <1>8, CheckedIsIndex DEF Complete
  <2>2. QED
    BY <1>8, <2>1 DEF Complete
<1>9. CASE UNCHANGED vars
  BY <1>9 DEF vars
<1>10. QED
  BY <1>1, <1>2, <1>3, <1>4, <1>5, <1>6, <1>7, <1>8, <1>9 DEF Next

LEMMA IndexInvAlways == Spec => []IndexInv
<1>1. QED
  BY IndexInvInit, IndexInvInductive, PTL DEF Spec

-----------------------------------------------------------------------------
(* Invariants *)

(* The states of a directory and its clients are of the types declared: the  *)
(* keys are usable, what a client keeps is a blind state, replies decode.    *)
THEOREM IndexTypesAlways == Spec => []TypeOK
<1>1. IndexInv => TypeOK
  <2> SUFFICES ASSUME IndexInv PROVE TypeOK
    OBVIOUS
  <2>1. \A l \in Lookups : asked[l] # NoQuestion =>
          asked[l] \in Opens /\ (asked[l].q.suite = "Poprf" <=> asked[l].state # <<>>)
    BY OpenIsTyped DEF IndexInv
  <2>2. QED
    BY <2>1 DEF IndexInv, TypeOK
<1>2. QED
  BY <1>1, IndexInvAlways, PTL

(* poprf_blind refuses exactly the questions that poprf_evaluate refuses,    *)
(* and poprf_blind_evaluate serves every request that was blinded for it.    *)
THEOREM RefuseAlikeAlways == Spec => []RefuseAlike
<1>1. IndexInv => RefuseAlike
  <2> SUFFICES ASSUME IndexInv, NEW sk \in keys, NEW x \in Inputs, NEW i \in Infos,
                      NEW b \in Blinds, NEW r \in Nonces
               PROVE  LET blinded == BlindWithScalar(x, i, PublicKey(sk), b)
                      IN  /\ Answered(blinded) <=> Answered(Evaluate(sk, x, i))
                          /\ Answered(blinded) =>
                               Answered(BlindEvaluate(sk, blinded.val[1].blinded, i, r))
    BY DEF RefuseAlike
  <2>1. sk \in RandomScalars /\ x \in Strings /\ i \in Strings /\ b \in RandomScalars
        /\ r \in RandomScalars
    BY IndexAssumption DEF IndexInv
  <2> DEFINE blinded == BlindWithScalar(x, i, PublicKey(sk), b)
  <2>2. Answered(blinded) <=> TweakedSecret(sk, i) # Zero /\ HashToGroup(x) # Id
    BY <2>1, BlindAnswers
  <2>3. Answered(blinded) => blinded.val[1].blinded = Act(b, HashToGroup(x))
    BY <2>1, BlindAnswers DEF Ok, BlindState
  <2>4. ASSUME TweakedSecret(sk, i) # Zero, HashToGroup(x) # Id
        PROVE  Answered(BlindEvaluate(sk, Act(b, HashToGroup(x)), i, r))
    <3>1. PICK ev \in PrimePoint, c \in Transcripts, s \in Scalar :
            Serves(sk, Act(b, HashToGroup(x)), i, r, ev, c, s)
      BY <2>1, <2>4, PoprfCompletes
    <3>2. QED
      BY <3>1 DEF Serves, Answered, Ok
  <2> HIDE DEF blinded
  <2>5. QED
    BY <2>1, <2>2, <2>3, <2>4, EvaluateAnswers DEF blinded
<1>2. QED
  BY <1>1, IndexInvAlways, PTL

(* What an honest server answers to a lookup's own question, poprf_finalize  *)
(* and verify accept, and give the value evaluate and proof_to_hash give.    *)
THEOREM HonestRepliesComplete == Spec => []HonestReplyCompletes
<1>1. ASSUME IndexInv, NEW l \in Lookups, asked[l] # NoQuestion, asked[l].q.suite = "Poprf",
             NEW r \in Nonces
      PROVE  LET q == asked[l].q
                 e == BlindEvaluate(q.key, asked[l].state[1].blinded, q.info, r).val[1]
             IN  Checked(asked[l], Reply("Poprf", e.evaluated, e.proof.c, e.proof.s))
                   = Evaluate(q.key, q.input, q.info)
  <2> DEFINE q == asked[l].q
  <2>1. /\ q.key \in RandomScalars /\ q.input \in Strings /\ q.info \in Strings
        /\ TweakedSecret(q.key, q.info) # Zero /\ HashToGroup(q.input) # Id
    BY <1>1, QuestionParts, IndexAssumption DEF IndexInv, OpenRight
  <2>2. PICK b \in RandomScalars :
          asked[l].state = <<BlindState(q.input, q.info, PublicKey(q.key), b)>>
    BY <1>1 DEF IndexInv, OpenRight
  <2>3. /\ asked[l].state[1].blind = b
        /\ asked[l].state[1].blinded = Act(b, HashToGroup(q.input))
        /\ asked[l].state[1].tweaked = TweakedKey(q.info, PublicKey(q.key))
    BY <2>2 DEF BlindState
  <2>4. r \in RandomScalars
    BY <1>1, IndexAssumption
  <2>5. q.suite = "Poprf"
    BY <1>1
  <2> HIDE DEF q
  <2>6. PICK ev \in PrimePoint, c \in Transcripts, s \in Scalar :
          /\ Serves(q.key, Act(b, HashToGroup(q.input)), q.info, r, ev, c, s)
          /\ TrueStatement(c)
          /\ Finalize(q.input, b, ev, Act(b, HashToGroup(q.input)), [c |-> c, s |-> s],
                      q.info, TweakedKey(q.info, PublicKey(q.key)))
               = Evaluate(q.key, q.input, q.info)
    BY <2>1, <2>4, PoprfCompletes, ZenonT(60)
  <2>7. BlindEvaluate(q.key, asked[l].state[1].blinded, q.info, r).val[1]
          = [evaluated |-> ev, proof |-> [c |-> c, s |-> s]]
    BY <2>3, <2>6 DEF Serves, Ok
  <2>8. Checked(asked[l], Reply("Poprf", ev, c, s)) = Evaluate(q.key, q.input, q.info)
    BY <2>3, <2>5, <2>6 DEF Checked, Reply, q
  <2>9. QED
    BY <2>7, <2>8 DEF q
<1>2. ASSUME IndexInv, NEW l \in Lookups, asked[l] # NoQuestion, asked[l].q.suite # "Poprf"
      PROVE  LET q == asked[l].q
                 p == Prove(q.suite, q.key, q.input)
             IN  /\ Answered(p) =>
                      Checked(asked[l], Reply(q.suite, p.val[1].gamma, p.val[1].c, p.val[1].s))
                        = ProofToHash(q.suite, p.val[1])
                 /\ ~Answered(p) => IndexOf(q) = <<>>
  <2> DEFINE q == asked[l].q
             hs == HashToCurve(q.suite, PublicKey(q.key), q.input)
             p == Prove(q.suite, q.key, q.input)
             proof == p.val[1]
  <2>1. q.suite # "Poprf" /\ q.suite \in VrfSuites /\ q.key \in RandomScalars /\ q.input \in Strings
    BY <1>2, QuestionParts DEF IndexInv, OpenRight
  <2>2. Checked(asked[l], Reply(q.suite, proof.gamma, proof.c, proof.s))
          = Verify(q.suite, PublicKey(q.key), q.input,
                   [gamma |-> proof.gamma, c |-> proof.c, s |-> proof.s])
    BY <1>2, SMTT(30) DEF Checked, Reply
  <2>3. /\ Answered(p) <=> hs # <<>>
        /\ hs # <<>> =>
             /\ ProofToHash(q.suite, proof) = Ok(GammaToHash(q.suite, Act(q.key, hs[1])))
             /\ Verify(q.suite, PublicKey(q.key), q.input,
                       [gamma |-> proof.gamma, c |-> proof.c, s |-> proof.s])
                  = Ok(GammaToHash(q.suite, Act(q.key, hs[1])))
    BY <2>1, VrfCompletes
  <2>4. hs = <<>> => IndexOf(q) = <<>>
    BY <2>1 DEF IndexOf, VrfOutput
  <2> HIDE DEF hs, p
  <2>5. QED
    BY <2>2, <2>3, <2>4 DEF p
<1>3. IndexInv => HonestReplyCompletes
  BY <1>1, <1>2 DEF HonestReplyCompletes
<1>4. QED
  BY <1>3, IndexInvAlways, PTL

(* What poprf_blind sends for one input could be any other input's, with     *)
(* another blind.                                                            *)
THEOREM BlindingAlwaysHides == Spec => []BlindingHides
<1>1. ASSUME IndexInv, NEW l \in Lookups, Blinded(l), NEW x \in Inputs, HashToGroup(x) # Id
      PROVE  \E b \in RandomScalars : Act(b, HashToGroup(x)) = asked[l].state[1].blinded
  <2> DEFINE q == asked[l].q
  <2>1. OpenRight(asked[l]) /\ q.suite = "Poprf" /\ q.input \in Strings /\ HashToGroup(q.input) # Id
    BY <1>1, QuestionParts DEF IndexInv, OpenRight, Blinded
  <2>2. PICK b \in RandomScalars :
          asked[l].state = <<BlindState(q.input, q.info, PublicKey(q.key), b)>>
    BY <2>1 DEF OpenRight
  <2>3. asked[l].state[1].blinded = Act(b, HashToGroup(q.input))
    BY <2>2 DEF BlindState
  <2>4. HashToGroup(q.input) \in PrimePoint \ {Id} /\ HashToGroup(x) \in PrimePoint \ {Id}
    BY <1>1, <2>1, HashAssumption, IndexAssumption
  <2>5. Act(b, HashToGroup(q.input)) \in PrimePoint \ {Id}
    BY <2>4, ActNotId DEF RandomScalars
  <2>6. QED
    BY <2>3, <2>4, <2>5, Reachable
<1>2. IndexInv => BlindingHides
  BY <1>1 DEF BlindingHides
<1>3. QED
  BY <1>2, IndexInvAlways, PTL

(* hash_to_curve_tai yields no point of small order, under any public key.   *)
THEOREM AlwaysHashedToPrimeOrder == Spec => []HashedToPrimeOrder
<1>1. ASSUME IndexInv, NEW suite \in VrfSuites, NEW sk \in keys, NEW x \in Inputs,
             NEW i \in DOMAIN HashToCurve(suite, PublicKey(sk), x)
      PROVE  HashToCurve(suite, PublicKey(sk), x)[i] \in PrimePoint \ {Id}
  <2> DEFINE hs == HashToCurve(suite, PublicKey(sk), x)
  <2>1. PublicKey(sk) \in Point /\ x \in Strings
    BY <1>1, PublicKeyElement, PrimePoints, IndexAssumption DEF IndexInv
  <2>2. hs # <<>> => hs[1] \in PrimePoint \ {Id} /\ hs = <<hs[1]>>
    BY <2>1, HashedElement
  <2> HIDE DEF hs
  <2>3. i \in DOMAIN hs
    BY <1>1 DEF hs
  <2>4. hs # <<>>
    BY <2>3
  <2>5. DOMAIN <<hs[1]>> = {1}
    OBVIOUS
  <2>6. i = 1
    BY <2>2, <2>3, <2>4, <2>5
  <2>7. QED
    BY <2>2, <2>4, <2>6 DEF hs
<1>2. IndexInv => HashedToPrimeOrder
  BY <1>1 DEF HashedToPrimeOrder
<1>3. QED
  BY <1>2, IndexInvAlways, PTL

LEMMA ProvableIndex ==
  ASSUME NEW suite \in VrfSuites, NEW y \in DecodedPoints(suite), NEW x \in Inputs
  PROVE  ProvableIndices[suite][y][x] = Provable(suite, y, x)
BY SMTT(30) DEF ProvableIndices

(* A label has one VRF output under a secret's public key, whatever          *)
(* components of small order the key and the proof may have.                 *)
THEOREM AlwaysOneIndexPerLabel == Spec => []OneIndexPerLabel
<1>1. ASSUME NEW suite \in VrfSuites, NEW sk \in RandomScalars, NEW x \in Inputs,
             NEW y \in Siblings(suite, PublicKey(sk)),
             NEW i \in ProvableIndices[suite][y][x]
      PROVE  VrfOutput(suite, y, sk, x) = <<i>>
  <2> DEFINE hs == HashToCurve(suite, y, x)
             h == hs[1]
  <2>1. /\ y \in DecodedPoints(suite) /\ y \in Point /\ x \in Strings
        /\ ClearCofactor(suite, y) = ClearCofactor(suite, PublicKey(sk))
    BY <1>1, PrimePoints, IndexAssumption DEF Siblings, DecodedPoints
  <2>2. i \in Provable(suite, y, x)
    BY <1>1, <2>1, ProvableIndex
  <2>3. hs # <<>> /\ \E g \in Forced(suite, y, h) : i = GammaToHash(suite, g)
    BY <2>2 DEF Provable
  <2>4. h \in PrimePoint \ {Id}
    BY <2>1, <2>3, HashedElement
  <2> HIDE DEF h
  <2>5. PICK g \in DecodedPoints(suite), e1 \in Scalar, e2 \in Scalar, s1 \in Scalar, s2 \in Scalar :
          /\ i = GammaToHash(suite, g)
          /\ e1 # e2 /\ Recommitted(y, h, g, e1, s1) = Recommitted(y, h, g, e2, s2)
    BY <2>3 DEF Forced
  <2>6. GammaToHash(suite, g) = GammaToHash(suite, Act(sk, h))
    BY <2>1, <2>4, <2>5, OneVrfIndex
  <2>7. QED
    BY <2>3, <2>5, <2>6 DEF VrfOutput, h
<1>2. ASSUME IndexInv, NEW l \in Lookups, asked[l] # NoQuestion, asked[l].q.suite # "Poprf"
      PROVE  /\ asked[l].q.suite \in VrfSuites /\ asked[l].q.key \in RandomScalars
             /\ asked[l].q.input \in Inputs
  BY <1>2, QuestionParts DEF IndexInv, OpenRight
<1>3. IndexInv => OneIndexPerLabel
  BY <1>1, <1>2 DEF OneIndexPerLabel
<1>4. QED
  BY <1>3, IndexInvAlways, PTL

-----------------------------------------------------------------------------
(* Framing *)

LEMMA SmallRemainder ==
  ASSUME NEW n \in Nat, NEW m \in Nat \ {0}, n < m
  PROVE  n % m = n
OBVIOUS

LEMMA WiderSeq ==
  ASSUME NEW S, NEW T, S \subseteq T, NEW x \in Seq(S)
  PROVE  x \in Seq(T)
OBVIOUS

(* A string that fits, and its frame before what follows.                    *)
Fits(x)          == Len(x) < LenModulus
FramedThen(x, s) == Joined(Framed(x), s)

LEMMA FramedIn ==
  ASSUME NEW S, Nat \subseteq S, NEW z \in Over(S)
  PROVE  Framed(z) \in Over(S)
<1>1. Len(z) % LenModulus \in Nat
  BY HashAssumption DEF Over
<1>2. <<Len(z) % LenModulus>> \in Over(S)
  BY <1>1 DEF Over
<1>3. Framed(z) = Joined(<<Len(z) % LenModulus>>, z)
  BY DEF Framed, Joined
<1>4. QED
  BY <1>2, <1>3, JoinedOver

(* push_len16 lets a string that fits be told from what follows it.          *)
LEMMA FramedApart ==
  ASSUME NEW S, Nat \subseteq S, NEW x \in Over(S), NEW y \in Over(S), NEW s \in Over(S), NEW t \in Over(S),
         Fits(x), Fits(y), FramedThen(x, s) = FramedThen(y, t)
  PROVE  x = y /\ s = t
<1> DEFINE P(z) == <<Len(z)>>
<1>1. ASSUME NEW z \in Over(S), Fits(z)
      PROVE  P(z) \in Over(S) /\ Framed(z) = Joined(P(z), z)
  <2>1. Len(z) \in Nat /\ LenModulus \in Nat \ {0} /\ Len(z) < LenModulus
    BY <1>1, HashAssumption DEF Over, Fits
  <2>2. Len(z) % LenModulus = Len(z)
    BY <2>1, SmallRemainder
  <2>3. P(z) \in Over(S)
    BY <2>1 DEF Over
  <2>4. QED
    BY <2>2, <2>3 DEF Framed, Joined
<1>2. ASSUME NEW v, NEW w, P(v) = P(w) PROVE Len(v) = Len(w)
  <2>1. P(v)[1] = P(w)[1]
    BY <1>2
  <2>2. QED
    BY <2>1
<1>3. ASSUME NEW v, NEW w PROVE Len(P(v)) = Len(P(w))
  OBVIOUS
<1> HIDE DEF P
<1>4. FramedThen(x, s) = Joined(P(x), Joined(x, s)) /\ FramedThen(y, t) = Joined(P(y), Joined(y, t))
  BY <1>1, JoinedAssociative DEF FramedThen
<1>5. /\ P(x) \in Over(S) /\ P(y) \in Over(S)
      /\ Joined(x, s) \in Over(S) /\ Joined(y, t) \in Over(S)
      /\ Joined(P(x), Joined(x, s)) = Joined(P(y), Joined(y, t))
  BY <1>1, <1>4, JoinedOver
<1>6. P(x) = P(y) /\ Joined(x, s) = Joined(y, t)
  BY ONLY <1>3, <1>5, JoinedCancel
<1>7. Len(x) = Len(y)
  BY <1>2, <1>6
<1>8. QED
  BY <1>6, <1>7, JoinedCancel

(* Hashes of the final step of the function are equal for equal questions    *)
(* only.                                                                     *)
LEMMA FinalHashApart ==
  ASSUME NEW x1 \in Seq(Nat), NEW i1 \in Seq(Nat), NEW p1,
         NEW x2 \in Seq(Nat), NEW i2 \in Seq(Nat), NEW p2,
         Fits(x1), Fits(i1), Fits(x2), Fits(i2),
         FinalHash(x1, i1, p1) = FinalHash(x2, i2, p2)
  PROVE  x1 = x2 /\ i1 = i2
<1> DEFINE S == Nat \cup {p1, p2}
           e1 == Framed(<<p1>>)
           e2 == Framed(<<p2>>)
           r1 == Joined(Framed(i1), e1)
           r2 == Joined(Framed(i2), e2)
<1>1. Nat \subseteq S /\ p1 \in S /\ p2 \in S
  OBVIOUS
<1> HIDE DEF S
<1>2. /\ x1 \in Over(S) /\ i1 \in Over(S) /\ x2 \in Over(S) /\ i2 \in Over(S)
  BY <1>1, WiderSeq DEF Over
<1>3. <<p1>> \in Over(S) /\ <<p2>> \in Over(S)
  BY <1>1 DEF Over
<1>4. /\ Framed(x1) \in Over(S) /\ Framed(i1) \in Over(S) /\ e1 \in Over(S)
      /\ Framed(x2) \in Over(S) /\ Framed(i2) \in Over(S) /\ e2 \in Over(S)
  BY <1>1, <1>2, <1>3, FramedIn
<1>5. Joined(Joined(Framed(x1), Framed(i1)), e1) = Joined(Joined(Framed(x2), Framed(i2)), e2)
  BY DEF FinalHash, Joined
<1> HIDE DEF e1, e2
<1>6. r1 \in Over(S) /\ r2 \in Over(S)
  BY <1>4, JoinedOver
<1>7. FramedThen(x1, r1) = FramedThen(x2, r2)
  BY <1>4, <1>5, JoinedAssociative DEF FramedThen
<1> HIDE DEF r1, r2
<1>8. x1 = x2 /\ r1 = r2
  BY ONLY <1>1, <1>2, <1>6, <1>7, FramedApart, Fits(x1), Fits(x2)
<1>9. FramedThen(i1, e1) = FramedThen(i2, e2)
  BY <1>8 DEF r1, r2, FramedThen
<1>10. i1 = i2
  BY ONLY <1>1, <1>2, <1>4, <1>9, FramedApart, Fits(i1), Fits(i2)
<1>11. QED
  BY <1>8, <1>10

(* Lookups that end with one POPRF index asked the same.                     *)
THEOREM IndicesAlwaysApart == Spec => []IndicesApart
<1>1. ASSUME IndexInv, NEW l \in Lookups, Blinded(l), found[l] # <<>>
      PROVE  /\ asked[l].q.input \in Seq(Nat) /\ asked[l].q.info \in Seq(Nat)
             /\ \E p : found[l] = <<FinalHash(asked[l].q.input, asked[l].q.info, p)>>
  <2> DEFINE q == asked[l].q
             t == TweakedSecret(q.key, q.info)
  <2>1. OpenRight(asked[l]) /\ q.suite = "Poprf" /\ q.input \in Strings /\ q.info \in Strings
        /\ q.key \in RandomScalars
    BY <1>1, QuestionParts, IndexAssumption DEF IndexInv, OpenRight, Blinded
  <2>2. found[l] = Evaluate(q.key, q.input, q.info).val
    BY <1>1, <2>1 DEF IndexInv, IndexOf
  <2>3. found[l] = <<FinalHash(q.input, q.info, Act(Invert(t), HashToGroup(q.input)))>>
    BY <1>1, <2>2 DEF Evaluate, Ok, Err
  <2>4. QED
    BY <2>1, <2>3, HashAssumption
<1>2. ASSUME IndexInv, NEW k \in Lookups, NEW l \in Lookups,
             Blinded(k), found[k] # <<>>, Framable(asked[k].q),
             Blinded(l), found[l] = found[k], Framable(asked[l].q)
      PROVE  asked[k].q.input = asked[l].q.input /\ asked[k].q.info = asked[l].q.info
  <2>1. PICK p1 : found[k] = <<FinalHash(asked[k].q.input, asked[k].q.info, p1)>>
    BY <1>1, <1>2
  <2>2. PICK p2 : found[l] = <<FinalHash(asked[l].q.input, asked[l].q.info, p2)>>
    BY <1>1, <1>2
  <2>3. FinalHash(asked[k].q.input, asked[k].q.info, p1) = FinalHash(asked[l].q.input, asked[l].q.info, p2)
    BY <1>2, <2>1, <2>2
  <2>4. /\ asked[k].q.input \in Seq(Nat) /\ asked[k].q.info \in Seq(Nat)
        /\ asked[l].q.input \in Seq(Nat) /\ asked[l].q.info \in Seq(Nat)
    BY <1>1, <1>2
  <2>5. /\ Fits(asked[k].q.input) /\ Fits(asked[k].q.info)
        /\ Fits(asked[l].q.input) /\ Fits(asked[l].q.info)
    BY <1>2 DEF Framable, Fits
  <2>6. QED
    BY ONLY <2>3, <2>4, <2>5, FinalHashApart
<1>3. IndexInv => IndicesApart
  BY <1>2 DEF IndicesApart
<1>4. QED
  BY <1>3, IndexInvAlways, PTL

-----------------------------------------------------------------------------
(* The refinement *)

(* Clients and server implement a function: every answer a lookup ever gets  *)
(* is the value of the function at its question.                             *)
THEOREM IndexImplementsFunction == Spec => ImplementsKeyedFunction
<1> DEFINE question == [l \in Lookups |-> QuestionOf(l)]
<1>1. Init => KF!KFInit
  BY DEF Init, KF!KFInit, QuestionOf
<1>2. ASSUME IndexInv, [Next]_vars PROVE [KF!KFNext]_<<question, found>>
  <2>1. ASSUME UNCHANGED <<asked, found>> PROVE UNCHANGED <<question, found>>
    BY <2>1 DEF QuestionOf
  <2>2. ASSUME NEW l \in Lookups, NEW o, OpenRight(o), asked[l] = NoQuestion,
               asked' = [asked EXCEPT ![l] = o], UNCHANGED found
        PROVE  KF!Ask(l, o.q) /\ o.q \in Questions
    <3>1. o \in Opens
      BY <2>2, OpenIsTyped
    <3>2. o # NoQuestion
      BY <3>1, IndexAssumption
    <3>3. QED
      BY <1>2, <2>2, <3>2 DEF KF!Ask, QuestionOf, OpenRight, IndexInv
  <2>3. ASSUME NEW l \in Lookups, NEW sk \in keys, NEW x \in Inputs, NEW i \in Infos, NEW b \in Blinds,
               AskBlinded(l, sk, x, i, b)
        PROVE  KF!KFNext
    <3> DEFINE o == Open("Poprf", sk, x, i, BlindWithScalar(x, i, PublicKey(sk), b).val)
    <3>1. OpenRight(o)
      BY <1>2, <2>3, AskedBlindedRight, PublicKeyGiven, IndexAssumption DEF AskBlinded, IndexInv
    <3>2. asked[l] = NoQuestion /\ asked' = [asked EXCEPT ![l] = o] /\ UNCHANGED found
      BY <1>2, <2>3, PublicKeyGiven DEF AskBlinded, IndexInv
    <3> HIDE DEF o
    <3>3. QED
      BY <2>2, <3>1, <3>2 DEF KF!KFNext
  <2>4. ASSUME NEW l \in Lookups, NEW suite \in VrfSuites, NEW sk \in keys, NEW x \in Inputs,
               AskPlain(l, suite, sk, x)
        PROVE  KF!KFNext
    <3> DEFINE o == Open(suite, sk, x, <<>>, <<>>)
    <3>1. OpenRight(o)
      BY <1>2, <2>4 DEF Open, OpenRight, Questions, Suites, VrfSuites, IndexInv
    <3>2. asked[l] = NoQuestion /\ asked' = [asked EXCEPT ![l] = o] /\ UNCHANGED found
      BY <2>4 DEF AskPlain
    <3> HIDE DEF o
    <3>3. QED
      BY <2>2, <3>1, <3>2 DEF KF!KFNext
  <2>5. ASSUME NEW l \in Lookups, NEW m \in wire, Complete(l, m) PROVE KF!KFNext
    <3>1. OpenRight(asked[l]) /\ Checked(asked[l], m).val = IndexOf(asked[l].q)
      BY <1>2, <2>5, CheckedIsIndex DEF Complete, IndexInv
    <3>2. QuestionOf(l) = asked[l].q /\ asked[l].q # NoQuestion
      BY <2>5, <3>1, IndexAssumption DEF QuestionOf, OpenRight, Complete
    <3>3. KF!Answer(l)
      BY <2>5, <3>1, <3>2 DEF KF!Answer, Complete, QuestionOf
    <3>4. QED
      BY <3>3 DEF KF!KFNext
  <2>6. CASE UNCHANGED vars
    BY <2>1, <2>6, SMTT(30) DEF vars
  <2>7. CASE Next
    BY <2>1, <2>3, <2>4, <2>5, <2>7
       DEF Next, GenerateKey, DeriveKey, EvaluateBlinded, ProveIndex, Garble
  <2>8. QED
    BY <1>2, <2>6, <2>7
<1>3. QED
  BY <1>1, <1>2, IndexInvAlways, PTL DEF Spec, ImplementsKeyedFunction, KF!KFSpec
=============================================================================
