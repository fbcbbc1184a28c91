-------------------------- MODULE IndexDerivation ---------------------------
(* How a key-transparency directory derives the index of a label with this   *)
(* crate: clients and a server that rotates its keys call the functions of   *)
(* Poprf and Ecvrf, over a network that delays, repeats, loses, swaps and    *)
(* garbles replies.  What the client keeps between blinding and finalizing   *)
(* is the PoprfBlindState.  A key pair is named by its secret; the client's  *)
(* steps use its public half only.                                           *)
EXTENDS Ecvrf, FiniteSets

CONSTANTS
  Lookups, NoQuestion,
  Inputs, Infos,       \* the strings asked about, and the public ones
  Secrets, Blinds, Nonces, \* bound: the random scalars that are drawn
  GarbledPoints, GarbledScalars, \* bound: what garbled bytes decode to
  MaxKeys,             \* bound: key pairs provisioned
  MaxReplies,          \* bound: replies on the wire
  MaxGarbled           \* bound: replies garbled

Suites == {"Poprf"} \cup VrfSuites

(* A question, and a question with what the client keeps for it.             *)
Questions == [suite : Suites, key : RandomScalars, input : Inputs, info : Infos \cup {<<>>}]
BlindStates == [blind : RandomScalars, blinded : PrimePoint, tweaked : PrimePoint]
Opens == [q : Questions, state : {<<>>} \cup {<<b>> : b \in BlindStates}]
Replies == [suite : Suites, point : Point \cup {NoPoint}, c : Challenges, s : Scalar \cup {NoScalar}]

ASSUME IndexAssumption ==
  /\ Inputs \subseteq Strings /\ Infos \subseteq Strings
  /\ Secrets \subseteq RandomScalars /\ Blinds \subseteq RandomScalars /\ Nonces \subseteq RandomScalars
  /\ GarbledPoints \subseteq Point \cup {NoPoint} /\ GarbledScalars \subseteq Scalar \cup {NoScalar}
  /\ NoQuestion \notin Questions \cup Opens
  /\ MaxKeys \in Nat /\ MaxReplies \in Nat /\ MaxGarbled \in Nat

VARIABLES
  keys,                \* the server's key pairs, old ones included
  asked,               \* lookup |-> its question and blinding state
  wire,                \* replies that may be delivered, once or more
  found,               \* lookup |-> the index, in a sequence, or <<>>
  garbled              \* how many replies were garbled

vars == <<keys, asked, wire, found, garbled>>

(* A question as the client holds it.                                        *)
Open(suite, key, input, info, state) ==
  [q |-> [suite |-> suite, key |-> key, input |-> input, info |-> info], state |-> state]

(* A reply: the evaluated element, or Gamma, with its proof.                 *)
Reply(suite, point, c, s) == [suite |-> suite, point |-> point, c |-> c, s |-> s]

Init ==
  /\ keys = {} /\ wire = {} /\ garbled = 0
  /\ asked = [l \in Lookups |-> NoQuestion]
  /\ found = [l \in Lookups |-> <<>>]

(* poprf_generate_keypair                                                    *)
GenerateKey(sk) ==
  /\ Cardinality(keys) < MaxKeys
  /\ keys' = keys \cup {sk}
  /\ UNCHANGED <<asked, wire, found, garbled>>

(* The key pair derived from a managed master secret.                        *)
DeriveKey(seed, info) ==
  /\ Cardinality(keys) < MaxKeys
  /\ Answered(DeriveKeyPair(seed, info))
  /\ keys' = keys \cup {DeriveKeyPair(seed, info).val[1]}
  /\ UNCHANGED <<asked, wire, found, garbled>>

(* poprf_blind *)
AskBlinded(l, sk, input, info, blind) ==
  LET r == BlindWithScalar(input, info, PoprfPublicKey(sk).val[1], blind)
  IN  /\ asked[l] = NoQuestion /\ Answered(r)
      /\ asked' = [asked EXCEPT ![l] = Open("Poprf", sk, input, info, r.val)]
      /\ UNCHANGED <<keys, wire, found, garbled>>

(* A lookup that is answered with a VRF proof sends the label itself.        *)
AskPlain(l, suite, sk, input) ==
  /\ asked[l] = NoQuestion
  /\ asked' = [asked EXCEPT ![l] = Open(suite, sk, input, <<>>, <<>>)]
  /\ UNCHANGED <<keys, wire, found, garbled>>

Blinded(l) == asked[l] # NoQuestion /\ asked[l].state # <<>>

(* poprf_blind_evaluate, under any key and info the server may take to be    *)
(* the ones meant.                                                           *)
EvaluateBlinded(l, sk, info, r) ==
  LET e == BlindEvaluate(sk, asked[l].state[1].blinded, info, r)
  IN  /\ Blinded(l) /\ Cardinality(wire) < MaxReplies /\ Answered(e)
      /\ wire' = wire \cup {Reply("Poprf", e.val[1].evaluated, e.val[1].proof.c, e.val[1].proof.s)}
      /\ UNCHANGED <<keys, asked, found, garbled>>

(* ecvrf_prove, ecvrf_p256_prove                                             *)
ProveIndex(suite, sk, alpha) ==
  LET p == Prove(suite, sk, alpha)
  IN  /\ Cardinality(wire) < MaxReplies /\ Answered(p)
      /\ wire' = wire \cup {Reply(suite, p.val[1].gamma, p.val[1].c, p.val[1].s)}
      /\ UNCHANGED <<keys, asked, found, garbled>>

(* Bytes of a reply change on the way: its point, its s, or both halves of   *)
(* its proof are wiped.  A hash is not hit upon.                             *)
Garblings(m) ==
  {[m EXCEPT !.point = p] : p \in GarbledPoints} \cup
  {[m EXCEPT !.s = s] : s \in GarbledScalars} \cup
  {[m EXCEPT !.c = <<>>, !.s = Zero]}

Garble(m) ==
  /\ garbled < MaxGarbled
  /\ garbled' = garbled + 1
  /\ \E g \in Garblings(m) : wire' = (wire \ {m}) \cup {g}
  /\ UNCHANGED <<keys, asked, found>>

(* What the client makes of a reply: poprf_finalize with what it kept, or    *)
(* the VRF's verify.                                                         *)
Checked(open, m) ==
  LET q == open.q
      proof == [gamma |-> m.point, c |-> m.c, s |-> m.s]
  IN  IF q.suite = "Poprf"
      THEN Finalize(q.input, open.state[1].blind, m.point, open.state[1].blinded,
                    [c |-> m.c, s |-> m.s], q.info, open.state[1].tweaked)
      ELSE Verify(q.suite, PublicKey(q.key), q.input, proof)

Complete(l, m) ==
  /\ asked[l] # NoQuestion /\ found[l] = <<>> /\ m.suite = asked[l].q.suite
  /\ Answered(Checked(asked[l], m))
  /\ found' = [found EXCEPT ![l] = Checked(asked[l], m).val]
  /\ UNCHANGED <<keys, asked, wire, garbled>>

Next ==
  \/ \E sk \in Secrets : GenerateKey(sk)
  \/ \E seed \in Seeds, i \in Infos : DeriveKey(seed, i)
  \/ \E l \in Lookups, sk \in keys, x \in Inputs, i \in Infos, b \in Blinds : AskBlinded(l, sk, x, i, b)
  \/ \E l \in Lookups, suite \in VrfSuites, sk \in keys, x \in Inputs : AskPlain(l, suite, sk, x)
  \/ \E l \in Lookups, sk \in keys, i \in Infos, r \in Nonces : EvaluateBlinded(l, sk, i, r)
  \/ \E suite \in VrfSuites, sk \in keys, x \in Inputs : ProveIndex(suite, sk, x)
  \/ \E m \in wire : Garble(m)
  \/ \E l \in Lookups, m \in wire : Complete(l, m)

Spec == Init /\ [][Next]_vars

(******************************** Properties ********************************)

TypeOK ==
  /\ keys \subseteq RandomScalars
  /\ asked \in [Lookups -> Opens \cup {NoQuestion}]
  /\ \A l \in Lookups : asked[l] # NoQuestion =>
       (asked[l].q.suite = "Poprf" <=> asked[l].state # <<>>)
  /\ wire \subseteq Replies
  /\ found = [l \in Lookups |-> found[l]]
  /\ garbled \in 0..MaxGarbled

(* The VRF output of a label under the key bytes y of the secret x.          *)
VrfOutput(suite, y, x, label) ==
  LET h == HashToCurve(suite, y, label)
  IN  IF h = <<>> THEN <<>> ELSE <<GammaToHash(suite, Act(x, h[1]))>>

(* The index a question has, <<>> when it has none.                          *)
IndexOf(q) ==
  IF q.suite = "Poprf" THEN Evaluate(q.key, q.input, q.info).val
  ELSE VrfOutput(q.suite, PublicKey(q.key), q.key, q.input)

QuestionOf(l) == IF asked[l] = NoQuestion THEN NoQuestion ELSE asked[l].q

(* Whatever replies come, in whatever order, to whatever request, under      *)
(* whichever key and info they were made, and garbled or not: a lookup that  *)
(* completes has the index the operator would compute for its own question   *)
(* (poprf_finalize against poprf_evaluate, verify against prove).            *)
KF == INSTANCE KeyedFunction WITH
        question <- [l \in Lookups |-> QuestionOf(l)], answer <- found, Value <- IndexOf
ImplementsKeyedFunction == KF!KFSpec

(* Client and server refuse the same questions: a degenerate input or a      *)
(* tweaked key without inverse stops the client before it asks, if and only  *)
(* if the operator could not evaluate it, and a blinded request is served.   *)
RefuseAlike ==
  \A sk \in keys, x \in Inputs, i \in Infos, b \in Blinds, r \in Nonces :
    LET blinded == BlindWithScalar(x, i, PublicKey(sk), b)
    IN  /\ Answered(blinded) <=> Answered(Evaluate(sk, x, i))
        /\ Answered(blinded) => Answered(BlindEvaluate(sk, blinded.val[1].blinded, i, r))

(* The reply to a lookup's own question completes it, POPRF and VRF alike:   *)
(* prover and verifier hash, challenge and recompute alike, and the output   *)
(* is that of proof_to_hash; where proving fails there is no index.          *)
HonestReplyCompletes ==
  \A l \in Lookups : asked[l] # NoQuestion =>
    LET q == asked[l].q
        p == Prove(q.suite, q.key, q.input)
    IN  IF q.suite = "Poprf"
        THEN \A r \in Nonces :
               LET e == BlindEvaluate(q.key, asked[l].state[1].blinded, q.info, r).val[1]
               IN  Checked(asked[l], Reply("Poprf", e.evaluated, e.proof.c, e.proof.s))
                     = Evaluate(q.key, q.input, q.info)
        ELSE IF Answered(p)
        THEN Checked(asked[l], Reply(q.suite, p.val[1].gamma, p.val[1].c, p.val[1].s))
               = ProofToHash(q.suite, p.val[1])
        ELSE IndexOf(q) = <<>>

(* What poprf_blind sends could have been blinded from any input that may be *)
(* asked about: the server cannot tell which it was.                         *)
BlindingHides ==
  \A l \in Lookups : Blinded(l) =>
    \A x \in Inputs : HashToGroup(x) # Id =>
      \E b \in RandomScalars : Act(b, HashToGroup(x)) = asked[l].state[1].blinded

(* Lookups that end with one POPRF index asked the same: input and info are  *)
(* framed apart, as long as their lengths fit the two-byte prefix.           *)
Framable(q) == Len(q.input) < LenModulus /\ Len(q.info) < LenModulus
IndicesApart ==
  \A k, l \in Lookups :
    /\ Blinded(k) /\ found[k] # <<>> /\ Framable(asked[k].q)
    /\ Blinded(l) /\ found[l] = found[k] /\ Framable(asked[l].q)
    => asked[k].q.input = asked[l].q.input /\ asked[k].q.info = asked[l].q.info

(* Try-and-increment never yields a point of small order, under any key.     *)
HashedToPrimeOrder ==
  \A suite \in VrfSuites, sk \in keys, x \in Inputs :
    \A i \in DOMAIN HashToCurve(suite, PublicKey(sk), x) :
      HashToCurve(suite, PublicKey(sk), x)[i] \in PrimePoint \ {Id}

(* A Gamma is forced when two challenges can be answered for it over one     *)
(* commitment, which is what a proof that was not a lucky guess shows.       *)
Forced(suite, y, h) ==
  {g \in DecodedPoints(suite) :
     \E e1, e2, s1, s2 \in Scalar :
       e1 # e2 /\ Recommitted(y, h, g, e1, s1) = Recommitted(y, h, g, e2, s2)}

(* The public keys of one secret: they differ in small order only.           *)
Siblings(suite, pk) ==
  {y \in DecodedPoints(suite) : ClearCofactor(suite, y) = ClearCofactor(suite, pk)}

(* The indices a prover can force for a label under a public key, whose      *)
(* bytes, components of small order included, salt the hash to the curve.    *)
Provable(suite, y, x) ==
  LET h == HashToCurve(suite, y, x)
  IN  IF h = <<>> THEN {} ELSE {GammaToHash(suite, g) : g \in Forced(suite, y, h[1])}

ProvableIndices ==
  [suite \in VrfSuites |-> [y \in DecodedPoints(suite) |-> [x \in Inputs |-> Provable(suite, y, x)]]]

(* For a label that was asked about no output but the secret's own can be    *)
(* proved, whatever component of small order Gamma or the public key has.    *)
OneIndexPerLabel ==
  \A l \in Lookups : asked[l] # NoQuestion /\ asked[l].q.suite # "Poprf" =>
    LET q == asked[l].q
    IN  \A y \in Siblings(q.suite, PublicKey(q.key)) :
          \A i \in ProvableIndices[q.suite][y][q.input] :
            VrfOutput(q.suite, y, q.key, q.input) = <<i>>

(* Both verify functions document that they answer None to any cryptographic *)
(* rejection, and vrf_p256.rs that the identity never reaches                *)
(* point_to_string: a proof whose c and s are wiped is answered None.        *)
WipedProofIsRejected ==
  \A l \in Lookups, m \in wire :
    /\ asked[l] # NoQuestion /\ m.suite = asked[l].q.suite /\ m.suite \in VrfSuites
    /\ m.c = <<>> /\ m.s = Zero
    => Checked(asked[l], m) = Rejected
=============================================================================
