---------------------------- MODULE Attestation -----------------------------
(***************************************************************************)
(* What composite signatures promise, with no format or byte in sight: a   *)
(* statement is accepted under a set of component keys only if every one   *)
(* of them attested that very statement before.  Sign.tla implements it.   *)
(***************************************************************************)
VARIABLES attested,   \* the <<component key, statement>> pairs signed
          accepted    \* the <<component keys, statement>> pairs verified

Init == attested = {} /\ accepted = {}

Attest ==
  /\ attested \subseteq attested'
  /\ UNCHANGED accepted

Accept ==
  /\ accepted \subseteq accepted'
  /\ \A a \in accepted' \ accepted :
        a[1] # {} /\ \A k \in a[1] : <<k, a[2]>> \in attested
  /\ UNCHANGED attested

Next == Attest \/ Accept

Spec == Init /\ [][Next]_<<attested, accepted>>
=============================================================================
