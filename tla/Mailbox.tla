------------------------------ MODULE Mailbox -------------------------------
(***************************************************************************)
(* What sealing promises, with no format, key or byte in sight: a text     *)
(* posted to a user may be read by that user, as it was posted, and nobody *)
(* reads anything else.  Seal.tla implements it.                           *)
(***************************************************************************)
CONSTANTS Users, Plaintexts

VARIABLES posted,   \* the set of [to, pt] that were posted
          learned   \* for each user, the plaintexts it has read

Init ==
  /\ posted = {}
  /\ learned = [u \in Users |-> {}]

Post(u, p) ==
  /\ posted' = posted \cup {[to |-> u, pt |-> p]}
  /\ UNCHANGED learned

Read(u, p) ==
  /\ [to |-> u, pt |-> p] \in posted
  /\ learned' = [learned EXCEPT ![u] = @ \cup {p}]
  /\ UNCHANGED posted

Next == \E u \in Users, p \in Plaintexts : Post(u, p) \/ Read(u, p)

Spec == Init /\ [][Next]_<<posted, learned>>
=============================================================================
