--------------------------- MODULE KeyedFunction ----------------------------
(* What a directory promises whoever looks up an index, whichever function   *)
(* it uses: a lookup may never be answered, but an answer is the value of    *)
(* the function at what was asked, and it stays.                             *)
EXTENDS Naturals

CONSTANTS Lookups, Questions, NoQuestion,
          Value(_)     \* the value of the function at a question, in a sequence

VARIABLES question, answer

KFInit == /\ question = [l \in Lookups |-> NoQuestion]
          /\ answer = [l \in Lookups |-> <<>>]

Ask(l, q) == /\ question[l] = NoQuestion
             /\ question' = [question EXCEPT ![l] = q]
             /\ UNCHANGED answer

Answer(l) == /\ question[l] # NoQuestion /\ answer[l] = <<>>
             /\ answer' = [answer EXCEPT ![l] = Value(question[l])]
             /\ UNCHANGED question

KFNext == \E l \in Lookups : Answer(l) \/ \E q \in Questions : Ask(l, q)

KFSpec == KFInit /\ [][KFNext]_<<question, answer>>
=============================================================================
