----------------------------- MODULE InlineCall -----------------------------
(* What on_signing_stack promises: as far as its caller can tell, the        *)
(* closure ran inline.  The call ends with a value that this closure gives,  *)
(* or with a panic.                                                          *)
CONSTANTS Callers, Tasks,
          Values(_),           \* the values a closure can give
          Panics               \* what a call can panic with

VARIABLE call                  \* caller |-> Idle, a running task or its outcome

Idle == [at |-> "idle"]

ICInit == call = [c \in Callers |-> Idle]

Running(c) == call[c].at = "running"

Begin(c) ==
  /\ call[c] = Idle
  /\ call'[c] \in [at : {"running"}, task : Tasks]
  /\ call' = [call EXCEPT ![c] = call'[c]]

Return(c) ==
  /\ Running(c)
  /\ call'[c].at = "value"
  /\ \E v \in Values(call[c].task) :
       call' = [call EXCEPT ![c] = [at |-> "value", task |-> call[c].task, out |-> v]]

Unwind(c) ==
  /\ Running(c)
  /\ \E p \in Panics :
       call' = [call EXCEPT ![c] = [at |-> "panic", task |-> call[c].task, out |-> p]]

Take(c) ==
  /\ call[c] # Idle /\ ~Running(c)
  /\ call' = [call EXCEPT ![c] = Idle]

ICNext == \E c \in Callers : Begin(c) \/ Unwind(c) \/ Return(c) \/ Take(c)

ICSpec == ICInit /\ [][ICNext]_call
=============================================================================
