---------------------------- MODULE SigningStack ----------------------------
(* stack.rs: on_signing_stack runs a closure on a worker thread with a large *)
(* stack and waits in join.  A closure ends with a value or a panic; the     *)
(* spawn may be refused.                                                     *)
EXTENDS Naturals

CONSTANTS Callers, NoTask, NoOutcome

VARIABLES
  phase,               \* caller |-> where its call is
  task,                \* caller |-> the closure it passed
  outcome              \* caller |-> what the worker ended with

stackVars == <<phase, task, outcome>>

Phases == {"idle", "calling", "running", "exited", "returned", "unwound"}

NotSpawned == "failed to spawn signing worker thread"

Value(v) == [how |-> "value", out |-> v]
Panic(p) == [how |-> "panic", out |-> p]

StackInit ==
  /\ phase = [c \in Callers |-> "idle"]
  /\ task = [c \in Callers |-> NoTask]
  /\ outcome = [c \in Callers |-> NoOutcome]

OnSigningStack(c, f) ==
  /\ phase[c] = "idle"
  /\ phase' = [phase EXCEPT ![c] = "calling"]
  /\ task' = [task EXCEPT ![c] = f]
  /\ UNCHANGED outcome

Spawn(c) ==
  /\ phase[c] = "calling"
  /\ phase' = [phase EXCEPT ![c] = "running"]
  /\ UNCHANGED <<task, outcome>>

(* Faulty variant: a refused spawn is passed over, and join waits.           *)
SpawnRefusedUnseen(c) ==
  /\ phase[c] = "calling"
  /\ phase' = [phase EXCEPT ![c] = "lost"]
  /\ UNCHANGED <<task, outcome>>

(* .expect on spawn_scoped                                                   *)
SpawnRefused(c) ==
  /\ phase[c] = "calling"
  /\ phase' = [phase EXCEPT ![c] = "unwound"]
  /\ outcome' = [outcome EXCEPT ![c] = Panic(NotSpawned)]
  /\ UNCHANGED task

(* The closure's end, on the worker.                                         *)
Work(c, o) ==
  /\ phase[c] = "running"
  /\ phase' = [phase EXCEPT ![c] = "exited"]
  /\ outcome' = [outcome EXCEPT ![c] = o]
  /\ UNCHANGED task

(* Faulty variant: join takes whichever worker has ended.                    *)
JoinAny(c) ==
  \E d \in Callers :
    /\ phase[c] \in {"running", "exited"} /\ phase[d] = "exited"
    /\ phase' = [phase EXCEPT ![c] = IF outcome[d].how = "value" THEN "returned" ELSE "unwound"]
    /\ outcome' = [outcome EXCEPT ![c] = outcome[d]]
    /\ UNCHANGED task

(* join, and resume_unwind of the payload.                                   *)
Join(c) ==
  /\ phase[c] = "exited"
  /\ phase' = [phase EXCEPT ![c] = IF outcome[c].how = "value" THEN "returned" ELSE "unwound"]
  /\ UNCHANGED <<task, outcome>>

Ended(c) == phase[c] \in {"returned", "unwound"}

(* The caller goes on with what the call gave.                               *)
Resume(c) ==
  /\ Ended(c)
  /\ phase' = [phase EXCEPT ![c] = "idle"]
  /\ task' = [task EXCEPT ![c] = NoTask]
  /\ outcome' = [outcome EXCEPT ![c] = NoOutcome]

(* A call as its caller sees it.                                             *)
Seen(c) ==
  IF phase[c] = "idle" THEN [at |-> "idle"]
  ELSE IF Ended(c) THEN [at |-> outcome[c].how, task |-> task[c], out |-> outcome[c].out]
  ELSE [at |-> "running", task |-> task[c]]
=============================================================================
