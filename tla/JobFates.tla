------------------------------ MODULE JobFates ------------------------------
(***************************************************************************)
(* What the background job queue of src/app/jobqueue.py does for each job  *)
(* it accepted: it is tried until its handler returns, with the work done  *)
(* or with a failure swallowed, or has raised MaxAttempts times, when it   *)
(* is put with the dead letters.  It may be lost only in a mishap (a       *)
(* restart, a failing call to Redis), and with a durable queue a mishap    *)
(* loses one job at most.  The module's documentation promises more: there *)
(* no durable job is lost and no failure is swallowed.                     *)
(***************************************************************************)
EXTENDS Naturals

CONSTANTS Jobs, MaxAttempts

VARIABLES
  fate,     \* what became of each job
  failures, \* times each job's handler raised
  durable,  \* is the queue kept outside the process?
  mishaps

fvars == <<fate, failures, durable, mishaps>>

FatesInit ==
  /\ fate = [j \in Jobs |-> "none"] /\ failures = [j \in Jobs |-> 0]
  /\ durable \in BOOLEAN /\ mishaps = 0

Becomes(j, from, to) ==
  /\ fate[j] = from /\ fate' = [fate EXCEPT ![j] = to]
  /\ UNCHANGED <<durable, mishaps>>

Accept(j) == Becomes(j, "none", "pending") /\ UNCHANGED failures

Finish(j) == Becomes(j, "pending", "done") /\ UNCHANGED failures

\* The handler caught the failure of its work: no retry, no dead letter.
Swallow(j) == Becomes(j, "pending", "swallowed") /\ UNCHANGED failures

Fail(j) ==
  /\ fate[j] = "pending" /\ failures[j] < MaxAttempts
  /\ failures' = [failures EXCEPT ![j] = @ + 1]
  /\ UNCHANGED <<fate, durable, mishaps>>

GiveUp(j) ==
  /\ failures[j] = MaxAttempts
  /\ Becomes(j, "pending", "dead") /\ UNCHANGED failures

Mishap(S) ==
  /\ \A j \in S : fate[j] = "pending" \/ (fate[j] = "dead" /\ ~durable)
  /\ durable => \A j, k \in S : j = k
  /\ fate' = [j \in Jobs |-> IF j \in S THEN "lost" ELSE fate[j]]
  /\ mishaps' = mishaps + 1
  /\ UNCHANGED <<failures, durable>>

FatesNext ==
  \/ \E j \in Jobs : Accept(j) \/ Finish(j) \/ Swallow(j) \/ Fail(j) \/ GiveUp(j)
  \/ \E S \in SUBSET Jobs : Mishap(S)

FatesSpec == FatesInit /\ [][FatesNext]_fvars
=============================================================================
