------------------------------ MODULE JobQueue ------------------------------
(***************************************************************************)
(* Background investigations: the webhook of src/app/api/main.py and the   *)
(* poller of src/app/slo_poller.py claim what they report, queue a job for *)
(* it, and the workers of src/app/jobqueue.py take the jobs one at a time, *)
(* with retries and dead letters.                                          *)
(*                                                                         *)
(* Each replica of the API has a worker, a poller and claims of its own in *)
(* memory.  With Redis they share the queue; without it each has one.  A   *)
(* restart loses what a replica has in memory, and a call to Redis may     *)
(* fail.  A handler returns or raises, whichever it likes.                 *)
(***************************************************************************)
EXTENDS Naturals, FiniteSets, Sequences, BurnRate

CONSTANTS
  Replicas,    \* processes of the API
  Incidents,   \* PagerDuty incidents (one webhook body each)
  Services,    \* services whose burn rate the poller watches
  Jobs,        \* bound: the jobs that may be queued, each once
  MaxAttempts, \* of run_worker
  MaxMishaps,  \* bound: restarts and failing calls to Redis
  MaxExpiries  \* bound: claims that expire

ASSUME AttemptsAssumption == MaxAttempts \in Nat \ {0}
ASSUME BoundsAssumption == MaxMishaps \in Nat /\ MaxExpiries \in Nat
ASSUME FiniteAssumption == IsFiniteSet(Replicas) /\ IsFiniteSet(Jobs)

Sources == Incidents \union Services

ASSUME NamesAssumption == "none" \notin Replicas

VARIABLES
  durable,  \* is COPILOT_REDIS_URL set?
  claimed,  \* _SEEN_DELIVERIES and _last_fired: sources each replica claimed
  posting,  \* sources whose job each replica is about to queue
  queue,    \* the jobs of each store, oldest first, with their attempts
  dead,     \* dead letters of each store
  stage,    \* what each replica's worker does
  hand,     \* the job it does it with, and the attempts made at it
  source,   \* history: the replica that queued each job, and what for
  done,     \* history: jobs whose handler returned
  swallowed, \* history: those of them whose investigation had failed
  raised,   \* history: times each job's handler raised
  mishaps, expiries

intake == <<claimed, posting, expiries>>
work == <<stage, hand>>
vars == <<durable, intake, queue, dead, work, source, done, swallowed, raised, mishaps>>

NoJob == [id |-> "none", attempts |-> 0]
Unused == <<"none", "none">>
Stores == Replicas \union {"redis"}

\* make_job_queue: one queue for all in Redis, or one in each process.
Store(r) == IF durable THEN "redis" ELSE r

Init ==
  /\ durable \in BOOLEAN
  /\ claimed = [r \in Replicas |-> {}] /\ posting = [r \in Replicas |-> {}]
  /\ queue = [s \in Stores |-> <<>>] /\ dead = [s \in Stores |-> {}]
  /\ stage = [r \in Replicas |-> "idle"] /\ hand = [r \in Replicas |-> NoJob]
  /\ source = [j \in Jobs |-> Unused] /\ done = {} /\ swallowed = {}
  /\ raised = [j \in Jobs |-> 0] /\ mishaps = 0 /\ expiries = 0

-----------------------------------------------------------------------------
(* Intake: pagerduty_webhook and SLOPoller.tick.                           *)

\* Mutant: the claim is looked at and never made.
NotMarked(r, x) == claimed

Marked(r, x) == [claimed EXCEPT ![r] = @ \union {x}]

\* The claim is made before the job is queued.  Deliveries come together; the
\* poller goes through its services one after the other.
Claim(r, x) ==
  /\ x \notin claimed[r]
  /\ x \in Services => \E burn \in Readings : Alerts(burn)
  /\ x \in Services => posting[r] \intersect Services = {}
  /\ claimed' = Marked(r, x)
  /\ posting' = [posting EXCEPT ![r] = @ \union {x}]
  /\ UNCHANGED <<durable, expiries, queue, dead, work, source, done, swallowed, raised, mishaps>>

Posted(r, x) == x \in posting[r] /\ posting' = [posting EXCEPT ![r] = @ \ {x}]

\* Mutant: jobs are queued in the process, whatever the worker listens to.
EnqueueLocally(r, job) == queue' = [queue EXCEPT ![r] = Append(@, job)]

Enqueue(r, job) == queue' = [queue EXCEPT ![Store(r)] = Append(@, job)]

\* _enqueue_investigation queues a new job.
Post(r, x) ==
  /\ Posted(r, x)
  /\ \E j \in Jobs : source[j] = Unused
  /\ LET new == CHOOSE j \in Jobs : source[j] = Unused
     IN  /\ source' = [source EXCEPT ![new] = <<r, x>>]
         /\ Enqueue(r, [id |-> new, attempts |-> 0])
  /\ UNCHANGED <<durable, claimed, expiries, dead, work, done, swallowed, raised, mishaps>>

Mishap == mishaps < MaxMishaps /\ mishaps' = mishaps + 1

\* LPUSH fails: nothing is queued, and the claim stands.
PostFails(r, x) ==
  /\ durable /\ Posted(r, x) /\ Mishap
  /\ UNCHANGED <<durable, claimed, expiries, queue, dead, work, source, done, swallowed, raised>>

\* The claim's 600 s, or the cooldown, are over; queueing takes less.
Expire(r, x) ==
  /\ x \in claimed[r] \ posting[r] /\ expiries < MaxExpiries
  /\ claimed' = [claimed EXCEPT ![r] = @ \ {x}] /\ expiries' = expiries + 1
  /\ UNCHANGED <<durable, posting, queue, dead, work, source, done, swallowed, raised, mishaps>>

-----------------------------------------------------------------------------
(* The worker: process_one.                                                *)

Works(r, at, with) ==
  stage' = [stage EXCEPT ![r] = at] /\ hand' = [hand EXCEPT ![r] = with]

\* Popped, the job is in nobody's list until the worker is done with it.
Dequeue(r) ==
  LET s == Store(r)
  IN  /\ stage[r] = "idle" /\ queue[s] # <<>>
      /\ Works(r, "handling", Head(queue[s]))
      /\ queue' = [queue EXCEPT ![s] = Tail(@)]
      /\ UNCHANGED <<durable, intake, dead, source, done, swallowed, raised, mishaps>>

\* _run_triggered_investigation returns even when the investigation failed.
Returns(r) ==
  /\ stage[r] = "handling" /\ Works(r, "idle", NoJob)
  /\ done' = done \union {hand[r].id}
  /\ swallowed' \in {swallowed, swallowed \union {hand[r].id}}
  /\ UNCHANGED <<durable, intake, queue, dead, source, raised, mishaps>>

\* Mutant: one attempt too few.
ExhaustedEarly(attempts) == attempts >= MaxAttempts - 1

Exhausted(attempts) == attempts >= MaxAttempts

Raises(r) ==
  LET job == [hand[r] EXCEPT !.attempts = @ + 1]
  IN  /\ stage[r] = "handling"
      /\ Works(r, IF Exhausted(job.attempts) THEN "burying" ELSE "backoff", job)
      /\ raised' = [raised EXCEPT ![job.id] = @ + 1]
      /\ UNCHANGED <<durable, intake, queue, dead, source, done, swallowed, mishaps>>

Bury(r) ==
  /\ stage[r] = "burying" /\ Works(r, "idle", NoJob)
  /\ dead' = [dead EXCEPT ![Store(r)] = @ \union {hand[r].id}]
  /\ UNCHANGED <<durable, intake, queue, source, done, swallowed, raised, mishaps>>

Requeue(r) ==
  /\ stage[r] = "backoff" /\ Works(r, "idle", NoJob)
  /\ Enqueue(r, hand[r])
  /\ UNCHANGED <<durable, intake, dead, source, done, swallowed, raised, mishaps>>

\* The LPUSH of a retry or of a dead letter fails: run_worker logs it and goes
\* on to the next job.
Hiccup(r) ==
  /\ durable /\ stage[r] \in {"backoff", "burying"} /\ Mishap
  /\ Works(r, "idle", NoJob)
  /\ UNCHANGED <<durable, intake, queue, dead, source, done, swallowed, raised>>

\* The process goes down, with what it has in memory, and another comes up.
Restart(r) ==
  /\ Mishap /\ Works(r, "idle", NoJob)
  /\ claimed' = [claimed EXCEPT ![r] = {}] /\ posting' = [posting EXCEPT ![r] = {}]
  /\ queue' = IF durable THEN queue ELSE [queue EXCEPT ![r] = <<>>]
  /\ dead' = IF durable THEN dead ELSE [dead EXCEPT ![r] = {}]
  /\ UNCHANGED <<durable, expiries, source, done, swallowed, raised>>

-----------------------------------------------------------------------------
Work(r) == Dequeue(r) \/ Returns(r) \/ Raises(r) \/ Bury(r) \/ Requeue(r)

Intake(r, x) == Claim(r, x) \/ Post(r, x) \/ PostFails(r, x) \/ Expire(r, x)

Next ==
  \/ \E r \in Replicas, x \in Sources : Intake(r, x)
  \/ \E r \in Replicas : Work(r) \/ Hiccup(r) \/ Restart(r)

Spec == Init /\ [][Next]_vars

\* A worker with something to do does it: a handler ends by its time-outs, the
\* backoff is 30 s at most.
FairSpec == Spec /\ \A r \in Replicas : WF_vars(Work(r))

-----------------------------------------------------------------------------
(* Properties.                                                             *)

Within(q) == {q[i].id : i \in DOMAIN q}
Queued == UNION {Within(queue[s]) : s \in Stores}
Held == {hand[r].id : r \in {q \in Replicas : stage[q] # "idle"}}
Buried == UNION {dead[s] : s \in Stores}

\* What becomes of a job, told from where it is.
Fate(j) ==
  CASE j \in done -> IF j \in swallowed THEN "swallowed" ELSE "done"
    [] j \in (Queued \union Held) \ done -> "pending"
    [] j \in Buried \ (Queued \union Held \union done) -> "dead"
    [] j \notin Queued \union Held \union Buried \union done ->
         IF source[j] = Unused THEN "none" ELSE "lost"

\* A job is tried until its handler returns or has raised MaxAttempts times, it
\* is buried then and not before, and mishaps alone lose it: with Redis, one job
\* at most by each.
Fates == INSTANCE JobFates WITH fate <- [j \in Jobs |-> Fate(j)], failures <- raised

FatesKept == Fates!FatesSpec

\* What the documentation says of the queue in Redis: "so jobs survive a restart"
\* (jobqueue.py:10, jobqueue.py:58).
DurableJobsSurvive == durable => \A j \in Jobs : Fate(j) # "lost"

\* A replica queues one job for a source, one more at most for each claim that
\* expired or was lost with the process.
JobsPerSourceBounded ==
  \A r \in Replicas, x \in Sources :
    Cardinality({j \in Jobs : source[j] = <<r, x>>}) <= 1 + expiries + mishaps

\* No job stays in the queue or in a worker's hand for ever.
JobsSettle == \A j \in Jobs : (Fate(j) = "pending") ~> (Fate(j) # "pending")
=============================================================================
