# A TLA+ model of DevOps Copilot

DevOps Copilot is an agent that investigates production incidents: it plans,
calls tools (logs, metrics, code, Kubernetes, GitHub), pauses for a human before
anything that writes, synthesises a root-cause report, verifies the fix it
proposes, and remembers what it learned. Around it stand a multi-tenant HTTP
service, background jobs, a tenant database, and an autonomous remediation path.
These modules model what is stateful in it, TLC checks small instances, and TLAPS
proves their safety properties for all of them. `PROJECT.json` maps every
definition to the lines it stands for.

All paths are relative to the repository (`src/`). The reference is the code; a
comment is used only where it states what the code is meant to do.

## 1. The system's parts

| part | state | operations | hard behaviour | correct when |
|---|---|---|---|---|
| agent graph (`app/graph`) | the LangGraph checkpoint: messages, plan, iteration, status, tokens, report, verification, attempts | nodes plan, agent, approval, tools, reflect, report, verify and three routes | a node dies before its checkpoint; three back edges; additive channels | no write without an approval; open tool calls are answered; every turn ends, within budget, with its own report |
| session (`app/session.py`) | one thread of the checkpointer | ask, resume (with the confidence gate), pending_interrupt | a thread is "pending" for more reasons than an approval | only an approval lets a write run |
| policy (`app/policy.py`) | tables | classify, evidence_confidence, confidence_gate | order of the confidence tiers | automatic approval needs evidence that matches the risk |
| configuration gate (`app/api/main.py`) | reader count, writer flag, waiting writers, one condition | turn(), exclusive() | cancellation inside a wait; starvation | a change runs alone and gets in |
| session pool (`app/api/main.py`) | sessions, thread locks, running and awaiting sets, last use | the handlers that run turns, build, evict, evict all | state read before an await and used after it; locks dropped while in use; clients that leave | no session lost, outdated or torn down in use, no deadlock |
| runtime configuration (`app/runtime.py`, `tenant_context.py`) | overrides over the `.env`; a tenant's own configuration | model, GitHub and source endpoints; reset | changed before the gate is asked for | sessions are built with what holds |
| background jobs (`app/jobqueue.py`) | a list, a dead-letter list | enqueue, dequeue, retry with backoff, dead-letter | a restart between pop and finish | no job is lost silently |
| SLO poller, burn rate | last firing per service | tick, select_alerts, compute_burn_rate | a trigger that fails after it was stamped | one investigation per cooldown |
| webhook intake (`app/api/main.py`) | claimed deliveries | PagerDuty, Slack, Stripe | redelivery | an incident is investigated once |
| tenancy (`app/tenancy`), vault, governance | orgs, users, members, keys, secrets, usage (SQLite) | authenticate, provision, quotas, rotate and shred keys, erase | every store call has a connection of its own; count then insert; rotation beside a write | quotas hold up to overlaps, secrets stay readable until shredded, erased means erased |
| metering, spend, billing | usage rows, fleet counter, Stripe cursor | meter, add, sync | check then spend; send then mark | usage is charged once |
| model calls (`app/llm.py`, `resilience.py`) | a circuit's failures and opening time, shared by threads | invoke with retry, breaker, failover | half open lets all callers through; nothing locks the breaker | a dead provider is left alone, a recovered one used, every call ends |
| reports (`app/graph/nodes.py`), incident memory, replay | the report; a JSON corpus; a cassette | parse, calibrate, criticise, verify, sandbox; learn; record, replay | several parties set one confidence; read-then-append; torn writes | confidence is earned, the corpus intact, a replay repeats the recording |
| remediation (`app/autonomy.py`), rate limits, audit | requests being watched; windows; buffer, chain, log | remediate, limit, record, verify_chain | a restart in the watch; the buffer wraps | what was done is accounted for |
| other MCP servers, SSO, observability, CLI, frontend, scoring, deployment | I/O and presentation | | | not modelled (section 8) |

A turn goes: handler → authentication and quota gate → configuration gate
(shared) → thread lock → session from the pool (built under the pool lock,
evicting others) → `ask` or `resume` → graph super-steps, each checkpointed →
either an interrupt for approval or a report → metering → locks released. A
change of configuration sets an override at once, then takes the gate exclusively
and evicts all sessions. Handlers run on one asyncio event loop, so what lies
between two awaits is one step; graph nodes run in threads; what a node does
between two checkpoints is lost as a whole or kept as a whole, except for its
effects on the outside.

## 2. The modules

| module | models | state and actions against the code |
|---|---|---|
| `Policy` | `policy.py` | the functions of those names; a tool is its name |
| `AgentGraph` | `graph/*.py`, `session.py`, one thread | the first variables are the channels of `AgentState` with `next` for the checkpoint's pending node; `phase`, `steps`, `cmd` are the invocation in flight; the rest is history. One action per node (two or three where a node has distinct endings), `Ask` and `Resume` for the callers, `Finish`, `OutOfSteps`, `Abort` for the ways an invocation ends |
| `RWGate` | what `_ConfigGate` promises | sets of turns, waiting changes and the change inside |
| `ConfigGate` | `_ConfigGate` on `asyncio.Condition` | `_readers`, `_writer`, `_writers_waiting`; the condition's waiters and the loop's ready queue; one action per run of a task between two awaits, and `Cancel` |
| `RuntimeConfig` | `runtime.py`, a tenant's configuration, `_server_config`, `get_llm`'s inputs, the configuration endpoints | operators only: the overrides as a record, its readers, and what each endpoint makes of it (a model without a key is rolled back) |
| `SessionPool` | the handlers that run turns and the ones that change the configuration | `_SESSIONS`, `_THREAD_LOCKS`, `_RUNNING`, `_AWAITING`, `_LAST_USED`, with session and lock objects as numbers so that "the same lock" can be told from "a new lock for the same thread"; `pc` is the await a request stands at; `overrides`, and for each session what it was `made` with |
| `JobFates` | what becomes of a job | each job's fate, its failures, the mishaps; a failure that the handler swallows is a fate of its own |
| `BurnRate` | `compute_burn_rate`, `select_alerts` | operators over a short error-rate series |
| `JobQueue` | `jobqueue.py`, the PagerDuty webhook's claim, the SLO poller | a queue and dead letters per store (Redis, or each process), a worker's stage and the job in its hand, the claims of each replica. One action per await of `process_one`; `Restart`, `Hiccup` and `PostFails` are the mishaps |
| `TenantStore` | `tenancy/store.py`, `models.py`, `secrets_vault.py` | the database as a record of tables, one operator per store call |
| `TenantRequests` | the admin, SCIM, sign-up and Stripe endpoints, authentication, metering, spend, billing, governance | a request is a script of store calls and `at` its place in it; `seen` is what its earlier calls returned. Requests interleave between any two calls. An investigation that pauses ends unmetered; `approve` and `triggered` run and charge with no check before them. Request ids are the caller's |
| `ModelCalls` | `llm.py`'s resilient model, `resilience.py` | the breaker's two fields, and for each thread its place, its attempts, its exception and the count it has loaded. Nothing locks the breaker, so every load and store of a field is a step: `state` reads the opening time twice, `_on_success` writes both fields, `_on_failure` loads, stores and tests the count before it stamps the opening time |
| `RcaReport` | the report in `nodes.py`, `sandbox.py`'s verdict | operators: parse, normalise, score, calibrate, ground, criticise, reconcile, render |
| `Reporting` | the nodes plan to verify as far as the report is concerned, `incident_memory.py`, `replay.py`, the golden runs | per investigation its place, report and findings; the corpus file (`Holding` a list of records, or `Torn`: opened for writing and not written), what was read of it; the prompts by what they say, and the cassette, whose keys are prompts and nothing else; `heard` remembers all answers |
| `AuditTrail`, `RateLimit` | `audit.py`; `ratelimit.py` | operators on a trail, on windows, on counters |
| `Remediation` | `autonomy.py`, `POST /remediate`, the two deployment tools | per request its place, plan and end of watch; the clock, the limiter's and the trail's state. The second reading may raise, a restart of a deployment may time out before or after it took effect, an append to the log may fail |
| `AgentGraphProofs`, `ConfigGateProofs`, `ModelCallsProofs`, `SessionPoolProofs`, `JobQueueProofs`, `TenantRequestsProofs`, `ReportingProofs`, `RemediationProofs` | theorems about the modules they extend | section 4 |
| `MC*` | instances for TLC | |

How they compose: `SessionPool` extends `RWGate`, the abstract gate, and
`RuntimeConfig`; `ConfigGate` is shown, by TLC and by proof, to implement the
gate, so the pool is not multiplied with the gate's queues, and what it relies on
is established below it. `AgentGraph` is one thread; `SessionPool` abstracts a
turn to what the pool sees of it, and `Reporting` abstracts the agent's loop to
what it found. `AskWhilePaused` in `AgentGraph` is the contract between the two:
FALSE is the check `/chat` makes, TRUE the triggered path, which does not make it;
the passing run has it TRUE.
`TenantRequests` extends `TenantStore`; `JobQueue` and `Remediation` both read
`BurnRate`; `JobQueue` refines `JobFates`; `Remediation` composes `AuditTrail` and
`RateLimit`.

### What the abstraction keeps and drops

* In `AgentGraph` a model's answer is any set of tool names, any status, any
  report, any verdict. A history is the number of tool results, the calls still
  open and the pull requests proposed, which is all that routes and gates read.
  An assistant message calls a tool at most once: two calls of one tool in one
  message are routed, shown and executed together, as one is.
* `tokens` grows by 0 to `MaxCost` per node that calls a model (or, with a JSON
  repair, calls it twice: `MaxCost` is what the node adds).
* `Abort` is whatever ends an invocation in the middle of a node: an exception,
  a cancelled request, a restart. The checkpoint is that before the node; of the
  tools any part may have run, and verify may have filed the report.
* In `SessionPool` the handlers differ where the code differs: when `existed` is
  read, who is refused, who evicts and on which side of the lock, and who may
  lose its client (the two streams). Cancellation is otherwise in `ConfigGate`
  only. Keys, models and repositories are opaque values.
* In `JobQueue` a handler returns, raises, or returns from a failure it swallowed.
  The one in production never raises; the retries are those the queue's tests
  drive. `durable` is chosen at
  the start: both stores are explored in one run. The fallback without a worker
  (a detached task) is left out.
* In `TenantRequests` a secret's value is the request that wrote it, and a
  ciphertext is the data key it is under. SQLite makes each store call one
  transaction, except `get_integration_secrets`, `set_integration_secret` and
  `rotate_org_dek`, which open a connection per step and are several steps here.
  Usage is that of one month, and `usage_total`'s sum of amounts is counted unit
  by unit. Seats are taken for one address, the newcomer's: requests that add a
  member or provision one meet in one row.
* The pool evicts the session that was used longest ago. `Oldest` is a set, of one
  thread as each is in `recency` once, so that the proofs need not show it unique.
* In `RcaReport` an item of evidence is what the grounding check makes of it
  (seen, unseen, with no word to look for, empty), the items a report cites are the
  places they stand at (its own list, or a hypothesis'), and a cause is its text up
  to case. Similarity search over the corpus is its set of causes.
* In `AuditTrail` the hash of an entry is the sequence it folds in, so hashes do
  not collide.
* `ModelCalls` has time as what it does to the breaker; `Remediation` has a clock.

## 3. The runs

| run | instance | what it shows |
|---|---|---|
| `AgentGraph_turns` | a read and a write of medium risk, cap 2, budget 1, two turns, three revisions, one abort, turns asked on a paused thread, verification on and off | `WritesAreGranted`: even after a death and a resume nothing runs that did not pass the approval node. `WritesFollowApproval`, `WritesWereShown`: a write runs only after an approval of a card that listed all that runs with it, unless an invocation was cut off in the tools or the approval node. `ExecutionsBounded`: at-least-once, counted. `HistoryAnswered`: the model sees open tool calls only where a triggered turn was asked over some. `OvershootBounded`: the token ceiling is passed by at most four nodes' cost. `ReportAnswersThisTurn`: the second turn never returns the first turn's report. `NoRecursionError`: four times the cap plus ten super-steps are enough unless the thread was revised too often. `LearnedOnce`: a report is filed once however often it is revised, and once more per death. `TurnCompletes` under fairness, also through `OutOfSteps`, which this instance reaches |
| `ConfigGate_gate` | three turn tasks that come back for ever, two writers, cancellation anywhere | `GateRefined` (mutual exclusion and writer preference, as a refinement), `TurnsAreWoken` (nobody sleeps with no one to wake them), `ChangeGetsIn` (a never-ending stream of turns starves no change; without the preference for writers it would) |
| `SessionPool_pool` | a chat, a streamed answer and a streamed chat on one thread, a trigger on a second, one change of the model with a key or without, pool of one, clients that leave | `NoLeakedSession`, `ChangeIsAlone`, `EverythingEnds`. `SessionsAreCurrent`: once the change is through, no session is left that was built, in part or in whole, before it, although overrides change while sessions are being built |
| `JobQueue_jobs` | two replicas with Redis and without, an incident and a service, two jobs, two attempts, one mishap, one expired claim | `FatesKept`: refinement of `JobFates` (no job is buried before its attempts are used up, finished twice, or lost without a mishap; with Redis one at most by each; a failure is forgotten only where the handler swallows it). `JobsSettle`: no job waits for ever. `JobsPerSourceBounded`: deliveries that come again to a replica queue nothing there |
| `TenantRequests_tenants` | twenty-one workloads of two or three requests that meet in one table, from a database with and without a data key, a customer and room in the quotas | `LimitsOvershootByOverlap`: quotas and the fleet cap are passed only by as many requests as were past the check together, by investigations let in while the cap could not be read, and by the requests that pass no check: approvals, triggered runs, provisioning. `SecretsReadable`: what is stored decrypts, with the last value, if no key change overlapped. `ErasureLeavesNothing`: what survives an erasure was written by requests in flight. `BillingMatchesLedger`: a synced row is billed, and none twice, whatever crashes between send and mark |
| `ModelCalls_calls` | two threads, four calls, three attempts, threshold three, a fallback | `AttemptsBounded`, `CallsEnd` on a call; `FailoverWhenUnavailable`: the other provider is asked after the last transient error or the open circuit, never after a permanent error or the breaker's own bug; `OpenIsEarned` on the breaker: however the stores of two threads interleave, it stands open or half open only after as many failures as it takes since a success that overlapped none |
| `Reporting_learn` | two investigations, six replies of the first, four findings, five settings (one records two runs with one question), one mishap | `PageCanBeTrusted`: what the page says with confidence has evidence, a named cause, corroboration and an unshaken review behind it, through revisions and failed calls. `LearnedIsIntact`: the corpus loses or doubles nothing unless two runs learn together or a write is torn. `ReplayReproduces`: a replayed run ends as it was recorded unless one of its prompts was answered in two ways, or the recording learned |
| `Remediation_autonomy` | three requests of two clients, one other event, limit 1, window 2, a clock of 2, buffer 2, one restart, one fault, one failing append, with and without a log | `ChangesAreAccounted`: autonomy restarts a deployment once at most for a request, for one that passed every gate, and the log has a request iff it was answered with an outcome and its append succeeded, under the status the caller was told. `RateHolds`: the limit within a window up to the window's edges, restarts and faults. `ChainHolds`: the buffer verifies until it wraps, the log while one process wrote it and every append succeeded, and a log that verifies is the beginning of what was recorded |
| four `_v_` runs | small instances | the disagreements of section 7 that a run shows, each one property |

Every property of a passing run has a mutant of the code in `PROJECT.json` that
breaks it. `CHECK_DEADLOCK FALSE` stands in every configuration because the
bounded inputs (turns, requests, calls) run out and the system then
rests; that nothing rests too early is the liveness properties' business
(`TurnCompletes`, `ChangeGetsIn`, `EverythingEnds`, `JobsSettle`, `CallsEnd`) and,
for sleeping turns, `TurnsAreWoken`.

### Bounds and why they are enough

* A read and a write are the two classes the routes tell apart, and
  `create_pull_request` is the write that verify looks for. A write of high risk
  differs at the confidence gate only; `AgentGraph_v_rejected` has one. The
  proofs are for any tools.
* `MaxIterations` 2 gives a round with tools and one without, so every back edge
  is taken with the counter on both sides of the cap; the proofs are for any cap.
  `EvidenceBound` 2 tells low confidence from medium, which is what the gate for a
  medium risk asks.
* Two turns are the least that can mix a turn's state with an earlier one's;
  one abort is the least that can lose a node. Three revisions are the least
  that reach the recursion limit at this cap.
* `MaxTokens` 1 with `MaxCost` 1 reaches the ceiling in the middle of a turn and
  before a second one.
* Three turn tasks and two writers make the gate queue of both kinds; tasks come
  back without a bound, so that turns may overlap for ever.
* Three requests on one thread are the least with a holder, a waiter and a
  newcomer, the three that an evicted lock needs; the second thread is there to
  be evicted or to evict under `Cap` 1. One change is enough for sessions built
  before, during and after it.
* Two jobs let one overtake the other through a retry, and two replicas compete
  for them; two attempts have a first and a last. One mishap is enough for a
  bound that is linear in them.
* `TenantRequests`: one workload sends one request id with all its requests, the
  others send different ones. The races are between two requests' scripts, the third is what
  shows a race's outcome (a second rotation, a link made after a sync, a third
  investigation at the cap). The workloads are those that write a table another
  reads; requests on disjoint tables commute. Quotas start one below the free
  plan's limits, or at them.
* `ModelCalls`: the code's own attempts. Four calls of three attempts fail twelve
  times at most, so a threshold of three is passed by one thread alone and by two
  that lose each other's counts, and a half-open circuit is probed by both; the
  proofs are for any number of threads and any threshold.
* `Reporting`: two investigations are the least that meet in the corpus; the
  replies have every class of verdict and evidence and up to three hypotheses.
  Lists of evidence stay below the caps of 8 and 20 that the parser cuts at.
* `Remediation`: buffer 2 wraps with three events; limit 1 and window 2 put two
  hits on both sides of a window's edge; a clock of 2 reaches into the second
  window, and a watch of 1 ends within it, before or after the restart. One
  append that fails leaves a gap between two that do not.
* `BurnRate`: series of up to two points with rates below, between and above the
  thresholds 1, 6 and 14.4, which make every verdict.

### Fairness

* `AgentGraph`: weak fairness of the nodes (the event loop drives an invocation in
  flight; model and tool calls have time-outs and end in a result or an
  exception) and of `Answer` (a person answers a card, or re-sends the answer
  after a failure). The second is an assumption on people; nothing
  in the code times an approval out.
* `ConfigGate`: weak fairness of the ready queue's head and of leaving the gate.
  Arrival and cancellation are not fair.
* `SessionPool`: weak fairness of each task. asyncio runs every ready task;
  its locks are first come first served, which weak fairness of bounded tasks
  does not need.
* `JobQueue`: weak fairness of each worker. Deliveries, ticks, expiries and mishaps
  are not fair.
* `ModelCalls`: weak fairness of each thread's steps: threads are scheduled, a
  provider's call ends by its client's time-out, a sleep ends. Time is not fair: a
  circuit may stay open, and calls end nevertheless.

`TenantRequests`, `Reporting` and `Remediation` state safety only, and no
fairness.

## 4. The proofs

Every invariant and every action property of the passing runs is also a theorem,
proved for every value of the constants under the assumptions that the modules
name. Two refinements are proved step by step (`GateImplemented`,
`JobsMeetTheirFates`). For each property there is an inductive invariant: it holds at
first, every action keeps it, and it implies the property. What it adds to the property is said below.

`AgentGraphProofs` (for every finite set of tools, cap, budget, number of
turns and aborts):

* `TypeCorrect`: inductive as it stands, with `JudgeType` for the verdict and
  `CountedType` for the bounded count.
* `GateHolds`: `GateInv` says that every write of a message whose tools are about
  to run has been granted. It is needed because the property speaks of a step
  and the permission was given earlier, perhaps in an invocation that has died
  since. No assumption: it covers aborts and turns asked on a paused thread.
* `HistoryIsAnswered`: `HistoryInv`, open calls only before approval or tools, or on
  a thread that a triggered turn was asked on over some (`stranded`, section 7).
* `ExecutionsAreBounded`, `ReportIsFresh`, `LearnedIsBounded`: each with a
  strengthening that says what is still to come at the current node (an
  execution, a report, a filing).
* `OvershootIsBounded`: `SpendInv` says how much of the overshoot each node may
  have used on arrival. The loop is the difficulty: the share grows along agent,
  reflect, report, verify and must not grow round a cycle; it does not, since
  no back edge is taken once the budget is gone.
* `RecursionLimitSuffices`: `StepInv`, steps taken plus steps still to go
  (`StepsToGo`, a ranking over nodes and iteration with `Spare`, the steps that the
  revisions so far have left) are within the limit as long as there are some to
  spare: while 4 × revisions ≤ 2 × cap + 6. With the defaults (8 and 1) that is
  always; a deployment that raises COPILOT_VERIFY_MAX_ATTEMPTS without the cap can
  reach the limit, as `AgentGraph_turns` does.
* `ApprovalIsFollowed`, `ExecutedWasShown`: from `ReviewInv` (a thread waits at the
  gate with its card shown; a write about to run was on the card and follows an
  approval). Invocations may die anywhere. What a death costs is in the statement:
  a thread cut off in the tools node is resumed by any answer, one cut off in the
  approval node before its card was surfaced is approved unseen (`cutAt`);
  `AgentGraph_v_rejected` shows the first.

`ConfigGateProofs` (for any finite sets of tasks):

* `TypeCorrect` and `GateImplemented`. `GateInv` ties the counters to the tasks:
  `readers` is the number of turns inside, `writersWaiting` the number of writers
  waiting, `writer` is held exactly when one is inside, and then alone. The code
  decides by the counters and the abstract gate by the sets, so nothing maps
  without it; cancellation is where a count could drift. `TurnMaps`,
  `ExclusiveMaps` and `StepMaps` map each step to a step of the abstract gate or
  to a stutter.
* `SleepersAreWoken`: `WakeInv` says more than the property. Every writer that waits
  is in one of the two queues, and as long as the condition has any waiter there is
  somebody inside or a writer about to look again. The first part is what a turn
  needs that goes to sleep because a writer waits: that writer sleeps itself and
  has a waker, or is one.

`ModelCallsProofs` (for any finite set of threads, any attempts and threshold
above zero, with or without another provider):

* One invariant, `IInv`: types, `Counted` and `OpenIsEarned` for the breaker, and for
  each thread `Progress`, which says where its attempts stand at its place (room is
  left wherever another attempt will be made). `TypeCorrect`, `AttemptsAreBounded`,
  `CircuitIsEarned` and `FailoverIsLast` follow from it.
* `Counted` is what survives without a lock. Two increments may become one and a
  reset may be overwritten by an older count, so the field says nothing exact; but
  it, or what a thread has loaded of it, plus the threads that have not counted
  their failure yet is never more than the failures since a success that overlapped
  no recording. A thread about to stamp the opening time has seen enough of them.
`SessionPoolProofs` (for any requests, tenants, pool cap and changes, finitely many
threads, of which each belongs to one tenant, as thread identifiers carry its name):

* One invariant, `IInv`. `Gated` puts whoever holds or waits for a thread's lock
  inside the gate, so that no change evicts meanwhile; `PoolLocked` says one
  request at a time is in the pool lock, and builds for a thread that has no
  session; `OwnSessions` gives no two threads one session object. `ChangesAreAlone`
  and `NoSessionLeaks` follow: a session is lost only where a second one replaces
  it in the pool, and that is what `PoolLocked` rules out.
* `PooledIsCurrent` needs `BuildIsCurrent` besides: overrides change before the
  gate is asked for, and a build reads them in two steps, so the tool servers of a
  session being built are current unless a change is on its way to evict it.

`JobQueueProofs` (for any finite sets of replicas and jobs, any sources, attempts
above zero, mishaps and expiries; Redis or a queue per process):

* `JobsMeetTheirFates` is the refinement of `JobFates`. `OnePlace` says a job is in
  one queue or one worker's hand, once, and nowhere else when it is done or buried;
  without it "popped" would not be "still pending". `Counted` says that the
  attempts a job carries are the times its handler raised, below the limit until it
  is buried; it is what makes burying a `GiveUp`. A mishap maps to the loss of what
  the queue or the hand held: with Redis one job at most.
* `SourcesAreBounded`: `Paid` counts, for a replica and a source, the jobs queued and
  the one about to be against the claim held and those expired or lost.

`TenantRequestsProofs` (for any workloads, cap and tokens per investigation: any
number of requests of the nineteen kinds, of any kinds together). A first part
lists the scripts and where each call stands in them, so that "past the check" and
"about to write" are arithmetic on `at`.

* `RowsAreTyped`: `TypeInv` adds to the types whose the rows are: only a sign-up
  leaves organization 0, for the one it created.
* `EachRowIsBilledOnce`: `Ledger`; the identifier that Stripe deduplicates by is the
  row's, and whatever a sync is about to mark, it has sent.
* `ErasureIsComplete`: `Erased` says that after the erasure only requests in flight
  then can still write, and that a rotation under way holds values of theirs only.
  The proof attempt showed the property false as it was first stated: a rotation
  that read the secrets before the erasure writes an old value back over a row that
  a late request wrote after it (store.py:369-388). It now excepts `raced`.
* `SecretsStayReadable`: `SecretsInv`, as long as nothing raced: every row is under
  the organization's present key, a request about to write has that key, and a
  rotation about to swap has the present values. `raced` had to count a deletion
  under a rotation too, whose UPDATEs find the rows and no organization.
* `LimitsAreOvershotByOverlap`: `LimitsInv`. For each quota, what is used and what the
  requests past the check may still add stay together within the limit and the
  overlap seen so far (`Room`): a check passes only below the limit, so if nobody
  else is past it the sum is at most the limit, and if others are, the peak grows
  with them; a write moves one from the second set to the first. The same sum, in
  tokens, for the fleet's cap (`SpendInv`), where a check that could not read the
  counter (`blind`) lets one more in. The requests that pass no check (approvals,
  triggered runs, provisioning) are counted as what they may each add. That plans stay is
  part of it (`PlanInv`):
  where one is changed in flight there is no one limit to speak of.

`ReportingProofs` (for any investigations, replies whose lists are lists, natural
scores, and findings):

* `CorpusIsIntact`: `LearnedInv` follows the one that learns through read, append,
  truncate and write: what it holds is the corpus with one new cause, and the file
  holds the corpus except while it is torn.
* `PagesCanBeTrusted`: `PageInv` says of a report, from the report node on, that its
  confidence is as high as its evidence, critique and verdict allow and that the
  page says what the report says. It holds through revisions because a new
  report is calibrated from nothing and each stage after that only lowers:
  the lemmas are about `CalibrateConfidence`, `VerifyGrounding`, the
  critique and the reconciliation as operators, on lists of any length.
* `ReplaysReproduce`: `PathInv`, the deepest of these. What a run asks and where an
  answer takes it depends on its place, report, findings and passes alone
  (`Prompt`, `After`); so each run being recorded has come along a `Path` of answers
  that were `heard` for its prompts (`RecordInv`), and each run being replayed
  stands on a path that ends as recorded (`ReplayInv`). The cassette holds one of the
  answers heard for a prompt (`CassetteInv`); where a run's prompts were answered in
  one way each (`~Clashed`), it is the one on the path. The other exceptions
  are a corpus that was added to, and the sandbox.

`RemediationProofs` (for any requests, clients, limit and window above zero, buffer,
restarts and faults):

* `ChainsVerify`: `BufferInv` and `LogInv` say that each entry's hash folds in its
  predecessor's, that the buffer's first entry folds in the empty hash until
  something was pushed out, and the log's as long as one process wrote it and no
  append failed; an entry of the log after a lost one folds in an event that the
  log lacks, so that a log that verifies is the beginning of what was recorded.
* `ChangesAreKnown`: `ChangeInv`, one case for each place a request can be at, ties
  how often it restarted to what the log says of it, or to the exception or the
  failed append for which the log says nothing.
* `RatesAreBounded`: in memory (`MemoryInv`), the hits since any moment less than a
  window ago are bounded by what the present window counts, its limit for the one
  that ended and its limit for each restart; one less, since a window starts with a
  hit. In Redis (`RedisInv`), two buckets cover any window, and what a bucket let in
  beyond its count is a failed call's, which the two share. The hits are a set of
  records rather than a matrix of numbers so that they can be counted for any clock.

What is proved rests on these assumptions only: those on constants that the modules
name (`ASSUME`; TLC evaluates each on every run), and the model; no theorem has
other hypotheses.

Model-checked only: the liveness properties (`TurnCompletes`, `ChangeGetsIn`,
`EverythingEnds`, `JobsSettle`, `CallsEnd`), which need ENABLED and so are out of the
prover's reach, and the burn rates of `BurnRate`, which are folds over series of any
length and would need induction over data (`JobQueue` and `Remediation` are proved
whatever a verdict says). Three things were changed in the modules so that they
could be reasoned about without such induction: a list without its empty items is
the list of the items `At` the remaining places, the items of evidence are counted
by their places, and a sum of amounts by its `Units`.

## 5. Hazards

`PROJECT.json` lists what is hard to test at the line where it bites, with the
properties that watch it. Those without a property say why: most of them do go
wrong (section 7). Four disagreements have a run of their own, one for each of
approvals, turns on a thread, durable jobs and accounts; for the others section 7
names the lines, and the passing properties say exactly what is left, with the
exception named in the formula (`stranded`, `cutAt`, `blind`, `Clashed`, `unlogged`).

## 6. Plan

Done: the core (gate, pool, graph, jobs), then configuration, tenancy and money,
model calls, reports and memory, remediation; then the proofs of every safety
property. What is left, by what it would add:

1. An abstract specification of the tenant store's limits and of the report's
   confidence, refined by `TenantRequests` and `Reporting` as the gate and the job
   queue are; now the proofs go through invariants directly.
2. `SessionPool` over `ConfigGate` instead of `RWGate`: the composition is by the
   refinement of the gate, which is proved, and not as one module.
3. The drain at shutdown and the cancellation of plain requests in `SessionPool`;
   a tenant's configuration as state there, with secrets that change.
4. `correlation.py`'s ranking against a reference definition; the SLO aggregates;
   the prompt registry.

## 7. Where the code and its comments disagree

Each of these four is a run that TLC must find violated, quoted in `PROJECT.json`.

* `AgentGraph_v_rejected`: a thread that died in the tools node after an approval
  counts as awaiting approval (`session.py:84`), and a rejection then executes the
  write (`nodes.py:218`).
* `JobQueue_v_restart`: "so jobs survive a restart" (`jobqueue.py:10`) holds of the
  queue in Redis and not of the job a worker has popped.
* `SessionPool_v_turns`: an evicted thread's lock is replaced while a request
  waits for the old one, and two turns run on the thread. The eviction comes from
  a refused `/approve` on a thread that was not pooled.
* `TenantRequests_v_signup`: two sign-ups with one address both get an
  organization.

Seen while modelling, and without a run:

* Agent. The tokens a turn returns and is metered and charged are the thread's
  running sum (`session.py:186`, against "this turn" in `session.py:33`,
  `state.py:42` and `main.py:624`): the second turn of a thread pays for the first
  one again. No property says otherwise. Neither the sum nor `verify_attempts` is
  ever reset, so later turns of a thread get no revision pass and, past the ceiling,
  no tools. Rejections count as evidence, so repeated rejections make an automatic
  approval possible with no tool having run (`session.py:139` against
  `policy.py:35,133`). The triggered path asks on a paused thread, over its open
  calls (`main.py:1419` against `main.py:910`); `stranded` marks such threads. A
  thread cut off before its card was surfaced counts as awaiting approval too, and
  is approved unseen (`session.py:84`); `cutAt` marks those.
* Gate and pool. A writer cancelled between its notification and its run can leave
  turns asleep at an empty gate (`dropped` in `ConfigGate`) until the next change.
  A failed first chat evicts after it let go of the lock, under a request that got
  it meanwhile (`main.py:934` against `main.py:303`). The triggered path never
  unmarks a thread as awaiting.
* Configuration. For a tenant, `/model/configure` and the source endpoints change
  only the process-wide overrides, which its own sessions do not read, after
  checking the tenant's own key. `build_tenant_config` sets no repository or logs
  directory, so every tenant's file tools read the host's. Two model changes that
  wait together are both audited under the last one's provider, and a tenant's new
  secrets do not reach its pooled sessions. An approval given before a change of
  the repository is carried out against the new one.
* Jobs. The only handler installed never raises, as it logs its failures
  (`main.py:1427`, against "Raises on failure so the worker retries",
  `main.py:1390`, and `jobqueue.py:3-6`), so that nothing is ever retried or
  buried and a failed investigation ends as done: the fate `swallowed` in
  `JobFates`. A claim stands when queueing fails, and a job is lost when pushing it
  back fails.
* Money. The fleet's cap is called a hard ceiling (`spend.py:3-6`). It is looked at
  before an investigation only: approvals (`main.py:941-963`, `1060-1096`) and triggered
  runs (`main.py:1410-1425`) are charged with no look, overlapping investigations
  pass together, and a Redis that cannot be read counts as zero. An approval also uses a
  unit of the tenant's quota that no gate asked for, and Slack's approval of a
  triggered run is neither metered nor charged. Usage rows are keyed by the
  X-Request-ID that the client sends (`main.py:251`, `metering.py:30`): a second
  completion under one id has its rows dropped.
* Model calls. A half-open circuit lets every thread probe (`resilience.py:81`
  says one). The breaker has no lock: `state` reads the opening time twice and raises
  a TypeError when a success clears it in between; a success between the test and
  the stamp of a failure leaves a circuit open with no failure counted, and a
  failed probe of that circuit does not open it again (`resilience.py:111-118`). An
  open circuit never fails over to the other provider, as its error has none of the
  markers of a transient one, where `config.py:242` says that a primary that stays
  unavailable does; `FailoverWhenUnavailable` allows it. `with_structured_output`
  bypasses retry and breaker.
* Reports and memory. A report weakened to low confidence is learned like any
  other. Two runs that learn together lose or double entries
  (`incident_memory.py:186` says deduplicated), and a write that stops half-way
  leaves an unreadable corpus that reads as an empty one. Golden runs record with
  learning on, and then miss on replay. A cassette's key is what a prompt says
  (`replay.py:74-82`), so equal prompts of two passes or of two runs with one
  question share an entry: the later answer overwrites the earlier, and a replay then
  ends differently (against "make a whole investigation reproducible" in its
  docstring); `Clashed` marks those runs. A reproducer that times out or cannot
  start counts as having reproduced the incident (`sandbox.py:50-53,108`).
* Remediation and audit. A burn rate that cannot be read counts as recovered
  (`autonomy.py:64`), where the poller skips it. The compensation of a rollback is
  a restart, and no tool's result is looked at: a live rollback does nothing. A
  restart of the process in the watch leaves the change without an audit entry.
  So does a second reading that raises (`autonomy.py:96`), and a live restart or a
  compensation that times out, though the change was made. `/audit/verify` is to tell
  tampering (`main.py:1163`, `docs/HARDENING.md:35`): it reports an untouched trail broken
  once the buffer has wrapped, and an untouched log is broken after a restart or
  after an append that failed, which is swallowed while the chain moves on
  (`audit.py:63-68`). An entry cut off a log's end is not noticed.

## 8. Not modelled, and why

MCP servers other than those named (remote and file I/O, answers are
nondeterministic here), provider clients, the cipher and the token signatures
(libraries), single sign-on and the read-only endpoints (no state), redaction and
guardrails on text, observability, CLI, frontend, scoring and deployment
(presentation or offline arithmetic), similarity search and storm ranking
(computations without state), SLO aggregates and the prompt registry (display and
text). Within the modelled parts section 2 names what is left out.

## 9. Running

    tlc -config AgentGraph_turns.cfg MCAgentGraph.tla
    tlapm TenantRequestsProofs.tla

The largest run is `Remediation_autonomy` (2.0 million states, about a minute); the
slowest are `JobQueue_jobs` (0.4 million with liveness), `AgentGraph_turns` (1.3
million with liveness) and `SessionPool_pool` (0.8 million with liveness), of two to
three minutes each. The proofs of `TenantRequestsProofs` take about five minutes,
the others less.
