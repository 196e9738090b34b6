---------------------------- MODULE Remediation ----------------------------
(***************************************************************************)
(* POST /remediate (main.py, autonomy.py): the rate limit and the gates a  *)
(* request passes, the action on the cluster, the watch of the signal, the *)
(* compensating action, and the audit entry at the very end.  Requests     *)
(* overlap while they watch; the process may restart at any point.         *)
(***************************************************************************)
EXTENDS AuditTrail, RateLimit, BurnRate

CONSTANTS Clients,
          Settings,      \* [autonomy, dryrun, redis, log]: the last is COPILOT_AUDIT_LOG
          Watch,         \* copilot_autonomy_watch_s, in ticks
          MaxRequests, MaxTime, MaxRestarts, MaxFaults, MaxOthers,
          MaxUnlogged    \* bound: appends to the log that fail

ASSUME BoundsAssumption ==
    /\ {Watch, MaxRequests, MaxTime, MaxRestarts, MaxFaults, MaxOthers,
        MaxUnlogged} \subseteq Nat
    /\ Settings \subseteq [autonomy : BOOLEAN, dryrun : BOOLEAN, redis : BOOLEAN, log : BOOLEAN]

Requests == 1 .. MaxRequests

VARIABLES pc, plan, until,             \* of each request
          settings, now, trail, windows, counters,
          restarts, faults, others,
          hits,       \* ghost: the requests let in, of which client and when
          restarted,  \* ghost: how often a request restarted a deployment
          processes,  \* ghost: processes that wrote to the log
          unlogged    \* ghost: requests (0: another event) whose append failed

request == <<pc, plan, until>>
limiter == <<windows, counters, hits>>
record == <<trail, processes, unlogged>>
vars == <<request, limiter, settings, now, record, restarts, faults, others, restarted>>

Reversible == {"rollback_deployment", "restart_deployment"}
Actions == Reversible \cup {"scale_deployment"}

Init ==
    /\ settings \in Settings
    /\ pc = [r \in Requests |-> "new"]
    /\ plan = [r \in Requests |-> "none"]
    /\ until = [r \in Requests |-> 0]
    /\ now = 0 /\ trail = EmptyTrail
    /\ windows = <<>> /\ counters = <<>>
    /\ hits = {}
    /\ restarts = 0 /\ faults = 0 /\ others = 0
    /\ restarted = [r \in Requests |-> 0]
    /\ processes = {} /\ unlogged = {}

(***************************************************************************)
(* The limiter.  When Redis fails the request is let in, counted or not.   *)
(***************************************************************************)
Admits(c, admitted) ==
    \/ /\ ~settings.redis
       /\ windows' = CountInMemory(windows, c, now)
       /\ admitted = (windows'[c].count <= Limit)
       /\ UNCHANGED <<counters, faults>>
    \/ /\ settings.redis
       /\ counters' = CountInRedis(counters, c, now)
       /\ admitted = (counters'[Bucket(c, now)] <= Limit)
       /\ UNCHANGED <<windows, faults>>
    \/ /\ settings.redis /\ faults < MaxFaults
       /\ faults' = faults + 1
       /\ admitted = TRUE
       /\ counters' \in {counters, CountInRedis(counters, c, now)}
       /\ UNCHANGED windows

\* audit.record: the append happens, or there is no log, or it fails unnoticed.
Recorded(r, status) ==
    \E appended \in BOOLEAN :
        /\ appended => settings.log
        /\ settings.log /\ ~appended => Cardinality(unlogged) < MaxUnlogged
        /\ trail' = RecordEvent(trail, [request |-> r, status |-> status], appended)
        /\ processes' = IF appended THEN processes \cup {restarts} ELSE processes
        /\ unlogged' = IF settings.log /\ ~appended THEN unlogged \cup {r} ELSE unlogged

IsEligible(action, confidence) ==
    settings.autonomy /\ action \in Reversible /\ confidence = "high"

\* The tools' results are not looked at.  A live rollback is left to GitOps; a
\* live restart may raise before it took effect ("refused") or after
\* ("timed_out"), which ends the request.
Endings(action) == IF action = "restart_deployment" THEN {"returned", "refused", "timed_out"}
                   ELSE {"returned"}
Execute(r, action, ending) ==
    restarted' = [restarted EXCEPT ![r] =
        @ + IF action = "restart_deployment" /\ ending # "refused" THEN 1 ELSE 0]

\* The signal could not be read: an HTTP error of the monitoring service ends
\* the request, with nothing recorded.
Unread(r) ==
    /\ pc' = [pc EXCEPT ![r] = "failed"]
    /\ UNCHANGED <<restarted, record>>

Remediate(r, action) ==
    /\ plan' = [plan EXCEPT ![r] = action]
    /\ \/ Unread(r) /\ UNCHANGED until
       \/ /\ settings.dryrun
          /\ Recorded(r, "dry_run") /\ pc' = [pc EXCEPT ![r] = "done"]
          /\ UNCHANGED <<until, restarted>>
       \/ /\ ~settings.dryrun
          /\ \E ending \in Endings(action) :
                /\ Execute(r, action, ending)
                /\ \/ /\ ending = "returned"
                      /\ pc' = [pc EXCEPT ![r] = "watching"]
                      /\ until' = [until EXCEPT ![r] = now + Watch]
                   \/ /\ ending # "returned"
                      /\ pc' = [pc EXCEPT ![r] = "failed"]
                      /\ UNCHANGED until
          /\ UNCHANGED record

Ask(r) ==
    /\ pc[r] = "new" /\ \A q \in Requests : q < r => pc[q] # "new"
    /\ \E c \in Clients, action \in Actions, confidence \in {"high", "low"}, admitted \in BOOLEAN :
          /\ Admits(c, admitted)
          /\ hits' = IF admitted THEN hits \cup {[request |-> r, client |-> c, time |-> now]}
                                 ELSE hits
          /\ IF admitted /\ IsEligible(action, confidence)
             THEN Remediate(r, action)
             ELSE /\ pc' = [pc EXCEPT ![r] = "refused"]
                  /\ UNCHANGED <<plan, until, restarted, record>>
    /\ UNCHANGED <<settings, now, restarts, others>>

(***************************************************************************)
(* After the watch: the service's burn rate is read again.  A series       *)
(* without points is an error record, which does not page and counts as    *)
(* recovered.  A signal that got worse and one that stayed are dealt with  *)
(* alike.                                                                  *)
(***************************************************************************)
EvaluateRecovery(after) == IF IsPageWorthy(after) THEN "not_recovered" ELSE "recovered"

\* A plausible mistake: every action that did not help is compensated for.
RevertOfAny(action) == IF action \in Reversible THEN "restart_deployment" ELSE "none"

RevertAction(action) == IF action = "rollback_deployment" THEN "restart_deployment" ELSE "none"

\* The compensation returned, or there is none: the outcome is recorded.
Conclude(r, outcome, revert) ==
    /\ pc' = [pc EXCEPT ![r] = "done"]
    /\ Recorded(r, IF outcome = "recovered" THEN "succeeded"
                   ELSE IF revert # "none" THEN "rolled_back" ELSE "escalated")

Settle(r, outcome) ==
    LET revert == IF outcome = "recovered" THEN "none" ELSE RevertAction(plan[r])
    IN  \E ending \in Endings(revert) :
            /\ Execute(r, revert, ending)
            /\ \/ ending = "returned" /\ Conclude(r, outcome, revert)
               \/ ending # "returned" /\ pc' = [pc EXCEPT ![r] = "failed"]
                                      /\ UNCHANGED record

Judge(r) ==
    /\ pc[r] = "watching" /\ now >= until[r]
    /\ Unread(r) \/ \E after \in Readings : Settle(r, EvaluateRecovery(after))
    /\ until' = [until EXCEPT ![r] = 0]
    /\ UNCHANGED <<plan, limiter, settings, now, restarts, faults, others>>

\* An approval, a key, a redaction: any other event of the trail.
OtherEvent ==
    /\ others < MaxOthers /\ others' = others + 1
    /\ Recorded(0, "other")
    /\ UNCHANGED <<request, limiter, settings, now, restarts, faults, restarted>>

Tick ==
    /\ now < MaxTime /\ now' = now + 1
    /\ UNCHANGED <<request, limiter, settings, record, restarts, faults, others, restarted>>

Restart ==
    /\ restarts < MaxRestarts /\ restarts' = restarts + 1
    /\ pc' = [r \in Requests |-> IF pc[r] = "watching" THEN "lost" ELSE pc[r]]
    /\ trail' = Reopened(trail)
    /\ windows' = <<>>
    /\ UNCHANGED <<plan, until, counters, hits, settings, now, faults, others, restarted, processes,
                   unlogged>>

Next == (\E r \in Requests : Ask(r) \/ Judge(r)) \/ OtherEvent \/ Tick \/ Restart

Spec == Init /\ [][Next]_vars

-----------------------------------------------------------------------------
(***************************************************************************)
(* The buffer of a process verifies while it holds all the process has     *)
(* recorded, and the log while one process wrote it and every append       *)
(* succeeded.  A log of the present process that verifies has no gap: it   *)
(* is the beginning of what was recorded (audit.py:44-83).                 *)
(***************************************************************************)
LogIsBeginning ==
    \A k \in DOMAIN trail.log :
        k <= Len(trail.lastHash) /\ trail.log[k].event = trail.lastHash[k]
ChainHolds ==
    /\ Len(trail.lastHash) <= MaxBuffer => VerifyChain(trail.buffer)
    /\ Cardinality(processes) <= 1 /\ unlogged = {} => VerifyChain(trail.log)
    /\ processes \subseteq {restarts} /\ VerifyChain(trail.log) => LogIsBeginning

(***************************************************************************)
(* A client is let in at most twice the limit within any window's time:    *)
(* once less in memory, whose windows start with a hit, and more only by   *)
(* the restarts that forget the counters and the calls Redis failed        *)
(* (ratelimit.py:30-75).                                                   *)
(***************************************************************************)
InWindow(c, t) ==
    Cardinality({h \in hits : h.client = c /\ h.time > t - Window /\ h.time <= t})
RateHolds ==
    \A c \in Clients, t \in 0 .. MaxTime :
        InWindow(c, t) <= IF settings.redis THEN 2 * Limit + faults
                                            ELSE (2 + restarts) * Limit - 1

(***************************************************************************)
(* Autonomy restarts a deployment at most once for a request, and only     *)
(* where it is enabled and not dry.  A request has an entry in the log iff *)
(* it was answered with an outcome and its append succeeded, one entry,    *)
(* that says what was done; a change without one is watched, was at a      *)
(* restart of the process, ended in an exception, or was not appended      *)
(* (autonomy.py:82-111, main.py:1440-1486).                                *)
(***************************************************************************)
Told(r) == {trail.log[k].event.status : k \in {n \in DOMAIN trail.log : trail.log[n].event.request = r}}
RestartsTold(status, action) ==
    IF status = "rolled_back" \/ (status # "dry_run" /\ action = "restart_deployment") THEN 1 ELSE 0
ChangesAreAccounted ==
    \A r \in Requests :
        /\ restarted[r] > 0 => restarted[r] = 1 /\ settings.autonomy /\ ~settings.dryrun
        /\ Told(r) # {} <=> pc[r] = "done" /\ settings.log /\ r \notin unlogged
        /\ Told(r) # {} =>
              \E status \in Told(r) :
                  Told(r) = {status} /\ restarted[r] = RestartsTold(status, plan[r])
=============================================================================
