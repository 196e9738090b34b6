----------------------------- MODULE AuditTrail -----------------------------
(***************************************************************************)
(* The audit trail (audit.py): a ring buffer of the latest events, a log   *)
(* file where one is configured, and a chain of hashes through both.  The  *)
(* hash of an entry stands for all it folds in: its event after those      *)
(* before it.                                                              *)
(***************************************************************************)
EXTENDS Integers, Sequences

CONSTANT MaxBuffer   \* deque(maxlen=2000)
ASSUME MaxBufferAssumption == MaxBuffer \in Nat \ {0}

NoHash == <<>>
ChainHash(event, prev) == Append(prev, event)

EmptyTrail == [buffer |-> <<>>, lastHash |-> NoHash, log |-> <<>>]

Latest(n, events) == IF Len(events) <= n THEN events
                     ELSE SubSeq(events, Len(events) - n + 1, Len(events))

\* The chain and the buffer advance whether or not the entry was appended to
\* the log: there may be none, and an append that fails is a warning only.
RecordEvent(trail, event, appended) ==
    LET entry == [event |-> event, prev |-> trail.lastHash,
                  hash |-> ChainHash(event, trail.lastHash)]
    IN  [buffer   |-> Latest(MaxBuffer, Append(trail.buffer, entry)),
         lastHash |-> entry.hash,
         log      |-> IF appended THEN Append(trail.log, entry) ELSE trail.log]

\* verify_chain: every link, the first from the empty hash.
VerifyChain(events) ==
    \A k \in DOMAIN events :
        LET prev == IF k = 1 THEN NoHash ELSE events[k - 1].hash
        IN  events[k].prev = prev /\ events[k].hash = ChainHash(events[k].event, prev)

\* A plausible mistake: the chain of the file is continued, and the buffer's is not.
ReopenedFromLog(trail) ==
    [EmptyTrail EXCEPT !.log = trail.log,
                       !.lastHash = IF trail.log = <<>> THEN NoHash ELSE trail.log[Len(trail.log)].hash]

\* A new process knows the log file only as something to append to.
Reopened(trail) == [EmptyTrail EXCEPT !.log = trail.log]

=============================================================================
