----------------------------- MODULE ModelCalls -----------------------------
(***************************************************************************)
(* Calls of the language model through src/app/llm.py and resilience.py:   *)
(* bounded retry, one circuit breaker per model object, and failover to    *)
(* another provider.                                                       *)
(*                                                                         *)
(* The callers are threads that share one model object: report_node probes *)
(* its hypotheses from a pool of threads (nodes._probe_hypotheses), and    *)
(* the same object serves the session's later calls.  The breaker has no   *)
(* lock: every load and every store of its two fields is a step, and       *)
(* threads switch between any two steps.  Time is what Elapse does to an   *)
(* opening time; what a provider answers is a nondeterministic choice.     *)
(***************************************************************************)
EXTENDS Naturals, FiniteSets

CONSTANTS
  Threads,     \* the callers, _MAX_PROBE_WORKERS at most
  Attempts,    \* copilot_llm_retries
  Threshold,   \* failure_threshold of the breaker
  HasFallback, \* copilot_fallback_provider is set and is another provider
  MaxCalls     \* bound: calls made altogether

ASSUME ThreadsAssumption == IsFiniteSet(Threads)
ASSUME AttemptsAssumption == Attempts \in Nat \ {0}
ASSUME ThresholdAssumption == Threshold \in Nat \ {0}
ASSUME FallbackAssumption == HasFallback \in BOOLEAN
ASSUME CallsAssumption == MaxCalls \in Nat

VARIABLES
  failures, \* _failures
  opened,   \* _opened_at: "never", within reset_timeout "recent", else "old"
  loaded,   \* thread -> the count it read and will store incremented, else 0
  pc,       \* thread -> where its call is
  tries,    \* thread -> attempts of its call so far
  error,    \* thread -> the exception its call holds or ended with, or "none"
  calls,    \* calls made so far
  raised    \* history: failures of the provider since a success that overlapped
            \* none of them

breaker == <<failures, opened, loaded, raised>>
vars == <<failures, opened, loaded, pc, tries, error, calls, raised>>

\* "bug" is a TypeError out of the breaker itself.
Errors == {"none", "transient", "permanent", "circuit", "bug"}

\* "succeeded" and "clear" are in _on_success, "failed" to "stamp" in _on_failure.
Recording == {"failed", "store", "test", "stamp"}
Places == {"idle", "look", "age", "provider", "succeeded", "clear", "backoff",
           "fallback"} \union Recording

Init ==
  /\ failures = 0 /\ opened = "never" /\ raised = 0
  /\ loaded = [t \in Threads |-> 0]
  /\ pc = [t \in Threads |-> "idle"] /\ tries = [t \in Threads |-> 0]
  /\ error = [t \in Threads |-> "none"] /\ calls = 0

Goto(t, place) == pc' = [pc EXCEPT ![t] = place]
Raised(t, e) == error' = [error EXCEPT ![t] = e]
Tried(t) == tries' = [tries EXCEPT ![t] = @ + 1]

-----------------------------------------------------------------------------
(* retry_call, and _ResilientLLM.invoke around it.                         *)

\* is_retryable looks for a marker in the exception's text; CircuitOpenError
\* has none.
Retryable(e) == e = "transient"

\* Mutant: the attempt that failed is not counted.
LastTryLate(n) == n > Attempts

LastTry(n) == n >= Attempts

\* Mutant: any exception fails over.
FailsOverAlways(e) == HasFallback

FailsOver(e) == HasFallback /\ Retryable(e)

\* Mutant: an exception that is not retried takes the thread down.
AfterUncaught(e, n) ==
  CASE Retryable(e) /\ ~LastTry(n) -> "backoff"
    [] (LastTry(n) \/ ~Retryable(e)) /\ FailsOver(e) -> "fallback"
    [] OTHER -> "dead"

\* Where the n-th attempt's exception leads: to another attempt, to the other
\* provider, or out to the node, which falls back to something of its own.
After(e, n) ==
  CASE Retryable(e) /\ ~LastTry(n) -> "backoff"
    [] (LastTry(n) \/ ~Retryable(e)) /\ FailsOver(e) -> "fallback"
    [] OTHER -> "idle"

Leave(t, e) == Goto(t, After(e, tries[t]))

Invoke(t) ==
  /\ pc[t] = "idle" /\ calls < MaxCalls
  /\ calls' = calls + 1
  /\ tries' = [tries EXCEPT ![t] = 0]
  /\ Raised(t, "none") /\ Goto(t, "look")
  /\ UNCHANGED breaker

\* sleep() is over.
Retry(t) ==
  /\ pc[t] = "backoff" /\ Goto(t, "look")
  /\ UNCHANGED <<breaker, tries, error, calls>>

\* One call of the other provider, outside the breaker; when its model cannot
\* be built the original error surfaces.
Fallback(t) ==
  /\ pc[t] = "fallback"
  /\ \E e \in {"none", "permanent", error[t]} : Raised(t, e)
  /\ Goto(t, "idle")
  /\ UNCHANGED <<breaker, tries, calls>>

-----------------------------------------------------------------------------
(* CircuitBreaker.call.                                                    *)

\* state, first half: is there an opening time?
LookClosed(t) ==
  /\ pc[t] = "look" /\ opened = "never"
  /\ Tried(t) /\ Goto(t, "provider")
  /\ UNCHANGED <<breaker, error, calls>>

LookOpened(t) ==
  /\ pc[t] = "look" /\ opened # "never"
  /\ Tried(t) /\ Goto(t, "age")
  /\ UNCHANGED <<breaker, error, calls>>

\* Mutant: a call waits for the circuit to be half open.
FailsFastNever == FALSE

FailsFast == opened = "recent"

\* state, second half: how old is it?
AgeOpen(t) ==
  /\ pc[t] = "age" /\ FailsFast
  /\ Raised(t, "circuit") /\ Leave(t, "circuit")
  /\ UNCHANGED <<breaker, tries, calls>>

AgeHalfOpen(t) ==
  /\ pc[t] = "age" /\ opened = "old"
  /\ Goto(t, "provider")
  /\ UNCHANGED <<breaker, tries, error, calls>>

\* A success of another thread cleared it in between: clock() - None.
AgeCleared(t) ==
  /\ pc[t] = "age" /\ opened = "never"
  /\ Raised(t, "bug") /\ Leave(t, "bug")
  /\ UNCHANGED <<breaker, tries, calls>>

\* The provider answers, or raises.
Succeed(t) ==
  /\ pc[t] = "provider" /\ Raised(t, "none") /\ Goto(t, "succeeded")
  /\ UNCHANGED <<breaker, tries, calls>>

Fail(t) ==
  /\ pc[t] = "provider" /\ Goto(t, "failed")
  /\ \E e \in {"transient", "permanent"} : Raised(t, e)
  /\ raised' = raised + 1
  /\ UNCHANGED <<failures, opened, loaded, tries, calls>>

\* _on_success: the count, then the opening time.
ResetCount(t) ==
  /\ pc[t] = "succeeded" /\ failures' = 0 /\ Goto(t, "clear")
  /\ raised' = IF \E u \in Threads : pc[u] \in Recording THEN raised ELSE 0
  /\ UNCHANGED <<opened, loaded, tries, error, calls>>

\* Mutant: a success resets the count and leaves the opening time.
StillOpened == opened

Closed == "never"

ClearOpened(t) ==
  /\ pc[t] = "clear" /\ opened' = Closed /\ Goto(t, "idle")
  /\ UNCHANGED <<failures, loaded, tries, error, calls, raised>>

\* _on_failure: the increment is a load and a store.
LoadCount(t) ==
  /\ pc[t] = "failed" /\ loaded' = [loaded EXCEPT ![t] = failures]
  /\ Goto(t, "store")
  /\ UNCHANGED <<failures, opened, tries, error, calls, raised>>

StoreCount(t) ==
  /\ pc[t] = "store" /\ failures' = loaded[t] + 1
  /\ loaded' = [loaded EXCEPT ![t] = 0] /\ Goto(t, "test")
  /\ UNCHANGED <<opened, tries, error, calls, raised>>

Trips == failures >= Threshold

TestCount(t) ==
  /\ pc[t] = "test"
  /\ \/ Trips /\ Goto(t, "stamp")
     \/ ~Trips /\ Leave(t, error[t])
  /\ UNCHANGED <<breaker, tries, error, calls>>

\* clock(), and the store of its value, which is younger than reset_timeout.
StampOpened(t) ==
  /\ pc[t] = "stamp" /\ opened' = "recent" /\ Leave(t, error[t])
  /\ UNCHANGED <<failures, loaded, tries, error, calls, raised>>

\* reset_timeout passes.
Elapse ==
  /\ opened = "recent" /\ opened' = "old"
  /\ UNCHANGED <<failures, loaded, pc, tries, error, calls, raised>>

-----------------------------------------------------------------------------
Step(t) ==
  \/ LookClosed(t) \/ LookOpened(t) \/ AgeOpen(t) \/ AgeHalfOpen(t) \/ AgeCleared(t)
  \/ Succeed(t) \/ ResetCount(t) \/ ClearOpened(t)
  \/ Fail(t) \/ LoadCount(t) \/ StoreCount(t) \/ TestCount(t) \/ StampOpened(t)
  \/ Retry(t) \/ Fallback(t)

Next == Elapse \/ \E t \in Threads : Invoke(t) \/ Step(t)

Spec == Init /\ [][Next]_vars

\* Threads run; provider calls and sleeps end.
FairSpec == Spec /\ \A t \in Threads : WF_vars(Step(t))

-----------------------------------------------------------------------------
(* Properties.                                                             *)

\* The type invariant.
TypeOK ==
  /\ failures \in Nat /\ opened \in {"never", "recent", "old"}
  /\ loaded \in [Threads -> Nat] /\ raised \in Nat
  /\ pc \in [Threads -> Places] /\ tries \in [Threads -> Nat]
  /\ error \in [Threads -> Errors] /\ calls \in Nat

\* One invoke looks at the breaker, and calls the provider, as often as it may
\* retry and no more, whatever other threads do between its attempts.
AttemptsBounded == \A t \in Threads : tries[t] <= Attempts

\* A circuit that is open, or half open, was earned: the provider has failed as
\* often as it takes since the last success that no failure's recording
\* overlapped, however the stores of several threads interleave, unless such a
\* success is about to close it.
OpenIsEarned ==
  opened # "never" =>
    raised >= Threshold \/ \E t \in Threads : pc[t] = "clear"

\* The other provider is asked only when the primary is unavailable: after a
\* transient error of the last attempt, or after the open circuit; a permanent
\* error and a bug of the breaker's surface.
FailoverWhenUnavailable ==
  \A t \in Threads :
    pc[t] = "fallback" =>
      \/ error[t] = "circuit"
      \/ error[t] = "transient" /\ tries[t] = Attempts

\* Every call ends, in an answer or an exception.
CallsEnd == \A t \in Threads : (pc[t] = "look") ~> (pc[t] = "idle")
=============================================================================
