-------------------------- MODULE ModelCallsProofs --------------------------
(***************************************************************************)
(* Proofs about ModelCalls, for any threads, attempts and threshold: the   *)
(* retries are bounded, the circuit opens for a reason although nothing    *)
(* locks it, and the other provider is called only when the primary is     *)
(* unavailable.                                                            *)
(***************************************************************************)
EXTENDS ModelCalls, FiniteSetTheorems, TLAPS

\* Where a thread's attempts stand at each place: room is left for another one
\* wherever one will be made, and the exception in hand is the one that decided.
Progress(t) ==
  /\ tries[t] <= Attempts
  /\ pc[t] \in {"look", "backoff"} => tries[t] < Attempts
  /\ pc[t] = "fallback" => \/ error[t] = "circuit"
                           \/ error[t] = "transient" /\ tries[t] = Attempts

\* The threads whose failure happened and is not in the count yet.
Uncounted == {t \in Threads : pc[t] \in {"failed", "store"}}

\* The count, and what any thread is about to make of it, leaves room for the
\* failures that are still to be counted; whoever is about to open the circuit
\* saw enough of them.
Counted ==
  /\ failures + Cardinality(Uncounted) <= raised
  /\ \A t \in Threads : pc[t] = "store" => loaded[t] + Cardinality(Uncounted) <= raised
  /\ \A t \in Threads : pc[t] = "stamp" => raised >= Threshold

\* The inductive invariant.
IInv ==
  /\ TypeOK
  /\ Counted
  /\ OpenIsEarned
  /\ \A t \in Threads : Progress(t)

\* Sets of threads can be counted, up and down.
LEMMA Counting ==
  /\ IsFiniteSet(Uncounted) /\ Cardinality(Uncounted) \in Nat
  /\ \A t \in Threads :
       /\ t \notin Uncounted =>
            Cardinality(Uncounted \union {t}) = Cardinality(Uncounted) + 1
       /\ t \in Uncounted =>
            Cardinality(Uncounted \ {t}) = Cardinality(Uncounted) - 1
<1>1. Uncounted \subseteq Threads BY DEF Uncounted
<1>2. IsFiniteSet(Uncounted) BY <1>1, ThreadsAssumption, FS_Subset
<1>3. Cardinality(Uncounted) \in Nat BY <1>2, FS_CardinalityType
<1>4. ASSUME NEW t \in Threads, t \notin Uncounted
      PROVE  Cardinality(Uncounted \union {t}) = Cardinality(Uncounted) + 1
  BY <1>2, <1>4, FS_AddElement
<1>5. ASSUME NEW t \in Threads, t \in Uncounted
      PROVE  Cardinality(Uncounted \ {t}) = Cardinality(Uncounted) - 1
  BY <1>2, <1>5, FS_RemoveElement
<1> QED BY <1>2, <1>3, <1>4, <1>5

\* What the exception of an attempt leads to.
LEMMA AfterLeads ==
  ASSUME NEW e \in Errors, NEW n \in Nat, n <= Attempts
  PROVE  /\ After(e, n) \in {"backoff", "fallback", "idle"}
         /\ After(e, n) = "backoff" => n < Attempts
         /\ After(e, n) = "fallback" =>
              e = "circuit" \/ (e = "transient" /\ n = Attempts)
BY AttemptsAssumption DEF After, Retryable, LastTry, FailsOver

\* The invariant holds initially.
LEMMA InitEstablishes == Init => IInv
<1> SUFFICES ASSUME Init PROVE IInv OBVIOUS
<1>1. Uncounted = {} BY DEF Init, Uncounted
<1>2. Cardinality(Uncounted) = 0 BY <1>1, FS_EmptySet
<1>3. Counted BY <1>2 DEF Init, Counted
<1> QED
  BY <1>3, AttemptsAssumption
  DEF Init, IInv, TypeOK, OpenIsEarned, Progress, Places, Recording, Errors

\* An attempt that raises keeps the thread's progress in order.
LEMMA LeaveProgresses ==
  ASSUME IInv, NEW t \in Threads, NEW e \in Errors, Leave(t, e), UNCHANGED tries,
         error' = [error EXCEPT ![t] = e]
  PROVE  /\ pc' \in [Threads -> Places] /\ error' \in [Threads -> Errors]
         /\ pc'[t] \in {"backoff", "fallback", "idle"}
         /\ \A u \in Threads : u # t => pc'[u] = pc[u]
         /\ (\A u \in Threads : Progress(u))'
<1>1. tries[t] \in Nat /\ tries[t] <= Attempts BY DEF IInv, TypeOK, Progress
<1>2. /\ After(e, tries[t]) \in {"backoff", "fallback", "idle"}
      /\ After(e, tries[t]) = "backoff" => tries[t] < Attempts
      /\ After(e, tries[t]) = "fallback" =>
           e = "circuit" \/ (e = "transient" /\ tries[t] = Attempts)
  BY <1>1, AfterLeads
<1>3. pc' = [pc EXCEPT ![t] = After(e, tries[t])]
  BY DEF Leave, Goto
<1>4. pc \in [Threads -> Places] /\ error \in [Threads -> Errors]
  BY DEF IInv, TypeOK
<1>5. pc' \in [Threads -> Places] /\ error' \in [Threads -> Errors]
  BY <1>2, <1>3, <1>4 DEF Places
<1>6. /\ pc'[t] = After(e, tries[t]) /\ error'[t] = e
      /\ \A u \in Threads : u # t => pc'[u] = pc[u] /\ error'[u] = error[u]
  BY <1>3, <1>4
<1>7. ASSUME NEW u \in Threads PROVE Progress(u)'
  <2>1. CASE u = t BY <1>1, <1>2, <1>6, <2>1 DEF IInv, Progress
  <2>2. CASE u # t BY <1>6, <2>2 DEF IInv, Progress
  <2> QED BY <2>1, <2>2
<1> QED BY <1>2, <1>5, <1>6, <1>7

\* A thread that moves between places that are not part of the recording, and
\* leaves the breaker alone, leaves the counting alone.
LEMMA CountedElsewhere ==
  ASSUME IInv, NEW t \in Threads, pc' \in [Threads -> Places],
         pc[t] \notin {"failed", "store"},
         pc'[t] \notin {"failed", "store", "stamp"},
         \A u \in Threads : u # t => pc'[u] = pc[u],
         UNCHANGED <<failures, loaded, raised>>
  PROVE  Counted'
<1>1. Uncounted' = Uncounted BY DEF Uncounted
<1> QED BY <1>1 DEF IInv, Counted

LEMMA EarnedElsewhere ==
  ASSUME IInv, NEW t \in Threads, pc[t] # "clear",
         \A u \in Threads : u # t => pc'[u] = pc[u],
         UNCHANGED <<opened, raised>>
  PROVE  OpenIsEarned'
BY DEF IInv, OpenIsEarned

\* The steps that move a thread and leave the fields of the breaker alone.
LEMMA MovePreserves ==
  ASSUME IInv, NEW t \in Threads,
         \/ Invoke(t) \/ Retry(t) \/ Fallback(t) \/ LookClosed(t) \/ LookOpened(t)
         \/ AgeHalfOpen(t) \/ Succeed(t)
  PROVE  IInv'
<1> USE AttemptsAssumption
<1>t. TypeOK /\ (\A u \in Threads : Progress(u)) BY DEF IInv
<1>1. /\ pc[t] \in {"idle", "backoff", "fallback", "look", "age", "provider"}
      /\ UNCHANGED breaker
  BY DEF Invoke, Retry, Fallback, LookClosed, LookOpened, AgeHalfOpen, Succeed
<1>2. PICK p \in {"look", "idle", "provider", "age", "succeeded"} :
        pc' = [pc EXCEPT ![t] = p]
  BY DEF Invoke, Retry, Fallback, LookClosed, LookOpened, AgeHalfOpen, Succeed, Goto
<1>3. /\ pc' \in [Threads -> Places] /\ pc'[t] = p
      /\ \A u \in Threads : u # t => pc'[u] = pc[u]
  BY <1>2, <1>t DEF TypeOK, Places
<1>4. Counted'
  BY <1>1, <1>3, CountedElsewhere DEF breaker
<1>5. OpenIsEarned'
  BY <1>1, <1>3, EarnedElsewhere DEF breaker
<1>6. (\A u \in Threads : Progress(u))' /\ TypeOK'
  <2>1. CASE Invoke(t)
    BY <2>1, <1>t, <1>1 DEF Invoke, Raised, Goto, breaker, TypeOK, Progress, Places, Errors
  <2>2. CASE Retry(t)
    BY <2>2, <1>t, <1>1 DEF Retry, Goto, breaker, TypeOK, Progress, Places
  <2>3. CASE Fallback(t)
    BY <2>3, <1>t, <1>1 DEF Fallback, Raised, Goto, breaker, TypeOK, Progress, Places, Errors
  <2>4. CASE LookClosed(t) \/ LookOpened(t)
    BY <2>4, <1>t, <1>1 DEF LookClosed, LookOpened, Tried, Goto, breaker, TypeOK,
                            Progress, Places
  <2>5. CASE AgeHalfOpen(t)
    BY <2>5, <1>t, <1>1 DEF AgeHalfOpen, Goto, breaker, TypeOK, Progress, Places
  <2>6. CASE Succeed(t)
    BY <2>6, <1>t, <1>1 DEF Succeed, Raised, Goto, breaker, TypeOK, Progress, Places, Errors
  <2> QED BY <2>1, <2>2, <2>3, <2>4, <2>5, <2>6
<1> QED BY <1>4, <1>5, <1>6 DEF IInv

\* An exception out of the breaker itself.
LEMMA RaisePreserves ==
  ASSUME IInv, NEW t \in Threads, AgeOpen(t) \/ AgeCleared(t)
  PROVE  IInv'
<1>1. PICK e \in Errors : Raised(t, e) /\ Leave(t, e)
  BY DEF AgeOpen, AgeCleared, Errors
<1>2. pc[t] = "age" /\ UNCHANGED <<breaker, tries, calls>>
  BY DEF AgeOpen, AgeCleared
<1>3. /\ pc' \in [Threads -> Places] /\ error' \in [Threads -> Errors]
      /\ pc'[t] \in {"backoff", "fallback", "idle"}
      /\ \A u \in Threads : u # t => pc'[u] = pc[u]
      /\ (\A u \in Threads : Progress(u))'
  BY <1>1, <1>2, LeaveProgresses DEF Raised
<1>4. Counted' BY <1>2, <1>3, CountedElsewhere DEF breaker
<1>5. OpenIsEarned' BY <1>2, <1>3, EarnedElsewhere DEF breaker
<1> QED BY <1>2, <1>3, <1>4, <1>5 DEF breaker, IInv, TypeOK

\* A success: the count is reset, then the opening time.
LEMMA SuccessPreserves ==
  ASSUME IInv, NEW t \in Threads, ResetCount(t) \/ ClearOpened(t)
  PROVE  IInv'
<1>t. TypeOK /\ Counted /\ OpenIsEarned /\ (\A u \in Threads : Progress(u)) BY DEF IInv
<1>c. Cardinality(Uncounted) \in Nat BY Counting
<1>1. CASE ResetCount(t)
  <2>1. /\ pc[t] = "succeeded" /\ failures' = 0 /\ pc' = [pc EXCEPT ![t] = "clear"]
        /\ UNCHANGED <<opened, loaded, tries, error, calls>>
        /\ raised' = IF \E u \in Threads : pc[u] \in Recording THEN raised ELSE 0
    BY <1>1 DEF ResetCount, Goto
  <2>2. /\ pc' \in [Threads -> Places] /\ pc'[t] = "clear"
        /\ \A u \in Threads : u # t => pc'[u] = pc[u]
    BY <2>1, <1>t DEF TypeOK, Places
  <2>3. Uncounted' = Uncounted BY <2>1, <2>2 DEF Uncounted
  <2>4. Counted'
    <3>1. CASE \E u \in Threads : pc[u] \in Recording
      BY <3>1, <2>1, <2>2, <2>3, <1>t, <1>c DEF Counted, TypeOK
    <3>2. CASE ~\E u \in Threads : pc[u] \in Recording
      <4>1. Uncounted = {} BY <3>2 DEF Uncounted, Recording
      <4>2. Cardinality(Uncounted') = 0 BY <4>1, <2>3, FS_EmptySet
      <4>3. \A u \in Threads : pc'[u] \notin {"store", "stamp"}
        BY <3>2, <2>2 DEF Recording
      <4> QED BY <4>2, <4>3, <3>2, <2>1 DEF Counted
    <3> QED BY <3>1, <3>2
  <2>5. OpenIsEarned' BY <2>2 DEF OpenIsEarned
  <2>6. (\A u \in Threads : Progress(u))' BY <2>1, <2>2, <1>t DEF Progress
  <2>7. TypeOK' BY <2>1, <2>2, <1>t DEF TypeOK
  <2> QED BY <2>4, <2>5, <2>6, <2>7 DEF IInv
<1>2. CASE ClearOpened(t)
  <2>1. /\ pc[t] = "clear" /\ opened' = "never" /\ pc' = [pc EXCEPT ![t] = "idle"]
        /\ UNCHANGED <<failures, loaded, tries, error, calls, raised>>
    BY <1>2 DEF ClearOpened, Closed, Goto
  <2>2. /\ pc' \in [Threads -> Places] /\ pc'[t] = "idle"
        /\ \A u \in Threads : u # t => pc'[u] = pc[u]
    BY <2>1, <1>t DEF TypeOK, Places
  <2>3. Counted' BY <2>1, <2>2, CountedElsewhere
  <2>4. OpenIsEarned' BY <2>1 DEF OpenIsEarned
  <2>5. (\A u \in Threads : Progress(u))' BY <2>1, <2>2, <1>t DEF Progress
  <2>6. TypeOK' BY <2>1, <2>2, <1>t DEF TypeOK
  <2> QED BY <2>3, <2>4, <2>5, <2>6 DEF IInv
<1> QED BY <1>1, <1>2

\* A failure, and the load and the store of its increment.
LEMMA FailurePreserves ==
  ASSUME IInv, NEW t \in Threads, Fail(t) \/ LoadCount(t) \/ StoreCount(t)
  PROVE  IInv'
<1>t. TypeOK /\ Counted /\ OpenIsEarned /\ (\A u \in Threads : Progress(u)) BY DEF IInv
<1>c. /\ Cardinality(Uncounted) \in Nat
      /\ t \notin Uncounted =>
           Cardinality(Uncounted \union {t}) = Cardinality(Uncounted) + 1
      /\ t \in Uncounted =>
           Cardinality(Uncounted \ {t}) = Cardinality(Uncounted) - 1
  BY Counting
<1>1. CASE Fail(t)
  <2>1. /\ pc[t] = "provider" /\ pc' = [pc EXCEPT ![t] = "failed"]
        /\ raised' = raised + 1
        /\ UNCHANGED <<failures, opened, loaded, tries, calls>>
    BY <1>1 DEF Fail, Goto
  <2>2. PICK e \in {"transient", "permanent"} : error' = [error EXCEPT ![t] = e]
    BY <1>1 DEF Fail, Raised
  <2>3. /\ pc' \in [Threads -> Places] /\ pc'[t] = "failed"
        /\ \A u \in Threads : u # t => pc'[u] = pc[u]
    BY <2>1, <1>t DEF TypeOK, Places, Recording
  <2>4. t \notin Uncounted /\ Uncounted' = Uncounted \union {t}
    BY <2>1, <2>3 DEF Uncounted
  <2>5. Cardinality(Uncounted') = Cardinality(Uncounted) + 1 BY <2>4, <1>c
  <2>6. Counted' BY <2>1, <2>3, <2>5, <1>t, <1>c, ThresholdAssumption DEF Counted, TypeOK
  <2>7. OpenIsEarned'
    BY <2>1, <2>3, <1>t, ThresholdAssumption DEF OpenIsEarned, TypeOK
  <2>8. error' \in [Threads -> Errors] BY <2>2, <1>t DEF TypeOK, Errors
  <2>9. (\A u \in Threads : Progress(u))'
    BY <2>1, <2>2, <2>3, <1>t DEF Progress, TypeOK
  <2>10. TypeOK' BY <2>1, <2>3, <2>8, <1>t DEF TypeOK
  <2> QED BY <2>6, <2>7, <2>9, <2>10 DEF IInv
<1>2. CASE LoadCount(t)
  <2>1. /\ pc[t] = "failed" /\ pc' = [pc EXCEPT ![t] = "store"]
        /\ loaded' = [loaded EXCEPT ![t] = failures]
        /\ UNCHANGED <<failures, opened, tries, error, calls, raised>>
    BY <1>2 DEF LoadCount, Goto
  <2>2. /\ pc' \in [Threads -> Places] /\ pc'[t] = "store"
        /\ \A u \in Threads : u # t => pc'[u] = pc[u]
    BY <2>1, <1>t DEF TypeOK, Places, Recording
  <2>3. /\ loaded' \in [Threads -> Nat] /\ loaded'[t] = failures
        /\ \A u \in Threads : u # t => loaded'[u] = loaded[u]
    BY <2>1, <1>t DEF TypeOK
  <2>4. Uncounted' = Uncounted BY <2>1, <2>2 DEF Uncounted
  <2>5. Counted' BY <2>1, <2>2, <2>3, <2>4, <1>t DEF Counted
  <2>6. OpenIsEarned' BY <2>1, <2>2, EarnedElsewhere
  <2>7. (\A u \in Threads : Progress(u))' BY <2>1, <2>2, <1>t DEF Progress
  <2>8. TypeOK' BY <2>1, <2>2, <2>3, <1>t DEF TypeOK
  <2> QED BY <2>5, <2>6, <2>7, <2>8 DEF IInv
<1>3. CASE StoreCount(t)
  <2>1. /\ pc[t] = "store" /\ pc' = [pc EXCEPT ![t] = "test"]
        /\ failures' = loaded[t] + 1 /\ loaded' = [loaded EXCEPT ![t] = 0]
        /\ UNCHANGED <<opened, tries, error, calls, raised>>
    BY <1>3 DEF StoreCount, Goto
  <2>2. /\ pc' \in [Threads -> Places] /\ pc'[t] = "test"
        /\ \A u \in Threads : u # t => pc'[u] = pc[u]
    BY <2>1, <1>t DEF TypeOK, Places, Recording
  <2>3. /\ loaded' \in [Threads -> Nat] /\ loaded[t] \in Nat /\ failures' \in Nat
        /\ \A u \in Threads : u # t => loaded'[u] = loaded[u]
    BY <2>1, <1>t DEF TypeOK
  <2>4. t \in Uncounted /\ Uncounted' = Uncounted \ {t}
    BY <2>1, <2>2 DEF Uncounted
  <2>5. Cardinality(Uncounted') = Cardinality(Uncounted) - 1 BY <2>4, <1>c
  <2>6. loaded[t] + Cardinality(Uncounted) <= raised BY <2>1, <1>t DEF Counted
  <2>7. failures' + Cardinality(Uncounted') <= raised'
    BY <2>1, <2>3, <2>5, <2>6, <1>c
  <2>8. ASSUME NEW u \in Threads, pc'[u] = "store"
        PROVE  loaded'[u] + Cardinality(Uncounted') <= raised'
    <3>1. u # t /\ pc[u] = "store" /\ loaded'[u] = loaded[u]
      BY <2>2, <2>3, <2>8
    <3>2. loaded[u] + Cardinality(Uncounted) <= raised BY <3>1, <1>t DEF Counted
    <3>3. loaded[u] \in Nat /\ raised \in Nat BY <1>t DEF TypeOK
    <3> QED BY <3>1, <3>2, <3>3, <2>1, <2>5, <1>c
  <2>9. Counted' BY <2>1, <2>2, <2>7, <2>8, <1>t DEF Counted
  <2>10. OpenIsEarned' BY <2>1, <2>2, EarnedElsewhere
  <2>11. (\A u \in Threads : Progress(u))' BY <2>1, <2>2, <1>t DEF Progress
  <2>12. TypeOK' BY <2>1, <2>2, <2>3, <1>t DEF TypeOK
  <2> QED BY <2>9, <2>10, <2>11, <2>12 DEF IInv
<1> QED BY <1>1, <1>2, <1>3

\* The test of the count, and the opening of the circuit.
LEMMA OpeningPreserves ==
  ASSUME IInv, NEW t \in Threads, TestCount(t) \/ StampOpened(t)
  PROVE  IInv'
<1>t. TypeOK /\ Counted /\ OpenIsEarned /\ (\A u \in Threads : Progress(u)) BY DEF IInv
<1>e. error[t] \in Errors /\ error = [error EXCEPT ![t] = error[t]] BY <1>t DEF TypeOK
<1>c. Cardinality(Uncounted) \in Nat BY Counting
<1>1. CASE TestCount(t) /\ Trips
  <2>1. /\ pc[t] = "test" /\ failures >= Threshold
        /\ UNCHANGED <<breaker, tries, error, calls>>
        /\ \/ pc' = [pc EXCEPT ![t] = "stamp"]
           \/ ~Trips
    BY <1>1 DEF TestCount, Trips, Goto
  <2>2. /\ pc' \in [Threads -> Places] /\ pc'[t] = "stamp"
        /\ \A u \in Threads : u # t => pc'[u] = pc[u]
    BY <2>1, <1>1, <1>t DEF TypeOK, Places, Recording
  <2>3. Uncounted' = Uncounted BY <2>1, <2>2 DEF Uncounted
  <2>4. raised >= Threshold
    BY <2>1, <1>t, <1>c, ThresholdAssumption DEF Counted, TypeOK
  <2>5. Counted' BY <2>1, <2>2, <2>3, <2>4, <1>t DEF Counted, breaker
  <2>6. OpenIsEarned' BY <2>1, <2>2, EarnedElsewhere DEF breaker
  <2>7. (\A u \in Threads : Progress(u))' BY <2>1, <2>2, <1>t DEF Progress
  <2>8. TypeOK' BY <2>1, <2>2, <1>t DEF TypeOK, breaker
  <2> QED BY <2>5, <2>6, <2>7, <2>8 DEF IInv
<1>2. CASE TestCount(t) /\ ~Trips
  <2>1. /\ pc[t] = "test" /\ Leave(t, error[t])
        /\ UNCHANGED <<breaker, tries, error, calls>>
    BY <1>2 DEF TestCount
  <2>2. /\ pc' \in [Threads -> Places] /\ error' \in [Threads -> Errors]
        /\ pc'[t] \in {"backoff", "fallback", "idle"}
        /\ \A u \in Threads : u # t => pc'[u] = pc[u]
        /\ (\A u \in Threads : Progress(u))'
    BY <2>1, <1>e, LeaveProgresses
  <2>3. Counted' BY <2>1, <2>2, CountedElsewhere DEF breaker
  <2>4. OpenIsEarned' BY <2>1, <2>2, EarnedElsewhere DEF breaker
  <2> QED BY <2>1, <2>2, <2>3, <2>4, <1>t DEF breaker, IInv, TypeOK
<1>3. CASE StampOpened(t)
  <2>1. /\ pc[t] = "stamp" /\ opened' = "recent" /\ Leave(t, error[t])
        /\ UNCHANGED <<failures, loaded, tries, error, calls, raised>>
    BY <1>3 DEF StampOpened
  <2>2. /\ pc' \in [Threads -> Places] /\ error' \in [Threads -> Errors]
        /\ pc'[t] \in {"backoff", "fallback", "idle"}
        /\ \A u \in Threads : u # t => pc'[u] = pc[u]
        /\ (\A u \in Threads : Progress(u))'
    BY <2>1, <1>e, LeaveProgresses
  <2>3. Counted' BY <2>1, <2>2, CountedElsewhere
  <2>4. OpenIsEarned' BY <2>1, <1>t DEF OpenIsEarned, Counted
  <2> QED BY <2>1, <2>2, <2>3, <2>4, <1>t DEF IInv, TypeOK
<1> QED BY <1>1, <1>2, <1>3

\* Every step preserves the invariant.
LEMMA StepPreserves == IInv /\ [Next]_vars => IInv'
<1> SUFFICES ASSUME IInv, [Next]_vars PROVE IInv'
  OBVIOUS
<1>1. ASSUME NEW t \in Threads, Invoke(t) \/ Step(t) PROVE IInv'
  BY <1>1, MovePreserves, RaisePreserves, SuccessPreserves, FailurePreserves,
     OpeningPreserves DEF Step
<1>2. CASE Elapse
  <2>1. /\ opened = "recent" /\ opened' = "old"
        /\ UNCHANGED <<failures, loaded, pc, tries, error, calls, raised>>
    BY <1>2 DEF Elapse
  <2>2. Uncounted' = Uncounted BY <2>1 DEF Uncounted
  <2> QED BY <2>1, <2>2 DEF IInv, TypeOK, Counted, OpenIsEarned, Progress
<1>3. CASE UNCHANGED vars
  <2>1. Uncounted' = Uncounted BY <1>3 DEF vars, Uncounted
  <2> QED BY <1>3, <2>1 DEF vars, IInv, TypeOK, Counted, OpenIsEarned, Progress
<1> QED
  BY <1>1, <1>2, <1>3 DEF Next

LEMMA Invariance == Spec => []IInv
BY InitEstablishes, StepPreserves, PTL DEF Spec

\* Every reachable state of the model calls is well-typed.
THEOREM TypeCorrect == Spec => []TypeOK
<1>1. IInv => TypeOK BY DEF IInv
<1> QED BY <1>1, Invariance, PTL

\* An invoke attempts its call as often as it may retry, for any number of
\* threads that share the breaker.
THEOREM AttemptsAreBounded == Spec => []AttemptsBounded
<1>1. IInv => AttemptsBounded BY DEF IInv, Progress, AttemptsBounded
<1> QED BY <1>1, Invariance, PTL

\* An open or half-open breaker was earned, although its count is read and
\* written by any number of threads without a lock.
THEOREM CircuitIsEarned == Spec => []OpenIsEarned
<1>1. IInv => OpenIsEarned BY DEF IInv
<1> QED BY <1>1, Invariance, PTL

\* The other provider is called only when the primary is unavailable.
THEOREM FailoverIsLast == Spec => []FailoverWhenUnavailable
<1>1. IInv => FailoverWhenUnavailable
  BY DEF IInv, Progress, FailoverWhenUnavailable
<1> QED BY <1>1, Invariance, PTL
=============================================================================
