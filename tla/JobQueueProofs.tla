--------------------------- MODULE JobQueueProofs ---------------------------
(***************************************************************************)
(* Proofs about JobQueue, for any replicas, sources, jobs and attempts, and*)
(* any number of mishaps and expired claims: the fate of every job is what *)
(* JobFates allows, and no source is investigated more often than claims *)
(* were lost.                                                              *)
(***************************************************************************)
EXTENDS JobQueue, FiniteSetTheorems, SequenceTheorems, TLAPS

\* A job on its way: its attempts count the times its handler raised.
Tried == [id : Jobs, attempts : Nat]

Stages == {"idle", "handling", "backoff", "burying"}

TypeInv ==
  /\ durable \in BOOLEAN
  /\ claimed \in [Replicas -> SUBSET Sources]
  /\ posting \in [Replicas -> SUBSET Sources]
  /\ queue \in [Stores -> Seq(Tried)]
  /\ dead \in [Stores -> SUBSET Jobs]
  /\ stage \in [Replicas -> Stages]
  /\ hand \in [Replicas -> Tried \union {NoJob}]
  /\ \A r \in Replicas : stage[r] # "idle" => hand[r] \in Tried
  /\ source \in [Jobs -> (Replicas \X Sources) \union {Unused}]
  /\ done \subseteq Jobs
  /\ raised \in [Jobs -> Nat]
  /\ mishaps \in Nat /\ expiries \in Nat

\* A job is in one queue or one hand, once, and no longer there when it is done or
\* buried; one that was not queued is nowhere.
Distinct(q) == \A i, k \in DOMAIN q : q[i].id = q[k].id => i = k

OnePlace ==
  /\ \A s \in Stores : Distinct(queue[s]) /\ Within(queue[s]) \intersect Held = {}
  /\ \A s, t \in Stores : s # t => Within(queue[s]) \intersect Within(queue[t]) = {}
  /\ \A q, r \in Replicas :
       stage[q] # "idle" /\ stage[r] # "idle" /\ hand[q].id = hand[r].id => q = r
  /\ (Queued \union Held) \intersect (done \union Buried) = {}
  /\ \A j \in Jobs :
       source[j] = Unused => j \notin Queued \union Held \union done \union Buried

\* The attempts a job carries are the failures of its handler, below the limit until
\* it is buried.
Counted ==
  /\ \A s \in Stores : \A i \in DOMAIN queue[s] :
       queue[s][i].attempts = raised[queue[s][i].id] /\ queue[s][i].attempts < MaxAttempts
  /\ \A r \in Replicas : stage[r] # "idle" =>
       /\ hand[r].attempts = raised[hand[r].id]
       /\ IF stage[r] = "burying" THEN hand[r].attempts = MaxAttempts
                                  ELSE hand[r].attempts < MaxAttempts
  /\ \A j \in Jobs : source[j] = Unused => raised[j] = 0

\* What a replica has queued for a source, and is about to, is paid for by its
\* present claim or by the claims that expired or were lost.
One(b) == IF b THEN 1 ELSE 0

For(r, x) == {j \in Jobs : source[j] = <<r, x>>}

Paid ==
  \A r \in Replicas, x \in Sources :
    /\ x \in posting[r] => x \in claimed[r]
    /\ Cardinality(For(r, x)) + One(x \in posting[r])
         <= One(x \in claimed[r]) + expiries + mishaps

\* The inductive invariant: the part that is about where jobs are, and the whole.
Placed == TypeInv /\ OnePlace /\ Counted

IInv == Placed /\ Paid

-----------------------------------------------------------------------------
(* Lemmas about queues, hands and fates.                                   *)

\* Appending a job to a queue that lacks it.
LEMMA AppendIds ==
  ASSUME NEW q \in Seq(Tried), NEW e \in Tried
  PROVE  /\ Append(q, e) \in Seq(Tried)
         /\ Within(Append(q, e)) = Within(q) \union {e.id}
         /\ Distinct(q) /\ e.id \notin Within(q) => Distinct(Append(q, e))
         /\ \A i \in DOMAIN Append(q, e) :
              Append(q, e)[i] = e \/ \E k \in DOMAIN q : Append(q, e)[i] = q[k]
<1> DEFINE a == Append(q, e)
<1>1. /\ a \in Seq(Tried) /\ Len(q) \in Nat
      /\ DOMAIN q = 1 .. Len(q) /\ DOMAIN a = 1 .. Len(q) + 1
      /\ a[Len(q) + 1] = e /\ \A i \in 1 .. Len(q) : a[i] = q[i]
  OBVIOUS
<1> HIDE DEF a
<1>2. Within(a) = Within(q) \union {e.id}
  <2>1. Within(a) \subseteq Within(q) \union {e.id} BY <1>1 DEF Within
  <2>2. Within(q) \subseteq Within(a) BY <1>1 DEF Within
  <2>3. Len(q) + 1 \in DOMAIN a BY <1>1
  <2>4. e.id \in Within(a) BY <1>1, <2>3 DEF Within
  <2> QED BY <2>1, <2>2, <2>4
<1>3. Distinct(q) /\ e.id \notin Within(q) => Distinct(a)
  <2> SUFFICES ASSUME Distinct(q), e.id \notin Within(q),
                      NEW i \in DOMAIN a, NEW k \in DOMAIN a, a[i].id = a[k].id
               PROVE  i = k
    BY DEF Distinct
  <2>1. \A m \in 1 .. Len(q) : q[m].id # e.id BY <1>1 DEF Within
  <2> QED BY <1>1, <2>1 DEF Distinct
<1>4. \A i \in DOMAIN a : a[i] = e \/ \E k \in DOMAIN q : a[i] = q[k] BY <1>1
<1> QED BY <1>1, <1>2, <1>3, <1>4 DEF a

\* Taking the first job of a queue.
LEMMA TailIds ==
  ASSUME NEW q \in Seq(Tried), q # <<>>, Distinct(q)
  PROVE  /\ Tail(q) \in Seq(Tried) /\ Head(q) \in Tried /\ Distinct(Tail(q))
         /\ 1 \in DOMAIN q /\ Head(q) = q[1]
         /\ Head(q).id \in Within(q)
         /\ Within(Tail(q)) = Within(q) \ {Head(q).id}
         /\ \A i \in DOMAIN Tail(q) : \E k \in DOMAIN q : Tail(q)[i] = q[k]
<1> DEFINE a == Tail(q)
<1>1. /\ a \in Seq(Tried) /\ Head(q) \in Tried /\ Head(q) = q[1]
      /\ Len(q) \in Nat /\ Len(q) >= 1 /\ Len(a) = Len(q) - 1
      /\ DOMAIN q = 1 .. Len(q) /\ DOMAIN a = 1 .. Len(q) - 1
      /\ \A i \in 1 .. Len(a) : a[i] = q[i + 1]
  BY HeadTailProperties
<1> HIDE DEF a
<1>2. 1 \in DOMAIN q BY <1>1
<1>3. \A i \in DOMAIN a : i + 1 \in DOMAIN q /\ a[i] = q[i + 1] BY <1>1
<1>4. Distinct(a) BY <1>1, <1>3 DEF Distinct
<1>5. Within(a) = Within(q) \ {q[1].id}
  <2>1. ASSUME NEW i \in DOMAIN a PROVE a[i].id \in Within(q) \ {q[1].id}
    BY <1>1, <1>2, <1>3 DEF Within, Distinct
  <2>2. ASSUME NEW i \in DOMAIN q, q[i].id # q[1].id PROVE q[i].id \in Within(a)
    <3>1. i - 1 \in DOMAIN a /\ a[i - 1] = q[i] BY <1>1, <2>2
    <3> QED BY <3>1 DEF Within
  <2> QED BY <2>1, <2>2 DEF Within
<1>6. q[1].id \in Within(q) BY <1>2 DEF Within
<1> QED BY <1>1, <1>2, <1>3, <1>4, <1>5, <1>6 DEF a

\* The jobs of all queues, hands and dead letters.
LEMMA InQueued ==
  /\ \A j : j \in Queued <=> \E s \in Stores : j \in Within(queue[s])
  /\ \A j : j \in Queued' <=> \E s \in Stores : j \in Within(queue'[s])
  /\ \A j : j \in Buried <=> \E s \in Stores : j \in dead[s]
  /\ \A j : j \in Buried' <=> \E s \in Stores : j \in dead'[s]
  /\ \A j : j \in Held <=> \E r \in Replicas : stage[r] # "idle" /\ hand[r].id = j
  /\ \A j : j \in Held' <=> \E r \in Replicas : stage'[r] # "idle" /\ hand'[r].id = j
BY DEF Queued, Buried, Held

\* Where a job is tells its fate.
FatesTold ==
  \A j \in Jobs :
    /\ j \in done => Fate(j) = IF j \in swallowed THEN "swallowed" ELSE "done"
    /\ j \in Queued \union Held => Fate(j) = "pending"
    /\ j \in Buried /\ j \notin done => Fate(j) = "dead"
    /\ j \notin Queued \union Held \union done \union Buried =>
         Fate(j) = IF source[j] = Unused THEN "none" ELSE "lost"

LEMMA FateIs == OnePlace => FatesTold
BY DEF OnePlace, FatesTold, Fate

LEMMA FateWillBe == OnePlace' => FatesTold'
BY FateIs, PTL

\* Queueing a job adds it to its store and to no other.
LEMMA EnqueueAdds ==
  ASSUME TypeInv, OnePlace, NEW r \in Replicas, NEW e \in Tried, Enqueue(r, e),
         e.id \notin Queued
  PROVE  /\ queue' \in [Stores -> Seq(Tried)] /\ Queued' = Queued \union {e.id}
         /\ \A s \in Stores :
              /\ Distinct(queue'[s])
              /\ Within(queue'[s]) = IF s = Store(r)
                                     THEN Within(queue[s]) \union {e.id}
                                     ELSE Within(queue[s])
              /\ \A i \in DOMAIN queue'[s] :
                   queue'[s][i] = e \/ \E k \in DOMAIN queue[s] : queue'[s][i] = queue[s][k]
<1> DEFINE s0 == Store(r)
<1>1. s0 \in Stores BY DEF Store, Stores
<1>2. queue' = [queue EXCEPT ![s0] = Append(queue[s0], e)] BY DEF Enqueue
<1> HIDE DEF s0
<1>3. queue[s0] \in Seq(Tried) /\ Distinct(queue[s0]) /\ e.id \notin Within(queue[s0])
  BY <1>1 DEF TypeInv, OnePlace, Queued
<1>4. /\ queue'[s0] = Append(queue[s0], e) /\ queue' \in [Stores -> Seq(Tried)]
      /\ \A s \in Stores : s # s0 => queue'[s] = queue[s]
  BY <1>1, <1>2, <1>3, AppendIds DEF TypeInv
<1>5. \A s \in Stores :
        /\ Distinct(queue'[s])
        /\ Within(queue'[s]) = IF s = s0 THEN Within(queue[s]) \union {e.id}
                               ELSE Within(queue[s])
        /\ \A i \in DOMAIN queue'[s] :
             queue'[s][i] = e \/ \E k \in DOMAIN queue[s] : queue'[s][i] = queue[s][k]
  <2>1. /\ Distinct(queue'[s0])
        /\ Within(queue'[s0]) = Within(queue[s0]) \union {e.id}
        /\ \A i \in DOMAIN queue'[s0] :
             queue'[s0][i] = e \/ \E k \in DOMAIN queue[s0] : queue'[s0][i] = queue[s0][k]
    BY <1>3, <1>4, AppendIds
  <2>2. ASSUME NEW s \in Stores, s # s0
        PROVE  Distinct(queue'[s]) /\ queue'[s] = queue[s]
    BY <2>2, <1>4 DEF OnePlace
  <2> QED BY <2>1, <2>2
<1>6. Queued' = Queued \union {e.id}
  <2>1. ASSUME NEW j PROVE j \in Queued' <=> j \in Queued \union {e.id}
    <3>1. j \in Queued' <=> \E s \in Stores : j \in Within(queue'[s]) BY InQueued
    <3>2. j \in Queued <=> \E s \in Stores : j \in Within(queue[s]) BY InQueued
    <3> QED BY <3>1, <3>2, <1>1, <1>5
  <2> QED BY <2>1
<1> QED BY <1>4, <1>5, <1>6 DEF s0

\* A hand that is emptied held one job, and nobody else held it.
LEMMA HandEmptied ==
  ASSUME TypeInv, OnePlace, NEW r \in Replicas, stage[r] # "idle",
         Works(r, "idle", NoJob)
  PROVE  /\ Held' = Held \ {hand[r].id} /\ hand[r].id \in Held /\ hand[r].id \in Jobs
         /\ stage' \in [Replicas -> Stages] /\ hand' \in [Replicas -> Tried \union {NoJob}]
         /\ stage'[r] = "idle"
         /\ \A q \in Replicas : q # r => stage'[q] = stage[q] /\ hand'[q] = hand[q]
<1>1. /\ stage' \in [Replicas -> Stages] /\ hand' \in [Replicas -> Tried \union {NoJob}]
      /\ stage'[r] = "idle"
      /\ \A q \in Replicas : q # r => stage'[q] = stage[q] /\ hand'[q] = hand[q]
  BY DEF Works, TypeInv, Stages
<1>2. hand[r].id \in Held /\ hand[r].id \in Jobs BY DEF Held, TypeInv, Tried
<1>3. Held' = Held \ {hand[r].id}
  BY <1>1 DEF Held, OnePlace
<1> QED BY <1>1, <1>2, <1>3

\* The job at the head of the queue goes to the worker's hand.
LEMMA DequeueMoves ==
  ASSUME TypeInv, OnePlace, NEW r \in Replicas, Dequeue(r)
  PROVE  \E s0 \in Stores : LET e == Head(queue[s0]) IN
           /\ e \in Tried /\ 1 \in DOMAIN queue[s0] /\ e = queue[s0][1]
           /\ e.id \in Queued /\ e.id \notin Held
           /\ Queued' = Queued \ {e.id} /\ Held' = Held \union {e.id}
           /\ queue' \in [Stores -> Seq(Tried)]
           /\ stage[r] = "idle" /\ stage' = [stage EXCEPT ![r] = "handling"]
           /\ hand' = [hand EXCEPT ![r] = e]
           /\ \A s \in Stores :
                /\ Distinct(queue'[s])
                /\ Within(queue'[s]) \subseteq Within(queue[s]) \ {e.id}
                /\ \A i \in DOMAIN queue'[s] :
                     \E k \in DOMAIN queue[s] : queue'[s][i] = queue[s][k]
<1> DEFINE s0 == Store(r)
           e == Head(queue[s0])
<1>1. s0 \in Stores BY DEF Store, Stores
<1>2. /\ stage[r] = "idle" /\ queue[s0] # <<>> /\ stage' = [stage EXCEPT ![r] = "handling"]
      /\ hand' = [hand EXCEPT ![r] = e] /\ queue' = [queue EXCEPT ![s0] = Tail(queue[s0])]
  BY DEF Dequeue, Works
<1>3. queue[s0] \in Seq(Tried) /\ Distinct(queue[s0]) BY <1>1 DEF TypeInv, OnePlace
<1>4. /\ Tail(queue[s0]) \in Seq(Tried) /\ e \in Tried /\ Distinct(Tail(queue[s0]))
      /\ 1 \in DOMAIN queue[s0] /\ e = queue[s0][1] /\ e.id \in Within(queue[s0])
      /\ Within(Tail(queue[s0])) = Within(queue[s0]) \ {e.id}
      /\ \A i \in DOMAIN Tail(queue[s0]) :
           \E k \in DOMAIN queue[s0] : Tail(queue[s0])[i] = queue[s0][k]
  BY <1>2, <1>3, TailIds
<1> HIDE DEF s0, e
<1>5. /\ queue' \in [Stores -> Seq(Tried)] /\ queue'[s0] = Tail(queue[s0])
      /\ \A s \in Stores : s # s0 => queue'[s] = queue[s]
  BY <1>1, <1>2, <1>4 DEF TypeInv
<1>6. \A s \in Stores : s # s0 => e.id \notin Within(queue[s])
  BY <1>1, <1>4 DEF OnePlace
<1>7. ASSUME NEW s \in Stores
      PROVE  /\ Distinct(queue'[s])
             /\ Within(queue'[s]) = Within(queue[s]) \ {e.id}
             /\ \A i \in DOMAIN queue'[s] :
                  \E k \in DOMAIN queue[s] : queue'[s][i] = queue[s][k]
  <2>1. CASE s = s0 BY <2>1, <1>4, <1>5
  <2>2. CASE s # s0 BY <2>2, <1>5, <1>6 DEF OnePlace
  <2> QED BY <2>1, <2>2
<1>8. e.id \in Queued /\ e.id \notin Held
  BY <1>1, <1>4, InQueued DEF OnePlace
<1>9. Queued' = Queued \ {e.id}
  <2>1. ASSUME NEW j PROVE j \in Queued' <=> j \in Queued \ {e.id}
    <3>1. j \in Queued' <=> \E s \in Stores : j \in Within(queue'[s]) BY InQueued
    <3>2. j \in Queued <=> \E s \in Stores : j \in Within(queue[s]) BY InQueued
    <3> QED BY <3>1, <3>2, <1>7
  <2> QED BY <2>1
<1>10. Held' = Held \union {e.id}
  <2>1. /\ stage'[r] = "handling" /\ hand'[r] = e
        /\ \A q \in Replicas : q # r => stage'[q] = stage[q] /\ hand'[q] = hand[q]
    BY <1>2 DEF TypeInv
  <2> QED BY <1>2, <2>1 DEF Held
<1> QED BY <1>1, <1>2, <1>4, <1>5, <1>7, <1>8, <1>9, <1>10 DEF e

LEMMA DequeueKeeps ==
  ASSUME Placed, NEW r \in Replicas, Dequeue(r)
  PROVE  Placed' /\ \A j \in Jobs : Fate(j)' = Fate(j)
<1>1. PICK s0 \in Stores : LET e == Head(queue[s0]) IN
        /\ e \in Tried /\ 1 \in DOMAIN queue[s0] /\ e = queue[s0][1]
        /\ e.id \in Queued /\ e.id \notin Held
        /\ Queued' = Queued \ {e.id} /\ Held' = Held \union {e.id}
        /\ queue' \in [Stores -> Seq(Tried)]
        /\ stage[r] = "idle" /\ stage' = [stage EXCEPT ![r] = "handling"]
        /\ hand' = [hand EXCEPT ![r] = e]
        /\ \A s \in Stores :
             /\ Distinct(queue'[s])
             /\ Within(queue'[s]) \subseteq Within(queue[s]) \ {e.id}
             /\ \A i \in DOMAIN queue'[s] :
                  \E k \in DOMAIN queue[s] : queue'[s][i] = queue[s][k]
  BY DequeueMoves DEF Placed
<1> DEFINE e == Head(queue[s0])
<1>2. UNCHANGED <<durable, intake, dead, source, done, swallowed, raised, mishaps>> /\ Buried' = Buried
  BY DEF Dequeue, Buried
<1>3. e.attempts = raised[e.id] /\ e.attempts < MaxAttempts
  BY <1>1 DEF Placed, Counted
<1> HIDE DEF e
<1>4. /\ stage'[r] = "handling" /\ hand'[r] = e
      /\ \A q \in Replicas : q # r => stage'[q] = stage[q] /\ hand'[q] = hand[q]
  BY <1>1 DEF Placed, TypeInv, e
<1>5. TypeInv'
  BY <1>1, <1>2, <1>4 DEF Placed, TypeInv, intake, Stages, e
<1>6. Counted'
  BY <1>1, <1>2, <1>3, <1>4 DEF Placed, Counted
<1>7. OnePlace'
  <2>1. \A p, q \in Replicas : stage'[p] # "idle" /\ stage'[q] # "idle"
          /\ hand'[p].id = hand'[q].id => p = q
    BY <1>1, <1>4 DEF Placed, OnePlace, Held, e
  <2>2. \A s \in Stores : Distinct(queue'[s]) /\ Within(queue'[s]) \intersect Held' = {}
    BY <1>1 DEF Placed, OnePlace
  <2>3. \A s, t \in Stores : s # t => Within(queue'[s]) \intersect Within(queue'[t]) = {}
    BY <1>1 DEF Placed, OnePlace
  <2>4. Queued' \union Held' = Queued \union Held BY <1>1
  <2> QED BY <1>2, <2>1, <2>2, <2>3, <2>4 DEF Placed, OnePlace
<1>8. \A j \in Jobs : Fate(j)' = Fate(j)
  <2>1. Queued' \union Held' = Queued \union Held BY <1>1
  <2> QED BY <1>2, <1>7, <2>1, FateIs, FateWillBe DEF FatesTold, Placed
<1> QED BY <1>5, <1>6, <1>7, <1>8 DEF Placed

\* Steps of the intake that queue nothing move no job.
LEMMA UnqueuedKeeps ==
  ASSUME Placed, TypeInv', UNCHANGED <<queue, dead, stage, hand, source, done, swallowed, raised>>
  PROVE  Placed' /\ \A j \in Jobs : Fate(j)' = Fate(j)
<1>1. Queued' = Queued /\ Held' = Held /\ Buried' = Buried
  BY DEF Queued, Held, Buried
<1>2. OnePlace' BY <1>1 DEF Placed, OnePlace
<1>3. Counted' BY DEF Placed, Counted
<1> QED BY <1>1, <1>2, <1>3, FateIs, FateWillBe DEF FatesTold, Placed

\* A posted job was nowhere, and is now at the end of a queue.
LEMMA PostKeeps ==
  ASSUME Placed, NEW r \in Replicas, NEW x \in Sources, Post(r, x)
  PROVE  /\ Placed'
         /\ \E j \in Jobs :
              /\ Fate(j) = "none" /\ Fate(j)' = "pending"
              /\ \A k \in Jobs \ {j} : Fate(k)' = Fate(k)
         /\ \E j \in Jobs : source[j] = Unused /\ source' = [source EXCEPT ![j] = <<r, x>>]
<1>1. PICK new \in Jobs :
        /\ source[new] = Unused /\ Enqueue(r, [id |-> new, attempts |-> 0])
        /\ source' = [source EXCEPT ![new] = <<r, x>>]
        /\ posting' = [posting EXCEPT ![r] = @ \ {x}]
        /\ UNCHANGED <<durable, claimed, expiries, dead, work, done, swallowed, raised, mishaps>>
  BY DEF Post, Posted
<1> DEFINE e == [id |-> new, attempts |-> 0]
<1>2. e \in Tried /\ e.id = new /\ e.attempts = 0 /\ Enqueue(r, e) BY <1>1 DEF Tried
<1> HIDE DEF e
<1>3. new \notin Queued \union Held \union done \union Buried
  BY <1>1 DEF Placed, OnePlace
<1>4. /\ queue' \in [Stores -> Seq(Tried)] /\ Queued' = Queued \union {e.id}
      /\ \A s \in Stores :
           /\ Distinct(queue'[s])
           /\ Within(queue'[s]) = IF s = Store(r)
                                  THEN Within(queue[s]) \union {e.id}
                                  ELSE Within(queue[s])
           /\ \A i \in DOMAIN queue'[s] :
                queue'[s][i] = e \/ \E k \in DOMAIN queue[s] : queue'[s][i] = queue[s][k]
  <2>1. TypeInv /\ OnePlace /\ e.id \notin Queued BY <1>2, <1>3 DEF Placed
  <2> QED BY <1>1, <1>2, <2>1, EnqueueAdds
<1>5. /\ Held' = Held /\ Buried' = Buried
      /\ done' = done /\ swallowed' = swallowed
  BY <1>1 DEF Held, Buried, work
<1>6. <<r, x>> # Unused BY NamesAssumption DEF Unused
<1>7. TypeInv' BY <1>1, <1>4 DEF Placed, TypeInv, work
<1>8. \A s \in Stores : new \notin Within(queue[s]) BY <1>3, InQueued
<1>9. OnePlace'
  <2>1. \A s \in Stores : Distinct(queue'[s]) /\ Within(queue'[s]) \intersect Held' = {}
    BY <1>2, <1>3, <1>4, <1>5 DEF Placed, OnePlace
  <2>2. \A s, t \in Stores : s # t => Within(queue'[s]) \intersect Within(queue'[t]) = {}
    <3> DEFINE s0 == Store(r)
    <3>1. \A s \in Stores : s # s0 => Within(queue'[s]) = Within(queue[s])
      BY <1>4
    <3>2. Within(queue'[s0]) \subseteq Within(queue[s0]) \union {new} BY <1>2, <1>4 DEF Store, Stores
    <3> HIDE DEF s0
    <3> QED BY <3>1, <3>2, <1>8 DEF Placed, OnePlace
  <2>3. \A j \in Jobs : source'[j] = Unused => source[j] = Unused /\ j # new
    BY <1>1, <1>6 DEF Placed, TypeInv
  <2> QED BY <1>1, <1>2, <1>3, <1>4, <1>5, <2>1, <2>2, <2>3 DEF Placed, OnePlace, work
<1>10. Counted'
  <2>1. raised[new] = 0 /\ MaxAttempts > 0
    BY <1>1, AttemptsAssumption DEF Placed, Counted
  <2> QED BY <1>1, <1>2, <1>4, <2>1, AttemptsAssumption DEF Placed, Counted, work
<1>11. OnePlace /\ FatesTold /\ FatesTold' BY <1>9, FateIs, FateWillBe DEF Placed
<1>12. Fate(new) = "none" /\ Fate(new)' = "pending"
  BY <1>1, <1>2, <1>3, <1>4, <1>11 DEF FatesTold
<1>13. ASSUME NEW k \in Jobs \ {new} PROVE Fate(k)' = Fate(k)
  <2>1. source'[k] = source[k] BY <1>1 DEF Placed, TypeInv
  <2>2. /\ k \in Queued' \union Held' <=> k \in Queued \union Held
        /\ k \in done' <=> k \in done
        /\ k \in swallowed' <=> k \in swallowed
        /\ k \in Buried' <=> k \in Buried
    BY <1>2, <1>4, <1>5
  <2> QED BY <1>11, <2>1, <2>2 DEF FatesTold
<1> QED BY <1>1, <1>7, <1>9, <1>10, <1>12, <1>13 DEF Placed

\* A job that leaves a hand for good, to be done, buried or lost, has another fate;
\* no other job has.
LEMMA LeavesHand ==
  ASSUME Placed, NEW r \in Replicas, stage[r] # "idle", Works(r, "idle", NoJob),
         UNCHANGED <<durable, claimed, posting, expiries, queue, source, raised>>,
         mishaps' \in Nat, NEW h, h = hand[r].id,
         done' \subseteq done \union {h}, done \subseteq done',
         \A j : j # h => (j \in swallowed' <=> j \in swallowed),
         dead' \in [Stores -> SUBSET Jobs],
         Buried \subseteq Buried', Buried' \subseteq Buried \union {h}
  PROVE  /\ Placed' /\ h \in Jobs /\ Fate(h) = "pending"
         /\ h \in done' =>
              Fate(h)' = IF h \in swallowed' THEN "swallowed" ELSE "done"
         /\ h \in Buried' /\ done' = done => Fate(h)' = "dead"
         /\ Buried' = Buried /\ done' = done => Fate(h)' = "lost"
         /\ \A j \in Jobs : j # h => Fate(j)' = Fate(j)
<1>1. /\ Held' = Held \ {h} /\ h \in Held /\ h \in Jobs
      /\ stage' \in [Replicas -> Stages] /\ hand' \in [Replicas -> Tried \union {NoJob}]
      /\ stage'[r] = "idle"
      /\ \A q \in Replicas : q # r => stage'[q] = stage[q] /\ hand'[q] = hand[q]
  BY HandEmptied DEF Placed
<1>2. Queued' = Queued BY DEF Queued
<1>3. h \notin Queued BY <1>1, InQueued DEF Placed, OnePlace
<1>4. TypeInv' BY <1>1 DEF Placed, TypeInv
<1>5. Counted' BY <1>1 DEF Placed, Counted
<1>6. source[h] # Unused BY <1>1 DEF Placed, OnePlace
<1>7. OnePlace'
  <2>1. \A p, q \in Replicas : stage'[p] # "idle" /\ stage'[q] # "idle"
          /\ hand'[p].id = hand'[q].id => p = q
    BY <1>1 DEF Placed, OnePlace
  <2>2. \A s \in Stores : Distinct(queue'[s]) /\ Within(queue'[s]) \intersect Held' = {}
    BY <1>1 DEF Placed, OnePlace
  <2>3. \A s, t \in Stores : s # t => Within(queue'[s]) \intersect Within(queue'[t]) = {}
    BY DEF Placed, OnePlace
  <2>4. (Queued' \union Held') \intersect (done' \union Buried') = {}
    BY <1>1, <1>2, <1>3 DEF Placed, OnePlace
  <2>5. \A j \in Jobs : source'[j] = Unused =>
                       j \notin Queued' \union Held' \union done' \union Buried'
    BY <1>1, <1>2, <1>6 DEF Placed, OnePlace
  <2> QED BY <2>1, <2>2, <2>3, <2>4, <2>5 DEF OnePlace
<1>8. OnePlace /\ FatesTold /\ FatesTold' BY <1>7, FateIs, FateWillBe DEF Placed
<1>9. Fate(h) = "pending" /\ h \notin done /\ h \notin Buried
  BY <1>1, <1>8 DEF FatesTold, OnePlace
<1>10. /\ h \in done' =>
            Fate(h)' = IF h \in swallowed' THEN "swallowed" ELSE "done"
       /\ h \in Buried' /\ done' = done => Fate(h)' = "dead"
       /\ Buried' = Buried /\ done' = done => Fate(h)' = "lost"
  BY <1>1, <1>2, <1>3, <1>6, <1>8, <1>9 DEF FatesTold
<1>11. ASSUME NEW j \in Jobs, j # h PROVE Fate(j)' = Fate(j)
  <2>1. /\ j \in Queued' \union Held' <=> j \in Queued \union Held
        /\ j \in done' <=> j \in done
        /\ j \in swallowed' <=> j \in swallowed
        /\ j \in Buried' <=> j \in Buried
    BY <1>1, <1>2, <1>11
  <2> QED BY <1>8, <2>1 DEF FatesTold
<1> QED BY <1>1, <1>4, <1>5, <1>7, <1>9, <1>10, <1>11 DEF Placed

\* A handler that raises keeps the job in hand, with one attempt more.
LEMMA RaisesKeeps ==
  ASSUME Placed, NEW r \in Replicas, Raises(r)
  PROVE  /\ Placed' /\ \A j \in Jobs : Fate(j)' = Fate(j)
         /\ \E h \in Jobs : /\ Fate(h) = "pending" /\ raised[h] < MaxAttempts
                           /\ raised' = [raised EXCEPT ![h] = @ + 1]
<1> DEFINE job == [hand[r] EXCEPT !.attempts = @ + 1]
           h == hand[r].id
           to == IF Exhausted(job.attempts) THEN "burying" ELSE "backoff"
<1>1. /\ stage[r] = "handling" /\ stage' = [stage EXCEPT ![r] = to]
      /\ hand' = [hand EXCEPT ![r] = job] /\ raised' = [raised EXCEPT ![h] = @ + 1]
      /\ UNCHANGED <<durable, intake, queue, dead, source, done, swallowed, mishaps>>
  BY DEF Raises, Works
<1>2. /\ hand[r] \in Tried /\ h \in Jobs /\ h \in Held
      /\ hand[r].attempts = raised[h] /\ raised[h] \in Nat /\ raised[h] < MaxAttempts
  BY <1>1 DEF Placed, TypeInv, Counted, Tried, Held
<1>3. job \in Tried /\ job.id = h /\ job.attempts = raised[h] + 1
  BY <1>2 DEF Tried
<1>4. /\ to \in Stages \ {"idle"} /\ to # "handling"
      /\ to = "burying" => job.attempts = MaxAttempts
      /\ to # "burying" => job.attempts < MaxAttempts
  BY <1>2, <1>3, AttemptsAssumption DEF Exhausted, Stages
<1> HIDE DEF job, to
<1>5. /\ stage' \in [Replicas -> Stages] /\ hand' \in [Replicas -> Tried \union {NoJob}]
      /\ stage'[r] = to /\ hand'[r] = job
      /\ \A q \in Replicas : q # r => stage'[q] = stage[q] /\ hand'[q] = hand[q]
  BY <1>1, <1>3, <1>4 DEF Placed, TypeInv
<1>6. /\ Queued' = Queued /\ Buried' = Buried /\ source' = source
      /\ done' = done /\ swallowed' = swallowed
  BY <1>1 DEF Queued, Buried
<1>7. Held' = Held BY <1>1, <1>3, <1>4, <1>5 DEF Held
<1>8. TypeInv' BY <1>1, <1>2, <1>3, <1>4, <1>5 DEF Placed, TypeInv, intake
<1>9. OnePlace'
  <2>1. \A p, q \in Replicas : stage'[p] # "idle" /\ stage'[q] # "idle"
          /\ hand'[p].id = hand'[q].id => p = q
    BY <1>1, <1>3, <1>5 DEF Placed, OnePlace
  <2> QED BY <1>1, <1>6, <1>7, <2>1 DEF Placed, OnePlace
<1>10. Counted'
  <2>1. raised'[h] = raised[h] + 1 /\ \A j \in Jobs : j # h => raised'[j] = raised[j]
    BY <1>1, <1>2 DEF Placed, TypeInv
  <2>2. \A s \in Stores : \A i \in DOMAIN queue[s] :
          queue[s][i].id \in Jobs /\ queue[s][i].id # h
    <3>1. ASSUME NEW s \in Stores, NEW i \in DOMAIN queue[s]
          PROVE  queue[s][i].id \in Jobs /\ queue[s][i].id # h
      <4>1. queue[s] \in Seq(Tried) BY DEF Placed, TypeInv
      <4>2. queue[s][i] \in Tried BY <3>1, <4>1
      <4>3. queue[s][i].id \in Within(queue[s]) BY <3>1 DEF Within
      <4> QED BY <1>2, <4>2, <4>3 DEF Placed, OnePlace, Tried
    <3> QED BY <3>1
  <2>3. \A q \in Replicas : q # r /\ stage[q] # "idle" =>
          hand[q].id \in Jobs /\ hand[q].id # h
    BY <1>1 DEF Placed, OnePlace, TypeInv, Tried
  <2>4. source[h] # Unused BY <1>2 DEF Placed, OnePlace
  <2>5. \A s \in Stores : \A i \in DOMAIN queue'[s] :
          /\ queue'[s][i].attempts = raised'[queue'[s][i].id]
          /\ queue'[s][i].attempts < MaxAttempts
    BY <1>1, <2>1, <2>2 DEF Placed, Counted
  <2>6. \A q \in Replicas : stage'[q] # "idle" =>
          /\ hand'[q].attempts = raised'[hand'[q].id]
          /\ IF stage'[q] = "burying" THEN hand'[q].attempts = MaxAttempts
                                      ELSE hand'[q].attempts < MaxAttempts
    BY <1>3, <1>4, <1>5, <2>1, <2>3 DEF Placed, Counted
  <2> QED BY <1>6, <2>1, <2>4, <2>5, <2>6 DEF Placed, Counted
<1>11. \A j \in Jobs : Fate(j)' = Fate(j)
  BY <1>6, <1>7, <1>9, FateIs, FateWillBe DEF FatesTold, Placed
<1>12. Fate(h) = "pending" BY <1>2, FateIs DEF FatesTold, Placed
<1> QED BY <1>1, <1>2, <1>8, <1>9, <1>10, <1>11, <1>12 DEF Placed
\* A retried job goes from the hand to the end of the queue.
LEMMA RequeueKeeps ==
  ASSUME Placed, NEW r \in Replicas, Requeue(r)
  PROVE  Placed' /\ \A j \in Jobs : Fate(j)' = Fate(j)
<1>1. PICK e \in Tried : e = hand[r] BY DEF Requeue, Placed, TypeInv
<1>2. /\ stage[r] = "backoff" /\ Works(r, "idle", NoJob) /\ Enqueue(r, e)
      /\ UNCHANGED <<durable, intake, dead, source, done, swallowed, raised, mishaps>>
  BY <1>1 DEF Requeue
<1>3. /\ Held' = Held \ {e.id} /\ e.id \in Held /\ e.id \in Jobs
      /\ stage' \in [Replicas -> Stages] /\ hand' \in [Replicas -> Tried \union {NoJob}]
      /\ stage'[r] = "idle"
      /\ \A q \in Replicas : q # r => stage'[q] = stage[q] /\ hand'[q] = hand[q]
  BY <1>1, <1>2, HandEmptied DEF Placed
<1>4. e.id \notin Queued BY <1>3, InQueued DEF Placed, OnePlace
<1>5. /\ queue' \in [Stores -> Seq(Tried)] /\ Queued' = Queued \union {e.id}
      /\ \A s \in Stores :
           /\ Distinct(queue'[s])
           /\ Within(queue'[s]) = IF s = Store(r)
                                  THEN Within(queue[s]) \union {e.id}
                                  ELSE Within(queue[s])
           /\ \A i \in DOMAIN queue'[s] :
                queue'[s][i] = e \/ \E k \in DOMAIN queue[s] : queue'[s][i] = queue[s][k]
  BY <1>2, <1>4, EnqueueAdds DEF Placed
<1>6. /\ Buried' = Buried /\ source' = source /\ raised' = raised
      /\ done' = done /\ swallowed' = swallowed
  BY <1>2 DEF Buried
<1>7. Queued' \union Held' = Queued \union Held BY <1>3, <1>5
<1>8. TypeInv' BY <1>2, <1>3, <1>5 DEF Placed, TypeInv, intake
<1>9. OnePlace'
  <2>1. \A s \in Stores : Distinct(queue'[s]) /\ Within(queue'[s]) \intersect Held' = {}
    BY <1>3, <1>5 DEF Placed, OnePlace
  <2>2. \A s, t \in Stores : s # t => Within(queue'[s]) \intersect Within(queue'[t]) = {}
    <3> DEFINE s0 == Store(r)
    <3>1. \A s \in Stores : s # s0 => Within(queue'[s]) = Within(queue[s]) BY <1>5
    <3>2. Within(queue'[s0]) \subseteq Within(queue[s0]) \union {e.id}
      BY <1>5 DEF Store, Stores
    <3>3. \A s \in Stores : e.id \notin Within(queue[s]) BY <1>4, InQueued
    <3> HIDE DEF s0
    <3> QED BY <3>1, <3>2, <3>3 DEF Placed, OnePlace
  <2>3. \A p, q \in Replicas : stage'[p] # "idle" /\ stage'[q] # "idle"
          /\ hand'[p].id = hand'[q].id => p = q
    BY <1>3 DEF Placed, OnePlace
  <2> QED BY <1>6, <1>7, <2>1, <2>2, <2>3 DEF Placed, OnePlace
<1>10. Counted'
  <2>1. e.attempts = raised[e.id] /\ e.attempts < MaxAttempts
    BY <1>1, <1>2 DEF Placed, Counted
  <2> QED BY <1>3, <1>5, <1>6, <2>1 DEF Placed, Counted
<1>11. \A j \in Jobs : Fate(j)' = Fate(j)
  BY <1>6, <1>7, <1>9, FateIs, FateWillBe DEF FatesTold, Placed
<1> QED BY <1>8, <1>9, <1>10, <1>11 DEF Placed

\* What a restart takes along was pending, or a dead letter of a queue that is not
\* durable; of a durable queue it takes the job in hand at most.
LEMMA RestartKeeps ==
  ASSUME Placed, NEW r \in Replicas, Restart(r)
  PROVE  /\ Placed' /\ mishaps' = mishaps + 1
         /\ \A j \in Jobs : Fate(j)' # Fate(j) =>
              /\ Fate(j)' = "lost"
              /\ Fate(j) = "pending" \/ (Fate(j) = "dead" /\ ~durable)
              /\ durable => j = hand[r].id
<1>1. /\ Works(r, "idle", NoJob) /\ mishaps' = mishaps + 1
      /\ claimed' = [claimed EXCEPT ![r] = {}] /\ posting' = [posting EXCEPT ![r] = {}]
      /\ queue' = IF durable THEN queue ELSE [queue EXCEPT ![r] = <<>>]
      /\ dead' = IF durable THEN dead ELSE [dead EXCEPT ![r] = {}]
      /\ UNCHANGED <<durable, expiries, source, done, swallowed, raised>>
  BY DEF Restart, Mishap
<1>2. /\ stage' \in [Replicas -> Stages] /\ hand' \in [Replicas -> Tried \union {NoJob}]
      /\ stage'[r] = "idle"
      /\ \A q \in Replicas : q # r => stage'[q] = stage[q] /\ hand'[q] = hand[q]
  BY <1>1 DEF Works, Placed, TypeInv, Stages
<1>3. Held' \subseteq Held /\ \A j \in Held \ Held' : j = hand[r].id
  BY <1>2 DEF Held
<1>4. r \in Stores BY DEF Stores
<1>5. /\ queue' \in [Stores -> Seq(Tried)]
      /\ \A s \in Stores : queue'[s] = queue[s] \/ queue'[s] = <<>>
  <2>1. <<>> \in Seq(Tried) BY EmptySeq
  <2> QED BY <1>1, <1>4, <2>1 DEF Placed, TypeInv
<1>6. \A s \in Stores : /\ Within(queue'[s]) \subseteq Within(queue[s])
                        /\ Distinct(queue'[s])
                        /\ \A i \in DOMAIN queue'[s] :
                             \E k \in DOMAIN queue[s] : queue'[s][i] = queue[s][k]
  <2> SUFFICES ASSUME NEW s \in Stores
               PROVE  /\ Within(queue'[s]) \subseteq Within(queue[s])
                      /\ Distinct(queue'[s])
                      /\ \A i \in DOMAIN queue'[s] :
                           \E k \in DOMAIN queue[s] : queue'[s][i] = queue[s][k]
    OBVIOUS
  <2>1. CASE queue'[s] = queue[s] BY <2>1 DEF Placed, OnePlace
  <2>2. CASE queue'[s] = <<>>
    <3>1. DOMAIN queue'[s] = {} BY <2>2
    <3> QED BY <3>1 DEF Within, Distinct
  <2> QED BY <1>5, <2>1, <2>2
<1>7. Queued' \subseteq Queued BY <1>6, InQueued
<1>8. /\ dead' \in [Stores -> SUBSET Jobs]
      /\ \A s \in Stores : dead'[s] \subseteq dead[s]
  BY <1>1, <1>4 DEF Placed, TypeInv
<1>9. Buried' \subseteq Buried BY <1>8, InQueued
<1>10. durable => Queued' = Queued /\ Buried' = Buried
  <2>1. durable => queue' = queue /\ dead' = dead BY <1>1
  <2> QED BY <2>1 DEF Queued, Buried
<1>11. TypeInv'
  <2>1. claimed' \in [Replicas -> SUBSET Sources] /\ posting' \in [Replicas -> SUBSET Sources]
    BY <1>1 DEF Placed, TypeInv
  <2>2. mishaps' \in Nat BY <1>1 DEF Placed, TypeInv
  <2>3. \A q \in Replicas : stage'[q] # "idle" => hand'[q] \in Tried
    BY <1>2 DEF Placed, TypeInv
  <2>4. UNCHANGED <<durable, expiries, source, done, swallowed, raised>> BY <1>1
  <2> QED BY <1>2, <1>5, <1>8, <2>1, <2>2, <2>3, <2>4 DEF Placed, TypeInv
<1>12. OnePlace'
  <2>1. \A p, q \in Replicas : stage'[p] # "idle" /\ stage'[q] # "idle"
          /\ hand'[p].id = hand'[q].id => p = q
    BY <1>2 DEF Placed, OnePlace
  <2>2. \A s \in Stores : Distinct(queue'[s]) /\ Within(queue'[s]) \intersect Held' = {}
    BY <1>3, <1>6 DEF Placed, OnePlace
  <2>3. \A s, t \in Stores : s # t => Within(queue'[s]) \intersect Within(queue'[t]) = {}
    BY <1>6 DEF Placed, OnePlace
  <2> QED BY <1>1, <1>3, <1>7, <1>9, <2>1, <2>2, <2>3 DEF Placed, OnePlace
<1>13. Counted' BY <1>1, <1>2, <1>6 DEF Placed, Counted
<1>14. ASSUME NEW j \in Jobs, Fate(j)' # Fate(j)
       PROVE  /\ Fate(j)' = "lost"
              /\ Fate(j) = "pending" \/ (Fate(j) = "dead" /\ ~durable)
              /\ durable => j = hand[r].id
  <2>1. OnePlace /\ FatesTold /\ FatesTold' BY <1>12, FateIs, FateWillBe DEF Placed
  <2>2. j \notin done /\ done' = done /\ swallowed' = swallowed /\ source' = source
    BY <1>1, <1>14, <2>1 DEF FatesTold
  <2>3. CASE j \in Queued \union Held
    <3>1. j \notin Queued' \union Held' BY <1>14, <2>1, <2>3 DEF FatesTold
    <3>2. j \notin Buried /\ source[j] # Unused BY <2>1, <2>3 DEF OnePlace
    <3> QED BY <1>3, <1>9, <1>10, <2>1, <2>2, <2>3, <3>1, <3>2 DEF FatesTold
  <2>4. CASE j \in Buried /\ j \notin Queued \union Held
    <3>1. j \notin Buried' BY <1>14, <2>1, <2>2, <2>4 DEF FatesTold
    <3>2. source[j] # Unused BY <2>1, <2>4 DEF OnePlace
    <3> QED BY <1>3, <1>7, <1>10, <2>1, <2>2, <2>4, <3>1, <3>2 DEF FatesTold
  <2>5. CASE j \notin Queued \union Held \union Buried
    BY <1>3, <1>7, <1>9, <1>14, <2>1, <2>2, <2>5 DEF FatesTold
  <2> QED BY <2>3, <2>4, <2>5
<1> QED BY <1>1, <1>11, <1>12, <1>13, <1>14 DEF Placed
-----------------------------------------------------------------------------
(* Every step is a step of JobFates, or none.                              *)

\* A step that moves one job from one fate to another.
LEMMA OneFateMoves ==
  ASSUME NEW j \in Jobs, NEW from, NEW to, Fate(j) = from, Fate(j)' = to,
         \A k \in Jobs \ {j} : Fate(k)' = Fate(k),
         UNCHANGED <<durable, mishaps>>
  PROVE  Fates!Becomes(j, from, to)
BY DEF Fates!Becomes

\* A mishap loses the jobs whose fate it changes.
LEMMA MishapLoses ==
  ASSUME NEW h,
         \A j \in Jobs : Fate(j)' # Fate(j) =>
           /\ Fate(j)' = "lost"
           /\ Fate(j) = "pending" \/ (Fate(j) = "dead" /\ ~durable)
           /\ durable => j = h,
         UNCHANGED <<durable, raised>>, mishaps' = mishaps + 1
  PROVE  \E S \in SUBSET Jobs : Fates!Mishap(S)
<1> DEFINE S == {j \in Jobs : Fate(j)' # Fate(j)}
<1>1. durable => \A j, k \in S : j = k
  OBVIOUS
<1>2. [j \in Jobs |-> Fate(j)]'
        = [j \in Jobs |-> IF j \in S THEN "lost" ELSE [k \in Jobs |-> Fate(k)][j]]
  OBVIOUS
<1>3. S \in SUBSET Jobs
      /\ \A j \in S : Fate(j) = "pending" \/ (Fate(j) = "dead" /\ ~durable)
  OBVIOUS
<1>4. \A j \in S : \/ [k \in Jobs |-> Fate(k)][j] = "pending"
                   \/ [k \in Jobs |-> Fate(k)][j] = "dead" /\ ~durable
  BY <1>3
<1> HIDE DEF S
<1>5. Fates!Mishap(S) BY <1>1, <1>2, <1>4 DEF Fates!Mishap
<1> QED BY <1>3, <1>5

LEMMA StepKeepsFates ==
  ASSUME Placed, [Next]_vars
  PROVE  Placed' /\ [Fates!FatesNext]_(Fates!fvars)
<1> DEFINE Same == \A j \in Jobs : Fate(j)' = Fate(j)
<1>s. ASSUME Same, UNCHANGED <<durable, raised, mishaps>> PROVE UNCHANGED Fates!fvars
  BY <1>s DEF Fates!fvars
<1>1. ASSUME NEW r \in Replicas, NEW x \in Sources, Claim(r, x) \/ Expire(r, x)
      PROVE  Placed' /\ UNCHANGED Fates!fvars
  <2>1. UNCHANGED <<durable, queue, dead, stage, hand, source, done, swallowed, raised, mishaps>>
    BY <1>1 DEF Claim, Expire, work
  <2>2. /\ claimed' \in [Replicas -> SUBSET Sources] /\ posting' \in [Replicas -> SUBSET Sources]
        /\ expiries' \in Nat
    <3>1. CASE Claim(r, x) BY <3>1 DEF Claim, Marked, Placed, TypeInv
    <3>2. CASE Expire(r, x) BY <3>2 DEF Expire, Placed, TypeInv
    <3> QED BY <1>1, <3>1, <3>2
  <2>3. TypeInv' BY <2>1, <2>2 DEF Placed, TypeInv
  <2> QED BY <2>1, <2>3, <1>s, UnqueuedKeeps
<1>2. ASSUME NEW r \in Replicas, NEW x \in Sources, Post(r, x)
      PROVE  Placed' /\ Fates!FatesNext
  <2>1. PICK j \in Jobs : /\ Fate(j) = "none" /\ Fate(j)' = "pending"
                         /\ \A k \in Jobs \ {j} : Fate(k)' = Fate(k)
    BY <1>2, PostKeeps
  <2>2. UNCHANGED <<durable, mishaps, raised>> BY <1>2 DEF Post
  <2>3. Fates!Becomes(j, "none", "pending") BY <2>1, <2>2, OneFateMoves
  <2> QED BY <1>2, <2>2, <2>3, PostKeeps DEF Fates!FatesNext, Fates!Accept
<1>3. ASSUME NEW r \in Replicas, NEW x \in Sources, PostFails(r, x)
      PROVE  Placed' /\ Fates!FatesNext
  <2>1. /\ UNCHANGED <<durable, queue, dead, stage, hand, source, done, swallowed, raised>>
        /\ mishaps' = mishaps + 1
    BY <1>3 DEF PostFails, Mishap, work
  <2>2. TypeInv' BY <1>3, <2>1 DEF PostFails, Posted, Placed, TypeInv
  <2>3. Placed' /\ Same BY <2>1, <2>2, UnqueuedKeeps
  <2>4. \E S \in SUBSET Jobs : Fates!Mishap(S) BY <2>1, <2>3, MishapLoses
  <2> QED BY <2>3, <2>4 DEF Fates!FatesNext
<1>4. ASSUME NEW r \in Replicas, Dequeue(r) \/ Requeue(r)
      PROVE  Placed' /\ UNCHANGED Fates!fvars
  BY <1>4, <1>s, DequeueKeeps, RequeueKeeps DEF Dequeue, Requeue
<1>5. ASSUME NEW r \in Replicas, Raises(r)
      PROVE  Placed' /\ Fates!FatesNext
  <2>1. Placed' /\ Same BY <1>5, RaisesKeeps
  <2>2. PICK h \in Jobs : /\ Fate(h) = "pending" /\ raised[h] < MaxAttempts
                         /\ raised' = [raised EXCEPT ![h] = @ + 1]
    BY <1>5, RaisesKeeps
  <2>3. Fates!Fail(h) BY <1>5, <2>1, <2>2 DEF Raises, Fates!Fail
  <2> QED BY <2>1, <2>3 DEF Fates!FatesNext
<1>6. ASSUME NEW r \in Replicas, Returns(r)
      PROVE  Placed' /\ Fates!FatesNext
  <2>1. PICK h : h = hand[r].id OBVIOUS
  <2>2. /\ stage[r] = "handling" /\ Works(r, "idle", NoJob) /\ done' = done \union {h}
        /\ swallowed' \in {swallowed, swallowed \union {h}}
        /\ UNCHANGED <<durable, intake, queue, dead, source, raised, mishaps>>
    BY <1>6, <2>1 DEF Returns
  <2>3. /\ Buried' = Buried /\ dead' \in [Stores -> SUBSET Jobs] /\ mishaps' \in Nat
        /\ \A j : j # h => (j \in swallowed' <=> j \in swallowed)
    BY <2>2 DEF Buried, Placed, TypeInv
  <2>4. /\ Placed' /\ h \in Jobs /\ Fate(h) = "pending"
        /\ Fate(h)' = IF h \in swallowed' THEN "swallowed" ELSE "done"
        /\ \A j \in Jobs : j # h => Fate(j)' = Fate(j)
    BY <2>1, <2>2, <2>3, LeavesHand DEF intake
  <2>5. CASE h \in swallowed'
    <3>1. Fates!Becomes(h, "pending", "swallowed") BY <2>2, <2>4, <2>5, OneFateMoves
    <3> QED BY <2>2, <2>4, <3>1 DEF Fates!FatesNext, Fates!Swallow
  <2>6. CASE h \notin swallowed'
    <3>1. Fates!Becomes(h, "pending", "done") BY <2>2, <2>4, <2>6, OneFateMoves
    <3> QED BY <2>2, <2>4, <3>1 DEF Fates!FatesNext, Fates!Finish
  <2> QED BY <2>5, <2>6
<1>7. ASSUME NEW r \in Replicas, Bury(r)
      PROVE  Placed' /\ Fates!FatesNext
  <2>1. PICK h : h = hand[r].id OBVIOUS
  <2>2. /\ stage[r] = "burying" /\ Works(r, "idle", NoJob)
        /\ dead' = [dead EXCEPT ![Store(r)] = @ \union {h}]
        /\ UNCHANGED <<durable, intake, queue, done, swallowed, source, raised, mishaps>>
    BY <1>7, <2>1 DEF Bury
  <2>3. h \in Jobs /\ raised[h] = MaxAttempts
    BY <2>1, <2>2 DEF Placed, TypeInv, Counted, Tried
  <2>4. Store(r) \in Stores BY DEF Store, Stores
  <2>5. /\ dead' \in [Stores -> SUBSET Jobs] /\ dead'[Store(r)] = dead[Store(r)] \union {h}
        /\ \A s \in Stores : s # Store(r) => dead'[s] = dead[s]
    BY <2>2, <2>3, <2>4 DEF Placed, TypeInv
  <2>6. Buried \subseteq Buried' /\ Buried' \subseteq Buried \union {h} /\ h \in Buried'
    BY <2>4, <2>5, InQueued
  <2>7. mishaps' \in Nat BY <2>2 DEF Placed, TypeInv
  <2>8. /\ Placed' /\ Fate(h) = "pending" /\ Fate(h)' = "dead"
        /\ \A j \in Jobs : j # h => Fate(j)' = Fate(j)
    BY <2>1, <2>2, <2>5, <2>6, <2>7, LeavesHand DEF intake
  <2>9. Fates!Becomes(h, "pending", "dead") BY <2>2, <2>3, <2>8, OneFateMoves
  <2> QED BY <2>2, <2>3, <2>8, <2>9 DEF Fates!FatesNext, Fates!GiveUp
<1>8. ASSUME NEW r \in Replicas, Hiccup(r)
      PROVE  Placed' /\ Fates!FatesNext
  <2>1. PICK h : h = hand[r].id OBVIOUS
  <2>2. /\ stage[r] # "idle" /\ Works(r, "idle", NoJob) /\ mishaps' = mishaps + 1
        /\ UNCHANGED <<durable, intake, queue, dead, done, swallowed, source, raised>>
    BY <1>8 DEF Hiccup, Mishap
  <2>3. Buried' = Buried /\ dead' \in [Stores -> SUBSET Jobs] /\ mishaps' \in Nat
    BY <2>2 DEF Buried, Placed, TypeInv
  <2>4. /\ Placed' /\ Fate(h) = "pending" /\ Fate(h)' = "lost"
        /\ \A j \in Jobs : j # h => Fate(j)' = Fate(j)
    BY <2>1, <2>2, <2>3, LeavesHand DEF intake
  <2>5. \E S \in SUBSET Jobs : Fates!Mishap(S) BY <2>2, <2>4, MishapLoses
  <2> QED BY <2>4, <2>5 DEF Fates!FatesNext
<1>9. ASSUME NEW r \in Replicas, Restart(r)
      PROVE  Placed' /\ Fates!FatesNext
  <2>1. PICK h : h = hand[r].id OBVIOUS
  <2>2. /\ Placed' /\ mishaps' = mishaps + 1
        /\ \A j \in Jobs : Fate(j)' # Fate(j) =>
             /\ Fate(j)' = "lost"
             /\ Fate(j) = "pending" \/ (Fate(j) = "dead" /\ ~durable)
             /\ durable => j = h
    BY <1>9, <2>1, RestartKeeps
  <2>3. UNCHANGED <<durable, raised>> BY <1>9 DEF Restart
  <2>4. \E S \in SUBSET Jobs : Fates!Mishap(S) BY <2>2, <2>3, MishapLoses
  <2> QED BY <2>2, <2>4 DEF Fates!FatesNext
<1>10. CASE UNCHANGED vars
  <2>1. UNCHANGED <<durable, queue, dead, stage, hand, source, done, swallowed, raised, mishaps,
                    claimed, posting, expiries>>
    BY <1>10 DEF vars, intake, work
  <2>2. TypeInv' BY <2>1 DEF Placed, TypeInv
  <2> QED BY <2>1, <2>2, <1>s, UnqueuedKeeps
<1> QED BY <1>1, <1>2, <1>3, <1>4, <1>5, <1>6, <1>7, <1>8, <1>9, <1>10
        DEF Next, Intake, Work
-----------------------------------------------------------------------------
(* The jobs of a source.                                                   *)

\* A step that queues nothing keeps the account if it drops claims only against
\* expiries and mishaps.
LEMMA Unposted ==
  ASSUME Placed, Paid, UNCHANGED source, expiries' \in Nat, mishaps' \in Nat,
         \A r \in Replicas, x \in Sources :
           /\ x \in posting'[r] => x \in claimed'[r]
           /\ One(x \in posting'[r]) - One(x \in claimed'[r]) - expiries' - mishaps'
                <= One(x \in posting[r]) - One(x \in claimed[r]) - expiries - mishaps
  PROVE  Paid'
<1> SUFFICES ASSUME NEW r \in Replicas, NEW x \in Sources
             PROVE  /\ x \in posting'[r] => x \in claimed'[r]
                    /\ Cardinality(For(r, x)') + One(x \in posting'[r])
                         <= One(x \in claimed'[r]) + expiries' + mishaps'
  BY DEF Paid
<1>1. For(r, x)' = For(r, x) BY DEF For
<1>2. Cardinality(For(r, x)) \in Nat
  <2>1. For(r, x) \in SUBSET Jobs BY DEF For
  <2> QED BY <2>1, FiniteAssumption, FS_Subset, FS_CardinalityType
<1>3. Cardinality(For(r, x)) + One(x \in posting[r])
        <= One(x \in claimed[r]) + expiries + mishaps
  BY DEF Paid
<1>4. PICK a \in Int, b \in Int, c \in Int, d \in Int :
        /\ a = One(x \in posting[r]) /\ b = One(x \in claimed[r])
        /\ c = One(x \in posting'[r]) /\ d = One(x \in claimed'[r])
  BY DEF One
<1>5. c - d - expiries' - mishaps' <= a - b - expiries - mishaps BY <1>4
<1>6. mishaps \in Nat /\ expiries \in Nat BY DEF Placed, TypeInv
<1>7. Cardinality(For(r, x)) + c <= d + expiries' + mishaps'
  BY <1>2, <1>3, <1>4, <1>5, <1>6
<1> QED BY <1>1, <1>4, <1>7

LEMMA StepKeepsPaid ==
  ASSUME Placed, Paid, [Next]_vars
  PROVE  Paid'
<1>0. mishaps \in Nat /\ expiries \in Nat BY DEF Placed, TypeInv
<1>1. ASSUME NEW r \in Replicas, NEW x \in Sources, Claim(r, x) PROVE Paid'
  <2>1. /\ x \notin claimed[r] /\ x \notin posting[r]
        /\ claimed'[r] = claimed[r] \union {x} /\ posting'[r] = posting[r] \union {x}
        /\ \A q \in Replicas : q # r => claimed'[q] = claimed[q] /\ posting'[q] = posting[q]
        /\ UNCHANGED <<source, expiries, mishaps>>
    BY <1>1 DEF Claim, Marked, Placed, TypeInv, Paid
  <2>2. ASSUME NEW q \in Replicas, NEW y \in Sources
        PROVE  /\ y \in posting'[q] => y \in claimed'[q]
               /\ One(y \in posting'[q]) - One(y \in claimed'[q])
                    <= One(y \in posting[q]) - One(y \in claimed[q])
    <3>1. CASE q = r /\ y = x BY <2>1, <3>1 DEF One
    <3>2. CASE q = r /\ y # x BY <2>1, <3>2 DEF One, Paid
    <3>3. CASE q # r BY <2>1, <3>3 DEF One, Paid
    <3> QED BY <3>1, <3>2, <3>3
  <2> QED BY <1>0, <2>1, <2>2, Unposted DEF One
<1>2. ASSUME NEW r \in Replicas, NEW x \in Sources, PostFails(r, x) \/ Expire(r, x)
      PROVE  Paid'
  <2>1. CASE PostFails(r, x)
    <3>1. /\ posting' = [posting EXCEPT ![r] = @ \ {x}] /\ claimed' = claimed
          /\ UNCHANGED <<source, expiries>> /\ mishaps' = mishaps + 1
      BY <2>1 DEF PostFails, Posted, Mishap
    <3>2. \A q \in Replicas : posting'[q] \subseteq posting[q]
      BY <3>1 DEF Placed, TypeInv
    <3> QED BY <1>0, <3>1, <3>2, Unposted DEF One, Paid
  <2>2. CASE Expire(r, x)
    <3>1. /\ claimed' = [claimed EXCEPT ![r] = @ \ {x}] /\ posting' = posting
          /\ x \notin posting[r]
          /\ UNCHANGED <<source, mishaps>> /\ expiries' = expiries + 1
      BY <2>2 DEF Expire
    <3>2. \A q \in Replicas, y \in Sources : y \in posting[q] => y \in claimed'[q]
      BY <3>1 DEF Placed, TypeInv, Paid
    <3> QED BY <1>0, <3>1, <3>2, Unposted DEF One
  <2> QED BY <1>2, <2>1, <2>2
<1>3. ASSUME NEW r \in Replicas, NEW x \in Sources, Post(r, x) PROVE Paid'
  <2>1. PICK new \in Jobs : source[new] = Unused /\ source' = [source EXCEPT ![new] = <<r, x>>]
    BY <1>3, PostKeeps
  <2>2. /\ x \in posting[r] /\ posting'[r] = posting[r] \ {x}
        /\ \A q \in Replicas : q # r => posting'[q] = posting[q]
        /\ UNCHANGED <<claimed, expiries, mishaps>>
    BY <1>3 DEF Post, Posted, Placed, TypeInv
  <2>3. ASSUME NEW q \in Replicas, NEW y \in Sources
        PROVE  /\ Cardinality(For(q, y)) \in Nat /\ Cardinality(For(q, y)') \in Nat
               /\ Cardinality(For(q, y)') <=
                    Cardinality(For(q, y)) + IF q = r /\ y = x THEN 1 ELSE 0
    <3>1. For(q, y) \in SUBSET Jobs /\ For(q, y)' \in SUBSET Jobs BY DEF For
    <3>2. /\ IsFiniteSet(For(q, y)) /\ IsFiniteSet(For(q, y)')
          /\ Cardinality(For(q, y)) \in Nat /\ Cardinality(For(q, y)') \in Nat
      BY <3>1, FiniteAssumption, FS_Subset, FS_CardinalityType
    <3>3. CASE q = r /\ y = x
      <4>1. For(q, y)' \in SUBSET (For(q, y) \union {new})
        BY <2>1 DEF For, Placed, TypeInv
      <4>2. /\ IsFiniteSet(For(q, y) \union {new})
            /\ Cardinality(For(q, y) \union {new}) <= Cardinality(For(q, y)) + 1
        <5> DEFINE S == For(q, y)
        <5>1. IsFiniteSet(S) /\ Cardinality(S) \in Nat BY <3>2
        <5> HIDE DEF S
        <5>2. /\ IsFiniteSet(S \union {new})
              /\ Cardinality(S \union {new})
                   = IF new \in S THEN Cardinality(S) ELSE Cardinality(S) + 1
          BY <5>1, FS_AddElement
        <5>3. Cardinality(S \union {new}) <= Cardinality(S) + 1 BY <5>1, <5>2
        <5> QED BY <5>2, <5>3 DEF S
      <4>3. /\ Cardinality(For(q, y)') <= Cardinality(For(q, y) \union {new})
            /\ Cardinality(For(q, y) \union {new}) \in Nat
        BY <4>1, <4>2, FS_Subset, FS_CardinalityType
      <4> QED BY <3>2, <3>3, <4>2, <4>3
    <3>4. CASE ~(q = r /\ y = x)
      <4>1. For(q, y)' \in SUBSET For(q, y)
        <5>1. <<q, y>> # <<r, x>> BY <3>4
        <5> QED BY <2>1, <5>1 DEF For, Placed, TypeInv
      <4> QED BY <3>2, <3>4, <4>1, FS_Subset
    <3> QED BY <3>2, <3>3, <3>4
  <2>4. ASSUME NEW q \in Replicas, NEW y \in Sources
        PROVE  /\ y \in posting'[q] => y \in claimed'[q]
               /\ Cardinality(For(q, y)') + One(y \in posting'[q])
                    <= One(y \in claimed'[q]) + expiries' + mishaps'
    <3>1. /\ y \in posting[q] => y \in claimed[q]
          /\ Cardinality(For(q, y)) + One(y \in posting[q])
               <= One(y \in claimed[q]) + expiries + mishaps
      BY DEF Paid
    <3>2. CASE q = r /\ y = x BY <1>0, <2>2, <2>3, <3>1, <3>2 DEF One
    <3>3. CASE ~(q = r /\ y = x)
      <4>1. y \in posting'[q] <=> y \in posting[q] BY <2>2, <3>3
      <4> QED BY <1>0, <2>2, <2>3, <3>1, <3>3, <4>1 DEF One
    <3> QED BY <3>2, <3>3
  <2> QED BY <2>4 DEF Paid
<1>4. ASSUME NEW r \in Replicas, Work(r) \/ Hiccup(r) PROVE Paid'
  <2>1. /\ UNCHANGED <<claimed, posting, expiries, source>>
        /\ mishaps' = mishaps \/ mishaps' = mishaps + 1
    BY <1>4 DEF Work, Dequeue, Returns, Raises, Bury, Requeue, Hiccup, Mishap, intake
  <2> QED BY <1>0, <2>1, Unposted DEF One, Paid
<1>5. ASSUME NEW r \in Replicas, Restart(r) PROVE Paid'
  <2>1. /\ claimed' = [claimed EXCEPT ![r] = {}] /\ posting' = [posting EXCEPT ![r] = {}]
        /\ UNCHANGED <<source, expiries>> /\ mishaps' = mishaps + 1
    BY <1>5 DEF Restart, Mishap
  <2>2. /\ claimed'[r] = {} /\ posting'[r] = {}
        /\ \A q \in Replicas : q # r => claimed'[q] = claimed[q] /\ posting'[q] = posting[q]
    BY <2>1 DEF Placed, TypeInv
  <2> QED BY <1>0, <2>1, <2>2, Unposted DEF One, Paid
<1>6. CASE UNCHANGED vars
  BY <1>0, <1>6, Unposted DEF vars, intake, One, Paid
<1> QED BY <1>1, <1>2, <1>3, <1>4, <1>5, <1>6 DEF Next, Intake

-----------------------------------------------------------------------------
LEMMA InitEstablishes == Init => IInv
<1> SUFFICES ASSUME Init PROVE IInv
  OBVIOUS
<1>1. \A s \in Stores : queue[s] = <<>> /\ dead[s] = {} BY DEF Init
<1>2. TypeInv
  <2>1. <<>> \in Seq(Tried) BY EmptySeq
  <2> QED BY <2>1 DEF Init, TypeInv, Stages
<1>3. Held = {} BY DEF Init, Held
<1>4. \A s \in Stores : Within(queue[s]) = {} /\ Distinct(queue[s])
                       /\ DOMAIN queue[s] = {}
  <2>1. DOMAIN <<>> = {} OBVIOUS
  <2> QED BY <1>1, <2>1 DEF Within, Distinct
<1>5. Queued = {} /\ Buried = {} BY <1>1, <1>4, InQueued
<1>6. OnePlace BY <1>3, <1>4, <1>5 DEF Init, OnePlace
<1>7. Counted BY <1>4 DEF Init, Counted
<1>8. Paid
  <2>1. ASSUME NEW r \in Replicas, NEW x \in Sources PROVE Cardinality(For(r, x)) = 0
    <3>1. <<r, x>> # Unused BY NamesAssumption DEF Unused
    <3>2. For(r, x) = {} BY <3>1 DEF Init, For
    <3> QED BY <3>2, FS_EmptySet
  <2> QED BY <2>1 DEF Init, Paid, One
<1> QED BY <1>2, <1>6, <1>7, <1>8 DEF IInv, Placed

LEMMA InitMatches == Init => Fates!FatesInit
<1> SUFFICES ASSUME Init PROVE Fates!FatesInit
  OBVIOUS
<1>1. FatesTold BY InitEstablishes, FateIs DEF IInv, Placed
<1>2. Held = {} /\ done = {} BY DEF Init, Held
<1>3. Queued = {} /\ Buried = {} BY InQueued DEF Init, Within
<1>4. \A j \in Jobs : Fate(j) = "none" BY <1>1, <1>2, <1>3 DEF Init, FatesTold
<1> QED BY <1>4 DEF Init, Fates!FatesInit

\* Every step preserves the invariant.
LEMMA StepPreserves == IInv /\ [Next]_vars => IInv'
BY StepKeepsFates, StepKeepsPaid DEF IInv

LEMMA Invariance == Spec => []IInv
BY InitEstablishes, StepPreserves, PTL DEF Spec

-----------------------------------------------------------------------------
(* Theorems.                                                               *)

\* Whatever the replicas, handlers, restarts and failing calls do, every job is
\* tried until its handler returns or has raised MaxAttempts times, buried then,
\* and lost by mishaps only; with a durable queue one mishap loses one at most.
THEOREM JobsMeetTheirFates == Spec => FatesKept
<1>1. IInv /\ [Next]_vars => [Fates!FatesNext]_(Fates!fvars)
  BY StepKeepsFates DEF IInv
<1> QED BY <1>1, InitMatches, Invariance, PTL DEF Spec, FatesKept, Fates!FatesSpec

\* A job is in one queue or one worker's hand, once, until it is done or buried.
THEOREM JobsAreInOnePlace == Spec => []OnePlace
<1>1. IInv => OnePlace BY DEF IInv, Placed
<1> QED BY <1>1, Invariance, PTL

\* A source is queued once by each replica, and once more at most for every claim
\* that expired and every mishap.
THEOREM SourcesAreBounded == Spec => []JobsPerSourceBounded
<1>1. IInv => JobsPerSourceBounded
  <2> SUFFICES ASSUME IInv, NEW r \in Replicas, NEW x \in Sources
               PROVE  Cardinality({j \in Jobs : source[j] = <<r, x>>})
                        <= 1 + expiries + mishaps
    BY DEF JobsPerSourceBounded
  <2>1. For(r, x) \in SUBSET Jobs BY DEF For
  <2>2. Cardinality(For(r, x)) \in Nat
    BY <2>1, FiniteAssumption, FS_Subset, FS_CardinalityType
  <2>3. Cardinality(For(r, x)) + One(x \in posting[r])
          <= One(x \in claimed[r]) + expiries + mishaps
    BY DEF IInv, Paid
  <2> QED BY <2>2, <2>3 DEF For, One, IInv, Placed, TypeInv
<1> QED BY <1>1, Invariance, PTL
=============================================================================
