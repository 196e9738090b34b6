-------------------------- MODULE ConfigGateProofs --------------------------
(***************************************************************************)
(* Theorems about ConfigGate, for any tasks.                               *)
(***************************************************************************)
EXTENDS ConfigGate, FiniteSetTheorems, SequenceTheorems, TLAPS
LOCAL INSTANCE SequencesExt

\* The counters and the flag agree with where the tasks stand, and the gate is
\* shared by turns or held by one change.
GateInv ==
  /\ readers = Cardinality(In("turn"))
  /\ writersWaiting = Cardinality(In("exclusiveWait"))
  /\ writer = "held" <=> In("exclusive") # {}
  /\ In("exclusive") # {} => In("turn") = {}
  /\ \A p, q \in In("exclusive") : p = q
  /\ In("turn") \union In("turnWait") \subseteq TurnTasks
  /\ In("exclusiveWait") \union In("exclusive") \subseteq WriterTasks

Inv == TypeOK /\ GateInv

\* A place of the gate holds finitely many tasks, and is counted up and down.
LEMMA Places ==
  ASSUME NEW r
  PROVE  /\ IsFiniteSet(In(r)) /\ Cardinality(In(r)) \in Nat
         /\ (Cardinality(In(r)) = 0) <=> (In(r) = {})
         /\ \A p \in Tasks :
              /\ p \notin In(r) => Cardinality(In(r) \union {p}) = Cardinality(In(r)) + 1
              /\ p \notin In(r) => Cardinality(In(r) \ {p}) = Cardinality(In(r))
              /\ p \in In(r) => Cardinality(In(r) \ {p}) = Cardinality(In(r)) - 1
              /\ p \in In(r) => Cardinality(In(r) \union {p}) = Cardinality(In(r))
<1>1. IsFiniteSet(Tasks)
  BY TasksAssumption, FS_Union DEF Tasks
<1>2. In(r) \in SUBSET Tasks
  BY DEF In
<1>3. IsFiniteSet(In(r))
  BY <1>1, <1>2, FS_Subset
<1>4. QED
  BY <1>3, FS_CardinalityType, FS_EmptySet, FS_AddElement, FS_RemoveElement

-----------------------------------------------------------------------------
\* Passing through turn()'s loop keeps the invariant.
LEMMA TryTurnKeeps ==
  ASSUME Inv, NEW p \in TurnTasks, state[p] \in {"idle", "turnWait"}, TryTurn(p)
  PROVE  GateInv' /\ state' \in [Tasks -> {"idle", "turnWait", "turn", "exclusiveWait", "exclusive"}]
         /\ waiters' \in Seq(Tasks)
<1>p. p \in Tasks /\ TypeOK /\ p \in TurnTasks /\ p \notin WriterTasks
  BY TasksAssumption DEF Tasks, Inv
<1>n. /\ p \notin In("turn") /\ p \notin In("exclusive") /\ p \notin In("exclusiveWait")
  BY DEF In
<1>1. CASE ~TurnBlocked
  <2>1. state' = Moved(p, "turn") /\ readers' = readers + 1 /\ waiters' = waiters
        /\ writer' = writer /\ writersWaiting' = writersWaiting
    BY <1>1 DEF TryTurn
  <2>2. /\ In("turn")' = In("turn") \union {p}
        /\ In("turnWait")' = In("turnWait") \ {p}
        /\ In("exclusive")' = In("exclusive")
        /\ In("exclusiveWait")' = In("exclusiveWait")
    <3>1. In("turn")' = In("turn") \union {p}
      BY <2>1, <1>p, <1>n DEF In, Moved, TypeOK
    <3>2. In("turnWait")' = In("turnWait") \ {p}
      BY <2>1, <1>p, <1>n DEF In, Moved, TypeOK
    <3>3. In("exclusive")' = In("exclusive")
      BY <2>1, <1>p, <1>n DEF In, Moved, TypeOK
    <3>4. In("exclusiveWait")' = In("exclusiveWait")
      BY <2>1, <1>p, <1>n DEF In, Moved, TypeOK
    <3>5. QED
      BY <3>1, <3>2, <3>3, <3>4
  <2>3. In("exclusive") = {}
    BY <1>1 DEF TurnBlocked, Inv, GateInv
  <2>4. GateInv'
    BY <2>1, <2>2, <2>3, <1>p, <1>n, Places DEF Inv, GateInv
  <2>5. QED
    BY <2>1, <2>4, <1>p DEF Moved, TypeOK
<1>2. CASE TurnBlocked
  <2>1. state' = Moved(p, "turnWait") /\ readers' = readers
        /\ waiters' = Append(waiters, p)
        /\ writer' = writer /\ writersWaiting' = writersWaiting
    BY <1>2 DEF TryTurn
  <2>2. /\ In("turn")' = In("turn")
        /\ In("turnWait")' = In("turnWait") \union {p}
        /\ In("exclusive")' = In("exclusive")
        /\ In("exclusiveWait")' = In("exclusiveWait")
    <3>1. In("turn")' = In("turn")
      BY <2>1, <1>p, <1>n DEF In, Moved, TypeOK
    <3>2. In("turnWait")' = In("turnWait") \union {p}
      BY <2>1, <1>p, <1>n DEF In, Moved, TypeOK
    <3>3. In("exclusive")' = In("exclusive")
      BY <2>1, <1>p, <1>n DEF In, Moved, TypeOK
    <3>4. In("exclusiveWait")' = In("exclusiveWait")
      BY <2>1, <1>p, <1>n DEF In, Moved, TypeOK
    <3>5. QED
      BY <3>1, <3>2, <3>3, <3>4
  <2>4. GateInv'
    BY <2>1, <2>2, <1>p DEF Inv, GateInv
  <2>5. QED
    BY <2>1, <2>4, <1>p DEF Moved, TypeOK
<1>3. QED
  BY <1>1, <1>2

\* Passing through exclusive()'s loop keeps the invariant.
LEMMA TryExclusiveKeeps ==
  ASSUME Inv, NEW p \in WriterTasks, NEW wanting,
         \/ state[p] = "idle" /\ wanting = writersWaiting + 1
         \/ state[p] = "exclusiveWait" /\ wanting = writersWaiting,
         TryExclusive(p, wanting)
  PROVE  GateInv' /\ state' \in [Tasks -> {"idle", "turnWait", "turn", "exclusiveWait", "exclusive"}]
         /\ waiters' \in Seq(Tasks)
<1>p. p \in Tasks /\ TypeOK /\ p \in WriterTasks /\ p \notin TurnTasks
  BY TasksAssumption DEF Tasks, Inv
<1>n. p \notin In("turn") /\ p \notin In("exclusive") /\ p \notin In("turnWait")
  BY DEF In
<1>w. /\ wanting = Cardinality(In("exclusiveWait") \union {p})
      /\ wanting - 1 = Cardinality(In("exclusiveWait") \ {p})
  <2>1. CASE state[p] = "idle"
    <3>1. p \notin In("exclusiveWait") /\ wanting = writersWaiting + 1
      BY <2>1 DEF In
    <3>2. QED
      BY <3>1, <1>p, Places DEF Inv, GateInv
  <2>2. CASE state[p] = "exclusiveWait"
    <3>1. p \in In("exclusiveWait") /\ wanting = writersWaiting
      BY <2>2, <1>p DEF In
    <3>2. QED
      BY <3>1, <1>p, Places DEF Inv, GateInv
  <2>3. QED
    BY <2>1, <2>2
<1>1. CASE ~ExclusiveBlocked
  <2>1. state' = Moved(p, "exclusive") /\ writer' = "held"
        /\ writersWaiting' = wanting - 1 /\ waiters' = waiters /\ readers' = readers
    BY <1>1 DEF TryExclusive
  <2>2. /\ In("turn")' = In("turn")
        /\ In("turnWait")' = In("turnWait")
        /\ In("exclusive")' = In("exclusive") \union {p}
        /\ In("exclusiveWait")' = In("exclusiveWait") \ {p}
    <3>1. In("turn")' = In("turn")
      BY <2>1, <1>p, <1>n DEF In, Moved, TypeOK
    <3>2. In("turnWait")' = In("turnWait")
      BY <2>1, <1>p, <1>n DEF In, Moved, TypeOK
    <3>3. In("exclusive")' = In("exclusive") \union {p}
      BY <2>1, <1>p, <1>n DEF In, Moved, TypeOK
    <3>4. In("exclusiveWait")' = In("exclusiveWait") \ {p}
      BY <2>1, <1>p, <1>n DEF In, Moved, TypeOK
    <3>5. QED
      BY <3>1, <3>2, <3>3, <3>4
  <2>3. In("exclusive") = {} /\ In("turn") = {}
    <3>1. writer # "held" /\ ~(readers > 0)
      BY <1>1 DEF ExclusiveBlocked
    <3>2. readers = 0
      BY <3>1, <1>p DEF TypeOK
    <3>3. QED
      BY <3>1, <3>2, Places DEF Inv, GateInv
  <2>4. GateInv'
    BY <2>1, <2>2, <2>3, <1>p, <1>w DEF Inv, GateInv
  <2>5. QED
    BY <2>1, <2>4, <1>p DEF Moved, TypeOK
<1>2. CASE ExclusiveBlocked
  <2>1. state' = Moved(p, "exclusiveWait") /\ writer' = writer
        /\ writersWaiting' = wanting /\ waiters' = Append(waiters, p)
        /\ readers' = readers
    BY <1>2 DEF TryExclusive
  <2>2. /\ In("turn")' = In("turn")
        /\ In("turnWait")' = In("turnWait")
        /\ In("exclusive")' = In("exclusive")
        /\ In("exclusiveWait")' = In("exclusiveWait") \union {p}
    <3>1. In("turn")' = In("turn")
      BY <2>1, <1>p, <1>n DEF In, Moved, TypeOK
    <3>2. In("turnWait")' = In("turnWait")
      BY <2>1, <1>p, <1>n DEF In, Moved, TypeOK
    <3>3. In("exclusive")' = In("exclusive")
      BY <2>1, <1>p, <1>n DEF In, Moved, TypeOK
    <3>4. In("exclusiveWait")' = In("exclusiveWait") \union {p}
      BY <2>1, <1>p, <1>n DEF In, Moved, TypeOK
    <3>5. QED
      BY <3>1, <3>2, <3>3, <3>4
  <2>4. GateInv'
    BY <2>1, <2>2, <1>p, <1>w DEF Inv, GateInv
  <2>5. QED
    BY <2>1, <2>4, <1>p DEF Moved, TypeOK
<1>3. QED
  BY <1>1, <1>2

\* The queues stay sequences of tasks.
LEMMA QueueTypes ==
  ASSUME TypeOK
  PROVE  /\ \A i \in 1 .. Len(waiters) :
              SubSeq(waiters, 1, i - 1) \o SubSeq(waiters, i + 1, Len(waiters)) \in Seq(Tasks)
         /\ ready # <<>> => Tail(ready) \in Seq(Tasks)
         /\ NotifyAll => waiters' \in Seq(Tasks) /\ ready' \in Seq(Tasks)
<1>1. ASSUME NEW i \in 1 .. Len(waiters)
      PROVE  SubSeq(waiters, 1, i - 1) \o SubSeq(waiters, i + 1, Len(waiters)) \in Seq(Tasks)
  <2>1. SubSeq(waiters, 1, i - 1) \in Seq(Tasks)
    BY DEF TypeOK
  <2>2. SubSeq(waiters, i + 1, Len(waiters)) \in Seq(Tasks)
    BY DEF TypeOK
  <2>3. QED
    BY <2>1, <2>2
<1>2. ready # <<>> => Tail(ready) \in Seq(Tasks)
  BY DEF TypeOK
<1>3. NotifyAll => waiters' \in Seq(Tasks) /\ ready' \in Seq(Tasks)
  BY DEF TypeOK, NotifyAll
<1>4. QED
  BY <1>1, <1>2, <1>3

\* The invariant is inductive.
LEMMA InvInductive == Inv /\ [Next]_vars => Inv'
<1> SUFFICES ASSUME Inv, [Next]_vars PROVE Inv'
  OBVIOUS
<1>t. TypeOK
  BY DEF Inv
<1>1. ASSUME NEW p \in Tasks, ArriveTurn(p) PROVE Inv'
  <2>1. p \in TurnTasks /\ state[p] = "idle" /\ TryTurn(p)
    BY <1>1 DEF ArriveTurn, Arrive
  <2>2. GateInv' /\ state' \in [Tasks -> {"idle", "turnWait", "turn", "exclusiveWait", "exclusive"}]
        /\ waiters' \in Seq(Tasks)
    BY <2>1, TryTurnKeeps
  <2>3. readers' \in Nat /\ writer' \in {"free", "held"} /\ writersWaiting' \in Nat
    BY <2>1, <1>t DEF TryTurn, TypeOK
  <2>4. QED
    BY <1>1, <1>t, <2>2, <2>3 DEF ArriveTurn, Arrive, Inv, TypeOK
<1>2. ASSUME NEW p \in Tasks, ArriveExclusive(p) PROVE Inv'
  <2>1. p \in WriterTasks /\ state[p] = "idle" /\ TryExclusive(p, writersWaiting + 1)
    BY <1>2 DEF ArriveExclusive, Arrive
  <2>2. GateInv' /\ state' \in [Tasks -> {"idle", "turnWait", "turn", "exclusiveWait", "exclusive"}]
        /\ waiters' \in Seq(Tasks)
    BY <2>1, TryExclusiveKeeps
  <2>3. readers' \in Nat /\ writer' \in {"free", "held"} /\ writersWaiting' \in Nat
    BY <2>1, <2>2, <1>t, Places DEF TryExclusive, TypeOK
  <2>4. QED
    BY <1>2, <1>t, <2>2, <2>3 DEF ArriveExclusive, Arrive, Inv, TypeOK
<1>3. ASSUME NEW p \in Tasks, EndTurn(p) PROVE Inv'
  <2>1. p \in In("turn") /\ state' = Moved(p, "idle") /\ readers' = readers - 1
        /\ writer' = writer /\ writersWaiting' = writersWaiting
    BY <1>3 DEF EndTurn, In
  <2>2. p \notin In("exclusive") /\ p \notin In("exclusiveWait") /\ p \notin In("turnWait")
    BY <2>1 DEF In
  <2>3. /\ In("turn")' = In("turn") \ {p} /\ In("turnWait")' = In("turnWait")
        /\ In("exclusive")' = In("exclusive") /\ In("exclusiveWait")' = In("exclusiveWait")
    <3>1. In("turn")' = In("turn") \ {p}
      BY <2>1, <2>2, <1>t DEF In, Moved, TypeOK
    <3>2. In("turnWait")' = In("turnWait")
      BY <2>1, <2>2, <1>t DEF In, Moved, TypeOK
    <3>3. In("exclusive")' = In("exclusive")
      BY <2>1, <2>2, <1>t DEF In, Moved, TypeOK
    <3>4. In("exclusiveWait")' = In("exclusiveWait")
      BY <2>1, <2>2, <1>t DEF In, Moved, TypeOK
    <3>5. QED
      BY <3>1, <3>2, <3>3, <3>4
  <2>4. readers' = Cardinality(In("turn")')
    BY <2>1, <2>3, Places DEF Inv, GateInv
  <2>5. GateInv'
    BY <2>1, <2>3, <2>4 DEF Inv, GateInv
  <2>6. readers' \in Nat
    <3>1. Cardinality(In("turn")) \in Nat /\ Cardinality(In("turn")) # 0
      BY <2>1, Places
    <3>2. QED
      BY <3>1, <2>1 DEF Inv, GateInv
  <2>7. waiters' \in Seq(Tasks) /\ ready' \in Seq(Tasks)
    BY <1>3, <1>t, QueueTypes DEF EndTurn, TypeOK
  <2>8. QED
    BY <1>3, <1>t, <2>1, <2>5, <2>6, <2>7 DEF EndTurn, Inv, TypeOK, Moved
<1>4. ASSUME NEW p \in Tasks, EndExclusive(p) PROVE Inv'
  <2>1. p \in In("exclusive") /\ state' = Moved(p, "idle") /\ readers' = readers
        /\ writer' = "free" /\ writersWaiting' = writersWaiting
    BY <1>4 DEF EndExclusive, In
  <2>2. p \notin In("turn") /\ p \notin In("exclusiveWait") /\ p \notin In("turnWait")
    BY <2>1 DEF In
  <2>3. /\ In("turn")' = In("turn") /\ In("turnWait")' = In("turnWait")
        /\ In("exclusive")' = In("exclusive") \ {p}
        /\ In("exclusiveWait")' = In("exclusiveWait")
    <3>1. In("turn")' = In("turn")
      BY <2>1, <2>2, <1>t DEF In, Moved, TypeOK
    <3>2. In("turnWait")' = In("turnWait")
      BY <2>1, <2>2, <1>t DEF In, Moved, TypeOK
    <3>3. In("exclusive")' = In("exclusive") \ {p}
      BY <2>1, <2>2, <1>t DEF In, Moved, TypeOK
    <3>4. In("exclusiveWait")' = In("exclusiveWait")
      BY <2>1, <2>2, <1>t DEF In, Moved, TypeOK
    <3>5. QED
      BY <3>1, <3>2, <3>3, <3>4
  <2>4. In("exclusive")' = {}
    BY <2>1, <2>3 DEF Inv, GateInv
  <2>5. GateInv'
    BY <2>1, <2>3, <2>4 DEF Inv, GateInv
  <2>7. waiters' \in Seq(Tasks) /\ ready' \in Seq(Tasks)
    BY <1>4, <1>t, QueueTypes DEF EndExclusive, TypeOK
  <2>8. QED
    BY <1>4, <1>t, <2>1, <2>5, <2>7 DEF EndExclusive, Inv, TypeOK, Moved
<1>5. ASSUME NEW p \in Tasks, Cancel(p) PROVE Inv'
  <2>1. UNCHANGED <<state, readers, writer, writersWaiting, dropped>>
        /\ cancelled' = cancelled \union {p}
    BY <1>5 DEF Cancel
  <2>2. waiters' \in Seq(Tasks) /\ ready' \in Seq(Tasks)
    <3>1. CASE UNCHANGED <<waiters, ready>>
      BY <3>1, <1>t DEF TypeOK
    <3>2. ASSUME NEW i \in 1 .. Len(waiters), waiters' = RemoveAt(waiters, i),
                 ready' = Append(ready, p)
          PROVE  waiters' \in Seq(Tasks) /\ ready' \in Seq(Tasks)
      BY <3>2, <1>t, QueueTypes DEF RemoveAt, TypeOK
    <3>3. QED
      BY <1>5, <3>1, <3>2 DEF Cancel
  <2>3. GateInv'
    BY <2>1 DEF Inv, GateInv, In
  <2>4. QED
    BY <2>1, <2>2, <2>3, <1>t DEF Inv, TypeOK
<1>6. ASSUME NEW p \in Tasks, WakeTurn(p) PROVE Inv'
  <2>1. p \in TurnTasks
    BY <1>6 DEF WakeTurn, Inv, GateInv, In
  <2>2. GateInv' /\ state' \in [Tasks -> {"idle", "turnWait", "turn", "exclusiveWait", "exclusive"}]
        /\ waiters' \in Seq(Tasks)
    BY <1>6, <2>1, TryTurnKeeps DEF WakeTurn
  <2>3. readers' \in Nat /\ writer' \in {"free", "held"} /\ writersWaiting' \in Nat
    BY <1>6, <1>t DEF WakeTurn, TryTurn, TypeOK
  <2>4. ready' \in Seq(Tasks)
    BY <1>6, <1>t, QueueTypes DEF WakeTurn, Scheduled
  <2>5. QED
    BY <1>6, <1>t, <2>2, <2>3, <2>4 DEF WakeTurn, Scheduled, Inv, TypeOK
<1>7. ASSUME NEW p \in Tasks, WakeExclusive(p) PROVE Inv'
  <2>1. p \in WriterTasks
    BY <1>7 DEF WakeExclusive, Inv, GateInv, In
  <2>2. GateInv' /\ state' \in [Tasks -> {"idle", "turnWait", "turn", "exclusiveWait", "exclusive"}]
        /\ waiters' \in Seq(Tasks)
    BY <1>7, <2>1, TryExclusiveKeeps DEF WakeExclusive
  <2>3. readers' \in Nat /\ writer' \in {"free", "held"}
    BY <1>7, <1>t DEF WakeExclusive, TryExclusive, TypeOK
  <2>w. writersWaiting' \in Nat
    <3>1. writersWaiting \in Nat /\ writersWaiting = Cardinality(In("exclusiveWait"))
      BY <1>t DEF TypeOK, Inv, GateInv
    <3>2. writersWaiting # 0
      <4>1. p \in In("exclusiveWait")
        BY <1>7 DEF WakeExclusive, In
      <4>2. QED
        BY <4>1, <3>1, Places
    <3>3. QED
      BY <1>7, <3>1, <3>2 DEF WakeExclusive, TryExclusive
  <2>4. ready' \in Seq(Tasks)
    BY <1>7, <1>t, QueueTypes DEF WakeExclusive, Scheduled
  <2>5. QED
    BY <1>7, <1>t, <2>2, <2>3, <2>w, <2>4 DEF WakeExclusive, Scheduled, Inv, TypeOK
<1>8. ASSUME NEW p \in Tasks, WakeCancelled(p) PROVE Inv'
  <2>1. state' = Moved(p, "idle") /\ readers' = readers /\ writer' = writer
        /\ p \notin In("turn") /\ p \notin In("exclusive")
    BY <1>8 DEF WakeCancelled, In
  <2>2. /\ In("turn")' = In("turn") /\ In("turnWait")' = In("turnWait") \ {p}
        /\ In("exclusive")' = In("exclusive")
        /\ In("exclusiveWait")' = In("exclusiveWait") \ {p}
    <3>1. In("turn")' = In("turn")
      BY <2>1, <1>t DEF In, Moved, TypeOK
    <3>2. In("turnWait")' = In("turnWait") \ {p}
      BY <2>1, <1>t DEF In, Moved, TypeOK
    <3>3. In("exclusive")' = In("exclusive")
      BY <2>1, <1>t DEF In, Moved, TypeOK
    <3>4. In("exclusiveWait")' = In("exclusiveWait") \ {p}
      BY <2>1, <1>t DEF In, Moved, TypeOK
    <3>5. QED
      BY <3>1, <3>2, <3>3, <3>4
  <2>3. writersWaiting' = Cardinality(In("exclusiveWait") \ {p})
    <3>1. CASE p \in WriterTasks
      <4>1. p \in In("exclusiveWait")
        BY <1>8, <3>1, TasksAssumption DEF WakeCancelled, Inv, GateInv, In
      <4>2. QED
        BY <1>8, <3>1, <4>1, Places DEF WakeCancelled, Unwind, Inv, GateInv
    <3>2. CASE p \notin WriterTasks
      <4>1. p \notin In("exclusiveWait")
        BY <3>2 DEF Inv, GateInv
      <4>2. QED
        BY <1>8, <3>2, <4>1, Places DEF WakeCancelled, Unwind, Inv, GateInv
    <3>3. QED
      BY <3>1, <3>2
  <2>4. GateInv'
    BY <2>1, <2>2, <2>3 DEF Inv, GateInv
  <2>w. writersWaiting' \in Nat
    <3>1. IsFiniteSet(In("exclusiveWait") \ {p})
      BY Places, FS_RemoveElement
    <3>2. QED
      BY <3>1, <2>3, FS_CardinalityType
  <2>5. ready' \in Seq(Tasks)
    BY <1>8, <1>t, QueueTypes DEF WakeCancelled, Scheduled
  <2>6. QED
    BY <1>8, <1>t, <2>1, <2>4, <2>w, <2>5
    DEF WakeCancelled, Scheduled, Moved, Inv, TypeOK
<1>9. CASE UNCHANGED vars
  BY <1>9 DEF vars, Inv, TypeOK, GateInv, In
<1>10. QED
  BY <1>1, <1>2, <1>3, <1>4, <1>5, <1>6, <1>7, <1>8, <1>9 DEF Next, Step, Wake

LEMMA InvInitially == Init => Inv
<1> SUFFICES ASSUME Init PROVE Inv
  OBVIOUS
<1>1. TypeOK
  BY DEF Init, TypeOK
<1>2. \A s \in {"turn", "turnWait", "exclusive", "exclusiveWait"} : In(s) = {}
  BY DEF Init, In
<1>3. QED
  BY <1>1, <1>2, FS_EmptySet DEF Init, Inv, GateInv

\* Type correctness of the gate.
THEOREM TypeCorrect == Spec => []TypeOK
<1>1. Inv => TypeOK
  BY DEF Inv
<1>2. QED
  BY <1>1, InvInitially, InvInductive, PTL DEF Spec

-----------------------------------------------------------------------------
(* The gate keeps its promise.                                             *)

\* A pass through turn()'s loop enters the gate when it is empty of changes and
\* no change waits, and otherwise changes nothing the promise speaks of.
LEMMA TurnMaps ==
  ASSUME Inv, NEW p \in TurnTasks, state[p] \in {"idle", "turnWait"}, TryTurn(p)
  PROVE  Gate!EnterTurn(p) \/ UNCHANGED Gate!gvars
<1>p. p \in Tasks /\ TypeOK
  BY DEF Tasks, Inv
<1>n. p \notin In("turn") /\ p \notin In("exclusive") /\ p \notin In("exclusiveWait")
  BY DEF In
<1>1. CASE ~TurnBlocked
  <2>1. state' = Moved(p, "turn")
    BY <1>1 DEF TryTurn
  <2>2. writer # "held" /\ writersWaiting = 0
    BY <1>1, <1>p DEF TurnBlocked, TypeOK
  <2>3. In("exclusive") = {} /\ In("exclusiveWait") = {}
    BY <2>2, Places DEF Inv, GateInv
  <2>4. In("turn")' = In("turn") \union {p}
    BY <2>1, <1>p, <1>n DEF In, Moved, TypeOK
  <2>5. In("exclusive")' = In("exclusive")
    BY <2>1, <1>p, <1>n DEF In, Moved, TypeOK
  <2>6. In("exclusiveWait")' = In("exclusiveWait")
    BY <2>1, <1>p, <1>n DEF In, Moved, TypeOK
  <2>7. QED
    BY <2>3, <2>4, <2>5, <2>6, <1>n DEF Gate!EnterTurn
<1>2. CASE TurnBlocked
  <2>1. state' = Moved(p, "turnWait")
    BY <1>2 DEF TryTurn
  <2>4. In("turn")' = In("turn")
    BY <2>1, <1>p, <1>n DEF In, Moved, TypeOK
  <2>5. In("exclusive")' = In("exclusive")
    BY <2>1, <1>p, <1>n DEF In, Moved, TypeOK
  <2>6. In("exclusiveWait")' = In("exclusiveWait")
    BY <2>1, <1>p, <1>n DEF In, Moved, TypeOK
  <2>7. QED
    BY <2>4, <2>5, <2>6 DEF Gate!gvars
<1>3. QED
  BY <1>1, <1>2

\* A pass through exclusive()'s loop enters the gate when it is empty, or makes
\* the change wait.
LEMMA ExclusiveMaps ==
  ASSUME Inv, NEW p \in WriterTasks, NEW wanting,
         state[p] \in {"idle", "exclusiveWait"}, TryExclusive(p, wanting)
  PROVE  Gate!EnterExclusive(p) \/ Gate!AskExclusive(p) \/ UNCHANGED Gate!gvars
<1>p. p \in Tasks /\ TypeOK
  BY DEF Tasks, Inv
<1>n. p \notin In("turn") /\ p \notin In("exclusive")
  BY DEF In
<1>1. CASE ~ExclusiveBlocked
  <2>1. state' = Moved(p, "exclusive")
    BY <1>1 DEF TryExclusive
  <2>2. writer # "held" /\ readers = 0
    BY <1>1, <1>p DEF ExclusiveBlocked, TypeOK
  <2>3. In("exclusive") = {} /\ In("turn") = {}
    BY <2>2, Places DEF Inv, GateInv
  <2>4. In("turn")' = In("turn")
    BY <2>1, <1>p, <1>n DEF In, Moved, TypeOK
  <2>5. In("exclusive")' = In("exclusive") \union {p}
    BY <2>1, <1>p, <1>n DEF In, Moved, TypeOK
  <2>6. In("exclusiveWait")' = In("exclusiveWait") \ {p}
    BY <2>1, <1>p, <1>n DEF In, Moved, TypeOK
  <2>7. QED
    BY <2>3, <2>4, <2>5, <2>6, <1>n DEF Gate!EnterExclusive
<1>2. CASE ExclusiveBlocked
  <2>1. state' = Moved(p, "exclusiveWait")
    BY <1>2 DEF TryExclusive
  <2>4. In("turn")' = In("turn")
    BY <2>1, <1>p, <1>n DEF In, Moved, TypeOK
  <2>5. In("exclusive")' = In("exclusive")
    BY <2>1, <1>p, <1>n DEF In, Moved, TypeOK
  <2>6. In("exclusiveWait")' = In("exclusiveWait") \union {p}
    BY <2>1, <1>p, <1>n DEF In, Moved, TypeOK
  <2>7. CASE p \in In("exclusiveWait")
    BY <2>4, <2>5, <2>6, <2>7 DEF Gate!gvars
  <2>8. CASE p \notin In("exclusiveWait")
    BY <2>4, <2>5, <2>6, <2>8, <1>n DEF Gate!AskExclusive
  <2>9. QED
    BY <2>7, <2>8
<1>3. QED
  BY <1>1, <1>2

\* Every step of the gate is a step of what it promises, or changes nothing of it.
LEMMA StepMaps == Inv /\ [Next]_vars => [Gate!GateNext]_(Gate!gvars)
<1> SUFFICES ASSUME Inv, [Next]_vars PROVE Gate!GateNext \/ UNCHANGED Gate!gvars
  OBVIOUS
<1>t. TypeOK
  BY DEF Inv
<1>1. ASSUME NEW p \in Tasks, ArriveTurn(p) \/ WakeTurn(p)
      PROVE  Gate!GateNext \/ UNCHANGED Gate!gvars
  <2>1. p \in TurnTasks /\ state[p] \in {"idle", "turnWait"} /\ TryTurn(p)
    BY <1>1 DEF ArriveTurn, WakeTurn, Arrive, Inv, GateInv, In
  <2>2. QED
    BY <2>1, TurnMaps DEF Gate!GateNext
<1>2. ASSUME NEW p \in Tasks, ArriveExclusive(p) \/ WakeExclusive(p)
      PROVE  Gate!GateNext \/ UNCHANGED Gate!gvars
  <2>1. p \in WriterTasks /\ state[p] \in {"idle", "exclusiveWait"}
    BY <1>2 DEF ArriveExclusive, WakeExclusive, Arrive, Inv, GateInv, In
  <2>2. PICK wanting : TryExclusive(p, wanting)
    BY <1>2 DEF ArriveExclusive, WakeExclusive
  <2>3. QED
    BY <2>1, <2>2, ExclusiveMaps DEF Gate!GateNext
<1>3. ASSUME NEW p \in Tasks, EndTurn(p)
      PROVE  Gate!GateNext \/ UNCHANGED Gate!gvars
  <2>1. state' = Moved(p, "idle") /\ p \in In("turn") /\ p \in TurnTasks
        /\ p \notin In("exclusive") /\ p \notin In("exclusiveWait")
    BY <1>3 DEF EndTurn, In, Inv, GateInv
  <2>2. In("turn")' = In("turn") \ {p}
    BY <2>1, <1>t DEF In, Moved, TypeOK
  <2>3. In("exclusive")' = In("exclusive")
    BY <2>1, <1>t DEF In, Moved, TypeOK
  <2>4. In("exclusiveWait")' = In("exclusiveWait")
    BY <2>1, <1>t DEF In, Moved, TypeOK
  <2>5. Gate!LeaveTurn(p)
    BY <2>1, <2>2, <2>3, <2>4 DEF Gate!LeaveTurn
  <2>6. QED
    BY <2>1, <2>5 DEF Gate!GateNext
<1>4. ASSUME NEW p \in Tasks, EndExclusive(p)
      PROVE  Gate!GateNext \/ UNCHANGED Gate!gvars
  <2>1. state' = Moved(p, "idle") /\ p \in In("exclusive") /\ p \in WriterTasks
        /\ p \notin In("turn") /\ p \notin In("exclusiveWait")
    BY <1>4 DEF EndExclusive, In, Inv, GateInv
  <2>2. In("turn")' = In("turn")
    BY <2>1, <1>t DEF In, Moved, TypeOK
  <2>3. In("exclusive")' = In("exclusive") \ {p}
    BY <2>1, <1>t DEF In, Moved, TypeOK
  <2>4. In("exclusiveWait")' = In("exclusiveWait")
    BY <2>1, <1>t DEF In, Moved, TypeOK
  <2>5. Gate!LeaveExclusive(p)
    BY <2>1, <2>2, <2>3, <2>4 DEF Gate!LeaveExclusive
  <2>6. QED
    BY <2>1, <2>5 DEF Gate!GateNext
<1>5. ASSUME NEW p \in Tasks, Cancel(p)
      PROVE  Gate!GateNext \/ UNCHANGED Gate!gvars
  BY <1>5 DEF Cancel, In, Gate!gvars
<1>6. ASSUME NEW p \in Tasks, WakeCancelled(p)
      PROVE  Gate!GateNext \/ UNCHANGED Gate!gvars
  <2>1. state' = Moved(p, "idle") /\ p \notin In("turn") /\ p \notin In("exclusive")
    BY <1>6 DEF WakeCancelled, In
  <2>2. In("turn")' = In("turn")
    BY <2>1, <1>t DEF In, Moved, TypeOK
  <2>3. In("exclusive")' = In("exclusive")
    BY <2>1, <1>t DEF In, Moved, TypeOK
  <2>4. In("exclusiveWait")' = In("exclusiveWait") \ {p}
    BY <2>1, <1>t DEF In, Moved, TypeOK
  <2>5. CASE p \in In("exclusiveWait")
    <3>1. p \in WriterTasks
      BY <2>5 DEF Inv, GateInv
    <3>2. Gate!GiveUp(p)
      BY <2>2, <2>3, <2>4, <2>5 DEF Gate!GiveUp
    <3>3. QED
      BY <3>1, <3>2 DEF Gate!GateNext
  <2>6. CASE p \notin In("exclusiveWait")
    BY <2>2, <2>3, <2>4, <2>6 DEF Gate!gvars
  <2>7. QED
    BY <2>5, <2>6
<1>7. CASE UNCHANGED vars
  BY <1>7 DEF vars, In, Gate!gvars
<1>8. QED
  BY <1>1, <1>2, <1>3, <1>4, <1>5, <1>6, <1>7 DEF Next, Step, Wake

\* The condition-variable gate implements the abstract one: configuration
\* changes exclude turns and each other, and no turn overtakes a waiting change,
\* whatever is cancelled when.
THEOREM GateImplemented == Spec => GateRefined
<1>1. Init => Gate!GateInit
  BY DEF Init, In, Gate!GateInit
<1>2. QED
  BY <1>1, StepMaps, InvInitially, InvInductive, PTL
  DEF Spec, GateRefined, Gate!GateSpec
-----------------------------------------------------------------------------
(* Nobody sleeps with no one to wake them.                                 *)

Has(s, p) == \E i \in 1 .. Len(s) : s[i] = p

\* Somebody will notify the sleepers: who is inside, or a writer that is about
\* to look at the gate again.
Waker == readers > 0 \/ writer = "held" \/ \E q \in WriterTasks : Has(ready, q)

\* A writer that waits sleeps on the condition or is about to look again; and
\* while no writer has gone from an empty gate, sleepers of any kind have a waker.
WakeInv ==
  /\ \A q \in Tasks : state[q] = "exclusiveWait" => Has(waiters, q) \/ Has(ready, q)
  /\ dropped = "no" /\ waiters # <<>> => Waker

LEMMA HasAfterAppend ==
  ASSUME NEW s \in Seq(Tasks), NEW p \in Tasks
  PROVE  /\ \A q : Has(Append(s, p), q) <=> Has(s, q) \/ q = p
         /\ Append(s, p) # <<>>
<1>1. Len(Append(s, p)) = Len(s) + 1 /\ Append(s, p)[Len(s) + 1] = p OBVIOUS
<1>2. \A i \in 1 .. Len(s) : Append(s, p)[i] = s[i] OBVIOUS
<1>3. Len(s) \in Nat OBVIOUS
<1>4. ASSUME NEW q, Has(Append(s, p), q) PROVE Has(s, q) \/ q = p
  <2>1. PICK i \in 1 .. Len(s) + 1 : Append(s, p)[i] = q BY <1>1, <1>4 DEF Has
  <2>2. CASE i = Len(s) + 1 BY <2>1, <2>2, <1>1
  <2>3. CASE i \in 1 .. Len(s) BY <2>1, <2>3, <1>2 DEF Has
  <2> QED BY <2>2, <2>3, <1>3
<1>5. ASSUME NEW q, Has(s, q) PROVE Has(Append(s, p), q)
  <2>1. PICK i \in 1 .. Len(s) : s[i] = q BY <1>5 DEF Has
  <2>2. i \in 1 .. Len(Append(s, p)) BY <2>1, <1>1, <1>3
  <2> QED BY <2>1, <2>2, <1>2 DEF Has
<1>6. Has(Append(s, p), p) BY <1>1, <1>3 DEF Has
<1>7. Append(s, p) # <<>> BY <1>1, <1>3
<1> QED BY <1>4, <1>5, <1>6, <1>7

LEMMA HasAfterConcat ==
  ASSUME NEW s \in Seq(Tasks), NEW t \in Seq(Tasks), NEW q, Has(s, q) \/ Has(t, q)
  PROVE  Has(s \o t, q)
<1>1. Len(s \o t) = Len(s) + Len(t) /\ Len(s) \in Nat /\ Len(t) \in Nat OBVIOUS
<1>2. CASE Has(s, q)
  <2>1. PICK i \in 1 .. Len(s) : s[i] = q BY <1>2 DEF Has
  <2>2. i \in 1 .. Len(s \o t) /\ (s \o t)[i] = s[i] BY <2>1, <1>1
  <2> QED BY <2>1, <2>2 DEF Has
<1>3. CASE Has(t, q)
  <2>1. PICK i \in 1 .. Len(t) : t[i] = q BY <1>3 DEF Has
  <2>2. Len(s) + i \in 1 .. Len(s \o t) /\ (s \o t)[Len(s) + i] = t[i] BY <2>1, <1>1
  <2> QED BY <2>1, <2>2 DEF Has
<1> QED BY <1>2, <1>3

LEMMA HasAfterTail ==
  ASSUME NEW s \in Seq(Tasks), s # <<>>, NEW q, Has(s, q), q # Head(s)
  PROVE  Has(Tail(s), q)
<1>1. PICK i \in 1 .. Len(s) : s[i] = q BY DEF Has
<1>2. Head(s) = s[1] /\ Len(Tail(s)) = Len(s) - 1 /\ Len(s) \in Nat OBVIOUS
<1>3. i # 1 BY <1>1, <1>2
<1>4. i - 1 \in 1 .. Len(Tail(s)) BY <1>1, <1>2, <1>3
<1>5. Tail(s)[i - 1] = s[i] BY <1>1, <1>2, <1>4
<1> QED BY <1>1, <1>4, <1>5 DEF Has

LEMMA HasAfterRemoveAt ==
  ASSUME NEW s \in Seq(Tasks), NEW i \in 1 .. Len(s), NEW q, Has(s, q), q # s[i]
  PROVE  Has(RemoveAt(s, i), q)
<1>1. PICK j \in 1 .. Len(s) : s[j] = q BY DEF Has
<1>2. Len(s) \in Nat OBVIOUS
<1> DEFINE a == SubSeq(s, 1, i - 1)
           b == SubSeq(s, i + 1, Len(s))
<1>3. a \in Seq(Tasks) /\ Len(a) = i - 1 /\ \A n \in 1 .. i - 1 : a[n] = s[n]
  BY <1>2
<1>4. /\ b \in Seq(Tasks) /\ Len(b) = Len(s) - i
      /\ \A n \in 1 .. Len(s) - i : b[n] = s[i + n]
  BY <1>2
<1>5. RemoveAt(s, i) = a \o b BY DEF RemoveAt
<1> HIDE DEF a, b
<1>6. CASE j < i
  <2>1. j \in 1 .. Len(a) /\ a[j] = q BY <1>6, <1>1, <1>2, <1>3
  <2>2. Has(a, q) BY <2>1 DEF Has
  <2>3. Has(a \o b, q) BY <2>2, <1>3, <1>4, HasAfterConcat
  <2> QED BY <2>3, <1>5
<1>7. CASE j > i
  <2>1. j - i \in 1 .. Len(b) /\ b[j - i] = q BY <1>7, <1>1, <1>2, <1>4
  <2>2. Has(b, q) BY <2>1 DEF Has
  <2>3. Has(a \o b, q) BY <2>2, <1>3, <1>4, HasAfterConcat
  <2> QED BY <2>3, <1>5
<1>8. j # i BY <1>1
<1> QED BY <1>6, <1>7, <1>8, <1>2

\* Passing through turn()'s loop keeps sleepers wakeable, whatever p left of the
\* queue of those about to look.
LEMMA TurnKeepsAwake ==
  ASSUME Inv, WakeInv, NEW p \in TurnTasks, state[p] \in {"idle", "turnWait"},
         TryTurn(p), dropped' = dropped,
         \A q \in WriterTasks : Has(ready, q) => Has(ready', q)
  PROVE  WakeInv'
<1>t. TypeOK /\ p \in Tasks /\ p \notin WriterTasks BY TasksAssumption DEF Inv, Tasks
<1>g. GateInv BY DEF Inv
<1>1. CASE ~TurnBlocked
  <2>1. /\ state' = Moved(p, "turn") /\ readers' = readers + 1 /\ waiters' = waiters
    BY <1>1 DEF TryTurn
  <2>2. \A q \in Tasks : state'[q] = "exclusiveWait" => state[q] = "exclusiveWait"
    BY <2>1, <1>t DEF Moved, TypeOK
  <2>3. \A q \in Tasks : state[q] = "exclusiveWait" => q \in WriterTasks
    BY <1>g DEF GateInv, In
  <2>4. readers' > 0 BY <2>1, <1>t DEF TypeOK
  <2> QED BY <2>1, <2>2, <2>3, <2>4 DEF WakeInv, Waker
<1>2. CASE TurnBlocked
  <2>1. /\ state' = Moved(p, "turnWait") /\ readers' = readers
        /\ waiters' = Append(waiters, p)
        /\ writer' = writer
    BY <1>2 DEF TryTurn
  <2>2. waiters \in Seq(Tasks) BY <1>t DEF TypeOK
  <2>3. \A q \in Tasks : state'[q] = "exclusiveWait" => state[q] = "exclusiveWait"
    BY <2>1, <1>t DEF Moved, TypeOK
  <2>4. \A q \in Tasks : state[q] = "exclusiveWait" => q \in WriterTasks
    BY <1>g DEF GateInv, In
  <2>5. \A q \in Tasks : state'[q] = "exclusiveWait" => Has(waiters', q) \/ Has(ready', q)
    BY <2>1, <2>2, <2>3, <2>4, <1>t, HasAfterAppend DEF WakeInv
  <2>6. ASSUME dropped = "no" PROVE Waker'
    <3>1. CASE writer = "held" BY <3>1, <2>1 DEF Waker
    <3>2. CASE writersWaiting > 0
      <4>1. Cardinality(In("exclusiveWait")) # 0 BY <3>2, <1>g DEF GateInv
      <4>2. PICK w \in Tasks : state[w] = "exclusiveWait" BY <4>1, Places DEF In
      <4>3. w \in WriterTasks BY <4>2, <2>4
      <4>4. Has(waiters, w) \/ Has(ready, w) BY <4>2 DEF WakeInv
      <4>5. Waker
        <5>1. CASE Has(ready, w) BY <5>1, <4>3 DEF Waker
        <5>2. CASE Has(waiters, w)
          <6>1. waiters # <<>> BY <5>2, <2>2 DEF Has
          <6> QED BY <6>1, <2>6 DEF WakeInv
        <5> QED BY <5>1, <5>2, <4>4
      <4> QED BY <4>5, <2>1 DEF Waker
    <3> QED BY <3>1, <3>2, <1>2 DEF TurnBlocked
  <2> QED BY <2>5, <2>6 DEF WakeInv
<1> QED BY <1>1, <1>2

\* So does passing through exclusive()'s loop: a writer is inside, or found
\* somebody inside.
LEMMA ExclusiveKeepsAwake ==
  ASSUME Inv, WakeInv, NEW p \in WriterTasks, NEW wanting,
         TryExclusive(p, wanting), dropped' = dropped,
         \A q \in Tasks : Has(ready, q) /\ q # p => Has(ready', q)
  PROVE  WakeInv'
<1>t. TypeOK /\ p \in Tasks BY DEF Inv, Tasks
<1>w. waiters \in Seq(Tasks) BY <1>t DEF TypeOK
<1>1. CASE ~ExclusiveBlocked
  <2>1. state' = Moved(p, "exclusive") /\ writer' = "held" /\ waiters' = waiters
    BY <1>1 DEF TryExclusive
  <2>2. \A q \in Tasks :
          state'[q] = "exclusiveWait" => state[q] = "exclusiveWait" /\ q # p
    BY <2>1, <1>t DEF Moved, TypeOK
  <2> QED BY <2>1, <2>2 DEF WakeInv, Waker
<1>2. CASE ExclusiveBlocked
  <2>1. /\ state' = Moved(p, "exclusiveWait") /\ waiters' = Append(waiters, p)
        /\ writer' = writer /\ readers' = readers
    BY <1>2 DEF TryExclusive
  <2>2. \A q \in Tasks :
          state'[q] = "exclusiveWait" => state[q] = "exclusiveWait" \/ q = p
    BY <2>1, <1>t DEF Moved, TypeOK
  <2>3. \A q \in Tasks : state'[q] = "exclusiveWait" => Has(waiters', q) \/ Has(ready', q)
    BY <2>1, <2>2, <1>t, <1>w, HasAfterAppend DEF WakeInv
  <2>4. Waker' BY <1>2, <2>1 DEF Waker, ExclusiveBlocked
  <2> QED BY <2>3, <2>4 DEF WakeInv
<1> QED BY <1>1, <1>2

LEMMA WakeInductive == Inv /\ Inv' /\ WakeInv /\ [Next]_vars => WakeInv'
<1> SUFFICES ASSUME Inv, Inv', WakeInv, [Next]_vars PROVE WakeInv'
  OBVIOUS
<1>t. TypeOK /\ GateInv BY DEF Inv
<1>s. waiters \in Seq(Tasks) /\ ready \in Seq(Tasks) BY <1>t DEF TypeOK
<1>m. ASSUME NEW p \in Tasks, state' = Moved(p, "idle")
      PROVE  \A q \in Tasks :
               state'[q] = "exclusiveWait" => state[q] = "exclusiveWait" /\ q # p
  BY <1>m, <1>t DEF Moved, TypeOK
<1>n. ASSUME NotifyAll
      PROVE  /\ waiters' = <<>>
             /\ \A q : Has(waiters, q) \/ Has(ready, q) => Has(ready', q)
  BY <1>n, <1>s, HasAfterConcat DEF NotifyAll
<1>h. ASSUME NEW p, Scheduled(p)
      PROVE  \A q : Has(ready, q) /\ q # p => Has(ready', q)
  BY <1>h, <1>s, HasAfterTail DEF Scheduled
<1>1. ASSUME NEW p \in Tasks, ArriveTurn(p) PROVE WakeInv'
  <2>1. /\ p \in TurnTasks /\ state[p] = "idle" /\ TryTurn(p)
        /\ dropped' = dropped /\ ready' = ready
    BY <1>1 DEF ArriveTurn, Arrive
  <2> QED BY <2>1, TurnKeepsAwake
<1>2. ASSUME NEW p \in Tasks, ArriveExclusive(p) PROVE WakeInv'
  <2>1. /\ p \in WriterTasks /\ TryExclusive(p, writersWaiting + 1)
        /\ dropped' = dropped /\ ready' = ready
    BY <1>2 DEF ArriveExclusive, Arrive
  <2> QED BY <2>1, ExclusiveKeepsAwake
<1>3. ASSUME NEW p \in Tasks, EndTurn(p) PROVE WakeInv'
  <2>1. state' = Moved(p, "idle") /\ dropped' = dropped /\ writer' = writer
    BY <1>3 DEF EndTurn
  <2>2. \A q \in Tasks : state'[q] = "exclusiveWait" => state[q] = "exclusiveWait"
    BY <2>1, <1>m
  <2>3. CASE LastOut /\ NotifyAll BY <2>2, <2>3, <1>n DEF WakeInv
  <2>4. CASE ~LastOut /\ UNCHANGED <<waiters, ready>>
    <3>1. readers' \in Nat BY DEF Inv, TypeOK
    <3>2. readers' > 0 BY <3>1, <2>4 DEF LastOut
    <3> QED BY <3>2, <2>2, <2>4 DEF WakeInv, Waker
  <2> QED BY <2>3, <2>4, <1>3 DEF EndTurn
<1>4. ASSUME NEW p \in Tasks, EndExclusive(p) PROVE WakeInv'
  <2>1. state' = Moved(p, "idle") /\ NotifyAll BY <1>4 DEF EndExclusive
  <2>2. \A q \in Tasks : state'[q] = "exclusiveWait" => state[q] = "exclusiveWait"
    BY <2>1, <1>m
  <2> QED BY <2>1, <2>2, <1>n DEF WakeInv
<1>5. ASSUME NEW p \in Tasks, Cancel(p) PROVE WakeInv'
  <2>1. UNCHANGED <<state, readers, writer, dropped>> BY <1>5 DEF Cancel
  <2>2. CASE UNCHANGED <<waiters, ready>>
    BY <2>1, <2>2 DEF WakeInv, Waker
  <2>3. ASSUME NEW i \in 1 .. Len(waiters), waiters[i] = p,
               waiters' = RemoveAt(waiters, i), ready' = Append(ready, p)
        PROVE  WakeInv'
    <3>1. \A q : Has(ready', q) <=> Has(ready, q) \/ q = p
      BY <2>3, <1>s, HasAfterAppend
    <3>2. \A q : Has(waiters, q) /\ q # p => Has(waiters', q)
      BY <2>3, <1>s, HasAfterRemoveAt
    <3>3. waiters # <<>> BY <2>3, <1>s
    <3>4. dropped = "no" => Waker BY <3>3 DEF WakeInv
    <3>5. Waker => Waker' BY <2>1, <3>1 DEF Waker
    <3> QED BY <2>1, <3>1, <3>2, <3>4, <3>5 DEF WakeInv
  <2> QED BY <1>5, <2>2, <2>3 DEF Cancel
<1>6. ASSUME NEW p \in Tasks, WakeTurn(p) PROVE WakeInv'
  <2>1. /\ state[p] = "turnWait" /\ TryTurn(p) /\ dropped' = dropped /\ Scheduled(p)
    BY <1>6 DEF WakeTurn
  <2>2. p \in TurnTasks /\ p \notin WriterTasks
    BY <2>1, <1>t, TasksAssumption DEF GateInv, In
  <2>3. \A q \in WriterTasks : Has(ready, q) => Has(ready', q) BY <2>1, <2>2, <1>h
  <2> QED BY <2>1, <2>2, <2>3, TurnKeepsAwake
<1>7. ASSUME NEW p \in Tasks, WakeExclusive(p) PROVE WakeInv'
  <2>1. /\ state[p] = "exclusiveWait" /\ TryExclusive(p, writersWaiting)
        /\ dropped' = dropped /\ Scheduled(p)
    BY <1>7 DEF WakeExclusive
  <2>2. p \in WriterTasks BY <2>1, <1>t DEF GateInv, In
  <2>3. \A q \in Tasks : Has(ready, q) /\ q # p => Has(ready', q) BY <2>1, <1>h
  <2> QED BY <2>1, <2>2, <2>3, ExclusiveKeepsAwake
<1>8. ASSUME NEW p \in Tasks, WakeCancelled(p) PROVE WakeInv'
  <2>1. /\ state' = Moved(p, "idle") /\ Scheduled(p)
        /\ UNCHANGED <<readers, writer, waiters>>
        /\ dropped' = IF p \in WriterTasks /\ readers = 0 /\ writer = "free"
                      THEN "yes" ELSE dropped
    BY <1>8 DEF WakeCancelled
  <2>2. \A q : Has(ready, q) /\ q # p => Has(ready', q) BY <2>1, <1>h
  <2>3. \A q \in Tasks :
          state'[q] = "exclusiveWait" => state[q] = "exclusiveWait" /\ q # p
    BY <2>1, <1>m
  <2>4. ASSUME dropped' = "no", waiters' # <<>> PROVE Waker'
    <3>1. dropped = "no" /\ ~(p \in WriterTasks /\ readers = 0 /\ writer = "free")
      BY <2>1, <2>4
    <3>2. Waker BY <3>1, <2>1, <2>4 DEF WakeInv
    <3>3. readers \in Nat /\ writer \in {"free", "held"} BY <1>t DEF TypeOK
    <3>4. CASE p \in WriterTasks
      <4>1. readers > 0 \/ writer = "held" BY <3>1, <3>3, <3>4
      <4> QED BY <4>1, <2>1 DEF Waker
    <3>5. CASE p \notin WriterTasks BY <3>2, <3>5, <2>1, <2>2 DEF Waker
    <3> QED BY <3>4, <3>5
  <2> QED BY <2>1, <2>2, <2>3, <2>4 DEF WakeInv
<1>9. CASE UNCHANGED vars
  BY <1>9 DEF vars, WakeInv, Waker
<1> QED
  BY <1>1, <1>2, <1>3, <1>4, <1>5, <1>6, <1>7, <1>8, <1>9 DEF Next, Step, Wake

\* Blocked turns sleep only while somebody is inside or a writer is about to look
\* at the gate again, unless a cancelled writer left an empty gate.
THEOREM SleepersAreWoken == Spec => []TurnsAreWoken
<1>1. Init => WakeInv
  BY DEF Init, WakeInv
<1>2. Inv /\ WakeInv => TurnsAreWoken
  <2> SUFFICES ASSUME Inv, WakeInv, dropped = "no",
                      NEW i \in 1 .. Len(waiters), waiters[i] \in TurnTasks
               PROVE  \/ readers > 0 \/ writer = "held"
                      \/ \E j \in 1 .. Len(ready) : ready[j] \in WriterTasks
    BY DEF TurnsAreWoken
  <2>1. waiters \in Seq(Tasks) BY DEF Inv, TypeOK
  <2>2. waiters # <<>> BY <2>1
  <2> QED BY <2>2 DEF WakeInv, Waker, Has
<1>3. QED
  BY <1>1, <1>2, InvInitially, InvInductive, WakeInductive, PTL DEF Spec
=============================================================================
