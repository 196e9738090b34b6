----------------------------- MODULE ConfigGate -----------------------------
(***************************************************************************)
(* _ConfigGate of src/app/api/main.py: a writer-preferring reader/writer   *)
(* gate over one asyncio.Condition.  Tasks run on one event loop, so a     *)
(* critical section without an await is one step, and the condition's lock *)
(* is free between steps.  The condition is that of the Python the image   *)
(* ships (3.12): a cancelled waiter leaves without passing on the          *)
(* notification it may have received.                                      *)
(***************************************************************************)
EXTENDS Naturals, FiniteSets, Sequences
LOCAL INSTANCE SequencesExt

CONSTANTS
  TurnTasks,    \* tasks that run agent turns (readers)
  WriterTasks   \* tasks that change the configuration, or shut down (writers)

ASSUME TasksAssumption ==
  /\ IsFiniteSet(TurnTasks) /\ IsFiniteSet(WriterTasks)
  /\ TurnTasks \intersect WriterTasks = {}

Tasks == TurnTasks \union WriterTasks

VARIABLES
  state,          \* where each task stands
  readers,        \* _readers
  writer,         \* _writer: is the gate "held" by a writer or "free"?
  writersWaiting, \* _writers_waiting
  waiters,        \* the condition's waiters nothing woke yet, in order
  ready,          \* the waiters the event loop will run next, in order
  cancelled,      \* waiters whose task was cancelled
  dropped         \* history: "yes" once a cancelled writer left an empty gate

vars == <<state, readers, writer, writersWaiting, waiters, ready, cancelled,
          dropped>>

In(s) == {p \in Tasks : state[p] = s}
Moved(p, s) == [state EXCEPT ![p] = s]

Init ==
  /\ state = [p \in Tasks |-> "idle"]
  /\ readers = 0 /\ writer = "free" /\ writersWaiting = 0
  /\ waiters = <<>> /\ ready = <<>> /\ cancelled = {}
  /\ dropped = "no"

\* Mutant: a turn looks at the writer inside only, so turns overtake writers.
TurnBlockedByHolder == writer = "held"

TurnBlocked == writer = "held" \/ writersWaiting > 0

\* Mutant: a writer looks at the other writers only.
ExclusiveBlockedByHolder == writer = "held"

ExclusiveBlocked == writer = "held" \/ readers > 0

\* One pass of turn()'s loop: take a place, or wait again.
TryTurn(p) ==
  /\ \/ ~TurnBlocked
        /\ state' = Moved(p, "turn") /\ readers' = readers + 1
        /\ waiters' = waiters
     \/ TurnBlocked
        /\ state' = Moved(p, "turnWait") /\ readers' = readers
        /\ waiters' = Append(waiters, p)
  /\ UNCHANGED <<writer, writersWaiting>>

\* One pass of exclusive()'s loop, "wanting" writers being those still waiting
\* once p itself is counted.
TryExclusive(p, wanting) ==
  /\ \/ ~ExclusiveBlocked
        /\ state' = Moved(p, "exclusive") /\ writer' = "held"
        /\ writersWaiting' = wanting - 1 /\ waiters' = waiters
     \/ ExclusiveBlocked
        /\ state' = Moved(p, "exclusiveWait") /\ writer' = writer
        /\ writersWaiting' = wanting /\ waiters' = Append(waiters, p)
  /\ readers' = readers

Arrive(p) ==
  /\ state[p] = "idle"
  /\ UNCHANGED <<ready, cancelled, dropped>>

ArriveTurn(p) == p \in TurnTasks /\ Arrive(p) /\ TryTurn(p)

ArriveExclusive(p) ==
  p \in WriterTasks /\ Arrive(p) /\ TryExclusive(p, writersWaiting + 1)

NotifyAll == waiters' = <<>> /\ ready' = ready \o waiters

LastOut == readers' = 0

\* Leaving a turn, by its end or by an exception; the last turn notifies.
EndTurn(p) ==
  /\ state[p] = "turn"
  /\ state' = Moved(p, "idle") /\ readers' = readers - 1
  /\ \/ LastOut /\ NotifyAll
     \/ ~LastOut /\ UNCHANGED <<waiters, ready>>
  /\ UNCHANGED <<writer, writersWaiting, cancelled, dropped>>

EndExclusive(p) ==
  /\ state[p] = "exclusive"
  /\ state' = Moved(p, "idle") /\ writer' = "free"
  /\ NotifyAll
  /\ UNCHANGED <<readers, writersWaiting, cancelled, dropped>>

\* The task of a waiter is cancelled (the client left, or the 30 s of the
\* shutdown ran out).  It unwinds when the event loop gets to it.
Cancel(p) ==
  /\ state[p] \in {"turnWait", "exclusiveWait"} /\ p \notin cancelled
  /\ cancelled' = cancelled \union {p}
  /\ \/ /\ \E i \in 1 .. Len(waiters) :
             waiters[i] = p /\ waiters' = RemoveAt(waiters, i)
        /\ ready' = Append(ready, p)
     \/ /\ \A i \in 1 .. Len(waiters) : waiters[i] # p
        /\ UNCHANGED <<waiters, ready>>
  /\ UNCHANGED <<state, readers, writer, writersWaiting, dropped>>

\* The first ready waiter runs: wait() returns and it looks at the gate again.
Scheduled(p) ==
  /\ ready # <<>> /\ p = Head(ready) /\ ready' = Tail(ready)

WakeTurn(p) ==
  /\ state[p] = "turnWait" /\ Scheduled(p) /\ p \notin cancelled
  /\ TryTurn(p) /\ UNCHANGED <<cancelled, dropped>>

WakeExclusive(p) ==
  /\ state[p] = "exclusiveWait" /\ Scheduled(p) /\ p \notin cancelled
  /\ TryExclusive(p, writersWaiting) /\ UNCHANGED <<cancelled, dropped>>

\* Mutant: the count is decremented on the way in only, not when unwinding.
UnwindUncounted(p) == writersWaiting

\* Mutant: a cancelled turn is taken off the writers' count as well.
UnwindEveryone(p) == writersWaiting - 1

\* exclusive()'s inner finally: a cancelled writer no longer counts.
Unwind(p) == IF p \in WriterTasks THEN writersWaiting - 1 ELSE writersWaiting

WakeCancelled(p) ==
  /\ state[p] \in {"turnWait", "exclusiveWait"} /\ Scheduled(p) /\ p \in cancelled
  /\ state' = Moved(p, "idle") /\ cancelled' = cancelled \ {p}
  /\ writersWaiting' = Unwind(p)
  /\ dropped' = IF p \in WriterTasks /\ readers = 0 /\ writer = "free"
                THEN "yes" ELSE dropped
  /\ UNCHANGED <<readers, writer, waiters>>

Wake(p) == WakeTurn(p) \/ WakeExclusive(p) \/ WakeCancelled(p)

Step(p) ==
  \/ ArriveTurn(p) \/ ArriveExclusive(p) \/ EndTurn(p) \/ EndExclusive(p)
  \/ Cancel(p) \/ Wake(p)

Next == \E p \in Tasks : Step(p)

Spec == Init /\ [][Next]_vars

\* The event loop runs what is ready, and whatever is inside the gate leaves:
\* a turn is bounded by its iterations and by the timeouts of its calls.
FairSpec ==
  /\ Spec
  /\ WF_vars(\E p \in Tasks : Wake(p))
  /\ \A p \in Tasks : WF_vars(EndTurn(p)) /\ WF_vars(EndExclusive(p))

-----------------------------------------------------------------------------
(* Properties.                                                             *)

\* The type invariant.
TypeOK ==
  /\ state \in [Tasks -> {"idle", "turnWait", "turn", "exclusiveWait", "exclusive"}]
  /\ readers \in Nat /\ writer \in {"free", "held"} /\ writersWaiting \in Nat
  /\ waiters \in Seq(Tasks) /\ ready \in Seq(Tasks) /\ cancelled \subseteq Tasks
  /\ dropped \in {"no", "yes"}

\* What the gate promises: turns share it, a change has it alone, and no turn
\* enters while a change waits.
Gate == INSTANCE RWGate WITH turns <- In("turn"), waiting <- In("exclusiveWait"),
                             exclusive <- In("exclusive")

GateRefined == Gate!GateSpec

\* A blocked turn has somebody who will notify it.  Only a cancelled change that
\* unwinds from an empty gate can leave turns blocked with no one to wake them.
TurnsAreWoken ==
  /\ dropped = "no"
  /\ \E i \in 1 .. Len(waiters) : waiters[i] \in TurnTasks
  => \/ readers > 0 \/ writer = "held"
     \/ \E i \in 1 .. Len(ready) : ready[i] \in WriterTasks

\* Turns cannot starve configuration changes, however many keep coming and
\* whoever is cancelled: a change that waits gets in or is cancelled, unless other
\* changes keep getting in before it (exclusive() does not look at waiting writers).
ChangeGetsIn ==
  \A p \in WriterTasks :
    state[p] = "exclusiveWait"
      ~> \/ state[p] # "exclusiveWait"
         \/ \E q \in WriterTasks \ {p} : state[q] = "exclusive"
=============================================================================
