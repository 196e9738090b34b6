---------------------------- MODULE SessionPool -----------------------------
(***************************************************************************)
(* The session pool of src/app/api/main.py: requests on conversation       *)
(* threads pass the configuration gate (taken from RWGate, which           *)
(* ConfigGate implements), take their thread's lock, get or build the      *)
(* thread's session under the pool lock, run a turn on it and leave, while *)
(* sessions are evicted to keep the pool under its cap, after a failed     *)
(* first turn, and by configuration changes.  A session keeps the          *)
(* configuration it was built with: its tool servers were started with what*)
(* RuntimeConfig said when the build began, its models with what it said   *)
(* when the build ended, and changes are made without waiting for the gate.*)
(*                                                                         *)
(* A step is what a request does between two awaits.                       *)
(***************************************************************************)
EXTENDS RWGate, RuntimeConfig, Naturals, FiniteSets, Sequences

CONSTANTS
  Threads,  \* conversation threads
  ThreadOf, \* the thread a request (a TurnTask of the gate) is for
  Kind,     \* the handler that serves it
  Cap,      \* copilot_max_sessions, 0 = no cap
  TenantOf, \* whom a request, or a configuration change, is made for
  Changes   \* bound: the changes that are asked for

\* The handlers that run turns: /chat, /chat/stream, /approve, /approve/stream,
\* Slack's buttons and triggered investigations.
Kinds == {"chat", "stream", "approve", "answer", "slack", "trigger"}

Asks == {"chat", "stream"}
Answers == {"approve", "answer", "slack"}

\* The handlers that send events as the turn goes, and stop if the client leaves.
Streams == {"stream", "answer"}

ASSUME RequestsAssumption ==
  ThreadOf \in [TurnTasks -> Threads] /\ Kind \in [TurnTasks -> Kinds]
ASSUME CapAssumption == Cap \in Nat

\* A task is a request or a configuration change, and the threads are finitely many.
ASSUME TasksAssumption ==
  TurnTasks \intersect WriterTasks = {} /\ IsFiniteSet(Threads)

\* The threads of a tenant carry its name: a thread has the tenant of its requests.
ASSUME TenantsAssumption ==
  \A q, r \in TurnTasks : ThreadOf[q] = ThreadOf[r] => TenantOf[q] = TenantOf[r]

VARIABLES
  pc,       \* the await each request or configuration change stands at
  existed,  \* requests that found their thread's session in the pool
  lockOf,   \* the lock object each request took or waits for
  locks,    \* _THREAD_LOCKS: each thread's lock object, 0 = none
  pool,     \* _SESSIONS: each thread's session object, 0 = none
  running,  \* _RUNNING
  awaiting, \* _AWAITING
  recency,  \* the threads in the order of _LAST_USED, oldest first
  paused,   \* threads whose checkpoint has a node left to run
  open,     \* history: session objects entered and not evicted
  overrides, \* runtime._ov and _keys
  servers,  \* what the tool servers of the session being built were started with
  made      \* what each thread's session was built with

poolVars == <<locks, pool, awaiting, open, made>>
confVars == <<overrides, servers>>
vars == <<gvars, pc, existed, lockOf, running, recency, paused, poolVars,
          confVars>>

\* Between the grant of a request's lock and its release.
Holding == {"pool", "room", "build", "check", "turn", "leaving"}

\* Inside the critical section of _get_session.
InPool == {"room", "build"}

Pooled == {t \in Threads : pool[t] # 0}

Init ==
  /\ GateInit
  /\ pc = [p \in TurnTasks \union WriterTasks |-> "new"] /\ existed = {}
  /\ lockOf = [r \in TurnTasks |-> 0] /\ locks = [t \in Threads |-> 0]
  /\ pool = [t \in Threads |-> 0]
  /\ running = {} /\ awaiting = {} /\ recency = <<>> /\ paused = {}
  /\ open = {}
  /\ overrides = NoOverrides /\ servers = Unset /\ made = [t \in Threads |-> Unset]

Goto(p, label) == pc' = [pc EXCEPT ![p] = label]

Used(t) == Append(SelectSeq(recency, LAMBDA u : u # t), t)

\* _evict: the session, its bookkeeping and its lock go in one step; what
\* follows is the await of the session's own exit.  (The stamp of last use goes
\* too; it is kept here, for the thread gets a new one when it is pooled again.)
Evict(t) ==
  /\ pool' = [pool EXCEPT ![t] = 0] /\ open' = open \ {pool[t]}
  /\ awaiting' = awaiting \ {t} /\ locks' = [locks EXCEPT ![t] = 0]
  /\ made' = [made EXCEPT ![t] = Unset]

-----------------------------------------------------------------------------
(* _running_turn going in, and _get_session.                               *)

\* existed = tid in _SESSIONS: /chat asks on arrival, the others with the lock,
\* and two do not ask.
Looked(r, claiming) ==
  IF \/ Kind[r] = "chat" /\ pc[r] = "new"
     \/ Kind[r] \in {"stream", "approve", "answer"} /\ claiming
  THEN IF pool[ThreadOf[r]] # 0 THEN existed \union {r} ELSE existed \ {r}
  ELSE existed

\* With a session, all but a triggered investigation ask whether it is paused.
Ready(r) == IF Kind[r] = "trigger" THEN "turn" ELSE "check"

\* The lock is granted: the turn is marked, and the pool looked up.
Claim(r) ==
  /\ running' = running \union {ThreadOf[r]}
  /\ existed' = Looked(r, TRUE)
  /\ Goto(r, IF pool[ThreadOf[r]] # 0 THEN Ready(r) ELSE "pool")

\* A configuration change has the gate or waits for it.
Arrive(r) ==
  /\ pc[r] = "new" /\ waiting \union exclusive # {}
  /\ existed' = Looked(r, FALSE) /\ Goto(r, "gate")
  /\ UNCHANGED <<gvars, lockOf, running, recency, paused, poolVars>>

\* A new object: one that nothing refers to.
Fresh(S) == CHOOSE n \in 1 .. Cardinality(S) + 1 : n \notin S

\* _thread_lock: the thread's lock object, created at need.
ThreadLock(t) ==
  IF locks[t] # 0 THEN locks[t]
  ELSE Fresh({locks[u] : u \in Threads} \union {lockOf[q] : q \in TurnTasks})

Locked(l) == \E q \in TurnTasks : lockOf[q] = l /\ pc[q] \in Holding

\* Through the gate, and on with the thread's lock if nobody has it or queues.
Enter(r) ==
  LET t == ThreadOf[r]
      l == ThreadLock(t)
  IN  /\ pc[r] \in {"new", "gate"} /\ EnterTurn(r)
      /\ lockOf' = [lockOf EXCEPT ![r] = l] /\ locks' = [locks EXCEPT ![t] = l]
      /\ IF Locked(l) \/ \E q \in TurnTasks : lockOf[q] = l /\ pc[q] = "lock"
         THEN /\ existed' = Looked(r, FALSE) /\ Goto(r, "lock")
              /\ UNCHANGED running
         ELSE Claim(r)
      /\ UNCHANGED <<pool, awaiting, open, made, recency, paused>>

Granted(r) ==
  /\ pc[r] = "lock" /\ ~Locked(lockOf[r])
  /\ Claim(r)
  /\ UNCHANGED <<gvars, lockOf, recency, paused, poolVars>>

Idle == {t \in Pooled : t \notin running /\ t \notin awaiting}

\* min(idle, key=_LAST_USED): every pooled thread has been used.
Oldest(S) ==
  LET at(t) == CHOOSE i \in DOMAIN recency : recency[i] = t
  IN  {t \in S : \A u \in S : at(t) <= at(u)}

\* One pass of the loop that makes room; over the cap if all are busy.  Then the
\* build begins: the servers' configuration is read, and they are started.
MakeRoom(r) ==
  IF Cap > 0 /\ Cardinality(Pooled) >= Cap /\ Idle # {}
  THEN (\E t \in Oldest(Idle) : Evict(t)) /\ Goto(r, "room") /\ servers' = servers
  ELSE /\ Goto(r, "build") /\ UNCHANGED poolVars
       /\ servers' = ServerConfig(TenantOf[r], overrides)

\* Mutant: the pool is not looked up again once the pool lock is held.
NotBuiltMeanwhile(r) == TRUE

\* The second look, under the lock: somebody may have built the session.
MustBuild(r) == pool[ThreadOf[r]] = 0

TakePool(r) ==
  /\ pc[r] = "pool" /\ \A q \in TurnTasks : pc[q] \notin InPool
  /\ \/ MustBuild(r) /\ MakeRoom(r)
     \/ /\ ~MustBuild(r)
        /\ Goto(r, Ready(r))
        /\ UNCHANGED <<poolVars, servers>>
  /\ UNCHANGED <<gvars, existed, lockOf, running, recency, paused>>

Evicted(r) ==
  /\ pc[r] = "room" /\ MakeRoom(r)
  /\ UNCHANGED <<gvars, existed, lockOf, running, recency, paused>>

\* What a session is built with.
Make(tools, tenant) == [tools |-> tools, model |-> ModelConfig(tenant, overrides)]

\* The new session is up: the graph was compiled, with its models.
Built(r) ==
  LET session == Fresh(open \union {pool[t] : t \in Threads})
  IN  /\ pc[r] = "build" /\ Goto(r, Ready(r))
      /\ pool' = [pool EXCEPT ![ThreadOf[r]] = session]
      /\ open' = open \union {session}
      /\ made' = [made EXCEPT ![ThreadOf[r]] = Make(servers, TenantOf[r])]
      /\ servers' = Unset /\ recency' = Used(ThreadOf[r])
      /\ UNCHANGED <<gvars, existed, lockOf, running, paused, locks, awaiting>>

-----------------------------------------------------------------------------
(* The turn, and _running_turn going out.                                  *)

\* What the request held is let go.
Released(r) ==
  /\ running' = running \ {ThreadOf[r]} /\ recency' = Used(ThreadOf[r])
  /\ lockOf' = [lockOf EXCEPT ![r] = 0] 
  /\ existed' = existed \ {r}

\* Mutant: the turn never tells the gate that it left.
LeaveUnnoticed(r) == Goto(r, "done") /\ Released(r) /\ UNCHANGED gvars

\* The finally clauses release the lock and the gate without an await.
Leave(r) == Goto(r, "done") /\ Released(r) /\ LeaveTurn(r)

\* Out at once, or after one more await.
Out(r, pausing) ==
  IF pausing THEN /\ Goto(r, "leaving")
                  /\ UNCHANGED <<gvars, running, recency, lockOf, existed>>
             ELSE Leave(r)

\* A chat on a paused thread, or an answer to one that is not, is refused; a
\* session built just to look is dropped again.
Refused(r) ==
  LET t == ThreadOf[r]
  IN  /\ pc[r] = "check"
      /\ \/ /\ Kind[r] \in Asks /\ t \in paused
            /\ awaiting' = awaiting \union {t} /\ UNCHANGED <<locks, pool, open, made>>
            /\ Out(r, Kind[r] = "stream")
         \/ /\ Kind[r] \in Answers /\ t \notin paused
            /\ IF Kind[r] # "slack" /\ r \notin existed
               THEN Evict(t) /\ Out(r, TRUE)
               ELSE UNCHANGED poolVars /\ Out(r, Kind[r] = "answer")
      /\ UNCHANGED paused

Started(r) ==
  LET t == ThreadOf[r]
  IN  /\ pc[r] = "check" /\ Goto(r, "turn")
      /\ \/ /\ Kind[r] \in Asks /\ t \notin paused
            /\ awaiting' = awaiting \ {t}
         \/ /\ Kind[r] \in Answers /\ t \in paused
            /\ awaiting' = awaiting
      /\ UNCHANGED <<gvars, existed, lockOf, running, recency, paused,
                     locks, pool, open, made>>

\* The turn pauses for an approval.
Pauses(r) ==
  /\ pc[r] = "turn" /\ Out(r, Kind[r] \in Streams)
  /\ paused' = paused \union {ThreadOf[r]} /\ awaiting' = awaiting \union {ThreadOf[r]}
  /\ UNCHANGED <<locks, pool, open, made>>

\* The turn completes; a triggered one does not touch _AWAITING.  One that the
\* recursion limit cut off is "completed" too, and leaves the thread mid-run.
Completes(r) ==
  /\ pc[r] = "turn" /\ Out(r, Kind[r] \in Streams)
  /\ paused' \in {paused \ {ThreadOf[r]}, paused \union {ThreadOf[r]}}
  /\ awaiting' = IF Kind[r] \in Answers \union {"stream"}
                 THEN awaiting \ {ThreadOf[r]} ELSE awaiting
  /\ UNCHANGED <<locks, pool, open, made>>

\* Building, looking or the turn raises: /chat leaves and then drops a session
\* that was not there when it arrived, /chat/stream drops it before it leaves.
Fails(r) ==
  LET t == ThreadOf[r]
      drops == Kind[r] \in Asks /\ r \notin existed
  IN  /\ pc[r] \in {"build", "check", "turn"}
      /\ paused' \in IF pc[r] = "turn" THEN {paused, paused \union {t}} ELSE {paused}
      /\ servers' = IF pc[r] = "build" THEN Unset ELSE servers
      /\ IF drops THEN Evict(t) ELSE UNCHANGED poolVars
      /\ Out(r, drops /\ Kind[r] = "stream")

Leaves(r) ==
  /\ pc[r] = "leaving" /\ Leave(r) /\ UNCHANGED <<paused, poolVars>>

\* The client of a stream leaves: the handler's task is cancelled where it waits
\* and unwinds.  Nothing is evicted, and a turn under way may be left mid-run.
Disconnects(r) ==
  LET t == ThreadOf[r]
  IN  /\ Kind[r] \in Streams /\ pc[r] \in Holding \union {"gate", "lock"}
      /\ \/ /\ pc[r] = "gate" /\ Goto(r, "done") /\ existed' = existed \ {r}
            /\ UNCHANGED <<gvars, running, recency, lockOf>>
         \/ /\ pc[r] = "lock" /\ Goto(r, "done") /\ LeaveTurn(r)
            /\ existed' = existed \ {r} /\ lockOf' = [lockOf EXCEPT ![r] = 0]
            /\ UNCHANGED <<running, recency>>
         \/ pc[r] \in Holding /\ Leave(r)
      /\ paused' \in IF pc[r] = "turn" THEN {paused, paused \union {t}} ELSE {paused}
      /\ servers' = IF pc[r] = "build" THEN Unset ELSE servers
      /\ UNCHANGED poolVars

-----------------------------------------------------------------------------
(* A configuration change, and _evict_all.                                 *)

UnchangedByChange ==
  UNCHANGED <<existed, lockOf, running, recency, paused, servers>>

\* The override is set, or the change refused, and the gate is asked for: a
\* change that finds it empty has it at once.
Configure(c) ==
  /\ pc[c] = "new"
  /\ \E change \in Changes :
       /\ overrides' = Changed(TenantOf[c], overrides, change)
       /\ \/ /\ RefusedChange(TenantOf[c], overrides, change)
             /\ Goto(c, "done") /\ UNCHANGED gvars
          \/ /\ ~RefusedChange(TenantOf[c], overrides, change)
             /\ IF turns \union exclusive # {}
                THEN AskExclusive(c) /\ Goto(c, "gate")
                ELSE EnterExclusive(c) /\ Goto(c, "change")
  /\ UnchangedByChange /\ UNCHANGED poolVars

ChangeEnters(c) ==
  /\ pc[c] = "gate" /\ EnterExclusive(c) /\ Goto(c, "change")
  /\ UnchangedByChange /\ UNCHANGED <<poolVars, overrides>>

\* Mutant: sessions whose thread waits for an approval are spared.
SparingAwaiting == Pooled \ awaiting

\* list(_SESSIONS): every session there is.
Outdated == Pooled

\* The sessions are evicted: nothing else runs meanwhile.
EvictAll(c) ==
  /\ pc[c] = "change" /\ LeaveExclusive(c) /\ Goto(c, "done")
  /\ pool' = [t \in Threads |-> IF t \in Outdated THEN 0 ELSE pool[t]]
  /\ open' = open \ {pool[t] : t \in Outdated}
  /\ made' = [t \in Threads |-> IF t \in Outdated THEN Unset ELSE made[t]]
  /\ awaiting' = awaiting \ Outdated
  /\ locks' = [t \in Threads |-> IF t \in Outdated THEN 0 ELSE locks[t]]
  /\ UnchangedByChange /\ UNCHANGED overrides

-----------------------------------------------------------------------------
\* The steps that leave the configuration of the build alone.
NotBuilding(r) ==
  \/ Arrive(r) \/ Enter(r) \/ Granted(r)
  \/ Refused(r) \/ Started(r) \/ Pauses(r) \/ Completes(r) \/ Leaves(r)

Request(r) ==
  /\ \/ NotBuilding(r) /\ UNCHANGED servers
     \/ TakePool(r) \/ Evicted(r) \/ Built(r) \/ Fails(r) \/ Disconnects(r)
  /\ UNCHANGED overrides

ConfigChange(c) == Configure(c) \/ ChangeEnters(c) \/ EvictAll(c)

Next ==
  \/ \E r \in TurnTasks : Request(r)
  \/ \E c \in WriterTasks : ConfigChange(c)

Spec == Init /\ [][Next]_vars

\* The event loop runs every task that can run.
FairSpec ==
  /\ Spec
  /\ \A r \in TurnTasks : WF_vars(Request(r))
  /\ \A c \in WriterTasks : WF_vars(ConfigChange(c))

-----------------------------------------------------------------------------
(* Properties.                                                             *)

\* Every session entered and not evicted is the one the pool has for its thread:
\* requests that come together build one, and none is left running unowned.
NoLeakedSession == open = {pool[t] : t \in Pooled}

\* Unless a change is on its way to evict it, the session a thread has was built
\* with the configuration that holds now, the tools' and the models': no session
\* survives a change, and none was built half before and half after one.
SessionsAreCurrent ==
  (\A c \in WriterTasks : pc[c] \notin {"gate", "change"}) =>
    \A r \in TurnTasks :
      pool[ThreadOf[r]] # 0 =>
        made[ThreadOf[r]] = Make(ServerConfig(TenantOf[r], overrides), TenantOf[r])

\* A configuration change finds no request between its lock and its release.
ChangeIsAlone ==
  \A c \in WriterTasks : pc[c] = "change" =>
    \A r \in TurnTasks : pc[r] \notin Holding

\* Every request and every configuration change ends, whatever the others do:
\* gate, thread lock and pool lock are never waited for in a circle.
EverythingEnds == <>(\A p \in TurnTasks \union WriterTasks : pc[p] = "done")

\* A thread runs one turn at a time.
OneTurnPerThread ==
  \A q, r \in TurnTasks :
    ThreadOf[q] = ThreadOf[r] /\ pc[q] = "turn" /\ pc[r] = "turn" => q = r
=============================================================================
