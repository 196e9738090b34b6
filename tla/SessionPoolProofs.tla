-------------------------- MODULE SessionPoolProofs -------------------------
(***************************************************************************)
(* Proofs about SessionPool, for any requests, threads, cap, tenants and   *)
(* configuration changes: a change is alone, no session leaks, and none    *)
(* outlives the configuration it was built with.                           *)
(***************************************************************************)
EXTENDS SessionPool, FiniteSetTheorems, TLAPS

TypeInv ==
  /\ pc \in [TurnTasks \union WriterTasks ->
               Holding \union {"new", "gate", "lock", "change", "done"}]
  /\ pool \in [Threads -> Nat]
  /\ made = [t \in Threads |-> made[t]]

\* Who has a thread's lock, or waits for it, is inside the gate, and a change that
\* evicts has the gate, which turns and a change do not share.
Gated ==
  /\ \A r \in TurnTasks : pc[r] \in Holding \union {"lock"} => r \in turns
  /\ exclusive # {} => turns = {}
  /\ \A c \in WriterTasks : pc[c] = "change" => c \in exclusive

\* The pool lock: one request at a time makes room and builds, and it does so for a
\* thread that has no session.
PoolLocked ==
  /\ \A q, r \in TurnTasks : pc[q] \in InPool /\ pc[r] \in InPool => q = r
  /\ \A r \in TurnTasks : pc[r] \in InPool => pool[ThreadOf[r]] = 0

\* No two threads have one session.
OwnSessions == \A t, u \in Pooled : pool[t] = pool[u] => t = u

\* No change is on its way to evict.
Settled == \A c \in WriterTasks : pc[c] \notin {"gate", "change"}

\* Unless one is, the tool servers of the session being built were started with
\* the configuration that holds.
BuildIsCurrent ==
  Settled => \A r \in TurnTasks :
               pc[r] = "build" => servers = ServerConfig(TenantOf[r], overrides)

\* The inductive invariant.
IInv ==
  /\ TypeInv /\ Gated /\ PoolLocked
  /\ NoLeakedSession /\ OwnSessions
  /\ BuildIsCurrent /\ SessionsAreCurrent

-----------------------------------------------------------------------------
(* Lemmas about the operators.                                             *)

\* There is always a number that a finite set lacks.
LEMMA FreshIsNew ==
  ASSUME NEW S, IsFiniteSet(S)
  PROVE  Fresh(S) \in Nat \ {0} /\ Fresh(S) \notin S
<1> DEFINE n == Cardinality(S) + 1
<1>1. Cardinality(S) \in Nat BY FS_CardinalityType
<1>2. IsFiniteSet(1 .. n) /\ Cardinality(1 .. n) = n BY <1>1, FS_Interval
<1>3. \E i \in 1 .. n : i \notin S
  <2> SUFFICES ASSUME 1 .. n \subseteq S PROVE FALSE OBVIOUS
  <2>1. Cardinality(1 .. n) <= Cardinality(S) BY FS_Subset
  <2> QED BY <2>1, <1>1, <1>2
<1>4. Fresh(S) \in 1 .. n /\ Fresh(S) \notin S BY <1>3 DEF Fresh
<1> QED BY <1>1, <1>4

\* A change that is refused has changed nothing.
LEMMA RefusedChangesNothing ==
  ASSUME NEW tenant, NEW ov, NEW change, RefusedChange(tenant, ov, change)
  PROVE  Changed(tenant, ov, change) = ov
<1>1. CASE change.what = "model"
  BY <1>1 DEF RefusedChange, Changed, ConfigureModel
<1>2. CASE change.what = "github"
  BY <1>2 DEF RefusedChange, Changed, ConnectGithub
<1>3. CASE change.what \in {"repo", "logs"}
  BY <1>3 DEF RefusedChange, Changed, SetSource
<1> QED BY <1>1, <1>2, <1>3 DEF RefusedChange

\* Evicting a thread's session closes it and no other.
LEMMA EvictIsClean ==
  ASSUME TypeInv, NoLeakedSession, OwnSessions, NEW t \in Threads, Evict(t)
  PROVE  /\ pool' \in [Threads -> Nat] /\ made' = [u \in Threads |-> made'[u]]
         /\ pool'[t] = 0
         /\ \A u \in Threads : u # t => pool'[u] = pool[u] /\ made'[u] = made[u]
         /\ NoLeakedSession' /\ OwnSessions'
<1>1. /\ pool' = [pool EXCEPT ![t] = 0] /\ made' = [made EXCEPT ![t] = Unset]
      /\ open' = open \ {pool[t]}
  BY DEF Evict
<1>2. /\ pool' \in [Threads -> Nat] /\ pool'[t] = 0
      /\ \A u \in Threads : u # t => pool'[u] = pool[u]
  BY <1>1 DEF TypeInv
<1>3. /\ made' = [u \in Threads |-> made'[u]]
      /\ \A u \in Threads : u # t => made'[u] = made[u]
  BY <1>1 DEF TypeInv
<1>4. Pooled' = Pooled \ {t} BY <1>2 DEF Pooled
<1>5. OwnSessions' BY <1>2, <1>4 DEF OwnSessions, Pooled
<1>6. NoLeakedSession'
  <2>1. ASSUME NEW s \in open \ {pool[t]} PROVE \E u \in Pooled' : s = pool'[u]
    BY <2>1, <1>2, <1>4 DEF NoLeakedSession, Pooled
  <2>2. ASSUME NEW u \in Pooled' PROVE pool'[u] \in open \ {pool[t]}
    <3>1. u \in Pooled /\ u # t /\ u \in Threads BY <1>4 DEF Pooled
    <3>2. pool'[u] = pool[u] BY <3>1, <1>2
    <3>3. pool[u] # pool[t] BY <3>1 DEF OwnSessions, Pooled
    <3> QED BY <3>1, <3>2, <3>3 DEF NoLeakedSession
  <2> QED BY <1>1, <2>1, <2>2 DEF NoLeakedSession
<1> QED BY <1>2, <1>3, <1>5, <1>6

\* A session that has been built is a new object, and its thread's.
LEMMA BuiltIsClean ==
  ASSUME TypeInv, NoLeakedSession, OwnSessions,
         NEW r \in TurnTasks, pool[ThreadOf[r]] = 0, Built(r)
  PROVE  /\ pool' \in [Threads -> Nat] /\ made' = [u \in Threads |-> made'[u]]
         /\ \A u \in Threads :
              u # ThreadOf[r] => pool'[u] = pool[u] /\ made'[u] = made[u]
         /\ made'[ThreadOf[r]] = Make(servers, TenantOf[r])
         /\ NoLeakedSession' /\ OwnSessions'
<1> DEFINE t == ThreadOf[r]
           S == open \union {pool[u] : u \in Threads}
           session == Fresh(S)
<1>t. t \in Threads BY RequestsAssumption
<1>1. IsFiniteSet(S)
  <2>1. open \subseteq {pool[u] : u \in Threads}
    BY DEF NoLeakedSession, Pooled
  <2>2. S = {pool[u] : u \in Threads} BY <2>1
  <2>3. pool \in Surjection(Threads, S) BY <2>2 DEF Surjection, TypeInv
  <2> QED BY <2>3, FS_Surjection, TasksAssumption
<1>2. session \in Nat \ {0} /\ session \notin S BY <1>1, FreshIsNew
<1>3. /\ pool' = [pool EXCEPT ![t] = session] /\ open' = open \union {session}
      /\ made' = [made EXCEPT ![t] = Make(servers, TenantOf[r])]
  BY DEF Built
<1> HIDE DEF session, t
<1>4. /\ pool' \in [Threads -> Nat] /\ pool'[t] = session
      /\ \A u \in Threads : u # t => pool'[u] = pool[u]
  BY <1>2, <1>3, <1>t DEF TypeInv
<1>5. /\ made' = [u \in Threads |-> made'[u]] /\ made'[t] = Make(servers, TenantOf[r])
      /\ \A u \in Threads : u # t => made'[u] = made[u]
  BY <1>3, <1>t DEF TypeInv
<1>6. Pooled' = Pooled \union {t} BY <1>2, <1>4, <1>t DEF Pooled
<1>7. \A u \in Pooled : u # t /\ pool'[u] = pool[u] /\ pool[u] # session
  BY <1>2, <1>4 DEF Pooled, t
<1>8. OwnSessions' BY <1>4, <1>6, <1>7 DEF OwnSessions
<1>9. NoLeakedSession' BY <1>3, <1>4, <1>6, <1>7 DEF NoLeakedSession
<1> QED BY <1>4, <1>5, <1>8, <1>9 DEF t

-----------------------------------------------------------------------------
(* The steps.                                                              *)

\* A step of a request leaves the changes where they are, and moves no other
\* request.
LEMMA RequestMoves ==
  ASSUME TypeInv, NEW r \in TurnTasks, Request(r)
  PROVE  /\ pc' \in [TurnTasks \union WriterTasks ->
                       Holding \union {"new", "gate", "lock", "change", "done"}]
         /\ \A p \in TurnTasks \union WriterTasks : p # r => pc'[p] = pc[p]
         /\ overrides' = overrides /\ exclusive' = exclusive
<1> USE DEF TypeInv, Holding, Ready, Goto
<1>1. CASE Arrive(r) BY <1>1 DEF Request, Arrive, gvars
<1>2. CASE Enter(r) BY <1>2 DEF Request, Enter, EnterTurn, Claim
<1>3. CASE Granted(r) BY <1>3 DEF Request, Granted, Claim, gvars
<1>4. CASE TakePool(r) \/ Evicted(r)
  BY <1>4 DEF Request, TakePool, Evicted, MakeRoom, gvars
<1>5. CASE Built(r) BY <1>5 DEF Request, Built, gvars
<1>6. CASE Refused(r) BY <1>6 DEF Request, Refused, Out, Leave, LeaveTurn, gvars
<1>7. CASE Started(r) BY <1>7 DEF Request, Started, gvars
<1>8. CASE Pauses(r) \/ Completes(r) \/ Leaves(r) \/ Fails(r)
  BY <1>8 DEF Request, Pauses, Completes, Leaves, Fails, Out, Leave, LeaveTurn, gvars
<1>9. CASE Disconnects(r) BY <1>9 DEF Request, Disconnects, Leave, LeaveTurn, gvars
<1> QED BY <1>1, <1>2, <1>3, <1>4, <1>5, <1>6, <1>7, <1>8, <1>9
        DEF Request, NotBuilding

\* A request holds a lock, or waits for one, only inside the gate.
LEMMA RequestKeepsGated ==
  ASSUME IInv, NEW r \in TurnTasks, Request(r)
  PROVE  Gated'
<1>0. /\ \A p \in TurnTasks \union WriterTasks : p # r => pc'[p] = pc[p]
      /\ exclusive' = exclusive /\ TasksAssumption
  BY RequestMoves, TasksAssumption DEF IInv
<1>1. CASE turns' = turns \ {r} /\ pc'[r] = "done"
  BY <1>0, <1>1, TasksAssumption DEF IInv, Gated, Holding
<1>2. CASE Enter(r)
  BY <1>0, <1>2, TasksAssumption DEF IInv, Gated, Holding, Enter, EnterTurn
<1>3. CASE turns' = turns /\ (pc'[r] \in Holding \union {"lock"} => r \in turns)
  BY <1>0, <1>3, TasksAssumption DEF IInv, Gated
<1>4. ASSUME ~Enter(r)
      PROVE  \/ turns' = turns \ {r} /\ pc'[r] = "done"
             \/ turns' = turns /\ (pc'[r] \in Holding \union {"lock"} => r \in turns)
  <2> USE DEF IInv, TypeInv, Gated, Holding, Goto
  <2>1. CASE Arrive(r) BY <2>1 DEF Arrive, gvars
  <2>2. CASE Granted(r) BY <2>2 DEF Granted, Claim, gvars
  <2>3. CASE TakePool(r) \/ Evicted(r)
    BY <2>3 DEF TakePool, Evicted, MakeRoom, gvars, InPool
  <2>4. CASE Built(r) BY <2>4 DEF Built, gvars
  <2>5. CASE Refused(r) BY <2>5 DEF Refused, Out, Leave, LeaveTurn, gvars
  <2>6. CASE Started(r) BY <2>6 DEF Started, gvars
  <2>7. CASE Pauses(r) \/ Completes(r) \/ Leaves(r) \/ Fails(r)
    BY <2>7 DEF Pauses, Completes, Leaves, Fails, Out, Leave, LeaveTurn, gvars
  <2>8. CASE Disconnects(r) BY <2>8 DEF Disconnects, Leave, LeaveTurn, gvars
  <2> QED BY <1>4, <2>1, <2>2, <2>3, <2>4, <2>5, <2>6, <2>7, <2>8
          DEF Request, NotBuilding
<1> QED BY <1>1, <1>2, <1>3, <1>4

\* The step of a request that neither evicts nor builds keeps what the pool has,
\* and begins no build.
Keeps(r) ==
  UNCHANGED <<pool, open, made>> /\ pc'[r] \notin InPool

\* The other steps evict one session, to make room or on the way out, or take the
\* pool lock and begin a build, or end one.
Evicts(r) ==
  \/ \E t \in Threads : Evict(t) /\ servers' = servers /\ pc'[r] \in InPool \ {"build"}
  \/ Evict(ThreadOf[r]) /\ pc'[r] \notin InPool

Begins(r) ==
  /\ UNCHANGED <<pool, open, made>> /\ pc'[r] = "build"
  /\ servers' = ServerConfig(TenantOf[r], overrides)

\* Each step of a request is one of these, and a build or the room for it is the
\* work of the request that has the pool lock, for a thread without a session.
LEMMA RequestSorts ==
  ASSUME IInv, NEW r \in TurnTasks, Request(r)
  PROVE  /\ \/ Keeps(r) \/ Evicts(r) \/ Begins(r)
            \/ Built(r) /\ pc[r] = "build" /\ pc'[r] \notin InPool
         /\ pc'[r] \in InPool =>
              /\ \A q \in TurnTasks : pc[q] \in InPool => q = r
              /\ pool[ThreadOf[r]] = 0
         /\ servers' # servers => pc[r] \in InPool \/ pc'[r] \in InPool
<1> USE DEF IInv, TypeInv, Holding, InPool, Ready, Goto
<1>1. CASE Arrive(r) /\ UNCHANGED servers BY <1>1 DEF Arrive, Keeps, poolVars
<1>2. CASE Enter(r) /\ UNCHANGED servers BY <1>2 DEF Enter, Claim, Keeps
<1>3. CASE Granted(r) /\ UNCHANGED servers BY <1>3 DEF Granted, Claim, Keeps, poolVars
<1>4. CASE TakePool(r) \/ Evicted(r)
  <2>1. CASE MustBuild(r) /\ MakeRoom(r)
    <3>1. \A q \in TurnTasks : pc[q] \in InPool => q = r
      BY <1>4 DEF TakePool, Evicted, PoolLocked
    <3>2. pool[ThreadOf[r]] = 0 BY <2>1 DEF MustBuild
    <3>3. CASE (\E t \in Oldest(Idle) : Evict(t)) /\ Goto(r, "room")
               /\ servers' = servers
      BY <3>1, <3>2, <3>3 DEF Evicts, Oldest, Idle, Pooled
    <3>4. CASE Goto(r, "build") /\ UNCHANGED poolVars
               /\ servers' = ServerConfig(TenantOf[r], overrides)
      BY <3>1, <3>2, <3>4 DEF Begins, poolVars
    <3> QED BY <2>1, <3>3, <3>4 DEF MakeRoom
  <2>2. CASE ~MustBuild(r) /\ Goto(r, Ready(r)) /\ UNCHANGED <<poolVars, servers>>
    BY <2>2 DEF Keeps, poolVars
  <2>3. CASE pc[r] = "room" /\ MakeRoom(r)
    BY <2>1, <2>3 DEF MustBuild, PoolLocked
  <2> QED BY <1>4, <2>1, <2>2, <2>3 DEF TakePool, Evicted
<1>5. CASE Built(r) BY <1>5 DEF Built
<1>6. CASE Refused(r) /\ UNCHANGED servers
  BY <1>6 DEF Refused, Out, Leave, Keeps, Evicts, poolVars
<1>7. CASE Started(r) /\ UNCHANGED servers BY <1>7 DEF Started, Keeps
<1>8. CASE (Pauses(r) \/ Completes(r) \/ Leaves(r)) /\ UNCHANGED servers
  BY <1>8 DEF Pauses, Completes, Leaves, Out, Leave, Keeps, poolVars
<1>9. CASE Fails(r) BY <1>9 DEF Fails, Out, Leave, Keeps, Evicts, poolVars
<1>10. CASE Disconnects(r) BY <1>10 DEF Disconnects, Leave, Keeps, poolVars
<1> QED BY <1>1, <1>2, <1>3, <1>4, <1>5, <1>6, <1>7, <1>8, <1>9, <1>10
        DEF Request, NotBuilding

\* The pool stays locked, its sessions owned and its threads' own.
LEMMA RequestKeepsPool ==
  ASSUME IInv, NEW r \in TurnTasks, Request(r)
  PROVE  TypeInv' /\ PoolLocked' /\ NoLeakedSession' /\ OwnSessions'
<1>0. /\ pc' \in [TurnTasks \union WriterTasks ->
                    Holding \union {"new", "gate", "lock", "change", "done"}]
      /\ \A q \in TurnTasks : q # r => pc'[q] = pc[q]
  BY RequestMoves DEF IInv
<1>1. /\ \/ Keeps(r) \/ Evicts(r) \/ Begins(r)
         \/ Built(r) /\ pc[r] = "build" /\ pc'[r] \notin InPool
      /\ pc'[r] \in InPool =>
           /\ \A q \in TurnTasks : pc[q] \in InPool => q = r
           /\ pool[ThreadOf[r]] = 0
  BY RequestSorts
<1>2. \A q, p \in TurnTasks : pc'[q] \in InPool /\ pc'[p] \in InPool => q = p
  BY <1>0, <1>1 DEF IInv, PoolLocked
<1> USE RequestsAssumption
<1>3. CASE UNCHANGED <<pool, open, made>>
  <2>1. TypeInv' /\ NoLeakedSession' /\ OwnSessions'
    BY <1>0, <1>3 DEF IInv, TypeInv, NoLeakedSession, OwnSessions, Pooled
  <2>2. PoolLocked' BY <1>0, <1>1, <1>2, <1>3 DEF IInv, PoolLocked
  <2> QED BY <2>1, <2>2
<1>4. ASSUME NEW t \in Threads, Evict(t) PROVE TypeInv' /\ PoolLocked' /\ NoLeakedSession' /\ OwnSessions'
  <2>1. /\ pool' \in [Threads -> Nat] /\ made' = [u \in Threads |-> made'[u]]
        /\ pool'[t] = 0 /\ \A u \in Threads : u # t => pool'[u] = pool[u]
        /\ NoLeakedSession' /\ OwnSessions'
    BY <1>4, EvictIsClean DEF IInv
  <2>2. PoolLocked' BY <1>0, <1>1, <1>2, <2>1 DEF IInv, PoolLocked
  <2> QED BY <1>0, <2>1, <2>2 DEF TypeInv
<1>5. CASE Built(r) /\ pc[r] = "build" /\ pc'[r] \notin InPool
  <2>1. pool[ThreadOf[r]] = 0 /\ \A q \in TurnTasks : pc[q] \in InPool => q = r
    BY <1>5 DEF IInv, PoolLocked, InPool
  <2>2. /\ pool' \in [Threads -> Nat] /\ made' = [u \in Threads |-> made'[u]]
        /\ NoLeakedSession' /\ OwnSessions'
    BY <1>5, <2>1, BuiltIsClean DEF IInv
  <2>3. PoolLocked' BY <1>0, <1>2, <1>5, <2>1 DEF PoolLocked
  <2> QED BY <1>0, <2>2, <2>3 DEF TypeInv
<1>6. ThreadOf[r] \in Threads OBVIOUS
<1> QED BY <1>1, <1>3, <1>4, <1>5, <1>6 DEF Keeps, Evicts, Begins

\* What is built and what is pooled stay current: nobody else changes what the
\* session under construction was started with.
LEMMA RequestKeepsCurrent ==
  ASSUME IInv, NEW r \in TurnTasks, Request(r)
  PROVE  BuildIsCurrent' /\ SessionsAreCurrent'
<1>0. /\ \A p \in TurnTasks \union WriterTasks : p # r => pc'[p] = pc[p]
      /\ overrides' = overrides
  BY RequestMoves DEF IInv
<1>1. Settled' => Settled BY <1>0, TasksAssumption DEF Settled
<1>2. /\ \/ Keeps(r) \/ Evicts(r) \/ Begins(r)
         \/ Built(r) /\ pc[r] = "build" /\ pc'[r] \notin InPool
      /\ pc'[r] \in InPool => \A q \in TurnTasks : pc[q] \in InPool => q = r
      /\ servers' # servers => pc[r] \in InPool \/ pc'[r] \in InPool
  BY RequestSorts
<1> USE RequestsAssumption, TenantsAssumption
<1>3. ASSUME Settled'
      PROVE  \A q \in TurnTasks :
               pc'[q] = "build" => servers' = ServerConfig(TenantOf[q], overrides')
  <2> SUFFICES ASSUME NEW q \in TurnTasks, pc'[q] = "build"
               PROVE  servers' = ServerConfig(TenantOf[q], overrides)
    BY <1>0 DEF ServerConfig
  <2>1. CASE q = r
    BY <1>2, <2>1 DEF Keeps, Evicts, Begins, InPool
  <2>2. CASE q # r
    <3>1. pc[q] = "build" BY <1>0, <2>2
    <3>2. servers = ServerConfig(TenantOf[q], overrides)
      BY <1>1, <1>3, <3>1 DEF IInv, BuildIsCurrent
    <3>3. servers' = servers BY <1>2, <2>2, <3>1 DEF IInv, PoolLocked, InPool
    <3> QED BY <3>2, <3>3
  <2> QED BY <2>1, <2>2
<1>4. ASSUME Settled', NEW q \in TurnTasks, pool'[ThreadOf[q]] # 0
      PROVE  made'[ThreadOf[q]]
               = Make(ServerConfig(TenantOf[q], overrides), TenantOf[q])
  <2>1. pool[ThreadOf[q]] # 0
          => made[ThreadOf[q]] = Make(ServerConfig(TenantOf[q], overrides), TenantOf[q])
    BY <1>1, <1>4 DEF IInv, SessionsAreCurrent, Settled
  <2>2. CASE UNCHANGED <<pool, made>> BY <1>4, <2>1, <2>2
  <2>3. ASSUME NEW t \in Threads, Evict(t)
        PROVE  pool'[ThreadOf[q]] # 0 => UNCHANGED <<pool[ThreadOf[q]], made[ThreadOf[q]]>>
    BY <2>3, EvictIsClean DEF IInv
  <2>4. CASE Built(r) /\ pc[r] = "build"
    <3>1. pool[ThreadOf[r]] = 0 BY <2>4 DEF IInv, PoolLocked, InPool
    <3>2. /\ made'[ThreadOf[r]] = Make(servers, TenantOf[r])
          /\ \A u \in Threads :
               u # ThreadOf[r] => pool'[u] = pool[u] /\ made'[u] = made[u]
      BY <2>4, <3>1, BuiltIsClean DEF IInv
    <3>3. servers = ServerConfig(TenantOf[r], overrides)
      BY <1>1, <1>4, <2>4 DEF IInv, BuildIsCurrent
    <3> QED BY <1>4, <2>1, <3>2, <3>3
  <2> QED BY <1>2, <1>4, <2>1, <2>2, <2>3, <2>4 DEF Keeps, Evicts, Begins
<1>5. BuildIsCurrent' BY <1>3 DEF BuildIsCurrent
<1>6. SessionsAreCurrent'
  BY <1>0, <1>4 DEF SessionsAreCurrent, Settled, Make, ModelConfig, ProviderKey,
                    Provider, Layer
<1> QED BY <1>5, <1>6

\* A change that asks for the gate unsettles the configuration; one that is refused
\* leaves it; neither touches the pool.
LEMMA ConfigureKeeps ==
  ASSUME IInv, NEW c \in WriterTasks, Configure(c)
  PROVE  IInv'
<1> USE TasksAssumption, RequestsAssumption
<1>1. PICK change \in Changes :
        /\ overrides' = Changed(TenantOf[c], overrides, change)
        /\ \/ RefusedChange(TenantOf[c], overrides, change) /\ Goto(c, "done")
              /\ UNCHANGED gvars
           \/ turns \union exclusive # {} /\ AskExclusive(c) /\ Goto(c, "gate")
           \/ turns \union exclusive = {} /\ EnterExclusive(c) /\ Goto(c, "change")
  BY DEF Configure
<1>2. /\ pc'[c] \in {"done", "gate", "change"}
      /\ pc' \in [TurnTasks \union WriterTasks ->
                    Holding \union {"new", "gate", "lock", "change", "done"}]
      /\ \A p \in TurnTasks \union WriterTasks : p # c => pc'[p] = pc[p]
  BY <1>1 DEF Goto, IInv, TypeInv
<1>3. UNCHANGED <<pool, open, made, servers>> /\ pc[c] = "new"
  BY DEF Configure, UnchangedByChange, poolVars
<1>4. TypeInv' /\ PoolLocked' /\ NoLeakedSession' /\ OwnSessions'
  BY <1>2, <1>3 DEF IInv, TypeInv, PoolLocked, NoLeakedSession, OwnSessions, Pooled
<1>5. Gated'
  BY <1>1, <1>2 DEF IInv, Gated, AskExclusive, EnterExclusive, gvars, Goto, TypeInv
<1>6. BuildIsCurrent' /\ SessionsAreCurrent'
  <2>1. CASE pc'[c] = "done"
    <3>1. overrides' = overrides
      <4>1. RefusedChange(TenantOf[c], overrides, change)
        BY <1>1, <2>1 DEF Goto, IInv, TypeInv
      <4> QED BY <1>1, <4>1, RefusedChangesNothing
    <3>2. Settled' => Settled BY <1>2, <1>3 DEF Settled
    <3>3. \A q \in TurnTasks : pc'[q] = pc[q] BY <1>2
    <3> QED BY <1>3, <3>1, <3>2, <3>3 DEF IInv, BuildIsCurrent, SessionsAreCurrent,
               Settled, Make, ModelConfig, ServerConfig
  <2>2. CASE pc'[c] \in {"gate", "change"}
    BY <2>2 DEF BuildIsCurrent, SessionsAreCurrent, Settled
  <2> QED BY <1>2, <2>1, <2>2
<1> QED BY <1>4, <1>5, <1>6 DEF IInv

\* A change that enters the gate finds nobody there.
LEMMA ChangeEntersKeeps ==
  ASSUME IInv, NEW c \in WriterTasks, ChangeEnters(c)
  PROVE  IInv'
<1> USE TasksAssumption, RequestsAssumption
<1>1. /\ EnterExclusive(c) /\ pc[c] = "gate" /\ pc'[c] = "change"
      /\ UNCHANGED <<pool, open, made, servers, overrides>>
      /\ pc' \in [TurnTasks \union WriterTasks ->
                    Holding \union {"new", "gate", "lock", "change", "done"}]
      /\ \A p \in TurnTasks \union WriterTasks : p # c => pc'[p] = pc[p]
  BY DEF ChangeEnters, UnchangedByChange, poolVars, Goto, IInv, TypeInv
<1>2. TypeInv' /\ PoolLocked' /\ NoLeakedSession' /\ OwnSessions'
  BY <1>1 DEF IInv, TypeInv, PoolLocked, NoLeakedSession, OwnSessions, Pooled
<1>3. Gated' BY <1>1 DEF IInv, Gated, EnterExclusive
<1>4. BuildIsCurrent' /\ SessionsAreCurrent'
  BY <1>1 DEF BuildIsCurrent, SessionsAreCurrent, Settled
<1> QED BY <1>2, <1>3, <1>4 DEF IInv

\* The change leaves the pool empty, with no session open and no build under way:
\* the next sessions read the configuration that holds.
LEMMA EvictAllKeeps ==
  ASSUME IInv, NEW c \in WriterTasks, EvictAll(c)
  PROVE  IInv'
<1> USE TasksAssumption, RequestsAssumption
<1>1. /\ LeaveExclusive(c) /\ pc[c] = "change" /\ pc'[c] = "done"
      /\ pc' \in [TurnTasks \union WriterTasks ->
                    Holding \union {"new", "gate", "lock", "change", "done"}]
      /\ \A p \in TurnTasks \union WriterTasks : p # c => pc'[p] = pc[p]
  BY DEF EvictAll, Goto, IInv, TypeInv
<1>2. /\ pool' = [t \in Threads |-> IF t \in Pooled THEN 0 ELSE pool[t]]
      /\ open' = open \ {pool[t] : t \in Pooled}
      /\ made' = [t \in Threads |-> IF t \in Pooled THEN Unset ELSE made[t]]
  BY DEF EvictAll, Outdated
<1>3. pool' \in [Threads -> Nat] /\ \A t \in Threads : pool'[t] = 0
  BY <1>2 DEF IInv, TypeInv, Pooled
<1>4. TypeInv' BY <1>1, <1>2, <1>3 DEF TypeInv
<1>5. Pooled' = {} BY <1>3 DEF Pooled
<1>6. NoLeakedSession' /\ OwnSessions'
  <2>1. open' = {} BY <1>2 DEF IInv, NoLeakedSession
  <2> QED BY <1>5, <2>1 DEF NoLeakedSession, OwnSessions
<1>7. Gated' BY <1>1 DEF IInv, Gated, LeaveExclusive
<1>8. \A r \in TurnTasks : pc[r] \notin Holding /\ pc'[r] = pc[r]
  BY <1>1 DEF IInv, Gated
<1>9. PoolLocked' BY <1>3, <1>8 DEF PoolLocked, Holding, InPool
<1>10. BuildIsCurrent' /\ SessionsAreCurrent'
  BY <1>3, <1>8 DEF BuildIsCurrent, SessionsAreCurrent, Holding
<1> QED BY <1>4, <1>6, <1>7, <1>9, <1>10 DEF IInv

LEMMA InitEstablishes == Init => IInv
<1> SUFFICES ASSUME Init PROVE IInv
  OBVIOUS
<1> USE RequestsAssumption DEF Init
<1>1. TypeInv /\ Gated /\ PoolLocked
  BY DEF TypeInv, Gated, PoolLocked, GateInit, Holding, InPool
<1>2. Pooled = {} BY DEF Pooled
<1>3. NoLeakedSession /\ OwnSessions BY <1>2 DEF NoLeakedSession, OwnSessions
<1>4. BuildIsCurrent /\ SessionsAreCurrent BY DEF BuildIsCurrent, SessionsAreCurrent
<1> QED BY <1>1, <1>3, <1>4 DEF IInv

\* Every step preserves the invariant.
LEMMA StepPreserves == IInv /\ [Next]_vars => IInv'
<1> SUFFICES ASSUME IInv, [Next]_vars PROVE IInv'
  OBVIOUS
<1>1. ASSUME NEW r \in TurnTasks, Request(r) PROVE IInv'
  BY <1>1, RequestKeepsGated, RequestKeepsPool, RequestKeepsCurrent DEF IInv
<1>2. ASSUME NEW c \in WriterTasks, ConfigChange(c) PROVE IInv'
  BY <1>2, ConfigureKeeps, ChangeEntersKeeps, EvictAllKeeps DEF ConfigChange
<1>3. CASE UNCHANGED vars
  BY <1>3 DEF vars, gvars, poolVars, confVars, IInv, TypeInv, Gated, PoolLocked,
              NoLeakedSession, OwnSessions, Pooled, BuildIsCurrent, SessionsAreCurrent,
              Settled, Make, ModelConfig, ServerConfig
<1> QED BY <1>1, <1>2, <1>3 DEF Next

LEMMA Invariance == Spec => []IInv
BY InitEstablishes, StepPreserves, PTL DEF Spec

-----------------------------------------------------------------------------
(* Theorems.                                                               *)

\* A configuration change that evicts finds no request between its lock and its
\* release, for any number of requests and changes.
THEOREM ChangesAreAlone == Spec => []ChangeIsAlone
<1>1. IInv => ChangeIsAlone BY DEF IInv, Gated, ChangeIsAlone
<1> QED BY <1>1, Invariance, PTL

\* However requests meet, fail, disconnect and are evicted, the sessions entered
\* and not evicted are those of the pool.
THEOREM NoSessionLeaks == Spec => []NoLeakedSession
<1>1. IInv => NoLeakedSession BY DEF IInv
<1> QED BY <1>1, Invariance, PTL

\* No two threads are ever served by one session.
THEOREM SessionsAreOwn == Spec => []OwnSessions
<1>1. IInv => OwnSessions BY DEF IInv
<1> QED BY <1>1, Invariance, PTL

\* No session outlives the configuration it was built with, nor straddles two, for
\* any tenants and any sequence of changes.
THEOREM PooledIsCurrent == Spec => []SessionsAreCurrent
<1>1. IInv => SessionsAreCurrent BY DEF IInv
<1> QED BY <1>1, Invariance, PTL
=============================================================================
