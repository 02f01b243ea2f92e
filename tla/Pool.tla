-------------------------------- MODULE Pool -------------------------------
(* The registry of connection pools (store/db.py): get_pool with its lock    *)
(* per DSN, and close_pools, run by coroutines of one event loop. A step     *)
(* runs from one await to the next. psycopg's pool is external: opening may  *)
(* fail or time out, close() marks the pool closed before its first await    *)
(* and may raise.                                                            *)
EXTENDS Integers, Sequences, FiniteSets

CONSTANTS
    Dsns,       \* the application's and the admin's
    Callers,    \* coroutines that call get_pool
    MaxCalls,   \* bound on the calls of each
    MaxCloses   \* bound on the calls of close_pools

ASSUME PoolAssumption == MaxCalls \in Nat /\ MaxCloses \in Nat

VARIABLES
    pools,      \* _pools: dsn |-> number of the registered pool, or 0
    locks,      \* _pool_locks: dsn |-> number of the registered lock, or 0
    waiting,    \* lock number |-> its holder, then its waiters, first come first
    life,       \* pool number |-> "opening", "open" or "closed"
    caller,     \* coroutine |-> pc, dsn, lock and pool of its call; calls made
    closer,     \* close_pools: pc, pools still to close, the one being closed
    closes,     \* calls of close_pools so far
    overlap     \* close_pools may run while other coroutines use get_pool, as
                \* at the end of a lifespan with requests or captures in flight

poolVars == <<pools, locks, waiting, life, caller, closer, closes, overlap>>

Idle(calls) == [pc |-> "idle", dsn |-> "", lock |-> 0, pool |-> 0, calls |-> calls]
Quiet == \A c \in Callers : caller[c].pc = "idle"

Usable(d) == pools[d] # 0 /\ life[pools[d]] # "closed"

PoolTypeOK ==
    /\ \A d \in Dsns : pools[d] \in 0 .. Len(life) /\ locks[d] \in 0 .. Len(waiting)
    /\ life \in Seq({"opening", "open", "closed"})
    /\ waiting \in Seq(Seq(Callers))
    /\ \A c \in Callers :
          /\ caller[c].pc \in {"idle", "waiting", "opening"}
          /\ caller[c].calls \in 0 .. MaxCalls
          /\ caller[c].pc = "opening" =>
                /\ life[caller[c].pool] = "opening"
                /\ waiting[caller[c].lock] # <<>> /\ Head(waiting[caller[c].lock]) = c
    /\ closer.pc \in {"idle", "closing"} /\ closes \in 0 .. MaxCloses
    /\ closer.todo \subseteq Dsns \X (1 .. Len(life))

PoolInit ==
    /\ pools = [d \in Dsns |-> 0] /\ locks = [d \in Dsns |-> 0]
    /\ waiting = <<>> /\ life = <<>>
    /\ caller = [c \in Callers |-> Idle(0)]
    /\ closer = [pc |-> "idle", todo |-> {}, now |-> <<>>]
    /\ closes = 0 /\ overlap \in BOOLEAN

-----------------------------------------------------------------------------
(* get_pool. *)

\* Mutant of Reuse: the registry is not read again under the lock.
ReuseBlindly(d) == FALSE

\* The second check, under the lock.
Reuse(d) == Usable(d)

\* Inside `async with lock`, with q the lock queues: somebody else may have
\* created the pool meanwhile, and the lock is released at once; otherwise a
\* new pool starts to open.
Enter(c, d, l, q, calls) ==
    IF Reuse(d)
    THEN /\ waiting' = [q EXCEPT ![l] = Tail(@)]
         /\ caller' = [caller EXCEPT ![c] = Idle(calls)]
         /\ UNCHANGED life
    ELSE /\ waiting' = q
         /\ life' = Append(life, "opening")
         /\ caller' = [caller EXCEPT ![c] = [pc |-> "opening", dsn |-> d, lock |-> l,
                                             pool |-> Len(life'), calls |-> calls]]

\* _pool_locks.setdefault
LockFor(d) == IF locks[d] = 0 THEN Len(waiting) + 1 ELSE locks[d]

\* A registered pool that is not closed is returned without a lock; otherwise the
\* call takes the DSN's lock, or waits for it.
GetPool(c) ==
    /\ caller[c].pc = "idle" /\ caller[c].calls < MaxCalls
    /\ overlap \/ closer.pc = "idle"
    /\ LET calls == caller[c].calls + 1
       IN \E d \in Dsns :
          IF Usable(d)
          THEN /\ caller' = [caller EXCEPT ![c].calls = calls]
               /\ UNCHANGED <<waiting, life, locks>>
          ELSE LET l == LockFor(d)
                   q == IF l > Len(waiting) THEN Append(waiting, <<c>>)
                        ELSE [waiting EXCEPT ![l] = Append(@, c)]
               IN  /\ locks' = [locks EXCEPT ![d] = l]
                   /\ IF q[l] = <<c>>
                      THEN Enter(c, d, l, q, calls)
                      ELSE /\ waiting' = q
                           /\ caller' = [caller EXCEPT ![c] =
                                            [pc |-> "waiting", dsn |-> d, lock |-> l,
                                             pool |-> 0, calls |-> calls]]
                           /\ UNCHANGED life
    /\ UNCHANGED <<pools, closer, closes, overlap>>

\* A waiter's turn.
Acquired(c) ==
    /\ caller[c].pc = "waiting" /\ Head(waiting[caller[c].lock]) = c
    /\ Enter(c, caller[c].dsn, caller[c].lock, waiting, caller[c].calls)
    /\ UNCHANGED <<pools, locks, closer, closes, overlap>>

\* pool.open() succeeds: the pool is registered and the lock released.
Opened(c) ==
    /\ caller[c].pc = "opening"
    /\ life' = [life EXCEPT ![caller[c].pool] = "open"]
    /\ pools' = [pools EXCEPT ![caller[c].dsn] = caller[c].pool]
    /\ waiting' = [waiting EXCEPT ![caller[c].lock] = Tail(@)]
    /\ caller' = [caller EXCEPT ![c] = Idle(caller[c].calls)]
    /\ UNCHANGED <<locks, closer, closes, overlap>>

\* Mutant of OpenFails: the lock is not released on the way out.
OpenFailsLocked(c) ==
    /\ caller[c].pc = "opening"
    /\ life' = [life EXCEPT ![caller[c].pool] = "closed"]
    /\ caller' = [caller EXCEPT ![c] = Idle(caller[c].calls)]
    /\ UNCHANGED <<pools, locks, closer, closes, waiting, overlap>>

\* Mutant of OpenFails: the connections made so far are kept.
OpenFailsHalfOpen(c) ==
    /\ caller[c].pc = "opening"
    /\ life' = [life EXCEPT ![caller[c].pool] = "open"]
    /\ waiting' = [waiting EXCEPT ![caller[c].lock] = Tail(@)]
    /\ caller' = [caller EXCEPT ![c] = Idle(caller[c].calls)]
    /\ UNCHANGED <<pools, locks, closer, closes, overlap>>

\* It fails, times out or is cancelled: the pool is closed, nothing registered.
OpenFails(c) ==
    /\ caller[c].pc = "opening"
    /\ life' = [life EXCEPT ![caller[c].pool] = "closed"]
    /\ waiting' = [waiting EXCEPT ![caller[c].lock] = Tail(@)]
    /\ caller' = [caller EXCEPT ![c] = Idle(caller[c].calls)]
    /\ UNCHANGED <<pools, locks, closer, closes, overlap>>

-----------------------------------------------------------------------------
(* close_pools. *)

\* The loop of close_pools at its head: it ends, and the outer finally clears the
\* locks; or the next pool's close() is awaited, which sets closed at once.
CloseLoop(todo) ==
    \/ /\ todo = {}
       /\ locks' = [d \in Dsns |-> 0]
       /\ closer' = [closer EXCEPT !.pc = "idle", !.now = <<>>, !.todo = {}]
       /\ UNCHANGED life
    \/ \E item \in todo :
          /\ life' = [life EXCEPT ![item[2]] = "closed"]
          /\ closer' = [closer EXCEPT !.pc = "closing", !.now = item, !.todo = todo \ {item}]
          /\ UNCHANGED locks

\* A call of close_pools, over list(_pools.items()).
ClosePools ==
    /\ closer.pc = "idle" /\ closes < MaxCloses
    /\ overlap \/ Quiet
    /\ closes' = closes + 1
    /\ CloseLoop({<<d, pools[d]>> : d \in {e \in Dsns : pools[e] # 0}})
    /\ UNCHANGED <<pools, waiting, caller, overlap>>

\* The inner finally: whatever is registered under the DSN is forgotten. If
\* close() raised, the loop ends here.
Forget ==
    /\ closer.pc = "closing"
    /\ pools' = [pools EXCEPT ![closer.now[1]] = 0]
    /\ CloseLoop(closer.todo) \/ CloseLoop({})
    /\ UNCHANGED <<waiting, caller, closes, overlap>>

-----------------------------------------------------------------------------
Step(c) == Acquired(c) \/ Opened(c) \/ OpenFails(c)
PoolNext == (\E c \in Callers : GetPool(c) \/ Step(c)) \/ ClosePools \/ Forget

PoolSpec == PoolInit /\ [][PoolNext]_poolVars

\* asyncio wakes the first waiter of a free lock; open() has a timeout of 15 s.
PoolFairSpec == PoolSpec /\ \A c \in Callers : WF_poolVars(Step(c))

-----------------------------------------------------------------------------
(* Properties. *)

\* A pool that is open is registered, so close_pools can reach it (get_pool's
\* docstring describes an orphan "invisible to close_pools(), for the life of
\* the process"). Overlapping calls are excepted: a pool opened while close_pools
\* waits is popped unclosed.
NoOrphan ==
    ~overlap => \A p \in DOMAIN life : life[p] = "open" => \E d \in Dsns : pools[d] = p

\* Never are two pools of one DSN being opened or open: the connections of the
\* process stay within max_size per DSN, with the same exception.
OnePoolPerDsn ==
    ~overlap => \A d \in Dsns :
        LET opening == {c \in Callers : caller[c].pc = "opening" /\ caller[c].dsn = d}
        IN  IF Usable(d) THEN opening = {} ELSE Cardinality(opening) <= 1

\* Every call of get_pool ends, also when the pool it waits for fails to open
\* or close_pools throws the lock away under it.
CallsReturn == \A c \in Callers : caller[c].pc # "idle" ~> caller[c].pc = "idle"
=============================================================================
