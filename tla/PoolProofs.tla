----------------------------- MODULE PoolProofs ----------------------------
(* Proofs about the registry of pools: who stands in which lock's queue, and *)
(* what follows for the pools as long as close_pools runs alone.             *)
EXTENDS Pool, FiniteSetTheorems, SequenceTheorems, TLAPS

Locks == 1 .. Len(waiting)
Made == 1 .. Len(life)

CallerState == [pc : {"idle", "waiting", "opening"}, dsn : Dsns \union {""}, lock : Nat, pool : Nat,
         calls : 0 .. MaxCalls]

Closer == [pc : {"idle", "closing"}, todo : SUBSET (Dsns \X Nat),
           now : {<<>>} \union (Dsns \X Nat)]

ShapeInv ==
    /\ pools \in [Dsns -> Nat] /\ locks \in [Dsns -> Nat]
    /\ \A d \in Dsns : pools[d] \in 0 .. Len(life) /\ locks[d] \in 0 .. Len(waiting)
    /\ life \in Seq({"opening", "open", "closed"}) /\ waiting \in Seq(Seq(Callers))
    /\ caller \in [Callers -> CallerState]
    /\ \A c \in Callers : caller[c].pc # "idle" => caller[c].dsn \in Dsns
    /\ closer \in Closer /\ closer.todo \subseteq Dsns \X Made
    /\ closer.pc = "closing" => closer.now \in Dsns \X Nat
    /\ closes \in 0 .. MaxCloses /\ overlap \in BOOLEAN

\* Whoever stands in a lock's queue has a call that asked for it, and stands there once.
StandInv ==
    \A l \in Locks : \A i \in 1 .. Len(waiting[l]) :
        /\ caller[waiting[l][i]].pc # "idle" /\ caller[waiting[l][i]].lock = l
        /\ \A j \in 1 .. Len(waiting[l]) : waiting[l][i] = waiting[l][j] => i = j

\* A call that has not ended stands in its lock's queue; one that opens a pool is first.
PlaceInv ==
    \A c \in Callers : caller[c].pc # "idle" =>
        /\ caller[c].lock \in Locks
        /\ \E i \in 1 .. Len(waiting[caller[c].lock]) : waiting[caller[c].lock][i] = c
        /\ caller[c].pc = "opening" => waiting[caller[c].lock][1] = c

\* A pool that is being opened is in the hands of one call, and nobody else's.
OpeningInv ==
    /\ \A c \in Callers : caller[c].pc = "opening" =>
          /\ caller[c].pool \in Made /\ life[caller[c].pool] = "opening"
          /\ \A b \in Callers : caller[b].pc = "opening" /\ caller[b].pool = caller[c].pool => b = c
    /\ \A d \in Dsns : pools[d] # 0 => life[pools[d]] # "opening"
    /\ \A item \in closer.todo : life[item[2]] # "opening"

\* close_pools alone: a call holds the lock its DSN has, and no two DSNs share one; ...
LockInv ==
    /\ \A c \in Callers : caller[c].pc # "idle" => locks[caller[c].dsn] = caller[c].lock
    /\ \A d, e \in Dsns : locks[d] = locks[e] /\ locks[d] # 0 => d = e

\* ... nothing opens a pool next to a usable one, and an open pool is registered; ...
RegistryInv ==
    /\ \A c \in Callers : caller[c].pc = "opening" => ~Usable(caller[c].dsn)
    /\ \A p \in Made : life[p] = "open" => \E d \in Dsns : pools[d] = p

\* ... and what close_pools has still to close, or to forget, is what is registered.
ClosingInv ==
    closer.pc = "closing" =>
        /\ Quiet
        /\ closer.now \in Dsns \X Made /\ life[closer.now[2]] = "closed"
        /\ pools[closer.now[1]] = closer.now[2]
        /\ \A item \in closer.todo : pools[item[1]] = item[2] /\ item[1] # closer.now[1]

AloneInv == LockInv /\ RegistryInv /\ ClosingInv

PoolInv ==
    /\ ShapeInv /\ StandInv /\ PlaceInv /\ OpeningInv
    /\ overlap = FALSE => AloneInv

-----------------------------------------------------------------------------
(* The queues of the locks. *)

\* The queue of lock l with c at its end, as GetPool leaves it.
Lined(c, l) == IF l > Len(waiting) THEN Append(waiting, <<c>>)
               ELSE [waiting EXCEPT ![l] = Append(@, c)]

\* Who stood in that queue before.
Before(l) == IF l \in Locks THEN waiting[l] ELSE <<>>

\* The queues after one more caller has lined up.
LEMMA LinedFacts ==
    ASSUME ShapeInv, NEW c \in Callers, NEW l \in 1 .. Len(waiting) + 1
    PROVE  /\ Len(waiting) \in Nat /\ l \in 1 .. Len(Lined(c, l))
           /\ Lined(c, l) \in Seq(Seq(Callers)) /\ Len(Lined(c, l)) \in Nat
           /\ Len(waiting) <= Len(Lined(c, l))
           /\ Lined(c, l)[l] = Append(Before(l), c) /\ Before(l) \in Seq(Callers)
           /\ \A k \in 1 .. Len(Lined(c, l)) : k # l => k \in Locks /\ Lined(c, l)[k] = waiting[k]
<1>1. waiting \in Seq(Seq(Callers)) /\ Len(waiting) \in Nat /\ <<c>> \in Seq(Callers)
  BY DEF ShapeInv
<1>2. Before(l) \in Seq(Callers)
  <2>1. <<>> \in Seq(Callers)
    OBVIOUS
  <2> QED BY <1>1, <2>1 DEF Before, Locks
<1> DEFINE q == Lined(c, l)
           a == Append(Before(l), c)
<1> SUFFICES /\ q \in Seq(Seq(Callers)) /\ Len(q) \in Nat /\ Len(waiting) <= Len(q)
             /\ l \in 1 .. Len(q) /\ q[l] = a
             /\ \A k \in 1 .. Len(q) : k # l => k \in Locks /\ q[k] = waiting[k]
  BY <1>1, <1>2
<1>3. CASE l > Len(waiting)
  <2>1. l = Len(waiting) + 1 /\ l \notin Locks
    BY <1>1, <1>3 DEF Locks
  <2>2. q = Append(waiting, <<c>>) /\ a = <<c>>
    <3>1. Append(<<>>, c) = <<c>>
      OBVIOUS
    <3> QED BY <1>3, <2>1, <3>1 DEF Lined, Before
  <2> HIDE DEF q, a
  <2>3. /\ q \in Seq(Seq(Callers)) /\ Len(q) = Len(waiting) + 1 /\ q[Len(waiting) + 1] = <<c>>
        /\ \A k \in 1 .. Len(waiting) : q[k] = waiting[k]
    BY <1>1, <2>2, AppendProperties
  <2> QED BY <1>1, <2>1, <2>2, <2>3 DEF Locks
<1>4. CASE ~(l > Len(waiting))
  <2>1. l \in Locks /\ waiting[l] \in Seq(Callers) /\ l \in 1 .. Len(waiting)
    BY <1>1, <1>4 DEF Locks
  <2>2. a = Append(waiting[l], c) /\ a \in Seq(Callers)
    BY <2>1, AppendProperties DEF Before
  <2>3. q = [waiting EXCEPT ![l] = a]
    BY <1>4, <2>2 DEF Lined
  <2> HIDE DEF q, a
  <2>4. /\ q \in Seq(Seq(Callers)) /\ Len(q) = Len(waiting)
        /\ \A k \in 1 .. Len(waiting) : q[k] = IF k = l THEN a ELSE waiting[k]
    BY <1>1, <2>1, <2>2, <2>3, ExceptSeq
  <2>5. q[l] = a /\ Len(q) \in Nat /\ Len(waiting) <= Len(q) /\ l \in 1 .. Len(q)
    <3>1. q[l] = a /\ l \in 1 .. Len(q)
      BY <2>1, <2>4
    <3>2. Len(q) \in Nat
      BY <2>4
    <3> QED BY <2>4, <3>1, <3>2
  <2>6. \A k \in 1 .. Len(q) : k # l => k \in Locks /\ q[k] = waiting[k]
    BY <2>4 DEF Locks
  <2> QED BY <2>4, <2>5, <2>6
<1> QED BY <1>3, <1>4

\* Lining up.
LEMMA Joins ==
    ASSUME PoolInv, NEW c \in Callers, caller[c].pc = "idle",
           NEW l \in 1 .. Len(waiting) + 1, waiting' = Lined(c, l),
           caller' \in [Callers -> CallerState], \A b \in Callers \ {c} : caller'[b] = caller[b],
           caller'[c].pc # "idle", caller'[c].lock = l,
           caller'[c].pc = "opening" => Before(l) = <<>>
    PROVE  StandInv' /\ PlaceInv'
<1> DEFINE o == Before(l)
           n == Append(o, c)
           q == Lined(c, l)
<1>0. /\ Len(waiting) \in Nat /\ l \in 1 .. Len(q) /\ Len(q) \in Nat /\ Len(waiting) <= Len(q)
      /\ q[l] = n /\ o \in Seq(Callers)
      /\ \A k \in 1 .. Len(q) : k # l => k \in Locks /\ q[k] = waiting[k]
  BY LinedFacts DEF PoolInv
<1>2. /\ Len(o) \in Nat /\ Len(n) = Len(o) + 1 /\ n[Len(o) + 1] = c
      /\ \A i \in 1 .. Len(o) : n[i] = o[i] /\ o[i] \in Callers
  BY <1>0, AppendProperties
<1> HIDE DEF n, q
<1>1. /\ l \in Locks' /\ waiting'[l] = n /\ Locks \subseteq Locks'
      /\ \A k \in Locks' : k # l => k \in Locks /\ waiting'[k] = waiting[k]
  <2>1. waiting' = q
    BY DEF q
  <2> QED BY <1>0, <2>1 DEF Locks
<1>3. l \in Locks => o = waiting[l]
  BY DEF Before
<1>4. l \notin Locks => Len(o) = 0
  BY DEF Before
<1> HIDE DEF o
<1>5. \A k \in Locks : \A i \in 1 .. Len(waiting[k]) :
         waiting[k][i] \in Callers \ {c} /\ waiting[k] \in Seq(Callers)
  <2>1. \A k \in Locks : waiting[k] \in Seq(Callers)
    BY DEF PoolInv, ShapeInv, Locks
  <2> QED BY <2>1 DEF PoolInv, StandInv
<1>6. \A i \in 1 .. Len(o) : l \in Locks /\ o = waiting[l] /\ o[i] \in Callers \ {c}
  BY <1>2, <1>3, <1>4, <1>5
<1>7. StandInv'
  <2> SUFFICES ASSUME NEW k \in Locks', NEW i \in 1 .. Len(waiting'[k])
               PROVE  /\ caller'[waiting'[k][i]].pc # "idle" /\ caller'[waiting'[k][i]].lock = k
                      /\ \A j \in 1 .. Len(waiting'[k]) : waiting'[k][i] = waiting'[k][j] => i = j
    BY DEF StandInv
  <2>1. CASE k # l
    <3>1. k \in Locks /\ waiting'[k] = waiting[k]
      BY <1>1, <2>1
    <3>2. waiting[k][i] \in Callers \ {c} /\ caller'[waiting[k][i]] = caller[waiting[k][i]]
      BY <1>5, <3>1
    <3> QED BY <3>1, <3>2 DEF PoolInv, StandInv
  <2>2. CASE k = l
    <3>1. \A j \in 1 .. Len(waiting'[k]) :
             \/ j \in 1 .. Len(o) /\ waiting'[k][j] = o[j] /\ o[j] \in Callers \ {c}
             \/ j = Len(o) + 1 /\ waiting'[k][j] = c
      BY <1>1, <1>2, <1>6, <2>2
    <3>2. CASE i = Len(o) + 1
      BY <2>2, <3>1, <3>2
    <3>3. CASE i \in 1 .. Len(o)
      <4>1. l \in Locks /\ o = waiting[l] /\ o[i] \in Callers \ {c} /\ waiting'[k][i] = o[i]
        BY <1>1, <1>2, <1>6, <2>2, <3>3
      <4>2. caller[o[i]].pc # "idle" /\ caller[o[i]].lock = l /\ caller'[o[i]] = caller[o[i]]
        BY <3>3, <4>1 DEF PoolInv, StandInv
      <4>3. \A j \in 1 .. Len(o) : o[i] = o[j] => i = j
        BY <3>3, <4>1 DEF PoolInv, StandInv
      <4> QED BY <2>2, <3>1, <4>1, <4>2, <4>3
    <3> QED BY <3>1, <3>2, <3>3
  <2> QED BY <2>1, <2>2
<1>8. PlaceInv'
  <2> SUFFICES ASSUME NEW b \in Callers, caller'[b].pc # "idle"
               PROVE  /\ caller'[b].lock \in Locks'
                      /\ \E i \in 1 .. Len(waiting'[caller'[b].lock]) :
                            waiting'[caller'[b].lock][i] = b
                      /\ caller'[b].pc = "opening" => waiting'[caller'[b].lock][1] = b
    BY DEF PlaceInv
  <2>1. CASE b = c
    <3>1. Len(o) + 1 \in 1 .. Len(waiting'[l]) /\ waiting'[l][Len(o) + 1] = c
      BY <1>1, <1>2
    <3>2. caller'[c].pc = "opening" => Len(o) = 0
      BY DEF o
    <3> QED BY <1>1, <2>1, <3>1, <3>2
  <2>2. CASE b # c
    <3> DEFINE k == caller[b].lock
    <3>1. caller'[b] = caller[b] /\ caller[b].pc # "idle"
      BY <2>2
    <3>2. k \in Locks /\ k \in Locks' /\ (caller[b].pc = "opening" => waiting[k][1] = b)
      BY <1>1, <3>1 DEF PoolInv, PlaceInv
    <3>3. PICK i \in 1 .. Len(waiting[k]) : waiting[k][i] = b
      BY <3>1 DEF PoolInv, PlaceInv
    <3>4. \A j \in 1 .. Len(waiting[k]) : j \in 1 .. Len(waiting'[k]) /\ waiting'[k][j] = waiting[k][j]
      <4>1. CASE k # l
        BY <1>1, <3>2, <4>1
      <4>2. CASE k = l
        <5>1. waiting'[k] = n /\ waiting[k] = o
          BY <1>1, <1>3, <3>2, <4>2
        <5> QED BY <1>2, <5>1
      <4> QED BY <4>1, <4>2
    <3>5. 1 \in 1 .. Len(waiting[k])
      <4>1. Len(waiting[k]) \in Nat
        BY <1>5, <3>2, <3>3
      <4> QED BY <3>3, <4>1
    <3> HIDE DEF k
    <3>6. caller'[b].lock = k /\ caller'[b].pc = caller[b].pc
      BY <3>1 DEF k
    <3> QED BY <3>2, <3>3, <3>4, <3>5, <3>6
  <2> QED BY <2>1, <2>2
<1> QED BY <1>7, <1>8

\* Leaving the queue, from its head.
LEMMA Leaves ==
    ASSUME PoolInv, NEW c \in Callers, caller[c].pc # "idle", waiting[caller[c].lock][1] = c,
           waiting' = [waiting EXCEPT ![caller[c].lock] = Tail(@)],
           \A b \in Callers \ {c} : caller'[b] = caller[b], caller'[c].pc = "idle"
    PROVE  /\ StandInv' /\ PlaceInv'
           /\ waiting' \in Seq(Seq(Callers)) /\ Len(waiting') = Len(waiting)
<1> DEFINE l == caller[c].lock
           o == waiting[l]
           n == Tail(o)
<1>1. l \in Locks /\ waiting \in Seq(Seq(Callers)) /\ o \in Seq(Callers) /\ o # <<>>
  <2>1. l \in Locks /\ \E i \in 1 .. Len(waiting[l]) : waiting[l][i] = c
    BY DEF PoolInv, PlaceInv
  <2>2. waiting \in Seq(Seq(Callers))
    BY DEF PoolInv, ShapeInv
  <2> QED BY <2>1, <2>2 DEF Locks
<1>2. /\ n \in Seq(Callers) /\ Len(o) \in Nat /\ Len(n) = Len(o) - 1
      /\ \A i \in 1 .. Len(n) : n[i] = o[i + 1] /\ i + 1 \in 1 .. Len(o)
      /\ \A i \in 1 .. Len(o) : o[i] \in Callers
  <2>1. Len(o) \in Nat /\ \A i \in 1 .. Len(o) : o[i] \in Callers
    BY <1>1
  <2> HIDE DEF o
  <2>2. n \in Seq(Callers) /\ Len(n) = Len(o) - 1 /\ \A i \in 1 .. Len(n) : n[i] = o[i + 1]
    BY <1>1, HeadTailProperties
  <2> QED BY <2>1, <2>2
<1>3. /\ \A i \in 1 .. Len(o) : \A j \in 1 .. Len(o) : o[i] = o[j] => i = j
      /\ \A i \in 1 .. Len(o) : caller[o[i]].pc # "idle" /\ caller[o[i]].lock = l
  BY <1>1 DEF PoolInv, StandInv
<1>4. waiting' = [waiting EXCEPT ![l] = n] /\ o[1] = c
  OBVIOUS
<1> HIDE DEF n
<1>5. /\ waiting' \in Seq(Seq(Callers)) /\ Len(waiting') = Len(waiting) /\ Locks' = Locks
      /\ waiting'[l] = n /\ \A k \in Locks : k # l => waiting'[k] = waiting[k]
  <2>1. /\ waiting' \in Seq(Seq(Callers)) /\ Len(waiting') = Len(waiting)
        /\ \A k \in 1 .. Len(waiting) : waiting'[k] = IF k = l THEN n ELSE waiting[k]
    BY <1>1, <1>2, <1>4, ExceptSeq DEF Locks
  <2> QED BY <1>1, <2>1 DEF Locks
<1>6. \A i \in 1 .. Len(n) : n[i] \in Callers \ {c}
  <2> TAKE i \in 1 .. Len(n)
  <2>1. 1 \in 1 .. Len(o) /\ i + 1 # 1
    BY <1>2
  <2> QED BY <1>2, <1>3, <1>4, <2>1
<1>7. \A k \in Locks : k # l =>
         \A i \in 1 .. Len(waiting[k]) : waiting[k][i] \in Callers \ {c}
  <2>1. \A k \in Locks : waiting[k] \in Seq(Callers)
    BY <1>1 DEF Locks
  <2> QED BY <2>1 DEF PoolInv, StandInv
<1>8. StandInv'
  <2> SUFFICES ASSUME NEW k \in Locks, NEW i \in 1 .. Len(waiting'[k])
               PROVE  /\ caller'[waiting'[k][i]].pc # "idle" /\ caller'[waiting'[k][i]].lock = k
                      /\ \A j \in 1 .. Len(waiting'[k]) : waiting'[k][i] = waiting'[k][j] => i = j
    BY <1>5 DEF StandInv
  <2>1. CASE k # l
    <3>1. waiting'[k] = waiting[k]
      BY <1>5, <2>1
    <3>2. waiting[k][i] \in Callers \ {c} /\ caller'[waiting[k][i]] = caller[waiting[k][i]]
      BY <1>7, <2>1, <3>1
    <3>3. /\ caller[waiting[k][i]].pc # "idle" /\ caller[waiting[k][i]].lock = k
          /\ \A j \in 1 .. Len(waiting[k]) : waiting[k][i] = waiting[k][j] => i = j
      BY <3>1 DEF PoolInv, StandInv
    <3> HIDE DEF l
    <3> QED BY <3>1, <3>2, <3>3
  <2>2. CASE k = l
    <3>1. waiting'[k] = n /\ n[i] \in Callers \ {c} /\ n[i] = o[i + 1] /\ i + 1 \in 1 .. Len(o)
      BY <1>2, <1>5, <1>6, <2>2
    <3>2. caller'[n[i]] = caller[n[i]]
      BY <3>1
    <3>3. caller[n[i]].pc # "idle" /\ caller[n[i]].lock = l
      BY <1>3, <3>1
    <3>4. ASSUME NEW j \in 1 .. Len(n), n[i] = n[j] PROVE i = j
      <4>1. n[j] = o[j + 1] /\ j + 1 \in 1 .. Len(o)
        BY <1>2
      <4>2. i + 1 = j + 1
        BY <1>3, <3>1, <3>4, <4>1
      <4>3. i \in Int /\ j \in Int
        BY <3>1
      <4> QED BY <4>2, <4>3
    <3>5. caller'[n[i]].pc # "idle" /\ caller'[n[i]].lock = k
      BY <2>2, <3>2, <3>3
    <3>6. \A j \in 1 .. Len(n) : n[i] = n[j] => i = j
      BY <3>4
    <3> HIDE DEF l
    <3> QED BY <3>1, <3>5, <3>6
  <2> QED BY <2>1, <2>2
<1>9. PlaceInv'
  <2> SUFFICES ASSUME NEW b \in Callers, caller'[b].pc # "idle"
               PROVE  /\ caller'[b].lock \in Locks
                      /\ \E i \in 1 .. Len(waiting'[caller'[b].lock]) :
                            waiting'[caller'[b].lock][i] = b
                      /\ caller'[b].pc = "opening" => waiting'[caller'[b].lock][1] = b
    BY <1>5 DEF PlaceInv
  <2>0. b # c /\ caller'[b] = caller[b] /\ caller[b].pc # "idle"
    OBVIOUS
  <2> DEFINE k == caller[b].lock
  <2>1. k \in Locks /\ (caller[b].pc = "opening" => waiting[k][1] = b)
    BY <2>0 DEF PoolInv, PlaceInv
  <2>2. PICK i \in 1 .. Len(waiting[k]) : waiting[k][i] = b
    BY <2>0 DEF PoolInv, PlaceInv
  <2> HIDE DEF k
  <2>3. CASE k # l
    <3>1. waiting'[k] = waiting[k]
      BY <1>5, <2>1, <2>3
    <3> QED BY <2>0, <2>1, <2>2, <3>1 DEF k
  <2>4. CASE k = l
    <3>1. waiting[k] = o /\ waiting'[k] = n /\ i \in 1 .. Len(o) /\ o[i] = b
      BY <1>5, <2>2, <2>4
    <3>2. i - 1 \in 1 .. Len(n) /\ n[i - 1] = b
      <4>1. i # 1
        BY <1>4, <3>1
      <4>2. i - 1 \in 1 .. Len(n) /\ (i - 1) + 1 = i
        BY <1>2, <3>1, <4>1
      <4> QED BY <1>2, <3>1, <4>2
    <3>3. caller[b].pc # "opening"
      BY <1>4, <2>0, <2>1, <3>1
    <3> QED BY <2>0, <2>1, <3>1, <3>2, <3>3 DEF k
  <2> QED BY <2>3, <2>4
<1> QED BY <1>5, <1>8, <1>9

\* Nobody moves, but the first of a queue may start to open a pool.
LEMMA Stays ==
    ASSUME PoolInv, waiting' = waiting,
           \A b \in Callers : /\ caller'[b].lock = caller[b].lock
                              /\ (caller'[b].pc = "idle" <=> caller[b].pc = "idle")
                              /\ caller'[b].pc = "opening" =>
                                    caller[b].pc = "opening" \/ waiting[caller[b].lock][1] = b
    PROVE  StandInv' /\ PlaceInv'
<1>1. Locks' = Locks /\ \A l \in Locks : waiting[l] \in Seq(Callers)
  BY DEF Locks, PoolInv, ShapeInv
<1>2. \A l \in Locks : \A i \in 1 .. Len(waiting[l]) : waiting[l][i] \in Callers
  BY <1>1
<1>3. StandInv'
  BY <1>1, <1>2 DEF PoolInv, StandInv
<1>4. PlaceInv'
  BY <1>1 DEF PoolInv, PlaceInv
<1> QED BY <1>3, <1>4

-----------------------------------------------------------------------------
(* The lives of the pools. *)

\* Everything is as it was, but for calls that ended.
LEMMA LifeKept ==
    ASSUME PoolInv, UNCHANGED <<pools, life, closer>>,
           \A b \in Callers : caller'[b].pc = "opening" =>
              /\ caller[b].pc = "opening"
              /\ caller'[b].pool = caller[b].pool /\ caller'[b].dsn = caller[b].dsn
    PROVE  OpeningInv' /\ (RegistryInv => RegistryInv')
<1>1. Made' = Made /\ \A d \in Dsns : Usable(d)' <=> Usable(d)
  BY DEF Made, Usable
<1>2. OpeningInv'
  BY <1>1 DEF PoolInv, OpeningInv
<1>3. RegistryInv => RegistryInv'
  <2>1. \A b \in Callers : caller[b].pc = "opening" => caller[b].dsn \in Dsns
    BY DEF PoolInv, ShapeInv
  <2> QED BY <1>1, <2>1 DEF RegistryInv
<1> QED BY <1>2, <1>3

\* A new pool starts to open, where there was no usable one.
LEMMA LifeOpens ==
    ASSUME PoolInv, NEW c \in Callers, NEW d \in Dsns, ~Usable(d), UNCHANGED <<pools, closer>>,
           life' = Append(life, "opening"), caller[c].pc # "opening",
           \A b \in Callers \ {c} : caller'[b] = caller[b],
           caller'[c].pc = "opening", caller'[c].dsn = d, caller'[c].pool = Len(life')
    PROVE  /\ OpeningInv' /\ (RegistryInv => RegistryInv')
           /\ life' \in Seq({"opening", "open", "closed"}) /\ Len(life') = Len(life) + 1
           /\ Len(life) \in Nat
<1> DEFINE States == {"opening", "open", "closed"}
<1>1. /\ life \in Seq(States) /\ Len(life) \in Nat /\ \A e \in Dsns : pools[e] \in 0 .. Len(life)
      /\ closer.todo \subseteq Dsns \X Made
      /\ \A b \in Callers : caller[b].pc # "idle" => caller[b].dsn \in Dsns
  BY DEF PoolInv, ShapeInv
<1>2. /\ life' \in Seq(States) /\ Len(life') = Len(life) + 1 /\ life'[Len(life) + 1] = "opening"
      /\ \A p \in 1 .. Len(life) : life'[p] = life[p]
  <2>1. "opening" \in States
    OBVIOUS
  <2> QED BY <1>1, <2>1, AppendProperties
<1>3. /\ \A p \in Made' : p \in Made \/ p = Len(life) + 1
      /\ \A p \in Made : p \in Made' /\ life'[p] = life[p] /\ p # Len(life) + 1
      /\ Len(life) + 1 \in Made'
  BY <1>1, <1>2 DEF Made
<1>4. \A e \in Dsns : pools[e] # 0 => pools[e] \in Made
  BY <1>1 DEF Made
<1>5. \A e \in Dsns : Usable(e)' <=> Usable(e)
  BY <1>3, <1>4 DEF Usable
<1>6. OpeningInv'
  <2>1. ASSUME NEW b \in Callers, caller'[b].pc = "opening"
        PROVE  /\ caller'[b].pool \in Made' /\ life'[caller'[b].pool] = "opening"
               /\ \A a \in Callers :
                     caller'[a].pc = "opening" /\ caller'[a].pool = caller'[b].pool => a = b
    <3>1. \A a \in Callers \ {c} : caller'[a].pc = "opening" =>
             /\ caller'[a].pool \in Made /\ caller'[a].pool = caller[a].pool
             /\ caller[a].pc = "opening" /\ life[caller[a].pool] = "opening"
      BY DEF PoolInv, OpeningInv
    <3>2. CASE b = c
      BY <1>2, <1>3, <3>1, <3>2
    <3>3. CASE b # c
      <4>1. caller'[b].pool \in Made /\ caller'[b].pool = caller[b].pool
            /\ caller[b].pc = "opening" /\ life[caller[b].pool] = "opening"
        BY <2>1, <3>1, <3>3
      <4>2. \A a \in Callers \ {c} :
               caller'[a].pc = "opening" /\ caller'[a].pool = caller'[b].pool => a = b
        BY <3>1, <4>1 DEF PoolInv, OpeningInv
      <4>3. caller'[c].pool # caller'[b].pool
        BY <1>2, <1>3, <4>1
      <4> QED BY <1>3, <4>1, <4>2, <4>3
    <3> QED BY <3>2, <3>3
  <2>2. \A e \in Dsns : pools'[e] # 0 => life'[pools'[e]] # "opening"
    BY <1>3, <1>4 DEF PoolInv, OpeningInv
  <2>3. \A item \in closer.todo : life'[item[2]] # "opening"
    <3>1. \A item \in closer.todo : item[2] \in Made
      BY <1>1
    <3> QED BY <1>3, <3>1 DEF PoolInv, OpeningInv
  <2> QED BY <2>1, <2>2, <2>3 DEF OpeningInv
<1>7. ASSUME RegistryInv PROVE RegistryInv'
  <2>1. \A b \in Callers : caller'[b].pc = "opening" => ~Usable(caller[b].dsn)'
    <3>1. \A b \in Callers \ {c} : caller'[b].pc = "opening" =>
             caller'[b].dsn \in Dsns /\ ~Usable(caller'[b].dsn)
      BY <1>1, <1>7 DEF RegistryInv
    <3>2. \A b \in Callers : caller'[b].pc = "opening" =>
             caller'[b].dsn \in Dsns /\ ~Usable(caller'[b].dsn)
      BY <3>1
    <3> QED BY <1>5, <3>2 DEF Usable
  <2>2. \A p \in Made' : life'[p] = "open" => \E e \in Dsns : pools'[e] = p
    BY <1>2, <1>3, <1>7 DEF RegistryInv
  <2> QED BY <2>1, <2>2 DEF RegistryInv
<1> QED BY <1>1, <1>2, <1>6, <1>7

\* The lock of a DSN has one holder.
LEMMA OneOpener ==
    ASSUME PoolInv, LockInv, NEW b \in Callers, NEW c \in Callers,
           caller[b].pc = "opening", caller[c].pc = "opening", caller[b].dsn = caller[c].dsn
    PROVE  b = c
<1>1. caller[b].lock = caller[c].lock
  BY DEF LockInv
<1>2. waiting[caller[b].lock][1] = b /\ waiting[caller[c].lock][1] = c
  BY DEF PoolInv, PlaceInv
<1> QED BY <1>1, <1>2

\* A pool has been opened, or could not be.
LEMMA LifeEnds ==
    ASSUME PoolInv, NEW c \in Callers, caller[c].pc = "opening", UNCHANGED closer,
           NEW to \in {"open", "closed"}, life' = [life EXCEPT ![caller[c].pool] = to],
           pools' = (IF to = "open" THEN [pools EXCEPT ![caller[c].dsn] = caller[c].pool] ELSE pools),
           \A b \in Callers \ {c} : caller'[b] = caller[b], caller'[c].pc = "idle"
    PROVE  /\ OpeningInv' /\ (LockInv /\ RegistryInv => RegistryInv')
           /\ life' \in Seq({"opening", "open", "closed"}) /\ Len(life') = Len(life)
           /\ pools' \in [Dsns -> Nat] /\ \A d \in Dsns : pools'[d] \in 0 .. Len(life)
<1> DEFINE States == {"opening", "open", "closed"}
           p == caller[c].pool
           d == caller[c].dsn
<1>1. /\ life \in Seq(States) /\ Len(life) \in Nat /\ pools \in [Dsns -> Nat]
      /\ \A e \in Dsns : pools[e] \in 0 .. Len(life)
      /\ closer.todo \subseteq Dsns \X Made /\ d \in Dsns
      /\ \A b \in Callers : caller[b].pc # "idle" => caller[b].dsn \in Dsns
  BY DEF PoolInv, ShapeInv
<1>2. p \in Made /\ life[p] = "opening" /\ p \in 1 .. Len(life)
  BY DEF PoolInv, OpeningInv, Made
<1>3. /\ life' \in Seq(States) /\ Len(life') = Len(life) /\ Made' = Made
      /\ life'[p] = to /\ \A q \in Made : q # p => life'[q] = life[q]
  <2>1. life' = [life EXCEPT ![p] = to] /\ to \in States
    OBVIOUS
  <2>2. /\ life' \in Seq(States) /\ Len(life') = Len(life)
        /\ \A q \in 1 .. Len(life) : life'[q] = IF q = p THEN to ELSE life[q]
    BY <1>1, <1>2, <2>1, ExceptSeq
  <2> QED BY <1>2, <2>2 DEF Made
<1>4. \A e \in Dsns : pools[e] # 0 => pools[e] \in Made /\ pools[e] # p
  BY <1>1, <1>2 DEF Made, PoolInv, OpeningInv
<1>5. /\ pools' \in [Dsns -> Nat] /\ \A e \in Dsns : pools'[e] \in 0 .. Len(life)
      /\ \A e \in Dsns \ {d} : pools'[e] = pools[e]
      /\ pools'[d] = IF to = "open" THEN p ELSE pools[d]
  BY <1>1, <1>2
<1> HIDE DEF p, d
<1>6. \A e \in Dsns : e # d \/ to = "closed" => (Usable(e)' <=> Usable(e))
  BY <1>3, <1>4, <1>5 DEF Usable
<1>7. OpeningInv'
  <2>1. \A b \in Callers : caller'[b].pc = "opening" =>
           b # c /\ caller[b].pc = "opening" /\ caller'[b] = caller[b] /\ caller[b].pool # p
           /\ caller[b].pool \in Made /\ life[caller[b].pool] = "opening"
    BY DEF PoolInv, OpeningInv, p
  <2>2. \A b \in Callers : caller'[b].pc = "opening" =>
           /\ caller'[b].pool \in Made /\ life'[caller'[b].pool] = "opening"
           /\ \A a \in Callers :
                 caller'[a].pc = "opening" /\ caller'[a].pool = caller'[b].pool => a = b
    BY <1>3, <2>1 DEF PoolInv, OpeningInv
  <2>3. \A e \in Dsns : pools'[e] # 0 => life'[pools'[e]] # "opening"
    <3> SUFFICES ASSUME NEW e \in Dsns, pools'[e] # 0 PROVE life'[pools'[e]] # "opening"
      OBVIOUS
    <3>1. CASE pools'[e] = p
      BY <1>3, <3>1
    <3>2. CASE pools'[e] # p
      <4>1. pools'[e] = pools[e]
        BY <1>5, <3>2
      <4> QED BY <1>3, <1>4, <4>1 DEF PoolInv, OpeningInv
    <3> QED BY <3>1, <3>2
  <2>4. \A item \in closer.todo : life'[item[2]] # "opening"
    <3>1. \A item \in closer.todo : item[2] \in Made
      BY <1>1
    <3> QED BY <1>3, <3>1 DEF PoolInv, OpeningInv
  <2> QED BY <1>3, <2>2, <2>3, <2>4 DEF OpeningInv
<1>8. ASSUME LockInv, RegistryInv PROVE RegistryInv'
  <2>1. \A b \in Callers : caller'[b].pc = "opening" =>
           caller'[b].dsn \in Dsns /\ caller'[b].dsn # d /\ ~Usable(caller'[b].dsn)
    <3> SUFFICES ASSUME NEW b \in Callers, caller'[b].pc = "opening"
                 PROVE  caller'[b].dsn \in Dsns /\ caller'[b].dsn # d /\ ~Usable(caller'[b].dsn)
      OBVIOUS
    <3>1. b # c /\ caller'[b] = caller[b] /\ caller[b].pc = "opening"
      OBVIOUS
    <3>2. caller[b].dsn # d
      BY <1>8, <3>1, OneOpener DEF d
    <3> QED BY <1>1, <1>8, <3>1, <3>2 DEF RegistryInv
  <2>2. \A b \in Callers : caller'[b].pc = "opening" => ~Usable(caller[b].dsn)'
    BY <1>6, <2>1 DEF Usable
  <2>3. ASSUME NEW q \in Made, life'[q] = "open" PROVE \E e \in Dsns : pools'[e] = q
    <3>1. CASE q = p
      BY <1>1, <1>3, <1>5, <2>3, <3>1
    <3>2. CASE q # p
      <4>1. life[q] = "open"
        BY <1>3, <2>3, <3>2
      <4>2. PICK e \in Dsns : pools[e] = q
        BY <1>8, <4>1 DEF RegistryInv
      <4>3. e # d
        <5>1. ~Usable(d)
          BY <1>8 DEF RegistryInv, d
        <5>2. q # 0
          BY DEF Made
        <5> QED BY <4>1, <4>2, <5>1, <5>2 DEF Usable
      <4> QED BY <1>5, <4>2, <4>3
    <3> QED BY <3>1, <3>2
  <2> QED BY <1>3, <2>2, <2>3 DEF RegistryInv
<1> QED BY <1>3, <1>5, <1>7, <1>8

-----------------------------------------------------------------------------
(* The steps of get_pool. *)

\* The records of calls.
LEMMA CallTypes ==
    ASSUME NEW n \in 0 .. MaxCalls
    PROVE  /\ Idle(n) \in CallerState /\ Idle(n).pc = "idle"
           /\ \A pc \in {"waiting", "opening"}, d \in Dsns, l \in Nat, p \in Nat :
                 [pc |-> pc, dsn |-> d, lock |-> l, pool |-> p, calls |-> n] \in CallerState
  BY DEF Idle, CallerState

\* A DSN without a lock gets a new one; a call that lines up has its DSN's.
LEMMA LockJoins ==
    ASSUME PoolInv, LockInv, NEW c \in Callers, NEW d \in Dsns, caller[c].pc = "idle",
           locks' = [locks EXCEPT ![d] = LockFor(d)],
           \A b \in Callers \ {c} : caller'[b] = caller[b],
           caller'[c].dsn = d, caller'[c].lock = LockFor(d)
    PROVE  LockInv'
<1>1. /\ locks \in [Dsns -> Nat] /\ Len(waiting) \in Nat
      /\ \A e \in Dsns : locks[e] \in 0 .. Len(waiting)
      /\ \A b \in Callers : caller[b].pc # "idle" => caller[b].dsn \in Dsns
  BY DEF PoolInv, ShapeInv
<1>2. locks'[d] = LockFor(d) /\ \A e \in Dsns \ {d} : locks'[e] = locks[e]
  BY <1>1
<1>3. \A b \in Callers \ {c} : caller[b].pc # "idle" => locks'[caller[b].dsn] = caller[b].lock
  <2> SUFFICES ASSUME NEW b \in Callers \ {c}, caller[b].pc # "idle"
               PROVE  locks'[caller[b].dsn] = caller[b].lock
    OBVIOUS
  <2>1. locks[caller[b].dsn] = caller[b].lock /\ caller[b].lock \in Locks /\ caller[b].dsn \in Dsns
    BY <1>1 DEF LockInv, PoolInv, PlaceInv
  <2>2. locks[caller[b].dsn] # 0
    BY <1>1, <2>1 DEF Locks
  <2> QED BY <1>2, <2>1, <2>2 DEF LockFor
<1>4. \A e, f \in Dsns : locks'[e] = locks'[f] /\ locks'[e] # 0 => e = f
  <2>1. CASE locks[d] = 0
    <3>1. locks'[d] = Len(waiting) + 1 /\ \A e \in Dsns \ {d} : locks'[e] # Len(waiting) + 1
      BY <1>1, <1>2, <2>1 DEF LockFor
    <3> QED BY <1>2, <3>1 DEF LockInv
  <2>2. CASE locks[d] # 0
    BY <1>2, <2>2 DEF LockFor, LockInv
  <2> QED BY <2>1, <2>2
<1> QED BY <1>2, <1>3, <1>4 DEF LockInv

\* Locks and queues keep to what the calls that go on asked for.
LEMMA LockKept ==
    ASSUME LockInv, UNCHANGED locks,
           \A b \in Callers : caller'[b].pc # "idle" =>
              caller[b].pc # "idle" /\ caller'[b].dsn = caller[b].dsn /\ caller'[b].lock = caller[b].lock
    PROVE  LockInv'
  BY DEF LockInv

\* close_pools is not under way while a call is.
LEMMA ClosingKept ==
    ASSUME ClosingInv, UNCHANGED closer, closer.pc = "idle" \/ ~Quiet, closer \in Closer
    PROVE  ClosingInv'
  BY DEF ClosingInv, Closer

\* A call of get_pool up to its first await.
LEMMA GetStep == ASSUME PoolInv, NEW c \in Callers, GetPool(c) PROVE PoolInv'
<1> DEFINE n == caller[c].calls + 1
<1>1. /\ caller[c].pc = "idle" /\ caller \in [Callers -> CallerState] /\ overlap \in BOOLEAN
      /\ closer \in Closer
      /\ overlap = FALSE => closer.pc = "idle"
      /\ UNCHANGED <<pools, closer, closes, overlap>>
  BY DEF GetPool, PoolInv, ShapeInv
<1>2. n \in 0 .. MaxCalls
  <2>1. caller[c].calls \in 0 .. MaxCalls /\ caller[c].calls < MaxCalls
    BY <1>1 DEF GetPool, CallerState
  <2> QED BY <2>1, PoolAssumption
<1> HIDE DEF n
<1>3. PICK d \in Dsns :
         IF Usable(d)
         THEN /\ caller' = [caller EXCEPT ![c].calls = n]
              /\ UNCHANGED <<waiting, life, locks>>
         ELSE /\ locks' = [locks EXCEPT ![d] = LockFor(d)]
              /\ IF Lined(c, LockFor(d))[LockFor(d)] = <<c>>
                 THEN Enter(c, d, LockFor(d), Lined(c, LockFor(d)), n)
                 ELSE /\ waiting' = Lined(c, LockFor(d))
                      /\ caller' = [caller EXCEPT ![c] =
                                      [pc |-> "waiting", dsn |-> d, lock |-> LockFor(d),
                                       pool |-> 0, calls |-> n]]
                      /\ UNCHANGED life
  BY DEF GetPool, Lined, n
<1>4. CASE Usable(d)
  <2>1. caller' = [caller EXCEPT ![c].calls = n] /\ UNCHANGED <<waiting, life, locks>>
    BY <1>3, <1>4
  <2>2. /\ caller' \in [Callers -> CallerState] /\ \A b \in Callers \ {c} : caller'[b] = caller[b]
        /\ caller'[c].pc = "idle" /\ caller'[c].lock = caller[c].lock
    BY <1>1, <1>2, <2>1 DEF CallerState
  <2>3. ShapeInv'
    BY <1>1, <2>1, <2>2 DEF PoolInv, ShapeInv, Made
  <2>4. StandInv' /\ PlaceInv'
    BY <1>1, <2>1, <2>2, Stays
  <2>5. OpeningInv' /\ (RegistryInv => RegistryInv')
    BY <1>1, <2>1, <2>2, LifeKept
  <2>6. LockInv => LockInv'
    BY <2>1, <2>2, LockKept
  <2>7. overlap = FALSE /\ ClosingInv => ClosingInv'
    BY <1>1, ClosingKept
  <2> QED BY <1>1, <2>3, <2>4, <2>5, <2>6, <2>7 DEF PoolInv, AloneInv
<1>5. CASE ~Usable(d)
  <2> DEFINE l == LockFor(d)
             Next(pc, p) == [pc |-> pc, dsn |-> d, lock |-> l, pool |-> p, calls |-> n]
  <2>1. locks' = [locks EXCEPT ![d] = l]
    BY <1>3, <1>5
  <2>2. /\ l \in 1 .. Len(waiting) + 1 /\ Len(waiting) \in Nat /\ l \in Nat
        /\ locks \in [Dsns -> Nat] /\ \A e \in Dsns : locks[e] \in 0 .. Len(waiting)
        /\ Len(life) \in Nat /\ life \in Seq({"opening", "open", "closed"})
    BY DEF LockFor, PoolInv, ShapeInv
  <2>3. PICK pc \in {"waiting", "opening"}, p \in Nat :
           /\ waiting' = Lined(c, l) /\ caller' = [caller EXCEPT ![c] = Next(pc, p)]
           /\ pc = "opening" => /\ Lined(c, l)[l] = <<c>> /\ life' = Append(life, "opening")
                               /\ p = Len(life')
           /\ pc = "waiting" => life' = life
    <3>1. CASE Lined(c, l)[l] = <<c>>
      <4>1. Enter(c, d, l, Lined(c, l), n)
        BY <1>3, <1>5, <3>1
      <4>2. /\ waiting' = Lined(c, l) /\ life' = Append(life, "opening")
            /\ caller' = [caller EXCEPT ![c] = Next("opening", Len(life'))]
        BY <1>5, <4>1 DEF Enter, Reuse
      <4>3. Len(life') \in Nat
        BY <2>2, <4>2, AppendProperties
      <4> HIDE DEF Next
      <4> QED BY <3>1, <4>2, <4>3
    <3>2. CASE Lined(c, l)[l] # <<c>>
      <4>1. /\ waiting' = Lined(c, l) /\ life' = life
            /\ caller' = [caller EXCEPT ![c] = Next("waiting", 0)]
        BY <1>3, <1>5, <3>2
      <4> HIDE DEF Next
      <4> QED BY <4>1
    <3> QED BY <3>1, <3>2
  <2>4. /\ Next(pc, p) \in CallerState /\ Next(pc, p).pc = pc /\ Next(pc, p).dsn = d
        /\ Next(pc, p).lock = l /\ Next(pc, p).pool = p
    BY <1>2, <2>2, CallTypes
  <2> HIDE DEF Next
  <2>5. /\ caller' \in [Callers -> CallerState] /\ \A b \in Callers \ {c} : caller'[b] = caller[b]
        /\ caller'[c].pc = pc /\ caller'[c].dsn = d /\ caller'[c].lock = l /\ caller'[c].pool = p
    BY <1>1, <2>3, <2>4
  <2> HIDE DEF l
  <2>6. /\ waiting' \in Seq(Seq(Callers)) /\ l \in 1 .. Len(waiting') /\ Len(waiting') \in Nat
        /\ Len(waiting) <= Len(waiting')
        /\ Lined(c, l)[l] = Append(Before(l), c) /\ Before(l) \in Seq(Callers)
    BY <2>2, <2>3, LinedFacts DEF PoolInv
  <2>7. pc = "opening" => Before(l) = <<>>
    <3> SUFFICES ASSUME pc = "opening" PROVE Before(l) = <<>>
      OBVIOUS
    <3>1. Append(Before(l), c) = <<c>>
      BY <2>3, <2>6
    <3>2. Len(Before(l)) \in Nat /\ Len(Append(Before(l), c)) = Len(Before(l)) + 1
      BY <2>6
    <3>3. Len(Before(l)) = 0
      BY <3>1, <3>2
    <3> QED BY <2>6, <3>3
  <2>8. StandInv' /\ PlaceInv'
    BY <1>1, <2>2, <2>3, <2>5, <2>7, Joins
  <2>9. /\ OpeningInv' /\ (RegistryInv => RegistryInv')
        /\ life' \in Seq({"opening", "open", "closed"}) /\ Len(life) <= Len(life') /\ Len(life') \in Nat
    <3>1. CASE pc = "opening"
      BY <1>1, <1>5, <2>2, <2>3, <2>5, <3>1, LifeOpens
    <3>2. CASE pc = "waiting"
      BY <1>1, <2>2, <2>3, <2>5, <3>2, LifeKept
    <3> QED BY <3>1, <3>2
  <2>10. ShapeInv'
    <3>1. /\ locks' \in [Dsns -> Nat] /\ \A e \in Dsns : locks'[e] \in 0 .. Len(waiting')
      BY <2>1, <2>2, <2>6
    <3>2. \A e \in Dsns : pools'[e] \in 0 .. Len(life')
      BY <1>1, <2>2, <2>9 DEF PoolInv, ShapeInv
    <3>3. Made \subseteq Made'
      BY <2>2, <2>9 DEF Made
    <3>4. \A b \in Callers : caller'[b].pc # "idle" => caller'[b].dsn \in Dsns
      BY <1>1, <2>5 DEF PoolInv, ShapeInv
    <3>5. closer.todo \subseteq Dsns \X Made'
      BY <3>3 DEF PoolInv, ShapeInv
    <3> QED BY <1>1, <2>5, <2>6, <2>9, <3>1, <3>2, <3>4, <3>5 DEF PoolInv, ShapeInv
  <2>11. LockInv => LockInv'
    BY <1>1, <2>1, <2>5, LockJoins DEF l
  <2>12. overlap = FALSE /\ ClosingInv => ClosingInv'
    BY <1>1, ClosingKept
  <2> QED BY <1>1, <2>8, <2>9, <2>10, <2>11, <2>12 DEF PoolInv, AloneInv
<1> QED BY <1>4, <1>5

\* A waiter gets the lock: it finds a usable pool and leaves, or opens one.
LEMMA AcquiredStep == ASSUME PoolInv, NEW c \in Callers, Acquired(c) PROVE PoolInv'
<1> DEFINE d == caller[c].dsn
           l == caller[c].lock
           n == caller[c].calls
<1>1. /\ caller[c].pc = "waiting" /\ Head(waiting[l]) = c /\ Enter(c, d, l, waiting, n)
      /\ UNCHANGED <<pools, locks, closer, closes, overlap>>
  BY DEF Acquired
<1>2. /\ caller \in [Callers -> CallerState] /\ caller[c] \in CallerState /\ d \in Dsns /\ l \in Nat
      /\ n \in 0 .. MaxCalls /\ closer \in Closer /\ ~Quiet
      /\ Len(life) \in Nat /\ life \in Seq({"opening", "open", "closed"})
  <2>1. caller \in [Callers -> CallerState] /\ caller[c] \in CallerState /\ d \in Dsns /\ closer \in Closer
    BY <1>1 DEF PoolInv, ShapeInv
  <2>2. l \in Nat /\ n \in 0 .. MaxCalls
    BY <2>1 DEF CallerState
  <2>3. ~Quiet
    BY <1>1 DEF Quiet
  <2>4. Len(life) \in Nat /\ life \in Seq({"opening", "open", "closed"})
    BY DEF PoolInv, ShapeInv
  <2> QED BY <2>1, <2>2, <2>3, <2>4
<1>3. waiting[l][1] = c
  <2>1. l \in Locks /\ \E i \in 1 .. Len(waiting[l]) : waiting[l][i] = c
    BY <1>1 DEF PoolInv, PlaceInv
  <2>2. waiting[l] \in Seq(Callers) /\ waiting[l] # <<>>
    BY <2>1 DEF PoolInv, ShapeInv, Locks
  <2> QED BY <1>1, <2>2
<1>4. CASE Usable(d)
  <2>1. /\ waiting' = [waiting EXCEPT ![l] = Tail(@)] /\ caller' = [caller EXCEPT ![c] = Idle(n)]
        /\ life' = life
    BY <1>1, <1>4 DEF Enter, Reuse
  <2>2. /\ caller' \in [Callers -> CallerState] /\ caller'[c].pc = "idle"
        /\ \A b \in Callers \ {c} : caller'[b] = caller[b]
    BY <1>2, <2>1, CallTypes
  <2>3. /\ StandInv' /\ PlaceInv'
        /\ waiting' \in Seq(Seq(Callers)) /\ Len(waiting') = Len(waiting)
    BY <1>1, <1>3, <2>1, <2>2, Leaves
  <2>4. OpeningInv' /\ (RegistryInv => RegistryInv')
    BY <1>1, <2>1, <2>2, LifeKept
  <2>5. ShapeInv'
    BY <1>1, <2>1, <2>2, <2>3 DEF PoolInv, ShapeInv, Made
  <2>6. LockInv => LockInv'
    BY <1>1, <2>2, LockKept
  <2>7. ClosingInv => ClosingInv'
    BY <1>1, <1>2, ClosingKept
  <2> QED BY <1>1, <2>3, <2>4, <2>5, <2>6, <2>7 DEF PoolInv, AloneInv
<1>5. CASE ~Usable(d)
  <2> DEFINE new == [pc |-> "opening", dsn |-> d, lock |-> l, pool |-> Len(life'), calls |-> n]
  <2>1. /\ waiting' = waiting /\ life' = Append(life, "opening")
        /\ caller' = [caller EXCEPT ![c] = new]
    BY <1>1, <1>5 DEF Enter, Reuse
  <2>2. /\ new \in CallerState /\ new.pc = "opening" /\ new.dsn = d /\ new.lock = l
        /\ new.pool = Len(life')
    <3>1. Len(life') \in Nat
      BY <1>2, <2>1, AppendProperties
    <3> QED BY <1>2, <3>1, CallTypes
  <2> HIDE DEF new
  <2>3. /\ caller' \in [Callers -> CallerState] /\ \A b \in Callers \ {c} : caller'[b] = caller[b]
        /\ caller'[c].pc = "opening" /\ caller'[c].dsn = d /\ caller'[c].lock = l
        /\ caller'[c].pool = Len(life')
    BY <1>2, <2>1, <2>2
  <2>4. StandInv' /\ PlaceInv'
    BY <1>1, <1>3, <2>1, <2>3, Stays
  <2>5. /\ OpeningInv' /\ (RegistryInv => RegistryInv')
        /\ life' \in Seq({"opening", "open", "closed"}) /\ Len(life') = Len(life) + 1
    BY <1>1, <1>2, <1>5, <2>1, <2>3, LifeOpens
  <2>6. ShapeInv'
    <3>1. \A e \in Dsns : pools'[e] \in 0 .. Len(life')
      BY <1>1, <1>2, <2>5 DEF PoolInv, ShapeInv
    <3>2. Made \subseteq Made'
      BY <1>2, <2>5 DEF Made
    <3>3. closer.todo \subseteq Dsns \X Made'
      BY <3>2 DEF PoolInv, ShapeInv
    <3>4. \A b \in Callers : caller'[b].pc # "idle" => caller'[b].dsn \in Dsns
      BY <1>2, <2>3 DEF PoolInv, ShapeInv
    <3> QED BY <1>1, <2>1, <2>3, <2>5, <3>1, <3>3, <3>4 DEF PoolInv, ShapeInv
  <2>7. LockInv => LockInv'
    BY <1>1, <2>3, LockKept
  <2>8. ClosingInv => ClosingInv'
    BY <1>1, <1>2, ClosingKept
  <2> QED BY <1>1, <2>4, <2>5, <2>6, <2>7, <2>8 DEF PoolInv, AloneInv
<1> QED BY <1>4, <1>5

\* The pool is open and registered, or closed and forgotten; the lock is free.
LEMMA OpenedStep == ASSUME PoolInv, NEW c \in Callers, Opened(c) \/ OpenFails(c) PROVE PoolInv'
<1> DEFINE l == caller[c].lock
           n == caller[c].calls
<1>1. /\ caller[c].pc = "opening" /\ waiting' = [waiting EXCEPT ![l] = Tail(@)]
      /\ caller' = [caller EXCEPT ![c] = Idle(n)] /\ UNCHANGED <<locks, closer, closes, overlap>>
  BY DEF Opened, OpenFails
<1>2. PICK to \in {"open", "closed"} :
         /\ life' = [life EXCEPT ![caller[c].pool] = to]
         /\ pools' = (IF to = "open" THEN [pools EXCEPT ![caller[c].dsn] = caller[c].pool] ELSE pools)
  BY DEF Opened, OpenFails
<1>3. caller \in [Callers -> CallerState] /\ n \in 0 .. MaxCalls /\ closer \in Closer /\ ~Quiet
  BY <1>1 DEF PoolInv, ShapeInv, CallerState, Quiet
<1>4. /\ caller' \in [Callers -> CallerState] /\ caller'[c].pc = "idle"
      /\ \A b \in Callers \ {c} : caller'[b] = caller[b]
  BY <1>1, <1>3, CallTypes
<1>5. waiting[l][1] = c
  BY <1>1 DEF PoolInv, PlaceInv
<1>6. /\ StandInv' /\ PlaceInv'
      /\ waiting' \in Seq(Seq(Callers)) /\ Len(waiting') = Len(waiting)
  BY <1>1, <1>4, <1>5, Leaves
<1>7. /\ OpeningInv' /\ (LockInv /\ RegistryInv => RegistryInv')
      /\ life' \in Seq({"opening", "open", "closed"}) /\ Len(life') = Len(life)
      /\ pools' \in [Dsns -> Nat] /\ \A d \in Dsns : pools'[d] \in 0 .. Len(life)
  BY <1>1, <1>2, <1>4, LifeEnds
<1>8. ShapeInv'
  BY <1>1, <1>4, <1>6, <1>7 DEF PoolInv, ShapeInv, Made
<1>9. LockInv => LockInv'
  BY <1>1, <1>4, LockKept
<1>10. ClosingInv => ClosingInv'
  BY <1>1, <1>3, ClosingKept
<1> QED BY <1>1, <1>6, <1>7, <1>8, <1>9, <1>10 DEF PoolInv, AloneInv

-----------------------------------------------------------------------------
(* close_pools. *)

\* What the head of the loop does, whoever else is running.
LEMMA LoopShape ==
    ASSUME PoolInv, NEW todo \in SUBSET (Dsns \X Made), CloseLoop(todo),
           \A item \in todo : life[item[2]] # "opening",
           pools' \in [Dsns -> Nat], \A d \in Dsns : pools'[d] \in {pools[d], 0},
           UNCHANGED <<waiting, caller, overlap>>, closes' \in 0 .. MaxCloses
    PROVE  ShapeInv' /\ StandInv' /\ PlaceInv' /\ OpeningInv'
<1> DEFINE States == {"opening", "open", "closed"}
<1>1. /\ life \in Seq(States) /\ Len(life) \in Nat /\ closer \in Closer /\ Len(waiting) \in Nat
      /\ locks \in [Dsns -> Nat] /\ \A d \in Dsns : pools[d] \in 0 .. Len(life)
      /\ \A d \in Dsns : locks[d] \in 0 .. Len(waiting)
  BY DEF PoolInv, ShapeInv
<1>2. todo \subseteq Dsns \X Nat /\ \A item \in todo : item[2] \in Made /\ item \in Dsns \X Nat
  BY DEF Made
<1>3. PICK t \in SUBSET todo :
         /\ closer' \in Closer /\ closer'.todo = t
         /\ closer'.pc = "closing" => closer'.now \in Dsns \X Nat
         /\ \/ life' = life
            \/ \E item \in todo : life' = [life EXCEPT ![item[2]] = "closed"]
  <2>1. CASE /\ todo = {} /\ life' = life
             /\ closer' = [closer EXCEPT !.pc = "idle", !.now = <<>>, !.todo = {}]
    <3>1. closer' \in Closer /\ closer'.todo = {} /\ closer'.pc = "idle"
      BY <1>1, <2>1 DEF Closer
    <3> QED BY <2>1, <3>1
  <2>2. ASSUME NEW item \in todo, life' = [life EXCEPT ![item[2]] = "closed"],
               closer' = [closer EXCEPT !.pc = "closing", !.now = item, !.todo = todo \ {item}]
        PROVE  /\ closer' \in Closer /\ closer'.todo = todo \ {item} /\ closer'.now = item
    BY <1>1, <1>2, <2>2 DEF Closer
  <2>3. CASE \E item \in todo :
               /\ life' = [life EXCEPT ![item[2]] = "closed"]
               /\ closer' = [closer EXCEPT !.pc = "closing", !.now = item, !.todo = todo \ {item}]
    <3>1. PICK item \in todo :
               /\ life' = [life EXCEPT ![item[2]] = "closed"]
               /\ closer' = [closer EXCEPT !.pc = "closing", !.now = item, !.todo = todo \ {item}]
      BY <2>3
    <3>2. closer' \in Closer /\ closer'.todo = todo \ {item} /\ closer'.now = item
      BY <2>2, <3>1
    <3>3. todo \ {item} \in SUBSET todo /\ item \in Dsns \X Nat
      BY <1>2
    <3> QED BY <3>1, <3>2, <3>3
  <2> QED BY <2>1, <2>3 DEF CloseLoop
<1>4. /\ life' \in Seq(States) /\ Len(life') = Len(life) /\ Made' = Made
      /\ \A p \in Made : life'[p] = life[p] \/ (life'[p] = "closed" /\ life[p] # "opening")
  <2>1. CASE life' = life
    BY <1>1, <2>1 DEF Made
  <2>2. CASE \E item \in todo : life' = [life EXCEPT ![item[2]] = "closed"]
    <3>1. PICK item \in todo : life' = [life EXCEPT ![item[2]] = "closed"]
      BY <2>2
    <3>2. item[2] \in 1 .. Len(life) /\ "closed" \in States /\ life[item[2]] # "opening"
      BY <1>2 DEF Made
    <3>3. /\ life' \in Seq(States) /\ Len(life') = Len(life)
          /\ \A p \in 1 .. Len(life) : life'[p] = IF p = item[2] THEN "closed" ELSE life[p]
      BY <1>1, <3>1, <3>2, ExceptSeq
    <3> QED BY <3>2, <3>3 DEF Made
  <2> QED BY <1>3, <2>1, <2>2
<1>5. ShapeInv'
  <2>1. locks' \in [Dsns -> Nat] /\ \A d \in Dsns : locks'[d] \in 0 .. Len(waiting)
    <3>1. locks' = [d \in Dsns |-> 0] \/ locks' = locks
      BY DEF CloseLoop
    <3>2. 0 \in 0 .. Len(waiting)
      BY <1>1
    <3> QED BY <1>1, <3>1, <3>2
  <2>2. \A d \in Dsns : pools'[d] \in 0 .. Len(life)
    BY <1>1
  <2>3. closer'.todo \subseteq Dsns \X Made
    BY <1>3
  <2> QED BY <1>3, <1>4, <2>1, <2>2, <2>3 DEF PoolInv, ShapeInv
<1>6. StandInv' /\ PlaceInv'
  BY Stays
<1>7. OpeningInv'
  <2>1. \A c \in Callers : caller[c].pc = "opening" =>
           caller[c].pool \in Made /\ life'[caller[c].pool] = "opening"
    BY <1>4 DEF PoolInv, OpeningInv
  <2>2. \A d \in Dsns : pools'[d] # 0 => life'[pools'[d]] # "opening"
    <3>1. \A d \in Dsns : pools'[d] # 0 =>
             pools'[d] = pools[d] /\ pools[d] \in Made /\ life[pools[d]] # "opening"
      BY <1>1 DEF PoolInv, OpeningInv, Made
    <3> QED BY <1>4, <3>1
  <2>3. \A item \in closer'.todo : life'[item[2]] # "opening"
    <3>1. \A item \in closer'.todo : item[2] \in Made /\ life[item[2]] # "opening"
      BY <1>2, <1>3
    <3> QED BY <1>4, <3>1
  <2> QED BY <1>4, <2>1, <2>2, <2>3 DEF PoolInv, OpeningInv
<1> QED BY <1>5, <1>6, <1>7

\* What it does when it runs alone.
LEMMA LoopAlone ==
    ASSUME PoolInv, LockInv, RegistryInv, Quiet,
           NEW todo \in SUBSET (Dsns \X Made), CloseLoop(todo),
           \A item \in todo : pools'[item[1]] = item[2],
           \A d \in Dsns : pools'[d] = pools[d] \/ pools[d] \notin Made \/ life[pools[d]] # "open",
           UNCHANGED <<waiting, caller>>
    PROVE  AloneInv'
<1> DEFINE States == {"opening", "open", "closed"}
<1>1. life \in Seq(States) /\ Len(life) \in Nat /\ closer \in Closer
  BY DEF PoolInv, ShapeInv
<1>2. Quiet' /\ \A c \in Callers : caller'[c].pc = "idle"
  BY DEF Quiet
<1>3. \A item \in todo : item[2] \in Made /\ item[1] \in Dsns /\ item = <<item[1], item[2]>>
  OBVIOUS
<1>4. LockInv'
  <2>1. locks' = [d \in Dsns |-> 0] \/ locks' = locks
    BY DEF CloseLoop
  <2> QED BY <1>2, <2>1 DEF LockInv
<1>5. CASE closer'.pc = "idle" /\ life' = life
  <2>1. Made' = Made
    BY <1>5 DEF Made
  <2>2. ASSUME NEW p \in Made, life[p] = "open" PROVE \E d \in Dsns : pools'[d] = p
    <3>1. PICK d \in Dsns : pools[d] = p
      BY <2>2 DEF RegistryInv
    <3> QED BY <2>2, <3>1
  <2>3. RegistryInv'
    BY <1>2, <1>5, <2>1, <2>2 DEF RegistryInv
  <2>4. ClosingInv'
    BY <1>5 DEF ClosingInv
  <2> QED BY <1>4, <2>3, <2>4 DEF AloneInv
<1>6. ASSUME NEW item \in todo, life' = [life EXCEPT ![item[2]] = "closed"],
             closer' = [closer EXCEPT !.pc = "closing", !.now = item, !.todo = todo \ {item}]
      PROVE  AloneInv'
  <2>1. closer'.pc = "closing" /\ closer'.now = item /\ closer'.todo = todo \ {item}
    BY <1>1, <1>6 DEF Closer
  <2>2. /\ Len(life') = Len(life) /\ Made' = Made /\ life'[item[2]] = "closed"
        /\ \A p \in Made : p # item[2] => life'[p] = life[p]
    <3>1. item[2] \in 1 .. Len(life) /\ "closed" \in States
      BY <1>3 DEF Made
    <3>2. /\ Len(life') = Len(life)
          /\ \A p \in 1 .. Len(life) : life'[p] = IF p = item[2] THEN "closed" ELSE life[p]
      BY <1>1, <1>6, <3>1, ExceptSeq
    <3> QED BY <3>1, <3>2 DEF Made
  <2>3. ASSUME NEW p \in Made, life'[p] = "open" PROVE \E d \in Dsns : pools'[d] = p
    <3>1. life[p] = "open"
      BY <2>2, <2>3
    <3>2. PICK d \in Dsns : pools[d] = p
      BY <3>1 DEF RegistryInv
    <3> QED BY <3>1, <3>2
  <2>4. RegistryInv'
    BY <1>2, <2>2, <2>3 DEF RegistryInv
  <2>5. \A i \in todo \ {item} : pools'[i[1]] = i[2] /\ i[1] # item[1]
    <3> TAKE i \in todo \ {item}
    <3>1. pools'[i[1]] = i[2] /\ pools'[item[1]] = item[2] /\ i = <<i[1], i[2]>>
      BY <1>3
    <3> QED BY <1>3, <3>1
  <2>6. ClosingInv'
    BY <1>2, <1>3, <2>1, <2>2, <2>5 DEF ClosingInv
  <2> QED BY <1>4, <2>4, <2>6 DEF AloneInv
<1>7. CASE closer' = [closer EXCEPT !.pc = "idle", !.now = <<>>, !.todo = {}] /\ life' = life
  <2>1. closer'.pc = "idle"
    BY <1>1, <1>7 DEF Closer
  <2> QED BY <1>5, <1>7, <2>1
<1> QED BY <1>6, <1>7 DEF CloseLoop

\* The loop starts over what is registered.
LEMMA CloseStep == ASSUME PoolInv, ClosePools PROVE PoolInv'
<1> DEFINE todo == {<<d, pools[d]>> : d \in {e \in Dsns : pools[e] # 0}}
<1>1. /\ CloseLoop(todo) /\ UNCHANGED <<pools, waiting, caller, overlap>> /\ closes' = closes + 1
      /\ closes < MaxCloses
  BY DEF ClosePools
<1>2. overlap = FALSE => Quiet
  BY DEF ClosePools
<1>3. /\ \A d \in Dsns : pools[d] \in 0 .. Len(life) /\ (pools[d] # 0 => pools[d] \in Made)
      /\ pools \in [Dsns -> Nat] /\ closes \in 0 .. MaxCloses
  BY DEF PoolInv, ShapeInv, Made
<1>4. /\ todo \in SUBSET (Dsns \X Made)
      /\ \A item \in todo : life[item[2]] # "opening" /\ pools[item[1]] = item[2]
  BY <1>3 DEF PoolInv, OpeningInv
<1>5. closes' \in 0 .. MaxCloses
  BY <1>1, <1>3, PoolAssumption
<1> HIDE DEF todo
<1>6. ShapeInv' /\ StandInv' /\ PlaceInv' /\ OpeningInv'
  BY <1>1, <1>3, <1>4, <1>5, LoopShape
<1>7. overlap = FALSE => AloneInv'
  BY <1>1, <1>2, <1>4, LoopAlone DEF PoolInv, AloneInv
<1> QED BY <1>1, <1>6, <1>7 DEF PoolInv

\* A closed pool is forgotten, and the loop goes on or breaks off.
LEMMA ForgetStep == ASSUME PoolInv, Forget PROVE PoolInv'
<1> DEFINE e == closer.now[1]
<1>1. /\ closer.pc = "closing" /\ pools' = [pools EXCEPT ![e] = 0]
      /\ UNCHANGED <<waiting, caller, closes, overlap>>
  BY DEF Forget
<1>2. PICK todo \in {closer.todo, {}} : CloseLoop(todo)
  BY DEF Forget
<1>3. /\ pools \in [Dsns -> Nat] /\ closes \in 0 .. MaxCloses /\ e \in Dsns
      /\ todo \in SUBSET (Dsns \X Made) /\ todo \subseteq closer.todo
  BY <1>1 DEF PoolInv, ShapeInv
<1>4. /\ pools' \in [Dsns -> Nat] /\ pools'[e] = 0 /\ \A d \in Dsns \ {e} : pools'[d] = pools[d]
  BY <1>1, <1>3
<1>5. \A item \in todo : life[item[2]] # "opening"
  BY <1>3 DEF PoolInv, OpeningInv
<1> HIDE DEF e
<1>6. ShapeInv' /\ StandInv' /\ PlaceInv' /\ OpeningInv'
  BY <1>1, <1>2, <1>3, <1>4, <1>5, LoopShape
<1>7. ASSUME overlap = FALSE PROVE AloneInv'
  <2>1. LockInv /\ RegistryInv /\ ClosingInv
    BY <1>7 DEF PoolInv, AloneInv
  <2>2. /\ Quiet /\ life[pools[e]] = "closed"
        /\ \A item \in closer.todo : pools[item[1]] = item[2] /\ item[1] # e
    BY <1>1, <2>1 DEF ClosingInv, e
  <2>3. \A item \in todo : pools'[item[1]] = item[2]
    <3>1. \A item \in todo : item[1] \in Dsns \ {e} /\ pools[item[1]] = item[2]
      BY <1>3, <2>2
    <3> QED BY <1>4, <3>1
  <2>4. \A d \in Dsns : pools'[d] = pools[d] \/ pools[d] \notin Made \/ life[pools[d]] # "open"
    BY <1>4, <2>2
  <2> QED BY <1>1, <1>2, <1>3, <2>1, <2>2, <2>3, <2>4, LoopAlone
<1> QED BY <1>1, <1>6, <1>7 DEF PoolInv

-----------------------------------------------------------------------------
\* Nothing is registered and nobody calls.
LEMMA PoolInitInv == PoolInit => PoolInv
<1> SUFFICES ASSUME PoolInit PROVE PoolInv
  OBVIOUS
<1>1. Len(life) = 0 /\ Len(waiting) = 0 /\ Made = {} /\ Locks = {}
  BY DEF PoolInit, Made, Locks
<1>2. \A c \in Callers : caller[c] = Idle(0) /\ caller[c].pc = "idle" /\ caller[c] \in CallerState
  <2>1. 0 \in 0 .. MaxCalls
    BY PoolAssumption
  <2> QED BY <2>1, CallTypes DEF PoolInit
<1>3. closer \in Closer /\ closer.pc = "idle" /\ closer.todo = {}
  BY DEF PoolInit, Closer
<1>4. ShapeInv
  <2>1. /\ pools \in [Dsns -> Nat] /\ locks \in [Dsns -> Nat]
        /\ \A d \in Dsns : pools[d] = 0 /\ locks[d] = 0
    BY DEF PoolInit
  <2>2. caller \in [Callers -> CallerState]
    <3>1. caller = [c \in Callers |-> caller[c]]
      BY DEF PoolInit
    <3> QED BY <1>2, <3>1
  <2>3. /\ life \in Seq({"opening", "open", "closed"}) /\ waiting \in Seq(Seq(Callers))
        /\ closes \in 0 .. MaxCloses /\ overlap \in BOOLEAN
    BY PoolAssumption DEF PoolInit
  <2> QED BY <1>1, <1>2, <1>3, <2>1, <2>2, <2>3 DEF ShapeInv
<1>5. StandInv /\ PlaceInv
  BY <1>1, <1>2 DEF StandInv, PlaceInv
<1>6. OpeningInv
  BY <1>2, <1>3 DEF OpeningInv, PoolInit
<1>7. AloneInv
  BY <1>1, <1>2, <1>3 DEF AloneInv, LockInv, RegistryInv, ClosingInv, PoolInit
<1> QED BY <1>4, <1>5, <1>6, <1>7 DEF PoolInv

\* Every step keeps the invariant.
LEMMA PoolNextInv == PoolInv /\ [PoolNext]_poolVars => PoolInv'
<1> SUFFICES ASSUME PoolInv, [PoolNext]_poolVars PROVE PoolInv'
  OBVIOUS
<1>1. CASE UNCHANGED poolVars
  BY <1>1 DEF poolVars, PoolInv, ShapeInv, StandInv, PlaceInv, OpeningInv, AloneInv, LockInv,
     RegistryInv, ClosingInv, Usable, Quiet, Made, Locks
<1> QED BY <1>1, GetStep, AcquiredStep, OpenedStep, CloseStep, ForgetStep DEF PoolNext, Step

\* The invariant holds in every state of the registry.
LEMMA PoolAlways == PoolSpec => []PoolInv
  BY PoolInitInv, PoolNextInv, PTL DEF PoolSpec

\* The invariant says what the type of the registry says.
LEMMA PoolTyped == ASSUME PoolInv PROVE PoolTypeOK
<1>1. /\ \A d \in Dsns : pools[d] \in 0 .. Len(life) /\ locks[d] \in 0 .. Len(waiting)
      /\ life \in Seq({"opening", "open", "closed"}) /\ waiting \in Seq(Seq(Callers))
      /\ closes \in 0 .. MaxCloses /\ closer.todo \subseteq Dsns \X (1 .. Len(life))
      /\ caller \in [Callers -> CallerState] /\ closer \in Closer
  BY DEF PoolInv, ShapeInv, Made
<1>2. /\ closer.pc \in {"idle", "closing"}
      /\ \A c \in Callers : caller[c].pc \in {"idle", "waiting", "opening"}
                             /\ caller[c].calls \in 0 .. MaxCalls
  BY <1>1 DEF Closer, CallerState
<1>3. ASSUME NEW c \in Callers, caller[c].pc = "opening"
      PROVE  /\ life[caller[c].pool] = "opening"
             /\ waiting[caller[c].lock] # <<>> /\ Head(waiting[caller[c].lock]) = c
  <2> DEFINE w == waiting[caller[c].lock]
  <2>1. life[caller[c].pool] = "opening"
    BY <1>3 DEF PoolInv, OpeningInv
  <2>2. caller[c].lock \in Locks /\ w[1] = c /\ \E i \in 1 .. Len(w) : w[i] = c
    BY <1>3 DEF PoolInv, PlaceInv
  <2>3. w \in Seq(Callers)
    BY <1>1, <2>2 DEF Locks
  <2> HIDE DEF w
  <2>4. w # <<>> /\ Head(w) = c
    BY <2>2, <2>3
  <2> QED BY <2>1, <2>4 DEF w
<1> QED BY <1>1, <1>2, <1>3 DEF PoolTypeOK

\* A pool is only ever opened by the holder of its lock, at the head of the lock's
\* queue, however close_pools and get_pool overlap, for any number of DSNs, callers
\* and calls (get_pool: async with lock).
THEOREM PoolTypes == PoolSpec => []PoolTypeOK
  BY PoolTyped, PoolAlways, PTL

\* As long as close_pools runs alone, an open pool is a registered one, whichever
\* opens failed, timed out or were cancelled before (get_pool's docstring on orphans).
THEOREM NoPoolIsLost == PoolSpec => []NoOrphan
<1>1. ASSUME PoolInv PROVE NoOrphan
  <2>1. life \in Seq({"opening", "open", "closed"}) /\ overlap \in BOOLEAN
    BY <1>1 DEF PoolInv, ShapeInv
  <2>2. DOMAIN life = Made
    BY <2>1 DEF Made
  <2>3. overlap = FALSE => RegistryInv
    BY <1>1 DEF PoolInv, AloneInv
  <2>4. ~overlap => overlap = FALSE
    BY <2>1
  <2> QED BY <2>2, <2>3, <2>4 DEF NoOrphan, RegistryInv
<1> QED BY <1>1, PoolAlways, PTL

\* As long as close_pools runs alone, a DSN never has two pools that are open or
\* being opened: the check under the lock sees what the call before has registered
\* (get_pool's second look at _pools).
THEOREM OnePool == PoolSpec => []OnePoolPerDsn
<1>1. ASSUME PoolInv PROVE OnePoolPerDsn
  <2> SUFFICES ASSUME ~overlap, NEW d \in Dsns
               PROVE  LET opening == {c \in Callers : caller[c].pc = "opening" /\ caller[c].dsn = d}
                      IN  IF Usable(d) THEN opening = {} ELSE Cardinality(opening) <= 1
    BY DEF OnePoolPerDsn
  <2> DEFINE opening == {c \in Callers : caller[c].pc = "opening" /\ caller[c].dsn = d}
  <2>1. LockInv /\ RegistryInv
    <3>1. overlap = FALSE
      BY <1>1 DEF PoolInv, ShapeInv
    <3> QED BY <1>1, <3>1 DEF PoolInv, AloneInv
  <2>2. Usable(d) => opening = {}
    BY <2>1 DEF RegistryInv
  <2>3. Cardinality(opening) <= 1
    <3>1. \A b, c \in opening : b = c
      BY <1>1, <2>1, OneOpener
    <3>2. opening = {} \/ \E c \in opening : opening = {c}
      BY <3>1
    <3> HIDE DEF opening
    <3>3. Cardinality({}) = 0 /\ \A c : Cardinality({c}) = 1
      BY FS_EmptySet, FS_Singleton
    <3>4. CASE opening = {}
      BY <3>3, <3>4
    <3>5. CASE \E c \in opening : opening = {c}
      <4>1. PICK c \in opening : opening = {c}
        BY <3>5
      <4>2. Cardinality(opening) = Cardinality({c})
        BY <4>1
      <4>3. Cardinality({c}) = 1
        BY <3>3
      <4> QED BY <4>2, <4>3
    <3> QED BY <3>2, <3>4, <3>5
  <2> QED BY <2>2, <2>3
<1> QED BY <1>1, PoolAlways, PTL
=============================================================================
