---------------------------- MODULE DecayProofs ----------------------------
(* Proofs about the decay job (module Decay): its types, that a sweep with no *)
(* other beside it treats every row once, and that the table changes as       *)
(* module DecayAbstract promises.                                             *)
EXTENDS Decay, FiniteSetTheorems, TLAPS

Updates == UNION {[B -> Nat] : B \in SUBSET Rows}
Worker == [pc : Ended \union {"claim", "commit"}, run : Runs \union {NoRun},
           update : Updates, batches : 0 .. MaxBatches, seen : SUBSET Rows]

Sched == [up : BOOLEAN, due : {"none", "due"}]

TableInv ==
    /\ mem \in [Rows -> Row]
    /\ lock \in [Rows -> Workers \union {Writer, NoOne}]
    /\ sched \in Sched
    /\ writer \in [row : Rows \union {NoOne}, age : Ages]
    /\ handled \in [Runs -> SUBSET Rows]
    /\ crashes \in 0 .. MaxCrashes /\ writes \in 0 .. MaxWrites

\* A worker that runs has a run id, and claims no batch beyond the rail.
WorkerInv ==
    /\ worker \in [Workers -> Worker]
    /\ \A w \in Workers :
          /\ Active(w) => worker[w].run \in Runs
          /\ worker[w].pc = "commit" => worker[w].batches < MaxBatches

\* The rows a worker has locked are those of its open batch.
ClaimInv ==
    \A w \in Workers :
        /\ Batch(w) = {i \in Rows : lock[i] = w}
        /\ worker[w].pc = "commit" <=> Batch(w) # {}

\* Who holds a row's lock, and that a writer's lock was counted.
LockInv ==
    /\ \A i \in Rows : lock[i] = Writer => writer.row = i /\ writes > 0
    /\ writer.row # NoOne => lock[writer.row] = Writer

\* A claimed row is still what it was when it was claimed, but for its age.
Ready(i, run, weight) ==
    /\ mem[i].deleted = FALSE /\ mem[i].archived = FALSE /\ mem[i].run # run
    /\ \E at \in Ages : at <= mem[i].age /\ weight = DecayWeight(at, mem[i].count)

BatchInv ==
    \A w \in Workers : \A i \in Batch(w) : Ready(i, worker[w].run, worker[w].update[i])

\* The stamps are part of the history, and so is what a worker has counted.
HistoryInv ==
    /\ \A i \in Rows : mem[i].run \in Runs => i \in handled[mem[i].run]
    /\ \A w \in Workers : Active(w) => worker[w].seen \subseteq handled[worker[w].run]

\* While sweeps keep apart: one id is in use, its stamps are its history, and what
\* a drained sweep left is in the hands of a co-worker.
Left(i, run) ==
    \/ mem[i].deleted = TRUE \/ mem[i].archived = TRUE
    \/ i \in handled[run]
    \/ lock[i] \in Workers /\ worker[lock[i]].run = run

SoloInv ==
    /\ \A v, w \in Workers :
          worker[v].run \in Runs /\ worker[w].run \in Runs => worker[v].run = worker[w].run
    /\ \A w \in Workers : worker[w].run \in Runs =>
          \A i \in handled[worker[w].run] : mem[i].run = worker[w].run
    /\ \A w \in Workers :
          /\ worker[w].pc # "error"
          /\ worker[w].pc = "ok" /\ worker[w].run \in Runs /\ crashes = 0 /\ writes = 0
                => \A i \in Rows : Left(i, worker[w].run)

DecayInv ==
    /\ TableInv /\ WorkerInv /\ ClaimInv /\ LockInv /\ BatchInv /\ HistoryInv
    /\ Overlap = FALSE => SoloInv

-----------------------------------------------------------------------------
(* Operators. *)

\* A power of two counts the subsets of a finite set, so it is positive.
LEMMA PowerPositive ==
    ASSUME NEW n \in Nat
    PROVE  2 ^ n \in Nat \ {0}
<1>1. IsFiniteSet(1 .. n) /\ Cardinality(1 .. n) = n
  BY FS_Interval
<1>2. IsFiniteSet(SUBSET (1 .. n)) /\ Cardinality(SUBSET (1 .. n)) = 2 ^ n
  BY <1>1, FS_SUBSET
<1>3. SUBSET (1 .. n) # {}
  OBVIOUS
<1>4. Cardinality(SUBSET (1 .. n)) \in Nat /\ Cardinality(SUBSET (1 .. n)) # 0
  BY <1>2, <1>3, FS_CardinalityType, FS_EmptySet
<1> QED BY <1>2, <1>4

\* Weights are natural numbers.
LEMMA WeightType ==
    ASSUME NEW age \in Ages, NEW count \in Nat
    PROVE  DecayWeight(age, count) \in Nat
<1> DEFINE p == PeakWeight(count)
           h == 2 ^ Halvings(age, count)
<1>1. p \in Int /\ Floor \in Nat
  BY DecayConstants DEF PeakWeight, Lower, Unit
<1>2. HalfLife * (DampingReference + count) \in Nat \ {0}
  BY DecayConstants
<1>3. Halvings(age, count) \in Nat
  <2>1. age * DampingReference \in Nat
    BY DecayConstants DEF Ages
  <2> QED BY <1>2, <2>1 DEF Halvings
<1>4. h \in Nat \ {0}
  BY <1>3, PowerPositive
<1> HIDE DEF p, h
<1>5. p \div h \in Int
  BY <1>1, <1>4
<1> QED BY <1>1, <1>5 DEF DecayWeight, Higher, p, h

\* What the table's writers leave of a row is a row.
LEMMA RowTypes ==
    ASSUME NEW row \in Row
    PROVE  /\ Older(row.age) \in Ages /\ row.age <= Older(row.age)
           /\ [row EXCEPT !.age = Older(@)] \in Row
           /\ [row EXCEPT !.run = NoRun] \in Row
           /\ [row EXCEPT !.deleted = TRUE] \in Row
           /\ \A age \in Ages : Reinforced(row, age) \in Row
           /\ \A run \in Runs, weight \in Nat : Decayed(row, run, weight) \in Row
<1>1. Older(row.age) \in Ages /\ row.age <= Older(row.age)
  BY DecayConstants DEF Older, Lower, Ages, Row
<1>2. /\ [row EXCEPT !.age = Older(@)] \in Row
      /\ [row EXCEPT !.run = NoRun] \in Row
      /\ [row EXCEPT !.deleted = TRUE] \in Row
  BY <1>1 DEF Row
<1>3. ASSUME NEW age \in Ages PROVE Reinforced(row, age) \in Row
  <2>1. Lower(WeightMax, row.weight + WeightIncrement) \in Nat
    BY DecayConstants DEF Lower, Row
  <2>2. CASE row.deleted
    BY <2>2 DEF Reinforced
  <2>3. CASE ~row.deleted
    <3>1. Reinforced(row, age) = [row EXCEPT !.count = @ + 1, !.age = age,
                                            !.weight = Lower(WeightMax, @ + WeightIncrement)]
      BY <2>3 DEF Reinforced
    <3>2. row.count + 1 \in Nat
      BY DEF Row
    <3> HIDE DEF Lower
    <3> QED BY <2>1, <3>1, <3>2 DEF Row
  <2> QED BY <2>2, <2>3
<1>4. ASSUME NEW run \in Runs, NEW weight \in Nat PROVE Decayed(row, run, weight) \in Row
  <2>1. (row.archived \/ weight < ArchiveThreshold) \in BOOLEAN
    OBVIOUS
  <2> QED BY <2>1 DEF Decayed, Row
<1> QED BY <1>1, <1>2, <1>3, <1>4

\* The claim takes at least one row, and only rows that may be claimed.
LEMMA StalestTakes ==
    ASSUME NEW S \in SUBSET Rows, S # {}, NEW B \in Stalest(S)
    PROVE  B \subseteq S /\ B # {}
<1>1. IsFiniteSet(S)
  BY DecayConstants, FS_Subset
<1>2. Cardinality(S) \in Nat /\ Cardinality(S) # 0
  BY <1>1, FS_CardinalityType, FS_EmptySet
<1>3. Cardinality(B) # 0 /\ B \subseteq S
  BY <1>2, WorkerConstants DEF Stalest, Lower
<1> QED BY <1>3, FS_EmptySet

\* The type invariant is the first three parts of the inductive one.
LEMMA TypeParts ==
    ASSUME TableInv, WorkerInv, ClaimInv
    PROVE  TypeOK
<1>1. ASSUME NEW w \in Workers
      PROVE  /\ worker[w].pc \in Ended \union {"claim", "commit"}
             /\ worker[w].run \in Runs \union {NoRun}
             /\ worker[w].update \in [Batch(w) -> Nat]
             /\ worker[w].batches \in 0 .. MaxBatches
             /\ worker[w].seen \subseteq Rows
  <2>1. worker[w] \in Worker
    BY DEF WorkerInv
  <2>2. worker[w].update \in Updates
    BY <2>1 DEF Worker
  <2>3. worker[w].update \in [Batch(w) -> Nat]
    BY <2>2 DEF Updates, Batch
  <2> QED BY <2>1, <2>3 DEF Worker
<1>2. DOMAIN worker = Workers
  BY DEF WorkerInv
<1> QED BY <1>1, <1>2 DEF TypeOK, TableInv, ClaimInv, Sched

\* What workers start with and end with.
LEMMA WorkerTypes ==
    /\ NoBatch \in Updates /\ DOMAIN NoBatch = {} /\ Idle \in Worker
    /\ \A r \in Runs : Begun(r) \in Worker
    /\ \A w \in Workers, pc \in Ended :
          worker[w].run \in Runs \union {NoRun} => Over(w, pc) \in Worker
<1>1. NoBatch \in [{} -> Nat] /\ DOMAIN NoBatch = {}
  BY DEF NoBatch
<1>2. NoBatch \in Updates
  BY <1>1 DEF Updates
<1>3. 0 \in 0 .. MaxBatches
  BY WorkerConstants
<1> QED BY <1>1, <1>2, <1>3 DEF Idle, Worker, Ended, Begun, Over

\* The initial state satisfies the invariant.
LEMMA InitInv == Init => DecayInv
<1> SUFFICES ASSUME Init PROVE DecayInv
  OBVIOUS
<1>1. FreshRow \in Row
  BY DecayConstants DEF FreshRow, Row, Ages, Unit
<1>2. \A w \in Workers : worker[w] = Idle /\ Idle \in Worker /\ Batch(w) = {} /\ ~Active(w)
  BY WorkerTypes DEF Init, Batch, Idle, Active, Ended
<1>3. WorkerInv
  BY <1>2 DEF Init, WorkerInv, Idle
<1>4. TableInv
  <2>1. sched \in Sched /\ writer \in [row : Rows \union {NoOne}, age : Ages]
    BY DecayConstants DEF Init, Ages, Sched
  <2> QED BY <1>1, <2>1, WorkerConstants DEF Init, TableInv
<1>8. ClaimInv
  <2>1. \A w \in Workers : {i \in Rows : lock[i] = w} = {} /\ worker[w].pc = "idle"
    BY <1>2, WorkerConstants DEF Init, Idle
  <2> QED BY <1>2, <2>1 DEF ClaimInv
<1>5. LockInv /\ BatchInv
  BY <1>2, WorkerConstants DEF Init, LockInv, BatchInv
<1>6. HistoryInv
  BY <1>2, DecayConstants DEF Init, HistoryInv, FreshRow
<1>7. SoloInv
  BY <1>2, DecayConstants DEF Init, SoloInv, Idle
<1> QED BY <1>3, <1>4, <1>5, <1>6, <1>7, <1>8 DEF DecayInv
-----------------------------------------------------------------------------
(* Every step preserves the invariant. *)

\* Only the scheduler's own state, or the number of crashes, changes.
LEMMA QuietInv ==
    ASSUME DecayInv, UNCHANGED <<mem, lock, worker, writer, handled, writes>>,
           sched' \in Sched, crashes' \in 0 .. MaxCrashes, crashes' >= crashes
    PROVE  DecayInv'
<1>1. crashes \in Nat /\ (crashes' = 0 => crashes = 0)
  BY WorkerConstants DEF DecayInv, TableInv
<1>2. TableInv'
  BY DEF DecayInv, TableInv
<1>3. WorkerInv' /\ ClaimInv' /\ LockInv' /\ BatchInv' /\ HistoryInv'
  BY DEF DecayInv, WorkerInv, ClaimInv, LockInv, BatchInv, HistoryInv, Batch, Active, Ready
<1>4. Overlap = FALSE => SoloInv'
  BY <1>1 DEF DecayInv, SoloInv, Left
<1> QED BY <1>2, <1>3, <1>4 DEF DecayInv

\* A worker between batches, or not running, holds no lock.
LEMMA NoBatchNoLock ==
    ASSUME DecayInv, NEW w \in Workers, worker[w].pc # "commit"
    PROVE  Batch(w) = {} /\ \A i \in Rows : lock[i] # w
  BY DEF DecayInv, ClaimInv

\* A sweep under a new id. The id in use by nobody is forgotten everywhere.
LEMMA FreshInv ==
    ASSUME DecayInv, NEW w \in Workers, NEW r \in Runs, ~Active(w), Fresh(w, r),
           UNCHANGED <<lock, writer, crashes, writes>>, sched' \in Sched
    PROVE  DecayInv'
<1>1. \A v \in Workers : worker[v] \in Worker
  BY DEF DecayInv, WorkerInv
<1>2. /\ worker'[w] = Begun(r) /\ Begun(r) \in Worker
      /\ worker'[w].pc = "claim" /\ worker'[w].run = r /\ worker'[w].seen = {}
      /\ worker'[w].update = NoBatch /\ Batch(w)' = {}
  BY WorkerTypes DEF Fresh, Begun, Idle, Batch
<1>3. ASSUME NEW v \in Workers, v # w
      PROVE  /\ worker'[v] \in Worker /\ worker'[v].pc = worker[v].pc
             /\ worker'[v].update = worker[v].update /\ Batch(v)' = Batch(v)
             /\ worker'[v].seen = worker[v].seen /\ worker'[v].batches = worker[v].batches
             /\ worker'[v].run \in {worker[v].run, NoRun} \ {r}
             /\ Overlap = FALSE => worker'[v].run = NoRun
             /\ Active(v) => worker'[v].run = worker[v].run
  <2>1. worker'[v] = IF Overlap /\ worker[v].run # r THEN worker[v]
                     ELSE [worker[v] EXCEPT !.run = NoRun]
    BY <1>3 DEF Fresh
  <2>2. Active(v) => Overlap /\ worker[v].run # r
    BY DEF Fresh, ActiveRuns
  <2>3. CASE Overlap /\ worker[v].run # r
    BY <1>1, <2>1, <2>3 DEF Batch
  <2>4. CASE ~(Overlap /\ worker[v].run # r)
    BY <1>1, <2>1, <2>2, <2>4, DecayConstants DEF Batch, Worker
  <2> QED BY <2>3, <2>4
<1>4. ASSUME NEW i \in Rows
      PROVE  /\ mem'[i] \in Row /\ mem'[i].deleted = mem[i].deleted
             /\ mem'[i].archived = mem[i].archived /\ mem'[i].age = mem[i].age
             /\ mem'[i].count = mem[i].count
             /\ mem'[i].run = IF mem[i].run = r THEN NoRun ELSE mem[i].run
  <2>1. mem[i] \in Row
    BY DEF DecayInv, TableInv
  <2>2. mem'[i] = IF mem[i].run = r THEN [mem[i] EXCEPT !.run = NoRun] ELSE mem[i]
    BY DEF Fresh
  <2> QED BY <2>1, <2>2, RowTypes DEF Row
<1>5. /\ handled' \in [Runs -> SUBSET Rows] /\ handled'[r] = {}
      /\ \A q \in Runs \ {r} : handled'[q] = handled[q]
  BY DEF Fresh, DecayInv, TableInv
<1>6. TableInv'
  BY <1>4, <1>5 DEF Fresh, DecayInv, TableInv
<1>7. WorkerInv'
  <2>1. worker' \in [Workers -> Worker]
    BY <1>2, <1>3 DEF Fresh
  <2>2. \A v \in Workers : Active(v)' => worker'[v].run \in Runs
    BY <1>2, <1>3 DEF Active, DecayInv, WorkerInv
  <2>3. \A v \in Workers : worker'[v].pc = "commit" => worker'[v].batches < MaxBatches
    BY <1>2, <1>3 DEF DecayInv, WorkerInv
  <2> QED BY <2>1, <2>2, <2>3 DEF WorkerInv
<1>8. ClaimInv'
  <2>1. \A i \in Rows : lock[i] # w
    BY NoBatchNoLock DEF Active, Ended
  <2> SUFFICES ASSUME NEW v \in Workers
               PROVE  /\ Batch(v)' = {i \in Rows : lock[i] = v}
                      /\ worker'[v].pc = "commit" <=> Batch(v)' # {}
    BY DEF ClaimInv
  <2>2. CASE v = w
    BY <1>2, <2>1, <2>2
  <2>3. CASE v # w
    BY <1>3, <2>3 DEF ClaimInv, DecayInv
  <2> QED BY <2>2, <2>3
<1>9. LockInv'
  BY DEF LockInv, DecayInv
<1>10. BatchInv'
  <2> SUFFICES ASSUME NEW v \in Workers, NEW i \in Batch(v)'
               PROVE  Ready(i, worker[v].run, worker[v].update[i])'
    BY DEF BatchInv
  <2>1. v # w /\ i \in Batch(v)
    BY <1>2, <1>3
  <2>2. worker[v].pc = "commit" /\ i \in Rows
    BY <2>1 DEF DecayInv, ClaimInv
  <2>3. Active(v) /\ worker[v].run \in Runs
    BY <2>2 DEF DecayInv, WorkerInv, Active, Ended
  <2>4. Ready(i, worker[v].run, worker[v].update[i])
    BY <2>1 DEF DecayInv, BatchInv
  <2> QED BY <1>3, <1>4, <2>1, <2>2, <2>3, <2>4, DecayConstants DEF Ready
<1>11. HistoryInv'
  <2>1. \A i \in Rows : mem'[i].run \in Runs => i \in handled'[mem'[i].run]
    BY <1>4, <1>5, DecayConstants DEF DecayInv, HistoryInv
  <2>2. ASSUME NEW v \in Workers, Active(v)'
        PROVE  worker'[v].seen \subseteq handled'[worker'[v].run]
    <3>1. CASE v = w
      BY <1>2, <3>1
    <3>2. CASE v # w
      <4>1. Active(v)
        BY <1>3, <2>2, <3>2 DEF Active
      <4>2. worker[v].run \in Runs /\ worker'[v].run = worker[v].run /\ worker[v].run # r
        BY <1>3, <3>2, <4>1 DEF DecayInv, WorkerInv
      <4>3. worker[v].seen \subseteq handled[worker[v].run]
        BY <4>1 DEF DecayInv, HistoryInv
      <4>4. handled'[worker[v].run] = handled[worker[v].run] /\ worker'[v].seen = worker[v].seen
        BY <1>3, <1>5, <3>2, <4>1, <4>2
      <4> QED BY <4>2, <4>3, <4>4
    <3> QED BY <3>1, <3>2
  <2> QED BY <2>1, <2>2 DEF HistoryInv
<1>12. ASSUME Overlap = FALSE PROVE SoloInv'
  <2>1. \A v \in Workers : worker'[v].run \in Runs => v = w
    BY <1>3, <1>12, DecayConstants
  <2>2. \A v \in Workers : worker'[v].pc # "error"
    BY <1>2, <1>3, <1>12 DEF DecayInv, SoloInv
  <2> QED BY <1>2, <1>5, <2>1, <2>2 DEF SoloInv
<1> QED BY <1>6, <1>7, <1>8, <1>9, <1>10, <1>11, <1>12 DEF DecayInv

\* A co-worker of a sweep, or one more pass of it.
LEMMA RunJoinInv ==
    ASSUME DecayInv, NEW w \in Workers, NEW r \in Runs, RunJoin(w, r)
    PROVE  DecayInv'
<1>1. /\ worker'[w] = Begun(r) /\ Begun(r) \in Worker
      /\ worker'[w].pc = "claim" /\ worker'[w].run = r /\ worker'[w].seen = {}
      /\ worker'[w].update = NoBatch /\ Batch(w)' = {} /\ worker' \in [Workers -> Worker]
      /\ \A v \in Workers \ {w} : worker'[v] = worker[v] /\ Batch(v)' = Batch(v)
      /\ \A v \in Workers \ {w} : Active(v)' = Active(v)
  BY WorkerTypes DEF RunJoin, Begun, Idle, Batch, DecayInv, WorkerInv, Active
<1>2. UNCHANGED <<mem, lock, sched, writer, handled, crashes, writes>> /\ ~Active(w)
  BY DEF RunJoin
<1>3. TableInv' /\ LockInv'
  BY <1>2 DEF DecayInv, TableInv, LockInv
<1>4. WorkerInv'
  BY <1>1 DEF DecayInv, WorkerInv
<1>5. Batch(w) = {} /\ \A i \in Rows : lock[i] # w
  BY <1>2, NoBatchNoLock DEF Active, Ended
<1>6. ClaimInv'
  <2> SUFFICES ASSUME NEW v \in Workers
               PROVE  /\ Batch(v)' = {i \in Rows : lock'[i] = v}
                      /\ worker'[v].pc = "commit" <=> Batch(v)' # {}
    BY DEF ClaimInv
  <2>2. CASE v = w
    BY <1>1, <1>2, <1>5, <2>2
  <2>3. CASE v # w
    BY <1>1, <1>2, <2>3 DEF ClaimInv, DecayInv
  <2> QED BY <2>2, <2>3
<1>7. BatchInv'
  BY <1>1, <1>2 DEF DecayInv, BatchInv, Ready
<1>8. HistoryInv'
  BY <1>1, <1>2 DEF DecayInv, HistoryInv
<1>9. ASSUME Overlap = FALSE PROVE SoloInv'
  <2>1. PICK u \in Workers : worker[u].run = r
    BY DEF RunJoin
  <2>2. \A v \in Workers : worker'[v].run \in Runs => worker'[v].run = r
    BY <1>1, <1>9, <2>1 DEF DecayInv, SoloInv
  <2>3. \A i \in handled[r] : mem[i].run = r
    BY <1>9, <2>1 DEF DecayInv, SoloInv
  <2>4. ASSUME NEW v \in Workers
        PROVE  /\ worker'[v].pc # "error"
               /\ worker'[v].pc = "ok" /\ worker'[v].run \in Runs /\ crashes' = 0 /\ writes' = 0
                     => \A i \in Rows : Left(i, worker[v].run)'
    <3>1. CASE v = w
      BY <1>1, <3>1
    <3>2. CASE v # w
      BY <1>1, <1>2, <1>5, <1>9, <3>2 DEF DecayInv, SoloInv, Left
    <3> QED BY <3>1, <3>2
  <2> QED BY <1>2, <2>2, <2>3, <2>4 DEF SoloInv
<1> QED BY <1>3, <1>4, <1>6, <1>7, <1>8, <1>9 DEF DecayInv

\* The claim locks rows that nobody holds and computes what they decay to.
LEMMA ClaimStepInv ==
    ASSUME DecayInv, NEW w \in Workers, Claim(w)
    PROVE  DecayInv'
<1>1. PICK B \in Stalest(Claimable(w)) :
          /\ lock' = [i \in Rows |-> IF i \in B THEN w ELSE lock[i]]
          /\ worker' = [worker EXCEPT
                 ![w].pc = "commit",
                 ![w].update = [i \in B |-> DecayWeight(mem[i].age, mem[i].count)]]
  BY DEF Claim
<1>2. /\ UNCHANGED <<mem, sched, writer, handled, crashes, writes>>
      /\ worker[w].pc = "claim" /\ worker[w].batches < MaxBatches
  BY DEF Claim
<1>3. /\ B \subseteq Rows /\ B # {}
      /\ \A i \in B : Eligible(mem[i], worker[w].run) /\ lock[i] = NoOne
  <2>1. Claimable(w) \in SUBSET Rows /\ Claimable(w) # {}
    BY DEF Claim, Claimable
  <2>2. B \subseteq Claimable(w) /\ B # {}
    BY <2>1, StalestTakes
  <2> QED BY <2>2 DEF Claimable
<1> DEFINE u == [i \in B |-> DecayWeight(mem[i].age, mem[i].count)]
<1>4. \A i \in Rows : mem[i] \in Row /\ mem[i].age \in Ages /\ mem[i].count \in Nat
  <2>1. \A i \in Rows : mem[i] \in Row
    BY DEF DecayInv, TableInv
  <2> QED BY <2>1 DEF Row
<1>5. u \in Updates
  <2>1. u \in [B -> Nat]
    BY <1>3, <1>4, WeightType
  <2> QED BY <1>3, <2>1 DEF Updates
<1>6. DOMAIN u = B /\ \A i \in B : u[i] = DecayWeight(mem[i].age, mem[i].count)
  OBVIOUS
<1> HIDE DEF u
<1>7. worker' = [worker EXCEPT ![w].pc = "commit", ![w].update = u]
  BY <1>1 DEF u
<1>8. /\ worker' \in [Workers -> Worker]
      /\ worker'[w].pc = "commit" /\ worker'[w].update = u /\ worker'[w].run = worker[w].run
      /\ worker'[w].seen = worker[w].seen /\ worker'[w].batches = worker[w].batches
      /\ \A v \in Workers \ {w} : worker'[v] = worker[v]
  BY <1>5, <1>7 DEF DecayInv, WorkerInv, Worker
<1>9. /\ Batch(w)' = B /\ \A v \in Workers \ {w} : Batch(v)' = Batch(v)
      /\ \A v \in Workers : Active(v)' = Active(v)
  BY <1>2, <1>6, <1>8 DEF Batch, Active, Ended
<1>10. \A i \in Rows : lock[i] # w
  BY <1>2, NoBatchNoLock
<1>11. TableInv'
  BY <1>1, <1>2 DEF DecayInv, TableInv
<1>12. WorkerInv'
  BY <1>2, <1>8, <1>9 DEF DecayInv, WorkerInv
<1>13. ClaimInv'
  <2> SUFFICES ASSUME NEW v \in Workers
               PROVE  /\ Batch(v)' = {i \in Rows : lock'[i] = v}
                      /\ worker'[v].pc = "commit" <=> Batch(v)' # {}
    BY DEF ClaimInv
  <2>1. \A i \in Rows : lock'[i] = IF i \in B THEN w ELSE lock[i]
    BY <1>1
  <2>2. CASE v = w
    <3>1. {i \in Rows : lock'[i] = w} = B
      BY <1>3, <1>10, <2>1
    <3> QED BY <1>3, <1>8, <1>9, <2>2, <3>1
  <2>3. CASE v # w
    <3>1. {i \in Rows : lock'[i] = v} = {i \in Rows : lock[i] = v}
      BY <1>3, <2>1, <2>3, WorkerConstants
    <3> QED BY <1>8, <1>9, <2>3, <3>1 DEF ClaimInv, DecayInv
  <2> QED BY <2>2, <2>3
<1>14. LockInv'
  BY <1>1, <1>2, <1>3, WorkerConstants DEF DecayInv, LockInv, TableInv
<1>15. BatchInv'
  <2> SUFFICES ASSUME NEW v \in Workers, NEW i \in Batch(v)'
               PROVE  Ready(i, worker[v].run, worker[v].update[i])'
    BY DEF BatchInv
  <2>1. CASE v = w
    <3>1. i \in B /\ i \in Rows /\ mem[i].age <= mem[i].age
      BY <1>3, <1>4, <1>9, <2>1 DEF Ages
    <3>2. mem[i].deleted = FALSE /\ mem[i].archived = FALSE /\ mem[i].run # worker[w].run
      BY <1>3, <1>4, <3>1 DEF Eligible, Row
    <3> QED BY <1>2, <1>4, <1>6, <1>8, <2>1, <3>1, <3>2 DEF Ready
  <2>2. CASE v # w
    BY <1>2, <1>8, <1>9, <2>2 DEF DecayInv, BatchInv, Ready
  <2> QED BY <2>1, <2>2
<1>16. HistoryInv'
  BY <1>2, <1>8, <1>9 DEF DecayInv, HistoryInv
<1>17. ASSUME Overlap = FALSE PROVE SoloInv'
  <2>1. \A v \in Workers : worker'[v].run = worker[v].run
    BY <1>8
  <2>2. \A v \in Workers : worker'[v].pc = "ok" => v # w
    BY <1>8
  <2>3. ASSUME NEW i \in Rows, NEW q, Left(i, q) PROVE Left(i, q)'
    <3>1. lock[i] \in Workers => lock'[i] = lock[i]
      BY <1>1, <1>3, WorkerConstants
    <3> QED BY <1>2, <2>1, <2>3, <3>1 DEF Left
  <2> QED BY <1>2, <1>8, <1>17, <2>1, <2>2, <2>3 DEF DecayInv, SoloInv
<1> QED BY <1>11, <1>12, <1>13, <1>14, <1>15, <1>16, <1>17 DEF DecayInv

\* A worker that ends between two batches leaves the table alone; one that drained
\* it left every row it could not claim to a co-worker.
LEMMA EndInv ==
    ASSUME DecayInv, NEW w \in Workers, Drained(w) \/ HitRail(w)
    PROVE  DecayInv'
<1>1. PICK pc \in {"ok", "railed"} :
          worker' = [worker EXCEPT ![w] = Over(w, pc)] /\ (pc = "ok" => Drained(w))
  BY DEF Drained, HitRail
<1>2. UNCHANGED <<mem, lock, sched, writer, handled, crashes, writes>> /\ worker[w].pc = "claim"
  BY DEF Drained, HitRail
<1>3. /\ worker'[w] = Over(w, pc) /\ Over(w, pc) \in Worker /\ worker[w] \in Worker
      /\ worker' \in [Workers -> Worker]
      /\ \A v \in Workers \ {w} : worker'[v] = worker[v]
  <2>1. worker[w] \in Worker /\ worker \in [Workers -> Worker]
    BY DEF DecayInv, WorkerInv
  <2>2. Over(w, pc) \in Worker
    BY <2>1, WorkerTypes DEF Worker, Ended
  <2> QED BY <1>1, <2>1, <2>2
<1>4. /\ worker'[w].pc = pc /\ worker'[w].run = worker[w].run /\ worker'[w].update = NoBatch
      /\ Batch(w)' = {} /\ ~Active(w)'
      /\ \A v \in Workers \ {w} : Batch(v)' = Batch(v) /\ Active(v)' = Active(v)
  BY <1>3, WorkerTypes DEF Over, Idle, Batch, Active, Ended
<1>5. Batch(w) = {} /\ \A i \in Rows : lock[i] # w
  BY <1>2, NoBatchNoLock
<1>6. TableInv' /\ LockInv'
  BY <1>2 DEF DecayInv, TableInv, LockInv
<1>7. WorkerInv'
  BY <1>3, <1>4 DEF DecayInv, WorkerInv
<1>8. ClaimInv'
  <2> SUFFICES ASSUME NEW v \in Workers
               PROVE  /\ Batch(v)' = {i \in Rows : lock'[i] = v}
                      /\ worker'[v].pc = "commit" <=> Batch(v)' # {}
    BY DEF ClaimInv
  <2>2. CASE v = w
    BY <1>2, <1>4, <1>5, <2>2
  <2>3. CASE v # w
    BY <1>2, <1>3, <1>4, <2>3 DEF ClaimInv, DecayInv
  <2> QED BY <2>2, <2>3
<1>9. BatchInv' /\ HistoryInv'
  BY <1>2, <1>3, <1>4 DEF DecayInv, BatchInv, HistoryInv, Ready
<1>10. ASSUME Overlap = FALSE PROVE SoloInv'
  <2>1. \A v \in Workers : worker'[v].run = worker[v].run
    BY <1>3, <1>4
  <2>2. ASSUME NEW i \in Rows, NEW q, Left(i, q) PROVE Left(i, q)'
    BY <1>2, <2>1, <2>2 DEF Left
  <2>3. ASSUME pc = "ok", writes = 0, NEW i \in Rows PROVE Left(i, worker[w].run)
    <3>1. Drained(w) /\ worker[w].run \in Runs
      <4>1. Active(w)
        BY <1>2 DEF Active, Ended
      <4>2. Drained(w)
        BY <1>1, <2>3
      <4> QED BY <4>1, <4>2 DEF DecayInv, WorkerInv
    <3>2. mem[i] \in Row /\ lock[i] \in Workers \union {Writer, NoOne}
      BY DEF DecayInv, TableInv
    <3>3. CASE ~Eligible(mem[i], worker[w].run)
      <4>1. mem[i].deleted = TRUE \/ mem[i].archived = TRUE \/ mem[i].run = worker[w].run
        BY <3>2, <3>3 DEF Eligible, Row
      <4> QED BY <3>1, <4>1 DEF Left, DecayInv, HistoryInv
    <3>4. CASE lock[i] # NoOne
      <4>1. lock[i] # Writer
        BY <2>3 DEF DecayInv, LockInv
      <4>2. lock[i] \in Workers /\ i \in Batch(lock[i])
        BY <3>2, <3>4, <4>1 DEF DecayInv, ClaimInv
      <4>3. worker[lock[i]].pc = "commit"
        BY <4>2 DEF DecayInv, ClaimInv
      <4>4. worker[lock[i]].run \in Runs
        BY <4>2, <4>3 DEF DecayInv, WorkerInv, Active, Ended
      <4>5. worker[lock[i]].run = worker[w].run
        BY <1>10, <3>1, <4>2, <4>4 DEF DecayInv, SoloInv
      <4> QED BY <4>2, <4>5 DEF Left
    <3> QED BY <3>1, <3>3, <3>4 DEF Drained, Claimable
  <2>4. ASSUME NEW v \in Workers
        PROVE  /\ worker'[v].pc # "error"
               /\ worker'[v].pc = "ok" /\ worker'[v].run \in Runs /\ crashes' = 0 /\ writes' = 0
                     => \A i \in Rows : Left(i, worker[v].run)'
    <3>1. CASE v = w
      <4>1. worker'[v].pc = pc /\ pc # "error" /\ writes' = writes /\ worker'[v].run = worker[w].run
        BY <1>2, <1>4, <3>1
      <4>2. ASSUME pc = "ok", writes = 0, NEW i \in Rows PROVE Left(i, worker[v].run)'
        <5>1. Left(i, worker[w].run)
          BY <2>3, <4>2
        <5> QED BY <1>2, <2>1, <3>1, <5>1 DEF Left
      <4> QED BY <4>1, <4>2
    <3>2. CASE v # w
      <4>1. worker'[v] = worker[v]
        BY <1>3, <3>2
      <4>2. ASSUME NEW i \in Rows, Left(i, worker[v].run) PROVE Left(i, worker[v].run)'
        BY <1>2, <2>1, <4>2 DEF Left
      <4> QED BY <1>2, <1>10, <4>1, <4>2 DEF DecayInv, SoloInv
    <3> QED BY <3>1, <3>2
  <2> QED BY <1>2, <1>10, <2>1, <2>4 DEF DecayInv, SoloInv
<1> QED BY <1>6, <1>7, <1>8, <1>9, <1>10 DEF DecayInv

\* Locks given back by a worker.
LEMMA Released ==
    ASSUME DecayInv, NEW w \in Workers, Release(w)
    PROVE  /\ lock' \in [Rows -> Workers \union {Writer, NoOne}]
           /\ \A i \in Rows : lock'[i] = IF i \in Batch(w) THEN NoOne ELSE lock[i]
           /\ \A i \in Rows : lock'[i] # w
           /\ \A v \in Workers \ {w} : {i \in Rows : lock'[i] = v} = Batch(v)
           /\ \A i \in Rows : (lock'[i] = Writer) = (lock[i] = Writer)
<1>1. lock \in [Rows -> Workers \union {Writer, NoOne}] /\ \A i \in Rows : i \in Batch(w) <=> lock[i] = w
  BY DEF DecayInv, TableInv, ClaimInv
<1>2. \A i \in Rows : lock'[i] = IF lock[i] = w THEN NoOne ELSE lock[i]
  BY DEF Release
<1>3. \A v \in Workers : Batch(v) = {i \in Rows : lock[i] = v}
  BY DEF DecayInv, ClaimInv
<1>4. NoOne \notin Workers /\ Writer \notin Workers /\ NoOne # Writer
  BY WorkerConstants
<1>5. ASSUME NEW v \in Workers, v # w PROVE {i \in Rows : lock'[i] = v} = Batch(v)
  BY <1>2, <1>3, <1>4, <1>5
<1>6. lock' \in [Rows -> Workers \union {Writer, NoOne}]
  BY <1>1 DEF Release
<1> QED BY <1>1, <1>2, <1>4, <1>5, <1>6

\* A worker that ends, whatever the reason, with its locks given back.
LEMMA OverInv ==
    ASSUME DecayInv, NEW w \in Workers, NEW pc \in Ended, Release(w),
           worker' = [worker EXCEPT ![w] = Over(w, pc)]
    PROVE  /\ worker' \in [Workers -> Worker] /\ ClaimInv'
           /\ worker'[w].pc = pc /\ worker'[w].run = worker[w].run /\ Batch(w)' = {} /\ ~Active(w)'
           /\ \A v \in Workers \ {w} : worker'[v] = worker[v] /\ Batch(v)' = Batch(v)
<1>1. worker[w] \in Worker /\ worker \in [Workers -> Worker]
  BY DEF DecayInv, WorkerInv
<1>2. Over(w, pc) \in Worker
  BY <1>1, WorkerTypes DEF Worker
<1>3. /\ worker'[w] = Over(w, pc) /\ worker' \in [Workers -> Worker]
      /\ \A v \in Workers \ {w} : worker'[v] = worker[v]
  BY <1>1, <1>2
<1>4. worker'[w].pc = pc /\ worker'[w].run = worker[w].run /\ worker'[w].update = NoBatch
  BY <1>3 DEF Over, Idle
<1>5. Batch(w)' = {} /\ ~Active(w)' /\ \A v \in Workers \ {w} : Batch(v)' = Batch(v)
  BY <1>3, <1>4, WorkerTypes DEF Batch, Active
<1>6. ClaimInv'
  <2>1. pc # "commit"
    BY DEF Ended
  <2>2. /\ Batch(w)' = {i \in Rows : lock'[i] = w}
        /\ worker'[w].pc = "commit" <=> Batch(w)' # {}
    <3>1. {i \in Rows : lock'[i] = w} = {}
      BY Released
    <3> QED BY <1>4, <1>5, <2>1, <3>1
  <2>3. ASSUME NEW v \in Workers \ {w}
        PROVE  /\ Batch(v)' = {i \in Rows : lock'[i] = v}
               /\ worker'[v].pc = "commit" <=> Batch(v)' # {}
    <3>1. {i \in Rows : lock'[i] = v} = Batch(v) /\ Batch(v)' = Batch(v)
      BY <1>5, <2>3, Released
    <3>2. worker'[v] = worker[v] /\ (worker[v].pc = "commit" <=> Batch(v) # {})
      BY <1>3, <2>3 DEF DecayInv, ClaimInv
    <3> QED BY <3>1, <3>2
  <2> QED BY <2>2, <2>3 DEF ClaimInv
<1> QED BY <1>3, <1>4, <1>5, <1>6

\* What a commit leaves of the rows, and that they were all due.
LEMMA CommitRows ==
    ASSUME DecayInv, NEW w \in Workers, Commit(w)
    PROVE  /\ worker[w].run \in Runs /\ Batch(w) \subseteq Rows /\ Batch(w) # {}
           /\ \A i \in Rows \ Batch(w) : mem'[i] = mem[i]
           /\ \A i \in Batch(w) :
                 /\ mem'[i] = Decayed(mem[i], worker[w].run, worker[w].update[i])
                 /\ mem'[i] \in Row /\ mem'[i].run = worker[w].run
                 /\ Ready(i, worker[w].run, worker[w].update[i])
           /\ mem' \in [Rows -> Row]
           /\ handled' \in [Runs -> SUBSET Rows]
           /\ handled'[worker[w].run] = handled[worker[w].run] \union Batch(w)
           /\ \A q \in Runs \ {worker[w].run} : handled'[q] = handled[q]
<1>1. worker[w].pc = "commit"
  BY DEF Commit
<1>2. worker[w].run \in Runs /\ Batch(w) \subseteq Rows /\ Batch(w) # {}
  BY <1>1 DEF DecayInv, WorkerInv, ClaimInv, Active, Ended
<1>3. \A i \in Rows : mem[i] \in Row
  BY DEF DecayInv, TableInv
<1>4. \A i \in Rows : mem'[i] = IF i \in Batch(w) THEN Decayed(mem[i], worker[w].run, worker[w].update[i])
                                ELSE mem[i]
  BY DEF Commit
<1>5. worker[w].update \in [Batch(w) -> Nat]
  <2>1. TypeOK
    BY TypeParts DEF DecayInv
  <2> QED BY <2>1 DEF TypeOK
<1>6. ASSUME NEW i \in Batch(w)
      PROVE  /\ mem'[i] = Decayed(mem[i], worker[w].run, worker[w].update[i])
             /\ mem'[i] \in Row /\ mem'[i].run = worker[w].run
             /\ Ready(i, worker[w].run, worker[w].update[i])
  <2>1. i \in Rows /\ worker[w].update[i] \in Nat /\ mem[i] \in Row
    BY <1>2, <1>3, <1>5
  <2>2. mem'[i] = Decayed(mem[i], worker[w].run, worker[w].update[i])
    BY <1>4, <2>1
  <2>3. mem'[i] \in Row
    BY <1>2, <2>1, <2>2, RowTypes
  <2>4. mem'[i].run = worker[w].run
    BY <2>1, <2>2 DEF Decayed, Row
  <2>5. Ready(i, worker[w].run, worker[w].update[i])
    BY DEF DecayInv, BatchInv
  <2> QED BY <2>2, <2>3, <2>4, <2>5
<1>7. mem' \in [Rows -> Row]
  <2>1. \A i \in Rows : mem'[i] \in Row
    BY <1>3, <1>4, <1>6
  <2>2. mem' = [i \in Rows |-> mem'[i]]
    BY DEF Commit
  <2> QED BY <2>1, <2>2
<1>8. /\ handled' \in [Runs -> SUBSET Rows]
      /\ handled'[worker[w].run] = handled[worker[w].run] \union Batch(w)
      /\ \A q \in Runs \ {worker[w].run} : handled'[q] = handled[q]
  <2>1. handled' = [handled EXCEPT ![worker[w].run] = @ \union Batch(w)]
    BY DEF Commit
  <2>2. handled \in [Runs -> SUBSET Rows]
    BY DEF DecayInv, TableInv
  <2> QED BY <1>2, <2>1, <2>2
<1> QED BY <1>2, <1>4, <1>6, <1>7, <1>8

\* Without another sweep's stamps a worker never meets a row again.
LEMMA NeverRepeats ==
    ASSUME DecayInv, NEW w \in Workers, worker[w].pc = "commit", Overlap = FALSE
    PROVE  ~Repeats(w) /\ Batch(w) \intersect handled[worker[w].run] = {}
<1>1. Active(w) /\ worker[w].run \in Runs
  BY DEF DecayInv, WorkerInv, Active, Ended
<1>2. \A i \in Batch(w) : mem[i].run # worker[w].run
  BY DEF DecayInv, BatchInv, Ready
<1>3. \A i \in handled[worker[w].run] : mem[i].run = worker[w].run
  BY <1>1 DEF DecayInv, SoloInv
<1>4. worker[w].seen \subseteq handled[worker[w].run]
  BY <1>1 DEF DecayInv, HistoryInv
<1> QED BY <1>2, <1>3, <1>4 DEF Repeats

\* A batch becomes visible: stamp, weight, archive mark and history together.
LEMMA CommitInv ==
    ASSUME DecayInv, NEW w \in Workers, Commit(w)
    PROVE  DecayInv'
<1> DEFINE r == worker[w].run
           going == Counted(w)
<1>1. /\ worker[w].pc = "commit" /\ Release(w) /\ UNCHANGED <<sched, writer, crashes, writes>>
      /\ worker' = [worker EXCEPT ![w] = IF Repeats(w) THEN Over(w, "error") ELSE going]
  BY DEF Commit
<1>2. worker \in [Workers -> Worker] /\ worker[w] \in Worker /\ worker[w].batches < MaxBatches
  BY <1>1 DEF DecayInv, WorkerInv
<1>3. /\ worker' \in [Workers -> Worker] /\ ClaimInv'
      /\ worker'[w].run = r /\ Batch(w)' = {}
      /\ worker'[w].pc \in {"claim", "error"} /\ (worker'[w].pc = "error" <=> Repeats(w))
      /\ Active(w)' => worker'[w].seen = worker[w].seen \union Batch(w)
      /\ \A v \in Workers \ {w} : worker'[v] = worker[v] /\ Batch(v)' = Batch(v)
  <2>1. CASE Repeats(w)
    <3>1. worker' = [worker EXCEPT ![w] = Over(w, "error")]
      BY <1>1, <2>1
    <3> QED BY <1>1, <2>1, <3>1, OverInv DEF Ended
  <2>2. CASE ~Repeats(w)
    <3>1. going \in Worker /\ going.pc = "claim" /\ going.run = r /\ going.update = NoBatch
          /\ going.seen = worker[w].seen \union Batch(w)
      <4>1. worker[w].batches + 1 \in 0 .. MaxBatches
        BY <1>2, WorkerConstants DEF Worker
      <4>2. worker[w].seen \union Batch(w) \in SUBSET Rows
        BY <1>2, CommitRows DEF Worker
      <4> QED BY <1>2, <4>1, <4>2, WorkerTypes DEF Worker, Counted
    <3> HIDE DEF going
    <3>2. /\ worker' \in [Workers -> Worker] /\ worker'[w] = going
          /\ \A v \in Workers \ {w} : worker'[v] = worker[v]
      BY <1>1, <1>2, <2>2, <3>1
    <3>3. Batch(w)' = {} /\ \A v \in Workers \ {w} : Batch(v)' = Batch(v)
      BY <3>1, <3>2, WorkerTypes DEF Batch
    <3>4. ClaimInv'
      <4>2. ASSUME NEW v \in Workers
            PROVE  /\ Batch(v)' = {i \in Rows : lock'[i] = v}
                   /\ worker'[v].pc = "commit" <=> Batch(v)' # {}
        <5>1. CASE v = w
          <6>1. \A i \in Rows : lock'[i] # w
            BY <1>1, Released
          <6> QED BY <3>1, <3>2, <3>3, <5>1, <6>1
        <5>2. CASE v # w
          <6>1. {i \in Rows : lock'[i] = v} = Batch(v)
            BY <1>1, <5>2, Released
          <6>2. worker[v].pc = "commit" <=> Batch(v) # {}
            BY DEF DecayInv, ClaimInv
          <6>3. Batch(v)' = Batch(v) /\ worker'[v].pc = worker[v].pc
            BY <3>2, <3>3, <5>2
          <6> QED BY <6>1, <6>2, <6>3
        <5> QED BY <5>1, <5>2
      <4> QED BY <4>2 DEF ClaimInv
    <3> QED BY <2>2, <3>1, <3>2, <3>3, <3>4
  <2> QED BY <2>1, <2>2
<1>4. r \in Runs /\ Batch(w) \subseteq Rows
  BY CommitRows
<1> HIDE DEF r, going
<1>5. \A v \in Workers \ {w} : Active(v)' = Active(v)
  BY <1>3 DEF Active
<1>6. TableInv'
  BY <1>1, CommitRows, Released DEF DecayInv, TableInv
<1>7. WorkerInv'
  <2>1. worker'[w].pc # "commit"
    BY <1>3
  <2> QED BY <1>3, <1>4, <1>5, <2>1 DEF DecayInv, WorkerInv
<1>8. LockInv'
  <2>1. \A i \in Rows : lock'[i] = Writer <=> lock[i] = Writer
    BY <1>1, Released
  <2>2. writer.row \in Rows \union {NoOne}
    BY DEF DecayInv, TableInv
  <2> QED BY <1>1, <2>1, <2>2 DEF DecayInv, LockInv
<1>9. BatchInv'
  <2> SUFFICES ASSUME NEW v \in Workers, NEW i \in Batch(v)'
               PROVE  Ready(i, worker[v].run, worker[v].update[i])'
    BY DEF BatchInv
  <2>1. v # w /\ i \in Batch(v) /\ worker'[v] = worker[v]
    BY <1>3
  <2>2. i \in Rows \ Batch(w)
    BY <2>1 DEF DecayInv, ClaimInv
  <2>3. mem'[i] = mem[i]
    BY <2>2, CommitRows
  <2> QED BY <2>1, <2>3 DEF DecayInv, BatchInv, Ready
<1>10. \A q \in Runs : handled[q] \subseteq handled'[q]
  BY CommitRows DEF r
<1>11. HistoryInv'
  <2>1. ASSUME NEW i \in Rows, mem'[i].run \in Runs PROVE i \in handled'[mem'[i].run]
    <3>1. CASE i \in Batch(w)
      BY <3>1, CommitRows
    <3>2. CASE i \notin Batch(w)
      <4>1. mem'[i] = mem[i]
        BY <3>2, CommitRows
      <4> QED BY <1>10, <2>1, <4>1 DEF DecayInv, HistoryInv
    <3> QED BY <3>1, <3>2
  <2>2. ASSUME NEW v \in Workers, Active(v)'
        PROVE  worker'[v].seen \subseteq handled'[worker'[v].run]
    <3>1. CASE v = w
      <4>1. worker[w].seen \subseteq handled[r]
        BY <1>1 DEF DecayInv, HistoryInv, Active, Ended, r
      <4>2. worker'[w].seen = worker[w].seen \union Batch(w) /\ worker'[w].run = r
        BY <1>3, <2>2, <3>1
      <4>3. handled'[r] = handled[r] \union Batch(w)
        BY CommitRows DEF r
      <4> QED BY <3>1, <4>1, <4>2, <4>3
    <3>2. CASE v # w
      <4>1. Active(v) /\ worker'[v] = worker[v]
        BY <1>3, <1>5, <2>2, <3>2
      <4>2. worker[v].seen \subseteq handled[worker[v].run] /\ worker[v].run \in Runs
        BY <4>1 DEF DecayInv, HistoryInv, WorkerInv
      <4> QED BY <1>10, <4>1, <4>2
    <3> QED BY <3>1, <3>2
  <2> QED BY <2>1, <2>2 DEF HistoryInv
<1>12. ASSUME Overlap = FALSE PROVE SoloInv'
  <2>1. \A v \in Workers : worker'[v].run = worker[v].run
    BY <1>3 DEF r
  <2>2. \A v \in Workers : worker[v].run \in Runs => worker[v].run = r
    BY <1>4, <1>12 DEF DecayInv, SoloInv, r
  <2>3. \A i \in handled'[r] : mem'[i].run = r
    <3>1. \A i \in handled[r] : i \in Rows /\ mem[i].run = r
      BY <1>4, <1>12 DEF DecayInv, SoloInv, TableInv, r
    <3>2. \A i \in handled'[r] : i \in Batch(w) \/ i \in handled[r] \ Batch(w)
      BY CommitRows DEF r
    <3> QED BY <3>1, <3>2, CommitRows DEF r
  <2>4. worker'[w].pc = "claim"
    BY <1>1, <1>3, <1>12, NeverRepeats
  <2>7. r' = r
    BY <1>3 DEF r
  <2>5. ASSUME NEW i \in Rows, Left(i, r) PROVE Left(i, r)'
    <3>1. CASE i \in Batch(w)
      <4>1. i \in handled'[r]
        BY <3>1, CommitRows DEF r
      <4> QED BY <2>7, <4>1 DEF Left
    <3>2. CASE i \notin Batch(w)
      <4>1. mem'[i] = mem[i] /\ lock'[i] = lock[i]
        BY <1>1, <3>2, CommitRows, Released
      <4> QED BY <1>4, <1>10, <2>1, <2>5, <2>7, <4>1 DEF Left
    <3> QED BY <3>1, <3>2
  <2>6. ASSUME NEW v \in Workers
        PROVE  /\ worker'[v].pc # "error"
               /\ worker'[v].pc = "ok" /\ worker'[v].run \in Runs /\ crashes' = 0 /\ writes' = 0
                     => \A i \in Rows : Left(i, worker[v].run)'
    <3>1. CASE v = w
      BY <2>4, <3>1
    <3>2. CASE v # w
      <4>1. worker'[v] = worker[v] /\ worker[v].pc # "error"
        BY <1>3, <1>12, <3>2 DEF DecayInv, SoloInv
      <4>2. ASSUME worker[v].pc = "ok", worker[v].run \in Runs, crashes = 0, writes = 0, NEW i \in Rows
            PROVE  Left(i, worker[v].run)'
        <5>1. Left(i, r) /\ worker'[v].run = r
          BY <1>12, <2>1, <2>2, <4>2 DEF DecayInv, SoloInv
        <5>2. Left(i, r)'
          BY <2>5, <5>1
        <5> QED BY <2>7, <5>1, <5>2 DEF Left
      <4> QED BY <1>1, <4>1, <4>2
    <3> QED BY <3>1, <3>2
  <2> QED BY <2>1, <2>2, <2>3, <2>6 DEF SoloInv
<1> QED BY <1>3, <1>6, <1>7, <1>8, <1>9, <1>11, <1>12 DEF DecayInv

\* A crash gives the locks back and leaves the table as it was.
LEMMA CrashInv ==
    ASSUME DecayInv, NEW w \in Workers, Crash(w)
    PROVE  DecayInv'
<1>1. /\ Release(w) /\ worker' = [worker EXCEPT ![w] = Over(w, "crashed")]
      /\ crashes < MaxCrashes /\ crashes' = crashes + 1 /\ sched' = [sched EXCEPT !.up = @ /\ w # Cron]
      /\ UNCHANGED <<mem, writer, handled, writes>>
  BY DEF Crash
<1>2. /\ worker' \in [Workers -> Worker] /\ ClaimInv'
      /\ worker'[w].pc = "crashed" /\ worker'[w].run = worker[w].run /\ Batch(w)' = {} /\ ~Active(w)'
      /\ \A v \in Workers \ {w} : worker'[v] = worker[v] /\ Batch(v)' = Batch(v)
  BY <1>1, OverInv DEF Ended
<1>3. \A v \in Workers \ {w} : Active(v)' = Active(v)
  BY <1>2 DEF Active
<1>4. TableInv'
  <2>1. sched' \in Sched
    <3>1. sched \in Sched
      BY DEF DecayInv, TableInv
    <3>2. (sched.up /\ w # Cron) \in BOOLEAN
      OBVIOUS
    <3> QED BY <1>1, <3>1, <3>2 DEF Sched
  <2>2. crashes' \in 0 .. MaxCrashes
    BY <1>1, WorkerConstants DEF DecayInv, TableInv
  <2> QED BY <1>1, <2>1, <2>2, Released DEF DecayInv, TableInv
<1>5. WorkerInv' /\ HistoryInv'
  BY <1>1, <1>2, <1>3 DEF DecayInv, WorkerInv, HistoryInv
<1>6. LockInv'
  <2>1. \A i \in Rows : lock'[i] = Writer <=> lock[i] = Writer
    BY <1>1, Released
  <2>2. writer.row \in Rows \union {NoOne}
    BY DEF DecayInv, TableInv
  <2> QED BY <1>1, <2>1, <2>2 DEF DecayInv, LockInv
<1>7. BatchInv'
  BY <1>1, <1>2 DEF DecayInv, BatchInv, Ready
<1>8. ASSUME Overlap = FALSE PROVE SoloInv'
  <2>1. \A v \in Workers : worker'[v].run = worker[v].run /\ worker'[v].pc # "error"
    BY <1>2, <1>8 DEF DecayInv, SoloInv
  <2>2. crashes' # 0
    BY <1>1, WorkerConstants DEF DecayInv, TableInv
  <2> QED BY <1>1, <1>8, <2>1, <2>2 DEF DecayInv, SoloInv
<1> QED BY <1>2, <1>4, <1>5, <1>6, <1>7, <1>8 DEF DecayInv

\* A night: every row is older, a claimed one too.
LEMMA NightInv ==
    ASSUME DecayInv, Night
    PROVE  DecayInv'
<1>1. ASSUME NEW i \in Rows
      PROVE  /\ mem[i] \in Row /\ mem'[i] \in Row /\ mem'[i].deleted = mem[i].deleted
             /\ mem'[i].archived = mem[i].archived /\ mem'[i].run = mem[i].run
             /\ mem'[i].count = mem[i].count
             /\ mem[i].age \in Ages /\ mem'[i].age \in Ages /\ mem[i].age <= mem'[i].age
  <2>1. mem[i] \in Row
    BY DEF DecayInv, TableInv
  <2>2. mem'[i] = [mem[i] EXCEPT !.age = Older(@)]
    BY DEF Night
  <2>3. /\ mem'[i] \in Row
        /\ Older(mem[i].age) \in Ages /\ mem[i].age <= Older(mem[i].age)
    BY <2>1, <2>2, RowTypes
  <2>4. /\ mem'[i].deleted = mem[i].deleted /\ mem'[i].archived = mem[i].archived
        /\ mem'[i].run = mem[i].run /\ mem'[i].count = mem[i].count
        /\ mem'[i].age = Older(mem[i].age) /\ mem[i].age \in Ages
    BY <2>1, <2>2 DEF Row
  <2> QED BY <2>1, <2>3, <2>4
<1>2. UNCHANGED <<lock, worker, handled, crashes, writes>>
  BY DEF Night
<1>3. writer' \in [row : Rows \union {NoOne}, age : Ages] /\ writer'.row = writer.row
  <2>1. writer \in [row : Rows \union {NoOne}, age : Ages]
    BY DEF DecayInv, TableInv
  <2>2. Older(writer.age) \in Ages
    BY <2>1, DecayConstants DEF Older, Lower, Ages
  <2> QED BY <2>1, <2>2 DEF Night
<1>4. sched' \in Sched
  BY DEF Night, DecayInv, TableInv, Sched
<1>5. mem' \in [Rows -> Row]
  BY <1>1 DEF Night
<1>6. TableInv'
  BY <1>2, <1>3, <1>4, <1>5 DEF DecayInv, TableInv
<1>7. WorkerInv' /\ ClaimInv' /\ LockInv'
  BY <1>2, <1>3 DEF DecayInv, WorkerInv, ClaimInv, LockInv, Active, Batch
<1>8. BatchInv'
  <2> SUFFICES ASSUME NEW v \in Workers, NEW i \in Batch(v)'
               PROVE  Ready(i, worker[v].run, worker[v].update[i])'
    BY DEF BatchInv
  <2>1. i \in Batch(v) /\ i \in Rows /\ worker'[v] = worker[v]
    BY <1>2 DEF DecayInv, ClaimInv, Batch
  <2>2. Ready(i, worker[v].run, worker[v].update[i])
    BY <2>1 DEF DecayInv, BatchInv
  <2>3. PICK at \in Ages : at <= mem[i].age /\ worker[v].update[i] = DecayWeight(at, mem[i].count)
    BY <2>2 DEF Ready
  <2>4. at <= mem'[i].age
    BY <1>1, <2>1, <2>3 DEF Ages
  <2> QED BY <1>1, <2>1, <2>2, <2>3, <2>4 DEF Ready
<1>9. HistoryInv'
  BY <1>1, <1>2 DEF DecayInv, HistoryInv, Active
<1>10. ASSUME Overlap = FALSE PROVE SoloInv'
  <2>1. \A q \in Runs : handled[q] \subseteq Rows
    BY DEF DecayInv, TableInv
  <2> QED BY <1>1, <1>2, <1>10, <2>1 DEF DecayInv, SoloInv, Left
<1> QED BY <1>6, <1>7, <1>8, <1>9, <1>10 DEF DecayInv

\* A capture transaction takes a row lock.
LEMMA ReinforceLockInv ==
    ASSUME DecayInv, NEW i \in Rows, ReinforceLock(i)
    PROVE  DecayInv'
<1>1. /\ writer.row = NoOne /\ writes < MaxWrites /\ lock[i] = NoOne
      /\ lock' = [lock EXCEPT ![i] = Writer] /\ writer' = [row |-> i, age |-> 0]
      /\ writes' = writes + 1 /\ UNCHANGED <<mem, worker, sched, handled, crashes>>
  BY DEF ReinforceLock
<1>2. /\ lock \in [Rows -> Workers \union {Writer, NoOne}]
      /\ writes \in Nat /\ writes' \in 0 .. MaxWrites /\ writes' > 0
  BY <1>1, WorkerConstants DEF DecayInv, TableInv
<1>3. TableInv'
  <2>1. writer' \in [row : Rows \union {NoOne}, age : Ages]
    BY <1>1, DecayConstants DEF Ages
  <2> QED BY <1>1, <1>2, <2>1 DEF DecayInv, TableInv
<1>4. WorkerInv' /\ BatchInv' /\ HistoryInv'
  BY <1>1 DEF DecayInv, WorkerInv, BatchInv, HistoryInv, Active, Batch, Ready
<1>5. ClaimInv'
  <2>1. \A v \in Workers : {j \in Rows : lock'[j] = v} = {j \in Rows : lock[j] = v}
    BY <1>1, <1>2, WorkerConstants
  <2> QED BY <1>1, <2>1 DEF DecayInv, ClaimInv, Batch
<1>6. LockInv'
  <2>1. \A j \in Rows : lock[j] # Writer
    BY <1>1, WorkerConstants DEF DecayInv, LockInv
  <2> QED BY <1>1, <1>2, <2>1 DEF LockInv
<1>7. Overlap = FALSE => SoloInv'
  BY <1>1, <1>2 DEF DecayInv, SoloInv
<1> QED BY <1>3, <1>4, <1>5, <1>6, <1>7 DEF DecayInv

\* A capture transaction ends: the row it changes is in no batch.
LEMMA ReinforceEndInv ==
    ASSUME DecayInv, NEW commit \in BOOLEAN, ReinforceEnd(commit)
    PROVE  DecayInv'
<1> DEFINE i == writer.row
<1>1. /\ i # NoOne /\ mem' = IF commit THEN [mem EXCEPT ![i] = Reinforced(@, writer.age)] ELSE mem
      /\ lock' = [lock EXCEPT ![i] = NoOne] /\ writer' = [row |-> NoOne, age |-> 0]
      /\ UNCHANGED <<worker, sched, handled, crashes, writes>>
  BY DEF ReinforceEnd
<1>2. /\ i \in Rows /\ writer.age \in Ages /\ lock[i] = Writer /\ writes > 0
      /\ lock \in [Rows -> Workers \union {Writer, NoOne}] /\ mem \in [Rows -> Row]
  BY <1>1 DEF DecayInv, TableInv, LockInv
<1> HIDE DEF i
<1>3. /\ mem' \in [Rows -> Row]
      /\ \A j \in Rows : mem'[j].run = mem[j].run /\ (j # i => mem'[j] = mem[j])
  <2>1. mem[i] \in Row /\ Reinforced(mem[i], writer.age) \in Row
    BY <1>2, RowTypes
  <2>2. Reinforced(mem[i], writer.age).run = mem[i].run
    BY <2>1 DEF Reinforced, Row
  <2> QED BY <1>1, <1>2, <2>1, <2>2
<1>4. TableInv'
  <2>1. writer' \in [row : Rows \union {NoOne}, age : Ages]
    BY <1>1, DecayConstants DEF Ages
  <2> QED BY <1>1, <1>2, <1>3, <2>1 DEF DecayInv, TableInv
<1>5. WorkerInv'
  BY <1>1 DEF DecayInv, WorkerInv, Active
<1>6. ClaimInv'
  <2>1. \A v \in Workers : {j \in Rows : lock'[j] = v} = {j \in Rows : lock[j] = v}
    BY <1>1, <1>2, WorkerConstants
  <2> QED BY <1>1, <2>1 DEF DecayInv, ClaimInv, Batch
<1>7. LockInv'
  <2>1. \A j \in Rows : lock[j] = Writer => j = i
    BY DEF DecayInv, LockInv, i
  <2> QED BY <1>1, <1>2, <2>1, WorkerConstants DEF LockInv
<1>8. BatchInv'
  <2> SUFFICES ASSUME NEW v \in Workers, NEW j \in Batch(v)'
               PROVE  Ready(j, worker[v].run, worker[v].update[j])'
    BY DEF BatchInv
  <2>1. j \in Batch(v) /\ j \in Rows /\ lock[j] = v /\ worker'[v] = worker[v]
    BY <1>1 DEF DecayInv, ClaimInv, Batch
  <2>2. mem'[j] = mem[j]
    BY <1>2, <1>3, <2>1, WorkerConstants
  <2> QED BY <2>1, <2>2 DEF DecayInv, BatchInv, Ready
<1>9. HistoryInv'
  BY <1>1, <1>3 DEF DecayInv, HistoryInv, Active
<1>10. ASSUME Overlap = FALSE PROVE SoloInv'
  <2>1. \A q \in Runs : handled[q] \subseteq Rows
    BY DEF DecayInv, TableInv
  <2>2. writes' # 0
    BY <1>1, <1>2, WorkerConstants DEF DecayInv, TableInv
  <2> QED BY <1>1, <1>3, <1>10, <2>1, <2>2 DEF DecayInv, SoloInv
<1> QED BY <1>4, <1>5, <1>6, <1>7, <1>8, <1>9, <1>10 DEF DecayInv

\* A deletion waits for the row lock too.
LEMMA DeleteInv ==
    ASSUME DecayInv, NEW i \in Rows, Delete(i)
    PROVE  DecayInv'
<1>1. /\ lock[i] = NoOne /\ mem' = [mem EXCEPT ![i].deleted = TRUE]
      /\ UNCHANGED <<lock, worker, sched, writer, handled, crashes, writes>>
  BY DEF Delete
<1>2. /\ mem' \in [Rows -> Row]
      /\ \A j \in Rows : mem'[j].run = mem[j].run /\ (j # i => mem'[j] = mem[j])
      /\ \A j \in Rows : (mem[j].deleted = TRUE => mem'[j].deleted = TRUE) /\ mem'[j].archived = mem[j].archived
  <2>1. mem \in [Rows -> Row] /\ mem[i] \in Row /\ [mem[i] EXCEPT !.deleted = TRUE] \in Row
    BY RowTypes DEF DecayInv, TableInv
  <2>2. mem'[i] = [mem[i] EXCEPT !.deleted = TRUE] /\ \A j \in Rows \ {i} : mem'[j] = mem[j]
    BY <1>1, <2>1
  <2>3. mem' \in [Rows -> Row]
    BY <1>1, <2>1
  <2> QED BY <2>1, <2>2, <2>3 DEF Row
<1>3. TableInv'
  BY <1>1, <1>2 DEF DecayInv, TableInv
<1>4. WorkerInv' /\ ClaimInv' /\ LockInv'
  BY <1>1 DEF DecayInv, WorkerInv, ClaimInv, LockInv, Active, Batch
<1>5. BatchInv'
  <2> SUFFICES ASSUME NEW v \in Workers, NEW j \in Batch(v)'
               PROVE  Ready(j, worker[v].run, worker[v].update[j])'
    BY DEF BatchInv
  <2>1. j \in Batch(v) /\ j \in Rows /\ lock[j] = v /\ worker'[v] = worker[v]
    BY <1>1 DEF DecayInv, ClaimInv, Batch
  <2>2. mem'[j] = mem[j]
    BY <1>1, <1>2, <2>1, WorkerConstants
  <2> QED BY <2>1, <2>2 DEF DecayInv, BatchInv, Ready
<1>6. HistoryInv'
  BY <1>1, <1>2 DEF DecayInv, HistoryInv, Active
<1>7. ASSUME Overlap = FALSE PROVE SoloInv'
  <2>1. \A q \in Runs : handled[q] \subseteq Rows
    BY DEF DecayInv, TableInv
  <2> QED BY <1>1, <1>2, <1>7, <2>1 DEF DecayInv, SoloInv, Left
<1> QED BY <1>3, <1>4, <1>5, <1>6, <1>7 DEF DecayInv

\* Every step preserves the invariant.
LEMMA NextInv == DecayInv /\ [Next]_vars => DecayInv'
<1> SUFFICES ASSUME DecayInv, [Next]_vars PROVE DecayInv'
  OBVIOUS
<1>0. sched \in Sched /\ crashes \in 0 .. MaxCrashes /\ crashes <= crashes
  BY WorkerConstants DEF DecayInv, TableInv
<1>1. ASSUME NEW w \in Workers, Step(w) \/ Crash(w) PROVE DecayInv'
  BY <1>1, ClaimStepInv, EndInv, CommitInv, CrashInv DEF Step
<1>2. ASSUME NEW w \in Workers, NEW r \in Runs, RunFresh(w, r) \/ RunJoin(w, r) PROVE DecayInv'
  <2>1. CASE RunFresh(w, r)
    BY <1>0, <2>1, FreshInv DEF RunFresh
  <2>2. CASE RunJoin(w, r)
    BY <2>2, RunJoinInv
  <2> QED BY <1>2, <2>1, <2>2
<1>3. ASSUME NEW r \in Runs, CronRun(r) PROVE DecayInv'
  <2>1. sched' \in Sched
    BY <1>0, <1>3 DEF CronRun, Sched
  <2>2. Cron \in Workers
    BY WorkerConstants
  <2> QED BY <1>3, <2>1, <2>2, FreshInv DEF CronRun
<1>4. CASE CronSkip \/ CronUp \/ CronDown
  <2>1. sched' \in Sched
    <3>1. CASE CronUp
      BY <3>1 DEF CronUp, Sched
    <3>2. CASE CronSkip \/ CronDown
      BY <1>0, <3>2 DEF CronSkip, CronDown, Sched
    <3> QED BY <1>4, <3>1, <3>2
  <2>2. crashes' \in 0 .. MaxCrashes /\ crashes' >= crashes
    BY <1>0, <1>4, WorkerConstants DEF CronSkip, CronUp, CronDown
  <2>3. UNCHANGED <<mem, lock, worker, writer, handled, writes>>
    BY <1>4 DEF CronSkip, CronUp, CronDown
  <2> QED BY <2>1, <2>2, <2>3, QuietInv
<1>5. CASE UNCHANGED vars
  BY <1>0, <1>5, QuietInv DEF vars
<1> QED BY <1>1, <1>2, <1>3, <1>4, <1>5, NightInv, ReinforceLockInv, ReinforceEndInv, DeleteInv
       DEF Next, Scheduler

\* The invariant holds of every state the job reaches.
LEMMA DecayAlways == Spec => []DecayInv
  BY InitInv, NextInv, PTL DEF Spec

-----------------------------------------------------------------------------
(* What follows. *)

\* Types, and that the locks of a worker are the rows of its open batch, whatever
\* sweeps, crashes and writers interleave.
THEOREM DecayTypes == Spec => []TypeOK
<1>1. DecayInv => TypeOK
  BY TypeParts DEF DecayInv
<1> QED BY <1>1, DecayAlways, PTL

\* While sweeps keep apart, however many co-workers one has, no worker meets a row
\* twice and a drained sweep left no row out.
THEOREM SweepsAreComplete ==
    ASSUME Overlap = FALSE
    PROVE  Spec => []SweepComplete
<1>1. ASSUME DecayInv PROVE SweepComplete
  <2> SUFFICES ASSUME NEW w \in Workers
               PROVE  /\ worker[w].pc # "error"
                      /\ worker[w].pc = "ok" /\ worker[w].run \in Runs \ ActiveRuns
                           /\ crashes = 0 /\ writes = 0
                           => \A i \in Rows : mem[i].deleted \/ mem[i].archived
                                                \/ i \in handled[worker[w].run]
    BY DEF SweepComplete
  <2>1. worker[w].pc # "error"
    BY <1>1 DEF DecayInv, SoloInv
  <2>2. ASSUME worker[w].pc = "ok", worker[w].run \in Runs \ ActiveRuns, crashes = 0, writes = 0,
               NEW i \in Rows
        PROVE  mem[i].deleted = TRUE \/ mem[i].archived = TRUE \/ i \in handled[worker[w].run]
    <3>1. Left(i, worker[w].run)
      BY <1>1, <2>2 DEF DecayInv, SoloInv
    <3>2. ASSUME lock[i] \in Workers, worker[lock[i]].run = worker[w].run PROVE FALSE
      <4>1. i \in Batch(lock[i])
        BY <1>1, <3>2 DEF DecayInv, ClaimInv
      <4>2. worker[lock[i]].pc = "commit"
        BY <1>1, <3>2, <4>1 DEF DecayInv, ClaimInv
      <4>3. worker[w].run \in ActiveRuns
        BY <3>2, <4>2 DEF ActiveRuns, Active, Ended
      <4> QED BY <2>2, <4>3
    <3> QED BY <3>1, <3>2 DEF Left
  <2> QED BY <2>1, <2>2
<1> QED BY <1>1, DecayAlways, PTL

\* What the table's writers agree on with the abstract specification.
LEMMA AbstractRows ==
    /\ Abstract!Ages = Ages /\ Abstract!FreshRow = FreshRow
    /\ \A age : Abstract!Older(age) = Older(age)
    /\ \A row, age : Abstract!Reinforced(row, age) = Reinforced(row, age)
    /\ \A row, run, weight : Abstract!Decayed(row, run, weight) = Decayed(row, run, weight)
    /\ \A age, count : Abstract!DecayWeight(age, count) = DecayWeight(age, count)
<1>1. Abstract!Ages = Ages /\ Abstract!FreshRow = FreshRow
  BY DEF Abstract!Ages, Ages, Abstract!FreshRow, FreshRow, Abstract!Unit, Unit
<1>2. \A a, b : Abstract!Lower(a, b) = Lower(a, b) /\ Abstract!Higher(a, b) = Higher(a, b)
  BY DEF Abstract!Lower, Lower, Abstract!Higher, Higher
<1>3. \A age : Abstract!Older(age) = Older(age)
  BY <1>2 DEF Abstract!Older, Older
<1>4. \A row, age : Abstract!Reinforced(row, age) = Reinforced(row, age)
  BY <1>2 DEF Abstract!Reinforced, Reinforced
<1>5. \A row, run, weight : Abstract!Decayed(row, run, weight) = Decayed(row, run, weight)
  BY DEF Abstract!Decayed, Decayed
<1>6. \A count : Abstract!PeakWeight(count) = PeakWeight(count)
  BY <1>2 DEF Abstract!PeakWeight, PeakWeight, Abstract!Unit, Unit
<1>7. \A age, count : Abstract!Halvings(age, count) = Halvings(age, count)
  BY DEF Abstract!Halvings, Halvings
<1>8. \A age, count : Abstract!DecayWeight(age, count) = DecayWeight(age, count)
  BY <1>2, <1>6, <1>7 DEF Abstract!DecayWeight, DecayWeight
<1> QED BY <1>1, <1>3, <1>4, <1>5, <1>8

\* Committing a batch is the abstract step on it.
LEMMA CommitRefines ==
    ASSUME DecayInv, Overlap = FALSE, NEW w \in Workers, Commit(w)
    PROVE  Abstract!DecayBatch(worker[w].run, Batch(w)) /\ worker[w].run \in Runs /\ Batch(w) \in SUBSET Rows
<1> DEFINE r == worker[w].run
           S == Batch(w)
<1>1. worker[w].pc = "commit" /\ S # {} /\ S \subseteq Rows /\ r \in Runs
  BY CommitRows DEF Commit
<1>2. S \intersect handled[r] = {}
  BY <1>1, NeverRepeats
<1>3. \A i \in S : Ready(i, r, worker[w].update[i])
  BY CommitRows
<1>4. \A i \in S : ~mem[i].deleted /\ ~mem[i].archived
  BY <1>3 DEF Ready
<1> DEFINE Fits(i, a) == a <= mem[i].age /\ worker[w].update[i] = DecayWeight(a, mem[i].count)
           at == [i \in S |-> CHOOSE a \in Ages : Fits(i, a)]
<1>5. \A i \in S : at[i] \in Ages /\ Fits(i, at[i])
  <2> SUFFICES ASSUME NEW i \in S PROVE at[i] \in Ages /\ Fits(i, at[i])
    OBVIOUS
  <2>1. \E a \in Ages : Fits(i, a)
    BY <1>3 DEF Ready
  <2>2. at[i] = CHOOSE a \in Ages : Fits(i, a)
    OBVIOUS
  <2> HIDE DEF Fits, at
  <2> QED BY <2>1, <2>2
<1>6. at \in [S -> Ages]
  BY <1>5
<1>7. mem' = [i \in Rows |-> IF i \in S THEN Decayed(mem[i], r, DecayWeight(at[i], mem[i].count))
                             ELSE mem[i]]
  <2>1. mem' = [i \in Rows |-> IF i \in S THEN Decayed(mem[i], r, worker[w].update[i]) ELSE mem[i]]
    BY DEF Commit
  <2>2. \A i \in S : worker[w].update[i] = DecayWeight(at[i], mem[i].count)
    BY <1>5
  <2> HIDE DEF S, r, at
  <2> QED BY <2>1, <2>2
<1>8. \A i \in S : at[i] <= mem[i].age
  BY <1>5
<1>9. handled' = [handled EXCEPT ![r] = @ \union S]
  BY DEF Commit
<1> HIDE DEF S, r, at, Fits
<1>10. Abstract!DecayBatch(r, S)
  BY <1>1, <1>2, <1>4, <1>6, <1>7, <1>8, <1>9, AbstractRows DEF Abstract!DecayBatch
<1> QED BY <1>1, <1>10 DEF r, S

\* Every step is a step of the abstract specification or leaves the table alone.
LEMMA StepRefines ==
    ASSUME DecayInv, Overlap = FALSE, [Next]_vars
    PROVE  [Abstract!Next]_<<mem, handled>>
<1>1. ASSUME NEW w \in Workers, Commit(w) PROVE Abstract!Next
  BY <1>1, CommitRefines DEF Abstract!Next
<1>2. ASSUME NEW w \in Workers, NEW r \in Runs, Fresh(w, r) PROVE Abstract!Next
  BY <1>2 DEF Fresh, Abstract!Next, Abstract!NewSweep
<1>3. CASE Night
  BY <1>3, AbstractRows DEF Night, Abstract!Next, Abstract!Night
<1>4. ASSUME NEW i \in Rows, Delete(i) PROVE Abstract!Next
  BY <1>4 DEF Delete, Abstract!Next, Abstract!Delete
<1>5. ASSUME NEW commit \in BOOLEAN, ReinforceEnd(commit) PROVE [Abstract!Next]_<<mem, handled>>
  <2>1. CASE commit
    <3>1. writer.row \in Rows /\ writer.age \in Ages
      BY <1>5 DEF ReinforceEnd, DecayInv, TableInv
    <3>2. Abstract!Reinforce(writer.row, writer.age)
      BY <1>5, <2>1, AbstractRows DEF ReinforceEnd, Abstract!Reinforce
    <3> QED BY <3>1, <3>2, AbstractRows DEF Abstract!Next
  <2>2. CASE ~commit
    BY <1>5, <2>2 DEF ReinforceEnd
  <2> QED BY <2>1, <2>2
<1>6. ASSUME NEW w \in Workers, Step(w) \/ Crash(w) PROVE [Abstract!Next]_<<mem, handled>>
  BY <1>1, <1>6 DEF Step, Claim, Drained, HitRail, Crash
<1>7. ASSUME NEW w \in Workers, NEW r \in Runs, RunFresh(w, r) \/ RunJoin(w, r)
      PROVE  [Abstract!Next]_<<mem, handled>>
  BY <1>2, <1>7 DEF RunFresh, RunJoin
<1>8. CASE Scheduler
  <2>1. ASSUME NEW r \in Runs, CronRun(r) PROVE Abstract!Next
    BY <1>2, <2>1, WorkerConstants DEF CronRun
  <2> QED BY <1>8, <2>1 DEF Scheduler, CronSkip, CronUp
<1>9. CASE CronDown \/ UNCHANGED vars \/ \E i \in Rows : ReinforceLock(i)
  BY <1>9 DEF CronDown, vars, ReinforceLock
<1> QED BY <1>3, <1>4, <1>5, <1>6, <1>7, <1>8, <1>9 DEF Next

\* While sweeps keep apart the table changes as if each batch were decayed in one
\* indivisible step that takes no row twice: what jobs/claims.py promises of
\* SKIP LOCKED and the stamp, crashes and reinforcements included.
THEOREM DecayRefines ==
    ASSUME Overlap = FALSE
    PROVE  Spec => ImplementsAbstract
<1>1. Init => Abstract!Init
  BY AbstractRows DEF Init, Abstract!Init
<1>2. DecayInv /\ [Next]_vars => [Abstract!Next]_<<mem, handled>>
  BY StepRefines
<1> QED BY <1>1, <1>2, DecayAlways, PTL DEF Spec, ImplementsAbstract, Abstract!Spec

\* A row gets the stamp of a sweep only with the weight of its present count at an
\* age it has reached and the archive mark that goes with it, and only if it was
\* neither deleted nor archived: also when sweeps overlap (apply_weights and
\* archive_rows in the transaction of the claim).
StampsWithWeight ==
    [][\A i \in Rows : mem'[i].run \notin {mem[i].run, NoRun} =>
          /\ mem[i].deleted = FALSE /\ mem[i].archived = FALSE /\ mem'[i].count = mem[i].count
          /\ \E at \in Ages : at <= mem[i].age /\ mem'[i].weight = DecayWeight(at, mem[i].count)
          /\ mem'[i].archived = (mem'[i].weight < ArchiveThreshold)]_vars

\* No interleaving of sweeps, with whatever ids, stamps a row without decaying it.
THEOREM StampMeansDecayed == Spec => StampsWithWeight
<1> DEFINE Stamp(i) ==
      mem'[i].run \notin {mem[i].run, NoRun} =>
          /\ mem[i].deleted = FALSE /\ mem[i].archived = FALSE /\ mem'[i].count = mem[i].count
          /\ \E at \in Ages : at <= mem[i].age /\ mem'[i].weight = DecayWeight(at, mem[i].count)
          /\ mem'[i].archived = (mem'[i].weight < ArchiveThreshold)
<1>1. ASSUME DecayInv, [Next]_vars PROVE \A i \in Rows : Stamp(i)
  <2> SUFFICES ASSUME NEW i \in Rows PROVE Stamp(i)
    OBVIOUS
  <2>0. mem \in [Rows -> Row] /\ mem[i] \in Row
    BY <1>1 DEF DecayInv, TableInv
  <2>1. ASSUME NEW w \in Workers, Commit(w) PROVE Stamp(i)
    <3>1. CASE i \in Batch(w)
      <4>1. /\ mem'[i] = Decayed(mem[i], worker[w].run, worker[w].update[i])
            /\ Ready(i, worker[w].run, worker[w].update[i])
        BY <1>1, <2>1, <3>1, CommitRows
      <4>2. /\ mem'[i].weight = worker[w].update[i] /\ mem'[i].count = mem[i].count
            /\ mem'[i].archived = (mem[i].archived \/ worker[w].update[i] < ArchiveThreshold)
        BY <2>0, <4>1 DEF Decayed, Row
      <4>3. mem[i].archived = FALSE
        BY <4>1 DEF Ready
      <4>4. mem'[i].archived = (mem'[i].weight < ArchiveThreshold)
        BY <4>2, <4>3
      <4> QED BY <4>1, <4>2, <4>4 DEF Ready
    <3>2. CASE i \notin Batch(w)
      BY <1>1, <2>1, <3>2, CommitRows
    <3> QED BY <3>1, <3>2
  <2>2. ASSUME NEW w \in Workers, NEW r \in Runs, Fresh(w, r) PROVE Stamp(i)
    BY <2>0, <2>2 DEF Fresh, Row
  <2>3. CASE Night
    BY <2>0, <2>3 DEF Night, Row
  <2>4. ASSUME NEW j \in Rows, Delete(j) PROVE Stamp(i)
    BY <2>0, <2>4 DEF Delete, Row
  <2>5. ASSUME NEW commit \in BOOLEAN, ReinforceEnd(commit) PROVE Stamp(i)
    <3>1. Reinforced(mem[i], writer.age).run = mem[i].run
      BY <2>0 DEF Reinforced, Row
    <3>2. mem'[i] \in {mem[i], Reinforced(mem[i], writer.age)}
      BY <2>0, <2>5 DEF ReinforceEnd
    <3> QED BY <3>1, <3>2
  <2>6. CASE UNCHANGED mem
    BY <2>6
  <2> QED
    BY <1>1, <2>1, <2>2, <2>3, <2>4, <2>5, <2>6, WorkerConstants
    DEF Next, Step, Claim, Drained, HitRail, Crash, RunFresh, RunJoin, Scheduler, CronSkip, CronUp,
        CronRun, CronDown, ReinforceLock, vars
<1> QED BY <1>1, DecayAlways, PTL DEF Spec, StampsWithWeight
=============================================================================
