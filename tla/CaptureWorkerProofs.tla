------------------------ MODULE CaptureWorkerProofs ------------------------
(* Proofs about the capture worker: where every turn is, from which it       *)
(* follows that its writes are committed at most once, and what the join     *)
(* counter of the queue counts while nobody stops the worker.                *)
EXTENDS CaptureWorker, FiniteSetTheorems, TLAPS

Busy(t) == task[t].pc \in {"run", "commit"}
BusyTasks == {t \in Tasks : Busy(t)}

\* A turn in a queue is queued, and is there once.
QueuedInv ==
    \A g, h \in Gens : \A k \in 1 .. Len(queue[g].items) :
        /\ job[queue[g].items[k]] = "queued"
        /\ \A l \in 1 .. Len(queue[h].items) :
              queue[g].items[k] = queue[h].items[l] => g = h /\ k = l

\* A turn in the hands of a consumer is running, and no other consumer has it.
RunningInv ==
    \A t \in Tasks : Busy(t) =>
        /\ task[t].job \in Jobs /\ job[task[t].job] = "running"
        /\ \A u \in Tasks : Busy(u) /\ task[u].job = task[t].job => u = t
        /\ task[t].pc = "run" => committed[task[t].job] = 0

\* The generations are numbered in order, and stop() knows one of them.
GenInv ==
    /\ tasks <= gens /\ current <= gens
    /\ stopping # None => gens > 0
    /\ \A t \in Tasks : task[t].pc = "get" => task[t].from \in Gens

TurnInv == WorkerTypeOK /\ QueuedInv /\ RunningInv /\ GenInv /\ AtMostOnce

\* The first consumers, while nothing has stopped them: no task is cancelled, and
\* every turn accepted is in the one queue, in the hands of a consumer, or finished.
WhereTurnsAre ==
    /\ current = gens
    /\ \A t \in Tasks : task[t].cancel = FALSE
    /\ \A g \in Gens : g # 1 => queue[g].items = <<>>
    /\ gens = 0 => /\ \A j \in Jobs : job[j] = "new"
                   /\ \A t \in Tasks : task[t].pc = "unborn"
    /\ \A j \in Jobs :
          /\ job[j] # "cancelled"
          /\ job[j] = "queued" =>
                \E k \in 1 .. Len(queue[1].items) : queue[1].items[k] = j
          /\ job[j] = "running" => \E t \in Tasks : Busy(t) /\ task[t].job = j

\* The join counter counts the turns waiting and the turns in hand, ...
JoinCounts == queue[1].unfinished = Len(queue[1].items) + Cardinality(BusyTasks)

\* ... so a drain() that waits for it to be zero waits for the turns before it.
DrainWaits ==
    /\ drain.pc = "join" => drain.of = 1 /\ drain.before \subseteq Accepted
    /\ drain.pc = "true" => \A j \in drain.before : job[j] \in Finished

ServingInv == NeverStopped /\ alive => WhereTurnsAre /\ JoinCounts /\ DrainWaits

-----------------------------------------------------------------------------
\* The records consumers and queues start with.
LEMMA RecordTypes ==
    /\ EmptyQueue \in Queue /\ Unborn \in Task
    /\ [Unborn EXCEPT !.pc = "done"] \in Task /\ [Unborn EXCEPT !.pc = "new"] \in Task
    /\ 1 \in Gens /\ \A t \in Tasks : t[1] \in Gens
<1>1. EmptyQueue \in Queue
  BY DEF EmptyQueue, Queue
<1>2. /\ Unborn \in Task
      /\ [Unborn EXCEPT !.pc = "done"] \in Task /\ [Unborn EXCEPT !.pc = "new"] \in Task
  <2>1. None \in 0 .. MaxGens
    BY CaptureWorkerAssumption DEF None
  <2>2. Unborn \in Task
    BY <2>1 DEF Unborn, Task
  <2> QED BY <2>2 DEF Task
<1>3. 1 \in Gens /\ \A t \in Tasks : t[1] \in Gens
  BY CaptureWorkerAssumption DEF Gens, Tasks
<1> QED BY <1>1, <1>2, <1>3

\* The ends of a queue.
LEMMA QueueTail ==
    ASSUME NEW s \in Seq(Jobs), s # <<>>
    PROVE  /\ Head(s) \in Jobs /\ Head(s) = s[1] /\ Len(s) \in Nat /\ Len(s) > 0
           /\ Tail(s) \in Seq(Jobs) /\ Len(Tail(s)) = Len(s) - 1
           /\ \A k \in 1 .. Len(Tail(s)) : k + 1 \in 1 .. Len(s) /\ Tail(s)[k] = s[k + 1]
  OBVIOUS

\* An item put at the end of a queue.
LEMMA AppendFacts ==
    ASSUME NEW s \in Seq(Jobs), NEW j \in Jobs
    PROVE  /\ Append(s, j) \in Seq(Jobs) /\ Len(s) \in Nat /\ Len(Append(s, j)) = Len(s) + 1
           /\ Append(s, j)[Len(s) + 1] = j
           /\ \A k \in 1 .. Len(s) : Append(s, j)[k] = s[k]
  OBVIOUS

\* There are finitely many consumers.
LEMMA TasksFinite ==
    /\ IsFiniteSet(BusyTasks) /\ Cardinality(BusyTasks) \in Nat
    /\ (Cardinality(BusyTasks) = 0 <=> BusyTasks = {})
<1>1. IsFiniteSet(Gens)
  BY FS_Interval, CaptureWorkerAssumption DEF Gens
<1>2. IsFiniteSet(Tasks)
  BY <1>1, FS_Product, CaptureWorkerAssumption DEF Tasks
<1>3. IsFiniteSet(BusyTasks)
  BY <1>2, FS_Subset DEF BusyTasks
<1> QED BY <1>3, FS_CardinalityType, FS_EmptySet

\* Nothing has happened yet.
LEMMA WorkerInitInv == WorkerInit => TurnInv /\ ServingInv
<1> SUFFICES ASSUME WorkerInit PROVE TurnInv /\ ServingInv
  OBVIOUS
<1>1. /\ \A g \in Gens : queue[g] = EmptyQueue /\ queue[g].items = <<>> /\ queue[g].unfinished = 0
      /\ \A t \in Tasks : task[t] = Unborn /\ task[t].pc = "unborn" /\ task[t].cancel = FALSE /\ ~Busy(t)
  BY DEF WorkerInit, EmptyQueue, Unborn, Busy
<1>2. WorkerTypeOK
  <2>1. drain \in [pc : {"idle", "join", "true", "false"}, of : 0 .. MaxGens, before : SUBSET Jobs]
    BY CaptureWorkerAssumption DEF WorkerInit, None
  <2>2. queue \in [Gens -> Queue] /\ task \in [Tasks -> Task]
    BY RecordTypes DEF WorkerInit
  <2>3. \A g \in Gens : Len(queue[g].items) <= MaxSize
    BY <1>1, CaptureWorkerAssumption
  <2> QED BY <2>1, <2>2, <2>3, CaptureWorkerAssumption DEF WorkerInit, WorkerTypeOK, None
<1>3. QueuedInv /\ RunningInv
  BY <1>1 DEF QueuedInv, RunningInv
<1>4. GenInv /\ AtMostOnce
  BY <1>1, CaptureWorkerAssumption DEF WorkerInit, GenInv, AtMostOnce, None
<1>5. ServingInv
  <2>1. BusyTasks = {} /\ Cardinality(BusyTasks) = 0
    BY <1>1, TasksFinite DEF BusyTasks
  <2>2. queue[1].unfinished = 0 /\ Len(queue[1].items) = 0
    BY <1>1, RecordTypes
  <2>3. WhereTurnsAre /\ DrainWaits
    BY <1>1 DEF WorkerInit, WhereTurnsAre, DrainWaits, None
  <2> QED BY <2>1, <2>2, <2>3 DEF ServingInv, JoinCounts
<1> QED BY <1>2, <1>3, <1>4, <1>5 DEF TurnInv

-----------------------------------------------------------------------------
(* Where every turn is. *)

\* Steps that touch no queue, no turn and no commit: tasks are cancelled, killed,
\* born or sent to the next get(), and no consumer gets busy.
LEMMA IdleStep ==
    ASSUME TurnInv, UNCHANGED <<queue, job, committed>>,
           task' \in [Tasks -> Task],
           \A t \in Tasks : Busy(t)' => task'[t].pc = task[t].pc /\ task'[t].job = task[t].job,
           \A t \in Tasks : task'[t].pc = "get" => task'[t].from \in Gens,
           gens' = gens, tasks' \in {tasks, None}, current' \in {current, None},
           stopping' \in {stopping, tasks, None},
           drain' \in [pc : {"idle", "join", "true", "false"}, of : 0 .. MaxGens, before : SUBSET Jobs],
           alive' \in BOOLEAN
    PROVE  TurnInv'
<1>1. \A t \in Tasks : Busy(t)' => Busy(t) /\ task'[t].pc = task[t].pc /\ task'[t].job = task[t].job
  BY DEF Busy
<1>2. RunningInv'
  BY <1>1 DEF TurnInv, RunningInv
<1>3. QueuedInv' /\ AtMostOnce'
  BY DEF TurnInv, QueuedInv, AtMostOnce
<1>4. GenInv'
  BY CaptureWorkerAssumption DEF TurnInv, GenInv, WorkerTypeOK, None
<1>5. WorkerTypeOK'
  BY CaptureWorkerAssumption DEF TurnInv, WorkerTypeOK, None
<1> QED BY <1>2, <1>3, <1>4, <1>5 DEF TurnInv

\* What Kill and Loop make of a consumer.
LEMMA NextTask ==
    ASSUME TurnInv, NEW t \in Tasks, Kill(t) \/ Loop(t, current)
    PROVE  /\ task' \in [Tasks -> Task] /\ task'[t].pc \in {"done", "get"}
           /\ task'[t].pc = "get" => task'[t].from \in Gens /\ task'[t].from = current
           /\ task'[t].pc = "get" => task'[t].cancel = task[t].cancel
           /\ \A u \in Tasks \ {t} : task'[u] = task[u]
<1>1. task \in [Tasks -> Task] /\ task[t] \in Task /\ current \in 0 .. MaxGens
  BY DEF TurnInv, WorkerTypeOK
<1>2. CASE task' = [task EXCEPT ![t] = [Unborn EXCEPT !.pc = "done"]]
  <2>1. [Unborn EXCEPT !.pc = "done"].pc = "done"
    BY DEF Unborn
  <2> QED BY <1>1, <1>2, <2>1, RecordTypes
<1>3. CASE current # None /\ task' = [task EXCEPT ![t] = [@ EXCEPT !.pc = "get", !.from = current, !.job = NoJob]]
  <2> DEFINE next == [task[t] EXCEPT !.pc = "get", !.from = current, !.job = NoJob]
  <2>1. next \in Task /\ next.pc = "get" /\ next.from = current /\ next.cancel = task[t].cancel
    BY <1>1 DEF Task
  <2>2. task' = [task EXCEPT ![t] = next]
    BY <1>3
  <2>3. current \in Gens
    BY <1>1, <1>3, CaptureWorkerAssumption DEF None, Gens
  <2> HIDE DEF next
  <2> QED BY <1>1, <2>1, <2>2, <2>3
<1> QED BY <1>2, <1>3 DEF Kill, Loop

\* A consumer starts, or dies waiting for a turn: nothing of a turn changes.
LEMMA TurnBegin ==
    ASSUME TurnInv, NEW t \in Tasks, Begin(t) \/ CancelGet(t)
    PROVE  TurnInv'
<1>1. /\ Kill(t) \/ Loop(t, current)
      /\ UNCHANGED <<current, tasks, gens, queue, job, committed, stopping, drain, alive>>
  BY DEF Begin, CancelGet
<1>2. \A u \in Tasks : Busy(u)' => task'[u].pc = task[u].pc /\ task'[u].job = task[u].job
  BY <1>1, NextTask DEF Busy
<1>3. \A u \in Tasks : task'[u].pc = "get" => task'[u].from \in Gens
  BY <1>1, NextTask DEF TurnInv, GenInv
<1>4. /\ drain \in [pc : {"idle", "join", "true", "false"}, of : 0 .. MaxGens, before : SUBSET Jobs]
      /\ alive \in BOOLEAN
  BY DEF TurnInv, WorkerTypeOK
<1> QED BY <1>1, <1>2, <1>3, <1>4, NextTask, IdleStep

\* The commit is the running turn's first.
LEMMA TurnCommit ==
    ASSUME TurnInv, NEW t \in Tasks, CommitWrites(t)
    PROVE  TurnInv'
<1>1. /\ task[t].pc = "run" /\ committed' = [committed EXCEPT ![task[t].job] = @ + 1]
      /\ task' = [task EXCEPT ![t].pc = "commit"]
      /\ UNCHANGED <<current, tasks, gens, queue, job, stopping, drain, alive>>
  BY DEF CommitWrites
<1>2. /\ task \in [Tasks -> Task] /\ committed \in [Jobs -> Nat]
      /\ task[t].job \in Jobs /\ job[task[t].job] = "running" /\ committed[task[t].job] = 0
      /\ \A u \in Tasks : Busy(u) /\ task[u].job = task[t].job => u = t
  BY <1>1 DEF TurnInv, WorkerTypeOK, RunningInv, Busy
<1>3. /\ task' \in [Tasks -> Task] /\ task'[t].pc = "commit" /\ task'[t].job = task[t].job
      /\ \A u \in Tasks \ {t} : task'[u] = task[u]
  BY <1>1, <1>2 DEF Task
<1>4. /\ committed' \in [Jobs -> Nat] /\ committed'[task[t].job] = 1
      /\ \A j \in Jobs \ {task[t].job} : committed'[j] = committed[j]
  BY <1>1, <1>2
<1>5. WorkerTypeOK' /\ QueuedInv'
  BY <1>1, <1>3, <1>4 DEF TurnInv, WorkerTypeOK, QueuedInv
<1>6. GenInv'
  BY <1>1, <1>3 DEF TurnInv, GenInv
<1>7. \A u \in Tasks : Busy(u)' = Busy(u) /\ task'[u].job = task[u].job
  BY <1>1, <1>3 DEF Busy
<1>8. RunningInv'
  BY <1>1, <1>2, <1>3, <1>4, <1>7 DEF TurnInv, RunningInv
<1>9. AtMostOnce'
  BY <1>1, <1>2, <1>4 DEF TurnInv, AtMostOnce
<1> QED BY <1>5, <1>6, <1>8, <1>9 DEF TurnInv

\* A turn leaves its queue for the hands of one consumer.
LEMMA TurnGet ==
    ASSUME TurnInv, NEW t \in Tasks, Get(t)
    PROVE  TurnInv'
<1> DEFINE g == task[t].from
           s == queue[g].items
<1>1. /\ task[t].pc = "get" /\ s # <<>>
      /\ queue' = [queue EXCEPT ![g].items = Tail(@)]
      /\ task' = [task EXCEPT ![t].pc = "run", ![t].job = Head(s)]
      /\ job' = [job EXCEPT ![Head(s)] = "running"]
      /\ UNCHANGED <<current, tasks, gens, committed, stopping, drain, alive>>
  BY DEF Get
<1>2. g \in Gens /\ queue \in [Gens -> Queue] /\ task \in [Tasks -> Task] /\ s \in Seq(Jobs)
  BY <1>1 DEF TurnInv, GenInv, WorkerTypeOK, Queue
<1> DEFINE j == Head(s)
<1>3. /\ j \in Jobs /\ j = s[1] /\ 1 \in 1 .. Len(s) /\ Len(s) \in Nat
      /\ Tail(s) \in Seq(Jobs) /\ Len(Tail(s)) = Len(s) - 1
      /\ \A k \in 1 .. Len(Tail(s)) : k + 1 \in 1 .. Len(s) /\ Tail(s)[k] = s[k + 1]
  BY <1>1, <1>2, QueueTail
<1>4. job[j] = "queued" /\ committed[j] = 0 /\ job \in [Jobs -> Finished \union
             {"new", "queued", "dropped", "running", "cancelled"}] /\ committed \in [Jobs -> Nat]
  <2>1. job[j] = "queued"
    BY <1>2, <1>3 DEF TurnInv, QueuedInv
  <2>2. committed \in [Jobs -> Nat] /\ committed[j] <= 0
    BY <1>3, <2>1 DEF TurnInv, AtMostOnce, WorkerTypeOK
  <2>3. job \in [Jobs -> Finished \union {"new", "queued", "dropped", "running", "cancelled"}]
    BY DEF TurnInv, WorkerTypeOK
  <2> QED BY <1>3, <2>1, <2>2, <2>3
<1>5. /\ queue' \in [Gens -> Queue] /\ queue'[g].items = Tail(s)
      /\ queue'[g].unfinished = queue[g].unfinished
      /\ \A h \in Gens \ {g} : queue'[h] = queue[h]
  BY <1>1, <1>2, <1>3 DEF Queue
<1>6. /\ task' \in [Tasks -> Task] /\ task'[t].pc = "run" /\ task'[t].job = j
      /\ \A u \in Tasks \ {t} : task'[u] = task[u]
  BY <1>1, <1>2, <1>3 DEF Task
<1>7. job'[j] = "running" /\ \A i \in Jobs \ {j} : job'[i] = job[i]
  BY <1>1, <1>3, <1>4
<1> HIDE DEF j, s, g
<1>8. WorkerTypeOK'
  <2>1. \A h \in Gens : Len(queue'[h].items) <= MaxSize
    <3>1. \A h \in Gens : Len(queue[h].items) <= MaxSize
      BY DEF TurnInv, WorkerTypeOK
    <3>2. Len(queue'[g].items) <= MaxSize
      BY <1>2, <1>3, <1>5, <3>1, CaptureWorkerAssumption DEF s
    <3> QED BY <1>5, <3>1, <3>2
  <2>2. job' \in [Jobs -> Finished \union {"new", "queued", "dropped", "running", "cancelled"}]
    BY <1>1, <1>4
  <2> QED BY <1>1, <1>5, <1>6, <2>1, <2>2 DEF TurnInv, WorkerTypeOK
<1>9. \A h \in Gens : \A k \in 1 .. Len(queue'[h].items) :
         /\ queue'[h].items[k] \in Jobs
         /\ \E l \in 1 .. Len(queue[h].items) :
               /\ queue'[h].items[k] = queue[h].items[l] /\ l = (IF h = g THEN k + 1 ELSE k)
               /\ queue[h].items[l] # j
  <2> TAKE h \in Gens
  <2> TAKE k \in 1 .. Len(queue'[h].items)
  <2>1. CASE h = g
    <3>1. k + 1 \in 1 .. Len(s) /\ queue'[h].items[k] = s[k + 1] /\ s[k + 1] \in Jobs /\ k \in Nat \ {0}
      BY <1>2, <1>3, <1>5, <2>1
    <3>2. s[k + 1] # s[1]
      BY <1>2, <1>3, <3>1 DEF TurnInv, QueuedInv, s
    <3> QED BY <1>3, <2>1, <3>1, <3>2 DEF s
  <2>2. CASE h # g
    <3>1. queue'[h] = queue[h]
      BY <1>5, <2>2
    <3>2. queue[h].items[k] # s[1]
      BY <1>2, <1>3, <2>2, <3>1 DEF TurnInv, QueuedInv, s
    <3>3. queue[h].items \in Seq(Jobs)
      BY <1>2 DEF Queue
    <3> QED BY <1>3, <2>2, <3>1, <3>2, <3>3
  <2> QED BY <2>1, <2>2
<1>10. QueuedInv'
  <2> SUFFICES ASSUME NEW a \in Gens, NEW b \in Gens, NEW k \in 1 .. Len(queue'[a].items)
               PROVE  /\ job'[queue'[a].items[k]] = "queued"
                      /\ \A l \in 1 .. Len(queue'[b].items) :
                            queue'[a].items[k] = queue'[b].items[l] => a = b /\ k = l
    BY DEF QueuedInv
  <2>1. PICK x \in 1 .. Len(queue[a].items) :
          /\ queue'[a].items[k] = queue[a].items[x] /\ x = (IF a = g THEN k + 1 ELSE k)
          /\ queue[a].items[x] # j /\ queue[a].items[x] \in Jobs
    BY <1>9
  <2>2. job'[queue'[a].items[k]] = "queued"
    BY <1>7, <2>1 DEF TurnInv, QueuedInv
  <2>3. ASSUME NEW l \in 1 .. Len(queue'[b].items), queue'[a].items[k] = queue'[b].items[l]
        PROVE  a = b /\ k = l
    <3>1. PICK y \in 1 .. Len(queue[b].items) :
            queue'[b].items[l] = queue[b].items[y] /\ y = (IF b = g THEN l + 1 ELSE l)
      BY <1>9
    <3>2. a = b /\ x = y
      BY <2>1, <2>3, <3>1 DEF TurnInv, QueuedInv
    <3> QED BY <2>1, <3>1, <3>2
  <2> QED BY <2>2, <2>3
<1>11. \A u \in Tasks \ {t} : Busy(u) => task[u].job # j
  BY <1>4 DEF TurnInv, RunningInv
<1>12. \A u \in Tasks \ {t} : Busy(u)' = Busy(u)
  BY <1>6 DEF Busy
<1>13. RunningInv'
  BY <1>1, <1>3, <1>4, <1>6, <1>7, <1>11, <1>12 DEF TurnInv, RunningInv
<1>14. GenInv'
  BY <1>1, <1>6 DEF TurnInv, GenInv
<1>15. AtMostOnce'
  BY <1>1, <1>4, <1>7 DEF TurnInv, AtMostOnce
<1> QED BY <1>8, <1>10, <1>13, <1>14, <1>15 DEF TurnInv

\* The end of a job touches no items.
LEMMA DoneQueue ==
    ASSUME TurnInv, NEW t \in Tasks, NEW status, TaskDone(t, status)
    PROVE  /\ queue' \in [Gens -> Queue] /\ \A g \in Gens : queue'[g].items = queue[g].items
           /\ Kill(t) \/ Loop(t, current)
<1>1. queue \in [Gens -> Queue] /\ current \in 0 .. MaxGens
  BY DEF TurnInv, WorkerTypeOK
<1>2. CASE current # None /\ queue[current].unfinished > 0
  <2>1. current \in Gens
    BY <1>1, <1>2, CaptureWorkerAssumption DEF None, Gens
  <2>2. queue' = [queue EXCEPT ![current].unfinished = @ - 1]
    BY <1>2 DEF TaskDone
  <2>3. queue[current] \in Queue /\ queue[current].unfinished - 1 \in Nat
    BY <1>1, <1>2, <2>1 DEF Queue
  <2>4. queue' \in [Gens -> Queue] /\ \A g \in Gens : queue'[g].items = queue[g].items
    BY <1>1, <2>1, <2>2, <2>3 DEF Queue
  <2> QED BY <2>4 DEF TaskDone
<1>3. CASE ~(current # None /\ queue[current].unfinished > 0)
  BY <1>1, <1>3 DEF TaskDone
<1> QED BY <1>2, <1>3

\* A turn leaves the hands of its consumer for good.
LEMMA TurnEnd ==
    ASSUME TurnInv, NEW t \in Tasks, EndJob(t)
    PROVE  TurnInv'
<1>1. PICK status \in Outcomes(t) : job' = [job EXCEPT ![task[t].job] = status] /\ TaskDone(t, status)
  BY DEF EndJob
<1>2. Busy(t) /\ UNCHANGED <<current, tasks, gens, committed, stopping, drain, alive>>
  BY DEF EndJob, Busy
<1>3. status \in Finished \union {"cancelled"}
  BY DEF Outcomes, Finished
<1> DEFINE j == task[t].job
<1>4. j \in Jobs /\ job[j] = "running" /\ \A u \in Tasks : Busy(u) /\ task[u].job = j => u = t
  BY <1>2 DEF TurnInv, RunningInv
<1>5. job'[j] = status /\ \A i \in Jobs \ {j} : job'[i] = job[i]
  BY <1>1, <1>4 DEF TurnInv, WorkerTypeOK
<1>6. job' \in [Jobs -> Finished \union {"new", "queued", "dropped", "running", "cancelled"}]
  BY <1>1, <1>3, <1>4 DEF TurnInv, WorkerTypeOK
<1>7. /\ queue' \in [Gens -> Queue] /\ \A g \in Gens : queue'[g].items = queue[g].items
      /\ task' \in [Tasks -> Task] /\ task'[t].pc \in {"done", "get"}
      /\ task'[t].pc = "get" => task'[t].from \in Gens
      /\ \A u \in Tasks \ {t} : task'[u] = task[u]
  BY <1>1, DoneQueue, NextTask
<1> HIDE DEF j
<1>8. WorkerTypeOK'
  BY <1>2, <1>6, <1>7 DEF TurnInv, WorkerTypeOK
<1>9. \A g \in Gens : \A k \in 1 .. Len(queue[g].items) :
         queue[g].items[k] \in Jobs /\ queue[g].items[k] # j
  <2>1. \A g \in Gens : queue[g].items \in Seq(Jobs)
    BY DEF TurnInv, WorkerTypeOK, Queue
  <2> QED BY <1>4, <2>1 DEF TurnInv, QueuedInv
<1>10. QueuedInv'
  BY <1>5, <1>7, <1>9 DEF TurnInv, QueuedInv
<1>11. \A u \in Tasks : Busy(u)' => u # t /\ Busy(u) /\ task'[u] = task[u]
  BY <1>7 DEF Busy
<1>12. RunningInv'
  BY <1>2, <1>4, <1>5, <1>11 DEF TurnInv, RunningInv
<1>13. GenInv'
  BY <1>2, <1>7 DEF TurnInv, GenInv
<1>14. AtMostOnce'
  <2>1. status \notin {"new", "queued", "dropped"}
    BY <1>3 DEF Finished
  <2> QED BY <1>2, <1>4, <1>5, <2>1 DEF TurnInv, AtMostOnce
<1> QED BY <1>8, <1>10, <1>12, <1>13, <1>14 DEF TurnInv

\* What ensure_started does to the tasks: it starts some and disturbs no busy one.
LEMMA Started ==
    ASSUME TurnInv, NEW j \in Jobs, Enqueue(j)
    PROVE  /\ Target \in Gens /\ task' \in [Tasks -> Task]
           /\ \A t \in Tasks : task'[t] = task[t] \/ task'[t] = [Unborn EXCEPT !.pc = "new"]
           /\ \A t \in Tasks : Busy(t)' => Busy(t) /\ task'[t] = task[t]
           /\ \A t \in Tasks : task'[t].pc = "get" => task'[t] = task[t]
<1>1. Target \in Gens
  BY DEF Enqueue
<1>2. \A t \in Tasks : task'[t] = task[t] \/ task'[t] = [Unborn EXCEPT !.pc = "new"]
  BY DEF Enqueue
<1>3. [Unborn EXCEPT !.pc = "new"].pc = "new"
  BY DEF Unborn
<1>4. task \in [Tasks -> Task] /\ task' \in [Tasks -> Task]
  <2>1. task \in [Tasks -> Task]
    BY DEF TurnInv, WorkerTypeOK
  <2>2. task' = [t \in Tasks |-> task'[t]]
    BY <2>1 DEF Enqueue
  <2>3. \A t \in Tasks : task'[t] \in Task
    BY <1>2, <2>1, RecordTypes
  <2> QED BY <2>1, <2>2, <2>3
<1> QED BY <1>1, <1>2, <1>3, <1>4 DEF Busy

\* A new turn enters one queue, or is dropped.
LEMMA TurnEnqueue ==
    ASSUME TurnInv, NEW j \in Jobs, Enqueue(j)
    PROVE  TurnInv'
<1>1. /\ job[j] = "new" /\ current' = Target /\ tasks' = (IF NeedsStart THEN Target ELSE tasks)
      /\ gens' = (IF NeedsStart THEN Target ELSE gens)
      /\ UNCHANGED <<committed, stopping, drain, alive>>
  BY DEF Enqueue
<1>2. Target \in Gens /\ Target = (IF NeedsStart THEN gens + 1 ELSE current)
  BY DEF Enqueue, Target
<1>3. /\ queue \in [Gens -> Queue] /\ \A g \in Gens : Len(queue[g].items) <= MaxSize /\ queue[g].items \in Seq(Jobs)
      /\ job \in [Jobs -> Finished \union {"new", "queued", "dropped", "running", "cancelled"}]
  BY DEF TurnInv, WorkerTypeOK, Queue
<1>4. GenInv'
  <2>1. gens \in 0 .. MaxGens /\ current \in 0 .. MaxGens /\ tasks \in 0 .. MaxGens
    BY DEF TurnInv, WorkerTypeOK
  <2>2. \A t \in Tasks : task'[t].pc = "get" => task'[t].from \in Gens
    BY Started DEF TurnInv, GenInv
  <2>3. tasks' <= gens' /\ current' <= gens' /\ (stopping' # None => gens' > 0)
    BY <1>1, <1>2, <2>1, CaptureWorkerAssumption DEF TurnInv, GenInv, None
  <2> QED BY <2>2, <2>3 DEF GenInv
<1>5. gens' \in 0 .. MaxGens /\ tasks' \in 0 .. MaxGens /\ current' \in 0 .. MaxGens
  BY <1>1, <1>2, CaptureWorkerAssumption DEF TurnInv, WorkerTypeOK, Gens
<1>6. \A g \in Gens : \A k \in 1 .. Len(queue[g].items) :
         queue[g].items[k] \in Jobs /\ queue[g].items[k] # j
  BY <1>1, <1>3 DEF TurnInv, QueuedInv
<1>7. ASSUME NEW to \in {"queued", "dropped"}, job' = [job EXCEPT ![j] = to]
      PROVE  RunningInv' /\ AtMostOnce' /\ job' \in
                 [Jobs -> Finished \union {"new", "queued", "dropped", "running", "cancelled"}]
  <2>1. job'[j] = to /\ \A i \in Jobs \ {j} : job'[i] = job[i]
    BY <1>3, <1>7
  <2>2. RunningInv'
    BY <1>1, <2>1, Started DEF TurnInv, RunningInv
  <2>3. AtMostOnce'
    BY <1>1, <2>1 DEF TurnInv, AtMostOnce
  <2> QED BY <1>3, <1>7, <2>2, <2>3
<1>8. CASE Room(Target)
  <2> DEFINE s == queue[Target].items
  <2>1. /\ queue' = [queue EXCEPT ![Target].items = Append(@, j), ![Target].unfinished = @ + 1]
        /\ job' = [job EXCEPT ![j] = "queued"]
    BY <1>8 DEF Enqueue
  <2>2. /\ Append(s, j) \in Seq(Jobs) /\ Len(s) \in Nat /\ Len(Append(s, j)) = Len(s) + 1
        /\ Append(s, j)[Len(s) + 1] = j
        /\ \A k \in 1 .. Len(s) : Append(s, j)[k] = s[k]
    BY <1>2, <1>3, AppendFacts
  <2>3. /\ queue' \in [Gens -> Queue] /\ queue'[Target].items = Append(s, j)
        /\ \A g \in Gens \ {Target} : queue'[g] = queue[g]
    <3>1. queue[Target] \in Queue /\ queue[Target].unfinished + 1 \in Nat
      BY <1>2, <1>3 DEF Queue
    <3> QED BY <1>2, <1>3, <2>1, <2>2, <3>1 DEF Queue
  <2>4. job'[j] = "queued" /\ \A i \in Jobs \ {j} : job'[i] = job[i]
    BY <1>3, <2>1
  <2>5. \A g \in Gens : \A k \in 1 .. Len(queue'[g].items) :
           \/ k \in 1 .. Len(queue[g].items) /\ queue'[g].items[k] = queue[g].items[k]
           \/ g = Target /\ k = Len(s) + 1 /\ queue'[g].items[k] = j
    <3> TAKE g \in Gens
    <3> TAKE k \in 1 .. Len(queue'[g].items)
    <3>1. CASE g = Target
      <4> DEFINE a == Append(s, j)
      <4>1. k \in 1 .. Len(a) /\ queue'[g].items = a
        BY <2>3, <3>1
      <4> HIDE DEF a
      <4>2. CASE k \in 1 .. Len(s)
        BY <2>2, <3>1, <4>1, <4>2 DEF a
      <4>3. CASE k \notin 1 .. Len(s)
        <5>1. k = Len(s) + 1
          BY <2>2, <4>1, <4>3 DEF a
        <5> QED BY <2>2, <3>1, <4>1, <5>1 DEF a
      <4> QED BY <4>2, <4>3
    <3>2. CASE g # Target
      BY <2>3, <3>2
    <3> QED BY <3>1, <3>2
  <2> HIDE DEF s
  <2>6. QueuedInv'
    <3> SUFFICES ASSUME NEW a \in Gens, NEW b \in Gens, NEW k \in 1 .. Len(queue'[a].items)
                 PROVE  /\ job'[queue'[a].items[k]] = "queued"
                        /\ \A l \in 1 .. Len(queue'[b].items) :
                              queue'[a].items[k] = queue'[b].items[l] => a = b /\ k = l
      BY DEF QueuedInv
    <3>1. job'[queue'[a].items[k]] = "queued"
      <4>1. CASE k \in 1 .. Len(queue[a].items) /\ queue'[a].items[k] = queue[a].items[k]
        <5>1. job[queue[a].items[k]] = "queued" /\ queue[a].items[k] \in Jobs \ {j}
          BY <1>6, <4>1 DEF TurnInv, QueuedInv
        <5> QED BY <2>4, <4>1, <5>1
      <4> QED BY <2>4, <2>5, <4>1
    <3>2. ASSUME NEW l \in 1 .. Len(queue'[b].items), queue'[a].items[k] = queue'[b].items[l]
          PROVE  a = b /\ k = l
      <4>1. CASE /\ k \in 1 .. Len(queue[a].items) /\ queue'[a].items[k] = queue[a].items[k]
                 /\ l \in 1 .. Len(queue[b].items) /\ queue'[b].items[l] = queue[b].items[l]
        <5>1. queue[a].items[k] = queue[b].items[l]
          BY <3>2, <4>1
        <5>2. QueuedInv
          BY DEF TurnInv
        <5> QED BY <4>1, <5>1, <5>2 DEF QueuedInv
      <4>2. CASE queue'[a].items[k] = j
        <5>1. queue'[b].items[l] = j /\ (l \in 1 .. Len(queue[b].items) => queue[b].items[l] # j)
          BY <1>6, <3>2, <4>2
        <5>2. k \in 1 .. Len(queue[a].items) => queue[a].items[k] # j
          BY <1>6
        <5>3. b = Target /\ l = Len(s) + 1
          BY <2>5, <5>1
        <5>4. a = Target /\ k = Len(s) + 1
          BY <2>5, <4>2, <5>2
        <5> QED BY <5>3, <5>4
      <4>3. CASE queue'[b].items[l] = j
        BY <3>2, <4>2, <4>3
      <4>4. \/ k \in 1 .. Len(queue[a].items) /\ queue'[a].items[k] = queue[a].items[k]
            \/ queue'[a].items[k] = j
        BY <2>5
      <4>5. \/ l \in 1 .. Len(queue[b].items) /\ queue'[b].items[l] = queue[b].items[l]
            \/ queue'[b].items[l] = j
        BY <2>5
      <4> QED BY <4>1, <4>2, <4>3, <4>4, <4>5
    <3> QED BY <3>1, <3>2
  <2>7. \A g \in Gens : Len(queue'[g].items) <= MaxSize
    <3>1. Len(queue'[Target].items) <= MaxSize
      BY <1>8, <2>2, <2>3, CaptureWorkerAssumption DEF Room, s
    <3> QED BY <1>3, <2>3, <3>1
  <2>8. WorkerTypeOK'
    BY <1>1, <1>5, <1>7, <2>1, <2>3, <2>7, Started DEF TurnInv, WorkerTypeOK
  <2> QED BY <1>4, <1>7, <2>1, <2>6, <2>8 DEF TurnInv
<1>9. CASE ~Room(Target)
  <2>1. job' = [job EXCEPT ![j] = "dropped"] /\ queue' = queue
    BY <1>9 DEF Enqueue
  <2>2. QueuedInv'
    BY <1>3, <1>6, <2>1 DEF TurnInv, QueuedInv
  <2>3. WorkerTypeOK'
    BY <1>1, <1>5, <1>7, <2>1, Started DEF TurnInv, WorkerTypeOK
  <2> QED BY <1>4, <1>7, <2>1, <2>2, <2>3 DEF TurnInv
<1> QED BY <1>8, <1>9

\* stop(), drain() and the exit mark tasks and forget queues; they touch no turn.
LEMMA TurnRest ==
    ASSUME TurnInv, Stop \/ StopReturns \/ Drain \/ DrainReturns \/ Exit \/ UNCHANGED workerVars
    PROVE  TurnInv'
<1> DEFINE Drains == [pc : {"idle", "join", "true", "false"}, of : 0 .. MaxGens, before : SUBSET Jobs]
<1>1. /\ task \in [Tasks -> Task] /\ drain \in Drains /\ alive \in BOOLEAN /\ current \in 0 .. MaxGens
      /\ \A t \in Tasks : task[t].pc = "get" => task[t].from \in Gens
  BY DEF TurnInv, WorkerTypeOK, GenInv
<1>2. ASSUME NEW t \in Tasks, task'[t] \in {task[t], [task[t] EXCEPT !.cancel = TRUE]}
      PROVE  /\ task'[t] \in Task /\ task'[t].pc = task[t].pc /\ task'[t].job = task[t].job
             /\ task'[t].from = task[t].from
  <2>1. task[t] \in Task
    BY <1>1
  <2> QED BY <1>2, <2>1 DEF Task
<1>3. \A t \in Tasks : task'[t] \in {task[t], [task[t] EXCEPT !.cancel = TRUE]}
  BY DEF Stop, StopReturns, Drain, DrainReturns, Exit, workerVars, Cancelled
<1>4. task' = [t \in Tasks |-> task'[t]]
  BY <1>1 DEF Stop, StopReturns, Drain, DrainReturns, Exit, workerVars, Cancelled
<1>5. task' \in [Tasks -> Task]
  BY <1>2, <1>3, <1>4
<1>6. drain' \in Drains
  BY <1>1 DEF Stop, StopReturns, Drain, DrainReturns, Exit, workerVars, Accepted
<1>7. /\ gens' = gens /\ tasks' \in {tasks, None} /\ current' \in {current, None}
      /\ stopping' \in {stopping, tasks, None} /\ alive' \in BOOLEAN
      /\ UNCHANGED <<queue, job, committed>>
  BY <1>1 DEF Stop, StopReturns, Drain, DrainReturns, Exit, workerVars
<1>8. /\ \A t \in Tasks : Busy(t)' => task'[t].pc = task[t].pc /\ task'[t].job = task[t].job
      /\ \A t \in Tasks : task'[t].pc = "get" => task'[t].from \in Gens
  BY <1>1, <1>2, <1>3
<1> QED BY <1>5, <1>6, <1>7, <1>8, IdleStep

\* Every step keeps the turns in their places.
LEMMA TurnNext == TurnInv /\ [WorkerNext]_workerVars => TurnInv'
  BY TurnEnqueue, TurnBegin, TurnGet, TurnCommit, TurnEnd, TurnRest DEF WorkerNext, Consume

\* The inductive invariant holds in every state of the worker.
LEMMA TurnAlways == WorkerSpec => []TurnInv
  BY WorkerInitInv, TurnNext, PTL DEF WorkerSpec

\* No queue ever holds more than CAPTURE_QUEUE_MAXSIZE turns and no join counter
\* drops below zero, however often the worker is stopped and started (task_done on
\* a queue the consumer did not take its turn from).
THEOREM WorkerTypes == WorkerSpec => []WorkerTypeOK
<1>1. TurnInv => WorkerTypeOK
  BY DEF TurnInv
<1> QED BY <1>1, TurnAlways, PTL

\* The writes of a turn are committed at most once, and those of a turn never
\* taken from the queue not at all, for any number of turns, consumers, restarts of
\* the worker and stops in between (_consume, _run_job: nothing is retried).
THEOREM WritesOnce == WorkerSpec => []AtMostOnce
<1>1. TurnInv => AtMostOnce
  BY DEF TurnInv
<1> QED BY <1>1, TurnAlways, PTL

-----------------------------------------------------------------------------
(* What the join counter counts. *)

\* Whoever has never been stopped was not stopped a step ago either.
LEMMA ServedBefore ==
    ASSUME TurnInv, WorkerNext, NeverStopped', alive'
    PROVE  NeverStopped /\ alive = TRUE
<1>1. /\ gens \in Nat /\ tasks \in Nat /\ current \in Nat /\ stopping \in Nat
      /\ tasks <= gens /\ (stopping # None => gens > 0) /\ alive \in BOOLEAN
  BY CaptureWorkerAssumption DEF TurnInv, WorkerTypeOK, GenInv
<1>2. alive = TRUE
  BY <1>1 DEF WorkerNext, Consume, Enqueue, Begin, Get, CommitWrites, EndJob, CancelGet, Stop,
     StopReturns, Drain, DrainReturns, Exit
<1>3. CASE \E j \in Jobs : Enqueue(j)
  <2>1. CASE NeedsStart
    <3>1. gens' = gens + 1 /\ stopping' = stopping
      BY <1>3, <2>1 DEF Enqueue, Target
    <3> QED BY <1>1, <1>2, <3>1 DEF NeverStopped, None
  <2>2. CASE ~NeedsStart
    BY <1>2, <1>3, <2>2 DEF Enqueue, NeverStopped
  <2> QED BY <2>1, <2>2
<1>4. CASE StopReturns
  <2>1. gens > 0 /\ tasks' = 0 /\ gens' = gens
    BY <1>1, <1>4 DEF StopReturns, None
  <2>2. tasks' = gens'
    BY DEF NeverStopped
  <2>3. FALSE
    BY <1>1, <2>1, <2>2
  <2> QED BY <2>3
<1>5. CASE Stop
  BY <1>1, <1>5 DEF Stop, NeverStopped
<1>6. CASE (\E t \in Tasks : Consume(t)) \/ Drain \/ DrainReturns \/ Exit
  BY <1>2, <1>6 DEF Consume, Begin, Get, CommitWrites, EndJob, CancelGet, Drain, DrainReturns,
     Exit, NeverStopped
<1> QED BY <1>3, <1>4, <1>5, <1>6 DEF WorkerNext

\* A consumer gets busy, and is busy no more.
LEMMA BusyCount ==
    ASSUME NEW t \in Tasks, \A u \in Tasks \ {t} : Busy(u)' <=> Busy(u)
    PROVE  /\ Busy(t)' /\ ~Busy(t) => Cardinality(BusyTasks') = Cardinality(BusyTasks) + 1
           /\ ~Busy(t)' /\ Busy(t) => Cardinality(BusyTasks') = Cardinality(BusyTasks) - 1
           /\ (Busy(t)' <=> Busy(t)) => BusyTasks' = BusyTasks
<1>1. ASSUME Busy(t)', ~Busy(t) PROVE Cardinality(BusyTasks') = Cardinality(BusyTasks) + 1
  <2>1. BusyTasks' = BusyTasks \union {t} /\ t \notin BusyTasks
    BY <1>1 DEF BusyTasks
  <2> QED BY <2>1, TasksFinite, FS_AddElement
<1>2. ASSUME ~Busy(t)', Busy(t) PROVE Cardinality(BusyTasks') = Cardinality(BusyTasks) - 1
  <2>1. BusyTasks' = BusyTasks \ {t} /\ t \in BusyTasks
    BY <1>2 DEF BusyTasks
  <2> QED BY <2>1, TasksFinite, FS_RemoveElement
<1>3. ASSUME Busy(t)' <=> Busy(t) PROVE BusyTasks' = BusyTasks
  BY <1>3 DEF BusyTasks
<1> QED BY <1>1, <1>2, <1>3

\* No turn is unaccepted and none that finished is unfinished again.
LEMMA DrainKept ==
    ASSUME TurnInv, DrainWaits, drain' = drain,
           \A i \in Jobs : job[i] \notin {"new", "dropped"} => job'[i] \notin {"new", "dropped"},
           \A i \in Jobs : job[i] \in Finished => job'[i] \in Finished
    PROVE  DrainWaits'
<1>1. drain.before \subseteq Jobs
  BY DEF TurnInv, WorkerTypeOK
<1>2. Accepted \subseteq Accepted'
  BY DEF Accepted
<1> QED BY <1>1, <1>2 DEF DrainWaits

\* A consumer that starts waits on the one queue there is.
LEMMA ServingBegin ==
    ASSUME TurnInv, WhereTurnsAre, JoinCounts, DrainWaits, NeverStopped, NEW t \in Tasks, Begin(t)
    PROVE  WhereTurnsAre' /\ JoinCounts' /\ DrainWaits'
<1>1. /\ task[t].pc = "new"
      /\ Kill(t) \/ Loop(t, current)
      /\ UNCHANGED <<current, tasks, gens, queue, job, committed, stopping, drain, alive>>
  BY DEF Begin
<1>2. gens # 0
  BY <1>1 DEF WhereTurnsAre
<1>3. /\ task \in [Tasks -> Task] /\ task'[t].cancel = FALSE /\ ~Busy(t) /\ ~Busy(t)'
      /\ \A u \in Tasks \ {t} : task'[u] = task[u]
  <2>1. task \in [Tasks -> Task] /\ task[t].cancel = FALSE
    BY DEF TurnInv, WorkerTypeOK, WhereTurnsAre
  <2>2. task'[t].cancel = FALSE
    <3>1. CASE Kill(t)
      BY <2>1, <3>1 DEF Kill, Unborn
    <3>2. CASE Loop(t, current) /\ current # None
      <4> DEFINE next == [task[t] EXCEPT !.pc = "get", !.from = current, !.job = NoJob]
      <4>1. task' = [task EXCEPT ![t] = next] /\ next.cancel = task[t].cancel
        BY <2>1, <3>2 DEF Loop, Task
      <4> HIDE DEF next
      <4> QED BY <2>1, <4>1
    <3>3. CASE Loop(t, current) /\ current = None
      BY <2>1, <3>3 DEF Loop, Unborn
    <3> QED BY <1>1, <3>1, <3>2, <3>3
  <2> QED BY <1>1, <2>1, <2>2, NextTask DEF Busy
<1>4. \A u \in Tasks : (Busy(u)' <=> Busy(u)) /\ (Busy(u) => task'[u].job = task[u].job)
  BY <1>3 DEF Busy
<1>5. WhereTurnsAre'
  BY <1>1, <1>2, <1>3, <1>4 DEF WhereTurnsAre
<1>6. JoinCounts'
  BY <1>1, <1>4, BusyCount DEF JoinCounts
<1>7. DrainWaits'
  BY <1>1 DEF DrainWaits, Accepted
<1> QED BY <1>5, <1>6, <1>7

\* The head of the queue goes from waiting to in hand, and stays counted.
LEMMA ServingGet ==
    ASSUME TurnInv, WhereTurnsAre, JoinCounts, DrainWaits, NeverStopped, NEW t \in Tasks, Get(t)
    PROVE  WhereTurnsAre' /\ JoinCounts' /\ DrainWaits'
<1> DEFINE s == queue[1].items
           j == Head(s)
<1>1. /\ task[t].pc = "get" /\ queue[task[t].from].items # <<>> /\ task[t].from \in Gens
      /\ UNCHANGED <<current, tasks, gens, committed, stopping, drain, alive>>
  BY DEF Get, TurnInv, GenInv
<1>2. task[t].from = 1 /\ 1 \in Gens /\ s # <<>> /\ gens # 0
  BY <1>1, RecordTypes DEF WhereTurnsAre
<1>3. /\ queue' = [queue EXCEPT ![1].items = Tail(@)]
      /\ task' = [task EXCEPT ![t].pc = "run", ![t].job = j]
      /\ job' = [job EXCEPT ![j] = "running"]
  BY <1>2 DEF Get
<1>4. /\ queue \in [Gens -> Queue] /\ task \in [Tasks -> Task] /\ s \in Seq(Jobs)
      /\ queue[1].unfinished \in Nat
      /\ job \in [Jobs -> Finished \union {"new", "queued", "dropped", "running", "cancelled"}]
  BY <1>2 DEF TurnInv, WorkerTypeOK, Queue
<1>5. /\ j \in Jobs /\ j = s[1] /\ Len(s) \in Nat /\ Len(s) > 0 /\ Len(Tail(s)) = Len(s) - 1
      /\ \A k \in 1 .. Len(Tail(s)) : k + 1 \in 1 .. Len(s) /\ Tail(s)[k] = s[k + 1]
  BY <1>2, <1>4, QueueTail
<1>6. /\ queue'[1].items = Tail(s) /\ queue'[1].unfinished = queue[1].unfinished
      /\ \A g \in Gens : g # 1 => queue'[g].items = queue[g].items
  BY <1>2, <1>3, <1>4 DEF Queue
<1>7. /\ task'[t].pc = "run" /\ task'[t].job = j /\ task'[t].cancel = task[t].cancel
      /\ \A u \in Tasks \ {t} : task'[u] = task[u]
  BY <1>3, <1>4 DEF Task
<1>8. job'[j] = "running" /\ job[j] = "queued" /\ \A i \in Jobs \ {j} : job'[i] = job[i]
  <2>1. job[s[1]] = "queued"
    BY <1>2, <1>5 DEF TurnInv, QueuedInv
  <2> QED BY <1>3, <1>4, <1>5, <2>1
<1>9. Busy(t)' /\ ~Busy(t) /\ \A u \in Tasks \ {t} : Busy(u)' <=> Busy(u)
  BY <1>1, <1>7 DEF Busy
<1>10. ASSUME NEW i \in Jobs, job'[i] = "queued"
       PROVE  \E k \in 1 .. Len(queue'[1].items) : queue'[1].items[k] = i
  <2>1. i # j /\ job[i] = "queued"
    BY <1>8, <1>10
  <2>2. PICK k \in 1 .. Len(s) : s[k] = i
    BY <2>1 DEF WhereTurnsAre
  <2>3. k - 1 \in 1 .. Len(Tail(s)) /\ Tail(s)[k - 1] = s[k]
    <3>1. k # 1
      BY <1>5, <2>1, <2>2
    <3>2. k - 1 \in 1 .. Len(Tail(s))
      BY <1>5, <3>1
    <3> QED BY <1>5, <3>2
  <2> QED BY <1>6, <2>2, <2>3
<1>11. ASSUME NEW i \in Jobs, job'[i] = "running"
       PROVE  \E u \in Tasks : Busy(u)' /\ task'[u].job = i
  <2>1. CASE i = j
    BY <1>7, <1>9, <2>1
  <2>2. CASE i # j
    <3>1. PICK u \in Tasks : Busy(u) /\ task[u].job = i
      BY <1>8, <1>11, <2>2 DEF WhereTurnsAre
    <3> QED BY <1>7, <1>9, <3>1
  <2> QED BY <2>1, <2>2
<1> HIDE DEF j, s
<1>12. WhereTurnsAre'
  <2>1. \A i \in Jobs : job'[i] # "cancelled"
    BY <1>8 DEF WhereTurnsAre
  <2>2. \A u \in Tasks : task'[u].cancel = FALSE
    BY <1>7 DEF WhereTurnsAre
  <2>3. current' = gens' /\ gens' # 0 /\ \A g \in Gens : g # 1 => queue'[g].items = <<>>
    BY <1>1, <1>2, <1>6 DEF WhereTurnsAre
  <2> QED BY <1>10, <1>11, <2>1, <2>2, <2>3 DEF WhereTurnsAre
<1>13. JoinCounts'
  <2>1. Cardinality(BusyTasks') = Cardinality(BusyTasks) + 1 /\ Cardinality(BusyTasks) \in Nat
    BY <1>9, BusyCount, TasksFinite
  <2> QED BY <1>4, <1>5, <1>6, <2>1 DEF JoinCounts, s
<1>14. DrainWaits'
  <2>1. \A i \in Jobs : job'[i] = job[i] \/ (job[i] = "queued" /\ job'[i] = "running")
    BY <1>8
  <2> QED BY <1>1, <2>1, DrainKept DEF Finished
<1> QED BY <1>12, <1>13, <1>14

\* The commit changes nothing that is counted.
LEMMA ServingCommit ==
    ASSUME TurnInv, WhereTurnsAre, JoinCounts, DrainWaits, NEW t \in Tasks, CommitWrites(t)
    PROVE  WhereTurnsAre' /\ JoinCounts' /\ DrainWaits'
<1>1. /\ task[t].pc = "run" /\ task' = [task EXCEPT ![t].pc = "commit"]
      /\ UNCHANGED <<current, tasks, gens, queue, job, stopping, drain, alive>>
  BY DEF CommitWrites
<1>2. /\ task'[t].pc = "commit" /\ task'[t].job = task[t].job /\ task'[t].cancel = task[t].cancel
      /\ \A u \in Tasks \ {t} : task'[u] = task[u]
  <2>1. task \in [Tasks -> Task]
    BY DEF TurnInv, WorkerTypeOK
  <2> QED BY <1>1, <2>1 DEF Task
<1>3. \A u \in Tasks : (Busy(u)' <=> Busy(u)) /\ task'[u].job = task[u].job
  BY <1>1, <1>2 DEF Busy
<1>4. gens # 0
  BY <1>1 DEF WhereTurnsAre
<1>5. WhereTurnsAre'
  BY <1>1, <1>2, <1>3, <1>4 DEF WhereTurnsAre
<1>6. JoinCounts'
  BY <1>1, <1>3, BusyCount DEF JoinCounts
<1>7. DrainWaits'
  BY <1>1 DEF DrainWaits, Accepted
<1> QED BY <1>5, <1>6, <1>7

\* A turn that ends is finished, and task_done() takes it off the counter.
LEMMA ServingEnd ==
    ASSUME TurnInv, WhereTurnsAre, JoinCounts, DrainWaits, NeverStopped, NEW t \in Tasks, EndJob(t)
    PROVE  WhereTurnsAre' /\ JoinCounts' /\ DrainWaits'
<1> DEFINE j == task[t].job
<1>1. /\ Busy(t) /\ task[t].cancel = FALSE
      /\ UNCHANGED <<current, tasks, gens, committed, stopping, drain, alive>>
  BY DEF EndJob, Busy, WhereTurnsAre
<1>2. PICK status \in Finished : job' = [job EXCEPT ![j] = status] /\ TaskDone(t, status)
  BY <1>1 DEF EndJob, Outcomes, Finished
<1>3. gens = 1 /\ current = 1 /\ 1 \in Gens /\ gens # 0
  <2>1. gens # 0 /\ gens <= 1 /\ gens \in 0 .. MaxGens /\ current = gens
    BY <1>1 DEF WhereTurnsAre, NeverStopped, Busy, TurnInv, WorkerTypeOK
  <2> QED BY <2>1, RecordTypes, CaptureWorkerAssumption
<1>4. /\ queue \in [Gens -> Queue] /\ task \in [Tasks -> Task] /\ Len(queue[1].items) \in Nat
      /\ queue[1].unfinished \in Nat
      /\ job \in [Jobs -> Finished \union {"new", "queued", "dropped", "running", "cancelled"}]
  BY <1>3 DEF TurnInv, WorkerTypeOK, Queue
<1>5. Cardinality(BusyTasks) \in Nat /\ Cardinality(BusyTasks) # 0 /\ queue[1].unfinished > 0
  <2>1. Cardinality(BusyTasks) \in Nat /\ Cardinality(BusyTasks) # 0
    BY <1>1, TasksFinite DEF BusyTasks
  <2> QED BY <1>4, <2>1 DEF JoinCounts
<1>6. queue' = [queue EXCEPT ![1].unfinished = @ - 1] /\ Loop(t, current)
  BY <1>2, <1>3, <1>5 DEF TaskDone, None, Finished
<1>7. /\ \A g \in Gens : queue'[g].items = queue[g].items
      /\ queue'[1].unfinished = queue[1].unfinished - 1
  BY <1>3, <1>4, <1>6 DEF Queue
<1>8. /\ task'[t].pc = "get" /\ task'[t].cancel = FALSE
      /\ \A u \in Tasks \ {t} : task'[u] = task[u]
  <2> DEFINE next == [task[t] EXCEPT !.pc = "get", !.from = current, !.job = NoJob]
  <2>1. next.pc = "get" /\ next.cancel = task[t].cancel
    BY <1>4 DEF Task
  <2>2. task' = [task EXCEPT ![t] = next]
    BY <1>3, <1>6 DEF Loop, None
  <2> HIDE DEF next
  <2> QED BY <1>1, <1>4, <2>1, <2>2
<1>9. j \in Jobs /\ job[j] = "running" /\ \A u \in Tasks : Busy(u) /\ task[u].job = j => u = t
  BY <1>1 DEF TurnInv, RunningInv
<1>10. job'[j] = status /\ \A i \in Jobs \ {j} : job'[i] = job[i]
  BY <1>2, <1>4, <1>9
<1>11. ~Busy(t)' /\ \A u \in Tasks \ {t} : Busy(u)' <=> Busy(u)
  BY <1>8 DEF Busy
<1> HIDE DEF j
<1>12. ASSUME NEW i \in Jobs, job'[i] = "running"
       PROVE  \E u \in Tasks : Busy(u)' /\ task'[u].job = i
  <2>1. i # j /\ job[i] = "running"
    BY <1>10, <1>12 DEF Finished
  <2>2. PICK u \in Tasks : Busy(u) /\ task[u].job = i
    BY <2>1 DEF WhereTurnsAre
  <2>3. u # t
    BY <2>1, <2>2 DEF j
  <2> QED BY <1>8, <1>11, <2>2, <2>3
<1>13. WhereTurnsAre'
  <2>1. \A i \in Jobs : job'[i] # "cancelled" /\ (job'[i] = "queued" => job[i] = "queued")
    BY <1>10 DEF WhereTurnsAre, Finished
  <2>2. \A u \in Tasks : task'[u].cancel = FALSE
    BY <1>8 DEF WhereTurnsAre
  <2>3. current' = gens' /\ gens' # 0 /\ \A g \in Gens : g # 1 => queue'[g].items = <<>>
    BY <1>1, <1>3, <1>7 DEF WhereTurnsAre
  <2>4. \A i \in Jobs : job'[i] = "queued" =>
           \E k \in 1 .. Len(queue'[1].items) : queue'[1].items[k] = i
    BY <1>3, <1>7, <2>1 DEF WhereTurnsAre
  <2> QED BY <1>12, <2>1, <2>2, <2>3, <2>4 DEF WhereTurnsAre
<1>14. JoinCounts'
  <2>1. Cardinality(BusyTasks') = Cardinality(BusyTasks) - 1
    BY <1>1, <1>11, BusyCount
  <2> QED BY <1>3, <1>4, <1>5, <1>7, <2>1 DEF JoinCounts
<1>15. DrainWaits'
  <2>1. \A i \in Jobs : job'[i] = job[i] \/ job'[i] \in Finished
    BY <1>10
  <2> QED BY <1>1, <2>1, DrainKept DEF Finished
<1> QED BY <1>13, <1>14, <1>15

\* The first turn starts the consumers; every turn accepted is counted.
LEMMA ServingEnqueue ==
    ASSUME TurnInv, WhereTurnsAre, JoinCounts, DrainWaits, NeverStopped, NeverStopped',
           NEW j \in Jobs, Enqueue(j)
    PROVE  WhereTurnsAre' /\ JoinCounts' /\ DrainWaits'
<1>1. /\ job[j] = "new" /\ Target \in Gens /\ current' = Target
      /\ gens' = (IF NeedsStart THEN Target ELSE gens)
      /\ UNCHANGED <<committed, stopping, drain, alive>>
  BY DEF Enqueue
<1>2. Target = 1 /\ 1 \in Gens /\ gens' = 1
  <2>1. gens' <= 1 /\ gens <= 1 /\ gens \in Nat /\ current = gens
    BY CaptureWorkerAssumption DEF NeverStopped, WhereTurnsAre, TurnInv, WorkerTypeOK
  <2>2. Target \in Nat \ {0}
    BY <1>1, CaptureWorkerAssumption DEF Gens
  <2>3. CASE NeedsStart
    BY <1>1, <2>1, <2>2, <2>3, RecordTypes
  <2>4. CASE ~NeedsStart
    <3>1. Target = current /\ gens' = gens
      BY <1>1, <2>4 DEF Target
    <3> QED BY <2>1, <2>2, <3>1, RecordTypes
  <2> QED BY <2>3, <2>4
<1>3. \A t \in Tasks : task'[t].cancel = FALSE
  <2>1. [Unborn EXCEPT !.pc = "new"].cancel = FALSE
    BY DEF Unborn
  <2> QED BY <2>1, Started DEF WhereTurnsAre
<1>4. \A t \in Tasks : (Busy(t)' <=> Busy(t)) /\ (Busy(t) => task'[t].job = task[t].job)
  <2>1. CASE NeedsStart /\ tasks = None
    <3>1. gens = 0
      BY <2>1 DEF NeverStopped, None
    <3> QED BY <3>1, Started DEF WhereTurnsAre, Busy
  <2>2. CASE NeedsStart /\ tasks # None
    <3>1. gens' = gens + 1 /\ gens = tasks
      BY <1>1, <2>2 DEF Target, NeverStopped
    <3>2. gens \in Nat \ {0}
      BY <2>2, <3>1, CaptureWorkerAssumption DEF None, TurnInv, WorkerTypeOK
    <3> QED BY <1>2, <3>1, <3>2
  <2>3. CASE ~NeedsStart
    <3>1. task' = task
      BY <2>3 DEF Enqueue
    <3> QED BY <3>1 DEF Busy
  <2> QED BY <2>1, <2>2, <2>3
<1>5. /\ queue \in [Gens -> Queue] /\ queue[1].items \in Seq(Jobs) /\ queue[1].unfinished \in Nat
      /\ job \in [Jobs -> Finished \union {"new", "queued", "dropped", "running", "cancelled"}]
  BY <1>2 DEF TurnInv, WorkerTypeOK, Queue
<1>6. BusyTasks' = BusyTasks
  BY <1>4 DEF BusyTasks
<1>7. ASSUME NEW to \in {"queued", "dropped"}, job' = [job EXCEPT ![j] = to],
             \A g \in Gens : g # 1 => queue'[g].items = queue[g].items,
             \A k \in 1 .. Len(queue[1].items) :
                k \in 1 .. Len(queue'[1].items) /\ queue'[1].items[k] = queue[1].items[k],
             to = "queued" => \E k \in 1 .. Len(queue'[1].items) : queue'[1].items[k] = j
      PROVE  WhereTurnsAre' /\ DrainWaits'
  <2>1. job'[j] = to /\ \A i \in Jobs \ {j} : job'[i] = job[i]
    BY <1>5, <1>7
  <2>2. \A i \in Jobs : job'[i] = "queued" =>
           \E k \in 1 .. Len(queue'[1].items) : queue'[1].items[k] = i
    BY <1>7, <2>1 DEF WhereTurnsAre
  <2>3. \A i \in Jobs : job'[i] = "running" => \E t \in Tasks : Busy(t)' /\ task'[t].job = i
    <3> SUFFICES ASSUME NEW i \in Jobs, job'[i] = "running"
                 PROVE  \E t \in Tasks : Busy(t)' /\ task'[t].job = i
      OBVIOUS
    <3>1. job[i] = "running"
      BY <2>1
    <3>2. PICK t \in Tasks : Busy(t) /\ task[t].job = i
      BY <3>1 DEF WhereTurnsAre
    <3> QED BY <1>4, <3>2
  <2>4. \A i \in Jobs : job'[i] # "cancelled"
    BY <2>1 DEF WhereTurnsAre
  <2>5. current' = gens' /\ gens' # 0 /\ \A g \in Gens : g # 1 => queue'[g].items = <<>>
    BY <1>1, <1>2, <1>7 DEF WhereTurnsAre
  <2>6. WhereTurnsAre'
    BY <1>3, <2>2, <2>3, <2>4, <2>5 DEF WhereTurnsAre
  <2>7. DrainWaits'
    BY <1>1, <2>1, DrainKept DEF Finished
  <2> QED BY <2>6, <2>7
<1>8. CASE Room(Target)
  <2> DEFINE s == queue[1].items
  <2>1. /\ queue' = [queue EXCEPT ![1].items = Append(@, j), ![1].unfinished = @ + 1]
        /\ job' = [job EXCEPT ![j] = "queued"]
    BY <1>2, <1>8 DEF Enqueue
  <2>2. /\ Len(s) \in Nat /\ Len(Append(s, j)) = Len(s) + 1 /\ Append(s, j)[Len(s) + 1] = j
        /\ \A k \in 1 .. Len(s) : Append(s, j)[k] = s[k]
    BY <1>5, AppendFacts
  <2>3. /\ queue'[1].items = Append(s, j) /\ queue'[1].unfinished = queue[1].unfinished + 1
        /\ \A g \in Gens : g # 1 => queue'[g].items = queue[g].items
    BY <1>2, <1>5, <2>1 DEF Queue
  <2> HIDE DEF s
  <2>4. /\ \A k \in 1 .. Len(s) :
              k \in 1 .. Len(queue'[1].items) /\ queue'[1].items[k] = s[k]
        /\ Len(s) + 1 \in 1 .. Len(queue'[1].items) /\ queue'[1].items[Len(s) + 1] = j
    BY <2>2, <2>3
  <2>5. JoinCounts'
    BY <1>5, <1>6, <2>2, <2>3, TasksFinite DEF JoinCounts, s
  <2> QED BY <1>7, <2>1, <2>3, <2>4, <2>5 DEF s
<1>9. CASE ~Room(Target)
  <2>1. job' = [job EXCEPT ![j] = "dropped"] /\ queue' = queue
    BY <1>9 DEF Enqueue
  <2>2. JoinCounts'
    BY <1>6, <2>1 DEF JoinCounts
  <2> QED BY <1>7, <2>1, <2>2
<1> QED BY <1>8, <1>9

\* join() returns when nothing is waiting and nothing in hand: every turn accepted
\* has then finished.
LEMMA ServingDrain ==
    ASSUME TurnInv, WhereTurnsAre, JoinCounts, DrainWaits, NeverStopped, Drain \/ DrainReturns
    PROVE  WhereTurnsAre' /\ JoinCounts' /\ DrainWaits'
<1>1. UNCHANGED <<current, tasks, gens, queue, task, job, committed, stopping, alive>>
  BY DEF Drain, DrainReturns
<1>2. WhereTurnsAre' /\ JoinCounts'
  BY <1>1 DEF WhereTurnsAre, JoinCounts, Busy, BusyTasks
<1>3. Accepted' = Accepted
  BY <1>1 DEF Accepted
<1>4. gens <= 1 /\ gens \in Nat /\ current = gens
  BY CaptureWorkerAssumption DEF NeverStopped, WhereTurnsAre, TurnInv, WorkerTypeOK
<1>5. CASE Drain
  <2>1. CASE current = None
    <3>1. gens = 0
      BY <1>4, <2>1 DEF None
    <3>2. Accepted = {}
      BY <3>1 DEF WhereTurnsAre, Accepted
    <3>3. drain'.pc = "true" /\ drain'.before = {}
      BY <1>5, <2>1, <3>2 DEF Drain
    <3> QED BY <3>3, <1>2 DEF DrainWaits
  <2>2. CASE current # None
    <3>1. current = 1
      BY <1>4, <2>2 DEF None
    <3>2. drain'.pc = "join" /\ drain'.of = 1 /\ drain'.before = Accepted
      BY <1>5, <2>2, <3>1 DEF Drain
    <3> QED BY <1>2, <1>3, <3>2 DEF DrainWaits
  <2> QED BY <2>1, <2>2
<1>6. CASE DrainReturns /\ drain' = [drain EXCEPT !.pc = "false"]
  <2>1. drain'.pc = "false"
    BY <1>6 DEF TurnInv, WorkerTypeOK
  <2> QED BY <1>2, <2>1 DEF DrainWaits
<1>7. CASE DrainReturns /\ queue[drain.of].unfinished = 0 /\ drain' = [drain EXCEPT !.pc = "true"]
  <2>1. drain'.pc = "true" /\ drain'.before = drain.before /\ drain.before \subseteq Jobs
    BY <1>7 DEF TurnInv, WorkerTypeOK
  <2>2. drain.of = 1 /\ drain.before \subseteq Accepted
    BY <1>7 DEF DrainReturns, DrainWaits
  <2>3. queue[1].items \in Seq(Jobs) /\ Len(queue[1].items) \in Nat
    BY RecordTypes DEF TurnInv, WorkerTypeOK, Queue
  <2>4. Len(queue[1].items) = 0 /\ BusyTasks = {}
    BY <1>7, <2>2, <2>3, TasksFinite DEF JoinCounts
  <2>5. \A j \in Jobs : job[j] \notin {"queued", "running", "cancelled"}
    BY <2>4 DEF WhereTurnsAre, BusyTasks
  <2>6. \A j \in Accepted : job[j] \in Finished
    BY <2>5 DEF TurnInv, WorkerTypeOK, Accepted
  <2> QED BY <1>1, <1>2, <2>1, <2>2, <2>6 DEF DrainWaits
<1> QED BY <1>5, <1>6, <1>7 DEF DrainReturns

\* Every step keeps the counter right, as long as nobody stops the worker.
LEMMA ServingNext == TurnInv /\ ServingInv /\ [WorkerNext]_workerVars => ServingInv'
<1> SUFFICES ASSUME TurnInv, ServingInv, [WorkerNext]_workerVars, NeverStopped', alive'
             PROVE  WhereTurnsAre' /\ JoinCounts' /\ DrainWaits'
  BY DEF ServingInv
<1>1. CASE UNCHANGED workerVars
  <2>1. NeverStopped /\ alive
    BY <1>1 DEF workerVars, NeverStopped
  <2> QED BY <1>1, <2>1 DEF ServingInv, workerVars, WhereTurnsAre, JoinCounts, DrainWaits,
             Busy, BusyTasks, Accepted
<1>2. CASE WorkerNext
  <2>1. NeverStopped /\ alive
    BY <1>2, ServedBefore
  <2>2. WhereTurnsAre /\ JoinCounts /\ DrainWaits
    BY <2>1 DEF ServingInv
  <2>3. ~Exit
    BY DEF Exit
  <2>4. ~Stop
    BY DEF Stop, NeverStopped
  <2>5. ~StopReturns
    BY <2>1 DEF StopReturns, NeverStopped
  <2>6. \A t \in Tasks : ~CancelGet(t)
    BY <2>2 DEF CancelGet, WhereTurnsAre
  <2> QED BY <1>2, <2>1, <2>2, <2>3, <2>4, <2>5, <2>6, ServingEnqueue, ServingBegin, ServingGet,
             ServingCommit, ServingEnd, ServingDrain DEF WorkerNext, Consume
<1> QED BY <1>1, <1>2

\* drain() keeps its docstring's word for every queue size, number of consumers and
\* interleaving: as long as nobody has stopped the worker, it returns True only when
\* every turn accepted before the call has finished, the ones in hand included.
THEOREM DrainIsComplete == WorkerSpec => []DrainComplete
<1>1. WorkerInit => ServingInv
  BY WorkerInitInv
<1>2. ServingInv => DrainComplete
  BY DEF ServingInv, DrainWaits, DrainComplete
<1>3. WorkerSpec => []ServingInv
  BY <1>1, ServingNext, TurnAlways, PTL DEF WorkerSpec
<1> QED BY <1>2, <1>3, PTL

=============================================================================
