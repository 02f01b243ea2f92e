--------------------------- MODULE CaptureWorker ---------------------------
(* The in-process capture worker (capture/worker.py): chat handlers enqueue  *)
(* turns, consumer tasks run the capture graph on them under a time limit    *)
(* (graphs/capture_graph.py, run_capture), stop() tears it down, drain()     *)
(* waits for it, and the API process may exit (api/main.py).                 *)
(* Everything runs on one event loop: a step is what happens between two     *)
(* awaits. Every start of the worker makes a new queue and new tasks, a      *)
(* generation; a task looks self._queue up again on every use, and need not  *)
(* find the queue it was started with.                                       *)
EXTENDS Integers, Sequences, FiniteSets

CONSTANTS
    Jobs,           \* turns that may be enqueued
    Consumers,      \* 0 .. CAPTURE_WORKER_CONCURRENCY - 1
    MaxSize,        \* CAPTURE_QUEUE_MAXSIZE
    MaxGens,        \* bound on the generations
    NoJob,
    MayStop,        \* does something call stop()?
    MayExit         \* does the process shut down?

ASSUME CaptureWorkerAssumption ==
    /\ MaxSize \in Nat \ {0} /\ MaxGens \in Nat \ {0}
    /\ IsFiniteSet(Jobs) /\ IsFiniteSet(Consumers) /\ Consumers # {}
    /\ NoJob \notin Jobs /\ MayStop \in BOOLEAN /\ MayExit \in BOOLEAN

Gens == 1 .. MaxGens
None == 0
Tasks == Gens \X Consumers

VARIABLES
    current,    \* the generation of self._queue, or None
    tasks,      \* the generation of self._tasks, or None for []
    gens,       \* generations made so far
    queue,      \* [Gens -> the asyncio.Queue: its items and its join counter]
    task,       \* [Tasks -> a consumer task]
    job,        \* [Jobs -> what became of the turn]
    committed,  \* [Jobs -> how often its writes were committed]
    stopping,   \* the generation a stop() waits for, or None
    drain,      \* one drain() call and the jobs accepted before it
    alive       \* the process

workerVars == <<current, tasks, gens, queue, task, job, committed, stopping, drain, alive>>

EmptyQueue == [items |-> <<>>, unfinished |-> 0]
Unborn == [pc |-> "unborn", from |-> None, job |-> NoJob, cancel |-> FALSE]

Finished == {"completed", "timeout", "failed"}

Queue == [items : Seq(Jobs), unfinished : Nat]
Task == [pc : {"unborn", "new", "get", "run", "commit", "done"}, from : 0 .. MaxGens,
         job : Jobs \union {NoJob}, cancel : BOOLEAN]

WorkerTypeOK ==
    /\ current \in 0 .. MaxGens /\ tasks \in 0 .. MaxGens /\ gens \in 0 .. MaxGens
    /\ queue \in [Gens -> Queue]
    /\ task \in [Tasks -> Task]
    /\ job \in [Jobs -> Finished \union {"new", "queued", "dropped", "running", "cancelled"}]
    /\ committed \in [Jobs -> Nat]
    /\ stopping \in 0 .. MaxGens
    /\ drain \in [pc : {"idle", "join", "true", "false"}, of : 0 .. MaxGens,
                  before : SUBSET Jobs]
    /\ alive \in BOOLEAN
    \* put_nowait refuses an item beyond maxsize.
    /\ \A g \in Gens : Len(queue[g].items) <= MaxSize

WorkerInit ==
    /\ current = None /\ tasks = None /\ gens = 0
    /\ queue = [g \in Gens |-> EmptyQueue]
    /\ task = [t \in Tasks |-> Unborn]
    /\ job = [j \in Jobs |-> "new"]
    /\ committed = [j \in Jobs |-> 0]
    /\ stopping = None
    /\ drain = [pc |-> "idle", of |-> None, before |-> {}]
    /\ alive = TRUE

AllDone(g) == \A c \in Consumers : task[<<g, c>>].pc = "done"

-----------------------------------------------------------------------------
(* The producer side. *)

\* ensure_started: no tasks, or every one of them has died.
NeedsStart == tasks = None \/ AllDone(tasks)

\* The generation enqueue() puts into, after ensure_started.
Target == IF NeedsStart THEN gens + 1 ELSE current

\* Mutant of Room: one item too many.
RoomForOneMore(g) == Len(queue[g].items) <= MaxSize

Room(g) == Len(queue[g].items) < MaxSize

\* enqueue(): ensure_started, then put_nowait; a full queue drops the turn.
Enqueue(j) ==
    /\ alive /\ job[j] = "new" /\ Target \in Gens
    /\ current' = Target
    /\ tasks' = IF NeedsStart THEN Target ELSE tasks
    /\ gens' = IF NeedsStart THEN Target ELSE gens
    /\ task' = IF NeedsStart
               THEN [t \in Tasks |-> IF t[1] = Target THEN [Unborn EXCEPT !.pc = "new"]
                                     ELSE task[t]]
               ELSE task
    /\ IF Room(Target)
       THEN /\ queue' = [queue EXCEPT ![Target].items = Append(@, j),
                                      ![Target].unfinished = @ + 1]
            /\ job' = [job EXCEPT ![j] = "queued"]
       ELSE /\ job' = [job EXCEPT ![j] = "dropped"]
            /\ UNCHANGED queue
    /\ UNCHANGED <<committed, stopping, drain, alive>>

-----------------------------------------------------------------------------
(* The consumer side. *)

Kill(t) == task' = [task EXCEPT ![t] = [Unborn EXCEPT !.pc = "done"]]

\* The loop's next self._queue.get(); with no queue it raises and the task dies.
Loop(t, g) ==
    task' = [task EXCEPT ![t] = IF g = None THEN [Unborn EXCEPT !.pc = "done"]
                                ELSE [@ EXCEPT !.pc = "get", !.from = g, !.job = NoJob]]

\* _consume starts, unless stop() was there first.
Begin(t) ==
    /\ task[t].pc = "new"
    /\ IF task[t].cancel THEN Kill(t) ELSE Loop(t, current)
    /\ UNCHANGED <<current, tasks, gens, queue, job, committed, stopping, drain, alive>>

Get(t) ==
    LET g == task[t].from IN
    /\ task[t].pc = "get" /\ ~task[t].cancel
    /\ queue[g].items # <<>>
    /\ queue' = [queue EXCEPT ![g].items = Tail(@)]
    /\ task' = [task EXCEPT ![t].pc = "run", ![t].job = Head(queue[g].items)]
    /\ job' = [job EXCEPT ![Head(queue[g].items)] = "running"]
    /\ UNCHANGED <<current, tasks, gens, committed, stopping, drain, alive>>

\* persist_candidates commits; the reply is still on its way.
CommitWrites(t) ==
    /\ task[t].pc = "run" /\ ~task[t].cancel
    /\ committed' = [committed EXCEPT ![task[t].job] = @ + 1]
    /\ task' = [task EXCEPT ![t].pc = "commit"]
    /\ UNCHANGED <<current, tasks, gens, queue, job, stopping, drain, alive>>

\* Mutant of TaskDone: the consumers form a group that an exception of one job ends.
TaskDoneGroup(t, status) ==
    /\ queue' = IF current # None /\ queue[current].unfinished > 0
                THEN [queue EXCEPT ![current].unfinished = @ - 1] ELSE queue
    /\ IF current # None /\ queue[current].unfinished > 0 /\ status = "completed"
       THEN Loop(t, current)
       ELSE task' = [u \in Tasks |-> IF u[1] = t[1] THEN [Unborn EXCEPT !.pc = "done"]
                                     ELSE task[u]]

\* The finally of _consume, on the queue self._queue is now: no queue, or one
\* with nothing unfinished, raises and the task dies, as a cancelled one does.
TaskDone(t, status) ==
    /\ queue' = IF current # None /\ queue[current].unfinished > 0
                THEN [queue EXCEPT ![current].unfinished = @ - 1] ELSE queue
    /\ IF current # None /\ queue[current].unfinished > 0 /\ status # "cancelled"
       THEN Loop(t, current) ELSE Kill(t)

\* How a job may end: run_capture returns once its writes are committed, or with
\* nothing to write; a node raises before the commit; the time limit strikes
\* anywhere, also between the commit and its reply; so does a cancellation.
Outcomes(t) ==
    IF task[t].cancel THEN {"cancelled"}
    ELSE IF task[t].pc = "commit" THEN {"completed", "timeout"} ELSE Finished

\* Mutant of EndJob: a timed out turn goes back into the queue.
EndJobRetry(t) ==
    /\ task[t].pc \in {"run", "commit"}
    /\ \E status \in Outcomes(t) :
          IF status = "timeout" /\ current # None
          THEN /\ job' = [job EXCEPT ![task[t].job] = "queued"]
               /\ queue' = [queue EXCEPT ![current].items = Append(@, task[t].job)]
               /\ Loop(t, current)
          ELSE /\ job' = [job EXCEPT ![task[t].job] = status]
               /\ TaskDone(t, status)
    /\ UNCHANGED <<current, tasks, gens, committed, stopping, drain, alive>>

\* _run_job ends, never raising but for a cancellation.
EndJob(t) ==
    /\ task[t].pc \in {"run", "commit"}
    /\ \E status \in Outcomes(t) :
          /\ job' = [job EXCEPT ![task[t].job] = status]
          /\ TaskDone(t, status)
    /\ UNCHANGED <<current, tasks, gens, committed, stopping, drain, alive>>

\* A consumer cancelled inside get() takes nothing with it.
CancelGet(t) ==
    /\ task[t].pc = "get" /\ task[t].cancel
    /\ Kill(t)
    /\ UNCHANGED <<current, tasks, gens, queue, job, committed, stopping, drain, alive>>

-----------------------------------------------------------------------------
(* stop(), drain() and the end of the process. *)

Cancelled(g) == [t \in Tasks |->
    IF t[1] = g /\ task[t].pc # "done" THEN [task[t] EXCEPT !.cancel = TRUE] ELSE task[t]]

\* stop() cancels the tasks and waits for them in gather().
Stop ==
    /\ MayStop /\ alive /\ stopping = None /\ tasks # None
    /\ task' = Cancelled(tasks)
    /\ stopping' = tasks
    /\ UNCHANGED <<current, tasks, gens, queue, job, committed, drain, alive>>

\* gather() returned: whatever self._tasks and self._queue are now is forgotten.
StopReturns ==
    /\ stopping # None /\ AllDone(stopping)
    /\ tasks' = None /\ current' = None /\ stopping' = None
    /\ UNCHANGED <<gens, queue, task, job, committed, drain, alive>>

Accepted == {j \in Jobs : job[j] \notin {"new", "dropped"}}

\* drain(): join() on the present queue, if there is one.
Drain ==
    /\ alive /\ drain.pc = "idle"
    /\ drain' = [pc |-> IF current = None THEN "true" ELSE "join",
                 of |-> current, before |-> Accepted]
    /\ UNCHANGED <<current, tasks, gens, queue, task, job, committed, stopping, alive>>

\* Mutant of DrainReturns: an empty backlog is enough.
DrainReturnsBacklog ==
    /\ drain.pc = "join"
    /\ \/ queue[drain.of].items = <<>> /\ drain' = [drain EXCEPT !.pc = "true"]
       \/ drain' = [drain EXCEPT !.pc = "false"]
    /\ UNCHANGED <<current, tasks, gens, queue, task, job, committed, stopping, alive>>

DrainReturns ==
    /\ drain.pc = "join"
    /\ \/ queue[drain.of].unfinished = 0 /\ drain' = [drain EXCEPT !.pc = "true"]
       \/ drain' = [drain EXCEPT !.pc = "false"]
    /\ UNCHANGED <<current, tasks, gens, queue, task, job, committed, stopping, alive>>

\* The lifespan hook closes the pools and nothing else; the event loop then
\* cancels every task that is left.
Exit ==
    /\ MayExit /\ alive
    /\ alive' = FALSE
    /\ task' = [t \in Tasks |-> IF task[t].pc \in {"unborn", "done"} THEN task[t]
                                ELSE [task[t] EXCEPT !.cancel = TRUE]]
    /\ UNCHANGED <<current, tasks, gens, queue, job, committed, stopping, drain>>

-----------------------------------------------------------------------------
Consume(t) == Begin(t) \/ Get(t) \/ CommitWrites(t) \/ EndJob(t) \/ CancelGet(t)

WorkerNext ==
    \/ \E j \in Jobs : Enqueue(j)
    \/ \E t \in Tasks : Consume(t)
    \/ Stop \/ StopReturns \/ Drain \/ DrainReturns \/ Exit

WorkerSpec == WorkerInit /\ [][WorkerNext]_workerVars

\* The event loop resumes every task that can go on; a capture ends because
\* wait_for bounds it. Nothing obliges anyone to enqueue, stop, drain or exit.
WorkerFairSpec == WorkerSpec /\ \A t \in Tasks : WF_workerVars(Consume(t))

-----------------------------------------------------------------------------
(* Properties. *)

\* A turn's memories are written at most once, and no turn that was dropped is
\* written, however its job ended (worker.py: nothing is retried after a timeout
\* whose COMMIT may have gone through).
AtMostOnce ==
    \A j \in Jobs : committed[j] <= IF job[j] \in {"new", "queued", "dropped"} THEN 0 ELSE 1

\* Nothing has called stop(), and the first consumers are the only ones so far.
NeverStopped == gens <= 1 /\ stopping = None /\ tasks = gens

\* Unless stop() threw the queue away, drain() returns True only when every turn
\* accepted before it was called has finished, in-flight ones included (drain's
\* docstring).
DrainComplete ==
    drain.pc = "true" /\ NeverStopped /\ alive =>
        \A j \in drain.before : job[j] \in Finished

\* While the process runs and nobody stops the worker, an accepted turn reaches
\* the end of its capture, though captures fail and time out (_run_job never
\* raises, so no consumer dies).
CapturedWhileServing ==
    \A j \in Jobs :
        job[j] = "queued" ~> job[j] \in Finished \/ ~alive \/ ~NeverStopped

\* "The worker's whole contract is that an enqueued turn is eventually captured":
\* an accepted turn reaches the end of its capture (class CaptureWorkerNotOnEventLoop).
AcceptedIsCaptured == \A j \in Jobs : job[j] = "queued" ~> job[j] \in Finished
=============================================================================
