------------------------------- MODULE Decay -------------------------------
(* The decay job: workers that drain `memories` in batches (jobs/decay.py,   *)
(* jobs/claims.py, graphs/decay_graph.py), the scheduler and the command     *)
(* line that start them (jobs/scheduler.py, jobs/run.py), and the writers    *)
(* that reinforce and delete rows meanwhile (store/memories.py).             *)
(* A batch is one transaction: Claim locks rows and computes their weights,  *)
(* Commit makes stamp, weight and archive mark visible together, a crash     *)
(* rolls back. Locked rows are out of everyone else's reach in between, so   *)
(* the statements inside the transaction need no step of their own.          *)
EXTENDS DecayRows

CONSTANTS
    Workers,        \* processes that run run_decay_worker
    Cron,           \* the one inside the scheduler process
    Writer,         \* a capture transaction that reinforces
    NoOne,          \* no owner of a row lock
    BatchSize,      \* DECAY_BATCH_SIZE
    MaxBatches,     \* DECAY_MAX_BATCHES
    Overlap,        \* may a sweep start while one with another id is running, or
                    \* an earlier one be taken up again after it?
    MaxCrashes,     \* bound on crashes
    MaxWrites       \* bound on reinforcements

ASSUME WorkerConstants ==
    /\ Cron \in Workers /\ Writer \notin Workers
    /\ NoOne \notin Workers \union Rows \union {Writer}
    /\ BatchSize \in Nat \ {0} /\ MaxBatches \in Nat \ {0}
    /\ Overlap \in BOOLEAN /\ MaxCrashes \in Nat /\ MaxWrites \in Nat

VARIABLES
    mem,        \* [Rows -> Row]: the committed table
    lock,       \* [Rows -> owner of the row lock]
    worker,     \* [Workers -> what the process knows]
    sched,      \* the scheduler: is it up, and what fire is due
    writer,     \* the reinforcing transaction: its row and its age
    handled,    \* [Runs -> SUBSET Rows]: history, what each sweep committed
    crashes, writes

vars == <<mem, lock, worker, sched, writer, handled, crashes, writes>>

NoBatch == [i \in {} |-> 0]
Idle == [pc |-> "idle", run |-> NoRun, update |-> NoBatch, batches |-> 0, seen |-> {}]

\* Where run_decay_worker is, and how it ended: "ok", "railed" (also reported
\* as ok, with an error text), "error" (it raised) or "crashed".
Ended == {"idle", "ok", "railed", "error", "crashed"}
Active(w) == worker[w].pc \notin Ended
ActiveRuns == {worker[w].run : w \in {v \in Workers : Active(v)}}

Batch(w) == DOMAIN worker[w].update

TypeOK ==
    /\ mem \in [Rows -> Row]
    /\ lock \in [Rows -> Workers \union {Writer, NoOne}]
    /\ DOMAIN worker = Workers
    /\ \A w \in Workers :
          /\ worker[w].pc \in Ended \union {"claim", "commit"}
          /\ worker[w].run \in Runs \union {NoRun}
          /\ worker[w].update \in [Batch(w) -> Nat]
          /\ worker[w].batches \in 0 .. MaxBatches
          /\ worker[w].seen \subseteq Rows
          \* The rows locked by a worker are those of its open batch.
          /\ Batch(w) = {i \in Rows : lock[i] = w}
          /\ (worker[w].pc = "commit") <=> (Batch(w) # {})
    /\ sched \in [up : BOOLEAN, due : {"none", "due"}]
    /\ writer \in [row : Rows \union {NoOne}, age : Ages]
    /\ handled \in [Runs -> SUBSET Rows]
    /\ crashes \in 0 .. MaxCrashes /\ writes \in 0 .. MaxWrites

Init ==
    /\ mem = [i \in Rows |-> FreshRow]
    /\ lock = [i \in Rows |-> NoOne]
    /\ worker = [w \in Workers |-> Idle]
    /\ sched = [up |-> TRUE, due |-> "none"]
    /\ writer = [row |-> NoOne, age |-> 0]
    /\ handled = [r \in Runs |-> {}]
    /\ crashes = 0 /\ writes = 0

-----------------------------------------------------------------------------
(* Starting a worker. *)

Begun(r) == [Idle EXCEPT !.pc = "claim", !.run = r]

\* new_run_id(): an id no row carries. A finished sweep's id stands for a new
\* one once its stamps and reports are forgotten: only "another run" is ever asked
\* of them. Unless sweeps overlap, nobody passes the id of an earlier report on.
Fresh(w, r) ==
    /\ r \in Runs \ ActiveRuns
    /\ Overlap \/ ActiveRuns = {}
    /\ handled' = [handled EXCEPT ![r] = {}]
    /\ mem' = [i \in Rows |->
                  IF mem[i].run = r THEN [mem[i] EXCEPT !.run = NoRun] ELSE mem[i]]
    /\ worker' = [v \in Workers |->
          IF v = w THEN Begun(r)
          ELSE IF Overlap /\ worker[v].run # r THEN worker[v]
          ELSE [worker[v] EXCEPT !.run = NoRun]]

\* python -m jobs.run --job decay, with no --run-id.
RunFresh(w, r) ==
    /\ w # Cron /\ ~Active(w)
    /\ Fresh(w, r)
    /\ UNCHANGED <<lock, sched, writer, crashes, writes>>

\* ... --run-id r: a co-worker of the sweep r, or one more pass of it.
RunJoin(w, r) ==
    /\ w # Cron /\ ~Active(w)
    /\ r \in {worker[v].run : v \in Workers}
    /\ r # NoRun /\ (Overlap \/ ActiveRuns \subseteq {r})
    /\ worker' = [worker EXCEPT ![w] = Begun(r)]
    /\ UNCHANGED <<mem, lock, sched, writer, handled, crashes, writes>>

\* scheduled_decay: a fire is due and no instance is running.
CronRun(r) ==
    /\ sched.up /\ sched.due = "due" /\ ~Active(Cron)
    /\ Fresh(Cron, r)
    /\ sched' = [sched EXCEPT !.due = "none"]
    /\ UNCHANGED <<lock, writer, crashes, writes>>

\* max_instances=1 skips the fire.
CronSkip ==
    /\ sched.up /\ sched.due = "due" /\ Active(Cron)
    /\ sched' = [sched EXCEPT !.due = "none"]
    /\ UNCHANGED <<mem, lock, worker, writer, handled, crashes, writes>>

-----------------------------------------------------------------------------
(* The drain loop of run_decay_worker. *)

\* Mutant of Claimable: no FOR UPDATE, rows of other transactions are taken.
ClaimableUnlocked(w) == {i \in Rows : Eligible(mem[i], worker[w].run)}

Claimable(w) ==
    {i \in Rows : Eligible(mem[i], worker[w].run) /\ lock[i] = NoOne}

\* ORDER BY last_accessed_at LIMIT batch_size: the stalest; ids break ties.
Stalest(S) ==
    {B \in SUBSET S :
        /\ Cardinality(B) = Lower(BatchSize, Cardinality(S))
        /\ \A i \in B, j \in S \ B : mem[i].age >= mem[j].age}

\* One iteration: claim_node and compute_node inside the open transaction.
Claim(w) ==
    /\ worker[w].pc = "claim" /\ worker[w].batches < MaxBatches
    /\ Claimable(w) # {}
    /\ \E B \in Stalest(Claimable(w)) :
          /\ lock' = [i \in Rows |-> IF i \in B THEN w ELSE lock[i]]
          /\ worker' = [worker EXCEPT
                 ![w].pc = "commit",
                 ![w].update = [i \in B |-> DecayWeight(mem[i].age, mem[i].count)]]
    /\ UNCHANGED <<mem, sched, writer, handled, crashes, writes>>

\* run_decay_worker returns or raises: what it knew is gone, but for the run id
\* that an operator reads in its report.
Over(w, pc) == [Idle EXCEPT !.pc = pc, !.run = worker[w].run]

\* An empty claim ends the loop.
Drained(w) ==
    /\ worker[w].pc = "claim" /\ worker[w].batches < MaxBatches
    /\ Claimable(w) = {}
    /\ worker' = [worker EXCEPT ![w] = Over(w, "ok")]
    /\ UNCHANGED <<mem, lock, sched, writer, handled, crashes, writes>>

\* The rail of DECAY_MAX_BATCHES.
HitRail(w) ==
    /\ worker[w].pc = "claim" /\ worker[w].batches = MaxBatches
    /\ worker' = [worker EXCEPT ![w] = Over(w, "railed")]
    /\ UNCHANGED <<mem, lock, sched, writer, handled, crashes, writes>>

Release(w) == lock' = [i \in Rows |-> IF lock[i] = w THEN NoOne ELSE lock[i]]

\* add_processed meets a row this worker has already processed.
Repeats(w) == Batch(w) \intersect worker[w].seen # {}

\* The accounting of a batch, and the next iteration.
Counted(w) ==
    [worker[w] EXCEPT !.pc = "claim", !.update = NoBatch, !.batches = @ + 1,
                      !.seen = @ \union Batch(w)]

\* apply_node, archive_node and COMMIT, then the accounting of RunStats, whose
\* add_processed raises when this worker has already processed a row.
Commit(w) ==
    /\ worker[w].pc = "commit"
    /\ mem' = [i \in Rows |->
          IF i \in Batch(w) THEN Decayed(mem[i], worker[w].run, worker[w].update[i])
          ELSE mem[i]]
    /\ Release(w)
    /\ handled' = [handled EXCEPT ![worker[w].run] = @ \union Batch(w)]
    /\ worker' = [worker EXCEPT ![w] =
          IF Repeats(w) THEN Over(w, "error")
          ELSE Counted(w)]
    /\ UNCHANGED <<sched, writer, crashes, writes>>

\* The process dies, or a statement of the batch raises: rollback.
Crash(w) ==
    /\ Active(w) /\ crashes < MaxCrashes
    /\ Release(w)
    /\ worker' = [worker EXCEPT ![w] = Over(w, "crashed")]
    /\ sched' = [sched EXCEPT !.up = @ /\ w # Cron]
    /\ crashes' = crashes + 1
    /\ UNCHANGED <<mem, writer, handled, writes>>

-----------------------------------------------------------------------------
(* Time, the scheduler process and the other writers. *)

\* A tick: every row ages, and 03:00 comes round once. coalesce=True keeps one
\* fire however many are overdue, the latest.
Night ==
    /\ mem' = [i \in Rows |-> [mem[i] EXCEPT !.age = Older(@)]]
    /\ writer' = IF writer.row = NoOne THEN writer ELSE [writer EXCEPT !.age = Older(@)]
    /\ sched' = [sched EXCEPT !.due = "due"]
    /\ UNCHANGED <<lock, worker, handled, crashes, writes>>

\* The scheduler is stopped between sweeps.
CronDown ==
    /\ sched.up /\ ~Active(Cron) /\ crashes < MaxCrashes
    /\ sched' = [sched EXCEPT !.up = FALSE]
    /\ crashes' = crashes + 1
    /\ UNCHANGED <<mem, lock, worker, writer, handled, writes>>

\* build_scheduler adds the job anew, with replace_existing: whatever fire the
\* jobstore kept is lost, and the next is the next 03:00.
CronUp ==
    /\ ~sched.up
    /\ sched' = [up |-> TRUE, due |-> "none"]
    /\ UNCHANGED <<mem, lock, worker, writer, handled, crashes, writes>>

\* reinforce() inside a capture transaction: the UPDATE waits for the row lock
\* and keeps it until the transaction ends.
ReinforceLock(i) ==
    /\ writer.row = NoOne /\ writes < MaxWrites
    /\ lock[i] = NoOne /\ ~mem[i].deleted
    /\ lock' = [lock EXCEPT ![i] = Writer]
    /\ writer' = [row |-> i, age |-> 0]
    /\ writes' = writes + 1
    /\ UNCHANGED <<mem, worker, sched, handled, crashes>>

ReinforceEnd(commit) ==
    /\ writer.row # NoOne
    /\ mem' = IF commit THEN [mem EXCEPT ![writer.row] = Reinforced(@, writer.age)]
              ELSE mem
    /\ lock' = [lock EXCEPT ![writer.row] = NoOne]
    /\ writer' = [row |-> NoOne, age |-> 0]
    /\ UNCHANGED <<worker, sched, handled, crashes, writes>>

Delete(i) ==
    /\ lock[i] = NoOne /\ ~mem[i].deleted
    /\ mem' = [mem EXCEPT ![i].deleted = TRUE]
    /\ UNCHANGED <<lock, worker, sched, writer, handled, crashes, writes>>

-----------------------------------------------------------------------------
Step(w) == Claim(w) \/ Drained(w) \/ HitRail(w) \/ Commit(w)

Scheduler == CronSkip \/ CronUp \/ \E r \in Runs : CronRun(r)

Next ==
    \/ \E w \in Workers :
          \/ Step(w) \/ Crash(w)
          \/ \E r \in Runs : RunFresh(w, r) \/ RunJoin(w, r)
    \/ Scheduler \/ Night \/ CronDown
    \/ \E i \in Rows : ReinforceLock(i) \/ Delete(i)
    \/ \E commit \in BOOLEAN : ReinforceEnd(commit)

Spec == Init /\ [][Next]_vars

\* Time passes, a process that runs takes its next statement, the scheduler
\* handles a fire that stays due, and a capture transaction ends. Nothing makes
\* an operator start a sweep; one who keeps out of the nightly sweep's way (not
\* Overlap) does not keep it from starting for ever either.
Fairness ==
    /\ WF_vars(Night)
    /\ \A w \in Workers : WF_vars(Step(w))
    /\ WF_vars(CronUp) /\ WF_vars(CronSkip) /\ SF_vars(\E r \in Runs : CronRun(r))
    /\ WF_vars(\E commit \in BOOLEAN : ReinforceEnd(commit))

FairSpec == Spec /\ Fairness

-----------------------------------------------------------------------------
(* Properties. *)

Abstract == INSTANCE DecayAbstract WITH mem <- mem, handled <- handled

\* Whatever workers, crashes, locks, reinforcements and deletions interleave, the
\* table changes as if every batch were decayed in one indivisible step: no row
\* twice in a sweep, none that is deleted or archived, stamp, weight and archive
\* mark together, and the weight that of the count the row has at that moment
\* (jobs/claims.py, jobs/decay.py: a crash rolls the claim back, a reinforcement
\* is never lost).
ImplementsAbstract == Abstract!Spec

\* A sweep treats every row once: no worker meets a row it has already processed
\* ("The claim query is supposed to make this impossible", jobs/metrics.py), and
\* when every worker of the sweep has returned and one of them drained the table,
\* no row was left out, unless a crash or a writer's lock hid it
\* (run_decay_worker: "drain the table cooperatively").
SweepComplete ==
    \A w \in Workers :
        /\ worker[w].pc # "error"
        /\ worker[w].pc = "ok" /\ worker[w].run \in Runs \ ActiveRuns
             /\ crashes = 0 /\ writes = 0
             => \A i \in Rows : mem[i].deleted \/ mem[i].archived
                                  \/ i \in handled[worker[w].run]

\* A row nobody touches any more is archived in the end, whatever sweeps crash
\* and whatever fires the scheduler sleeps through (jobs/decay.py: the archive
\* threshold is above the floor; "Nothing is stranded by a crash").
OldRowsArchived ==
    \A i \in Rows :
        mem[i].age = MaxAge ~> mem[i].archived \/ mem[i].deleted \/ mem[i].age < MaxAge
=============================================================================
