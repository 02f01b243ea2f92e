# A verification of the conversational memory system

TLA+ models of the parts of this repository in which concurrent actors share
state, model-checked with TLC on small instances and, for the most important
safety properties, proved with TLAPS for every instance.

## 1. Inventory

The system remembers facts about a user. A chat turn retrieves memories, streams
a reply, and hands the turn to a background pipeline that extracts new facts and
writes them. The user can list, edit, delete and export memories. A nightly job
decays weights, a weekly one consolidates related memories into summaries.

| Component | State | Operations | What makes it hard |
|---|---|---|---|
| Write path, `store/memories.py` | rows of `memories`, a per-subject advisory lock | `persist_candidates`: tombstones, dedup, reinforce, insert, supersede, mark summaries stale | several SELECTs in one READ COMMITTED transaction; only captures take the subject lock |
| Governance, `api/memories.py` | the same rows, a lock per memory id | DELETE and PATCH, three transactions each | windows between the transactions; a different lock |
| Reflection, `jobs/reflection.py`, `graphs/reflection_graph.py` | the same rows, `consolidated_into`, `stale_at` | list subjects, and for each: retire stale summaries, select a cluster, write a summary | a model call between the read and the write; overlapping runs; no lock; which subjects a run reaches |
| Audit, `store/audit.py` | `audit_log`, append-only | one row per governed action, in its transaction | the trail must match the table |
| Circuit breaker, `retrieve/breaker.py`, `retrieve/guarded.py` | one Redis record and a probe lock | allow, record success or failure, reset, force open | stragglers, cancelled probes, lock expiry, Redis errors that fail open |
| Hybrid retrieval and ranking, `retrieve/` | none | two paths, merge, rank | partial degradation |
| Composer, `context/` | none | fit ranked memories into a token budget | boundaries of the budget |
| Decay, `jobs/claims.py`, `jobs/decay.py` | `decay_run_id`, `weight`, `archived_at` | claim with SKIP LOCKED, update, archive | crashes between claim and update; concurrent reinforcement |
| Capture worker, `capture/worker.py` and pipeline | bounded in-process queue | enqueue, run with timeout, drain | overflow, timeouts, shutdown |
| Chat stream, `api/chat.py`, `graphs/response_graph.py` | one request | retrieve, respond, capture | the client leaves half-way |
| Pools and migrations, `store/db.py`, `store/migrate.py` | two pools | create once, close | concurrent first use |
| Export, `api/governance.py` | none | read memories, audit and feedback, then log the export | one snapshot per statement, a row cap |
| LLM seam, `llm/config.py` | none | retry on 429 | its retries are nested in the embedding's and in the job's time limit |
| Evals, frontend | none shared | | left out, see section 6 |

How they meet: captures, governance requests and reflection runs all write the
one `memories` table and know nothing of each other. Captures serialise on the
subject's lock, requests on the memory's, reflection takes none. What keeps them
apart is row locks and the WHERE clause of each UPDATE. That is the most
important behaviour of the system and the first thing modelled. Every chat turn
reads through the breaker, which is shared by all replicas.

The hazards, each at its line and with the properties that would catch it, are
in `PROJECT.json`.

## 2. Modules

| Module | Models |
|---|---|
| `Memories` | the table, the audit counters, uncommitted row versions, and the SQL statements as operators on a table |
| `Capture` | `persist_candidates`, one action per statement other transactions can come between |
| `Governance` | DELETE and PATCH, one action per transaction |
| `Reflection` | a run of the job for one subject: schedule, rebuild, select, write |
| `ReflectionWeeks` | the weekly job over all subjects: the list with its LIMIT, the loop, what ends it early |
| `MemoryStore` | the three over one table; the properties |
| `MCMemoryStore` | its instances |
| `MemoryStoreProofs` | types, one live value per slot, frozen deleted rows, proved |
| `SlotRegister` | what the store promises of a single-valued slot: a register; `MemoryStore` implements it |
| `HistoryProofs` | the audit trail, supersession chains, summaries and the slots as registers, proved |
| `Breaker` | the three Lua scripts, guarded calls, time, administration; the properties |
| `DecayRows` | the columns the decay job uses, the weight formula, the claim predicate |
| `DecayAbstract` | what the job promises: a batch decays in one step |
| `Decay` | workers, claims, scheduler, command line, crashes, other writers; implements `DecayAbstract` |
| `DecayProofs` | its theorems and the proof of the refinement |
| `CaptureWorker` | the queue, its consumers, enqueue, stop, drain, shutdown |
| `CaptureWorkerProofs` | its theorems |
| `Lists` | running sums and a filter, in a form that can be reasoned about |
| `CapturePipeline` | one run of the capture graph, node by node |
| `RateLimit` | the two nested retry loops under the job's time limit |
| `Chat` | one POST /chat: graph task, event queue, body generator, client, capture hand-off |
| `ChatProofs` | its theorems |
| `Ranking` | normalisation, merge, signals, total and sort order as operators |
| `Composer` | the two retrieval paths, rank, and the composer's drop loop |
| `Pool` | `get_pool` and `close_pools`, one step per await |
| `PoolProofs` | its theorems |
| `Migrate` | `apply_all` and what the files do to `audit_log` |
| `Export` | the statements of one export between captures and deletes |
| `MCApplication` | the instance of `Chat`, `CaptureWorker`, `Pool`, `Breaker` and `ReflectionWeeks` |
| `ApplicationProofs` | the breaker's theorems, and those of the five together |
| `MCServices` | the instance of `CapturePipeline`, `RateLimit`, `Composer`, `Migrate` and `Export` |
| `ServicesProofs` | theorems about each of the five, and about them together |

`MCApplication` and `MCServices` put side by side pieces that share no variable.
Interleaving them would multiply the states and show nothing, so a behaviour runs
one piece, named by `part` and chosen at the start, while the others rest in a
state the program can be in (a chat at rest is a request already answered with an
error). The next-state relation lists every action of every piece as a disjunct of
its own.

A capture meets three modules: `Chat` hands a turn over, `CaptureWorker` runs it
(`CommitWrites` is the commit), `CapturePipeline` is what happens inside the job,
and `Capture` is its last node. `Pool`, `RateLimit` and `Composer` are used by
all of them and keep no state of theirs.

Definitions under a comment "Mutant of X" are deliberately wrong
versions of X. No specification uses them; each shows that some property would
notice that mistake in the code.

### The memory store

*Data.* A row keeps which facts its text asserts, its attribute (slot), source,
`deleted`, `superseded_by`, `stale`, `consolidated_into` and its reinforcement
count. Timestamps are reduced to whether they are set. `superseded_at` and
`superseded_by` are set together (CHECK constraint of migration 0009);
`consolidated_at` and `consolidated_into` likewise in every statement. Text and
embedding are one thing, a set of facts: a captured memory asserts one, a
summary those of its cluster. `Similar` says which facts are above the dedup
threshold, `Related` which are within the clustering distance; TLC is given
relations in which everything is near, nothing but the fact itself is near, or
(`Languages`, in the slot runs) two languages are near each other and tea is not.
Equal text is at distance 0 and wins the `ORDER BY`; among others the choice is
free. Weight, importance and confidence are left out: no guard reads them.
One (subject, actor) pair is modelled, because row-level security and the locks
separate pairs. `candidate_limit` is not modelled: the instances stay below it.

*Isolation.* READ COMMITTED. A capture's writes live in `writes[w]` and its audit
rows in `pend[w]` until `CaptureCommit`; `View(w)` is what its statements read.
An UPDATE waits for a row another transaction wrote (`LockedBy`, `Unlocked`).
Governance and reflection transactions are one step each: their statements
either act on rows found by their own WHERE clause at that moment or are
serialised by the row lock they hold, so an interleaving of another commit is
equal to one before or after the step.

*Actions.* `CaptureLock`, `CaptureTombstones`, `CaptureFindSimilar`,
`CaptureIgnore`, `CaptureReinforce`, `CaptureInsert`, `CaptureCommit` follow the
loop of `persist_candidates`; `CaptureLockTimeout` is `lock_timeout`;
`CaptureRollback` is any exception, cancellation or crash. `DeleteCheck`,
`DeleteInvalidate`, `DeleteCommit` (and the PATCH ones) are the sessions of a
request, `RequestAbort` a failure between two of them. `ReflectionScheduled` is
`_SUBJECTS_SQL` choosing the subject (that it qualifies is necessary; whether a
run reaches it is `ReflectionWeeks`), `ReflectionForSubject` an operator naming
it; then `rebuild_stale_summaries`, `SelectCluster` or `NoCluster`,
`write_summary`; `ReflectionAbort` is an empty answer of the model, an error or a
crash.

*Refinement.* `SlotRegister` knows no transaction, lock, request or job. Each
single-valued slot has the values it ever had, those a reader finds, and those the
user deleted. A commit fills some slots: each then shows one value it never had
before; of several values one batch had for a slot the earlier ones are spent
without ever being shown. A delete takes one value away. Nothing else happens. The
mapping reads `mem` only, so `ImplementsRegister` says that rollbacks, lock timeouts
and crashes leave no trace in a slot, that no commit empties one, and that no value
comes back.

### The weekly job

`ReflectionWeeks` has many subjects and knows of each how many rows
`_SUBJECTS_SQL` counts and how many fresh and stale summaries it has. `JobFires`
takes the list: at least `MinCluster` rows, ordered by their number and then by id,
cut at `MaxSubjects`. For each subject in turn `Rebuild` retires stale summaries,
then `Selected` or `Unclustered`, then `Summarised` or `Barren`; `Raises` is an
exception or the end of the process, after which the rest of the list is not
visited. Captures, deletes, edits and supersessions happen at any time.

### The breaker

Timers count down in ticks. `cooling` is what is left of the cooldown since
`opened_at`, `probeLock` of the lock's TTL, `left` of a call's budget. Only the
comparison with zero matters to the scripts, so this is finite without a bound
on time. `failures` saturates at the threshold, because the scripts compare it
with nothing else. A call goes idle, search, succeeded or failed, idle:
`Allow` runs `_ALLOW_LUA`; `AllowBlind` is a Redis error, where the script may or
may not have run; `SearchReturns` is `hybrid_search` with some paths degraded;
`SearchFails` a timeout or an exception; `SearchCancelled` a client that left;
`Record` and `RecordLost` the report. `Tick` may not pass a timeout that is due.
`force_open` is two Redis commands and two actions. The clocks of the replicas
are taken to agree. One round trip to Redis takes at most `Rtt` ticks.

### Decay

A row is `deleted`, `archived`, its stamp, age, reinforcement count and weight;
weights are hundredths, ages ticks, and the exponent of the formula counts whole
half-lives, which keeps it monotone and with the same floor and peak. A batch is
one transaction: `Claim` locks the stalest unlocked eligible rows and computes
their weights, `Commit` publishes stamp, weight and archive mark and does the
accounting of `RunStats`, `Crash` rolls back. `RunFresh` and `RunJoin` are the
command line without and with `--run-id`; `CronRun`, `CronSkip`, `CronDown`,
`CronUp` the scheduler with `max_instances` and `coalesce`. The job store is
persistent, but `build_scheduler` adds the job again with `replace_existing`, so a
restart forgets an overdue fire and waits for the next 03:00. That a running
scheduler handles a fire later than `misfire_grace_time` is not modelled.
`ReinforceLock` and `ReinforceEnd` are a capture's UPDATE and the end of its
transaction, `Delete` a delete's. A run id is used again once its stamps are
forgotten, because the code only asks whether a stamp is this run's. A worker that
ended forgets everything but its run id, which an operator may pass to the next
one (`Over`). Without `Overlap` a new sweep makes ended workers forget their id
too (`Fresh`): joining an earlier sweep again counts as overlapping it.

*Refinement.* `DecayAbstract` has the table and, for each sweep, the set of rows
it handled. Its steps are a night, a reinforcement, a deletion, a new sweep, and
`DecayBatch(r, S)`: rows that are eligible now and not handled yet get the weight
of the count and age they have now. `Decay` implements it with both variables
mapped to themselves; locks, workers, scheduler and open transactions are hidden.
The point is that a weight computed at the claim is still that of the row at the
commit, unless a night passed in between, which the abstract step allows for.

### Capture

`CaptureWorker` numbers the generations of consumers that `ensure_started`
creates. `current` and `tasks` are `self._queue` and `self._tasks`, which differ
while `stop()` waits. Each await of `_consume` is a step: `Begin`, `Get`,
`CommitWrites` (the job's transaction commits, its reply is under way), `EndJob`
(returns, fails, times out, is cancelled; the `finally` calls `task_done` on
whatever `self._queue` is then). `Exit` is the lifespan hook followed by the
event loop's cancellation of all tasks.

In `CapturePipeline` a candidate's text is a fact and whether it is raw or
redacted; its score and its vector carry the text they were computed for, so that
a wrong pairing is visible. Every answer the nodes handle is possible: junk
items, no list, missing scores, too narrow vectors, an embedding answer without
some of its entries, a failing Presidio, errors, and a time limit at any await.
`Recognised` are the facts in whose wording Presidio finds something; all others
pass `redact` unchanged, whether or not a person would call them sensitive. An
embedding answer is sorted by `index` and loses the indexes, so if an entry before
the last is missing (`answer = "gapped"`) the vectors behind it move up.

`RateLimit` runs with the delays of the code in seconds. The provider is in
trouble for a window that starts with the first call. A call takes one of
`CallTimes` (up to `LLM_TIMEOUT_SECONDS` for each of litellm's own tries), and the
nodes before it have used one of `Leads`.

### Chat

The graph task and the handler run side by side, connected by the queue. A reply
is the number of its tokens. `Finish` is the `finally` of `run()`; `BodyEnds` the
sentinel; `BodyAborted` and `CloseReturns` the `finally` blocks of `body()` and
`stream_response`. With `stream = FALSE` there is no sink and `AnswerJson` waits
for the task. The breaker is behind `RetrievalFailed`.

### Retrieval and composition

A score of 1 is `Unit`, a total a multiple of 1/100 of it, a text its number of
tokens. `Grain` stands for the rounding of `_sort_key`: totals that differ by less
than it may be equal after rounding, and then the id decides in the ranking while
`_fit` still compares the totals. A path returns its index's rows or degrades to
nothing; what the index holds is any set of rows with any raw score. `Sorted` is
what a sort by `_sort_key` returns: the one arrangement of the ids in which each
comes before the next (`RankingDetermined` proves that there is one and only one).
`BestKept` says what the loop of `_fit` is for without a loop: who is kept, who is
dropped, and that no more than necessary is.

### Pool, migrations, export

`Pool`: locks are queues of callers, made by `LockFor` (`setdefault`) and
forgotten by `close_pools`; `life` is the state of each pool ever made. `overlap`,
chosen in the initial state, says whether `close_pools` may run with calls in
flight.
`Migrate`: a run applies the ten files in order, one transaction each; `granted`
is the privilege on `audit_log`, `trigger` which body of its trigger function is
installed. `settled` remembers that the last run was whole and undisturbed.
`Export`: each SELECT sees the commits before it; `known` records
what a listing showed before the export started.

## 3. Runs

| Run | Result | Shows |
|---|---|---|
| `slots` | holds | two captures and two requests on one slot: `SlotSingleValued`, `AuditMatchesTable`, `SupersessionChain`, `DeletedFrozen`, `SupersessionFinal`, `ImplementsRegister` |
| `reflection` | holds | two overlapping reflection runs with a capture and a delete: `AuditMatchesTable`, `RetiredFreesSources`, `SupersededStalesSummary` |
| `decay` | holds | the scheduler and an operator with one run id at a time, a crash, missed fires and a concurrent writer: `ImplementsAbstract`; `SweepComplete` (a finished sweep handled every row that stayed eligible, and no worker met a row twice); `OldRowsArchived` (an untouched row is archived in the end) |
| `app` | holds | chat: `HeadersTellPrompt`, `CapturedWhole`, `NothingPulledAfterAbort`, `Answered` with failures, `ReplyArrives` with a working provider; capture worker: `AtMostOnce` and `DrainComplete` through stops, restarts and shutdown, `CapturedWhileServing`; pools: `NoOrphan` and `OnePoolPerDsn` when `close_pools` runs alone, `CallsReturn` with `close_pools` at any moment; breaker: `SingleProbe`, `ThresholdOpens`, `ClosedByProbe`, `Recovers`; weekly job: `StaleRetiredInReach` (a subject that stays within the LIMIT is rid of its stale summaries again and again, once runs stop raising) |
| `services` | holds | capture nodes: `RawNeverLeaves`, `WrittenAsItself`, `OutcomeHonest`; retries: `TroubleSurvived` (a batch is given up only for trouble longer than the schedule, and the time limit does not strike where it has room for the trouble); composition: `BestKept`, `AgreementRewarded`; migrations: `WholeRunRepairs`, `RerunKeepsTrail`; export: `SupersetOfCurated`, `DumpExplainsItself` |
| `summary_unsupported` | violated | a source deleted between selection and write leaves a live summary of it |
| `reinforce_unaudited` | violated | a reinforcement that updated nothing is audited |
| `resurrection` | violated | a delete between the two lookups of one candidate lets the assistant restore the memory |
| `change_of_mind` | violated | the user's new value is absorbed by the assistant's slotless copy of the sentence |
| `stale_forever` | violated | a subject whose rows are all consolidated is never scheduled, its stale summary never retired |
| `capture_shutdown` | violated | shutdown loses accepted turns |
| `rounding` | violated | the ranking rounds and the drop loop does not: the memory ranked first can be the one dropped |

The violated properties state what a comment of the repository says; each has an
entry under `findings` with the quotation. Each passing run has a type invariant of
what it composes (`decay`, `app`), or a proof of one (`TypeCorrect` of the memory
store, `ServicesTyped`).

*Bounds.* `slots`: four ids allow three captures, one of them a batch that fills
the slot twice, so a value can be superseded in the transaction that inserted it
and again later; two workers, because a third only waits for the same lock; two
requests, so that two deletes, or a delete and an edit, of one memory race.
`reflection`: three memories and a summary, clusters of two or three, two runs.
`MaxCaptures` and `MaxEdits` bound the counters. The ids are chosen by `CHOOSE`,
so workers, requests and runs are permuted, ids are not.
`decay`: two rows and batches of one, so that two workers compete for rows and
each reaches the rail of two batches; ages saturate beyond the age of archiving;
one crash and one other write at a time.
`app`: three tokens and two memories, so a client can leave before, between and
after tokens; two turns, two consumers and one place, so that the queue is full,
and two generations of consumers; three callers of `get_pool`, so that one waits
behind a waiter; for the breaker a call lasts at most two ticks against a lock and
a cooldown of four, and two calls that are issued again and again reach a
threshold of two with a straggler or a probe left over; for the weekly job three
subjects and a LIMIT of two, so that one is left out, two rows each, so that there
are ties, and one summary each.
`services`: four proposed items with a cap of three, and a recognised, a plain and
a hedged fact; the shipped delays and time limit, provider waits below, at and
above the ceiling, calls of 0, 60 and 180 seconds (one try of litellm and three),
earlier nodes that took up to 400 and trouble from a minute to longer than the
limit, so that there is room for it in some cases and not in others; a grain of 30
where a score of 1 is 400, so that totals that differ round to the same; three
rows with different, missing and future signals, lengths from blank to two,
budgets negative and four, top-2; two migration runners with two runs each; an
export cap equal to the number of ids, so that tables of the cap's size and, for
the trail, beyond it occur, and two pages.
`CHECK_DEADLOCK FALSE` stands where the bounds let all actors finish.

*Fairness.* Of the memory store's runs only `stale_forever` has fairness: a
transaction that holds its lock goes on, the weekly cron visits the subject whenever
it qualifies and does not crash every week before its first transaction, and a run
that selected a cluster ends. That is more than the code promises, and the property
is violated all the same. Nothing forces users, turns or operators to act. For the
weekly job: Sunday 04:00 comes round (`JobFires`), and a run that has begun goes on or
raises (`VisitStep`; every call in it has a time limit). Which of its outcomes a visit
has is left open, errors in every week included. For the breaker:
the clock runs, searches end within `wait_for`'s budget, outcomes are sent, and
turns keep asking; the environment's `Heal` ends failures, cancellations and
Redis errors, and `Recovers` is claimed only if it happens.

For decay: time passes, a running process takes its next statement, the scheduler
comes back and handles a fire that stays due, a capture transaction ends; crashes
are bounded. `CronRun` has strong fairness: in this run one run id is in use at a
time, so an operator's sweep holds the scheduler's back, and the assumption is
that operators do not start one in the scheduler's way every night. For the
capture worker: the event loop resumes every consumer that can go on, and a job
ends because `run_capture` is under `wait_for`. For chat: the event loop resumes
graph and handler; retrieval and completion have time limits; nothing makes a
client leave or stay. For the pool: the event loop, and `open(timeout=15)`;
nothing makes anyone call or close.

*Where the properties stop.* Some properties are claimed under a condition the
code does not enforce. What happens outside it was found with the same modules by
changing a constant or dropping the condition, and is recorded here rather than as a
run:

- `NoOrphan` and `OnePoolPerDsn` hold while `overlap` is false. `close_pools` with
  a `get_pool` in flight pops a pool that opened after it looked and never closes
  it (`store/db.py`).
- `SweepComplete` is claimed for one run id at a time. With `Overlap = TRUE` two
  sweeps with different ids stamp over each other, a worker meets a row it has
  already counted, and `add_processed` raises (`jobs/claims.py`).
- `RawNeverLeaves` is about wording in which Presidio recognises an entity. Where its
  recognizers find nothing, `redact` returns the text as it is (`capture/pii.py`), and
  no property can be stated about that.
- `WrittenAsItself` leaves out embedding answers with a gap. `llm.config.embed` sorts
  such an answer by `index` and drops the indexes, `embed_candidates` pairs by
  position, and the candidates behind the gap are stored with the vector of another
  text. The width check does not notice it.
- `StaleRetiredInReach` is about subjects that stay among the first `max_subjects` with
  enough rows, and about runs that stop raising. A subject behind the LIMIT is not
  visited while those before it keep their rows (rows that form no cluster, or of
  which every summary fails, keep them), one below the minimum never, and one behind a
  subject whose visit raises each week never either (`jobs/reflection.py`).
- `CapturedWhileServing` is about a worker nobody stops. A turn enqueued while
  `stop()` waits starts a new generation of consumers, which `stop()` then forgets
  (`capture/worker.py`).
- `TroubleSurvived` promises that the time limit spares the job only where it has
  `Room`: for what the earlier nodes used, the trouble, one hanging call, one wait and
  the call that succeeds. `capture/config.py` calls the 600 seconds generous because
  of the 275 of backoff, but two calls that hang for 180 seconds, or earlier
  nodes that had to retry themselves, leave less than the schedule, and trouble that
  the schedule would outlast ends in a timeout. Endless throttling does so too, so it
  is reported as a timeout and not as an unavailable embedding.
- `ThresholdOpens` is about how a closed circuit opens. A half-open circuit is
  also opened again by the failure of a call that a Redis error admitted blindly.
- `WholeRunRepairs` is about a whole run. After an interrupted one the next grants
  again under the trigger function of migration 0006, until 0008 replaces it.
- `SupersetOfCurated` is about one actor. Rows other actors hold about the subject
  are hidden from the export by row-level security.

## 4. Proofs

Every safety property of a passing run is also a theorem: every invariant, every
action property and both refinements. What is left to TLC is liveness. The
theorems hold for every value of the constants that the named ASSUMEs admit: any
number of memories, workers, requests, runs, turns, tokens, callers, scores,
lengths, budgets, migration runs. An `ASSUME` says that nulls are distinct, that
counters and limits are natural numbers, that a table is finite (decay, export,
retrieval) or that turns and consumers are (capture worker), that `Similar` is
symmetric and reflexive, that `MinCluster <= MaxCluster`, and what the code
checks itself (`ThresholdAboveFloor`, the import-time check of `jobs/decay.py`).
Beyond these:

| Theorems | Condition | Why |
|---|---|---|
| breaker | `BreakerAssumption`: a call, from admission to report, is shorter than the lock's TTL and than the cooldown | 13 s and 30 s against about 10 s with the defaults |
| `SweepsAreComplete`, `DecayRefines` | `Overlap = FALSE`: one run id in use at a time | outside it the claim is false, see section 3 |
| `TroubleIsSurvived` | `Room`, a condition in the second half of the property | outside it the time limit can strike first, see section 3 |
| `WrittenIsVetted` | no gap in the embedding answer, a condition in the property | outside it the claim is false, see section 3 |
| `NoPoolIsLost`, `OnePool` | `overlap = FALSE`, a condition in the properties | outside it the claim is false, see section 3 |
| `DrainIsComplete` | `NeverStopped`, a condition in the property | `stop()` throws the queue away |

Each theorem rests on an inductive invariant, proved with one lemma per action or
group of actions.

`MemoryStoreProofs`: `TypeCorrect`, `SlotsSingleValued`, `DeletedRowsFrozen`.
`SlotSingleValued` is about committed rows and not inductive: a commit publishes
a view nobody has looked at. `IInv` adds that
(a) a worker is past the lock exactly if it holds it, and only such a worker has
uncommitted rows (`LockInv`), so two views never change at once;
(b) rows with uncommitted versions are not deleted in the table
(`WritesUndeleted`), because deletes wait for the row lock;
(c) every worker's view has one live row per slot (`ViewSlots`).
Governance and reflection steps satisfy `OutsideChange`: they add rows without a
slot or change rows that are neither deleted nor locked without moving slot or
pointer, and so can only shrink the live rows of a slot, in the table and in
every view. `DeletedRowsFrozen` uses (b) for the commit.

`HistoryProofs`: `TrailMatches` (`AuditMatchesTable`), `ChainsHold`
(`SupersessionChain`), `RetiredFree` (`RetiredFreesSources`),
`SupersessionIsFinal`, `SupersededGoesStale`. `HistoryInv` says of what each
transaction *would* commit what the properties say of the table: its view agrees
with the trail it would leave (`ViewTrail`) and is chained (`ViewChains`). Others
commit while a transaction is open, so this is preserved only because
(a) uncommitted audit rows are about rows the transaction has written and about
captures only (`PendInv`): elsewhere the trail it would leave is the present one;
(b) an uncommitted version keeps the committed row's summary, its successor if it
has one, and is not deleted (`VersionInv`);
(c) rows point at summaries that exist (`SourceInv`), and one that is superseded
but not committed has its summary stale or deleted in the view (`StaleInv`).
The bookkeeping is in two notions: `Explains` says that a set of audit rows is
exactly what happened to a row, and `TellsStep` that a trail that grows by such a
set stays true; `OutsideMarks` is what governance and reflection do to a row.
That a slot's history has a newest value is `ChainedSupersedes`: a set of rows
closed under "superseded by" would have to avoid the new row, which has no
successor, and so would have been closed before. A reinforcement is audited even
if no row was found; it is not one of the outcomes that leave a mark, which is why
`AuditMatchesTable` holds although `ReinforceAudited` does not.

`SlotsAreRegisters` (`ImplementsRegister`) is proved in `HistoryProofs` too. Every
step of captures, requests and runs is a `Fill`, a `Delete` or leaves the registers
alone. Only `CaptureCommit` is a `Fill`, and what it publishes was built by earlier
steps, so `RegisterInv` describes it while it is being built (`FillsOf`): the open
transaction moves no row to another slot, adds a value to every slot whose value it
retires, and leaves one of the values it adds live. That the other changes to live
rows touch no slot is `SummarySlots`: only summaries go stale or are retired, and no
summary fills a single-valued slot. `RequestInv` says that a request is about a row,
so that a delete takes a value that the slot has had.

`DecayProofs`: `DecayTypes` (which says that a worker's locks are the rows of its
open batch), `SweepsAreComplete`, `DecayRefines`, `StampMeansDecayed`. `BatchInv`
says that a claimed row is still as it was claimed, but for its age: that is what
row locks are for, and what makes `Commit` the abstract `DecayBatch`. `HistoryInv`
there ties stamps and counted rows to the sweep's history. Under `Overlap = FALSE`
`SoloInv` adds that the history of the id in use *is* its stamps, and that what a
drained worker could not claim is in the hands of a co-worker of the same sweep.
`DecayRefines` is `ImplementsAbstract` itself: `DecayAbstract` is a safety
specification. `StampMeansDecayed` needs no discipline: also overlapping
sweeps never stamp a row without the weight and archive mark that go with it.

`CaptureWorkerProofs`: `WorkerTypes`, `WritesOnce`, `DrainIsComplete`. `TurnInv`
says where every turn is: once in one queue, or in the hands of one consumer that
has not committed it before. `ServingInv` says, while nobody stops the worker,
what the join counter counts (`JoinCounts`): the turns waiting plus the consumers
that have one in hand.

`ChatProofs`: `ChatTypes`, `HeadersAreTrue`, `CapturesAreWhole`,
`AbortStopsGraph`. The event queue holds exactly the part of the stream
(metadata, tokens in order, done, sentinel) that the handler has not taken
(`QueueInv`), so reaching the sentinel of a graph that ended well means that every
token was sent.

`PoolProofs`: `PoolTypes`, `NoPoolIsLost`, `OnePool`. Whoever opens a pool heads
the queue of its lock, also when `close_pools` overlaps; alone, a call's lock is
still its DSN's and no two DSNs share one (`LockInv`), so only one call per DSN
looks and opens at a time, and what `close_pools` has still to close is what is
registered (`ClosingInv`).

`ApplicationProofs`, the breaker: `TypeCorrect`, `ProbeSingleFlight`,
`OpensAtThreshold`, `OnlyProbesClose`. `SingleProbe` alone is not inductive.
`Covered` says why no second probe is elected: while a probe is in flight the
circuit is closed, or open and cooling for longer than the probe can last, or half
open and locked for longer than that. Deleting the lock is harmless because each
script that does so also closes the circuit or restarts the cooldown; for
`force_open`, whose two commands are not atomic, `ForceCovered` says that the
circuit is still cooling when the lock goes.

The five together: every step of `MCApplication` is a step of one piece and leaves
the others alone (`AppSteps`), and its initial states are initial states of each,
but for a chat at rest (`AnsweredInv`: an answered request satisfies the chat's
invariant too). So worker, pools, breaker and weekly job run as they do alone
(`PartsRun`), types hold (`AppTyped`), and so does every safety property of the
`app` run under the specification TLC checks (`AppSafe`).

`ServicesProofs`, five pieces with an invariant each. `PiecesRun` says that they run
in `MCServices` as they do alone, `ServicesTyped` that types hold there.

- Pipeline (`RawStaysInside`, `WrittenIsVetted`, `JobsTellTheTruth`): the list a node
  gets is vetted for it, and only `write` writes. For the pairing of vectors: the
  entries of an answer without a gap are an initial part of the batch, and the only
  increasing list of an initial part is the identity (`PicksInitial`).
- Retries (`TroubleIsSurvived`): `RetryInv` says that the rounds behind the batch took
  at least their delays, that whoever gave up did so while the trouble was longer
  than the schedule, and that the loops wake up `SoonAfter` the end of the trouble: a
  call and a sleep that began in it, and no more, because every wait is capped. Where
  there is `Room`, the call that succeeds still fits. Nothing is assumed of the
  constants but that they are numbers, and that the earlier nodes left some time.
- Composition (`AgreementIsRewarded`, `BestIsKept`, `RankingDetermined`).
  A memory that dominates another has at least its total, through normalisation, the
  zero-filled mean, halving, saturation and rounding: each is shown to be monotone
  and to stay in its range (`DominatesTotal`, `TotalBounded`). `RankedOK` says that
  nothing but blank lines is missing before a member of the ranking, `SelectedOK` that
  what is worse than a dropped memory was dropped. `KeptInv` is `BestKept` for every
  moment of the loop; that taking a line out of a block lowers its cost by that line,
  wherever it stood, is `CostWithout`.
- Migrations (`MigrationsRepair`, `RerunsKeepTrail`): what a lone run has established
  up to its next file, and what it can rely on if the database was settled when it
  started.
- Export (`ExportIsSuperset`, `ExportExplainsItself`): rows are deleted softly and the
  trail only grows, so a later snapshot explains an earlier one; each SELECT is whole
  or as large as the cap.

Sums, sorting and filtering need induction over numbers. The library's induction
rules cannot be used here, but its statement that every set of numbers has a least
element can: `LeastNumber` and `SetInduction` turn it into induction over a set, and
the rest (`SumsDef`, `SortedExists`, `SortedUnique`, `PicksDetermined`) follows.

Only model-checked:

- the liveness properties (`StaleRetiredInReach`, `OldRowsArchived`, `Answered`,
  `ReplyArrives`, `CapturedWhileServing`, `CallsReturn`, `Recovers`) and the fairness
  part of the specifications: the prover has no rule for ENABLED;
- the properties that are violated.

## 5. State of the work

All models and the proofs of section 4 are done. What would come next:

1. The scheduler of the decay job: what `SweepComplete` says after writes and
   crashes, with an account of which rows they excuse.
2. Refinements for the capture worker (a bounded multiset of turns) and the breaker
   (a three-state automaton without Redis).

## 6. Not modelled

The evaluation harness measures offline and shares no state with the running
system. The frontend shows what the API returns. The query-embedding cache of
`retrieve/semantic.py` is keyed by model and text and returns what the model
answered, so no result depends on it; it is not modelled. The SQL of the two
searches, tokenizers, model names, prompts and request building are I/O or data;
their results are chosen freely where they are used. The duplicate guard of
`write_audit` is left out: no modelled caller repeats a row in one transaction.
`feedback` has no writer. Metrics, logging, health checks and message wording are
left out everywhere. `EVALSHA`'s script cache is left out: `_eval` hides it.
