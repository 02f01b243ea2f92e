----------------------------- MODULE DecayRows -----------------------------
(* What the decay job reads and writes of a row of `memories`, the weight    *)
(* formula of jobs/decay.py and the claim predicate of jobs/claims.py.       *)
(* Time is counted in ticks, a weight in hundredths; the exponent of the     *)
(* formula is rounded down to whole half-lives.                              *)
EXTENDS Integers, FiniteSets

CONSTANTS
    Rows,               \* ids of memories, of every subject
    Runs,               \* decay_run_id values (see Decay!Fresh for their reuse)
    NoRun,              \* a NULL stamp, or that of a sweep nobody remembers
    MaxAge,             \* bound: ages saturate here
    HalfLife,           \* DECAY_HALF_LIFE_DAYS, in ticks
    DampingReference,   \* DECAY_DAMPING_REFERENCE
    Floor,              \* DECAY_FLOOR
    ArchiveThreshold,   \* DECAY_ARCHIVE_THRESHOLD
    WeightIncrement,    \* capture_config.weight_increment()
    WeightMax           \* capture_config.weight_max()

ASSUME DecayConstants ==
    /\ NoRun \notin Runs /\ IsFiniteSet(Rows)
    /\ MaxAge \in Nat
    /\ HalfLife \in Nat \ {0} /\ DampingReference \in Nat \ {0}
    /\ Floor \in Nat /\ ArchiveThreshold \in Nat
    /\ WeightIncrement \in Nat /\ WeightMax \in Nat

\* The import-time check of jobs/decay.py: without it no row could be archived.
ASSUME ThresholdAboveFloor == ArchiveThreshold > Floor

Unit == 100     \* the weight of a fresh, never reinforced row

Lower(a, b) == IF a <= b THEN a ELSE b
Higher(a, b) == IF a <= b THEN b ELSE a

PeakWeight(count) == Lower(WeightMax, Unit + WeightIncrement * count)

Halvings(age, count) ==
    (age * DampingReference) \div (HalfLife * (DampingReference + count))

DecayWeight(age, count) ==
    Higher(Floor, PeakWeight(count) \div (2 ^ Halvings(age, count)))

Ages == 0 .. MaxAge
Older(age) == Lower(MaxAge, age + 1)

Row == [deleted : BOOLEAN, archived : BOOLEAN, run : Runs \union {NoRun},
        age : Ages, count : Nat, weight : Nat]

FreshRow == [deleted |-> FALSE, archived |-> FALSE, run |-> NoRun,
             age |-> 0, count |-> 0, weight |-> Unit]

\* Mutant of Eligible: `decay_run_id <> run`, which no NULL stamp satisfies.
EligibleNullHidden(row, run) ==
    ~row.deleted /\ ~row.archived /\ row.run # run /\ row.run # NoRun

\* Mutant of Eligible: the stamp is not tested.
EligibleStampIgnored(row, run) == ~row.deleted /\ ~row.archived

Eligible(row, run) == ~row.deleted /\ ~row.archived /\ row.run # run

\* What one batch leaves of a claimed row: the stamp of claim_batch, the weight
\* of apply_weights and the archive mark of archive_rows.
Decayed(row, run, weight) ==
    [row EXCEPT !.run = run, !.weight = weight,
                !.archived = @ \/ weight < ArchiveThreshold]

\* The UPDATE of reinforce(): an archived row is strengthened, not unarchived.
\* `age` is the age of the writer's transaction, whose now() it stores.
Reinforced(row, age) ==
    IF row.deleted THEN row
    ELSE [row EXCEPT !.count = @ + 1, !.age = age,
                     !.weight = Lower(WeightMax, @ + WeightIncrement)]
=============================================================================
