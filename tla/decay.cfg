SPECIFICATION FairSpec
CONSTANTS
    Rows = {m1, m2}
    Runs = {r1}
    NoRun = NoRun
    MaxAge = 3
    HalfLife = 1
    DampingReference = 2
    Floor = 20
    ArchiveThreshold = 40
    WeightIncrement = 25
    WeightMax = 150
    Workers = {cron, w1}
    Cron = cron
    Writer = Writer
    NoOne = NoOne
    BatchSize = 1
    MaxBatches = 2
    Overlap = FALSE
    MaxCrashes = 1
    MaxWrites = 1
INVARIANTS TypeOK SweepComplete
PROPERTIES ImplementsAbstract OldRowsArchived
