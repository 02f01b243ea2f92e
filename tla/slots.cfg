SPECIFICATION Spec
CONSTANTS
    java = java
    cpp = cpp
    tea = tea
    lang = lang
    NoId = NoId
    NoRow = NoRow
    NoAttr = NoAttr
    NoWorker = NoWorker
    Ids = {m1, m2, m3, m4}
    Workers = {w1, w2}
    Facts = {java, cpp, tea}
    Attributes = {lang}
    SingleValued = {lang}
    Similar <- Languages
    Batches <- SlotBatches
    MaxCaptures = 3
    Requests = {r1, r2}
    MaxEdits = 1
    Runs = {}
    Related <- AllPairs
    MinCluster = 2
    MaxCluster = 3
    RebuildLimit = 2
SYMMETRY StoreSymmetry
INVARIANTS SlotSingleValued AuditMatchesTable SupersessionChain
PROPERTIES DeletedFrozen SupersessionFinal ImplementsRegister
CHECK_DEADLOCK FALSE
