SPECIFICATION Spec
CONSTANTS
    java = java
    cpp = cpp
    tea = tea
    lang = lang
    NoId = NoId
    NoRow = NoRow
    NoAttr = NoAttr
    NoWorker = NoWorker
    Ids = {m1, m2, m3, m4}
    Workers = {w1}
    Facts = {java, cpp, tea}
    Attributes = {lang}
    SingleValued = {lang}
    Similar <- Identity
    Batches <- SlotBatches
    MaxCaptures = 3
    Requests = {}
    MaxEdits = 1
    Runs = {}
    Related <- AllPairs
    MinCluster = 2
    MaxCluster = 3
    RebuildLimit = 2
PROPERTY ChangeOfMindKept
CHECK_DEADLOCK FALSE
