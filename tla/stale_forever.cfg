SPECIFICATION FairSpec
CONSTANTS
    java = java
    cpp = cpp
    tea = tea
    lang = lang
    NoId = NoId
    NoRow = NoRow
    NoAttr = NoAttr
    NoWorker = NoWorker
    Ids = {m1, m2, m3}
    Workers = {w1}
    Facts = {java, cpp, tea}
    Attributes = {lang}
    SingleValued = {lang}
    Similar <- Identity
    Batches <- ReflectionBatches
    MaxCaptures = 2
    Requests = {r1}
    MaxEdits = 0
    Runs = {k1}
    Related <- AllPairs
    MinCluster = 2
    MaxCluster = 3
    RebuildLimit = 2
PROPERTY StaleEventuallyRetired
