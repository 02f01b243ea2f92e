SPECIFICATION AppFairSpec
CONSTANTS
    Memories = {m1, m2}
    MaxTokens = 3
    Jobs = {j1, j2}
    Consumers = {c1, c2}
    MaxSize = 1
    MaxGens = 2
    NoJob = NoJob
    MayStop = TRUE
    MayExit = TRUE
    Dsns = {app, admin}
    Callers = {k1, k2, k3}
    MaxCalls = 1
    MaxCloses = 1
    Calls = {g1, g2}
    Paths = {semantic, keyword}
    Threshold = 2
    Cooldown = 4
    ProbeTtl = 4
    Budget = 1
    Rtt = 1
    Subjects = {1, 2, 3}
    MaxSubjects = 2
    MinCluster = 1
    RebuildLimit = 25
    MaxRows = 2
    MaxSummaries = 1
INVARIANTS AppTypeOK HeadersTellPrompt CapturedWhole AtMostOnce DrainComplete NoOrphan OnePoolPerDsn SingleProbe ThresholdOpens
PROPERTIES NothingPulledAfterAbort Answered ReplyArrives CapturedWhileServing CallsReturn ClosedByProbe Recovers StaleRetiredInReach
CHECK_DEADLOCK FALSE
