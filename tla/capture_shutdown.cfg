SPECIFICATION WorkerFairSpec
CONSTANTS
    Jobs = {j1, j2, j3}
    Consumers = {c1, c2}
    MaxSize = 1
    MaxGens = 1
    NoJob = NoJob
    MayStop = FALSE
    MayExit = TRUE
PROPERTY AcceptedIsCaptured
CHECK_DEADLOCK FALSE
