SPECIFICATION Spec
CONSTANTS
    Facts = {"ssn", "city", "maybe"}
    Recognised = {"ssn"}
    Hedged = {"maybe"}
    MaxProposed = 4
    MaxCandidates = 3
    Attempts = 3
    EmbedDelays <- EMBED_RETRY_DELAYS
    CallAttempts = 6
    BaseDelay = 4
    MaxDelay = 60
    Budget = 600
    Leads = {0, 100, 400}
    CallTimes = {0, 60, 180}
    RetryAfter = {1, 20, 300}
    Windows = {60, 179, 275, 100000}
    Unit = 4
    TsRankReference = 1
    FrequencyReference = 3
    Grain = 30
    Null = Null
    Ids = {1, 2, 3}
    SemanticRaw <- MCSemanticRaw
    KeywordRaw = {1}
    Signals <- MCSignals
    Lengths = {0, 1, 2}
    Overhead = 1
    Budgets <- MCBudgets
    TopK = 2
    Runners = {m1, m2}
    MaxRuns = 2
    Stored = {1, 2, 3}
    Actors = {alice, bob}
    RowCap = 3
    PageSize = 2
    MaxExports = 2
INVARIANT PrefixKept
CHECK_DEADLOCK FALSE
