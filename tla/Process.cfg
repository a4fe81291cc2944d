CONSTANTS
    Servers = 2
    FinalPushTimeout = 2
    Grace = 1
    FlushTimeout = 1
    MaxRuns = 3
SPECIFICATION FairSpec
INVARIANTS TypeOK CrashKept EventsSent
PROPERTY ProcessExits
CHECK_DEADLOCK FALSE
