SPECIFICATION CalSpec
CONSTANTS
    GroupCount = 2
    DqPerDqs = 2
    DelayMax = 2
    DqsInReserve = 1
    DqsOutReserve = 3
    DtapsPerPtap = 4
    StartLatency = 3
    MaxLatency = 4
INVARIANTS
    FailingGroupIsGroup
