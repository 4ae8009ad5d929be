CONSTANTS
    Parts = {"exec"}
    Functions = {"fn"}
    Loops = {"outer", "inner"}
    Unions = {"hub", "sink", "pin"}
    Holders <- MCHolders
    Feeds <- MCFeeds
    MaxInvocations = 3
    MaxDepth = 2
    MaxSteps = 6
    ValueBuffers = {"value", "smooth"}
    ExecBuffers = {"ticks", "time"}
    Queues = {"queue"}
    Seconds = {"time", "smooth"}
    Values = {0, 1, 2}
    Truthy = {1, 2}
    Wait <- MCWait
    ZeroWait <- MCZeroWait
    Wired = {"ticks"}
    Waits = {1, 3}
    Times = {1, 2, 3}
    MaxRecords = 3
    MaxCalls = 3
    Slots = {"s"}
    Limits = {1, 2}
    Lifetimes = {0, 2}
    Deltas = {1, 3}
    MaxCopies = 3
    MaxGatesRun = 2
SPECIFICATION MCSpec
INVARIANTS
    CallsOnTime
CHECK_DEADLOCK FALSE
