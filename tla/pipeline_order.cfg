SPECIFICATION FairSpec
CONSTANTS
    Partitions = {p0}
    LogLen = 3
    Malformed <- MCMalformed
    Workers = {w0, w1}
    MaxPoll = 2
    MaxRestarts = 0
INVARIANTS
    AccountedBeforeCommit
    GaugeReturnsToZero
PROPERTIES
    CancelDrains
    BatchesComplete
\* The pod really stops: no restart is due after the last one.
CHECK_DEADLOCK FALSE
