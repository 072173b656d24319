SPECIFICATION Spec
CONSTANTS
    Partitions = {p0}
    LogLen = 2
    Malformed <- MCNoMalformed
    Workers = {w0}
    MaxPoll = 2
    MaxRestarts = 2
INVARIANTS
    NeverPastUnparked
\* The pod really stops: no restart is due after the last one.
CHECK_DEADLOCK FALSE
