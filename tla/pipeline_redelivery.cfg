SPECIFICATION Spec
SYMMETRY Symmetry
CONSTANTS
    Partitions = {p0, p1}
    LogLen = 1
    Malformed <- MCNoMalformed
    Workers = {w0, w1}
    MaxPoll = 2
    MaxRestarts = 2
INVARIANTS
    DuplicatesNeedNewBoundaries
    OneCopyPerIncarnation
PROPERTIES
    ImplementsDelivery
\* The pod really stops: no restart is due after the last one.
CHECK_DEADLOCK FALSE
