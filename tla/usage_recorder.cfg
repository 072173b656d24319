SPECIFICATION FairSpec
CONSTANTS
    Keys = {k0, k1}
    Closers = {c0, c1}
    MaxRecords = 3
INVARIANTS
    Conserved
    CloseSettles
PROPERTIES
    CloseReturns
    RowsFlushed
\* The recorder stops for good once Close has returned.
CHECK_DEADLOCK FALSE
