SPECIFICATION FairSpec
CONSTANTS
    Batches = {b0, b1, b2}
    Workers = {w0, w1}
    Closers = {c0, c1}
    QueueSize = 1
INVARIANTS
    NoSendOnClosed
    Accounted
    CloseDrains
PROPERTIES
    CloseReturns
\* Requests stop coming once each batch was enqueued and Close has returned.
CHECK_DEADLOCK FALSE
