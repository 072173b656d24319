CONSTANTS
    KeyOrder <- MCKeyOrder
    MaxAttributes = 2
    MaxBytes = 2
    RuneStarts <- MCRuneStarts
    Prefix <- MCPrefix
    Numbers <- MCNumbers
    Word = 16
    NsPerSecond = 2
    BucketSeconds = 3
    ClientGroups <- MCClientGroups
    KafkaMetrics = {"kafka.m"}
    HostKeys = {"host.name"}
    Resources <- MCResources
    Spans <- MCSpans
    Logs <- MCLogs
    Points <- MCPoints
    Sizes = {0, 5}
    Invalid <- MCInvalid
    MaxResources = 2
    MaxRecords = 2
SPECIFICATION Spec
INVARIANTS
    AttributesKept
    NothingLost
    MarshalOK
    LogsKept
    PointsKept
    DerivedExact
PROPERTIES
    RowsStable
\* A request is mapped once.
CHECK_DEADLOCK FALSE
