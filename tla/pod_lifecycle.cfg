CONSTANTS
    Requests = {q1}
    Rows = {1, 2}
    MaxAttempts = 2
    NSignals = 1
    MaxBoots = 2
SPECIFICATION FairSpec
INVARIANTS
    AckedOnTopic
    UsageOnlyOfStored
    DroppedHasCause
    DrainedBeforeProducer
    AckedAccounted
PROPERTIES
    ShutdownCompletes
\* A pod that has used up its starts, and a client its attempts, stop.
CHECK_DEADLOCK FALSE
