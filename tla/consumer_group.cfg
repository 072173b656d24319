CONSTANTS
    Pods = {a, b}
    NTopics = 1
    MaxPartitions = 2
    MaxFaults = 1
    LogLen <- MCLogLen
    MaxSamples = 1
    MaxJobs = 2
SPECIFICATION FairSpec
INVARIANTS
    ReadyHasTarget
    NoSilentLoss
PROPERTIES
    BackOnlyByHandover
    LagNotUnderReported
    AllBoot
\* All records are committed and every fault and sample has happened.
CHECK_DEADLOCK FALSE
