\* Loss records and NACKs, away from the wrap (StartSeq = 1).
CONSTANTS
    SeqModulus = 16
    StartSeq = 1
    MaxPackets = 6
    ReorderWindow = 3
    MaxDuplicates = 1
    MaxCacheDuration = 2
    NackInterval = 1
    MaxTime = 4
SPECIFICATION Spec
\* The stream ends: every packet is sent and the clock bound is reached.
CHECK_DEADLOCK FALSE
INVARIANTS
    GapsAreRecorded
PROPERTIES
    NackOnlyForUnreceived
    ImplementsReceiverService
