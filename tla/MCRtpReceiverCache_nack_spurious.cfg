\* A gap whose newer end is seq 0 makes loss records for the whole seq space.
CONSTANTS
    SeqModulus = 16
    StartSeq = 13
    MaxPackets = 5
    ReorderWindow = 3
    MaxDuplicates = 1
    MaxCacheDuration = 2
    NackInterval = 1
    MaxTime = 4
SPECIFICATION Spec
\* The stream ends: every packet is sent and the clock bound is reached.
CHECK_DEADLOCK FALSE
PROPERTY
    NackOnlyForUnreceived
