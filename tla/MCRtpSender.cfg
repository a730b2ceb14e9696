\* A 4-bit seq space; 5 sends from any first seq cross the wrap.
CONSTANTS
    SeqModulus = 16
    MaxCacheSeqDifference = 2
    MaxSends = 5
    MaxNacks = 2
SPECIFICATION Spec
\* The model stops when the application and the peer have nothing more to send.
CHECK_DEADLOCK FALSE
INVARIANTS
    TypeOK
    CacheIsWindow
    RtxSeqsConsecutive
