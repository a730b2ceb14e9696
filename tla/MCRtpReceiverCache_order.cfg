\* Ordering and wrap-around: the stream starts 3 seqs before the wrap.  The
\* receiver runs with its RTCP report path (ReceiverReport), reports due
\* every 2 ticks (100 ms) and on every NACK.
CONSTANTS
    SeqModulus = 16
    StartSeq = 13
    MaxPackets = 5
    ReorderWindow = 3
    MaxDuplicates = 1
    MaxCacheDuration = 2
    NackInterval = 1
    MaxTime = 4
    ReportInterval = 2
SPECIFICATION ReportSpec
\* The stream ends: every packet is sent and the clock bound is reached.
CHECK_DEADLOCK FALSE
INVARIANTS
    TypeOK
    InOrderDelivery
    CacheSortedAboveCursor
    ExtendedHighestTracksNewest
    LossNeverOverReported
PROPERTIES
    ReportedHighestNeverDecreases
