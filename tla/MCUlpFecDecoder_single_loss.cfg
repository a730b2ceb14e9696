\* One media packet lost, every FEC packet received.
CONSTANTS
    SeqModulus = 16
    StartSeq = 14
    Stream <- MCStream
    MaxCacheSeqDifference = 2
    MaxChunk = 4
    MaxLoss = 1
SPECIFICATION Spec
\* The receiver is torn down after Flush.
CHECK_DEADLOCK FALSE
INVARIANT
    SingleLossRecovered
