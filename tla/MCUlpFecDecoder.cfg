\* The stream starts two seqs before the wrap; any two packets may be lost.
CONSTANTS
    SeqModulus = 16
    StartSeq = 14
    Stream <- MCStream
    MaxCacheSeqDifference = 2
    MaxChunk = 4
    MaxLoss = 2
SPECIFICATION Spec
\* The receiver is torn down after Flush.
CHECK_DEADLOCK FALSE
INVARIANTS
    DecoderMemorySafe
    OutputAscending
    OutputIsOriginal
    NothingSwallowed
