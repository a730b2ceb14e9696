\* Four packets, seqs 2..5; any one of them may be lost, and one NACK or
\* RTX; the RTX seqs start at 15 and wrap.  The RTX cache keeps 2 packets
\* behind the newest; a round trip takes at most 2 ticks, within
\* max_cache_duration_ms.
CONSTANTS
    SeqModulus = 16
    StartSeq = 2
    MaxPackets = 4
    MaxCacheDuration = 3
    NackInterval = 1
    MaxTime = 6
    MaxCacheSeqDifference = 2
    RtxStartSeqs = {15}
    MaxDelay = 1
    MaxRtpLoss = 1
    MaxCtlLoss = 1
SPECIFICATION Spec
\* A behaviour ends when the clock bound is reached with the network empty.
CHECK_DEADLOCK FALSE
INVARIANTS
    SingleLossRecovered
    CompoundRoundTrip
    ReceiverSeesSentPacket
