\* Two Encode calls: the second runs on whatever the first left in
\* fec_packet_mask_.
CONSTANTS
    SeqModulus = 65536
    BufSize = 288
    MaxMediaPackets = 48
    BurstyTableMax = 12
    MaskTable <- MCMaskTable
    Inputs <- MCInputs
    MaxEncodes = 2
SPECIFICATION Spec
\* The encoder is called MaxEncodes times and then left alone.
CHECK_DEADLOCK FALSE
INVARIANTS
    FecHeaderNamesGroup
    EncodeIndependentOfHistory
