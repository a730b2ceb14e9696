\* One Encode call over the same arguments.
CONSTANTS
    SeqModulus = 65536
    BufSize = 288
    MaxMediaPackets = 48
    BurstyTableMax = 12
    MaskTable <- MCMaskTable
    Inputs <- MCInputs
    MaxEncodes = 1
SPECIFICATION Spec
CHECK_DEADLOCK FALSE
INVARIANT EncoderMemorySafe
