SPECIFICATION Spec
CONSTANTS
    Algs <- MCAlgs
    Family <- MCFamily
    NonceLens <- MCNonceLens
    TagLens <- FormatTagLens
    BlockLen = 2
    CtrMod <- MCCtrMod
    DirectLen = 2
    Radix = 2
    LenWidth = 3
    LongWidth = 2
    CcmRoom = 4
    Memory <- FormatMemory
    Memories <- FormatMemories
    KeyLen <- MCKeyLen
    Requests <- FormatRequests
    Tampered = {4, 9}
    MaxCalls = 2
INVARIANTS
    KeystreamOnce
    OpenedOrNothing
CHECK_DEADLOCK FALSE
