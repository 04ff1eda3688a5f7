SPECIFICATION Spec
CONSTANTS
    Algs <- MCAlgs
    Family <- MCFamily
    NonceLens <- MCNonceLens
    TagLens <- AliasTagLens
    BlockLen = 2
    CtrMod <- MCCtrMod
    DirectLen = 2
    Radix = 2
    LenWidth = 3
    LongWidth = 2
    CcmRoom = 4
    Memory <- AliasMemory
    Memories <- AliasMemories
    KeyLen <- MCKeyLen
    Requests <- AliasRequests
    Tampered = {}
    MaxCalls = 2
INVARIANTS
    RoundTrip
PROPERTIES
    Confined
CHECK_DEADLOCK FALSE
