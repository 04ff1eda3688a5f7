SPECIFICATION Spec
CONSTANTS
    Contexts = {c1}
    Algs <- MCAlgs
    NoAlg = NoAlg
    Family <- MCFamily
    Block <- MCBlock
    DigestLen <- MCDigestLen
    Domain <- MCDomain
    Radix = 8
    BitsPerByte = 4
    LenBytes = 2
    MaxBlock = 4
    Data = {0, 4}
    MaxChunk = 6
    MaxAbsorb = 17
    MaxVaried = 6
    MaxOut = 7
INVARIANTS
    TypeOK
    NothingLost
    AnswersAreStandard
    OutputBindsMessage
PROPERTY ImplementsHashSpec
