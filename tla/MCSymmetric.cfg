SPECIFICATION Spec
CONSTANTS
    Limbs = 3
    LimbBits = 4
    PolyBlockBytes = 5
    PolyByteBits = 2
    WordBits = 5
    Multipliers = {0, 5, 43, 63}
    Pads = {37, 1023}
    PolyBytes = {0, 3}
    PolyMaxMessage = 10
    HmacBytes = {0, 1}
    HmacBlockLength = 3
    HmacDigestLength = 2
    MaxKey = 4
    HmacMaxMessage = 2
    CmacByteBits = 2
    CmacBlockLength = 2
    Reduction = 3
    CmacKeys = {0, 1, 2, 5}
    CmacMaxMessage = 5
    KdfDigestLength = 2
    MaxBlocks = 3
    MaxBlockNumber = 4
    MaxLength = 9
    Iterations = {1, 2, 4}
    ChaChaBlockBytes = 3
    Counters = 4
    ChaChaMaxInput = 10
    ChaChaMemorySize = 14
    ModeByteBits = 2
    ModeBlockBytes = 2
    Texts = {0, 3}
    IVs <- MCModeIVs
    ModeMaxInput = 4
    ModeMemorySize = 7
    AesKeys <- MCAesKeys
    AesBlocks <- MCAesBlocks
    DesKeys <- MCDesKeys
    BlocksTried <- MCDesBlocksTried
    TruthTable <- MCDesTruthTable
    BoxOf <- MCDesBoxOf
    PC1 <- MCDesPC1
    PC2 <- MCDesPC2
    Idle = Idle
INVARIANTS
    KeyedHashesAreStandard
    CiphersAreStandard
