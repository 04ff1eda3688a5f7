SPECIFICATION Spec
CONSTANTS
    HaetaeQ = 17
    HaetaeWordBits = 7
    HaetaeAlpha = 4
    ZAlpha = 4
    DigitBits = 2
    LowerBits = 3
    ScaleBits = 3
    FlushDigits = 3
    FreqZ <- MCPackingFreqZ
    OffsetZ = 1
    FreqH <- MCPackingFreqH
    OffsetH = 4
    SizeZ = 3
    SizeH = 2
    Room = 6
    BaseZ = 3
    BaseH = 3
    BodyDigits = 8
    RangeZ <- MCPackingRangeZ
    RangeH <- MCPackingRangeH
    ReadDigits = 6
    SamplerN = 4
    Polys = 2
    Record = 3
    SamplerRate = 5
    SignsPerByte = 4
    MaxRefused = 2
    MaxStreams = 9
    LargeN = 4
    B0Square = 8
    B1Square = 9
    B2Square = 34
    GammaSquare = 2
    HaetaeMatrix <- MCHaetaeMatrix
    HaetaeYRange <- MCHaetaeYRange
    MaxRounds = 2
    MlDsaQ = 241
    D = 6
    Gamma2 = 20
    GrainBits = 1
    Reciprocal = 409
    ReciprocalBits = 13
    Beta = 2
    MlDsaWordBits = 12
    QBits = 8
    Values <- MCRoundingAll
    RoundingWords <- MCRoundingWords
    HintValues <- MCRoundingAll
    HintsN = 4
    HintsK = 3
    Omega = 2
    Lanes = 2
    Target = 3
    FirstBlocks = 2
    BlockUnits = 1
    MaxBlocks = 3
    BallBlocks = 2
    UniformUnits <- MCSamplingUniform
    EtaUnits <- MCSamplingEta
    SamplingQ = 241
    SamplingEta = 2
    BallN = 4
    Tau = 2
    SamplingRate = 3
    ScheduleNonceBits = 16
    Kappas <- MCScheduleKappas
    MlDsaL = 2
    MlDsaEta = 2
    EtaBits = 3
    Gamma1 = 12
    MlDsaNonceBits = 3
    Omegas <- MCMlDsaOmegas
    MlDsaMatrix <- MCMlDsaMatrix
    MlDsaYRange <- MCMlDsaY
    NttQ = 17
    LogN = 3
    Root = 3
    PairRoot = 2
    RadixBits = 10
    Inputs <- MCNttInputs
    Layouts <- MCLayoutLayouts
    Groups = 2
    Foreign <- MCLayoutForeign
    CodingN = 8
    CodingQ = 3329
    Widths <- MCCodingWidths
    CodingBlocks = 3
    Triples = 2
    CodingUnits <- MCCodingUnits
    PkeK = 2
    PkeQ = 3329
    Du = 10
    Dv = 4
    Noise <- MCPkeNoise
    Matrices <- MCPkeMatrices
    Bytes = 3
    MaxBody = 3
    HashLength <- MCMessagesHashLength
    SlhLayers = 2
    Height = 2
    Chains = 2
    Top = 2
    Forests = 2
    Depth = 2
    SlhVectors <- MCSlhVectors
    ByteBits = 3
    DigestN = 2
    LgW = 2
    DigestK = 3
    A = 2
    H = 3
    HP = 2
    Block = 2
    Fields <- MCBinaryFields
    LogParties = 3
    Bits = 3
    AimerModulus = 11
    AimerParties = 4
    Reps = 2
    Exponents <- MCAimerExponents
    Inverses <- MCAimerInverses
    RoundConstants <- MCAimerRoundConstants
    Streams <- MCAimerStreams
    Tapes <- MCAimerTapes
    Challenges <- MCAimerChallenges
    Errors = {5}
    Idle = Idle
INVARIANTS
    HaetaeHolds
    MlDsaHolds
    LatticeCodingIsFaithful
    SignatureCallsAreWhole
    SlhDsaHolds
    AimerHolds
PROPERTIES
    NeverBack
