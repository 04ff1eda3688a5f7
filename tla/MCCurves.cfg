SPECIFICATION Spec
CONSTANTS
    FieldLimbBits = 2
    FieldBytesPerLimb = 1
    Moduli = {7, 11, 13, 31, 59}
    EcP = 31
    EcB = 25
    GX = 0
    GY = 5
    N = 23
    FieldSize = 32
    MultScalarBits = 5
    MultWindowBits = 2
    Zs = {1, 2, 10}
    KeysScalarBits = 5
    KeysEncodedBits = 6
    KeysDraws <- MCKeysDraws
    KeygenAttempts = 3
    EncodedScalars <- MCEcdhScalars
    Foreign <- MCEcdhForeign
    EcdsaByteBits = 2
    EcdsaScalarBits = 5
    ScalarBytes = 3
    DigestBytes = {1, 2, 4}
    Privates = {0, 1, 5, 16, 22, 23}
    EcdsaDigests <- MCEcdsaDigests
    EcdsaDraws = {0, 2, 9, 33, 45, 46, 63}
    Candidates = 3
    Rs = {0, 1, 2, 3, 5, 9, 20, 22, 23, 25, 31}
    EcdsaSs = {0, 1, 2, 3, 4, 5, 6, 7, 8, 9, 10, 11, 12, 13, 14, 15, 16, 17, 18, 19, 20, 21, 22, 23, 24, 31}
    FoldLimbBits = 3
    FoldBytesPerLimb = 1
    Count = 3
    Fold = 5
    Passes = 4
    Rights <- MCFoldRights
    XP = 109
    XA = 46
    XBasePoint = 9
    XFieldBits = 7
    XScalarBits = 6
    ScalarTries = {0, 7, 8, 21, 31, 32, 50, 63, 64, 103}
    EdP = 53
    D = 3
    Root = 23
    BaseX = 4
    BaseY = 43
    L = 7
    EdFieldBits = 6
    EdArithLimbBits = 4
    EdArithBytesPerLimb = 1
    ScalarLimbs = 2
    EdArithWindowBits = 2
    Scales = {1, 3}
    Stride = 5
    Wide <- MCEdArithWide
    Factors <- MCEdArithFactors
    EdSignScalarBits = 6
    EdSignDigests = {0, 3, 12, 61}
    EdSignSs = {0, 1, 6, 7, 12}
    Idle = Idle
INVARIANTS
    CurveArithmeticIsExact
    EcSchemesHold
    Curve25519Holds
