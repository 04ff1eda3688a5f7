SPECIFICATION Spec
CONSTANTS
    LimbBits = 2
    BytesPerLimb = 2
    Registers = {r1, r2}
    BignumMaxLimbs = 2
    KaratsubaLimbs = 2
    Words32 = {0, 1, 3, 13}
    ProductMaxLimbs = 3
    ModulusLimbs = {2, 3}
    NumberLimbs = {2, 3, 4}
    ExpLimbBits = 4
    ExpBytesPerLimb = 1
    NewtonSteps = 2
    MontModuli <- MCMontModuli
    ExpModuli <- MCExpModuli
    Bases = {0, 1, 2, 5, 12, 14}
    Exponents = {0, 1, 2, 3, 5, 6, 7, 11, 12, 22, 29, 63}
    WindowSteps <- MCExpWindowSteps
    Values <- MCTestValues
    TestSmallPrimes = {3, 7}
    Rounds = {0, 1}
    DefaultRounds = 2
    Bits = {1, 2, 3, 5, 6}
    SearchSmallPrimes = {3}
    SearchMaxTries = 3
    E = 5
    RsaSizes = {3, 5, 7, 8}
    RsaMinBits = 5
    MaxAttempts = 2
    MaxCalls = 2
    ElGamalSizes = {2, 3, 4}
    ElGamalMinBits = 3
    ElGamalMaxTries = 2
    RsaByteBits = 2
    RsaModuli = {61, 199, 1031}
    HashLengths = {1, 2}
    PssModuli = {61, 199, 257, 523}
    SaltLengths = {0, 1, 3}
    Idle = Idle
VIEW NumbersView
INVARIANTS
    LimbsAreExact
    ArithmeticIsExact
    SchemesWork
    KeysAreWhole
PROPERTIES
    EveryCallEnds
    ImplementsBignumSpec
