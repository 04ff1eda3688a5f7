CONSTANTS
    Algs <- MCAlgs
    UseDf <- MCUseDf
    BlockLen <- MCBlockLen
    SeedLen <- MCSeedLen
    Security <- MCSecurity
    MaxRequest <- MCMaxRequest
    Interval <- MCInterval
    VMod <- MCVMod
    JoinMax = 6
    NoAlg = "NONE"
    Strings <- MCStrings
    MaxOut = 3
    MaxUpdates = 3
    MaxDraws = 2
SPECIFICATION Spec
INVARIANTS
    TypeOK
    NeverTwice
    KeyErased
    PredictionResistant
PROPERTY
    ImplementsDrbgSpec
