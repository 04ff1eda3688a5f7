SPECIFICATION Spec
CONSTANTS
    Threads = {t1}
    Seeds = {}
    NoSeed = NoSeed
    MaxDraws = 4
    MaxRequests = 0
    Algs = {"mlkem512", "smaug128", "ntru768", "ntru864"}
    NoAlg = NoAlg
    Family <- MCFamily
    Size <- MCSize
    Flips = {"noise", "message", "malformed"}
    Singular = {2}
    Careless = TRUE
    MaxOpened = 1
INVARIANTS
    TypeOK
    FailureClears
PROPERTY ImplementsKemSpec
CHECK_DEADLOCK FALSE
