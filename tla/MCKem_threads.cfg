SPECIFICATION Spec
CONSTANTS
    Threads = {t1, t2}
    Seeds = {}
    NoSeed = NoSeed
    MaxDraws = 3
    MaxRequests = 0
    Algs = {"mlkem512", "mlkem768"}
    NoAlg = NoAlg
    Family <- MCFamily
    Size <- MCSize
    Flips = {}
    Singular = {}
    Careless = FALSE
    MaxOpened = 1
INVARIANTS
    SetsNeverMix
PROPERTY ImplementsKemSpec
SYMMETRY MCThreads
CHECK_DEADLOCK FALSE
