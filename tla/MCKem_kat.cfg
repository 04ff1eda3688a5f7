SPECIFICATION Spec
CONSTANTS
    Threads = {t1, t2}
    Seeds = {s1}
    NoSeed = NoSeed
    MaxDraws = 1
    MaxRequests = 3
    Algs = {"smaug128"}
    NoAlg = NoAlg
    Family <- MCFamily
    Size <- MCSize
    Flips = {}
    Singular = {}
    Careless = FALSE
    MaxOpened = 0
INVARIANTS
    StreamsAreOwn
SYMMETRY MCThreads
CHECK_DEADLOCK FALSE
