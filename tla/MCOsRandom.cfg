CONSTANTS
    t1 = t1
    t2 = t2
    Threads <- MCThreads
    Kernels <- MCKernels
    MaxAsk = 1
    NoThread = NoThread
    MaxLength = 2
    MaxInterrupts = 1
SPECIFICATION OsSpec
INVARIANT RequestsAreServed
PROPERTY EveryCallReturns
