CONSTANTS
    w1 = w1
    w2 = w2
    ext = ext
    f1 = f1
    f2 = f2
    Worker = {w1, w2}
    External = ext
    Fiber = {f1, f2}
    Pool <- TwoPools
    JobPool = 4
    DequeCapacity = 1
    Programs <- BothBackends
SPECIFICATION FairSpec
INVARIANTS
    InOnePlace
    WaitsHonoured
    StopLeavesNothing
PROPERTIES
    MainReturns
