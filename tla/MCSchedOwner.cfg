CONSTANTS
    w1 = w1
    w2 = w2
    ext = ext
    f1 = f1
    f2 = f2
    Worker = {w1, w2}
    External = ext
    Fiber = {f1, f2}
    Pool <- OnePool
    JobPool = 8
    DequeCapacity = 1
    Programs <- Mixed
SPECIFICATION SpecAhead
INVARIANTS
    OwnerOnly
