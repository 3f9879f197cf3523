CONSTANTS
    tap = tap
    view = view
    t1 = t1
    t2 = t2
    a1 = a1
    a2 = a2
    a3 = a3
    a4 = a4
    Nil = Nil
    Null = Nil
    Thread = {t1, t2}
    Sink = {tap, view}
    Addr = {a1, a2, a3, a4}
    Depth = 1
    MaxCalls = 3
    Tap = tap
    Capacity = 2
    MaxEvents = 3
    MaxDumps = 1
SPECIFICATION Spec
SYMMETRY MCSymmetry
INVARIANTS
    SnapshotsHold
    RetainsTheLast
    DumpIsFaithful
PROPERTIES
    ImplementsSinkRegistry
CHECK_DEADLOCK FALSE
