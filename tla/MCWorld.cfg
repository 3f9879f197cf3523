CONSTANTS
    x = x
    y = y
    Component = {1, 2}
    Datum <- MCDatum
    Capacity <- MCCapacity
    MaxEntities = 2
    TempGen = 8
    Nil = Nil
    MaxWork = 3
SPECIFICATION Spec
SYMMETRY DataSymmetry
INVARIANTS
    RecordsMatchRows
    QueryVisitsEachOnce
    DeferredTargetsResolve
    LayoutsSound
PROPERTIES
    PlaybackTakesEffect
    ImplementsEntityStore
