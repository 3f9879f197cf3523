CONSTANTS
    r1 = r1
    small = small
    large = large
    Resources = {r1}
    FramesInFlight = 2
    ImageCount = 3
    Sizes = {small, large}
    Minimized = minimized
    MaxFrame = 3
    MaxWindowEvents = 2
    Faults = {"submit", "lost", "query", "create", "surface"}
SPECIFICATION FairSpec
INVARIANTS
    NoUseAfterFree
    SlotIsIdle
    FenceWillSignal
    SemaphoresPaired
PROPERTIES
    BeginReturns
