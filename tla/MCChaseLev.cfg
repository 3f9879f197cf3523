CONSTANTS
    Capacity = 2
    Thieves = {t1, t2}
    MaxPush = 4
    t1 = t1
    t2 = t2
SPECIFICATION Spec
INVARIANTS
    ClaimIsCurrent
PROPERTIES
    PopFailsOnlyWhenEmpty
    EveryItemTaken
    ImplementsWorkDeque
