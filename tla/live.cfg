SPECIFICATION FairSpec
CONSTANTS
    Worlds = {w1, w2}
    w1 = w1
    w2 = w2
    None = none
    EarlyTicks = FALSE
    WorldsEndMidway = FALSE
    PostThrows = TRUE
INVARIANTS
    TypeOK
    NoDanglingWorld
    SnapshotOfThisWorld
    QuietWhenDown
PROPERTIES
    ShutdownEnds
    Sampled
