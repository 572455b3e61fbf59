SPECIFICATION Spec
CONSTANTS
    Processes = {d1, d2, d3}
    d1 = d1
    d2 = d2
    d3 = d3
    Nobody = nobody
    MaxRelease = 2
    Good <- GoodReleases
    Broken = broken
    SharedRead = TRUE
    StderrStops = TRUE
    Flaky = TRUE
    CutRollback = FALSE
INVARIANTS
    TypeOK
    ReadyFileIsOwners
    GameNeedsReadyDaemon
    NoMissedUpdate
SYMMETRY ProcessSymmetry
