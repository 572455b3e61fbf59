SPECIFICATION FairSpec
CONSTANTS
    Processes = {d1, d2, d3}
    d1 = d1
    d2 = d2
    d3 = d3
    Nobody = nobody
    MaxRelease = 3
    Good <- GoodReleases
    Broken = broken
    SharedRead = FALSE
    StderrStops = TRUE
    Flaky = FALSE
    CutRollback = FALSE
PROPERTIES
    GameStarts
