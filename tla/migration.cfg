SPECIFICATION FairSpec
CONSTANTS
    Variants = {v60, v47}
    v60 = v60
    v47 = v47
    Nothing = nothing
    MidwayChanges = FALSE
INVARIANTS
    TypeOK
    KeepsPair
    PairAgrees
PROPERTIES
    LegacyStarts
    ReadyIsQuiet
    Migrates
