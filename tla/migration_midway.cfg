SPECIFICATION Spec
CONSTANTS
    Variants = {v60, v47}
    v60 = v60
    v47 = v47
    Nothing = nothing
    MidwayChanges = TRUE
INVARIANTS
    PairAgrees
