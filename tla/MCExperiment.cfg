SPECIFICATION Spec
CONSTANTS
    Designs = 1
    Walls <- MCWalls
    Scale = 3
    StageA = TRUE
    MaxEdits = 2
    MaxCrashes = 1
INVARIANTS
    MutantsAreFrozen
    UnfrozenOnlyMidRun
    TriesApart
PROPERTIES
    NeverRedone
    ZeroIsComplete
