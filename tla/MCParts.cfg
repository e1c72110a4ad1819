SPECIFICATION Spec
CONSTANTS
    Parts = {"options", "fuzz", "rerun", "candidate", "mus", "traces"}
    Signals <- MCSignals
    Cycles = 2
    Traces = 2
    Iterations = 6
    Drawn <- MCDrawn
    Visits <- MCVisits
    Hanging <- MCHanging
    ConfigFiles <- MCFiles
    CommandLines <- MCLines
    MaxRuns = 2
    MaxSources = 2
    MaxCandidates = 1
    MaxTraces = 2
    MaxFiles = 2
    MaxRounds = 2
    Variables = {1, 2, 3, 4}
    SygusResults <- MCResults
    FreeVariables <- MCNames
    Arity <- MCArity
    TrueIn <- MCHolds
    Waves <- MCWaves
    Setups <- MCBlocks
    BlockSignals <- MCBlockSignals
    Latencies = {0, 1}
    MaxDepth = 2
INVARIANTS
    FlagsWin
    StimulusAligned
    NothingSeenIsLost
    SelectionNearBest
    TracesAreItsOwn
    StaleReadsExplained
    PropertyMeansCandidate
    WrittenImpliesAll
    UnderspecifiedIsFree
    ExamplesAreInstants
\* The command line is parsed once, the search ends, the runs are bounded.
CHECK_DEADLOCK FALSE
