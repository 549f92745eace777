SPECIFICATION Spec
CONSTANTS
    OffsetMax = 4
    LaneMax = 2
    PercentUnit = 4
    ScoreMax = 3
    ScoreUnit = 8
    Books <- MCBooks
    Verses <- MCVerses
    Targets <- MCTargets
    Holding <- MCHolding
    References <- MCReferences
    NoReference = NoReference
    Configs = {"Warning", "Error"}
    None = None
INVARIANTS
    TypeOK
    SnapshotIsExact
    LookupsAnswerTheSnapshot
PROPERTIES
    LoadedIsCurrent
    ImplementsPureAnalysis
