SPECIFICATION Spec
CONSTANTS
    Books <- MCBooks
    Texts <- MCTexts
    NoText = "none"
    ChaptersIn <- MCChaptersIn
    Configs <- MCConfigs
    JurorMin = 5
    ClassMinEvents = 1
    Dominates <- MCDominates
    Reshuffles <- MCReshuffles
    AnchorZ = 0
    MaxGeneration = 3
INVARIANTS
    TypeOK
    ModelFollowsTheAggregate
    VerdictsCoverThePartition
    DroppedModelLeavesNothingStanding
PROPERTIES
    CommitsAreCold
