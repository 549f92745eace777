SPECIFICATION Spec
CONSTANTS
    x = x
    y = y
    Malformed = Malformed
    MaxVerses = 5
    MaxBook = 3
    Corpora <- MCCorpora
    Batches <- MCBatches
    Runs <- MCRuns
    Slugs <- MCSlugs
    Chapters <- MCChapters
    Texts = {x, y}
INVARIANTS
    TypeOK
    LayoutIsFresh
    StaysConstructible
    LocateInverts
PROPERTIES
    EffectIsHonest
    PresentedOrderKept
