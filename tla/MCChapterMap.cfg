SPECIFICATION Spec
CONSTANTS
    x = x
    y = y
    Absent = Absent
    Layout <- MCLayout
    BookOf <- MCBookOf
    Contents = {x, y}
    Corpora <- MCCorpora
    Words <- MCWords
    Participants <- MCParticipants
    KeysOf <- MCKeysOf
    MixedCase = "mixed_case"
    SitesOf <- MCSitesOf
INVARIANTS
    TypeOK
    ObservationsKeepTheirWords
    ContributionIsOfTheText
    NoMissedSlot
PROPERTIES
    MovedWordsDirtyTheirChapters
    MapEnds
