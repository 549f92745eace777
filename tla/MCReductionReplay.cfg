SPECIFICATION Spec
CONSTANTS
    Tokens = {c1, c2, c3}
    Stamps <- Contents
    States <- MCStates
    DefaultState <- MCDefault
    NoOwner = NoOwner
    NoEdge = NoEdge
    Owner <- MCOwner
    Leaving <- MCLeaving
    MaxChapters = 3
SYMMETRY Symmetry
INVARIANTS
    TypeOK
    BookIsColdFold
    ResidentEqualsCold
PROPERTIES
    SiteMovesAreOwed
    OwedUntilPromoted
CHECK_DEADLOCK TRUE
