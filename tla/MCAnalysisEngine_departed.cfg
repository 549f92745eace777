SPECIFICATION Spec
CONSTANTS
    a1 = a1
    a2 = a2
    b1 = b1
    x = x
    y = y
    lower = lower
    cased = cased
    Absent = Absent
    Books = {"A", "B"}
    Chapters <- MCChapters
    BookOf <- MCBookOf
    Contents = {x, y}
    Configs <- AllConfigs
    Sources <- TargetOnly
    Consumers = {lower}
    StatsDelta = "words"
    Faults = {}
SYMMETRY Symmetry
INVARIANTS
    DepartedChaptersLeaveNoGroup
