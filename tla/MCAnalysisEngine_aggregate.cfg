SPECIFICATION Spec
CONSTANTS
    a1 = a1
    a2 = a2
    b1 = b1
    x = x
    y = y
    lower = lower
    cased = cased
    Absent = Absent
    Books = {"A", "B"}
    Chapters <- OnePerBook
    BookOf <- MCBookOf
    Contents = {x, y}
    Configs <- JudgingConfigs
    Sources <- TargetOnly
    Consumers = {lower, cased}
    StatsDelta = "corpus"
    Faults = {"map", "reduce", "judge"}
SYMMETRY Symmetry
INVARIANTS
    PublishedIsCold
