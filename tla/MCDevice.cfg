CONSTANTS
    Requests = {r1, r2, r3}
    First = First
    Missing = Missing
    Nobody = Nobody
    Kinds = {"GET", "PUT", "DELETE", "POST"}
    Stamps = {2, 3}
    MetaChunks = 2
    Attempts = 2
    CanFail = TRUE
SPECIFICATION MCSpec
SYMMETRY Symmetric
INVARIANTS
    ReadsWholeAndCurrent
    ResolvesToHolder
    NewestWins
    AnsweredIsDurable
    NobodyStuck
CHECK_DEADLOCK FALSE
