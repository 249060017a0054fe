CONSTANTS
    Workers = {w1, w2}
    Requests = {r1, r2}
    Objects = {o1, o2}
    NoWorker = NoWorker
    MaxTxns = 2
    CanFail = TRUE
SPECIFICATION FairSpec
INVARIANTS
    HandedInOrder
    NoStranded
    AckedDurable
    SubmitInv
PROPERTIES
    CallsReturn
CHECK_DEADLOCK FALSE
