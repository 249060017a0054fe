CONSTANTS
    Names = {n1}
    Collection <- OneCollection
    Objects = {o1, o2}
    NoObject = NoObject
    Stamps = {1, 3}
    Ticks = {2, 4}
    MaxChunks = 1
    MaxMetas = 1
    MaxReads = 1
    MaxQueue = 2
    MaxHanded = 1
    MaxCrashes = 1
SPECIFICATION Spec
SYMMETRY Symmetric
INVARIANTS
    EngineInv
    ObjectsAreTrue
    ReadsOwnBytes
    NoLitter
CHECK_DEADLOCK FALSE
