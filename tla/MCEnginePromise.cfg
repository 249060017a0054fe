CONSTANTS
    Names = {n1}
    Collection <- OneCollection
    Objects = {o1, o2}
    NoObject = NoObject
    Stamps = {1, 3}
    Ticks = {2}
    MaxChunks = 0
    MaxMetas = 2
    MaxReads = 0
    MaxQueue = 1
    MaxHanded = 1
    MaxCrashes = 2
SPECIFICATION Spec
SYMMETRY Symmetric
PROPERTIES
    KeepsPromise
CHECK_DEADLOCK FALSE
