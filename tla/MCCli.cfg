CONSTANTS
    Names = {n1}
    Collection <- OneCollection
    Objects = {o1, o2}
    NoObject = NoObject
    Stamps = {1, 2, 3}
    Ticks = {1, 2, 3}
    MaxChunks = 2
    MaxMetas = 2
    MaxReads = 1
    MaxQueue = 2
    MaxHanded = 1
    MaxCrashes = 3
    Cleans = TRUE
SPECIFICATION CliSpec
SYMMETRY Symmetric
INVARIANTS
    CliInv BodyIsOwn CleanIsClean
CHECK_DEADLOCK FALSE
