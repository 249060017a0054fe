CONSTANTS
    p1 = p1
    p2 = p2
    c1 = c1
    c2 = c2
    r1 = r1
    r2 = r2
    NoOne = NoOne
    w1 = w1
    w2 = w2
    d1 = d1
    d2 = d2
    d3 = d3
    k1 = k1
    k2 = k2
    k3 = k3
    file = file
    db1 = db1
    db2 = db2
    db3 = db3
SPECIFICATION Spec
CHECK_DEADLOCK FALSE
INVARIANTS
    StoreIsUsable
    MetadataIsWhole
    NothingForgotten
    AckedIsFound
PROPERTIES
    NumbersAreKept
