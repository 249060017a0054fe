CONSTANTS
    Requests = {r1, r2, r3, r4, r5}
    Stamps = {1, 2, 3}
    Nobody = Nobody
SPECIFICATION Spec
SYMMETRY Symmetric
INVARIANTS
    Converges
    MetadataInv
CHECK_DEADLOCK FALSE
