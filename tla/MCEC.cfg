SPECIFICATION Spec
CONSTANTS
  Writers = {w1, w2}
  Frags = {0, 1}
  MaxTime = 2
  MaxOld = 2
  MaxWrites = 3
  Legacy = TRUE
  MayPurge = TRUE
  MayFail = TRUE
SYMMETRY Symmetry
CHECK_DEADLOCK FALSE
INVARIANTS
  ECInv
  AwaitsItsCommit
  PrefsAreHonoured
