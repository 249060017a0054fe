SPECIFICATION Spec
CONSTANTS
  Writers = {w1, w2}
  Readers = {r1}
  MaxTime = 3
  MaxOld = 3
  MaxWrites = 4
SYMMETRY Symmetry
CONSTRAINT FewOrClashing
CHECK_DEADLOCK FALSE
INVARIANTS
  OnDiskInv
  OpensOneState
  QuietIsClean
