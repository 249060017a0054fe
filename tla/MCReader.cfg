SPECIFICATION Spec
CONSTANTS
  Readers = {r1}
  Size = 4
  Chunk = 2
  Frags = {0, 3}
  MaxRanges = 2
  Validate = {"never", "always"}
  MaxPuts = 1
  MaxRot = 2
CHECK_DEADLOCK FALSE
INVARIANTS ReaderInv SentIsAsked
