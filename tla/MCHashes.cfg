SPECIFICATION FairSpec
CONSTANTS
  NoOne = NoOne
  MayFail = TRUE
  Suffixes = {s1}
  Rehashers = {r1, r2}
  Mutators = {m1}
  MaxVersion = 1
  MaxUpdated = 1
CHECK_DEADLOCK FALSE
INVARIANTS
  HashesInv
  AnswersWhatItWasTold
PROPERTIES
  GetHashesEnds
