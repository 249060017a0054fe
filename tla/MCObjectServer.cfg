SPECIFICATION FairSpec
CONSTANTS
  Requests = {r1, r2}
  Containers = {c1}
  MaxTime = 4
  DeleteAts = {4}
  TwoPhase = TRUE
  Faults = {"unreachable", "full", "hangup", "death"}
CHECK_DEADLOCK FALSE
INVARIANTS
  ServerInv
  ContainerKnows
  ExpiryIsQueued
PROPERTIES
  RequestsEnd
