SPECIFICATION Spec
CONSTANTS
  Replicas = {r1, r2}
  Inserts = {i1, i2}
  Contents = {c1, c2}
  QuorumSize = 2
  MaxBlock = 3
  MaxLosses = 2
SYMMETRY Symmetry
INVARIANTS AcknowledgedIsStored StoredOnce LocalMatchesKeeper QuorumReached
CHECK_DEADLOCK FALSE
