CONSTANTS
  Request = {r1, r2, r3}
  Owner = {o1}
  ThreadCounts = {1, 2}
  MaxOpens = 2
  Free = Free
SPECIFICATION OrderSpec
INVARIANTS TypeOK AtMostOneWanted PoolMatchesFlag
PROPERTIES NoLateStart NoOvertaking
SYMMETRY CallSymmetry
CHECK_DEADLOCK FALSE
