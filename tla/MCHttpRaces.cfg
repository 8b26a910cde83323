CONSTANTS
  Request = {r1, r2}
  Owner = {o1, o2}
  ThreadCounts = {0, 1}
  MaxOpens = 1
  Free = Free
SPECIFICATION FairSpec
INVARIANTS WantedTaskIsHeld
PROPERTIES ImplementsContract CallReturns ShutdownDrains
CHECK_DEADLOCK FALSE
