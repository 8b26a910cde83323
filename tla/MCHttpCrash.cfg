CONSTANTS
  Request = {r1, r2}
  Owner = {o1}
  ThreadCounts = {1}
  MaxOpens = 1
  Free = Free
SPECIFICATION Spec
INVARIANT FailuresAreDeclared
CHECK_DEADLOCK FALSE
