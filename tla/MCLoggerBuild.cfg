CONSTANTS
  Channel <- MCChannel
  WithIds <- MCWithIds
  MaxActivations = 2
  None = None
SPECIFICATION Spec
INVARIANT BuildReturns
CHECK_DEADLOCK FALSE
