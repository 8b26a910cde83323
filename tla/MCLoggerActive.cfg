CONSTANTS
  Channel <- MCChannel
  WithIds <- MCWithIds
  MaxActivations = 2
  None = None
SPECIFICATION Spec
INVARIANT OpenIsActive
CHECK_DEADLOCK FALSE
