CONSTANTS
  Channel <- MCChannel
  WithIds <- MCWithIds
  MaxActivations = 2
  None = None
SPECIFICATION Spec
INVARIANTS TypeOK ActivationIsolated DeactivatedIsClosed OwnEngineHanded WrittenWhereConfigured LossIsExplained
CHECK_DEADLOCK FALSE
