CONSTANTS
  Channels = 3
  Node = {n1, n2}
  Authentication <- MCAuthentication
  Millis <- MCMillis
  Timestamp <- MCTimestamp
  Present <- MCPresent
  None = None
SPECIFICATION Spec
INVARIANTS TypeOK OkMeansAll ArrivesAsLogged GroupArrivesWhole ArrivesInOrder
CHECK_DEADLOCK FALSE
