CONSTANTS
  Channels = 2
  FeedIds = 1
  FeedId <- WithoutFeedId
  InputIds = 1
  InputId <- OnceInputId
  PoolSize = 1
  MaxConfigs = 1
  MaxWrites = 1
  MaxCalls = 2
SPECIFICATION Spec
INVARIANT FeedIdIsOptional
CHECK_DEADLOCK FALSE
