CONSTANTS
  Channels = 2
  FeedIds = 2
  FeedId <- MCFeedId
  InputIds = 2
  InputId <- MCInputId
  PoolSize = 2
  MaxConfigs = 2
  MaxWrites = 2
  MaxCalls = 3
SPECIFICATION FairSpec
INVARIANTS TypeOK ConnectionsAccounted CacheNeverAhead WriteOkIsCached InputFollowsFeed InputsNotOlder FeedsCurrent FeedsComplete
PROPERTIES WriteEnds ImplementsStore
CHECK_DEADLOCK FALSE
