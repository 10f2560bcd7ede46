SPECIFICATION FairSpec
CONSTANTS
  Hosts = {"a", "b"}
  Feeds <- MCFeeds
  NoVersion = NoVersion
INVARIANTS
  SyncedTableIsFeed
  ReadyMeansRouted
PROPERTIES
  TableConverges
  ImplementsCore
