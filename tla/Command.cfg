SPECIFICATION FairSpec
CONSTANTS
  Requests <- SomeRequests
  QueueLen = 2
  CacheSize = 2
INVARIANTS
  OwedIsQueued
PROPERTIES
  ImplementsPromise
  OwedIsAnswered
