SPECIFICATION FairSetupSpec
CHECK_DEADLOCK FALSE
INVARIANTS
  NothingLeaks
  NothingUsedAfterRelease
  ReleasesHeld
PROPERTY
  CleanupReturns
