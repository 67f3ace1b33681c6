SPECIFICATION FairConfSpec
CONSTANTS
  MaxChanges = 2
  MaxFailures = 1
INVARIANTS
  SavedIsLoaded
  CleanIsSaved
PROPERTY
  ChangeIsSaved
