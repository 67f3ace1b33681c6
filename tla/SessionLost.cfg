\* The connection is lost before connectionStarted.
SPECIFICATION FairSpec
CONSTANTS
  Hosts = {h1}
  AppCount = 1
  MaxReports = 1
PROPERTY TerminationEndsStream
