\* Two applications: the cursor can move.
SPECIFICATION Spec
CONSTANTS
  Hosts = {h1}
  AppCount = 2
  MaxReports = 1
PROPERTY LaunchesConfirmedApp
