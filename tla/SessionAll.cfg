\* One host: its address is data here. Two applications, one reporting thread.
SPECIFICATION FairSpec
CONSTANTS
  Hosts = {h1}
  AppCount = 2
  MaxReports = 1
INVARIANTS LaunchWasConfirmed NoSessionInMenu
PROPERTIES PairingAnswered DisconnectReturns ExitCompletes
