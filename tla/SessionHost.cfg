\* Two hosts: the address can be edited.
SPECIFICATION Spec
CONSTANTS
  Hosts = {h1, h2}
  AppCount = 1
  MaxReports = 1
INVARIANT StreamsFromLaunchedHost
