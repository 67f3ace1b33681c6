\* A connection lost as it is established.
SPECIFICATION Spec
CONSTANTS
  Hosts = {h1}
  AppCount = 1
  MaxReports = 1
PROPERTY ErrorIsShown
