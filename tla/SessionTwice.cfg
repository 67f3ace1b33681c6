\* Two internal threads lose the connection together.
SPECIFICATION Spec
CONSTANTS
  Hosts = {h1}
  AppCount = 1
  MaxReports = 2
PROPERTY OneTermination
