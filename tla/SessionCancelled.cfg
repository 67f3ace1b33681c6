\* Circle, then a step into the settings.
SPECIFICATION Spec
CONSTANTS
  Hosts = {h1}
  AppCount = 1
  MaxReports = 1
INVARIANT CancelledIsAtMenu
