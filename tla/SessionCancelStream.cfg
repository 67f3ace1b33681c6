\* Circle on the list after the application was confirmed.
SPECIFICATION Spec
CONSTANTS
  Hosts = {h1}
  AppCount = 1
  MaxReports = 1
PROPERTY CancelIsFinal
