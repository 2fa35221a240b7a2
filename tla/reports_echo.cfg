\* One connection of the console, two commands, no reports.
CONSTANTS
  InQCap = 2
  MaxTx = 2
  MaxReports = 0
  MaxCommands = 2
  MaxSessions = 1
CHECK_DEADLOCK FALSE
SPECIFICATION Spec
INVARIANT EchoRequested
