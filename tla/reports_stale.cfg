\* One report, one command, the console connects twice.
CONSTANTS
  InQCap = 2
  MaxTx = 2
  MaxReports = 1
  MaxCommands = 1
  MaxSessions = 2
CHECK_DEADLOCK FALSE
SPECIFICATION Spec
INVARIANT QuietUntilActivated
