\* Two reports, two commands, the console connects twice; s_in_q holds two.
CONSTANTS
  InQCap = 2
  MaxTx = 2
  MaxReports = 2
  MaxCommands = 2
  MaxSessions = 2
CHECK_DEADLOCK FALSE
SPECIFICATION FairSpec
INVARIANTS
  TypeOK
  AnsweredOnce
  OnlyRacesLose
  OneStaleToTake
  GateHolds
PROPERTIES
  ReportsInOrder
  TxGoesOn
