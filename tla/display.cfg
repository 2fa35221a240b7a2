\* Two lines of log.  Three events in any mixture: commands to the panel lost,
\* changes of the link, USB or the reports, writes that end.
CONSTANTS
  MaxEvents = 3
  Rows = 7
  LogLines = 2
  Reports <- MCReports
SPECIFICATION Spec
INVARIANTS
  TypeOK
  DrawsInRam
  SetUp
  LogInOrder
  ReportsUnderstood
PROPERTIES
  ScreenCatchesUp
  LogCatchesUp
