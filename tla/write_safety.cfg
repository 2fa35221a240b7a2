\* Three writes through a queue of two; the portal may be unplugged and either
\* board may restart once; nothing is fair but write_task.
CONSTANTS
  MaxWrites = 3
  MaxAttempts = 2
  WriteQCap = 2
  RxQCap = 2
  SeqMod <- MCSeqMod
  MaxPortalReboots = 1
  MaxConsoleReboots = 1
SPECIFICATION FairSpec
INVARIANTS
  TypeOK
  AckedWasHandled
  OneOutcome
  NoSilentGap
PROPERTIES
  WriteOrder
  ChannelSafety
  ChannelLiveness
