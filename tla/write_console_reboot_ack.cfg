\* One restart of the console side between two writes.
CONSTANTS
  MaxWrites = 2
  MaxAttempts = 2
  WriteQCap = 2
  RxQCap = 2
  SeqMod <- MCSeqMod
  MaxPortalReboots = 0
  MaxConsoleReboots = 1
SPECIFICATION Spec
INVARIANT AckNamesItsWrite
