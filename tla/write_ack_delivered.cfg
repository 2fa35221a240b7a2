\* The portal may be unplugged.
CONSTANTS
  MaxWrites = 1
  MaxAttempts = 2
  WriteQCap = 1
  RxQCap = 2
  SeqMod <- MCSeqMod
  MaxPortalReboots = 0
  MaxConsoleReboots = 0
SPECIFICATION Spec
INVARIANT AckSaysDelivered
