\* A console-side board, a portal-side board and a neighbour's console in range.
CONSTANTS
  NoBoard = NoBoard
  Boards = {c1, p1}
  Neighbours = {c2}
  Consoles = {c1, c2}
  LostAfter = 2
SPECIFICATION FairSpec
INVARIANTS
  TypeOK
  LinkedToOtherRole
PROPERTIES
  LinkHeals
  LinkDrops
