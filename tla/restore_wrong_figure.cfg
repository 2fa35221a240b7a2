\* Two figures take turns on one slot.
CONSTANTS
  Figures = {f1, f2}
  Blank = Blank
  NoFigure = NoFigure
  NoImage = NoImage
  NumSlots = 1
  NumBlocks = 2
  BakQCap = 1
  MaxWrites = 1
  MaxEvents = 2
SPECIFICATION Spec
INVARIANT NoForeignBlock
