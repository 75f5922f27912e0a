SPECIFICATION Spec
INVARIANTS BlocksAreSafe ListIsLinked FreeSpaceIsKept ExpandsAtMostTwice
CONSTANTS
  Header = 2
  PageSize = 10
  MaxPages = 3
  Sizes <- MCSizes
  MaxBlocks = 3
  Null = Null
CHECK_DEADLOCK FALSE
