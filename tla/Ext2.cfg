CONSTANTS
  Direct = 2
  PerBlock = 2
  BlockSize = 3
  SectorBytes = 2
  Groups = 2
  GroupBlocks = 7
  WrittenBits = 6
  GroupInodes = 9
  ByteBits = 2
  BlockInodes = 3
  SectorInodes = 1
  Leftovers <- MCLeftovers
  DirSlots = 4
  Sizes <- MCSizes
  Path <- MCPath
  Image <- MCImage
  MaxCalls = 4
SPECIFICATION Ext2Spec
INVARIANTS UsedBlocksAreMarked BlocksHaveOneOwner NamesAreSound TransfersAreRight CountsCoverClearBits
CHECK_DEADLOCK FALSE
