CONSTANTS
  c1 = c1
  c2 = c2
  Caller = {c1, c2}
  Mount = {"hdap1", "hdap2"}
  Path = {"/a"}
  Files = 2
  Dirs = 1
  OffsetMod = 2
  DirCount = {1}
  MaxNumber = 1
  ForceArg = {TRUE, FALSE}
  Free = Free
  NoHandle = NoHandle
SYMMETRY Callers
SPECIFICATION Spec
INVARIANTS HeldEntriesAreTheirs SecondFailureMeansFull
CHECK_DEADLOCK FALSE
