SPECIFICATION Spec
INVARIANTS LivePagesAreMarked FailsOnlyWhenFull
CONSTANTS
  TotalPages = 8
  UsedSpace = 3
  CounterMod = 16
CHECK_DEADLOCK FALSE
