SPECIFICATION Spec
INVARIANTS ListIsSound LocksAreOwed PidsAreUnique
PROPERTIES IdleOnlyWhenNothingReady
CONSTANTS
  idle = idle
  shell = shell
  t1 = t1
  t2 = t2
  Task <- AllTasks
  Idle = idle
  Shell = shell
  NoTask = NoTask
  Ops <- AllOps
  PreemptTicks = 2
  Lines = {3, 4}
  MaxCommands = 2
SYMMETRY SpareTasks
CHECK_DEADLOCK FALSE
