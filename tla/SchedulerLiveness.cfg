SPECIFICATION FairSpec
CONSTANTS
  idle = idle
  shell = shell
  t1 = t1
  t2 = t2
  Task <- AllTasks
  Idle = idle
  Shell = shell
  NoTask = NoTask
  Ops <- LiveOps
  PreemptTicks = 2
  Lines = {4}
  MaxCommands = 2
PROPERTIES ReadyTaskRuns DeadTaskLeaves CommandEnds
CHECK_DEADLOCK FALSE
