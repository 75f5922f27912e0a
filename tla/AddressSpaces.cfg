\* Idle, the shell and three user tasks; a page table has 19 entries, so that the
\* stacks of the second user task lie in another; the heap outgrows its own.
CONSTANTS
  PerTable = 19
  StackPages = 1
  KernelTasks = 2
  MaxUserTasks = 3
  BootHeap = 18
  MaxHeapPages = 1
SPECIFICATION PagingSpec
INVARIANTS KernelMemoryIsSound UserTasksOwnTheirPages CreationWritesToTheTask
CHECK_DEADLOCK FALSE
