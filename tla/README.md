# A TLA+ model of the UNED24 kernel

UNED24 is a small x86_64 teaching kernel (`kernel/src`): one processor, a page
allocator and a heap, a round-robin scheduler with preemption, interrupt-driven
serial consoles with a debug shell, device drivers and file systems. It has no
unit tests, and most of what can go wrong in it needs an interrupt at the wrong
place, a disk that fails or a long sequence of calls. This directory models its
core, checks the models with TLC on small instances and proves the central facts
with TLAPS for every instance.

All paths below are relative to `kernel/src` unless they start with `s`.

## The system

| part | state | operations | interacts with |
|---|---|---|---|
| page allocator (`memory/memory.c`) | a bit per page, three byte counters, a static next-fit cursor | `request_page`, `free_page` | paging, heap |
| heap (`memory/heap.c`) | a doubly linked list of segments, sizes, the end of the mapped region | `_malloc`, `_free`, `_realloc`, `expand_heap` | everything allocates; expansion maps pages |
| scheduler (`sched/scheduler.c`, `scheduler.h`, `arch/context.asm`) | task list, states, pids, current task, lock counter | `yield`, `schedule`, `block_task`, `unblock_task`, `pause_task`, `resume_task`, `exit`, `kill_task`, `create_task`, `add_task`, `go` | called by the interrupt end and by shell commands |
| interrupts and timer (`io/interrupts.c`, `devices/pit/pit.c`) | tick count, preemption flag and period | timer tick, common interrupt end | preempts the current task |
| debug shell (`debug/shell.c`) | current directory, console | about forty commands, run inside the serial interrupt | every other part |
| signals (`sched/scheduler.c`) | a queue and handlers per task | `add_signal`, `process_loop`: no caller | heap, scheduler |
| terminal, line discipline (`drivers/tty`) | input and output rings, the line being edited, subscribers | read, write, flush, the handler of a typed character | feed the shell, print through the serial driver |
| serial driver (`drivers/serial`) | an input and an output ring per port, the port that interrupted last | interrupt handlers, overflow interrupt, flush | terminal, interrupts |
| fifo (`devices/fifo`, `drivers/fifo`) | byte ring | put, get, flush: no fifo is ever made | device registry |
| device registry (`devices/devices.c`) | list of devices, table of drivers | create, search by name, dispatch | every driver |
| disk (`drivers/disk`) | one buffer and the command slots of each port | read and write of sectors, identify | file systems |
| partition tables, mounts (`vfs/vfs.c`, `vfs/partition`) | partitions of each disk, list of mounts, slots of each file system | `probe_fs`, `get_mount_from_path` | disk, file systems |
| open files (`vfs/vfs_interface.c`, `vfs/generic/vfs_compat.c`) | tables of open files and directories | open, read, write, seek, close, remove | shell, ext2 |
| ext2 (`vfs/generic/ext2`) | bitmaps, inodes and directories on the disk, counts in memory | create, write, read, delete | disk, heap |
| paging (`memory/paging.c`) | four-level tables, one space per task | duplicate, map, translate | page allocator, heap, scheduler |

The behaviours that are hard to test:

* **Interleaving.** The kernel has one processor, so concurrency is interrupts
  and preemption. A shell command runs *inside* the serial interrupt
  (`COM1_HANDLER` -> line discipline -> `tty_signal_handler`), in the context of
  whatever task was running, the idle task too. The first `unlock_scheduler` in
  it executes `sti`, so from then on the timer can switch the command away in the
  middle of its work. A second command from the same terminal cannot start: the
  serial interrupt stays in service until `pic_eoi`, after the handler. But COM2
  (IRQ 3) has priority over COM1 (IRQ 4): after `attach`, a command typed at COM2
  can run inside one typed at COM1.
* **Locks across switches.** `block_task` and `unblock_task` yield between
  `lock_scheduler` and `unlock_scheduler`.
* **Long sequences of calls.** Next-fit cursors that wrap, segments that are split,
  merged and absorbed, counters that drift.
* **Limits.** The last page, the last free segment, a request that misses a segment
  by less than a header.
* **Partial failure and power cuts.** A file is created or deleted by a dozen writes
  in a row; a transfer is several commands, of which one may fail; a boot reads tables
  from disks that may not answer.
* **Stale copies.** The processor's translations, page tables that are shared or not,
  subscriptions that are never removed, counts that are never written back.
* **Progress.** Ready tasks must run, dead ones must leave, commands and disk calls
  must end.

`PROJECT.json` lists these hazards at their lines, with the properties that cover
them.

## The modules

| module | models | run by |
|---|---|---|
| `PhysicalMemory` | `memory/memory.c` | itself |
| `MemoryProofs` | theorems about `PhysicalMemory` and `AddressSpaces` | tlapm |
| `Scheduler` | `sched/scheduler.c`, `scheduler.h`, with the interrupt end, the timer, the task commands of the shell | `MCScheduler` |
| `SchedulerProofs` | theorems about `Scheduler` | tlapm |
| `Heap` | `memory/heap.c` | `MCHeap` |
| `HeapProofs` | theorems about `Heap` | tlapm |
| `LineInput` | nothing: the abstract promise of a terminal to its reader | through `Terminal` |
| `Terminal` | the input side of `drivers/tty`, with `run_shell`, `attach` and `tty_signal_handler` of `debug/shell.c` | `MCTerminal` |
| `TerminalProofs` | theorems about `Terminal` | tlapm |
| `NormalizePath` | `vfs_normalize_path` of `vfs/vfs_interface.c` | `MCNormalizePath` |
| `OpenFiles` | `vfs/generic/vfs_compat.c`, with the calls of `vfs_interface.c` and `generic_ext2.h` that use its tables | `MCOpenFiles` |
| `VfsProofs` | theorems about `NormalizePath` and `OpenFiles` | tlapm |
| `Ext2Blocks` | the walks over an inode's blocks: `ext2_block.c`, `ext2_load_block_list` | through `Ext2` |
| `Ext2` | creation, writing and deletion in `vfs/generic/ext2` | `MCExt2` |
| `SerialOutput` | `drivers/serial/serial.c`, the output side of `drivers/tty`, `raise_interrupt` | `MCSerialOutput` |
| `SerialOutputProofs` | theorems about `SerialOutput` | tlapm |
| `Disk` | `drivers/disk/disk_dd.c`, `drivers/disk/ahci/ahci.c` | itself |
| `DiskProofs` | theorems about `Disk` | tlapm |
| `Mounts` | `devices/devices.c`, `vfs/vfs.c`, `vfs/partition`, the registration of FAT32 and ext2 partitions | `MCMounts` |
| `PartitionProofs` | theorems about `Mounts` and `Ext2` | tlapm |
| `AddressSpaces` | `memory/paging.c`, with `_initHeap`, `_stackalloc`, `create_task`, `init_cpus` and the loader as its callers | itself |

The modules meet in what one takes for granted of another. `AddressSpaces` takes frames
that nobody holds, which is `GrantIsFresh` of `PhysicalMemory`; `Ext2` takes block writes
that happen or fail, where `Disk` says what a failing transfer leaves; `OpenFiles` takes
names that exist or not, where `Ext2` says how they come and go; `Mounts` gives `Ext2` its
partition; `SerialOutput` and `Terminal` are the two directions of one console, and both
rest on the nesting of interrupts that `Scheduler` has for commands.

An operator whose comment describes a wrong variant (`FindsNoneOneLap`,
`DispatchAlwaysReady`, ...) is a deliberate fault: it stands next to the definition it
imitates, nothing uses it, and substituting it must make a property fail.

### PhysicalMemory

A page is its number above `first_available_page_addr`; the byte counters count
pages modulo `CounterMod` (2^64 / 4096 in the code). `bitfield` is the set of pages
whose bit is 1, over the bits the code can really touch: the bound checks use `>`,
so page `TotalPages` is testable. Bits behind the zeroed part of the bitfield hold
whatever memory held. `held` is what callers were given; callers free only what they
hold.

`StopsAt` and `FindsNone` say what the search loop of `request_page` does, from
cursor `c`: first lap, jump to page 1, second
lap up to `c - 1`, panic. The comparison with the start is made after the jump, so a
search that starts at 0, or at `TotalPages + 1`, never compares equal and does not
end (`"hung"`).
`LockPages` and `UnlockPages` are `lock_page` and `unlock_page`, counters included as
the code has them. A panic (`panic` loops for ever) is `halted`: the caller never
returns, and it is the only one there is.

Each operation is one step. `memory.c` takes no lock; its callers are boot code and
then the one shell command in progress.

### Scheduler

`tasks` is the list from `task_head`; `state`, `pid`, `current`, `irq`
(`irq_disable_counter`), `iflag` (the interrupt flag), `ticks`, `preempt` are the
variables of the code. `host` is the task a shell command interrupted, `created` the
task that command made and has not added. `owing` is the set of tasks switched away
between `lock_scheduler` and `unlock_scheduler`.

A function between lock and unlock is one step. Steps that are separate in the code
are separate here: `block_task` up to its yield (`Block`) and its unlock when the task
runs again (`FinishBlock`); `create_task`, `add_task` (or the loader's error path,
`DropTask`), and the end of the command. `Timer` and `OtherInterrupt` share the end of
`global_interrupt_handler`: it yields whenever the tick count is a multiple, whatever
the interrupt was. Every context switch ends in `newctxswtch`, whose last
instructions are `sti` and `ret`, also when the task it resumes was inside a locked
region.

The calls that running tasks make (`yield`, `exit`, `pause_task`, `resume_task`,
`block_task`, `unblock_task`) are made by any task but idle, with any listed task but
idle as argument. `Init` is the state of `_start` when it calls `go`.

### Heap

Addresses and lengths are in units of 0x10 bytes, to which `_malloc` rounds. `seg` maps
the address of each header to its fields; `live` maps the blocks callers hold to the
size they asked for. A call is `Call`, any number of `Expand`, and `Allocate`, which
also frees the old block of a `_realloc`; `Free` is `_free`. First fit from
`mainSegment` is the highest address that fits. `Expanded` keeps the quirk of
`expand_heap`: when it absorbs a free last segment the new segment is a header shorter
than the space it covers, and the statistics count a header too much. A heap that
needs more pages than `MaxPages` panics.

### Terminal and LineInput

`LineInput` says what a reader of a terminal may rely on: characters edit a line, a
carriage return queues it, a read takes what is queued up to a NUL; the line keeps its
last `LineCap` characters and the queue its last `QueueCap`. `Terminal` is the code, and
`Input` its refinement mapping: the line is the ring of the line discipline read from
`head` to `tail` modulo its size, as the trace in `line_discipline_delete_last` prints it.

`buffer`, `head`, `tail` are the line discipline's; `Rem` is the remainder of C, which
takes a tail of 0 to -1. `damaged` records a store outside the buffer, and `Junk` is what
a read outside it returns. `inb` is the contents of the input ring, which keeps
`InSize - 1` characters. `Insert`, `line_discipline_delete_last`,
`line_discipline_force_flush` and `RawByte` are what `line_discipline_read` does with a
byte from the serial interrupt. `_tty_modes` is a task's `tty_set_raw`, a function of the
interface that nothing in the tree calls yet; it passes the address of one byte that is
read as an `int`, so a 0 may arrive as something else.

`walks` is the stack of calls of `tty_run_subscribers` in progress: for which terminal,
how many subscribers are still to be called, whether the one being called has read a
command and not run it (`run`), and whether interrupts are on again (`open`). A call of
`tty_signal_handler` is the read of `devno` and, with a command, `RunCommand`; `attach`
is the only command that touches the terminals. `attach` ends in `set_current_tty`, which
takes and releases the scheduler lock and so turns interrupts on; other commands may.
`got` is the list of texts read and `cut` says whether the last read stopped at a NUL;
both are only there for the properties. A read, and an `attach`, is one step: an
interrupt of COM2 between two bytes of a read, or between the `memset` and the `strcpy`
of `devno`, is not modelled. The screen is not modelled either.

### NormalizePath

The string, the two pointers into it, and the loop that runs; one step is one turn of a
loop. `MCNormalizePath` holds the reference: a path is split at its slashes, and `.` and
`..` are resolved. Names that end in a dot (`a./b`) are left out of the comparison: the
code takes their dot for a component, which nothing in the tree says is wrong.

### OpenFiles

`table` holds both tables, `cursor` the static `fd` of `get_fd` and `get_dirfd`, `disk`
what exists under a name. An entry that is not loaded is `Free`; its old contents cannot
be seen through a descriptor that is still held. `held` is the descriptor of a caller
together with what the caller did with it (`entry`), which is what
`HeldEntriesAreTheirs` compares with the table. `misses` counts failed opens in a row,
`forced` says whether a forced removal has released entries.

`get_fd` and `get_dirfd` are the same search: next fit, as many turns as there are
entries. After the last entry was handed out the cursor is one past the table
(`return fd++`). What lies there is not known: read as loaded, the search goes on at 0 and
never reaches the last entry; read as free, an entry is written past the table
(`TakesPastEnd`), after which the model says nothing more (`damaged`).

`vfs_file_open` does not look whether the file exists, `vfs_file_write` advances the offset
whether or not it wrote, `vfs_file_read` does not move it. The shell's `create` and `mkdir`
never close what they opened (`Forget`). Whether `ext2_compat_prepare_remove` takes a name
for a directory it reads from an entry that `ext2_dentry_get_dentry` never fills, so a
directory may be removed or refused. Creation of a name that exists, and what a removal
leaves half done on the disk, belong to `Ext2`.

### Ext2 and Ext2Blocks

`Ext2Blocks` is what the code computes from the pointers of an inode, without state:
which blocks `ext2_read_inode_blocks` goes through for a count and a skip, which bytes
`ext2_read_inode_bytes` and `ext2_write_inode_bytes` move, and the list
`ext2_load_block_list` makes. The indirect blocks are in it as trees of pointers, all
three levels.

`Ext2` is the partition: `bitmap`, `imap`, `inode` and `content` on the disk, the free
counts in memory. A call (`CreateFile`, `WriteFile`, `DeleteFile`) is a sequence of
steps, one per write to the disk, in the order of the code; `stage` is the next one and `op`
the locals. A write of a bitmap may fail unnoticed, any other step may fail and end the
call where it stands (`StepFails`), and between two steps the machine may stop
(`Reboot`), which brings the counts of mkfs back. One such fault happens in a
behaviour. Lookups are by prefix, as `strncmp` with the entry's length makes them.
`unmarked`, `loose` and `cut` record which blocks and inodes the defects listed below
have let go of; the properties say that nothing else is ever affected. An inode is cut when
its deletion ends early: its blocks may be free by then and go to other files, and a name may
still lead to it, so it counts among the inodes that have blocks (`Owners` in the proofs)
and its blocks among the `unmarked`. The properties speak of all inodes in use (`InUse`: a
mode other than 0) and of the entries in all blocks, also in those of deleted directories,
since an inode can be had again with the blocks it had.

### SerialOutput

A printed byte goes into the output ring of the terminal (`tty`), a flush passes it to
the ring of the port (`ring`) and drains that into the UART (`sent`). The steps are the
bytes, two per byte where an interrupt can come between an index and its byte. A typed
character is an interrupt: it is counted in the input ring, which nobody empties, and
echoed through the same output ring. When the input ring is full the overflow interrupt
is raised in software and goes through the common end of all interrupts, which
acknowledges the serial interrupt in service (`serving`). An echo in the middle of a pair
of steps is a race on the ring; `raced` records it and its outcome is not followed.
Printed bytes are numbered, so the properties can tell loss, repetition and overtaking;
`passed` is the history of those that reached the console's ring.

### Disk

`calls` is the stack of disk calls in progress: a command typed at COM2 may read the disk
inside a command of COM1 that is reading it. A call goes sector by sector through the
steps of `read_port` and `write_port`: fill the port's one buffer, clear the status and
find a slot, write the command table, poll while the device is busy (`GiveUp` when it
stays so), issue, wait, copy. The controller is external: `Complete` moves the data,
`FailCommand` raises TFES, keeps the command's bit and may stop the port for good.
`clean` says that no other call touched the port during a call.

### Mounts

`_start` up to the mounted file systems, on disks of which `images` says what is on
them: `RegisterPort` and `RegisterComm` make the list of devices, `ScanDevice`,
`ReadGpt` and `ReadMbr` are `detect_devices`, `TryPartition` to `Ext2Register` are
`detect_partition_fs` and `mount_fs`. Each read is a step and may fail. A name is a
sequence: the device's name, a separator, the digits of the partition's number. It is
compared the way `strncmp` does. `FileOpen` follows a path through mount and slot to a
disk and a sector. FAT32 is only there to take partitions and slots; its driver is
vendored.

### AddressSpaces

`_duplicate_pd` copies three of four levels, so a space is modelled as the page table it
has for each region: a stretch of addresses that one page table maps. `table` says which,
`entry` what is mapped in it, `tlb` what the processor has cached since cr3 was loaded,
`low` whether the space still has the boot loader's lower half, through which
`paging.c` reaches page directories. Making a task is a list of `work`: back a page in the
current space, in the new one or in both, or write to one. A task is made at boot, or by
`spawn` and `loadelf` inside an interrupt of any task. In between the kernel heap grows,
in whatever space is current.

## The runs

All runs pass. A property in parentheses after a colon is a named part of the one before it.
The type invariants are proved (page allocator, scheduler, open files) or are a part of
`BlocksAreSafe`, `TextComesOut`, `CallsDoWhatTheyReport` (proved too), `NamesAreSound` and
`UserTasksOwnTheirPages`.

| run | what it shows |
|---|---|
| `pmm` | every order of requests and frees on 8 pages: pages in use stay marked (`LivePagesAreMarked`), a grant is fresh (`GrantIsFresh`), and the search fails only when every page is taken (`FailsOnlyWhenFull`) |
| `sched` | every interleaving of calls, commands and interrupts with four tasks: a sound list (`ListIsSound`), exact lock counting (`LocksAreOwed`), unique pids (`PidsAreUnique`), and idle only when nothing is ready (`IdleOnlyWhenNothingReady`) |
| `sched_liveness` | ready tasks run, dead tasks leave for good, commands end |
| `heap` | blocks are used segments that overlap nothing (`BlocksAreSafe`: `SegmentsAreDisjoint`, `BlocksAreBacked`), the list is linked (`ListIsLinked`), free space is coalesced and counted (`FreeSpaceIsKept`: `FreeIsCoalesced`, `UsedIsCounted`), at most two expansions per call (`ExpandsAtMostTwice`) |
| `terminal` | every order of typing, erasing, returns, raw bytes, mode changes and commands at two terminals implements `LineInput` (`TerminalGivesLines`), only typed bytes arrive (`OnlyTypedBytesArrive`); nested walks, stale subscriptions and lists that grow while they are walked leave no command of the served terminal behind (`ServedTerminalIsEmpty`), and walks end (`WalksEnd`) |
| `path` | every path of up to six characters: rewritten inside the string (`RewritesInPlace`); the call returns, and a path without `..` keeps its meaning (`DotsAreSubstituted`) |
| `files` | any order of opens, uses, closes, forgotten descriptors and removals, forced ones too: until a removal is forced a descriptor keeps its entry (`HeldEntriesAreTheirs`), and an open that fails twice means a full table (`SecondFailureMeansFull`) |
| `ext2` | four creations, writes and deletions with one fault anywhere: blocks of inodes in use are marked (`UsedBlocksAreMarked`) and have one owner (`BlocksHaveOneOwner`), a name leads to an inode in use that has no other name (`NamesAreSound`: `InodesHaveOneName`, `NamesLeadToInodes`), free blocks stay reachable (`CountsCoverClearBits`), and reads and writes in the direct blocks move the right bytes (`TransfersAreRight`: `ReadsAreRight`, `WritesAreRight`) |
| `serial` | a port sends what it was given, once and in order (`PortKeepsBytes`), the terminal passes texts on in order across the wrap and two flushes bring everything out (`TextComesOut`: `TerminalKeepsOrder`, `TwoFlushesBringItOut`), and no echo disturbs a command while its interrupt is in service (`CommandsPrintAlone`) |
| `disk` | an undisturbed read returns the disk's sectors and an undisturbed write did exactly what it reports, whatever failed before (`CallsDoWhatTheyReport`: `ReadsGiveTheDisk`, `WritesReportWhatIsDone`); calls that disturb each other still change no sector nobody asked for (`OnlyAskedSectorsChange`); calls end (`CallsEnd`) |
| `vfs` | a disk's partitions come from one of its tables (`PartitionsComeFromOneTable`), a mount's slot is its own (`MountsOwnTheirSlots`), a path with a one-digit partition reaches that partition or nothing (`CallsReachTheirPartition`), and failing disks cost the others nothing (`HealthyDisksAreMounted`) |
| `paging` | kernel pages of the first page tables are the same everywhere, stacks have a hole below them and making a task faults only inside a user task (`KernelMemoryIsSound`: `KernelPagesAreShared`, `StacksAreGuarded`, `FaultsOnlyOnUserTasks`); user pages are there and private (`UserTasksOwnTheirPages`: `UserPagesArePrivate`, `UserTasksHaveTheirStacks`); creation never writes through a stale translation (`CreationWritesToTheTask`) |

**Bounds.** Eight pages with three reserved, in one byte of the bitfield, so the page
past the end falls into a byte that is not zeroed; the cursor can wrap several times. Four
tasks (idle, shell, two more) let one be created while another is dead and a third is
blocked; a preemption period of two ticks has both kinds of tick. Three pages of ten
units with headers of two, and sizes 1, 7 and 11: a size that splits, one that a fresh
page misses by less than a header, one that needs two pages. Three blocks at a time are
enough for a free block with used or free neighbours on both sides. Two terminals, of
which one can interrupt the other, and three typed characters, against a line of four and
an input ring of three: the input ring overflows and the line does not wrap, which is
what the properties are about (a line that wraps is a known defect). Paths of six characters
over two letters, slash and dot hold two names with `..` between them, and every pile of
dots and slashes at either end. Two file entries and one directory entry, two callers
(more entries are taken by forgetting), one path on two mounts, two offsets: the cursor
passes the end of both tables, and the last entry can be free while it is past it. `MaxNumber` bounds
what is loaded into and read from one directory descriptor.

The ext2 partition has two groups of seven blocks and nine inodes, two direct slots, blocks
of three bytes of which two are in the first sector, bitmaps of seven bits of which six
are; an image file that needs its indirect block; two names of which one begins the other
and a directory; three blocks are free, one of them in the second group: four calls are
enough to allocate in both groups, delete, reuse an inode whose bit another deletion
cleared, and run out of blocks. Two ports with an output ring
of five, an input ring of two and a terminal ring of three, six printed and three typed
bytes: the terminal's ring wraps and overruns, and the input ring overflows inside a
command. Output rings are larger than the terminal's, as in the code (4096 and 1024). Two
sectors, two slots, three calls of which two can nest: a failed command takes one slot and
a second one the other. Three disk ports of two kinds with one of seven images each
(no table, GPTs with and without gaps, MBRs, FAT32, ext2, both, an inconsistent
superblock), two failing reads, three slots, partition numbers in base 2, so that the
third partition plays the part of number 10. Page tables of 18 entries: the processor's
stacks and those of the first three tasks are in the first, and the later tasks' are
not; the heap starts one page short of its table's end and grows by two.

**Deadlock** is not checked where a panic is a final state of the kernel (page
allocator, scheduler, heap), where the call that is modelled returns (path) or after a store
past a table (open files), and where the bound on calls or characters is a final state
(ext2, serial, disk, paging); the `terminal` and `vfs` runs check it.

**Fairness** (`FairSpec` of `Scheduler`). Weak fairness of `Go` (boot reaches it) and of
`Timer` (the PIT keeps ticking, and a tick that stays deliverable is delivered). Strong
fairness of the steps of a shell command: its host gets through finitely many
instructions each time it runs, and it may be interrupted in between. No fairness for
the calls of tasks: they may loop for ever. The liveness run leaves out `pause`,
`resume`, `block` and `unblock`, which suspend a task until another one acts, and
`ptoggle`, which turns preemption off: with either the statements would be about what
other tasks choose to do. `CommandEnds` excludes two cases that really hang the
console: a command that kills its own host, and a command hosted on the idle task, which
does not run again while another task is ready.

`Spec` of `Terminal` has strong fairness of `WalkStep`, the steps of the serial interrupt
of each terminal: a walk runs with interrupts off, or is interrupted and goes on between
the interrupts, as a serial line is slower than the processor. Nobody has to type.

`Spec` of `NormalizePath` has weak fairness of `Next`: a sequential function runs on.
`Spec` of `Disk` has weak fairness of `CallStep`, the innermost call going on, and of the
controller's answer to each issued command, which it completes or fails unless it has
stopped. The other modules have no liveness property and no fairness.

## What is proved

For all values of the constants (TLAPS; assumptions `PagesAssumption`,
`SchedulerAssumption`, `TerminalAssumption`, `PathAssumption`, `OpenFilesAssumption`,
`ValuesAssumption`, `HeapAssumption`, `DiskAssumption`, `SerialAssumption`,
`PagingAssumption`, `BaseAssumption`, `CountsAssumption`, `PortsAssumption`,
`ImagesAssumption`, `BlocksAssumption`, `Ext2Assumption`, `PathsAssumption` and
`ImageAssumption`, which TLC evaluates in every run of their module):

* `TypeCorrect`: the type invariant of `PhysicalMemory`.
* `ExhaustionIsReal`: `FailsOnlyWhenFull`. A search that finds nothing has tested
  `c..TotalPages` and `1..c-1`, whose union is `1..TotalPages`.
* `PagesInUseStayMarked` (with it `StopsOnlyExhausted`: no panic but exhaustion, and no
  endless search), `GrantsAreFresh`: the inductive invariant `PageInv` adds to
  `LivePagesAreMarked` that `held` and the reserved pages are disjoint, so that freeing a
  held page does not clear a reserved bit, and that the search position is 0 only while
  the first page past the used space is free, which rules out the endless search.
* `ListCorrect`: `TypeOK`, `ListIsSound` and `OnlyCurrentExecutes` together, with the
  strengthening that a created task is in no list yet (`CreatedIsLoose`; otherwise
  `add_task` could close a cycle) and that no listed task is `UNUSED`.
* `LockCounterCorrect`: `LocksAreOwed`. The invariant adds that `owing` is finite, so
  that its cardinality counts, and is proved together with the list invariant.
* `PidsStayUnique`: `PidsAreUnique`. A pid is given out when a task is created and seen by
  `get_free_pid` only when it is listed, so the invariant `PidInv` also keeps the pid of the
  created task apart from those in the list.
* `IdleRunsLast`: `IdleOnlyWhenNothingReady`, from the step invariant that the idle task is
  `IDLE` or `ZOMBIE` and so never found by the search for a ready one (`IdleIsNeverReady`).
* `BlocksStaySafe`, `ListStaysLinked`, `TwoExpansionsSuffice`: `BlocksAreSafe`,
  `ListIsLinked`, `ExpandsAtMostTwice`, for any header, limit and sizes. None is
  inductive alone, and `HeapInv` is their conjunction with what holds them together: segments
  do not overlap and each one's neighbours in the list are its neighbours in the address space
  (`Linked`), the last one is at `heapEnd`, a live block is a used segment of its own
  (`LiveInv`), and a request that expanded once ends at a free segment that is long enough,
  after two at one that can be split (`CallInv`). The lemmas say what each change of the list
  does to it: a merge (`MergeKeepsList`, `MergeCoalesces`), `_free` (`ReleasedList`), a split
  (`SplitList`) and an expansion (`ExpandedList`).
* `FreeSpaceStaysKept`: `FreeSpaceIsKept`. The same lemmas also say that no change of the list
  brings a segment into use but the one that is allocated, and `Counted`, that `usedSize` is
  the sum over the segments in use, is kept beside `HeapInv`. The sum is a fold that takes its
  elements in an order of its own. What it comes to is shown by the smallest set for which it
  would be different: there is a function with the sums of all subsets (`SumExists`), the order
  does not matter (`SumAnyOrder`), nor what lies outside the set (`SumsAgree`), and the fold
  is the value of that function (`SumIsFold`).
* `KernelMemoryStaysSound`, `UserTasksKeepTheirPages`, `CreationStaysInTheTask`:
  `KernelMemoryIsSound`, `UserTasksOwnTheirPages` and `CreationWritesToTheTask`, from
  `PagingInv`. A kernel page has one entry, in a table that some space has, and the tables made
  at boot are in every space (`TablesOK`); the frames of user tasks are apart because each is
  fresh and `_duplicate_pd` does not copy user regions (`FramesPrivate`); guard pages are the
  multiples of the step between stacks, which no cursor hands out (`PagesPlaced`). As a creation
  is made of many mappings and writes, the invariant also speaks of what is left of it: a page
  of the new task is written to after it is mapped and not mapped again (`WorkOK`), the
  translations the processor has cached are the new task's (`CacheOK`), and what a task needs
  is there or going to be (`NeededBacked`).
* `TypedBytesArrive`: `OnlyTypedBytesArrive`, for any terminals, characters, priorities
  and ring sizes with `MaxTyped < LineSize`. The inductive invariant `LineInv` says that
  `0 <= head <= tail <= typed`, so that no index wraps, and that every cell from `head` to
  `tail` holds a character. Without the bound the statement is false (known defects).
* `TerminalImplementsLines`: `TerminalGivesLines` under the same bound. Each action maps to
  the step of `LineInput` it implements (`InsertTypes`, `DeleteErases`, `FlushEnters`,
  `RawByteQueues`, `HandlerReads`); the others leave the mapped state unchanged.
* `ServedTerminalsAreEmpty`: `ServedTerminalIsEmpty`, without the bound on what is typed and
  for any order of priorities. The invariant `WalkInv` says that what waits in the ring of the
  terminal the shell reads has a read to come, in every walk over its subscribers and in those
  nested in it; `attach` lengthens every walk that it concerns.
* `BytesLeaveOnce`, `PrintedTextComesOut`: `PortKeepsBytes` and `TextComesOut`, for any ports,
  any priorities and any sizes in which the terminal's ring is smaller than a port's (1024 and
  4096 in `register_comm`). `SerialInv` adds to them that the console's ring and the part of a
  flush that is still to come fit into one terminal ring, so that no flush fills it
  (`RingHasRoom`, `NeverFull`), that a print call has room for what it still puts (`PlanFits`),
  that the printed bytes on their way rise and are no larger than `printed` (`InOrder`), and
  that what was there at the last flush lies before the end of the ring, so that the next one
  takes it (`OldLiesBeforeEnd`).
* `CommandsAreAlone`: `CommandsPrintAlone`, from the types and from the fact that an interrupt
  has no priority over itself.
* `CallsReport`: `CallsDoWhatTheyReport`, for any disk, number of slots and nesting. `DiskInv`
  says of a call that no other one came between that nothing but its own command is in flight,
  that TFES is about that command, and that the disk is the one it found with the sectors
  written so far (`CleanCalls`); after its return the disk stays so until the next call
  (`LastCall`).
* `OnlyAskedWritten`: `OnlyAskedSectorsChange`. The commands prepared in any slot, whoever
  issues them, and the calls in progress name only sectors that were asked for
  (`WritesAreAsked`).
* `NormalizesInPlace`: `RewritesInPlace` for paths of any length. The invariant `PathInv`
  adds that the NUL of the string given is its only one, so that the reading, which looks at
  most two characters ahead and only behind a dot, stops at it.
* `SearchComesAround`: `TypeOK` and `SecondFailureMeansFull`, for tables of any size and with
  forced removals. `SearchInv` adds that a search that failed leaves the cursor inside the
  table, so that the next one visits all of it.
* `DescriptorsKeepTheirEntries`: `HeldEntriesAreTheirs`, which speaks of the time before a
  forced removal; after one it is false. It is inductive together with
  `SearchInv`'s types: a free entry is nobody's, since an entry in use is never `Free`.
* `TablesAreTakenWhole`: `PartitionsComeFromOneTable`, for any disks, tables and failures.
  `ScanInv` adds that the disks come first in the device list, in the order of their ports,
  and that names of devices are unique, since a minor is the number of devices of that major
  before it: so `device_search`, which compares prefixes, finds the very device
  (`DiskAtHand`). It also says which reads have succeeded so far (`TableSoFar`).
* `SlotsStayOwned`: `MountsOwnTheirSlots`. A used slot names a device, and devices are counted
  from 1, so that the free slot a registration takes is no mount's (`SlotInv`).
* `HealthyDisksGetMounted`: `HealthyDisksAreMounted`. The invariant `TriedAreMounted` says the
  same, at every step, of the partitions tried so far.
* `PathsReachTheirPartition`: `CallsReachTheirPartition`. `NamesInv` says that a mount has the
  name and the sector of one partition of its device. `PrefixIsName` then says that a
  mountpoint that begins a path to a partition below `Base` is that partition's own. It needs
  the shape of a decimal number: the recursion of `Digits` is followed by the
  least number for which it would fail (`DigitsExist`, `DigitsShape`).
* `UsedBlocksStayMarked`, `BlocksKeepOneOwner`: `UsedBlocksAreMarked` and
  `BlocksHaveOneOwner`, for one or two groups of any number of blocks and inodes, any names,
  sizes and image file, from the invariant `Ext2Inv`. Neither is inductive. A call has blocks that no inode on the disk
  points at yet, so `TakenBlocks` says of them what the two properties say of the others;
  `OwnerFits` says which inode a call works on at every stage, that the blocks a deletion
  still has to free are blocks of that inode, and that an inode neither in use nor cut has
  size 0, so that `ext2_delete_file` finds no blocks for it. A block that is freed is then in
  no other file, and one that is allocated is clear in the bitmap and so in no file at all.
* `CountsStayCovering`: `CountsCoverClearBits`. A block whose bit is not in the first sector
  is counted and never marked; it is only taken when no bit of the first sector
  is clear in its group, because those come first (`FirstSectorIsFirst`), so the count may go
  below the number of clear bits but not below the number of those that can be marked.
* `NamesStaySound`: `NamesAreSound`, type correctness with it. `NamingInv` adds that the bit
  of an inode with a name is set in the bitmap of the first group (`NamesAreMarked`), which is
  why `ext2_allocate_inode` returns one without a name, and that the inode stays without one
  until its entry is written (`NewIsUnnamed`). A deletion moves the entries behind the one it
  removes; `Carried` maps the entries after a step to those before it. That the lengths of the
  records stay within the block is `RecordsFit`: they lie one behind the other (`Laid`).
  `FlattenSeq` and the fold of `ext2_path_to_inode` are recursive; that they return blocks
  and inodes is shown by the functions their recursion describes (`RecursionExists`,
  `FoldExists`).

What stays with TLC: liveness under fairness and anything with `ENABLED`, which the
prover cannot do; what `vfs_normalize_path` and the walks of `Ext2Blocks` compute, which
needs induction over data. That the filter in `MbrPartitions`
gives a sequence of numbers is `ImagesAssumption`, since the prover has no rule for
`SelectSeq`; TLC evaluates it for the images of the run. Of the invariants,
`TransfersAreRight` of `Ext2`, which is about those walks, is the one that is only
model-checked.

## Known defects

These were met while modelling. The models contain those that lie in modelled code, and
the properties are stated so that they hold beside them; a property's comment names what
it leaves out.

Memory:

* `memory/memory.c:119`: once every real page is taken, `request_page` returns the page just
  past the chunk, since the bound checks use `>` (`memory.c:21`).
* `memory/memory.c:81`: `unlock_page` subtracts from `free_memory` what it should add.
* `memory/memory.c:178` (no caller): `request_contiguous_pages` returns the page before its
  cursor as it was on entry, not the first page it locked.
* `memory/paging.c:107`: the comment on line 84, "Copy all the page tables in 4 levels", is
  not what happens: the last level is shared, and page tables made later belong to one space
  only. Kernel stacks beyond the first page table (some fifty tasks, since stacks are never
  freed) are not mapped in the task they belong to, and a heap that grows past a 2 MiB
  boundary is seen by the task then running only.
* `memory/paging.c:82`: page directories are reached by physical addresses, so `spawn` and
  `loadelf` fault when the interrupted task is a user task.
* `memory/heap.c:256` (no caller): `expand_heap` of a user heap maps into `pd`, the creator's
  space, instead of `pml4`.

Scheduler:

* `sched/scheduler.c:297`: `kill 0` makes the idle task a zombie; the panic "Idle task is not
  valid or at head" (`scheduler.c:60`) comes when the last ready task is gone.
* `sched/scheduler.c:305`: a command that kills its own host, or one hosted on the idle task
  while another task stays ready, never acknowledges its interrupt: the console is dead.

Terminal and serial:

* `drivers/tty/ld/line_discipline.c:309`, `:176`: a line that wraps around its buffer is
  flushed as one run past the end, and deleting at tail 0 gives the tail -1.
* `drivers/serial/serial.c:154`, `:173`: a full ring looks empty, so an overflow loses all of
  it, and the overflow handler flushes the port that interrupted last. Nobody reads the input
  ring, so every 4096th character overflows it and acknowledges the serial interrupt early.
  `Terminal` does not have that acknowledgement; `SerialOutput` does.
* `drivers/serial/serial.c:171`: a task that prints races with the echo of what is typed.
* `drivers/tty/tty.c:40`: a flush leaves the part of a text behind the end of the ring.

Disk:

* `drivers/disk/ahci/ahci.c:253`: a failed command keeps its slot for ever and the port is not
  restarted, which a controller that stops on errors needs.
* `identify` issues slot 0 and waits for the slot it prepared; `dd_ioctl` ignores its result.
* One buffer and the slots are shared without a lock by calls that interrupt each other.

Mounts and open files:

* `vfs/vfs.c:284`: from partition 10 on, a path is taken by the mount of partition 1.
* `f32_compat_register_partition` returns the slot although registering failed, and the next
  partition shares it. After a failed registration `mount_fs` tries no other file system.
* `vfs/vfs.c:268`: entry 0 of the open-file table counts as not open (`> 0`), so a file open as
  entry 0 is removed without force.
* `vfs/vfs_interface.c:20`: for `..` the pointer already stands just behind a slash, the loop
  ends at once and nothing is removed: `a/../b` becomes `a/b`, against the comment on line 12,
  "Substitute . and .. in the path". Only `cd` resolves `..`
  itself (`normalizePath`, `debug/shell.c:530`); the paths of the other commands
  reach this code as typed.
* `vfs/generic/vfs_compat.c:34`: the open after the one that took the last entry may write an
  entry past the table and return its number.
* `vfs/generic/vfs_compat.c:92`: `is_open` and `force_release` compare paths without their
  mounts; a forced removal on one mount releases the same path on all.

ext2:

* `ext2_block.c:162`: `write_disk` is given a number of sectors where it takes bytes, so only
  the first sector of a block is written. Bits, entries and data behind it are lost.
* `ext2_block.c:330`: a failed write of a bitmap goes unnoticed (`EXT2_WRITE_FAILED` is
  positive).
* `ext2_block.c`: a walk that skips all direct slots yields nothing and ends the read, so a
  file of more than 12 blocks cannot be read behind them, and an unaligned write copies the
  wrong number of bytes.
* `ext2_inode.c:680`: deleting clears a byte of the inode bitmap, the bits of other inodes, and
  not the inode's own bit. `ext2_allocate_inode` takes a bit for the number of the inode
  whatever the group.
* `ext2_inode.c:374`: an entry matches every name it begins.
* An empty file cannot be deleted: `kmalloc(0)` gives no list of its blocks.
* `ext2_flush_partition` writes the descriptors over the superblock and the superblock over
  them: the counts on the disk stay those of mkfs, and a stop in between loses the superblock.

## What is not modelled, and the plan

* **Signals** and **fifos**: nothing calls them; no signal is ever queued and no fifo made.
* **Vendored code**: the two FAT file systems (`fat32.c`, and FatFs with its tables, more than
  half of the lines in `kernel/src`), `printf`, the boot protocol's header.
* **Code without state of its own**: PCI and ACPI enumeration, boot tables, descriptor tables,
  string functions, system-call stubs, the commands of the shell that only print.
* Of the modelled parts: growth of an ext2 file past its direct slots and directories of more
  than one sector (both end in the defects above), ATAPI transfers, ELF parsing, unmapping
  (no caller), the outcome of a race on the serial ring.

`PROJECT.json` lists every part with its status. `TransfersAreRight` of `Ext2` is the invariant
left to prove; it needs what `ReadInodeBytes` and `WriteInodeBytes` return for lists of any
length.
