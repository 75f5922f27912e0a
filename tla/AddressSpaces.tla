----------------------------- MODULE AddressSpaces -----------------------------
(***************************************************************************)
(* The address spaces of the kernel and of its tasks: memory/paging.c, and  *)
(* the code that asks it for pages, _initHeap and _stackalloc of            *)
(* memory/heap.c, create_task of sched/scheduler.c and the loader.          *)
(*                                                                          *)
(* _duplicate_pd copies three of the four levels of a page directory, so a  *)
(* new space has directories of its own and shares the page tables, the     *)
(* last level, with its father.  A page mapped later is seen by both when   *)
(* its page table was there before, and by one of them when it was not.  A  *)
(* space is therefore the page table it has for every stretch of addresses  *)
(* that one table maps, a region; the directories above are not told apart. *)
(*                                                                          *)
(* A frame, for a page or for a table, is what request_page returns: one    *)
(* that nothing else holds (PhysicalMemory).  Pages are numbered from the   *)
(* top of their area downwards, the way heaps and stacks grow; the topmost  *)
(* entry of an area's first page table is not used.                         *)
(*                                                                          *)
(* A command runs inside the serial interrupt, with interrupts on once      *)
(* create_task has unlocked the scheduler: its host can be switched away    *)
(* and another command can start inside it.  cr3 is loaded when a task is   *)
(* switched in and when an interrupt ends, not when one starts.             *)
(***************************************************************************)
EXTENDS Integers, Sequences, FiniteSets, SequencesExt

CONSTANTS
    PerTable,      \* entries of a page table (512)
    StackPages,    \* KERNEL_STACK_SIZE and USER_STACK_SIZE in pages (4)
    KernelTasks,   \* tasks made before the scheduler runs: idle and the shell
    MaxUserTasks,  \* bound on the user tasks made
    BootHeap,      \* pages of the kernel heap before the first task is made
    MaxHeapPages   \* bound on the pages it grows by later

ASSUME PagingAssumption ==
    /\ PerTable \in Nat /\ StackPages \in Nat \ {0}
    /\ {KernelTasks, MaxUserTasks, MaxHeapPages} \subseteq Nat
    /\ BootHeap \in 1 .. PerTable - 1

KernelAreas == {"kheap", "kstack"}
UserAreas == {"uheap", "ustack", "image"}

VARIABLES
    table,     \* the page table each space has for each region, or 0
    entry,     \* the frame each <<table, page>> that is present maps to
    frames,    \* the frames handed out so far
    low,       \* whether a space has the lower half the boot loader made
    current,   \* the space in cr3
    tlb,       \* the translations the processor has cached since cr3 was loaded
    lastStack, \* kernelGlobalHeap.lastStack
    heapEnd,   \* kernelGlobalHeap.heapEnd: the last page of the heap
    phase,     \* "boot", then "run", in a command "command" and, once a task
               \* was made and cr3 not loaded since, "made"; "fault" at the end
    work,      \* what is left to do of a create_task or of init_cpus
    wrote,     \* the frames create_task wrote to, per page it meant to write
    nested     \* history: the spaces made by a command that interrupted
               \* another one which had just made a task

pagingVars == <<table, entry, frames, low, current, tlb, lastStack, heapEnd,
                phase, work, wrote, nested>>

Boot == 0
Space == 0 .. KernelTasks + MaxUserTasks
UserSpace == KernelTasks + 1 .. KernelTasks + MaxUserTasks
Spaces == DOMAIN table        \* the spaces made so far
New == Cardinality(Spaces) - 1   \* the last of them

StackArea == (2 * (KernelTasks + MaxUserTasks) + 3) * (StackPages + 1)
Page ==
    ({"kstack"} \X (0 .. StackArea))
    \cup ({"kheap"} \X (0 .. BootHeap + MaxHeapPages))
    \cup ({"ustack"} \X (0 .. StackPages)) \cup {<<"uheap", 0>>, <<"image", 0>>}
Region(v) == <<v[1], (v[2] + 1) \div PerTable>>
Regions == {Region(v) : v \in Page}

\* virtual_to_physical, and what the processor finds: 0 is not present.
Physical(s, v) ==
    LET t == table[s][Region(v)]
    IN  IF <<t, v>> \in DOMAIN entry THEN entry[<<t, v>>] ELSE 0

(***************************************************************************)
(* map_memory_hh: the page table is made when the space has none.           *)
(***************************************************************************)
Mapped(m, s, v, f) ==
    LET missing == m.table[s][Region(v)] = 0
        t == IF missing THEN m.frames + 1 ELSE m.table[s][Region(v)]
    IN  [table |-> [m.table EXCEPT ![s][Region(v)] = t],
         entry |-> [x \in DOMAIN m.entry \cup {<<t, v>>} |->
                      IF x = <<t, v>> THEN f ELSE m.entry[x]],
         frames |-> IF missing THEN m.frames + 1 ELSE m.frames]

Memory == [table |-> table, entry |-> entry, frames |-> frames]

Becomes(m) ==
    /\ table' = m.table
    /\ entry' = m.entry
    /\ frames' = m.frames

Fresh(m) == [m EXCEPT !.frames = @ + 1]

(***************************************************************************)
(* What is to be done for a task: a page is backed by a frame in the        *)
(* current space, in the new one or in both, or written to.                 *)
(***************************************************************************)
Back(v, where) == [do |-> "back", page |-> v, where |-> where]
Touch(v) == [do |-> "touch", page |-> v, where |-> {"here"}]

Here == {"here"}
There == {"there"}

\* _stackalloc after the cursor c: the pages, and one left out below them.
StackAlloc(area, c, where) ==
    [i \in 1 .. StackPages |-> Back(<<area, c + i>>, where)]

AfterStack(c) == c + StackPages + 1

\* _initHeap on behalf of another space; it writes the first headers.
InitHeap ==
    <<Back(<<"uheap", 0>>, Here \cup There),
      Back(<<"ustack", 0>>, Here \cup There), Touch(<<"uheap", 0>>)>>

\* create_task, after the page directory: the task's stack, and in
\* initialize_context its first frame and its stack for system calls.
KernelTaskWork(c) ==
    StackAlloc("kstack", c, Here) \o StackAlloc("kstack", AfterStack(c), Here)

\* A fault: the stack is mapped in the current space twice, as expand_heap does.
UserTaskWorkHere(c) ==
    InitHeap \o StackAlloc("ustack", 0, Here)
    \o StackAlloc("kstack", c, Here) \o <<Touch(<<"ustack", 1>>)>>
    \o StackAlloc("kstack", AfterStack(c), Here)

UserTaskWork(c) ==
    InitHeap \o StackAlloc("ustack", 0, Here \cup There)
    \o StackAlloc("kstack", c, Here) \o <<Touch(<<"ustack", 1>>)>>
    \o StackAlloc("kstack", AfterStack(c), Here)

\* allocate_segment: one page of the program, in the new space only.
LoadWork == <<Back(<<"image", 0>>, There)>>

(***************************************************************************)
(* After init_heap: pages of heap, and one of stack.  init_cpus is at work  *)
(* on the processor's three stacks.                                         *)
(***************************************************************************)
BootPages == {<<"kstack", 0>>} \cup ({"kheap"} \X (0 .. BootHeap - 1))

PagingInit ==
    /\ table = [s \in {Boot} |->
                  [r \in Regions |->
                     CASE r = <<"kheap", 0>> -> 1
                       [] r = <<"kstack", 0>> -> 2
                       [] OTHER -> 0]]
    /\ entry = [x \in {<<IF v[1] = "kheap" THEN 1 ELSE 2, v>> : v \in BootPages} |->
                  IF x[1] = 1 THEN x[2][2] + 3 ELSE BootHeap + 3]
    /\ frames = BootHeap + 3
    /\ low = [s \in {Boot} |-> TRUE]
    /\ current = Boot
    /\ tlb = [v \in {} |-> 0]
    /\ lastStack = AfterStack(AfterStack(AfterStack(0)))
    /\ heapEnd = BootHeap - 1
    /\ phase = "boot"
    /\ work = StackAlloc("kstack", 0, Here)
              \o StackAlloc("kstack", AfterStack(0), Here)
              \o StackAlloc("kstack", AfterStack(AfterStack(0)), Here)
    /\ wrote = [s \in {} |-> {}]
    /\ nested = {}

Busy == work # <<>>

\* request_current_page_at, and the mapping of the same frame in the other
\* space when there is one.
BackPage ==
    /\ phase # "fault"
    /\ Busy
    /\ Head(work).do = "back"
    /\ LET v == Head(work).page
           f == frames + 1
           here == IF "here" \in Head(work).where
                     THEN Mapped(Fresh(Memory), current, v, f)
                     ELSE Fresh(Memory)
       IN  Becomes(IF "there" \in Head(work).where
                     THEN Mapped(here, New, v, f) ELSE here)
    /\ work' = Tail(work)
    /\ UNCHANGED <<low, current, tlb, lastStack, heapEnd, phase, wrote,
                   nested>>

\* The processor's translation of v: the cached one, stale or not, if any.
Translated(v) == IF v \in DOMAIN tlb THEN tlb[v] ELSE Physical(current, v)

\* A write to a page of the new task, at its address in the current space.
TouchPage ==
    /\ phase # "fault"
    /\ Busy
    /\ Head(work).do = "touch"
    /\ LET v == Head(work).page
       IN  /\ tlb' = [x \in DOMAIN tlb \cup {v} |->
                        IF x = v THEN Translated(v) ELSE tlb[x]]
           /\ wrote' = [wrote EXCEPT ![New] = @ \cup {<<v, Translated(v)>>}]
    /\ work' = Tail(work)
    /\ UNCHANGED <<table, entry, frames, low, current, lastStack, heapEnd, phase,
                   nested>>

(***************************************************************************)
(* _duplicate_pd, which reads and writes page directories by their physical *)
(* addresses, in the lower half.  A user task gets the upper half.          *)
(***************************************************************************)
\* A fault: the lower half is copied for everyone.
CopiedWhole(r, kind) == kind \in {"kernel", "user"}

Copied(r, kind) == kind = "kernel" \/ r[1] \in KernelAreas

\* A fault: the page tables are copied too.
DuplicateDeep(kind) ==
    LET regions == {r \in Regions : Copied(r, kind) /\ table[current][r] # 0}
        order == SetToSeq(regions)
        copy == [r \in regions |->
                   frames + CHOOSE i \in DOMAIN order : order[i] = r]
        copies == {x \in {<<copy[r], v>> : r \in regions, v \in Page} :
                     /\ Region(x[2]) \in regions
                     /\ copy[Region(x[2])] = x[1]
                     /\ <<table[current][Region(x[2])], x[2]>> \in DOMAIN entry}
    IN  /\ table' = [s \in Spaces \cup {New + 1} |->
                       IF s \in Spaces THEN table[s]
                       ELSE [r \in Regions |-> IF r \in regions THEN copy[r] ELSE 0]]
        /\ entry' = [x \in DOMAIN entry \cup copies |->
                       IF x \in copies THEN entry[<<table[current][Region(x[2])], x[2]>>]
                                       ELSE entry[x]]
        /\ low' = [s \in Spaces \cup {New + 1} |->
                     IF s \in Spaces THEN low[s] ELSE kind = "kernel"]
        /\ frames' = frames + Len(order)

Duplicate(kind) ==
    /\ table' = [s \in Spaces \cup {New + 1} |->
                   IF s \in Spaces THEN table[s]
                   ELSE [r \in Regions |->
                           IF Copied(r, kind) THEN table[current][r] ELSE 0]]
    /\ low' = [s \in Spaces \cup {New + 1} |->
                 IF s \in Spaces THEN low[s] ELSE kind = "kernel"]
    /\ UNCHANGED <<entry, frames>>

\* create_task of init_scheduler and of _start.
CreateKernelTask ==
    /\ phase = "boot"
    /\ ~Busy
    /\ New < KernelTasks
    /\ Duplicate("kernel")
    /\ work' = KernelTaskWork(lastStack)
    /\ lastStack' = AfterStack(AfterStack(lastStack))
    /\ wrote' = [s \in DOMAIN wrote \cup {New + 1} |->
                   IF s = New + 1 THEN {} ELSE wrote[s]]
    /\ UNCHANGED <<current, tlb, heapEnd, phase, nested>>

InCommand == phase \in {"command", "made"}

\* The commands spawn and loadelf: one create_task, which keeps interrupts off,
\* then the program if any.  It may be inside a command that has made a task.
CreateUserTask ==
    /\ InCommand
    /\ ~Busy
    /\ low[current]
    /\ New < KernelTasks + MaxUserTasks
    /\ Duplicate("user")
    /\ \E load \in {<<>>, LoadWork} : work' = UserTaskWork(lastStack) \o load
    /\ lastStack' = AfterStack(AfterStack(lastStack))
    /\ wrote' = [s \in DOMAIN wrote \cup {New + 1} |->
                   IF s = New + 1 THEN {} ELSE wrote[s]]
    /\ phase' = "made"
    /\ nested' = IF phase = "made" THEN nested \cup {New + 1} ELSE nested
    /\ UNCHANGED <<current, tlb, heapEnd>>

\* The same where the lower half is a program's: the page fault's panic.
CreateFaults ==
    /\ InCommand
    /\ ~Busy
    /\ ~low[current]
    /\ phase' = "fault"
    /\ UNCHANGED <<table, entry, frames, low, current, tlb, lastStack, heapEnd,
                   work, wrote, nested>>

\* kmalloc in a command runs out of heap: expand_heap, in the current space.
HeapGrows ==
    /\ phase = "boot" \/ InCommand
    /\ ~Busy
    /\ heapEnd < BootHeap - 1 + MaxHeapPages
    /\ heapEnd' = heapEnd + 1
    /\ work' = <<Back(<<"kheap", heapEnd + 1>>, Here)>>
    /\ UNCHANGED <<table, entry, frames, low, current, tlb, lastStack, phase,
                   wrote, nested>>

(***************************************************************************)
(* The processor: context switches and interrupts load cr3 at their end.    *)
(***************************************************************************)
LoadCr3(s) ==
    /\ current' = s
    /\ tlb' = [v \in {} |-> 0]

\* go, yield and the timer: newctxswtch to any task, which may be the host of
\* a command that was switched away.
Switch(s) ==
    /\ \/ phase = "boot" /\ New = KernelTasks
       \/ phase = "run"
       \/ InCommand
    /\ ~Busy
    /\ s # Boot
    /\ LoadCr3(s)
    /\ phase' \in IF phase = "boot" THEN {"run"} ELSE {"run", "command"}
    /\ UNCHANGED <<table, entry, frames, low, lastStack, heapEnd, work, wrote,
                   nested>>

\* A line typed: the command runs inside the interrupt, in whatever space the
\* interrupted task has.
CommandStarts ==
    /\ phase = "run"
    /\ phase' = "command"
    /\ UNCHANGED <<table, entry, frames, low, current, tlb, lastStack, heapEnd,
                   work, wrote, nested>>

\* A fault: the interrupt's end does not load cr3.
CommandEndsCached ==
    /\ InCommand
    /\ ~Busy
    /\ phase' \in {"run", "command"}
    /\ UNCHANGED <<table, entry, frames, low, current, tlb, lastStack, heapEnd,
                   work, wrote, nested>>

\* The end of the command's interrupt, in the task or in the command that it
\* interrupted.
CommandEnds ==
    /\ InCommand
    /\ ~Busy
    /\ phase' \in {"run", "command"}
    /\ LoadCr3(current)
    /\ UNCHANGED <<table, entry, frames, low, lastStack, heapEnd, work, wrote,
                   nested>>

PagingNext ==
    \/ BackPage
    \/ TouchPage
    \/ CreateKernelTask
    \/ CreateUserTask
    \/ CreateFaults
    \/ HeapGrows
    \/ \E s \in Spaces : Switch(s)
    \/ CommandStarts
    \/ CommandEnds

PagingSpec == PagingInit /\ [][PagingNext]_pagingVars

-----------------------------------------------------------------------------
(***************************************************************************)
(* Properties.                                                              *)
(***************************************************************************)

\* The shapes of the variables; in particular create_task never writes to a
\* page that is not there.
PagingTypeOK ==
    /\ Spaces = 0 .. New /\ New \in Space
    /\ table \in [Spaces -> [Regions -> 0 .. frames]]
    /\ DOMAIN entry \subseteq (1 .. frames) \X Page
    /\ \A x \in DOMAIN entry : entry[x] \in 1 .. frames
    /\ low \in [Spaces -> BOOLEAN]
    /\ current \in Spaces
    /\ DOMAIN tlb \subseteq Page
    /\ lastStack \in 0 .. StackArea
    /\ heapEnd \in 0 .. BootHeap + MaxHeapPages
    /\ phase \in {"boot", "run", "command", "made", "fault"}
    /\ \A i \in DOMAIN work : work[i].page \in Page
    /\ \A s \in DOMAIN wrote : wrote[s] \subseteq Page \X (1 .. frames)
    /\ nested \subseteq Spaces

\* The pages of some areas that any space maps.
MappedPages(areas) == {x[2] : x \in {y \in DOMAIN entry : y[2][1] \in areas}}

\* _duplicate_pd and map_memory_hh: a page of the kernel's heap or stacks is
\* the same frame in every space that has it, and every space has it, whichever
\* task was running when it was mapped, as long as it belongs to the page table
\* made at boot.
KernelPagesAreShared ==
    \A v \in MappedPages(KernelAreas) :
        LET seen == {Physical(s, v) : s \in Spaces}
        IN  IF v[2] + 1 < PerTable THEN Cardinality(seen) = 1
                               ELSE Cardinality(seen \ {0}) = 1

\* duplicate_current_kernel_pml4 and create_user_heap: no frame of a user
\* task's program, heap or stack is mapped at the same address by another user
\* task, although they are all mapped through the spaces that made them.
UserPagesArePrivate ==
    \A s, t \in Spaces \cap UserSpace :
        s # t =>
            \A v \in MappedPages(UserAreas) :
                Physical(s, v) # 0 => Physical(s, v) # Physical(t, v)

\* _stackalloc: a task that is made finds its heap's and its stack's pages.
UserTasksHaveTheirStacks ==
    \A s \in Spaces \cap UserSpace :
        ~(Busy /\ s = New) =>
            /\ Physical(s, <<"uheap", 0>>) # 0
            /\ \A i \in 0 .. StackPages : Physical(s, <<"ustack", i>>) # 0

\* create_task writes the heap's headers and the first stack frame at the
\* user's addresses, which the same space had mapped for the task before: what
\* is written goes to the new task and never to an older one through a
\* translation the processor still has, unless the command interrupted another
\* one between its create_task and its end.
CreationWritesToTheTask ==
    \A s \in DOMAIN wrote \ nested : \A w \in wrote[s] : w[2] = Physical(s, w[1])

\* _stackalloc: below every stack is a page that no space maps, so a stack
\* that overflows faults and does not run into the next one.
StacksAreGuarded ==
    \A s \in Spaces : \A c \in 1 .. StackArea - StackPages :
        \E i \in 0 .. StackPages : Physical(s, <<"kstack", c + i>>) = 0

\* _duplicate_pd needs the lower half of the boot loader: making a task panics
\* only in a command that interrupted a user task.
FaultsOnlyOnUserTasks == phase = "fault" => current \in UserSpace

\* What the kernel relies on in every space (_duplicate_pd, _stackalloc): its
\* heap and its stacks are there and apart, and making a task is safe in a
\* command that interrupted a kernel task.
KernelMemoryIsSound ==
    KernelPagesAreShared /\ StacksAreGuarded /\ FaultsOnlyOnUserTasks

\* What a user task relies on (create_user_heap, _stackalloc): its heap, stack
\* and program are there and are nobody else's.
UserTasksOwnTheirPages ==
    PagingTypeOK /\ UserPagesArePrivate /\ UserTasksHaveTheirStacks
=============================================================================
