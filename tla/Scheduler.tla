----------------------------- MODULE Scheduler ------------------------------
(***************************************************************************)
(* The task scheduler: kernel/src/sched/scheduler.c and scheduler.h, with  *)
(* the preemption decision of devices/pit/pit.c and io/interrupts.c.       *)
(*                                                                         *)
(* One processor.  The doubly linked list from task_head is the sequence   *)
(* tasks: tasks are only ever appended to it (remove_task has no caller).  *)
(* Every function that brackets its body with lock_scheduler and           *)
(* unlock_scheduler runs with interrupts off and is one step; its effect   *)
(* on the interrupt flag is part of the step.  block_task and unblock_task *)
(* call yield between the two, so the task that called them is switched    *)
(* away owing an unlock_scheduler, which is a step of its own when the     *)
(* task runs again.                                                        *)
(*                                                                         *)
(* The commands of the debug shell run inside the serial interrupt, in the *)
(* context of whatever task was interrupted (its host), the idle task too: *)
(* the first unlock_scheduler of a command turns interrupts on again, so   *)
(* the timer can switch the host away in the middle of it, and another     *)
(* command can start inside it.  The interrupt controller holds back only  *)
(* lines of the same or a lower priority than one in service; pic_eoi      *)
(* acknowledges the highest one in service, whichever interrupt ends, and  *)
(* the keyboard's handler acknowledges twice.                              *)
(***************************************************************************)
EXTENDS Integers, Sequences, FiniteSets

CONSTANTS
  Task,          \* task structures, used and unused
  Idle,          \* the task init_scheduler creates
  Shell,         \* the task _start creates
  NoTask,        \* the null pointer
  Ops,           \* the calls that tasks make and the shell commands given
  PreemptTicks,  \* the argument of go: pit.preemption_ticks
  Lines,         \* interrupt lines of the serial ports whose terminals the
                 \* shell reads: 4 is COM1, 3 is COM2 (after attach)
  MaxCommands    \* bound on the commands in progress at the same time

AllOps == {"yield", "exit", "pause", "resume", "block", "unblock",
           "kill", "sched", "spawn", "ptoggle"}

ASSUME SchedulerAssumption ==
  /\ Idle \in Task /\ Shell \in Task /\ Idle # Shell
  /\ NoTask \notin Task
  /\ Ops \subseteq AllOps
  /\ PreemptTicks \in Nat \ {0}
  /\ Lines \subseteq {3, 4}
  /\ MaxCommands \in Nat

VARIABLES
  tasks,         \* the list that starts at task_head
  state,         \* task->state; "UNUSED" for a structure never allocated
  pid,           \* task->pid
  current,       \* current_task
  depth,         \* the number of shell commands, one inside the other, that
                 \* run in the context of a task
  maker,         \* <<host, depth>> of the command that has created the task
                 \* and not yet added it
  rivals,        \* history: the tasks that were made and not yet added when
                 \* this one was made
  service,       \* the serial lines in service in the interrupt controller
  irq,           \* irq_disable_counter
  iflag,         \* the interrupt flag of the processor
  owing,         \* tasks switched away between lock and unlock_scheduler
  ticks,         \* pit.timer_ticks modulo preemption_ticks
  preempt,       \* pit.preemption_enabled
  phase          \* "boot" before go, "run" after it, "panic"

commandVars == <<depth, maker, rivals, service>>

vars == <<tasks, state, pid, current, commandVars, irq, iflag, owing, ticks,
          preempt, phase>>

Blocked == {"STOPPED", "UNINTERRUPTIBLE", "INTERRUPTIBLE"}

States == Blocked \cup {"EXECUTING", "READY", "ZOMBIE", "IDLE", "UNUSED"}

Listed == {tasks[i] : i \in DOMAIN tasks}

NoMaker == <<NoTask, 0>>

\* The tasks that exist and are in no list yet.
Pending == {n \in Task : maker[n] # NoMaker}

-----------------------------------------------------------------------------
(***************************************************************************)
(* schedule(): the list is walked from the task after current, wrapping to *)
(* task_head, until a READY or EXECUTING task or current itself.  st is    *)
(* the value of the state fields when schedule is entered.                 *)
(***************************************************************************)
Runnable(s) == s \in {"READY", "EXECUTING"}

Visit(i, k) == tasks[((i - 1 + k) % Len(tasks)) + 1]

NoneRunnable(st) == \A t \in Listed : ~Runnable(st[t])

\* A walk that gives up at the end of the list.
PicksWithoutWrap(st, next) ==
  LET here == CHOOSE i \in DOMAIN tasks : tasks[i] = current
      after == {k \in (here + 1)..Len(tasks) : Runnable(st[tasks[k]])}
  IN \/ \E k \in after : next = tasks[k] /\ \A j \in after : k <= j
     \/ after = {} /\ next = Head(tasks)

\* A walk that always starts from task_head: the first ready task wins.
PicksFromHead(st, next) ==
  \/ \E k \in 1..Len(tasks) :
       /\ next = tasks[k]
       /\ Runnable(st[next])
       /\ \A j \in 1..(k - 1) : ~Runnable(st[tasks[j]])
  \/ /\ NoneRunnable(st)
     /\ next = Head(tasks)
     /\ st[next] = "IDLE"

\* next is where the walk ends.
Picks(st, next) ==
  \/ \E i \in DOMAIN tasks, k \in 1..Len(tasks) :
       /\ tasks[i] = current
       /\ next = Visit(i, k)
       /\ Runnable(st[next])
       /\ \A j \in 1..(k - 1) : ~Runnable(st[Visit(i, j)])
  \/ /\ NoneRunnable(st)
     /\ next = Head(tasks)
     /\ st[next] = "IDLE"

\* A switch that makes the old task ready whatever happened to it.
DispatchAlwaysReady(st, next) ==
  LET left == [st EXCEPT ![current] = "READY"]
  IN IF left[next] = "READY" THEN [left EXCEPT ![next] = "EXECUTING"] ELSE left

\* The state fields after the switch: the old task goes back to READY if it
\* was still EXECUTING, the new one to EXECUTING if it was READY.
Dispatch(st, next) ==
  LET left == IF st[current] = "EXECUTING"
                THEN [st EXCEPT ![current] = "READY"] ELSE st
  IN IF left[next] = "READY" THEN [left EXCEPT ![next] = "EXECUTING"] ELSE left

\* The end of schedule, then newctxswtch, whose last instructions are sti and
\* ret: the task that is switched in runs with interrupts on.
SwitchTo(st, next) ==
  /\ Picks(st, next)
  /\ current' = next
  /\ state' = Dispatch(st, next)
  /\ iflag' = TRUE

\* yield: it panics when nothing is ready and the head is not the idle task.
Switch(st) ==
  \/ /\ \E next \in Listed : SwitchTo(st, next)
     /\ UNCHANGED phase
  \/ /\ NoneRunnable(st)
     /\ st[Head(tasks)] # "IDLE"
     /\ phase' = "panic"
     /\ state' = st
     /\ iflag' = FALSE
     /\ UNCHANGED current

-----------------------------------------------------------------------------
(* The state in which _start calls go: init_scheduler has put the idle task *)
(* at the head of the list, and the shell task has been added.              *)
Init ==
  /\ tasks = <<Idle, Shell>>
  /\ state = [t \in Task |-> IF t = Idle THEN "IDLE" ELSE
                             IF t = Shell THEN "READY" ELSE "UNUSED"]
  /\ pid = [t \in Task |-> IF t = Shell THEN 1 ELSE 0]
  /\ current = Idle
  /\ depth = [t \in Task |-> 0]
  /\ maker = [t \in Task |-> NoMaker]
  /\ rivals = [t \in Task |-> {}]
  /\ service = {}
  /\ irq = 0
  /\ iflag = TRUE
  /\ owing = {}
  /\ ticks \in 0..(PreemptTicks - 1)
  /\ preempt = FALSE
  /\ phase = "boot"

\* go: preemption is enabled and the first task is switched in.
Go ==
  /\ phase = "boot"
  /\ \E next \in Listed : SwitchTo(state, next)
  /\ preempt' = TRUE
  /\ phase' = "run"
  /\ UNCHANGED <<tasks, pid, commandVars, irq, owing, ticks>>

-----------------------------------------------------------------------------
(* Calls made by the running task.  The idle task only halts; a task that     *)
(* owes an unlock_scheduler is still inside block_task or unblock_task; the   *)
(* host of a command is inside the interrupt.                                *)
Calls(op) ==
  /\ phase = "run"
  /\ current # Idle
  /\ depth[current] = 0
  /\ current \notin owing
  /\ op \in Ops

\* A function that returns without unlock_scheduler.
LockOnly == irq' = irq /\ iflag' = FALSE

\* unlock_scheduler after lock_scheduler: the flag comes back only when no
\* other lock is outstanding.
LockUnlock == irq' = irq /\ iflag' = (irq = 0)

Yield ==
  /\ Calls("yield")
  /\ Switch(state)
  /\ UNCHANGED <<tasks, pid, commandVars, irq, owing, ticks, preempt>>

\* exit: the task becomes a zombie and keeps running until it is switched out.
Exit ==
  /\ Calls("exit")
  /\ state' = [state EXCEPT ![current] = "ZOMBIE"]
  /\ LockUnlock
  /\ UNCHANGED <<tasks, pid, current, commandVars, owing, ticks, preempt, phase>>

SetState(t, s) == state' = [state EXCEPT ![t] = s]

\* pause_task and resume_task take any task of the list, also a zombie.
Pause(t) ==
  /\ Calls("pause")
  /\ SetState(t, "UNINTERRUPTIBLE")
  /\ LockUnlock
  /\ UNCHANGED <<tasks, pid, current, commandVars, owing, ticks, preempt, phase>>

Resume(t) ==
  /\ Calls("resume")
  /\ SetState(t, "READY")
  /\ LockUnlock
  /\ UNCHANGED <<tasks, pid, current, commandVars, owing, ticks, preempt, phase>>

\* block_task up to its yield.
Block(reason) ==
  /\ Calls("block")
  /\ irq' = irq + 1
  /\ owing' = owing \cup {current}
  /\ Switch([state EXCEPT ![current] = reason])
  /\ UNCHANGED <<tasks, pid, commandVars, ticks, preempt>>

\* unblock_task up to its yield.
Unblock(t) ==
  /\ Calls("unblock")
  /\ irq' = irq + 1
  /\ owing' = owing \cup {current}
  /\ Switch([state EXCEPT ![t] = "READY"])
  /\ UNCHANGED <<tasks, pid, commandVars, ticks, preempt>>

\* The unlock_scheduler that ends block_task and unblock_task.
FinishBlock ==
  /\ phase = "run"
  /\ current \in owing
  /\ depth[current] = 0
  /\ owing' = owing \ {current}
  /\ irq' = irq - 1
  /\ iflag' = (irq - 1 = 0)
  /\ UNCHANGED <<tasks, state, pid, current, commandVars, ticks, preempt, phase>>

-----------------------------------------------------------------------------
(* Interrupts.  global_interrupt_handler yields at its end whenever          *)
(* requires_preemption holds, not only for the timer.                        *)
requires_preemption(enabled, count) == enabled /\ count = 0

PreemptOrReturn(enabled, count) ==
  \/ requires_preemption(enabled, count) /\ Switch(state)
  \/ /\ ~requires_preemption(enabled, count)
     /\ iflag' = TRUE
     /\ UNCHANGED <<state, current, phase>>

\* The timer interrupt: tick, then the common end.
Timer ==
  /\ phase = "run"
  /\ iflag
  /\ ticks' = (ticks + 1) % PreemptTicks
  /\ PreemptOrReturn(preempt, ticks')
  /\ UNCHANGED <<tasks, pid, commandVars, irq, owing, preempt>>

\* pic_eoi: the line of the highest priority in service is acknowledged.
Acknowledged == {l \in service : \E m \in service : m < l}

\* The keyboard: KeyboardInt_Handler ends with an acknowledgement of its own,
\* so the one of global_interrupt_handler goes to a serial line in service.
Keyboard ==
  /\ phase = "run"
  /\ iflag
  /\ service' = Acknowledged
  /\ PreemptOrReturn(preempt, ticks)
  /\ UNCHANGED <<tasks, pid, depth, maker, rivals, irq, owing, ticks, preempt>>

\* An interrupt whose handler touches nothing here still preempts while the
\* tick count stays on a multiple.
OtherInterrupt ==
  /\ phase = "run"
  /\ iflag
  /\ requires_preemption(preempt, ticks)
  /\ Switch(state)
  /\ UNCHANGED <<tasks, pid, commandVars, irq, owing, ticks, preempt>>

\* The commands in progress, by host and depth.
InProgress == {c \in Task \X (1..MaxCommands) : c[2] <= depth[c[1]]}

\* A serial interrupt delivers a command line to tty_signal_handler, inside
\* whatever runs: no line of the same or a higher priority is in service.
CommandStarts(op, line) ==
  /\ phase = "run"
  /\ iflag
  /\ op \in Ops
  /\ \A l \in service : line < l
  /\ Cardinality(InProgress) < MaxCommands

\* The command stays in progress: its interrupt remains in service.
Enter(line) ==
  /\ service' = service \cup {line}
  /\ depth' = [depth EXCEPT ![current] = depth[current] + 1]

\* The innermost command of the task on the processor.
Innermost == <<current, depth[current]>>

\* The host is on the processor, inside the command.
InCommand == phase = "run" /\ depth[current] > 0

\* A command that does not return.
EndCommandNever ==
  /\ InCommand
  /\ \A n \in Task : maker[n] # Innermost
  /\ PreemptOrReturn(preempt, ticks)
  /\ UNCHANGED <<tasks, pid, commandVars, irq, owing, ticks, preempt>>

\* The command returns; an interrupt is acknowledged before the last test.
EndCommand ==
  /\ InCommand
  /\ \A n \in Task : maker[n] # Innermost
  /\ depth' = [depth EXCEPT ![current] = depth[current] - 1]
  /\ service' = Acknowledged
  /\ PreemptOrReturn(preempt, ticks)
  /\ UNCHANGED <<tasks, pid, maker, rivals, irq, owing, ticks, preempt>>

\* ptoggle: nothing turns interrupts on before the handler returns, and the
\* line it acknowledges is its own.
ToggleCommand(line) ==
  /\ CommandStarts("ptoggle", line)
  /\ preempt' = ~preempt
  /\ PreemptOrReturn(preempt', ticks)
  /\ UNCHANGED <<tasks, pid, commandVars, irq, owing, ticks>>

\* sched: yield inside the command.
SchedCommand(line) ==
  /\ CommandStarts("sched", line)
  /\ Enter(line)
  /\ Switch(state)
  /\ UNCHANGED <<tasks, pid, maker, rivals, irq, owing, ticks, preempt>>

\* get_task: the first task of the list with that pid.
GetTask(p) ==
  {tasks[i] : i \in {i \in DOMAIN tasks :
                       /\ pid[tasks[i]] = p
                       /\ \A j \in 1..(i - 1) : pid[tasks[j]] # p}}

\* kill_task, with no effect when no task has the pid.
Kill(p, line) ==
  /\ CommandStarts("kill", line)
  /\ Enter(line)
  /\ state' = [t \in Task |-> IF t \in GetTask(p) THEN "ZOMBIE" ELSE state[t]]
  /\ LockUnlock
  /\ UNCHANGED <<tasks, pid, current, maker, rivals, owing, ticks, preempt,
                 phase>>

\* A pid taken from the number of tasks that are alive.
IsFreePidByCount(p) == p = Cardinality({t \in Listed : state[t] # "ZOMBIE"})

\* get_free_pid: the smallest pid from 1 up that get_task does not find.
IsFreePid(p) ==
  /\ p >= 1
  /\ GetTask(p) = {}
  /\ \A q \in 1..(p - 1) : GetTask(q) # {}

\* spawn and loadelf start with create_task: the structure exists and has its
\* pid, but is in no list yet, where get_free_pid would see it.
CreateTask(n, line) ==
  /\ CommandStarts("spawn", line)
  /\ Enter(line)
  /\ state[n] = "UNUSED"
  /\ \E p \in 1..(Len(tasks) + 1) :
       /\ IsFreePid(p)
       /\ pid' = [pid EXCEPT ![n] = p]
  /\ state' = [state EXCEPT ![n] = "READY"]
  /\ maker' = [maker EXCEPT ![n] = <<current, depth[current] + 1>>]
  /\ rivals' = [rivals EXCEPT ![n] = Pending]
  /\ LockUnlock
  /\ UNCHANGED <<tasks, current, owing, ticks, preempt, phase>>

\* A command that adds the same task again.
AddTaskAgain(n) ==
  /\ InCommand
  /\ maker[n] = Innermost
  /\ Len(tasks) < Cardinality(Task) + 1
  /\ tasks' = Append(tasks, n)
  /\ LockUnlock
  /\ UNCHANGED <<state, pid, current, commandVars, owing, ticks, preempt, phase>>

\* add_task on the task that the same command created.
AddTask(n) ==
  /\ InCommand
  /\ maker[n] = Innermost
  /\ tasks' = Append(tasks, n)
  /\ maker' = [maker EXCEPT ![n] = NoMaker]
  /\ LockUnlock
  /\ UNCHANGED <<state, pid, current, depth, rivals, service, owing, ticks,
                 preempt, phase>>

\* elf_load_elf gives up on a task it created when its entry point is not
\* mapped: the structure is dropped, never added.
DropTask(n) ==
  /\ InCommand
  /\ maker[n] = Innermost
  /\ maker' = [maker EXCEPT ![n] = NoMaker]
  /\ UNCHANGED <<tasks, state, pid, current, depth, rivals, service, irq, iflag,
                 owing, ticks, preempt, phase>>

Next ==
  \/ Go
  \/ Yield
  \/ Exit
  \/ \E t \in Listed \ {Idle} : Pause(t) \/ Resume(t) \/ Unblock(t)
  \/ \E reason \in Blocked : Block(reason)
  \/ FinishBlock
  \/ Timer
  \/ Keyboard
  \/ OtherInterrupt
  \/ \E line \in Lines : ToggleCommand(line) \/ SchedCommand(line)
  \/ \E line \in Lines, p \in 0..Len(tasks) : Kill(p, line)
  \/ \E line \in Lines, n \in Task : CreateTask(n, line)
  \/ \E n \in Task : AddTask(n) \/ DropTask(n)
  \/ EndCommand

Spec == Init /\ [][Next]_vars

\* The interval timer keeps ticking: a tick that stays deliverable arrives.
\* A command that gets the processor again and again gets on: interrupts do
\* not come so fast that what they interrupt never runs.
CommandStep == EndCommand \/ \E n \in Task : AddTask(n) \/ DropTask(n)

FairSpec ==
  /\ Spec
  /\ WF_vars(Go)
  /\ WF_vars(Timer)
  /\ \A t \in Task \ {Idle}, d \in 1..MaxCommands :
       SF_vars(Innermost = <<t, d>> /\ CommandStep)

-----------------------------------------------------------------------------
(* Types: the list holds tasks, the counters are numbers.                   *)
TypeOK ==
  /\ tasks \in Seq(Task)
  /\ state \in [Task -> States]
  /\ pid \in [Task -> Nat]
  /\ current \in Task
  /\ depth \in [Task -> Nat]
  /\ maker \in [Task -> (Task \cup {NoTask}) \X Nat]
  /\ rivals \in [Task -> SUBSET Task]
  /\ service \subseteq {3, 4}
  /\ irq \in Int
  /\ iflag \in BOOLEAN
  /\ owing \subseteq Task
  /\ ticks \in 0..(PreemptTicks - 1)
  /\ preempt \in BOOLEAN
  /\ phase \in {"boot", "run", "panic"}

(* The task marked EXECUTING is the one on the processor: kill, pause,       *)
(* resume, block and preemption in any order never leave two tasks marked,   *)
(* nor the mark on a task that was switched out.                             *)
OnlyCurrentExecutes == \A t \in Task : state[t] = "EXECUTING" => t = current

(* The processor always runs a task that the list walk can leave again, and  *)
(* the list never holds a task twice (it would be a cycle of next pointers). *)
ListIsSound ==
  /\ current \in Listed
  /\ tasks[1] = Idle
  /\ \A i, j \in DOMAIN tasks : tasks[i] = tasks[j] => i = j

(* Between calls interrupts are off only while some suspended task still     *)
(* owes its unlock_scheduler, and irq_disable_counter counts exactly those   *)
(* tasks: lock_scheduler and unlock_scheduler never leak across a switch.    *)
LocksAreOwed ==
  phase # "panic" => /\ irq = Cardinality(owing)
                     /\ ~iflag => irq > 0

(* kill and add_signal name a task by its pid, which get_free_pid gives out  *)
(* long before add_task makes get_free_pid see it; the command that does     *)
(* both can be switched away or interrupted in between.  Two tasks of the    *)
(* list share a pid only if one was created by a command that came between   *)
(* the create_task and the add_task of the other.                            *)
PidsAreUnique ==
  \A t, u \in Listed :
    pid[t] = pid[u] => t = u \/ t \in rivals[u] \/ u \in rivals[t]

(* scheduler.c:40 "Find a task that is ready to run TASK_READY, if not       *)
(* found, run idle task": a switch to the idle task leaves no task of the    *)
(* list ready.                                                               *)
IdleOnlyWhenNothingReady ==
  [][(current' = Idle /\ current # Idle)
       => \A t \in Listed \ {Idle} : ~Runnable(state'[t])]_vars

(* Round robin is fair: a ready task of the list runs, or stops being ready, *)
(* whatever the other tasks do, because the timer preempts them.             *)
ReadyTaskRuns ==
  \A t \in Task :
    (t \in Listed /\ state[t] = "READY" /\ phase = "run")
      ~> (current = t \/ state[t] # "READY" \/ phase = "panic")

(* exit and kill do not yield; preemption still takes the processor away     *)
(* from the dead task for good.                                              *)
DeadTaskLeaves ==
  \A t \in Task \ {Idle} :
    (state[t] = "ZOMBIE") ~> (phase = "panic" \/ [](current # t))

(* Every shell command ends, so that its interrupt is acknowledged, although *)
(* the timer can switch its host away at any point and other commands run    *)
(* inside it: unless its host was killed, or is the idle task, which no      *)
(* longer runs once another task is ready.                                   *)
CommandEnds ==
  \A t \in Task \ {Idle}, d \in 1..MaxCommands :
    (depth[t] >= d) ~> (depth[t] < d \/ state[t] = "ZOMBIE" \/ phase = "panic")
=============================================================================
