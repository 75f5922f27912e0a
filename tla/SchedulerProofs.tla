-------------------------- MODULE SchedulerProofs ---------------------------
(***************************************************************************)
(* Proofs about the scheduler, for every set of tasks, every subset of the *)
(* scheduler calls and shell commands, and every preemption period.        *)
(***************************************************************************)
EXTENDS Scheduler, FiniteSetTheorems, WellFoundedInduction, TLAPS

-----------------------------------------------------------------------------
(* The tasks that exist outside the list: they are not in the list yet.      *)
CreatedIsLoose ==
  \A n \in Pending : n \notin Listed /\ state[n] # "UNUSED"

\* The types of what the commands keep.
CommandTypes ==
  /\ depth \in [Task -> Nat]
  /\ maker \in [Task -> (Task \cup {NoTask}) \X Nat]
  /\ rivals \in [Task -> SUBSET Task]
  /\ service \subseteq {3, 4}

(* The inductive invariant behind the list and the EXECUTING mark.           *)
ListInv ==
  /\ TypeOK
  /\ ListIsSound
  /\ OnlyCurrentExecutes
  /\ \A t \in Listed : state[t] # "UNUSED"
  /\ CreatedIsLoose

(* A position of the cyclic list walk is a position of the list.             *)
LEMMA VisitIsListed ==
  ASSUME tasks \in Seq(Task), Len(tasks) > 0, NEW i \in Nat \ {0}, NEW k \in Nat
  PROVE  Visit(i, k) \in Listed
<1>1. Len(tasks) \in Nat \ {0} /\ i - 1 + k \in Nat
  OBVIOUS
<1>2. (i - 1 + k) % Len(tasks) \in 0..(Len(tasks) - 1)
  BY <1>1
<1>3. ((i - 1 + k) % Len(tasks)) + 1 \in DOMAIN tasks
  BY <1>1, <1>2
<1> QED
  BY <1>3 DEF Visit, Listed

(* What a context switch does, whatever state fields st it starts from.      *)
LEMMA SwitchToLemma ==
  ASSUME NEW st \in [Task -> States], NEW next \in Listed,
         tasks \in Seq(Task), current \in Task,
         \A t \in Task : st[t] = "EXECUTING" => t = current,
         SwitchTo(st, next)
  PROVE  /\ state' \in [Task -> States]
         /\ current' \in Listed /\ current' \in Task
         /\ \A t \in Task : state'[t] = "EXECUTING" => t = current'
         /\ \A t \in Task : state'[t] = "UNUSED" <=> st[t] = "UNUSED"
         /\ iflag' = TRUE
<1>1. next \in Task
  BY DEF Listed
<1>2. current' = next /\ state' = Dispatch(st, next) /\ iflag' = TRUE
  BY DEF SwitchTo
<1> DEFINE left == IF st[current] = "EXECUTING"
                     THEN [st EXCEPT ![current] = "READY"] ELSE st
<1>3. /\ left \in [Task -> States]
      /\ \A t \in Task : left[t] # "EXECUTING"
      /\ \A t \in Task : left[t] = "UNUSED" <=> st[t] = "UNUSED"
  BY DEF States
<1>4. state' = IF left[next] = "READY"
                 THEN [left EXCEPT ![next] = "EXECUTING"] ELSE left
  BY <1>2 DEF Dispatch
<1> HIDE DEF left
<1> QED
  BY <1>1, <1>2, <1>3, <1>4 DEF States

\* What a switch by schedule does to the list and the states.
LEMMA SwitchLemma ==
  ASSUME NEW st \in [Task -> States],
         tasks \in Seq(Task), current \in Listed, current \in Task,
         \A t \in Task : st[t] = "EXECUTING" => t = current,
         phase \in {"boot", "run", "panic"},
         Switch(st)
  PROVE  /\ state' \in [Task -> States]
         /\ current' \in Listed /\ current' \in Task
         /\ \A t \in Task : state'[t] = "EXECUTING" => t = current'
         /\ \A t \in Task : state'[t] = "UNUSED" <=> st[t] = "UNUSED"
         /\ iflag' \in BOOLEAN
         /\ phase' \in {"boot", "run", "panic"}
         /\ iflag' = TRUE \/ phase' = "panic"
<1>1. CASE (\E next \in Listed : SwitchTo(st, next)) /\ UNCHANGED phase
  BY <1>1, SwitchToLemma
<1>2. CASE /\ phase' = "panic"
           /\ state' = st
           /\ iflag' = FALSE
           /\ UNCHANGED current
  BY <1>2
<1> QED
  BY <1>1, <1>2 DEF Switch

-----------------------------------------------------------------------------
\* The list invariant holds at the start.
LEMMA InitListInv == Init => ListInv
<1> SUFFICES ASSUME Init PROVE ListInv
  OBVIOUS
<1> USE SchedulerAssumption
<1>1. TypeOK
  <2>1. tasks \in Seq(Task)
    BY DEF Init
  <2>2. state \in [Task -> States] /\ pid \in [Task -> Nat]
    BY DEF Init, States
  <2>3. iflag \in BOOLEAN /\ preempt \in BOOLEAN
    BY DEF Init
  <2>4. /\ current \in Task
        /\ irq \in Int /\ owing \subseteq Task
        /\ ticks \in 0..(PreemptTicks - 1)
        /\ phase \in {"boot", "run", "panic"}
    BY DEF Init
  <2>5. CommandTypes
    BY DEF Init, CommandTypes, NoMaker
  <2> QED
    BY <2>1, <2>2, <2>3, <2>4, <2>5 DEF TypeOK, CommandTypes
<1>2. Listed = {Idle, Shell}
  <2>1. DOMAIN tasks = 1..2 /\ tasks[1] = Idle /\ tasks[2] = Shell
    BY DEF Init
  <2> QED
    BY <2>1 DEF Listed
<1>3. ListIsSound
  BY <1>2 DEF Init, ListIsSound
<1>4. OnlyCurrentExecutes
  BY DEF Init, OnlyCurrentExecutes
<1>5. \A t \in Listed : state[t] # "UNUSED"
  BY <1>2 DEF Init
<1>6. CreatedIsLoose
  BY DEF Init, CreatedIsLoose, Pending
<1> QED
  BY <1>1, <1>3, <1>4, <1>5, <1>6 DEF ListInv

(* The steps that leave the list, the pids and the created tasks alone       *)
(* preserve the invariant if they keep the state fields sound.               *)
LEMMA StateStepLemma ==
  ASSUME ListInv,
         UNCHANGED <<tasks, pid, maker, rivals>>,
         depth' \in [Task -> Nat], service' \subseteq {3, 4},
         state' \in [Task -> States],
         current' \in Listed, current' \in Task,
         \A t \in Task : state'[t] = "EXECUTING" => t = current',
         \A t \in Task : state'[t] = "UNUSED" <=> state[t] = "UNUSED",
         irq' \in Int, iflag' \in BOOLEAN, owing' \subseteq Task,
         ticks' \in 0..(PreemptTicks - 1), preempt' \in BOOLEAN,
         phase' \in {"boot", "run", "panic"}
  PROVE  ListInv'
<1>1. TypeOK'
  BY DEF ListInv, TypeOK
<1>2. Listed' = Listed
  BY DEF Listed
<1>3. ListIsSound'
  BY <1>2 DEF ListInv, ListIsSound
<1>4. OnlyCurrentExecutes'
  BY DEF OnlyCurrentExecutes
<1>5. \A t \in Listed' : t \in Task /\ state'[t] # "UNUSED"
  BY <1>2 DEF ListInv, Listed, TypeOK
<1>6. CreatedIsLoose'
  BY <1>2 DEF ListInv, CreatedIsLoose, Pending, TypeOK
<1> QED
  BY <1>1, <1>3, <1>4, <1>5, <1>6 DEF ListInv

\* Every step keeps the list invariant.
LEMMA NextListInv == ListInv /\ [Next]_vars => ListInv'
<1> SUFFICES ASSUME ListInv, [Next]_vars PROVE ListInv'
  OBVIOUS
<1> USE SchedulerAssumption
<1>0. /\ tasks \in Seq(Task) /\ state \in [Task -> States] /\ current \in Task
      /\ pid \in [Task -> Nat]
      /\ CommandTypes
      /\ irq \in Int /\ iflag \in BOOLEAN /\ owing \subseteq Task
      /\ ticks \in 0..(PreemptTicks - 1) /\ preempt \in BOOLEAN
      /\ phase \in {"boot", "run", "panic"}
      /\ current \in Listed
      /\ \A t \in Task : state[t] = "EXECUTING" => t = current
      /\ \A t \in Listed : t \in Task /\ state[t] # "UNUSED"
  BY DEF ListInv, TypeOK, CommandTypes, ListIsSound, OnlyCurrentExecutes, Listed
<1>00. /\ depth \in [Task -> Nat] /\ service \subseteq {3, 4}
       /\ Acknowledged \subseteq {3, 4}
       /\ \A line \in Lines : service \cup {line} \subseteq {3, 4}
       /\ \A t \in Task : [depth EXCEPT ![t] = depth[t] + 1] \in [Task -> Nat]
  <2>1. depth \in [Task -> Nat] /\ service \subseteq {3, 4}
    BY <1>0 DEF CommandTypes
  <2>2. Acknowledged \subseteq {3, 4}
    BY <2>1 DEF Acknowledged
  <2>3. \A line \in Lines : service \cup {line} \subseteq {3, 4}
    BY <2>1
  <2>4. \A t \in Task : [depth EXCEPT ![t] = depth[t] + 1] \in [Task -> Nat]
    BY <2>1
  <2> QED
    BY <2>1, <2>2, <2>3, <2>4
<1>1. CASE Go
  <2>1. PICK next \in Listed : SwitchTo(state, next)
    BY <1>1 DEF Go
  <2>2. /\ state' \in [Task -> States]
        /\ current' \in Listed /\ current' \in Task
        /\ \A t \in Task : state'[t] = "EXECUTING" => t = current'
        /\ \A t \in Task : state'[t] = "UNUSED" <=> state[t] = "UNUSED"
        /\ iflag' = TRUE
    BY <1>0, <2>1, SwitchToLemma
  <2> QED
    BY <1>0, <1>00, <1>1, <2>2, StateStepLemma DEF Go, commandVars
<1>2. ASSUME NEW st \in [Task -> States], Switch(st),
             \A t \in Task : st[t] = "EXECUTING" => t = current,
             \A t \in Task : st[t] = "UNUSED" <=> state[t] = "UNUSED",
             UNCHANGED <<tasks, pid, maker, rivals>>,
             depth' \in [Task -> Nat], service' \subseteq {3, 4},
             irq' \in Int, owing' \subseteq Task,
             ticks' \in 0..(PreemptTicks - 1), preempt' \in BOOLEAN
      PROVE  ListInv'
  <2>1. /\ state' \in [Task -> States]
        /\ current' \in Listed /\ current' \in Task
        /\ \A t \in Task : state'[t] = "EXECUTING" => t = current'
        /\ \A t \in Task : state'[t] = "UNUSED" <=> st[t] = "UNUSED"
        /\ iflag' \in BOOLEAN
        /\ phase' \in {"boot", "run", "panic"}
    BY <1>0, <1>2, SwitchLemma
  <2> QED
    BY <1>0, <1>2, <2>1, StateStepLemma
<1>3. CASE Yield
  BY <1>0, <1>00, <1>2, <1>3 DEF Yield, commandVars
<1>4. CASE Exit
  <2>1. /\ state' \in [Task -> States]
        /\ \A t \in Task : state'[t] = "EXECUTING" => t = current
        /\ \A t \in Task : state'[t] = "UNUSED" <=> state[t] = "UNUSED"
    BY <1>0, <1>4 DEF Exit, States
  <2> QED
    BY <1>0, <1>00, <1>4, <2>1, StateStepLemma DEF Exit, LockUnlock, commandVars
<1>5. ASSUME NEW line \in Lines, NEW p \in 0..Len(tasks), Kill(p, line)
      PROVE  ListInv'
  <2>1. \A t \in GetTask(p) : t \in Listed
    BY DEF GetTask, Listed
  <2>2. state' = [t \in Task |-> IF t \in GetTask(p) THEN "ZOMBIE" ELSE state[t]]
    BY <1>5 DEF Kill
  <2>3. /\ state' \in [Task -> States]
        /\ \A t \in Task : state'[t] = "EXECUTING" => t = current
        /\ \A t \in Task : state'[t] = "UNUSED" <=> state[t] = "UNUSED"
    BY <1>0, <2>1, <2>2 DEF States
  <2> QED
    BY <1>0, <1>00, <1>5, <2>3, StateStepLemma DEF Kill, Enter, LockUnlock
<1>6. ASSUME NEW t \in Listed \ {Idle}, Pause(t) PROVE ListInv'
  <2>1. /\ state' \in [Task -> States]
        /\ \A u \in Task : state'[u] = "EXECUTING" => u = current
        /\ \A u \in Task : state'[u] = "UNUSED" <=> state[u] = "UNUSED"
    BY <1>0, <1>6 DEF Pause, SetState, States, Blocked
  <2> QED
    BY <1>0, <1>00, <1>6, <2>1, StateStepLemma DEF Pause, LockUnlock, commandVars
<1>7. ASSUME NEW t \in Listed \ {Idle}, Resume(t) PROVE ListInv'
  <2>1. /\ state' \in [Task -> States]
        /\ \A u \in Task : state'[u] = "EXECUTING" => u = current
        /\ \A u \in Task : state'[u] = "UNUSED" <=> state[u] = "UNUSED"
    BY <1>0, <1>7 DEF Resume, SetState, States
  <2> QED
    BY <1>0, <1>00, <1>7, <2>1, StateStepLemma DEF Resume, LockUnlock, commandVars
<1>8. ASSUME NEW t \in Listed \ {Idle}, Unblock(t) PROVE ListInv'
  <2> DEFINE st == [state EXCEPT ![t] = "READY"]
  <2>1. /\ st \in [Task -> States]
        /\ \A u \in Task : st[u] = "EXECUTING" => u = current
        /\ \A u \in Task : st[u] = "UNUSED" <=> state[u] = "UNUSED"
    BY <1>0 DEF States
  <2>2. /\ Switch(st) /\ UNCHANGED <<tasks, pid, maker, rivals>>
        /\ depth' \in [Task -> Nat] /\ service' \subseteq {3, 4}
        /\ irq' \in Int /\ owing' \subseteq Task
        /\ ticks' \in 0..(PreemptTicks - 1) /\ preempt' \in BOOLEAN
    BY <1>0, <1>00, <1>8 DEF Unblock, commandVars
  <2> HIDE DEF st
  <2> QED
    BY <1>2, <2>1, <2>2
<1>9. ASSUME NEW reason \in Blocked, Block(reason) PROVE ListInv'
  <2> DEFINE st == [state EXCEPT ![current] = reason]
  <2>1. /\ st \in [Task -> States]
        /\ \A u \in Task : st[u] = "EXECUTING" => u = current
        /\ \A u \in Task : st[u] = "UNUSED" <=> state[u] = "UNUSED"
    BY <1>0 DEF States, Blocked
  <2>2. /\ Switch(st) /\ UNCHANGED <<tasks, pid, maker, rivals>>
        /\ depth' \in [Task -> Nat] /\ service' \subseteq {3, 4}
        /\ irq' \in Int /\ owing' \subseteq Task
        /\ ticks' \in 0..(PreemptTicks - 1) /\ preempt' \in BOOLEAN
    BY <1>0, <1>00, <1>9 DEF Block, commandVars
  <2> HIDE DEF st
  <2> QED
    BY <1>2, <2>1, <2>2
<1>10. CASE FinishBlock
  BY <1>0, <1>00, <1>10, StateStepLemma DEF FinishBlock, commandVars
<1>11. ASSUME NEW line \in Lines, NEW n \in Task, CreateTask(n, line)
       PROVE  ListInv'
  <2>1. /\ state[n] = "UNUSED" /\ n \notin Listed
        /\ state' = [state EXCEPT ![n] = "READY"]
        /\ maker' = [maker EXCEPT ![n] = <<current, depth[current] + 1>>]
        /\ rivals' = [rivals EXCEPT ![n] = Pending]
        /\ UNCHANGED <<tasks, current, owing, ticks, preempt, phase>>
        /\ irq' \in Int /\ iflag' \in BOOLEAN
    BY <1>0, <1>11 DEF CreateTask, LockUnlock
  <2>10. pid' \in [Task -> Nat]
    BY <1>0, <1>11 DEF CreateTask
  <2>12. depth' \in [Task -> Nat] /\ service' \subseteq {3, 4}
    BY <1>0, <1>00, <1>11 DEF CreateTask, Enter
  <2>13. maker' \in [Task -> (Task \cup {NoTask}) \X Nat]
    <3>1. <<current, depth[current] + 1>> \in (Task \cup {NoTask}) \X Nat
      BY <1>0, <1>00
    <3>2. maker \in [Task -> (Task \cup {NoTask}) \X Nat]
      BY <1>0 DEF CommandTypes
    <3> QED
      BY <2>1, <3>1, <3>2
  <2>14. rivals' \in [Task -> SUBSET Task]
    <3>1. Pending \in SUBSET Task
      BY DEF Pending
    <3>2. rivals \in [Task -> SUBSET Task]
      BY <1>0 DEF CommandTypes
    <3> QED
      BY <2>1, <3>1, <3>2
  <2>2. Listed' = Listed
    BY <2>1 DEF Listed
  <2>3. TypeOK'
    BY <1>0, <2>1, <2>10, <2>12, <2>13, <2>14 DEF TypeOK, States
  <2>4. ListIsSound'
    BY <2>1, <2>2 DEF ListInv, ListIsSound
  <2>5. OnlyCurrentExecutes'
    BY <1>0, <2>1 DEF OnlyCurrentExecutes
  <2>6. \A t \in Listed' : state'[t] # "UNUSED"
    BY <1>0, <2>1, <2>2
  <2>7. CreatedIsLoose'
    <3>1. CreatedIsLoose
      BY DEF ListInv
    <3>2. ASSUME NEW m \in Pending' PROVE m = n \/ m \in Pending
      BY <1>0, <2>1 DEF Pending, CommandTypes
    <3> QED
      BY <1>0, <2>1, <2>2, <3>1, <3>2 DEF CreatedIsLoose, Pending
  <2> QED
    BY <2>3, <2>4, <2>5, <2>6, <2>7 DEF ListInv
<1>12. ASSUME NEW n \in Task, AddTask(n) PROVE ListInv'
  <2>1. n \in Pending
    BY <1>0, <1>12 DEF AddTask, Pending, NoMaker, Innermost
  <2>2. n \notin Listed /\ state[n] # "UNUSED"
    BY <1>0, <2>1 DEF ListInv, CreatedIsLoose
  <2>3. /\ tasks' = Append(tasks, n)
        /\ maker' = [maker EXCEPT ![n] = NoMaker]
        /\ UNCHANGED <<state, pid, current, depth, rivals, service, owing, ticks,
                       preempt, phase>>
        /\ irq' \in Int /\ iflag' \in BOOLEAN
    BY <1>0, <1>12, <2>1 DEF AddTask, LockUnlock
  <2>31. maker' \in [Task -> (Task \cup {NoTask}) \X Nat]
    BY <1>0, <2>3 DEF CommandTypes, NoMaker
  <2>4. /\ tasks' \in Seq(Task)
        /\ Len(tasks') = Len(tasks) + 1
        /\ DOMAIN tasks' = 1..(Len(tasks) + 1)
        /\ \A i \in DOMAIN tasks : tasks'[i] = tasks[i]
        /\ tasks'[Len(tasks) + 1] = n
    BY <1>0, <2>3
  <2>5. DOMAIN tasks = 1..Len(tasks) /\ Len(tasks) \in Nat /\ Len(tasks) > 0
    BY <1>0 DEF Listed
  <2>6. Listed' = Listed \cup {n}
    BY <2>4, <2>5 DEF Listed
  <2>7. TypeOK'
    BY <1>0, <2>3, <2>31, <2>4 DEF TypeOK, CommandTypes
  <2>8. ListIsSound'
    <3>1. tasks'[1] = Idle
      BY <2>4, <2>5 DEF ListInv, ListIsSound
    <3>2. ASSUME NEW i \in DOMAIN tasks', NEW j \in DOMAIN tasks',
                 tasks'[i] = tasks'[j]
          PROVE  i = j
      <4>1. \A k \in DOMAIN tasks : tasks[k] # n
        BY <2>2 DEF Listed
      <4>2. \A k, l \in DOMAIN tasks : tasks[k] = tasks[l] => k = l
        BY DEF ListInv, ListIsSound
      <4>3. i \in DOMAIN tasks \/ i = Len(tasks) + 1
        BY <2>4, <2>5
      <4>4. j \in DOMAIN tasks \/ j = Len(tasks) + 1
        BY <2>4, <2>5
      <4> QED
        BY <2>4, <3>2, <4>1, <4>2, <4>3, <4>4
    <3> QED
      BY <1>0, <2>3, <2>6, <3>1, <3>2 DEF ListIsSound
  <2>9. OnlyCurrentExecutes'
    BY <1>0, <2>3 DEF OnlyCurrentExecutes
  <2>10. \A t \in Listed' : state'[t] # "UNUSED"
    BY <1>0, <2>2, <2>3, <2>6
  <2>11. CreatedIsLoose'
    <3>1. CreatedIsLoose
      BY DEF ListInv
    <3>2. ASSUME NEW m \in Pending' PROVE m # n /\ m \in Pending
      BY <1>0, <2>3 DEF Pending, CommandTypes
    <3> QED
      BY <2>3, <2>6, <3>1, <3>2 DEF CreatedIsLoose
  <2> QED
    BY <2>7, <2>8, <2>9, <2>10, <2>11 DEF ListInv
<1>13. ASSUME NEW n \in Task, DropTask(n) PROVE ListInv'
  <2>1. /\ maker' = [maker EXCEPT ![n] = NoMaker]
        /\ UNCHANGED <<tasks, state, pid, current, depth, rivals, service, irq,
                       iflag, owing, ticks, preempt, phase>>
    BY <1>13 DEF DropTask
  <2>2. Listed' = Listed
    BY <2>1 DEF Listed
  <2>3. TypeOK'
    BY <1>0, <2>1 DEF TypeOK, CommandTypes, NoMaker
  <2>4. CreatedIsLoose'
    <3>1. CreatedIsLoose
      BY DEF ListInv
    <3>2. ASSUME NEW m \in Pending' PROVE m \in Pending
      BY <1>0, <2>1 DEF Pending, CommandTypes
    <3> QED
      BY <2>1, <2>2, <3>1, <3>2 DEF CreatedIsLoose
  <2> QED
    BY <2>1, <2>2, <2>3, <2>4 DEF ListInv, ListIsSound, OnlyCurrentExecutes
<1>14. ASSUME NEW enabled, NEW count, PreemptOrReturn(enabled, count),
              UNCHANGED <<tasks, pid, maker, rivals, irq, owing>>,
              depth' \in [Task -> Nat], service' \subseteq {3, 4},
              ticks' \in 0..(PreemptTicks - 1), preempt' \in BOOLEAN
       PROVE  ListInv'
  <2>1. CASE Switch(state)
    BY <1>0, <1>2, <1>14, <2>1
  <2>2. CASE UNCHANGED <<state, current, phase>> /\ iflag' = TRUE
    BY <1>0, <1>14, <2>2, StateStepLemma
  <2> QED
    BY <1>14, <2>1, <2>2 DEF PreemptOrReturn
<1>15. CASE Timer
  <2>1. ticks' \in 0..(PreemptTicks - 1)
    BY <1>0, <1>15 DEF Timer
  <2> QED
    BY <1>0, <1>00, <1>14, <1>15, <2>1 DEF Timer, commandVars
<1>16. CASE OtherInterrupt
  BY <1>0, <1>00, <1>2, <1>16 DEF OtherInterrupt, commandVars
<1>17. ASSUME NEW line \in Lines, ToggleCommand(line) PROVE ListInv'
  <2>1. preempt' \in BOOLEAN
    BY <1>0, <1>17 DEF ToggleCommand
  <2> QED
    BY <1>0, <1>00, <1>14, <1>17, <2>1 DEF ToggleCommand, commandVars
<1>18. ASSUME NEW line \in Lines, SchedCommand(line) PROVE ListInv'
  BY <1>0, <1>00, <1>2, <1>18 DEF SchedCommand, Enter
<1>19. CASE EndCommand
  <2>1. [depth EXCEPT ![current] = depth[current] - 1] \in [Task -> Nat]
    BY <1>0, <1>00, <1>19 DEF EndCommand, InCommand
  <2> QED
    BY <1>0, <1>00, <1>14, <1>19, <2>1 DEF EndCommand
<1>20. CASE Keyboard
  BY <1>0, <1>00, <1>14, <1>20 DEF Keyboard
<1>21. CASE UNCHANGED vars
  BY <1>0, <1>00, <1>21, StateStepLemma DEF vars, commandVars
<1> QED
  BY <1>1, <1>3, <1>4, <1>5, <1>6, <1>7, <1>8, <1>9, <1>10, <1>11, <1>12,
     <1>13, <1>15, <1>16, <1>17, <1>18, <1>19, <1>20, <1>21 DEF Next

(* The scheduler's list stays a list with the idle task at its head, the     *)
(* processor stays on a listed task, and at most that task is marked         *)
(* EXECUTING: for any number of tasks, and any interleaving of the scheduler *)
(* calls, the shell commands and preemption.                                 *)
THEOREM ListCorrect == Spec => [](TypeOK /\ ListIsSound /\ OnlyCurrentExecutes)
<1>1. ListInv => TypeOK /\ ListIsSound /\ OnlyCurrentExecutes
  BY DEF ListInv
<1> QED
  BY <1>1, InitListInv, NextListInv, PTL DEF Spec

-----------------------------------------------------------------------------
(* The inductive invariant of the lock counter.                              *)
LockInv == IsFiniteSet(owing) /\ LocksAreOwed

(* irq_disable_counter counts the tasks suspended between lock_scheduler and *)
(* unlock_scheduler, and interrupts stay off between scheduler calls only    *)
(* while there is one: for any number of tasks blocked at the same time.     *)
THEOREM LockCounterCorrect == Spec => []LocksAreOwed
<1>1. Init => LockInv
  BY FS_EmptySet DEF Init, LockInv, LocksAreOwed
<1>2. ListInv /\ LockInv /\ [Next]_vars => LockInv'
  <2> SUFFICES ASSUME ListInv, LockInv, [Next]_vars PROVE LockInv'
    OBVIOUS
  <2>0. /\ IsFiniteSet(owing) /\ Cardinality(owing) \in Nat
        /\ phase # "panic" => irq = Cardinality(owing) /\ (~iflag => irq > 0)
        /\ irq \in Int /\ iflag \in BOOLEAN
    BY FS_CardinalityType DEF LockInv, LocksAreOwed, ListInv, TypeOK
  <2>1. ASSUME LockUnlock, UNCHANGED owing, phase = "run", UNCHANGED phase
        PROVE  LockInv'
    BY <2>0, <2>1 DEF LockInv, LocksAreOwed, LockUnlock
  <2>2. ASSUME NEW st, Switch(st), phase # "panic",
               irq' = Cardinality(owing'), IsFiniteSet(owing')
        PROVE  LockInv'
    BY <2>2 DEF LockInv, LocksAreOwed, Switch, SwitchTo
  <2>3. ASSUME NEW st, Switch(st), phase = "run", current \notin owing,
               irq' = irq + 1, owing' = owing \cup {current}
        PROVE  LockInv'
    <3>1. /\ IsFiniteSet(owing')
          /\ Cardinality(owing') = Cardinality(owing) + 1
      BY <2>0, <2>3, FS_AddElement
    <3> QED
      BY <2>0, <2>2, <2>3, <3>1
  <2>4. CASE Go
    BY <2>0, <2>4 DEF Go, SwitchTo, LockInv, LocksAreOwed
  <2>5. CASE Yield
    BY <2>0, <2>2, <2>5 DEF Yield, Calls
  <2>6. CASE Exit
    BY <2>1, <2>6 DEF Exit, Calls
  <2>7. ASSUME NEW line \in Lines, NEW p \in 0..Len(tasks), Kill(p, line)
        PROVE  LockInv'
    BY <2>1, <2>7 DEF Kill, CommandStarts
  <2>8. ASSUME NEW t \in Listed, Pause(t) \/ Resume(t) PROVE LockInv'
    BY <2>1, <2>8 DEF Pause, Resume, Calls
  <2>9. ASSUME NEW t \in Listed, Unblock(t) PROVE LockInv'
    BY <2>3, <2>9 DEF Unblock, Calls
  <2>10. ASSUME NEW reason \in Blocked, Block(reason) PROVE LockInv'
    BY <2>3, <2>10 DEF Block, Calls
  <2>11. CASE FinishBlock
    <3>1. /\ IsFiniteSet(owing')
          /\ Cardinality(owing') = Cardinality(owing) - 1
      BY <2>0, <2>11, FS_RemoveElement DEF FinishBlock
    <3>2. Cardinality(owing') \in Nat
      BY <3>1, FS_CardinalityType
    <3>3. irq' = Cardinality(owing') /\ irq' = irq - 1
      BY <2>0, <2>11, <3>1 DEF FinishBlock
    <3>4. iflag' = (irq - 1 = 0)
      BY <2>11 DEF FinishBlock
    <3>5. ~iflag' => irq' # 0
      BY <3>3, <3>4
    <3>6. irq' # 0 => irq' > 0
      <4>1. irq' \in Nat
        BY <3>2, <3>3
      <4> QED
        BY <4>1
    <3> QED
      BY <3>1, <3>3, <3>5, <3>6 DEF LockInv, LocksAreOwed
  <2>12. ASSUME NEW line \in Lines, NEW n \in Task, CreateTask(n, line)
         PROVE  LockInv'
    BY <2>1, <2>12 DEF CreateTask, CommandStarts
  <2>13. ASSUME NEW n \in Task, AddTask(n) PROVE LockInv'
    BY <2>1, <2>13 DEF AddTask, InCommand
  <2>14. ASSUME \/ \E n \in Task : DropTask(n)
                \/ UNCHANGED vars
         PROVE  LockInv'
    BY <2>14 DEF DropTask, vars, LockInv, LocksAreOwed
  <2>15. ASSUME NEW enabled, NEW count, PreemptOrReturn(enabled, count),
                UNCHANGED <<irq, owing>>, phase = "run"
         PROVE  LockInv'
    <3>1. CASE Switch(state)
      BY <2>0, <2>2, <2>15, <3>1
    <3>2. CASE UNCHANGED <<state, current, phase>> /\ iflag' = TRUE
      BY <2>0, <2>15, <3>2 DEF LockInv, LocksAreOwed
    <3> QED
      BY <2>15, <3>1, <3>2 DEF PreemptOrReturn
  <2>16. ASSUME \/ Timer \/ Keyboard \/ EndCommand
                \/ \E line \in Lines : ToggleCommand(line)
         PROVE  LockInv'
    BY <2>15, <2>16
    DEF Timer, Keyboard, EndCommand, InCommand, ToggleCommand, CommandStarts
  <2>17. ASSUME \/ OtherInterrupt
                \/ \E line \in Lines : SchedCommand(line)
         PROVE  LockInv'
    BY <2>0, <2>2, <2>17 DEF OtherInterrupt, SchedCommand, CommandStarts
  <2> QED
    BY <2>4, <2>5, <2>6, <2>7, <2>8, <2>9, <2>10, <2>11, <2>12, <2>13, <2>14,
       <2>16, <2>17 DEF Next
<1>3. LockInv => LocksAreOwed
  BY DEF LockInv
<1> QED
  BY <1>1, <1>2, <1>3, InitListInv, NextListInv, PTL DEF Spec
-----------------------------------------------------------------------------
(* The walk of get_task finds a task if one of the list has the pid: it ends *)
(* at the first of them.                                                     *)
LEMMA GetTaskFindsPid ==
  ASSUME tasks \in Seq(Task), NEW t \in Listed
  PROVE  GetTask(pid[t]) # {}
<1> DEFINE having == {i \in DOMAIN tasks : pid[tasks[i]] = pid[t]}
<1>1. having \subseteq Nat /\ having # {}
  BY DEF Listed
<1>2. PICK i \in having : \A j \in having : ~(<<j, i>> \in OpToRel(<, Nat))
  BY <1>1, NatLessThanWellFounded, WFMin
<1>3. \A j \in having : ~(j < i)
  BY <1>1, <1>2 DEF OpToRel
<1>4. i \in DOMAIN tasks /\ pid[tasks[i]] = pid[t] /\ DOMAIN tasks = 1..Len(tasks)
  OBVIOUS
<1>5. \A j \in 1..(i - 1) : pid[tasks[j]] # pid[t]
  <2> SUFFICES ASSUME NEW j \in 1..(i - 1), pid[tasks[j]] = pid[t] PROVE FALSE
    OBVIOUS
  <2>1. j \in DOMAIN tasks /\ j < i
    BY <1>4
  <2> QED
    BY <1>3, <2>1
<1> QED
  BY <1>4, <1>5 DEF GetTask

(* The pids of the tasks that are not in the list yet count too: a task that *)
(* is created while they are pending has them among its rivals, and any      *)
(* other finds every task in the list, where get_free_pid looks.             *)
PidInv ==
  \A t, u \in Listed \cup Pending :
    pid[t] = pid[u] => t = u \/ t \in rivals[u] \/ u \in rivals[t]

(* Two tasks of the list have the same pid only if one was created between   *)
(* the create_task and the add_task of the other, for any number of tasks,   *)
(* and of commands inside each other or switched away: create_task hands a   *)
(* pid out before add_task makes it visible to get_free_pid.                 *)
THEOREM PidsStayUnique == Spec => []PidsAreUnique
<1> USE SchedulerAssumption
<1>1. Init => PidInv
  <2> SUFFICES ASSUME Init PROVE PidInv
    OBVIOUS
  <2>1. \A t \in Listed \cup Pending : t \in {Idle, Shell}
    BY DEF Init, Listed, Pending
  <2> QED
    BY <2>1 DEF Init, PidInv
<1>2. ListInv /\ PidInv /\ [Next]_vars => PidInv'
  <2> SUFFICES ASSUME ListInv, PidInv, [Next]_vars PROVE PidInv'
    OBVIOUS
  <2>0. /\ tasks \in Seq(Task) /\ pid \in [Task -> Nat]
        /\ maker \in [Task -> (Task \cup {NoTask}) \X Nat]
        /\ rivals \in [Task -> SUBSET Task]
        /\ \A t \in Listed : t \in Task /\ state[t] # "UNUSED"
        /\ \A t \in Pending : t \in Task /\ state[t] # "UNUSED"
    BY DEF ListInv, TypeOK, Listed, CreatedIsLoose, Pending
  <2>1. ASSUME UNCHANGED <<tasks, pid, maker, rivals>> PROVE PidInv'
    BY <2>1 DEF PidInv, Listed, Pending
  <2>2. ASSUME NEW line \in Lines, NEW n \in Task, CreateTask(n, line)
        PROVE  PidInv'
    <3>1. /\ tasks' = tasks /\ state[n] = "UNUSED"
          /\ maker' = [maker EXCEPT ![n] = <<current, depth[current] + 1>>]
          /\ rivals' = [rivals EXCEPT ![n] = Pending]
      BY <2>2 DEF CreateTask
    <3>2. PICK p \in 1..(Len(tasks) + 1) : IsFreePid(p) /\ pid' = [pid EXCEPT ![n] = p]
      BY <2>2 DEF CreateTask
    <3>3. n \notin Listed /\ n \notin Pending /\ Listed' = Listed
      BY <2>0, <3>1 DEF Listed
    <3>4. \A t \in Listed : pid[t] # p
      BY <2>0, <3>2, GetTaskFindsPid DEF IsFreePid
    <3>5. /\ pid'[n] = p /\ rivals'[n] = Pending
          /\ \A t \in Listed \cup Pending : pid'[t] = pid[t] /\ rivals'[t] = rivals[t]
      BY <2>0, <3>1, <3>2, <3>3
    <3>6. \A t \in Pending' : t = n \/ t \in Pending
      BY <2>0, <3>1 DEF Pending
    <3> QED
      BY <3>3, <3>4, <3>5, <3>6 DEF PidInv
  <2>3. ASSUME NEW n \in Task, AddTask(n) PROVE PidInv'
    <3>1. /\ tasks' = Append(tasks, n) /\ pid' = pid /\ rivals' = rivals
          /\ maker' = [maker EXCEPT ![n] = NoMaker]
          /\ maker[n] = Innermost /\ depth[current] > 0
      BY <2>3 DEF AddTask, InCommand
    <3>2. /\ DOMAIN tasks = 1..Len(tasks) /\ Len(tasks) \in Nat
          /\ DOMAIN tasks' = 1..(Len(tasks) + 1)
          /\ \A i \in DOMAIN tasks : tasks'[i] = tasks[i]
          /\ tasks'[Len(tasks) + 1] = n
      BY <2>0, <3>1
    <3>3. Listed' = Listed \cup {n}
      BY <3>2 DEF Listed
    <3>4. n \in Pending /\ Pending' \subseteq Pending
      <4>1. current \in Task
        BY DEF ListInv, TypeOK
      <4> QED
        BY <2>0, <3>1, <4>1 DEF Pending, Innermost, NoMaker
    <3> QED
      BY <3>1, <3>3, <3>4 DEF PidInv
  <2>4. ASSUME NEW n \in Task, DropTask(n) PROVE PidInv'
    <3>1. Listed' = Listed /\ pid' = pid /\ rivals' = rivals
      BY <2>4 DEF DropTask, Listed
    <3>2. Pending' \subseteq Pending
      BY <2>0, <2>4 DEF DropTask, Pending, NoMaker
    <3> QED
      BY <3>1, <3>2 DEF PidInv
  <2>5. CASE \/ Go \/ Yield \/ Exit \/ FinishBlock \/ Timer \/ Keyboard
             \/ OtherInterrupt \/ EndCommand \/ UNCHANGED vars
    BY <2>1, <2>5
    DEF Go, Yield, Exit, FinishBlock, Timer, Keyboard, OtherInterrupt,
        EndCommand, vars, commandVars
  <2>6. ASSUME NEW t \in Listed \ {Idle}, Pause(t) \/ Resume(t) \/ Unblock(t)
        PROVE  PidInv'
    BY <2>1, <2>6 DEF Pause, Resume, Unblock, commandVars
  <2>7. ASSUME NEW reason \in Blocked, Block(reason) PROVE PidInv'
    BY <2>1, <2>7 DEF Block, commandVars
  <2>8. ASSUME NEW line \in Lines,
               \/ ToggleCommand(line) \/ SchedCommand(line)
               \/ \E p \in 0..Len(tasks) : Kill(p, line)
        PROVE  PidInv'
    BY <2>1, <2>8 DEF ToggleCommand, SchedCommand, Kill, commandVars
  <2> QED
    BY <2>2, <2>3, <2>4, <2>5, <2>6, <2>7, <2>8 DEF Next
<1>3. PidInv => PidsAreUnique
  BY DEF PidInv, PidsAreUnique
<1> QED
  BY <1>1, <1>2, <1>3, InitListInv, NextListInv, PTL DEF Spec

-----------------------------------------------------------------------------
(* The idle task is never ready: nothing resumes it, and a kill makes it a   *)
(* zombie.                                                                   *)
IdleIsNeverReady == state[Idle] \in {"IDLE", "ZOMBIE"}

(* What a switch to the idle task says of the others: the walk has found     *)
(* nobody else.                                                              *)
LEMMA SwitchToIdle ==
  ASSUME NEW st \in [Task -> States], st[Idle] \in {"IDLE", "ZOMBIE"},
         current \in Task, tasks \in Seq(Task),
         NEW next \in Listed, SwitchTo(st, next)
  PROVE  /\ state'[Idle] \in {"IDLE", "ZOMBIE"}
         /\ current' = Idle => \A t \in Listed : ~Runnable(state'[t])
<1> USE SchedulerAssumption
<1>1. next \in Task /\ current' = next /\ state' = Dispatch(st, next) /\ Picks(st, next)
  BY DEF SwitchTo, Listed
<1>2. state'[Idle] \in {"IDLE", "ZOMBIE"}
  BY <1>1 DEF Dispatch
<1>3. ASSUME next = Idle PROVE \A t \in Listed : ~Runnable(state'[t])
  <2>1. NoneRunnable(st)
    BY <1>1, <1>3 DEF Picks, Runnable
  <2>2. \A t \in Listed : t \in Task /\ ~Runnable(st[t])
    BY <2>1 DEF NoneRunnable, Listed
  <2>3. \A t \in Task : state'[t] = st[t] \/ (t = current /\ st[t] = "EXECUTING")
    BY <1>1, <1>3 DEF Dispatch
  <2> QED
    BY <2>2, <2>3 DEF Runnable
<1> QED
  BY <1>1, <1>2, <1>3

(* A step that leaves the processor to another task, or the fields of the    *)
(* idle task alone, keeps both facts.                                        *)
IdleStep ==
  /\ IdleIsNeverReady'
  /\ (current' = Idle /\ current # Idle)
       => \A t \in Listed \ {Idle} : ~Runnable(state'[t])

\* A switch takes the idle task only when no other is ready.
LEMMA SwitchIdleStep ==
  ASSUME NEW st \in [Task -> States], st[Idle] \in {"IDLE", "ZOMBIE"},
         current \in Task, tasks \in Seq(Task), Switch(st)
  PROVE  IdleStep
<1>1. CASE \E next \in Listed : SwitchTo(st, next)
  BY <1>1, SwitchToIdle DEF IdleStep, IdleIsNeverReady
<1>2. CASE state' = st /\ UNCHANGED current
  BY <1>2 DEF IdleStep, IdleIsNeverReady
<1> QED
  BY <1>1, <1>2 DEF Switch

\* Every step that changes the current task is such a switch.
LEMMA NextIdleStep ==
  ASSUME ListInv, IdleIsNeverReady, [Next]_vars
  PROVE  IdleStep
<1> USE SchedulerAssumption
<1>0. /\ tasks \in Seq(Task) /\ state \in [Task -> States] /\ current \in Task
      /\ state[Idle] \in {"IDLE", "ZOMBIE"}
      /\ \A t \in Listed : t \in Task
  BY DEF ListInv, TypeOK, Listed, IdleIsNeverReady
<1>1. ASSUME UNCHANGED current, state'[Idle] \in {"IDLE", "ZOMBIE"} PROVE IdleStep
  BY <1>1 DEF IdleStep, IdleIsNeverReady
<1>2. ASSUME Switch(state) PROVE IdleStep
  BY <1>0, <1>2, SwitchIdleStep
<1>3. CASE Go
  BY <1>0, <1>3, SwitchToIdle DEF Go, IdleStep, IdleIsNeverReady
<1>4. CASE Yield \/ OtherInterrupt \/ \E line \in Lines : SchedCommand(line)
  BY <1>2, <1>4 DEF Yield, OtherInterrupt, SchedCommand
<1>5. ASSUME NEW enabled, NEW count, PreemptOrReturn(enabled, count) PROVE IdleStep
  BY <1>0, <1>1, <1>2, <1>5 DEF PreemptOrReturn
<1>6. CASE \/ Timer \/ Keyboard \/ EndCommand
           \/ \E line \in Lines : ToggleCommand(line)
  BY <1>5, <1>6 DEF Timer, Keyboard, ToggleCommand, EndCommand
<1>7. CASE Exit
  BY <1>0, <1>1, <1>7 DEF Exit, Calls
<1>8. ASSUME NEW t \in Listed \ {Idle}, Pause(t) \/ Resume(t) PROVE IdleStep
  BY <1>0, <1>1, <1>8 DEF Pause, Resume, SetState
<1>9. ASSUME NEW t \in Listed \ {Idle}, Unblock(t) PROVE IdleStep
  <2> DEFINE st == [state EXCEPT ![t] = "READY"]
  <2>1. st \in [Task -> States] /\ st[Idle] \in {"IDLE", "ZOMBIE"} /\ Switch(st)
    BY <1>0, <1>9 DEF Unblock, States
  <2> HIDE DEF st
  <2> QED
    BY <1>0, <2>1, SwitchIdleStep
<1>10. ASSUME NEW reason \in Blocked, Block(reason) PROVE IdleStep
  <2> DEFINE st == [state EXCEPT ![current] = reason]
  <2>1. st \in [Task -> States] /\ st[Idle] \in {"IDLE", "ZOMBIE"} /\ Switch(st)
    BY <1>0, <1>10 DEF Block, Calls, States
  <2> HIDE DEF st
  <2> QED
    BY <1>0, <2>1, SwitchIdleStep
<1>11. ASSUME NEW line \in Lines, NEW p \in 0..Len(tasks), Kill(p, line)
       PROVE  IdleStep
  BY <1>0, <1>1, <1>11 DEF Kill
<1>12. ASSUME NEW line \in Lines, NEW n \in Task, CreateTask(n, line)
       PROVE  IdleStep
  BY <1>0, <1>1, <1>12 DEF CreateTask
<1>13. CASE \/ FinishBlock \/ UNCHANGED vars
            \/ \E n \in Task : AddTask(n) \/ DropTask(n)
  BY <1>0, <1>1, <1>13 DEF FinishBlock, AddTask, DropTask, vars
<1> QED
  BY <1>3, <1>4, <1>6, <1>7, <1>8, <1>9, <1>10, <1>11, <1>12, <1>13 DEF Next

(* The idle task gets the processor only when no task of the list is ready,  *)
(* whatever the state fields were changed to by pause, kill, block and exit  *)
(* since the last switch, and also when the walk wraps around the list.      *)
THEOREM IdleRunsLast == Spec => IdleOnlyWhenNothingReady
<1>1. Init => IdleIsNeverReady
  BY SchedulerAssumption DEF Init, IdleIsNeverReady
<1>2. ListInv /\ IdleIsNeverReady /\ [Next]_vars
        => /\ IdleIsNeverReady'
           /\ [(current' = Idle /\ current # Idle)
                 => \A t \in Listed \ {Idle} : ~Runnable(state'[t])]_vars
  BY NextIdleStep DEF IdleStep
<1> QED
  BY <1>1, <1>2, InitListInv, NextListInv, PTL DEF Spec, IdleOnlyWhenNothingReady
=============================================================================
