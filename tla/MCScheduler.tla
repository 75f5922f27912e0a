---------------------------- MODULE MCScheduler -----------------------------
(* Instances of Scheduler for TLC.                                          *)
EXTENDS Scheduler, TLC

CONSTANTS idle, shell, t1, t2

AllTasks == {idle, shell, t1, t2}

\* The task structures that are still unused can be exchanged.
SpareTasks == Permutations({t1, t2})

\* What lets tasks come, run and die: not the calls that suspend a task, nor
\* the command that turns preemption off.
LiveOps == {"yield", "exit", "kill", "sched", "spawn"}
=============================================================================
