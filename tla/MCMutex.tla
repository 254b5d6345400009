------------------------------ MODULE MCMutex ------------------------------
(***************************************************************************)
(* Instances of Mutex: the task states its callers wait in and the signals  *)
(* they get.                                                                *)
(***************************************************************************)
EXTENDS Mutex, TLC

UninterruptibleAndKillable == {"TASK_UNINTERRUPTIBLE", "TASK_KILLABLE"}
InterruptibleAndKillable == {"TASK_INTERRUPTIBLE", "TASK_KILLABLE"}
Uninterruptible == {"TASK_UNINTERRUPTIBLE"}
Symmetric == Permutations(Tasks)
============================================================================
