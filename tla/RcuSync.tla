------------------------------ MODULE RcuSync ------------------------------
(***************************************************************************)
(* rcu_sync (kernel/rcu/sync.c): the state machine with which an updater    *)
(* sends the readers of some data to their slow path and lets them back,    *)
(* and as much of RCU as it uses.  PercpuRwsem composes it with its user.   *)
(*                                                                         *)
(* A section under rss_lock is one step.  RCU itself is external: a grace   *)
(* period is the set of tasks that were in a read-side section when it      *)
(* began and have not left that section, and it is over when none is left.  *)
(***************************************************************************)
EXTENDS Integers

CONSTANTS
  Readers,    \* the tasks that read
  Writers,    \* the tasks that update
  NULL        \* no task, no CPU

Tasks == Readers \cup Writers

ASSUME TasksAssumption ==
  /\ Readers \cap Writers = {}
  /\ NULL \notin Tasks

VARIABLES
  gp_state,   \* rsp->gp_state
  gp_count,   \* rsp->gp_count, the updaters that have entered
  gp_wait,    \* rsp->gp_wait, the updaters queued on it
  cb_queued,  \* how often rsp->cb_head is queued with call_rcu()
  cb_gp,      \* the grace period rsp->cb_head waits for
  sync_gp,    \* the grace period the synchronize_rcu() of each updater awaits
  state       \* current->state of each task

rssvars == <<gp_state, gp_count, gp_wait>>
gpvars == <<cb_gp, sync_gp>>

GP_IDLE == 0
GP_ENTER == 1
GP_PASSED == 2
GP_EXIT == 3
GP_REPLAY == 4

rcu_sync_is_idle == gp_state = GP_IDLE

\* rcu_sync_init(), and rcu_sync_enter_start() when start is true.
RcuInit(start) ==
  /\ gp_state = IF start THEN GP_PASSED ELSE GP_IDLE
  /\ gp_count = IF start THEN 1 ELSE 0
  /\ gp_wait = {}
  /\ cb_queued = 0
  /\ cb_gp = {}
  /\ sync_gp = [w \in Writers |-> {}]
  /\ state = [t \in Tasks |-> "TASK_RUNNING"]

\* The tasks ts leave the read-side sections they were in.
rcu_read_unlock(ts) ==
  /\ cb_gp' = cb_gp \ ts
  /\ sync_gp' = [w \in Writers |-> sync_gp[w] \ ts]

\* wake_up_process() of every task in ts.
wake_up(ts) ==
  state' = [t \in Tasks |-> IF t \in ts THEN "TASK_RUNNING" ELSE state[t]]

\* call_rcu() while the tasks in section read: one more queueing of cb_head
\* beside the others that are queued.
rcu_sync_call(section, others) ==
  /\ cb_queued' = others + 1
  /\ cb_gp' = section

-----------------------------------------------------------------------------
\* Mutant: replays an exit without queueing the callback again.
rcu_sync_func_no_requeue(section, others) ==
  /\ gp_state' = IF gp_count # 0 THEN GP_PASSED
                 ELSE IF gp_state = GP_REPLAY THEN GP_EXIT ELSE GP_IDLE
  /\ gp_wait' = IF gp_count # 0 THEN {} ELSE gp_wait
  /\ wake_up(IF gp_count # 0 THEN gp_wait ELSE {})
  /\ cb_queued' = others
  /\ UNCHANGED <<gp_count, cb_gp>>

\* The section of rcu_sync_func().  others is how often cb_head is queued
\* besides this invocation.
rcu_sync_func(section, others) ==
  \/ /\ gp_count # 0
     /\ gp_state' = GP_PASSED
     /\ gp_wait' = {}
     /\ wake_up(gp_wait)
     /\ cb_queued' = others
     /\ UNCHANGED <<gp_count, cb_gp>>
  \/ /\ gp_count = 0
     /\ gp_state = GP_REPLAY
     /\ gp_state' = GP_EXIT
     /\ rcu_sync_call(section, others)
     /\ UNCHANGED <<gp_count, gp_wait, state>>
  \/ /\ gp_count = 0
     /\ gp_state # GP_REPLAY
     /\ gp_state' = GP_IDLE
     /\ cb_queued' = others
     /\ UNCHANGED <<gp_count, gp_wait, cb_gp, state>>

\* The callback runs when its grace period is over.
rcu_callback(section) ==
  /\ cb_queued > 0
  /\ cb_gp = {}
  /\ rcu_sync_func(section, cb_queued - 1)
  /\ UNCHANGED sync_gp

\* Mutant: counts only the updater that found GP_IDLE.
rcu_sync_enter_counts_first(w, section) ==
  /\ gp_state' = IF rcu_sync_is_idle THEN GP_ENTER ELSE gp_state
  /\ sync_gp' = [sync_gp EXCEPT ![w] = IF rcu_sync_is_idle THEN section ELSE {}]
  /\ gp_count' = IF rcu_sync_is_idle THEN gp_count + 1 ELSE gp_count
  /\ UNCHANGED <<gp_wait, cb_queued, cb_gp, state>>

\* The section of rcu_sync_enter(); the first updater then begins to wait in
\* synchronize_rcu() for the tasks in section.
rcu_sync_enter(w, section) ==
  /\ gp_state' = IF rcu_sync_is_idle THEN GP_ENTER ELSE gp_state
  /\ sync_gp' = [sync_gp EXCEPT ![w] = IF rcu_sync_is_idle THEN section ELSE {}]
  /\ gp_count' = gp_count + 1
  /\ UNCHANGED <<gp_wait, cb_queued, cb_gp, state>>

\* Mutant: does not wait for the readers.
synchronize_rcu_at_once(w, section) ==
  /\ rcu_sync_func(section, cb_queued)
  /\ UNCHANGED sync_gp

\* synchronize_rcu() returns and rcu_sync_func() is called.
synchronize_rcu(w, section) ==
  /\ sync_gp[w] = {}
  /\ rcu_sync_func(section, cb_queued)
  /\ UNCHANGED sync_gp

\* wait_event(rsp->gp_wait, gp_state >= GP_PASSED): the condition, and
\* prepare_to_wait_event(), finish_wait().
gp_passed == gp_state >= GP_PASSED

prepare_to_wait_event(w) ==
  /\ gp_wait' = gp_wait \cup {w}
  /\ state' = [state EXCEPT ![w] = "TASK_UNINTERRUPTIBLE"]
  /\ UNCHANGED <<gp_state, gp_count, cb_queued, gpvars>>

finish_wait(w) ==
  /\ gp_wait' = gp_wait \ {w}
  /\ state' = [state EXCEPT ![w] = "TASK_RUNNING"]
  /\ UNCHANGED <<gp_state, gp_count, cb_queued, gpvars>>

\* Mutant: queues the callback again instead of having it replayed.
rcu_sync_exit_requeues(section) ==
  /\ gp_count' = gp_count - 1
  /\ IF gp_count' = 0 /\ gp_state \in {GP_PASSED, GP_EXIT}
       THEN gp_state' = GP_EXIT /\ rcu_sync_call(section, cb_queued)
       ELSE UNCHANGED <<gp_state, cb_queued, cb_gp>>
  /\ UNCHANGED <<gp_wait, sync_gp, state>>

\* The section of rcu_sync_exit().
rcu_sync_exit(section) ==
  /\ gp_count' = gp_count - 1
  /\ \/ /\ gp_count' = 0 /\ gp_state = GP_PASSED
        /\ gp_state' = GP_EXIT
        /\ rcu_sync_call(section, cb_queued)
     \/ /\ gp_count' = 0 /\ gp_state = GP_EXIT
        /\ gp_state' = GP_REPLAY
        /\ UNCHANGED <<cb_queued, cb_gp>>
     \/ /\ gp_count' # 0 \/ gp_state \notin {GP_PASSED, GP_EXIT}
        /\ UNCHANGED <<gp_state, cb_queued, cb_gp>>
  /\ UNCHANGED <<gp_wait, sync_gp, state>>

\* The section of rcu_sync_dtor().
rcu_sync_dtor ==
  /\ gp_state' = IF gp_state = GP_REPLAY THEN GP_EXIT ELSE gp_state
  /\ UNCHANGED <<gp_count, gp_wait, cb_queued, gpvars, state>>
=============================================================================
