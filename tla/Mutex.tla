------------------------------- MODULE Mutex -------------------------------
(***************************************************************************)
(* The sleeping lock of kernel/locking/mutex.c without a ww context, with   *)
(* the parts of the scheduler it leans on: wake_q_add() and wake_up_q(),    *)
(* schedule() and the wakeup a signal brings.                               *)
(*                                                                         *)
(* One action is one access to lock->owner or to a task's state, together   *)
(* with the accesses to data that only the holder of wait_lock changes.     *)
(* Taking wait_lock is joined with the access that follows it and dropping  *)
(* it with the access before it.  The cmpxchg loops that retry on any       *)
(* change of the word are one atomic access.  wait_lock itself is a perfect *)
(* spinlock: SpinLockSpec says what that means and Qspinlock implements it. *)
(* lock->osq is a lock whose waiters may give up at any time.  Whether the  *)
(* owner is on a CPU and whether a reschedule is due is left open: either   *)
(* answer is possible at every step.  Memory is sequentially consistent.    *)
(***************************************************************************)
EXTENDS Integers, Sequences

CONSTANTS
  Tasks,      \* the tasks that use the mutex
  MODES,      \* the task states they call it with, a subset of Modes
  SIGNALS,    \* the signals sent to tasks that wait
  NULL        \* no task

Modes == {"TASK_UNINTERRUPTIBLE", "TASK_INTERRUPTIBLE", "TASK_KILLABLE"}
Signals == {"none", "signal", "fatal"}

ASSUME MutexAssumption ==
  /\ MODES \subseteq Modes
  /\ SIGNALS \subseteq {"signal", "fatal"}
  /\ NULL \notin Tasks

VARIABLES
  owner,      \* lock->owner: the task and its three flag bits
  wait_lock,  \* lock->wait_lock: the task that holds it
  wait_list,  \* lock->wait_list, oldest waiter first
  osq,        \* lock->osq: the spinner that holds it
  pc,         \* where each task is
  mode,       \* the parameter state of __mutex_lock_common()
  state,      \* current->state
  sig,        \* the strongest signal pending, while the task waits
  first,      \* the local variable first
  seen,       \* the owner a spinner watches
  wake_q,     \* the task on the local wake_q of an unlocker
  wake_node   \* the tasks whose wake_q node is on some wake_q

vars == <<owner, wait_lock, wait_list, osq, pc, mode, state, sig, first,
          seen, wake_q, wake_node>>

\* The program counters, grouped by what the task has.
LockedPc == {"add_waiter", "loop", "signal_check", "acquired", "err"}
HoldingPc == {"osq_unlock", "relock", "acquired", "cs", "unlock_slow",
              "unlock_handoff"}
QueuedPc == {"loop", "signal_check", "schedule", "asleep", "woken",
             "set_state", "retry", "lock_wait", "relock", "acquired", "err"}
SpinPc == {"spin", "spin_on_owner"}
EnterPc == {"trylock", "can_spin", "osq_lock", "fail_unlock", "wait_lock",
            "add_waiter"}
WakerPc == {"unlock_wait", "wake_up_q", "wake_up_process"}
PC == {"idle"} \cup HoldingPc \cup QueuedPc \cup SpinPc \cup EnterPc
        \cup WakerPc

Waiters == {wait_list[i] : i \in 1 .. Len(wait_list)}

\* In the lock operation and not yet the holder.
Waiting(t) == pc[t] \in (QueuedPc \cup SpinPc \cup EnterPc) \ HoldingPc

-----------------------------------------------------------------------------
(***************************************************************************)
(* The owner word.                                                          *)
(***************************************************************************)
Word == [task : Tasks \cup {NULL}, waiters : BOOLEAN, handoff : BOOLEAN,
         pickup : BOOLEAN]
ZERO == [task |-> NULL, waiters |-> FALSE, handoff |-> FALSE, pickup |-> FALSE]

\* __mutex_trylock_or_owner(): free, or handed to us and not yet picked up.
CanTake(t) == owner.task = NULL \/ (owner.task = t /\ owner.pickup)
Taken(t) == [owner EXCEPT !.task = t, !.handoff = FALSE, !.pickup = FALSE]

\* __mutex_waiter_is_first()
IsFirst(t) == wait_list # <<>> /\ Head(wait_list) = t

\* list_del() of the one entry of t.
list_del(list, t) ==
  LET i == CHOOSE i \in 1 .. Len(list) : list[i] = t
  IN  [j \in 1 .. Len(list) - 1 |-> IF j < i THEN list[j] ELSE list[j + 1]]

\* signal_pending_state(): which pending signals end a wait in state m.
signal_pending_state(m, s) ==
  \/ m = "TASK_INTERRUPTIBLE" /\ s # "none"
  \/ m = "TASK_KILLABLE" /\ s = "fatal"

Goto(t, l) == pc' = [pc EXCEPT ![t] = l]

\* current got the mutex in the lock operation: its parameter and the signals
\* that came meanwhile are not looked at again.
Acquire(t) ==
  /\ CanTake(t)
  /\ owner' = Taken(t)
  /\ mode' = [mode EXCEPT ![t] = "none"]
  /\ sig' = [sig EXCEPT ![t] = "none"]

listvars == <<wait_lock, wait_list>>
spinvars == <<osq, seen>>
wakevars == <<wake_q, wake_node>>
callvars == <<mode, sig>>

Init ==
  /\ owner = ZERO
  /\ wait_lock = NULL
  /\ wait_list = <<>>
  /\ osq = NULL
  /\ pc = [t \in Tasks |-> "idle"]
  /\ mode = [t \in Tasks |-> "none"]
  /\ state = [t \in Tasks |-> "TASK_RUNNING"]
  /\ sig = [t \in Tasks |-> "none"]
  /\ first = [t \in Tasks |-> FALSE]
  /\ seen = [t \in Tasks |-> NULL]
  /\ wake_q = [t \in Tasks |-> NULL]
  /\ wake_node = {}

-----------------------------------------------------------------------------
(***************************************************************************)
(* Entering: fast path, trylock, the first attempt of the slow path.        *)
(***************************************************************************)
mutex_lock_fast(t) ==
  /\ pc[t] = "idle"
  /\ owner = ZERO
  /\ owner' = [ZERO EXCEPT !.task = t]
  /\ Goto(t, "cs")
  /\ UNCHANGED <<listvars, spinvars, wakevars, callvars, state, first>>

mutex_lock_slow(t, m) ==
  /\ pc[t] = "idle"
  /\ owner # ZERO
  /\ mode' = [mode EXCEPT ![t] = m]
  /\ Goto(t, "trylock")
  /\ UNCHANGED <<owner, listvars, spinvars, wakevars, sig, state, first>>

mutex_trylock(t) ==
  /\ pc[t] = "idle"
  /\ CanTake(t)
  /\ owner' = Taken(t)
  /\ Goto(t, "cs")
  /\ UNCHANGED <<listvars, spinvars, wakevars, callvars, state, first>>

slowpath_trylock(t) ==
  /\ pc[t] = "trylock"
  /\ \/ Acquire(t) /\ Goto(t, "cs")
     \/ ~CanTake(t) /\ Goto(t, "can_spin") /\ UNCHANGED <<owner, callvars>>
  /\ UNCHANGED <<listvars, spinvars, wakevars, state, first>>

-----------------------------------------------------------------------------
(***************************************************************************)
(* Optimistic spinning.  A task on the wait list spins beside the holder of *)
(* the osq; every other spinner holds the osq.                              *)
(***************************************************************************)
mutex_can_spin_on_owner(t) ==
  /\ pc[t] = "can_spin"
  /\ Goto(t, "osq_lock") \/ Goto(t, "wait_lock")
  /\ UNCHANGED <<owner, listvars, spinvars, wakevars, callvars, state, first>>

osq_lock(t) ==
  /\ pc[t] = "osq_lock"
  /\ \/ osq = NULL /\ osq' = t /\ Goto(t, "spin")
     \/ UNCHANGED osq /\ Goto(t, "wait_lock")      \* need_resched() in the queue
  /\ UNCHANGED <<owner, listvars, seen, wakevars, callvars, state, first>>

spin_trylock(t) ==
  /\ pc[t] = "spin"
  /\ \/ /\ Acquire(t)
        /\ Goto(t, IF t \in Waiters THEN "relock" ELSE "osq_unlock")
        /\ UNCHANGED seen
     \/ /\ ~CanTake(t)
        /\ seen' = [seen EXCEPT ![t] = owner.task]
        /\ Goto(t, "spin_on_owner")
        /\ UNCHANGED <<owner, callvars>>
  /\ UNCHANGED <<listvars, osq, wakevars, state, first>>

owner_changed(t) ==
  /\ pc[t] = "spin_on_owner"
  /\ owner.task # seen[t]
  /\ seen' = [seen EXCEPT ![t] = NULL]
  /\ Goto(t, "spin")
  /\ UNCHANGED <<owner, listvars, osq, wakevars, callvars, state, first>>

\* The owner left its CPU or a reschedule is due; in the latter case current
\* is made TASK_RUNNING and scheduled.
stop_spinning(t) ==
  /\ pc[t] = "spin_on_owner"
  /\ owner.task = seen[t]
  /\ seen' = [seen EXCEPT ![t] = NULL]
  /\ Goto(t, IF t \in Waiters THEN "lock_wait" ELSE "fail_unlock")
  /\ \/ UNCHANGED state
     \/ state' = [state EXCEPT ![t] = "TASK_RUNNING"]
  /\ UNCHANGED <<owner, listvars, osq, wakevars, callvars, first>>

osq_unlock(t) ==
  /\ \/ pc[t] = "osq_unlock" /\ Goto(t, "cs")
     \/ pc[t] = "fail_unlock" /\ Goto(t, "wait_lock")
  /\ osq' = NULL
  /\ UNCHANGED <<owner, listvars, seen, wakevars, callvars, state, first>>

-----------------------------------------------------------------------------
(***************************************************************************)
(* Waiting: __mutex_lock_common() from spin_lock(&lock->wait_lock) on.      *)
(***************************************************************************)
wait_lock_trylock(t) ==
  /\ pc[t] = "wait_lock"
  /\ wait_lock = NULL
  /\ \/ Acquire(t) /\ Goto(t, "cs") /\ UNCHANGED wait_lock
     \/ /\ ~CanTake(t)
        /\ wait_lock' = t
        /\ Goto(t, "add_waiter")
        /\ UNCHANGED <<owner, callvars>>
  /\ UNCHANGED <<wait_list, spinvars, wakevars, state, first>>

\* __mutex_add_waiter() and set_current_state(state).
add_waiter(t) ==
  /\ pc[t] = "add_waiter"
  /\ wait_list' = Append(wait_list, t)
  /\ owner' = [owner EXCEPT !.waiters = @ \/ wait_list = <<>>]
  /\ state' = [state EXCEPT ![t] = mode[t]]
  /\ Goto(t, "loop")
  /\ UNCHANGED <<wait_lock, spinvars, wakevars, callvars, first>>

\* Mutant: sleeps without another attempt after WAITERS is set.
loop_trylock_skipped(t) ==
  /\ pc[t] = "loop"
  /\ Goto(t, "signal_check")
  /\ UNCHANGED <<owner, listvars, spinvars, wakevars, callvars, state, first>>

loop_trylock(t) ==
  /\ pc[t] = "loop"
  /\ \/ Acquire(t) /\ Goto(t, "acquired")
     \/ ~CanTake(t) /\ Goto(t, "signal_check") /\ UNCHANGED <<owner, callvars>>
  /\ UNCHANGED <<listvars, spinvars, wakevars, state, first>>

\* Mutant: any signal ends any wait.
signal_check_any_signal(t) ==
  /\ pc[t] = "signal_check"
  /\ \/ sig[t] # "none" /\ Goto(t, "err") /\ UNCHANGED wait_lock
     \/ sig[t] = "none" /\ Goto(t, "schedule") /\ wait_lock' = NULL
  /\ UNCHANGED <<owner, wait_list, spinvars, wakevars, callvars, state, first>>

\* Mutant: signals are not looked at.
signal_check_forgotten(t) ==
  /\ pc[t] = "signal_check"
  /\ Goto(t, "schedule")
  /\ wait_lock' = NULL
  /\ UNCHANGED <<owner, wait_list, spinvars, wakevars, callvars, state, first>>

signal_check(t) ==
  /\ pc[t] = "signal_check"
  /\ \/ /\ signal_pending_state(mode[t], sig[t])
        /\ Goto(t, "err")
        /\ UNCHANGED wait_lock
     \/ /\ ~signal_pending_state(mode[t], sig[t])
        /\ Goto(t, "schedule")
        /\ wait_lock' = NULL
  /\ UNCHANGED <<owner, wait_list, spinvars, wakevars, callvars, state, first>>

\* schedule() sleeps unless the state is TASK_RUNNING again or a signal ends
\* the wait.
schedule(t) ==
  /\ pc[t] = "schedule"
  /\ \/ /\ state[t] = "TASK_RUNNING" \/ signal_pending_state(state[t], sig[t])
        /\ state' = [state EXCEPT ![t] = "TASK_RUNNING"]
        /\ Goto(t, "woken")
     \/ /\ state[t] # "TASK_RUNNING" /\ ~signal_pending_state(state[t], sig[t])
        /\ Goto(t, "asleep")
        /\ UNCHANGED state
  /\ UNCHANGED <<owner, listvars, spinvars, wakevars, callvars, first>>

schedule_returns(t) ==
  /\ pc[t] = "asleep"
  /\ state[t] = "TASK_RUNNING"
  /\ Goto(t, "woken")
  /\ UNCHANGED <<owner, listvars, spinvars, wakevars, callvars, state, first>>

\* The first waiter asks for the mutex to be handed to it.
request_handoff(t) ==
  /\ pc[t] = "woken"
  /\ first' = [first EXCEPT ![t] = IsFirst(t)]
  /\ owner' = [owner EXCEPT !.handoff = @ \/ IsFirst(t)]
  /\ Goto(t, "set_state")
  /\ UNCHANGED <<listvars, spinvars, wakevars, callvars, state>>

set_current_state(t) ==
  /\ pc[t] = "set_state"
  /\ state' = [state EXCEPT ![t] = mode[t]]
  /\ Goto(t, "retry")
  /\ UNCHANGED <<owner, listvars, spinvars, wakevars, callvars, first>>

retry_trylock(t) ==
  /\ pc[t] = "retry"
  /\ first' = [first EXCEPT ![t] = FALSE]
  /\ \/ Acquire(t) /\ Goto(t, "relock")
     \/ /\ ~CanTake(t)
        /\ Goto(t, IF first[t] THEN "spin" ELSE "lock_wait")
        /\ UNCHANGED <<owner, callvars>>
  /\ UNCHANGED <<listvars, spinvars, wakevars, state>>

lock_wait(t) ==
  /\ pc[t] = "lock_wait"
  /\ wait_lock = NULL
  /\ wait_lock' = t
  /\ Goto(t, "loop")
  /\ UNCHANGED <<owner, wait_list, spinvars, wakevars, callvars, state, first>>

\* Mutant: the last waiter clears WAITERS only.
remove_waiter_keeps_handoff(t) ==
  LET list == list_del(wait_list, t)
  IN  /\ wait_list' = list
      /\ owner' = [owner EXCEPT !.waiters = list # <<>>]

\* __mutex_remove_waiter(): the last waiter takes all the flags with it.
remove_waiter(t) ==
  LET list == list_del(wait_list, t)
  IN  /\ wait_list' = list
      /\ owner' = IF list = <<>> THEN [ZERO EXCEPT !.task = owner.task]
                                 ELSE owner

\* The label acquired, with wait_lock held or to be taken.
acquired(t) ==
  /\ \/ pc[t] = "acquired"
     \/ pc[t] = "relock" /\ wait_lock = NULL
  /\ state' = [state EXCEPT ![t] = "TASK_RUNNING"]
  /\ remove_waiter(t)
  /\ wait_lock' = NULL
  /\ Goto(t, "cs")
  /\ UNCHANGED <<spinvars, wakevars, callvars, first>>

\* Mutant: the waiter stays on the list.
err_keeps_waiter(t) ==
  /\ pc[t] = "err"
  /\ state' = [state EXCEPT ![t] = "TASK_RUNNING"]
  /\ wait_lock' = NULL
  /\ mode' = [mode EXCEPT ![t] = "none"]
  /\ sig' = [sig EXCEPT ![t] = "none"]
  /\ Goto(t, "idle")
  /\ UNCHANGED <<owner, wait_list, spinvars, wakevars, first>>

\* The label err: return -EINTR.
err(t) ==
  /\ pc[t] = "err"
  /\ state' = [state EXCEPT ![t] = "TASK_RUNNING"]
  /\ remove_waiter(t)
  /\ wait_lock' = NULL
  /\ mode' = [mode EXCEPT ![t] = "none"]
  /\ sig' = [sig EXCEPT ![t] = "none"]
  /\ Goto(t, "idle")
  /\ UNCHANGED <<spinvars, wakevars, first>>

-----------------------------------------------------------------------------
(***************************************************************************)
(* Unlocking, and the wakeups.                                              *)
(***************************************************************************)
mutex_unlock_fast(t) ==
  /\ pc[t] = "cs"
  /\ owner = [ZERO EXCEPT !.task = t]
  /\ owner' = ZERO
  /\ Goto(t, "idle")
  /\ UNCHANGED <<listvars, spinvars, wakevars, callvars, state, first>>

mutex_unlock_slow(t) ==
  /\ pc[t] = "cs"
  /\ owner # [ZERO EXCEPT !.task = t]
  /\ Goto(t, "unlock_slow")
  /\ UNCHANGED <<owner, listvars, spinvars, wakevars, callvars, state, first>>

\* Mutant: the owner is cleared before the handoff too.
unlock_owner_before_handoff(t) ==
  /\ pc[t] = "unlock_slow"
  /\ owner' = [owner EXCEPT !.task = NULL]
  /\ Goto(t, IF owner.handoff THEN "unlock_handoff"
             ELSE IF owner.waiters THEN "unlock_wait" ELSE "idle")
  /\ UNCHANGED <<listvars, spinvars, wakevars, callvars, state, first>>

\* Mutant: HANDOFF is not looked at.
unlock_owner_ignores_handoff(t) ==
  /\ pc[t] = "unlock_slow"
  /\ owner' = [owner EXCEPT !.task = NULL]
  /\ Goto(t, IF owner.waiters THEN "unlock_wait" ELSE "idle")
  /\ UNCHANGED <<listvars, spinvars, wakevars, callvars, state, first>>

\* The loop of __mutex_unlock_slowpath(): clear the owner, keep the flags,
\* unless the mutex has to be handed off.
unlock_owner(t) ==
  /\ pc[t] = "unlock_slow"
  /\ \/ owner.handoff /\ UNCHANGED owner /\ Goto(t, "unlock_handoff")
     \/ /\ ~owner.handoff
        /\ owner' = [owner EXCEPT !.task = NULL]
        /\ Goto(t, IF owner.waiters THEN "unlock_wait" ELSE "idle")
  /\ UNCHANGED <<listvars, spinvars, wakevars, callvars, state, first>>

\* Mutant: the wakeup is forgotten.
wake_q_add_lost(t, w) == UNCHANGED wakevars /\ Goto(t, "idle")

\* wake_q_add(): a task that is on some wake_q already is not added.
wake_q_add(t, w) ==
  IF w \in wake_node
    THEN UNCHANGED wakevars /\ Goto(t, "idle")
    ELSE /\ wake_q' = [wake_q EXCEPT ![t] = w]
         /\ wake_node' = wake_node \cup {w}
         /\ Goto(t, "wake_up_q")

\* Mutant: the mutex is given away without PICKUP.
handoff_without_pickup(w) ==
  owner' = [task |-> w, waiters |-> owner.waiters, handoff |-> FALSE,
            pickup |-> FALSE]

\* Mutant: the mutex is freed instead of given to w.
handoff_to_nobody(w) ==
  owner' = [task |-> NULL, waiters |-> owner.waiters, handoff |-> FALSE,
            pickup |-> FALSE]

\* __mutex_handoff()
handoff(w) ==
  owner' = [task |-> w, waiters |-> owner.waiters, handoff |-> FALSE,
            pickup |-> w # NULL]

\* The wait_lock section of __mutex_unlock_slowpath().
unlock_wait(t) ==
  /\ wait_lock = NULL
  /\ LET w == IF wait_list = <<>> THEN NULL ELSE Head(wait_list)
     IN  /\ \/ pc[t] = "unlock_wait" /\ UNCHANGED owner
            \/ pc[t] = "unlock_handoff" /\ handoff(w)
         /\ IF w = NULL THEN UNCHANGED wakevars /\ Goto(t, "idle")
                        ELSE wake_q_add(t, w)
  /\ UNCHANGED <<listvars, spinvars, callvars, state, first>>

\* wake_up_q() takes the task off the queue before it wakes it.
wake_up_q(t) ==
  /\ pc[t] = "wake_up_q"
  /\ wake_node' = wake_node \ {wake_q[t]}
  /\ Goto(t, "wake_up_process")
  /\ UNCHANGED <<owner, listvars, spinvars, wake_q, callvars, state, first>>

wake_up_process(t) ==
  /\ pc[t] = "wake_up_process"
  /\ state' = [state EXCEPT ![wake_q[t]] = "TASK_RUNNING"]
  /\ wake_q' = [wake_q EXCEPT ![t] = NULL]
  /\ Goto(t, "idle")
  /\ UNCHANGED <<owner, listvars, spinvars, wake_node, callvars, first>>

\* signal_wake_up_state(): a signal comes and wakes the task if it ends the
\* wait the task sleeps in.
signal_wake_up(t, s) ==
  /\ Waiting(t)
  /\ sig[t] # "fatal" /\ s # sig[t]
  /\ sig' = [sig EXCEPT ![t] = s]
  /\ state' = IF signal_pending_state(state[t], s)
                THEN [state EXCEPT ![t] = "TASK_RUNNING"] ELSE state
  /\ UNCHANGED <<owner, listvars, spinvars, wakevars, pc, mode, first>>

-----------------------------------------------------------------------------
Spin(t) ==
  \/ mutex_can_spin_on_owner(t) \/ osq_lock(t) \/ spin_trylock(t)
  \/ owner_changed(t) \/ stop_spinning(t) \/ osq_unlock(t)

Wait(t) ==
  \/ wait_lock_trylock(t) \/ add_waiter(t) \/ loop_trylock(t)
  \/ signal_check(t) \/ schedule(t) \/ schedule_returns(t)
  \/ request_handoff(t) \/ set_current_state(t) \/ retry_trylock(t)
  \/ lock_wait(t) \/ acquired(t) \/ err(t)

Unlock(t) ==
  \/ mutex_unlock_fast(t) \/ mutex_unlock_slow(t) \/ unlock_owner(t)
  \/ unlock_wait(t) \/ wake_up_q(t) \/ wake_up_process(t)

\* What a task does once it has called a lock operation.
Continue(t) == slowpath_trylock(t) \/ Spin(t) \/ Wait(t) \/ Unlock(t)

Call(t) ==
  \/ mutex_lock_fast(t) \/ mutex_trylock(t)
  \/ \E m \in MODES : mutex_lock_slow(t, m)

Next ==
  \E t \in Tasks :
    \/ Call(t) \/ Continue(t)
    \/ \E s \in SIGNALS : signal_wake_up(t, s)

Spec == Init /\ [][Next]_vars

\* A task that can run does run, and a holder unlocks.  Strong fairness
\* differs from weak fairness only where a task waits for wait_lock, the one
\* guard that others can make false again; there it says that wait_lock is
\* free of starvation, which StarvationFree of Qspinlock shows.
Fairness == \A t \in Tasks : SF_vars(Continue(t))

FairSpec == Spec /\ Fairness
-----------------------------------------------------------------------------
(***************************************************************************)
(* Properties.                                                              *)
(***************************************************************************)
\* Every variable stays in its type, and the wait list holds no task twice.
TypeOK ==
  /\ owner \in Word
  /\ wait_lock \in Tasks \cup {NULL}
  /\ wait_list \in Seq(Tasks)
  /\ \A i, j \in 1 .. Len(wait_list) : wait_list[i] = wait_list[j] => i = j
  /\ osq \in Tasks \cup {NULL}
  /\ pc \in [Tasks -> PC]
  /\ mode \in [Tasks -> MODES \cup {"none"}]
  /\ state \in [Tasks -> MODES \cup {"TASK_RUNNING"}]
  /\ sig \in [Tasks -> Signals]
  /\ first \in [Tasks -> BOOLEAN]
  /\ seen \in [Tasks -> Tasks \cup {NULL}]
  /\ wake_q \in [Tasks -> Tasks \cup {NULL}]
  /\ wake_node \subseteq Tasks

Holders == {t \in Tasks : pc[t] \in HoldingPc}

\* At most one task is between its acquisition and its release of the mutex,
\* through the fast path, a steal by a spinner and a handoff alike.
MutualExclusion == \A t, u \in Holders : t = u

\* Someone will act on a mutex that is free or handed over and waited for:
\* an unlocker still has to pick the first waiter, or to wake it, or that
\* waiter itself is on its way to another attempt.
WillAct(h) ==
  \/ \E u \in Tasks : pc[u] = "unlock_wait"
  \/ \E u \in Tasks : /\ pc[u] \in {"wake_up_q", "wake_up_process"}
                      /\ wake_q[u] = h
  \/ pc[h] \notin {"signal_check", "err", "schedule", "asleep"}
  \/ state[h] = "TASK_RUNNING"

\* "we must either see it change state back to RUNNING and fall through the
\* next schedule(), or we must see its unlock and acquire" (mutex.c:1054):
\* no wakeup is lost, whatever signals, cancelled waits, thefts and delayed
\* wake_up_q() calls come between.
NoLostWakeup ==
  wait_list # <<>> /\ (owner.task = NULL \/ owner.pickup)
    => WillAct(Head(wait_list))

\* Where a task can be while the mutex has been handed to it.
PickupPc == (QueuedPc \cup SpinPc) \ {"signal_check", "relock", "acquired", "err"}

\* The flags agree with the wait list: WAITERS says whether it is empty,
\* HANDOFF is never left on a mutex nobody waits for, and PICKUP names the
\* first waiter, which cannot be on its way out with -EINTR.
FlagsMatchList ==
  /\ owner.waiters <=> wait_list # <<>>
  /\ owner.handoff => wait_list # <<>>
  /\ owner.pickup => IsFirst(owner.task) /\ pc[owner.task] \in PickupPc

\* Once HANDOFF is set on a held mutex the next owner is the first waiter,
\* and a mutex handed over stays with that waiter until it picks it up: no
\* spinner or trylock steals it.
NotStolen ==
  [][/\ owner.task # NULL /\ owner.handoff /\ owner'.task # owner.task
        => owner'.task = Head(wait_list)
     /\ owner.pickup => owner'.task = owner.task]_vars

\* wait_lock is held exactly in the sections it protects.
WaitLockInv == \A t \in Tasks : wait_lock = t <=> pc[t] \in LockedPc

\* The owner field names the task that holds the mutex, or the one it is
\* handed to.
OwnerInv ==
  /\ \A t \in Tasks : pc[t] \in HoldingPc <=> owner.task = t /\ ~owner.pickup
  /\ owner.pickup => owner.task # NULL

\* A task is on the wait list from add_waiter until it has the mutex or fails.
ListInv ==
  \A t \in Tasks :
    /\ pc[t] \in QueuedPc => t \in Waiters
    /\ t \in Waiters => pc[t] \in QueuedPc \cup SpinPc

\* Of the spinners that are not on the wait list, only one has the osq.
OsqInv ==
  \A t \in Tasks :
    osq = t <=> \/ pc[t] \in {"osq_unlock", "fail_unlock"}
                \/ pc[t] \in SpinPc /\ t \notin Waiters

\* A task on a wake_q is there for an unlocker that will wake it.
WakeInv ==
  /\ \A u \in Tasks :
       wake_q[u] # NULL <=> pc[u] \in {"wake_up_q", "wake_up_process"}
  /\ \A w \in wake_node : \E u \in Tasks : pc[u] = "wake_up_q" /\ wake_q[u] = w

\* A wait is cancelled only while another task still has to look for the
\* first waiter, or holds the mutex and will.
CancelInv ==
  \A t \in Tasks :
    pc[t] \in {"signal_check", "err"} /\ owner.task = NULL
      => \E u \in Tasks : pc[u] = "unlock_wait"

\* The parameter of a lock operation under way, and why one fails.
ModeInv ==
  \A t \in Tasks :
    /\ Waiting(t) => mode[t] \in MODES
    /\ pc[t] = "err" => signal_pending_state(mode[t], sig[t])

\* The inductive invariant behind the safety properties: the protocol's state,
\* the lists and the flags describe one another in every reachable state.
Inv ==
  /\ TypeOK
  /\ WaitLockInv
  /\ OwnerInv
  /\ ListInv
  /\ OsqInv
  /\ FlagsMatchList
  /\ WakeInv
  /\ CancelInv
  /\ ModeInv
  /\ NoLostWakeup

\* The contract of MutexSpec, and what a task at l is doing in its terms.
PhaseOf(l) ==
  IF l \in HoldingPc THEN "holding"
  ELSE IF l \in QueuedPc \cup SpinPc \cup EnterPc THEN "waiting" ELSE "idle"
Phase == [t \in Tasks |-> PhaseOf(pc[t])]

Contract == INSTANCE MutexSpec
              WITH phase <- Phase, Modes <- MODES,
                   Interrupts <- signal_pending_state

\* A task enters its critical section only while nobody else is in it, and
\* a lock operation fails only with a signal pending that its mode heeds.
ImplementsMutex == Contract!Spec

\* A mutex that is free while tasks wait for it is taken again, unless every
\* waiter leaves with -EINTR.
FreeIsTaken ==
  (owner.task = NULL /\ wait_list # <<>>)
    ~> (owner.task # NULL \/ wait_list = <<>>)

\* HANDOFF set on a held mutex ends the starvation of the first waiter: it
\* gets the mutex unless a signal makes it leave.
HandoffHonoured ==
  \A t \in Tasks :
    (owner.task # NULL /\ owner.handoff /\ IsFirst(t))
      ~> (pc[t] \in HoldingPc \/ t \notin Waiters)

\* A signal that the mode heeds ends the wait, with the mutex or without,
\* unless the task spins forever: mutex_optimistic_spin() looks at no signal.
SignalEndsWait ==
  \A t \in Tasks :
    (Waiting(t) /\ signal_pending_state(mode[t], sig[t]))
      ~> (~Waiting(t) \/ [](pc[t] \in SpinPc))
=============================================================================
