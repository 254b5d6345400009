------------------------------- MODULE Rwsem -------------------------------
(***************************************************************************)
(* rw_semaphore (kernel/locking/rwsem.c), with optimistic spinning.         *)
(*                                                                         *)
(* One action is one access to sem->count, sem->owner or a task's state,    *)
(* together with what only the holder of wait_lock changes.  Taking         *)
(* wait_lock is joined with the access that follows it and dropping it, or  *)
(* osq, with the access before it.  cmpxchg loops are one access.  The      *)
(* fields of count are counted apart, so that a bit set twice or cleared    *)
(* twice shows.  A wake_up_q() step takes a task off the wake_q and wakes   *)
(* it; Mutex has the two apart.                                             *)
(*                                                                         *)
(* Whether a task may go on spinning (owner on a CPU, reschedule due, the   *)
(* nonspinnable bits, the time limits, a changed read owner) is left open,  *)
(* so owner is reduced to the task and RWSEM_READER_OWNED.  The reader      *)
(* count does not overflow.  Memory is sequentially consistent.             *)
(***************************************************************************)
EXTENDS Integers, Sequences, FiniteSets

CONSTANTS
  Readers, Writers,    \* the tasks that lock for reading and for writing
  MODES,               \* the task states they wait in, a subset of Modes;
                       \* TASK_INTERRUPTIBLE is TASK_KILLABLE with more signals
  MAX_READERS_WAKEUP,  \* read locks granted by one rwsem_mark_wake()
  NULL                 \* no task

Tasks == Readers \cup Writers
Modes == {"TASK_UNINTERRUPTIBLE", "TASK_KILLABLE"}

ASSUME RwsemAssumption ==
  /\ MODES \subseteq Modes
  /\ MAX_READERS_WAKEUP \in Nat \ {0}
  /\ NULL \notin Tasks
  /\ IsFiniteSet(Tasks)

VARIABLES
  count,      \* sem->count
  owner,      \* sem->owner
  wait_lock,  \* sem->wait_lock: the task that holds it
  wait_list,  \* sem->wait_list, oldest waiter first
  osq,        \* sem->osq: the spinner that holds it
  pc,         \* where each task is
  mode,       \* the parameter state of the slow paths
  state,      \* current->state
  sig,        \* whether a signal has woken the task
  wstate,     \* wstate of a queued writer, "none" for others
  wake_q,     \* the tasks on the local wake_q of each task
  call        \* the caller of rwsem_mark_wake(): wake_type and where it goes on

lockvars == <<count, owner, osq>>
listvars == <<wait_lock, wait_list, wstate>>
taskvars == <<mode, state, sig>>
wakevars == <<wake_q, call>>
vars == <<lockvars, listvars, taskvars, wakevars, pc>>

Queued == {wait_list[i] : i \in DOMAIN wait_list}
IsWriter(t) == wstate[t] # "none"
rwsem_first_waiter == Head(wait_list)

\* What is left of a list when the tasks in ts are taken out.
Without(list, ts) ==
  LET kept[i \in 0 .. Len(list)] ==
        IF i = 0 THEN <<>>
        ELSE IF list[i] \in ts THEN kept[i - 1] ELSE Append(kept[i - 1], list[i])
  IN  kept[Len(list)]

list_del(t) == Without(wait_list, {t})

-----------------------------------------------------------------------------
(***************************************************************************)
(* The count and the owner.                                                 *)
(***************************************************************************)
UNLOCKED == [writer |-> 0, waiters |-> 0, handoff |-> 0, readers |-> 0]
WriterMask == count.writer # 0
LockMask == count.writer # 0 \/ count.readers # 0
Handoff == count.handoff # 0
ReadFailedMask == WriterMask \/ Handoff \/ count.waiters # 0

add_readers(n) == count' = [count EXCEPT !.readers = @ + n]
set_owner(t, reader) == owner' = [task |-> t, reader |-> reader]

NoCall == [type |-> "none", ret |-> "none"]
Goto(t, l) == pc' = [pc EXCEPT ![t] = l]
Jump(t, from, to) == pc[t] = from /\ Goto(t, to)

\* rwsem_mark_wake() is called, wait_lock is held.
MarkWake(t, type, ret) ==
  /\ call' = [call EXCEPT ![t] = [type |-> type, ret |-> ret]]
  /\ Goto(t, "mark")

raw_spin_lock(t) == wait_lock = NULL /\ wait_lock' = t

set_state(t, s) == state' = [state EXCEPT ![t] = s]

\* A signal may be pending that woke t, or that came while t was running.
signal_pending(t) == sig[t] \/ mode[t] = "TASK_KILLABLE"

\* The lock operation of t ends.
Return(t, l) ==
  /\ Goto(t, l)
  /\ mode' = [mode EXCEPT ![t] = "none"]
  /\ sig' = [sig EXCEPT ![t] = FALSE]

Init ==
  /\ count = UNLOCKED
  /\ owner = [task |-> NULL, reader |-> FALSE]
  /\ wait_lock = NULL
  /\ wait_list = <<>>
  /\ osq = NULL
  /\ pc = [t \in Tasks |-> "idle"]
  /\ mode = [t \in Tasks |-> "none"]
  /\ state = [t \in Tasks |-> "TASK_RUNNING"]
  /\ sig = [t \in Tasks |-> FALSE]
  /\ wstate = [t \in Tasks |-> "none"]
  /\ wake_q = [t \in Tasks |-> {}]
  /\ call = [t \in Tasks |-> NoCall]

-----------------------------------------------------------------------------
(***************************************************************************)
(* rwsem_mark_wake() and wake_up_q().                                       *)
(***************************************************************************)
\* wake_q_add(): a task that is on some wake_q will be woken from there.
wake_q_add(t, ts) ==
  wake_q' = [wake_q EXCEPT ![t] = @ \cup (ts \ UNION {wake_q[u] : u \in Tasks})]

\* The caller goes on: it drops wait_lock and wakes whom it collected.  Only
\* rwsem_down_write_slowpath() keeps the lock if there is nobody to wake.
Marked(t) ==
  IF call[t].ret = "w_try" /\ wake_q'[t] = {}
    THEN /\ Goto(t, "w_try")
         /\ set_state(t, mode[t])
         /\ call' = [call EXCEPT ![t] = NoCall]
         /\ UNCHANGED wait_lock
    ELSE /\ wait_lock' = NULL
         /\ Goto(t, "wake_up_q")
         /\ UNCHANGED <<state, call>>

\* A writer at the head is woken; a reader at the head is granted the first of
\* the read locks, unless the caller holds one already.
mark_first(t) ==
  /\ pc[t] = "mark"
  /\ \/ /\ IsWriter(rwsem_first_waiter)
        /\ wake_q_add(t, IF call[t].type = "RWSEM_WAKE_ANY"
                           THEN {rwsem_first_waiter} ELSE {})
        /\ Marked(t)
        /\ UNCHANGED count
     \/ /\ ~IsWriter(rwsem_first_waiter)
        /\ call[t].type # "RWSEM_WAKE_READ_OWNED"
        /\ add_readers(1)
        /\ Goto(t, IF WriterMask THEN "mark_back" ELSE "mark_owner")
        /\ UNCHANGED <<wakevars, wait_lock, state>>
     \/ /\ ~IsWriter(rwsem_first_waiter)
        /\ call[t].type = "RWSEM_WAKE_READ_OWNED"
        /\ Goto(t, "mark_grant")
        /\ UNCHANGED <<wakevars, wait_lock, state, count>>
  /\ UNCHANGED <<owner, osq, wait_list, wstate, mode, sig>>

\* A writer stole the lock: take the grant back, and ask for a handoff if the
\* reader has waited too long.
mark_back(t, timeout) ==
  /\ pc[t] = "mark_back"
  /\ count' = [count EXCEPT !.readers = @ - 1,
                            !.handoff = IF ~Handoff /\ timeout THEN @ + 1 ELSE @]
  /\ UNCHANGED wake_q
  /\ Marked(t)
  /\ UNCHANGED <<owner, osq, wait_list, wstate, mode, sig>>

mark_owner(t) ==
  /\ Jump(t, "mark_owner", "mark_grant")
  /\ set_owner(rwsem_first_waiter, TRUE)
  /\ UNCHANGED <<count, osq, listvars, taskvars, wakevars>>

ReadWaiters == Without(wait_list, {t \in Tasks : IsWriter(t)})
Woken == {ReadWaiters[i] :
            i \in {j \in DOMAIN ReadWaiters : j <= MAX_READERS_WAKEUP}}
NrWoken == IF Len(ReadWaiters) < MAX_READERS_WAKEUP
             THEN Len(ReadWaiters) ELSE MAX_READERS_WAKEUP

\* Mutant: HANDOFF is subtracted without a look whether it is set.
mark_grant_clears_handoff(t) ==
  LET rest == Without(wait_list, Woken)
      granted == IF call[t].type = "RWSEM_WAKE_READ_OWNED" THEN 0 ELSE 1
  IN  /\ pc[t] = "mark_grant"
      /\ wait_list' = rest
      /\ count' = [count EXCEPT !.readers = @ + NrWoken - granted,
                                !.waiters = IF rest = <<>> THEN @ - 1 ELSE @,
                                !.handoff = @ - 1]
      /\ wake_q_add(t, Woken)
      /\ Marked(t)
      /\ UNCHANGED <<owner, osq, wstate, mode, sig>>

\* Both passes: the readers leave the list, are all counted, HANDOFF is
\* cleared, and waiter->task of each is cleared.
mark_grant(t) ==
  LET rest == Without(wait_list, Woken)
      granted == IF call[t].type = "RWSEM_WAKE_READ_OWNED" THEN 0 ELSE 1
  IN  /\ pc[t] = "mark_grant"
      /\ wait_list' = rest
      /\ count' = [count EXCEPT !.readers = @ + NrWoken - granted,
                                !.waiters = IF rest = <<>> THEN @ - 1 ELSE @,
                                !.handoff = IF Handoff THEN @ - 1 ELSE @]
      /\ wake_q_add(t, Woken)
      /\ Marked(t)
      /\ UNCHANGED <<owner, osq, wstate, mode, sig>>

\* wake_up_q(), and on to the place rwsem_mark_wake()'s caller goes to.  A
\* writer that woke others takes wait_lock again.
wake_up_q(t) ==
  /\ pc[t] = "wake_up_q"
  /\ \/ \E u \in wake_q[t] :
          /\ wake_q' = [wake_q EXCEPT ![t] = @ \ {u}]
          /\ set_state(u, "TASK_RUNNING")
          /\ UNCHANGED <<pc, wait_lock, call>>
     \/ /\ wake_q[t] = {}
        /\ Goto(t, call[t].ret)
        /\ IF call[t].ret = "w_try"
             THEN raw_spin_lock(t) /\ set_state(t, mode[t])
             ELSE UNCHANGED <<wait_lock, state>>
        /\ call' = [call EXCEPT ![t] = NoCall]
        /\ UNCHANGED wake_q
  /\ UNCHANGED <<lockvars, wait_list, wstate, mode, sig>>
-----------------------------------------------------------------------------
(***************************************************************************)
(* down_read(), down_read_trylock() and rwsem_down_read_slowpath().         *)
(***************************************************************************)
down_read(t, m) ==
  /\ pc[t] = "idle"
  /\ add_readers(1)
  /\ mode' = [mode EXCEPT ![t] = IF ReadFailedMask THEN m ELSE @]
  /\ Goto(t, IF ReadFailedMask THEN "r_slow" ELSE "r_owner")
  /\ UNCHANGED <<owner, osq, listvars, state, sig, wakevars>>

down_read_trylock(t) ==
  /\ Jump(t, "idle", "r_owner")
  /\ ~ReadFailedMask
  /\ add_readers(1)
  /\ UNCHANGED <<owner, osq, listvars, taskvars, wakevars>>

\* rwsem_set_reader_owned() of a task that has the lock; a spinner leaves osq.
set_reader_owned(t) ==
  /\ pc[t] = "r_owner"
  /\ set_owner(t, TRUE)
  /\ osq' = IF osq = t THEN NULL ELSE osq
  /\ IF osq = t THEN Goto(t, "r_spun") /\ UNCHANGED <<mode, sig>>
                ELSE Return(t, "read")
  /\ UNCHANGED <<count, listvars, state, wakevars>>

\* Optimistic spinning: undo the read bias and wait for osq.  A task at r_osq
\* may also get no osq and be where it is when spinning ends, at r_phase.
read_undo(t) ==
  /\ Jump(t, "r_slow", "r_osq")
  /\ add_readers(-1)
  /\ UNCHANGED <<owner, osq, listvars, taskvars, wakevars>>

read_osq_lock(t) ==
  /\ Jump(t, "r_osq", "r_spin")
  /\ osq = NULL
  /\ osq' = t
  /\ UNCHANGED <<count, owner, listvars, taskvars, wakevars>>

\* rwsem_reader_phase_trylock(), when spinning is over: readers own the lock.
read_phase(t) ==
  /\ pc[t] \in {"r_osq", "r_phase"}
  /\ owner.reader
  /\ Goto(t, "r_phase_try")
  /\ UNCHANGED <<lockvars, listvars, taskvars, wakevars>>

\* rwsem_try_read_lock_unqueued() in the spin loop, and once more after it.
read_try(t) ==
  /\ pc[t] \in {"r_spin", "r_phase_try"}
  /\ Goto(t, "r_add")
  /\ ~WriterMask /\ ~Handoff
  /\ UNCHANGED <<lockvars, listvars, taskvars, wakevars>>

\* Mutant: HANDOFF is tested before the addition only.
read_add_takes_handoff(t) ==
  /\ Jump(t, "r_add", IF WriterMask THEN "r_back" ELSE "r_owner")
  /\ add_readers(1)
  /\ UNCHANGED <<owner, osq, listvars, taskvars, wakevars>>

read_add(t) ==
  /\ Jump(t, "r_add", IF WriterMask \/ Handoff THEN "r_back" ELSE "r_owner")
  /\ add_readers(1)
  /\ UNCHANGED <<owner, osq, listvars, taskvars, wakevars>>

read_back(t) ==
  /\ Jump(t, "r_back", IF osq = t THEN "r_spin" ELSE "r_queue")
  /\ add_readers(-1)
  /\ UNCHANGED <<owner, osq, listvars, taskvars, wakevars>>

read_stop_spinning(t) ==
  /\ Jump(t, "r_spin", "r_phase")
  /\ osq' = NULL
  /\ UNCHANGED <<count, owner, listvars, taskvars, wakevars>>

\* A spinner that got the lock lets the readers in the queue join it.
read_spun(t) ==
  /\ pc[t] = "r_spun"
  /\ \/ /\ count.waiters = 0
        /\ Return(t, "read")
        /\ UNCHANGED <<wait_lock, call>>
     \/ /\ count.waiters # 0
        /\ Goto(t, "r_spun_lock")
        /\ UNCHANGED <<wait_lock, mode, sig, call>>
  /\ UNCHANGED <<lockvars, wait_list, wstate, state, wake_q>>

read_spun_lock(t) ==
  /\ pc[t] = "r_spun_lock"
  /\ wait_lock = NULL
  /\ mode' = [mode EXCEPT ![t] = "none"]
  /\ sig' = [sig EXCEPT ![t] = FALSE]
  /\ IF wait_list = <<>>
       THEN Goto(t, "read") /\ UNCHANGED <<wait_lock, call>>
       ELSE wait_lock' = t /\ MarkWake(t, "RWSEM_WAKE_READ_OWNED", "read")
  /\ UNCHANGED <<lockvars, wait_list, wstate, state, wake_q>>

\* Queueing.  If nobody waits the read bias may already be the lock.
read_queue_test(t) ==
  /\ pc[t] = "r_slow"
  /\ wait_lock = NULL
  /\ wait_list = <<>>
  /\ IF WriterMask \/ Handoff THEN Goto(t, "r_enqueue") /\ wait_lock' = t
                              ELSE Goto(t, "r_owner") /\ UNCHANGED wait_lock
  /\ UNCHANGED <<lockvars, wait_list, wstate, taskvars, wakevars>>

\* Mutant: only the first waiter wakes.
wake_if_first(c) == c.writer = 0 /\ wait_list = <<>>

\* Whether a reader that joins the list must wake: nobody has the lock, or it
\* is the first waiter and no writer has the lock.
wake(c) == c.writer = 0 /\ (c.readers = 0 \/ wait_list = <<>>)

\* Joins the list and gives up the bias, if it still has it; then wakes the
\* head if the lock is free, or itself if it is the head and readers have it.
read_enqueue(t) ==
  LET biased == pc[t] \in {"r_slow", "r_enqueue"}
      empty == wait_list = <<>>
  IN  /\ \/ pc[t] = "r_enqueue"
         \/ pc[t] = "r_slow" /\ wait_lock = NULL /\ ~empty
         \/ pc[t] \in {"r_osq", "r_phase", "r_phase_try", "r_queue"} /\ wait_lock = NULL
      /\ wait_list' = Append(wait_list, t)
      /\ count' = [count EXCEPT !.readers = IF biased THEN @ - 1 ELSE @,
                                !.waiters = IF empty THEN @ + 1 ELSE @]
      /\ IF wake(count')
           THEN wait_lock' = t /\ MarkWake(t, "RWSEM_WAKE_ANY", "r_wait")
           ELSE wait_lock' = NULL /\ Goto(t, "r_wait") /\ UNCHANGED call
      /\ UNCHANGED <<owner, osq, wstate, taskvars, wake_q>>

\* The wait for waiter.task to be cleared.
read_set_state(t) ==
  /\ Jump(t, "r_wait", "r_check")
  /\ set_state(t, mode[t])
  /\ UNCHANGED <<lockvars, listvars, mode, sig, wakevars>>

read_check(t) ==
  /\ pc[t] = "r_check"
  /\ IF t \in Queued
       THEN /\ \/ signal_pending(t) /\ Goto(t, "r_signal")
               \/ ~sig[t] /\ Goto(t, "r_asleep")
            /\ UNCHANGED taskvars
       ELSE Return(t, "read") /\ set_state(t, "TASK_RUNNING")
  /\ UNCHANGED <<lockvars, listvars, wakevars>>

read_schedule(t) ==
  /\ Jump(t, "r_asleep", "r_wait")
  /\ state[t] = "TASK_RUNNING"
  /\ UNCHANGED <<lockvars, listvars, taskvars, wakevars>>

\* Mutant: the last waiter leaves the flags behind.
read_signal_keeps_flags(t) ==
  /\ pc[t] = "r_signal"
  /\ wait_lock = NULL
  /\ set_state(t, "TASK_RUNNING")
  /\ IF t \in Queued
       THEN /\ wait_list' = list_del(t)
            /\ count' = count
            /\ Return(t, "idle")
       ELSE Return(t, "read") /\ UNCHANGED <<wait_list, count>>
  /\ UNCHANGED <<owner, osq, wait_lock, wstate, wakevars>>

\* A signal: leave the list, unless the lock was granted in the meantime.
read_signal(t) ==
  /\ pc[t] = "r_signal"
  /\ wait_lock = NULL
  /\ set_state(t, "TASK_RUNNING")
  /\ IF t \in Queued
       THEN /\ wait_list' = list_del(t)
            /\ count' = IF wait_list' = <<>>
                          THEN [count EXCEPT !.waiters = 0, !.handoff = 0] ELSE count
            /\ Return(t, "idle")
       ELSE Return(t, "read") /\ UNCHANGED <<wait_list, count>>
  /\ UNCHANGED <<owner, osq, wait_lock, wstate, wakevars>>

-----------------------------------------------------------------------------
(***************************************************************************)
(* down_write(), down_write_trylock() and rwsem_down_write_slowpath().      *)
(***************************************************************************)
down_write_fast(t) ==
  /\ Jump(t, "idle", "w_owner")
  /\ count = UNLOCKED
  /\ count' = [count EXCEPT !.writer = 1]
  /\ UNCHANGED <<owner, osq, listvars, taskvars, wakevars>>

down_write_slow(t, m) ==
  /\ Jump(t, "idle", "w_slow")
  /\ count # UNLOCKED
  /\ mode' = [mode EXCEPT ![t] = m]
  /\ UNCHANGED <<lockvars, listvars, state, sig, wakevars>>

\* rwsem_set_owner() of a task that has the lock; a spinner leaves osq.
set_writer_owned(t) ==
  /\ pc[t] = "w_owner"
  /\ set_owner(t, FALSE)
  /\ osq' = IF osq = t THEN NULL ELSE osq
  /\ Return(t, "write")
  /\ UNCHANGED <<count, listvars, state, wakevars>>

write_osq_lock(t) ==
  /\ Jump(t, "w_slow", "w_spin")
  /\ osq = NULL
  /\ osq' = t
  /\ UNCHANGED <<count, owner, listvars, taskvars, wakevars>>

\* Mutant: only the writer bit is tested.
write_try_unqueued_beside_readers(t) ==
  /\ Jump(t, "w_spin", "w_owner")
  /\ ~WriterMask /\ ~Handoff
  /\ count' = [count EXCEPT !.writer = 1]
  /\ UNCHANGED <<owner, osq, listvars, taskvars, wakevars>>

\* rwsem_try_write_lock_unqueued()
write_try_unqueued(t) ==
  /\ Jump(t, "w_spin", "w_owner")
  /\ ~LockMask /\ ~Handoff
  /\ count' = [count EXCEPT !.writer = 1]
  /\ UNCHANGED <<owner, osq, listvars, taskvars, wakevars>>

write_stop_spinning(t) ==
  /\ Jump(t, "w_spin", "w_queue")
  /\ osq' = NULL
  /\ UNCHANGED <<count, owner, listvars, taskvars, wakevars>>

\* Joins the list.  A writer that is not the first wakes the head if no writer
\* has the lock.
write_enqueue(t) ==
  LET empty == wait_list = <<>>
  IN  /\ pc[t] \in {"w_slow", "w_queue"}
      /\ raw_spin_lock(t)
      /\ wait_list' = Append(wait_list, t)
      /\ wstate' = [wstate EXCEPT ![t] = IF empty THEN "WRITER_FIRST"
                                                  ELSE "WRITER_NOT_FIRST"]
      /\ IF empty \/ WriterMask
           THEN Goto(t, "w_try") /\ set_state(t, mode[t]) /\ UNCHANGED call
           ELSE /\ MarkWake(t, IF count.readers # 0 THEN "RWSEM_WAKE_READERS"
                                                    ELSE "RWSEM_WAKE_ANY", "w_try")
                /\ UNCHANGED state
      /\ count' = [count EXCEPT !.waiters = IF empty THEN 1 ELSE @]
      /\ UNCHANGED <<owner, osq, mode, sig, wake_q>>

\* The inner loop up to schedule(), joined with the access before it: a signal
\* ends the wait, else the writer sleeps.
Block(t) ==
  \/ /\ signal_pending(t)
     /\ Goto(t, "w_signal")
     /\ set_state(t, "TASK_RUNNING")
  \/ /\ ~sig[t]
     /\ Goto(t, "w_asleep")
     /\ UNCHANGED state

\* rwsem_try_write_lock(), with wait_lock held or just taken again.
write_try(t) ==
  /\ \/ pc[t] = "w_try"
     \/ pc[t] = "w_relock" /\ wait_lock = NULL
  /\ LET first == wstate[t] # "WRITER_NOT_FIRST"
         free == ~LockMask /\ (first \/ ~Handoff)
         claim == LockMask /\ wstate[t] = "WRITER_HANDOFF" /\ ~Handoff
     IN  \/ /\ free
            /\ count' = [count EXCEPT
                           !.writer = 1,
                           !.handoff = 0,
                           !.waiters = IF Len(wait_list) = 1 THEN 0 ELSE @]
            /\ Goto(t, "w_locked")
            /\ wait_lock' = t
            /\ UNCHANGED state
         \/ /\ ~free
            /\ count' = [count EXCEPT !.handoff = IF claim THEN 1 ELSE @]
            /\ IF wstate[t] = "WRITER_HANDOFF"
                 THEN Goto(t, "w_spin_owner") /\ UNCHANGED state
                 ELSE Block(t)
            /\ wait_lock' = NULL
  /\ UNCHANGED <<owner, osq, wait_list, wstate, mode, sig, wakevars>>

\* The writer has the lock: it sets owner, leaves the list, drops wait_lock.
write_locked(t) ==
  /\ pc[t] = "w_locked"
  /\ set_owner(t, FALSE)
  /\ set_state(t, "TASK_RUNNING")
  /\ wait_list' = list_del(t)
  /\ wstate' = [wstate EXCEPT ![t] = "none"]
  /\ wait_lock' = NULL
  /\ Return(t, "write")
  /\ UNCHANGED <<count, osq, wakevars>>

\* After it asked for a handoff it tries again while there is no owner.
write_spin_on_owner(t) ==
  /\ pc[t] = "w_spin_owner"
  /\ \/ owner.task = NULL /\ Goto(t, "w_relock") /\ UNCHANGED state
     \/ Block(t)
  /\ UNCHANGED <<lockvars, listvars, mode, sig, wakevars>>

\* The inner loop, from schedule() on.
write_schedule(t) ==
  /\ Jump(t, "w_asleep", CASE wstate[t] = "WRITER_HANDOFF" -> "w_relock"
                           [] wstate[t] = "WRITER_NOT_FIRST" -> "w_first"
                           [] OTHER -> "w_count")
  /\ state[t] = "TASK_RUNNING"
  /\ set_state(t, mode[t])
  /\ UNCHANGED <<lockvars, listvars, mode, sig, wakevars>>

\* The look at the head of the list, without wait_lock.
write_first(t) ==
  /\ Jump(t, "w_first", "w_count")
  /\ wstate' = IF rwsem_first_waiter = t
                 THEN [wstate EXCEPT ![t] = "WRITER_FIRST"] ELSE wstate
  /\ UNCHANGED <<lockvars, wait_lock, wait_list, taskvars, wakevars>>

\* Tries again if the lock looks free, or to set HANDOFF if it has waited too
\* long at the head.
write_count(t, timeout) ==
  LET handoff == LockMask /\ wstate[t] = "WRITER_FIRST" /\ timeout
  IN  /\ pc[t] = "w_count"
      /\ IF ~LockMask \/ handoff THEN Goto(t, "w_relock") /\ UNCHANGED state
                                 ELSE Block(t)
      /\ wstate' = IF handoff THEN [wstate EXCEPT ![t] = "WRITER_HANDOFF"] ELSE wstate
      /\ UNCHANGED <<lockvars, wait_lock, wait_list, mode, sig, wakevars>>

\* out_nolock: gives the handoff back and wakes the next waiter.
write_signal(t) ==
  /\ pc[t] = "w_signal"
  /\ wait_lock = NULL
  /\ wait_list' = list_del(t)
  /\ wstate' = [wstate EXCEPT ![t] = "none"]
  /\ count' = [count EXCEPT
                 !.handoff = IF wstate[t] = "WRITER_HANDOFF" THEN @ - 1 ELSE @,
                 !.waiters = IF wait_list' = <<>> THEN 0 ELSE @]
  /\ mode' = [mode EXCEPT ![t] = "none"]
  /\ sig' = [sig EXCEPT ![t] = FALSE]
  /\ IF wait_list' = <<>>
       THEN Goto(t, "idle") /\ UNCHANGED <<wait_lock, call>>
       ELSE wait_lock' = t /\ MarkWake(t, "RWSEM_WAKE_ANY", "idle")
  /\ UNCHANGED <<owner, osq, state, wake_q>>

-----------------------------------------------------------------------------
(***************************************************************************)
(* up_read(), up_write(), downgrade_write().                                *)
(***************************************************************************)
\* Mutant: HANDOFF is part of the mask that must equal WAITERS.
up_read_unless_handoff(t) ==
  /\ pc[t] = "read"
  /\ add_readers(-1)
  /\ Goto(t, IF count.writer = 0 /\ count.readers = 1 /\ count.waiters # 0 /\ ~Handoff
               THEN "wake" ELSE "idle")
  /\ UNCHANGED <<owner, osq, listvars, taskvars, wakevars>>

up_read(t) ==
  /\ pc[t] = "read"
  /\ add_readers(-1)
  /\ Goto(t, IF count.writer = 0 /\ count.readers = 1 /\ count.waiters # 0
               THEN "wake" ELSE "idle")
  /\ UNCHANGED <<owner, osq, listvars, taskvars, wakevars>>

clear_owner(t) ==
  /\ Jump(t, "write", "up_write")
  /\ set_owner(NULL, FALSE)
  /\ UNCHANGED <<count, osq, listvars, taskvars, wakevars>>

up_write(t) ==
  /\ Jump(t, "up_write", IF count.waiters # 0 THEN "wake" ELSE "idle")
  /\ count' = [count EXCEPT !.writer = @ - 1]
  /\ UNCHANGED <<owner, osq, listvars, taskvars, wakevars>>

\* Mutant: the writer stays in sem->owner.
downgrade_write_keeps_owner(t) ==
  /\ Jump(t, "write", IF count.waiters # 0 THEN "downgrade_wake" ELSE "read")
  /\ count' = [count EXCEPT !.writer = @ - 1, !.readers = @ + 1]
  /\ UNCHANGED <<owner, osq, listvars, taskvars, wakevars>>

downgrade_write(t) ==
  /\ Jump(t, "write", IF count.waiters # 0 THEN "d_owner_wake" ELSE "r_owner")
  /\ count' = [count EXCEPT !.writer = @ - 1, !.readers = @ + 1]
  /\ UNCHANGED <<owner, osq, listvars, taskvars, wakevars>>

downgrade_owner(t) ==
  /\ Jump(t, "d_owner_wake", "downgrade_wake")
  /\ set_owner(t, TRUE)
  /\ UNCHANGED <<count, osq, listvars, taskvars, wakevars>>

\* rwsem_wake() and rwsem_downgrade_wake()
rwsem_wake(t, from, type, ret) ==
  /\ pc[t] = from
  /\ wait_lock = NULL
  /\ IF wait_list = <<>>
       THEN Goto(t, ret) /\ UNCHANGED <<wait_lock, call>>
       ELSE wait_lock' = t /\ MarkWake(t, type, ret)
  /\ UNCHANGED <<lockvars, wait_list, wstate, taskvars, wake_q>>

-----------------------------------------------------------------------------
\* A signal wakes a task whose wait it can end.
signal_wake_up(t) ==
  /\ mode[t] = "TASK_KILLABLE"
  /\ pc[t] \in {"r_asleep", "w_asleep"}
  /\ state[t] # "TASK_RUNNING"
  /\ sig' = [sig EXCEPT ![t] = TRUE]
  /\ set_state(t, "TASK_RUNNING")
  /\ UNCHANGED <<lockvars, listvars, mode, wakevars, pc>>

Start(t) ==
  \/ t \in Readers /\ (down_read_trylock(t) \/ \E m \in MODES : down_read(t, m))
  \/ t \in Writers /\ (down_write_fast(t) \/ \E m \in MODES : down_write_slow(t, m))

mark_wake(t) ==
  \/ mark_first(t) \/ mark_owner(t) \/ mark_grant(t) \/ wake_up_q(t)
  \/ \E timeout \in BOOLEAN : mark_back(t, timeout)

read_step(t) ==
  \/ set_reader_owned(t) \/ read_undo(t) \/ read_osq_lock(t)
  \/ read_phase(t) \/ read_try(t) \/ read_add(t) \/ read_back(t)
  \/ read_stop_spinning(t) \/ read_spun(t) \/ read_spun_lock(t)
  \/ read_queue_test(t) \/ read_enqueue(t)
  \/ read_set_state(t) \/ read_check(t) \/ read_schedule(t) \/ read_signal(t)

write_step(t) ==
  \/ set_writer_owned(t) \/ write_osq_lock(t) \/ write_try_unqueued(t)
  \/ write_stop_spinning(t) \/ write_enqueue(t) \/ write_try(t)
  \/ write_locked(t) \/ write_spin_on_owner(t) \/ write_schedule(t)
  \/ write_first(t) \/ write_signal(t)
  \/ \E timeout \in BOOLEAN : write_count(t, timeout)

unlock_step(t) ==
  \/ up_read(t) \/ clear_owner(t) \/ up_write(t) \/ downgrade_owner(t)
  \/ rwsem_wake(t, "wake", "RWSEM_WAKE_ANY", "idle")
  \/ rwsem_wake(t, "downgrade_wake", "RWSEM_WAKE_READ_OWNED", "read")

Continue(t) == mark_wake(t) \/ read_step(t) \/ write_step(t) \/ unlock_step(t)

Next ==
  \E t \in Tasks :
    Start(t) \/ Continue(t) \/ downgrade_write(t) \/ signal_wake_up(t)

Spec == Init /\ [][Next]_vars

\* A task that can run does run, and a holder unlocks.
Fairness == \A t \in Tasks : WF_vars(Continue(t))

FairSpec == Spec /\ Fairness
-----------------------------------------------------------------------------
(***************************************************************************)
(* Properties.                                                              *)
(***************************************************************************)
ReadPc == {"r_owner", "r_spun", "r_spun_lock", "read", "d_owner_wake", "downgrade_wake"}
WritePc == {"w_owner", "w_locked", "write", "up_write"}
MarkPc == {"mark", "mark_back", "mark_owner", "mark_grant", "wake_up_q"}
WaitPc == {"r_wait", "r_check", "r_asleep", "r_signal"}
OtherPc ==
  {"idle", "r_slow", "r_osq", "r_spin", "r_phase", "r_phase_try", "r_add",
   "r_back", "r_queue", "r_enqueue", "w_slow", "w_spin", "w_queue", "w_try",
   "w_spin_owner", "w_relock", "w_asleep", "w_first", "w_count", "w_signal", "wake"}

\* A queued reader that left the list without a signal has been granted the
\* lock, whether it knows or not.
Granted(t) == t \notin Queued /\ (pc[t] \in WaitPc \/ call[t].ret = "r_wait")

ReadHolders ==
  {t \in Tasks : pc[t] \in ReadPc \/ call[t].ret = "read" \/ Granted(t)}
WriteHolders == {t \in Tasks : pc[t] \in WritePc}
Holders == ReadHolders \cup WriteHolders

\* The read biases of those who do not hold the lock: a reader on its way to
\* the slow path or backing out, and the first grant of rwsem_mark_wake().
Transient ==
  {t \in Tasks :
     \/ pc[t] \in {"r_slow", "r_enqueue", "r_back", "mark_back", "mark_owner"}
     \/ pc[t] = "mark_grant" /\ call[t].type # "RWSEM_WAKE_READ_OWNED"}

\* Every variable stays in its type; no bit of count is set when it is set or
\* cleared when it is clear, so no addition carries into the next field.
TypeOK ==
  /\ count \in [writer : 0..1, waiters : 0..1, handoff : 0..1, readers : Nat]
  /\ owner \in [task : Tasks \cup {NULL}, reader : BOOLEAN]
  /\ wait_lock \in Tasks \cup {NULL}
  /\ wait_list \in Seq(Tasks) /\ Cardinality(Queued) = Len(wait_list)
  /\ osq \in Tasks \cup {NULL}
  /\ pc \in [Tasks -> ReadPc \cup WritePc \cup MarkPc \cup WaitPc \cup OtherPc]
  /\ mode \in [Tasks -> MODES \cup {"none"}]
  /\ state \in [Tasks -> MODES \cup {"TASK_RUNNING"}]
  /\ sig \in [Tasks -> BOOLEAN]
  /\ wstate \in [Tasks -> {"none", "WRITER_NOT_FIRST", "WRITER_FIRST", "WRITER_HANDOFF"}]
  /\ wake_q \in [Tasks -> SUBSET Tasks]
  /\ \A t \in Tasks : call[t] # NoCall <=> pc[t] \in MarkPc

\* sem->count tells the truth although granting, backing out, stealing and
\* giving up change it without a common lock: the reader count is the number
\* of holders plus the biases that will be taken back, the writer bit says
\* that there is a writer, and WAITERS, outside of wait_lock, that somebody
\* is on the list.
CountMatches ==
  /\ count.readers = Cardinality(ReadHolders) + Cardinality(Transient)
  /\ count.writer = Cardinality(WriteHolders)
  /\ wait_lock = NULL => (count.waiters # 0 <=> wait_list # <<>>)

\* The DEBUG_RWSEMS_WARN_ON() of the lock and unlock functions: a writer finds
\* itself in sem->owner, a reader finds RWSEM_READER_OWNED and no writer bit,
\* whoever else set owner late, for another task or for the former lock.
OwnerMatches ==
  \A t \in Tasks :
    /\ pc[t] = "write" => owner = [task |-> t, reader |-> FALSE]
    /\ pc[t] = "read" => owner.reader /\ ~WriterMask

\* rwsem.c, line 1180, where a writer joins the list: "there are no active
\* locks, wake the front queued process(es) as the handoff bit might be set."
\* While tasks wait for a lock that nobody has, one of the tasks inside the
\* lock code is running, and comes to a point where it tries to take the lock
\* or wakes the first waiter.
NoLostWakeup ==
  (wait_list # <<>> /\ ~LockMask) =>
    \E t \in Tasks :
      /\ pc[t] # "idle"
      /\ pc[t] \in {"r_asleep", "w_asleep"} => state[t] = "TASK_RUNNING"

\* HANDOFF reserves the lock: for the writer at the head of the list alone, or
\* for the readers of the list if a reader is at the head.  No fast path, no
\* spinner and no other waiter gets it.
HandoffRespected ==
  [][Handoff => \A t \in Holders' \ Holders :
                  /\ t \in Queued
                  /\ \/ t = rwsem_first_waiter
                     \/ ~IsWriter(t) /\ ~IsWriter(rwsem_first_waiter)]_vars

Contract == INSTANCE RwLockSpec WITH readers <- ReadHolders, writers <- WriteHolders

\* Readers and writers keep to the reader/writer lock contract, across stealing,
\* grants on behalf of sleeping readers, and downgrades.
ImplementsRwLock == Contract!Spec

\* A lock that tasks wait for is held again, or they leave.
FreeIsTaken == wait_list # <<>> ~> (Holders # {} \/ wait_list = <<>>)

\* HANDOFF ends the starvation of the first waiter, whoever else comes.
HandoffHonoured ==
  \A t \in Tasks :
    (Handoff /\ wait_list # <<>> /\ rwsem_first_waiter = t) ~> (t \notin Queued)
=============================================================================
