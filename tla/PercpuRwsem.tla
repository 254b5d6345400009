---------------------------- MODULE PercpuRwsem ----------------------------
(***************************************************************************)
(* percpu_rw_semaphore (kernel/locking/percpu-rwsem.c and its header): a    *)
(* reader counts itself on the CPU it runs on, a writer adds the counters   *)
(* up.  The writer's side composes RcuSync with a wait queue and a rcuwait. *)
(*                                                                         *)
(* One action is one access to shared memory.  What waiters.lock protects   *)
(* is accessed between taking and dropping it; a section with one access is *)
(* one action.  A task cannot migrate while preemption is off, and no other *)
(* task runs on its CPU then: cpu says which CPU that is.  Such a stretch   *)
(* is a read-side section for RCU.  Memory is sequentially consistent.      *)
(***************************************************************************)
EXTENDS RcuSync, FiniteSets, Sequences, Functions

CONSTANTS
  NR_CPUS,    \* CPUs are numbered from 1
  WIDTH,      \* bits of a read_count
  STARTS      \* whether the user may have called rcu_sync_enter_start()

CPUS == 1 .. NR_CPUS
Mod == 2 ^ WIDTH

ASSUME PercpuAssumption ==
  /\ NR_CPUS \in Nat \ {0}
  /\ WIDTH \in Nat \ {0}
  /\ STARTS \subseteq BOOLEAN
  /\ NULL \notin CPUS
  /\ Mod \in Nat \ {0}
  /\ IsFiniteSet(Tasks)

\* A read_count can tell apart as many readers as there are and one more for
\* every CPU: a writer that adds up the counters may meet on each of them a
\* reader that is about to back out.
CountersFit == Cardinality(Readers) + NR_CPUS < Mod

VARIABLES
  read_count, \* the per-CPU sem->read_count, modulo Mod
  block,      \* sem->block
  waiters,    \* the tasks in sem->waiters, oldest first
  wq_lock,    \* sem->waiters.lock: the task that holds it
  writer,     \* sem->writer.task, the rcuwait
  pc,         \* where each task is
  ctx,        \* who called __percpu_down_read_trylock(), rcuwait_wake_up()
  cpu,        \* the CPU of a task that runs with preemption off
  seen,       \* the task about to be woken
  started,    \* whether rcu_sync_enter_start() was called
  scan        \* per_cpu_sum(): the CPU it reads next and the sum so far

semvars == <<read_count, block, waiters, wq_lock, writer>>
rsp == <<rssvars, cb_queued>>
rcuvars == <<rsp, gpvars, state>>
queue == <<waiters, wq_lock>>
semrest == <<block, waiters, wq_lock, writer>>
locals == <<ctx, cpu, seen, scan>>
vars == <<semvars, rcuvars, pc, locals, started>>

Waiting == Range(waiters)
Section == {t \in Tasks : cpu[t] # NULL}

\* percpu_free_rwsem() is the last operation until the next init.
FreePc == {"dtor", "barrier", "freed"}
InUse == \A w \in Writers : pc[w] \notin FreePc

Goto(t, l) == pc' = [pc EXCEPT ![t] = l]
Jump(t, from, to) == pc[t] = from /\ Goto(t, to)

preempt_disable(t, c) ==
  /\ \A u \in Tasks : cpu[u] # c
  /\ cpu' = [cpu EXCEPT ![t] = c]

preempt_enable(t) ==
  /\ cpu' = [cpu EXCEPT ![t] = NULL]
  /\ rcu_read_unlock({t})

this_cpu_add(c, n) ==
  read_count' = [read_count EXCEPT ![c] = (@ + n) % Mod]

Init ==
  /\ started \in STARTS
  /\ RcuInit(started)
  /\ read_count = [c \in CPUS |-> 0]
  /\ block = 0
  /\ waiters = <<>>
  /\ wq_lock = NULL
  /\ writer = NULL
  /\ pc = [t \in Tasks |-> "idle"]
  /\ ctx = [t \in Tasks |-> "none"]
  /\ cpu = [t \in Tasks |-> NULL]
  /\ seen = [t \in Tasks |-> NULL]
  /\ scan = [w \in Writers |-> [cpu |-> 1, sum |-> 0]]

-----------------------------------------------------------------------------
(***************************************************************************)
(* Readers: percpu_down_read(), percpu_down_read_trylock(),                 *)
(* percpu_up_read().                                                        *)
(***************************************************************************)
down_read(r, c, caller) ==
  /\ Jump(r, "idle", IF rcu_sync_is_idle THEN "fast_inc" ELSE "inc")
  /\ InUse
  /\ preempt_disable(r, c)
  /\ ctx' = [ctx EXCEPT ![r] = caller]
  /\ UNCHANGED <<semvars, rcuvars, seen, scan>>

fast_inc(r) ==
  /\ Jump(r, "fast_inc", "read")
  /\ this_cpu_add(cpu[r], 1)
  /\ preempt_enable(r)
  /\ ctx' = [ctx EXCEPT ![r] = "none"]
  /\ UNCHANGED <<semrest, rsp, state, seen, scan>>

up_read(r, c) ==
  /\ Jump(r, "read", IF rcu_sync_is_idle THEN "fast_dec" ELSE "dec")
  /\ preempt_disable(r, c)
  /\ ctx' = [ctx EXCEPT ![r] = "up"]
  /\ UNCHANGED <<semvars, rcuvars, seen, scan>>

fast_dec(r) ==
  /\ Jump(r, "fast_dec", "idle")
  /\ this_cpu_add(cpu[r], -1)
  /\ preempt_enable(r)
  /\ ctx' = [ctx EXCEPT ![r] = "none"]
  /\ UNCHANGED <<semrest, rsp, state, seen, scan>>

-----------------------------------------------------------------------------
(***************************************************************************)
(* __percpu_down_read_trylock() by a reader at its first attempt ("first",  *)
(* "try"), by a reader under waiters.lock ("wait") or by a waker on behalf  *)
(* of the reader at the head of the queue ("wake"), and rcuwait_wake_up(),  *)
(* which also ends a slow percpu_up_read() ("up").                          *)
(***************************************************************************)
inc(t) ==
  /\ Jump(t, "inc", "block")
  /\ this_cpu_add(cpu[t], 1)
  /\ UNCHANGED <<semrest, rcuvars, locals>>

\* The trylock succeeds.  A waker removes the reader from the queue and
\* clears wq_entry->private.
ReadLocked(t) ==
  /\ UNCHANGED <<read_count, block, writer, rsp, state, scan>>
  /\ \/ /\ ctx[t] = "wake"
        /\ seen' = [seen EXCEPT ![t] = Head(waiters)]
        /\ waiters' = Tail(waiters)
        /\ Goto(t, "wake_process")
        /\ UNCHANGED <<wq_lock, cpu, gpvars>>
     \/ /\ ctx[t] # "wake"
        /\ wq_lock' = IF ctx[t] = "wait" THEN NULL ELSE wq_lock
        /\ preempt_enable(t)
        /\ Goto(t, "read")
        /\ UNCHANGED <<waiters, seen>>
  /\ ctx' = [ctx EXCEPT ![t] = "none"]

test_block(t) ==
  /\ pc[t] = "block"
  /\ \/ block = 0 /\ ReadLocked(t)
     \/ /\ block = 1
        /\ Goto(t, "dec")
        /\ UNCHANGED <<semvars, rcuvars, locals>>

\* Mutant: preemption is enabled too early, so that the back-out may happen on
\* another CPU than the increment.
dec_elsewhere(t) ==
  /\ Jump(t, "dec", "prod")
  /\ \E c \in CPUS : this_cpu_add(c, -1)
  /\ UNCHANGED <<semrest, rcuvars, locals>>

dec(t) ==
  /\ Jump(t, "dec", "prod")
  /\ this_cpu_add(cpu[t], -1)
  /\ UNCHANGED <<semrest, rcuvars, locals>>

\* What the caller does once rcuwait_wake_up() is done: percpu_up_read() and a
\* failed percpu_down_read_trylock() return, percpu_down_read() waits, the
\* waiting reader joins the queue, the waker stops.
Prodded(t) ==
  /\ preempt_enable(t)
  /\ \/ /\ ctx[t] \in {"up", "try"}
        /\ Goto(t, "idle")
        /\ UNCHANGED queue
     \/ /\ ctx[t] = "first"
        /\ Goto(t, "wait_lock")
        /\ UNCHANGED queue
     \/ /\ ctx[t] = "wait"
        /\ waiters' = Append(waiters, t)
        /\ wq_lock' = NULL
        /\ Goto(t, "set_state")
     \/ /\ ctx[t] = "wake"
        /\ wq_lock' = NULL
        /\ Goto(t, "exit")
        /\ UNCHANGED waiters
  /\ ctx' = [ctx EXCEPT ![t] = "none"]
  /\ seen' = [seen EXCEPT ![t] = NULL]
  /\ UNCHANGED <<read_count, block, writer, rsp, scan>>

\* Mutant: wakes the writer only after a critical section.
prod_after_unlock_only(t) ==
  /\ pc[t] = "prod"
  /\ \/ /\ writer = NULL \/ ctx[t] # "up"
        /\ Prodded(t)
        /\ UNCHANGED state
     \/ /\ writer # NULL /\ ctx[t] = "up"
        /\ seen' = [seen EXCEPT ![t] = writer]
        /\ Goto(t, "prod_wake")
        /\ UNCHANGED <<semvars, rcuvars, ctx, cpu, scan>>

\* rcuwait_wake_up() reads the pointer, then wakes the task it read.
prod(t) ==
  /\ pc[t] = "prod"
  /\ \/ /\ writer = NULL
        /\ Prodded(t)
        /\ UNCHANGED state
     \/ /\ writer # NULL
        /\ seen' = [seen EXCEPT ![t] = writer]
        /\ Goto(t, "prod_wake")
        /\ UNCHANGED <<semvars, rcuvars, ctx, cpu, scan>>

prod_wake(t) ==
  /\ pc[t] = "prod_wake"
  /\ wake_up({seen[t]})
  /\ Prodded(t)
-----------------------------------------------------------------------------
(***************************************************************************)
(* percpu_rwsem_wait().                                                     *)
(***************************************************************************)
\* Mutant: a reader joins the queue without the second attempt.
wait_lock_reader_queues(r, c) ==
  /\ pc[r] = "wait_lock"
  /\ wq_lock = NULL
  /\ waiters' = Append(waiters, r)
  /\ Goto(r, "set_state")
  /\ UNCHANGED <<read_count, block, wq_lock, writer, rcuvars, locals>>

wait_lock_reader(r, c) ==
  /\ Jump(r, "wait_lock", "inc")
  /\ wq_lock = NULL
  /\ wq_lock' = r
  /\ preempt_disable(r, c)
  /\ ctx' = [ctx EXCEPT ![r] = "wait"]
  /\ UNCHANGED <<read_count, block, waiters, writer, rcuvars, seen, scan>>

\* The whole section of a writer: it takes block or joins the queue.
wait_lock_writer(w) ==
  /\ pc[w] = "wait_lock"
  /\ wq_lock = NULL
  /\ \/ /\ block = 0
        /\ block' = 1
        /\ Goto(w, "prepare")
        /\ UNCHANGED waiters
     \/ /\ block = 1
        /\ waiters' = Append(waiters, w)
        /\ Goto(w, "set_state")
        /\ UNCHANGED block
  /\ UNCHANGED <<read_count, wq_lock, writer, rcuvars, locals>>

set_state(t) ==
  /\ Jump(t, "set_state", "check")
  /\ state' = [state EXCEPT ![t] = "TASK_UNINTERRUPTIBLE"]
  /\ UNCHANGED <<semvars, rsp, gpvars, locals>>

\* wq_entry->private is NULL once the task is off the queue.
check(t) ==
  /\ pc[t] = "check"
  /\ \/ /\ t \notin Waiting
        /\ state' = [state EXCEPT ![t] = "TASK_RUNNING"]
        /\ Goto(t, IF t \in Readers THEN "read" ELSE "prepare")
     \/ /\ t \in Waiting
        /\ Goto(t, "asleep")
        /\ UNCHANGED state
  /\ UNCHANGED <<semvars, rsp, gpvars, locals>>

\* schedule() returns in one of the three waits.
schedule(t, from, to) ==
  /\ Jump(t, from, to)
  /\ state[t] = "TASK_RUNNING"
  /\ UNCHANGED <<semvars, rcuvars, locals>>

-----------------------------------------------------------------------------
(***************************************************************************)
(* percpu_down_write().                                                     *)
(***************************************************************************)
down_write(w) ==
  /\ Jump(w, "idle", IF rcu_sync_is_idle THEN "sync" ELSE "gp_cond")
  /\ InUse
  /\ rcu_sync_enter(w, Section)
  /\ UNCHANGED <<semvars, locals>>

sync(w) ==
  /\ Jump(w, "sync", "try_block")
  /\ synchronize_rcu(w, Section)
  /\ UNCHANGED <<semvars, locals>>

gp_cond(w) ==
  /\ Jump(w, "gp_cond", IF gp_passed THEN "try_block" ELSE "gp_prepare")
  /\ UNCHANGED <<semvars, rcuvars, locals>>

gp_prepare(w) ==
  /\ Jump(w, "gp_prepare", "gp_check")
  /\ prepare_to_wait_event(w)
  /\ UNCHANGED <<semvars, locals>>

gp_check(w) ==
  /\ pc[w] = "gp_check"
  /\ \/ gp_passed /\ finish_wait(w) /\ Goto(w, "try_block")
     \/ ~gp_passed /\ UNCHANGED rcuvars /\ Goto(w, "gp_asleep")
  /\ UNCHANGED <<semvars, locals>>

\* __percpu_down_write_trylock(): only the xchg decides.
try_block(w) ==
  /\ Jump(w, "try_block", IF block = 0 THEN "prepare" ELSE "wait_lock")
  /\ block' = 1
  /\ UNCHANGED <<read_count, queue, writer, rcuvars, locals>>

prepare_to_rcuwait(w) ==
  /\ Jump(w, "prepare", "rcuwait")
  /\ writer' = w
  /\ UNCHANGED <<read_count, block, queue, rcuvars, locals>>

rcuwait(w) ==
  /\ Jump(w, "rcuwait", "sum")
  /\ state' = [state EXCEPT ![w] = "TASK_UNINTERRUPTIBLE"]
  /\ UNCHANGED <<semvars, rsp, gpvars, locals>>

\* per_cpu_sum(), one CPU at a time, and the test in readers_active_check().
per_cpu_sum(w) ==
  LET total == (scan[w].sum + read_count[scan[w].cpu]) % Mod
      last == scan[w].cpu = NR_CPUS
  IN  /\ Jump(w, "sum", IF ~last THEN "sum"
                        ELSE IF total = 0 THEN "finish" ELSE "rcuwait_asleep")
      /\ scan' = [scan EXCEPT ![w] = [cpu |-> IF last THEN 1 ELSE @.cpu + 1,
                                      sum |-> IF last THEN 0 ELSE total]]
      /\ UNCHANGED <<semvars, rcuvars, ctx, cpu, seen>>

finish_rcuwait(w) ==
  /\ Jump(w, "finish", "write")
  /\ writer' = NULL
  /\ state' = [state EXCEPT ![w] = "TASK_RUNNING"]
  /\ UNCHANGED <<read_count, block, queue, rsp, gpvars, locals>>

-----------------------------------------------------------------------------
(***************************************************************************)
(* percpu_up_write(), with the walk of __wake_up_common() through the       *)
(* queue, and the end of the semaphore's life.                              *)
(***************************************************************************)
up_write(w) ==
  /\ Jump(w, "write", "wake_lock")
  /\ block' = 0
  /\ UNCHANGED <<read_count, queue, writer, rcuvars, locals>>

wake_lock(w, c) ==
  /\ Jump(w, "wake_lock", "wake_next")
  /\ wq_lock = NULL
  /\ wq_lock' = w
  /\ preempt_disable(w, c)
  /\ UNCHANGED <<read_count, block, waiters, writer, rcuvars, ctx, seen, scan>>

\* __wake_up_common_lock() drops waiters.lock.
UnlockWaiters(w, to) ==
  /\ wq_lock' = NULL
  /\ preempt_enable(w)
  /\ Goto(w, to)

\* percpu_rwsem_wake_function() for the first entry that is left.
wake_next(w) ==
  /\ pc[w] = "wake_next"
  /\ \/ /\ waiters = <<>>
        /\ UnlockWaiters(w, "exit")
        /\ UNCHANGED <<block, waiters, ctx, seen>>
     \/ /\ waiters # <<>> /\ Head(waiters) \in Readers
        /\ ctx' = [ctx EXCEPT ![w] = "wake"]
        /\ Goto(w, "inc")
        /\ UNCHANGED <<block, queue, gpvars, cpu, seen>>
     \/ /\ waiters # <<>> /\ Head(waiters) \in Writers /\ block = 0
        /\ block' = 1
        /\ seen' = [seen EXCEPT ![w] = Head(waiters)]
        /\ waiters' = Tail(waiters)
        /\ Goto(w, "wake_process")
        /\ UNCHANGED <<wq_lock, gpvars, ctx, cpu>>
     \/ /\ waiters # <<>> /\ Head(waiters) \in Writers /\ block = 1
        /\ UnlockWaiters(w, "exit")
        /\ UNCHANGED <<block, waiters, ctx, seen>>
  /\ UNCHANGED <<read_count, writer, rsp, state, scan>>

\* Readers are woken until one writer is.  After WAITQUEUE_WALK_BREAK_CNT
\* entries, here after any number of them, __wake_up_common() leaves a bookmark
\* before the next entry, __wake_up_common_lock() drops waiters.lock, and the
\* walk goes on from there.  The bookmark is at the head of the queue, as every
\* entry walked past has been removed, so the walk begins anew.
wake_process(w) ==
  /\ pc[w] = "wake_process"
  /\ wake_up({seen[w]})
  /\ \/ /\ seen[w] \in Readers
        /\ Goto(w, "wake_next")
        /\ UNCHANGED <<wq_lock, gpvars, cpu>>
     \/ /\ seen[w] \in Readers /\ waiters # <<>>
        /\ UnlockWaiters(w, "wake_lock")
     \/ /\ seen[w] \in Writers
        /\ UnlockWaiters(w, "exit")
  /\ seen' = [seen EXCEPT ![w] = NULL]
  /\ UNCHANGED <<read_count, block, waiters, writer, rsp, ctx, scan>>

exit(w) ==
  /\ Jump(w, "exit", "idle")
  /\ rcu_sync_exit(Section)
  /\ UNCHANGED <<semvars, locals>>

\* percpu_free_rwsem(), called when nobody uses the semaphore any more.  (Of a
\* semaphore that was never initialised it returns at once, as it does of one
\* whose initialisation failed.)
free_rwsem(w) ==
  /\ \A t \in Tasks : pc[t] = "idle"
  /\ ~started
  /\ rcu_sync_dtor
  /\ Goto(w, IF rcu_sync_is_idle THEN "freed" ELSE "dtor")
  /\ UNCHANGED <<semvars, locals>>

\* rcu_barrier() awaits the callbacks that are queued when it is called.
rcu_barrier(w) ==
  /\ Jump(w, "dtor", IF cb_queued = 0 THEN "freed" ELSE "barrier")
  /\ UNCHANGED <<semvars, rcuvars, locals>>

\* __percpu_init_rwsem() of the next user of the memory.  (Without memory for
\* the counters it returns -ENOMEM and has changed nothing.)
init_rwsem(w) ==
  /\ Jump(w, "freed", "idle")
  /\ read_count' = [c \in CPUS |-> 0]
  /\ gp_state' = GP_IDLE
  /\ gp_count' = 0
  /\ gp_wait' = {}
  /\ writer' = NULL
  /\ waiters' = <<>>
  /\ block' = 0
  /\ UNCHANGED <<wq_lock, cb_queued, gpvars, state, locals>>

\* The callback, queued again or not, ends the rcu_barrier() that awaits it.
callback ==
  /\ rcu_callback(Section)
  /\ pc' = [t \in Tasks |-> IF pc[t] = "barrier" THEN "freed" ELSE pc[t]]
  /\ UNCHANGED <<semvars, locals>>
-----------------------------------------------------------------------------
\* What a task begins on its own account.
Start ==
  \/ \E r \in Readers, c \in CPUS : down_read(r, c, "first") \/ down_read(r, c, "try")
  \/ \E w \in Writers : down_write(w) \/ free_rwsem(w)

trylock_step(t) == inc(t) \/ test_block(t) \/ dec(t) \/ prod(t) \/ prod_wake(t)

wait_step(t) ==
  \/ set_state(t) \/ check(t) \/ schedule(t, "asleep", "set_state")

reader_step(r) ==
  \/ fast_inc(r) \/ fast_dec(r)
  \/ \E c \in CPUS : up_read(r, c) \/ wait_lock_reader(r, c)

writer_step(w) ==
  \/ sync(w) \/ gp_cond(w) \/ gp_prepare(w) \/ gp_check(w)
  \/ schedule(w, "gp_asleep", "gp_prepare")
  \/ try_block(w) \/ wait_lock_writer(w)
  \/ prepare_to_rcuwait(w) \/ rcuwait(w) \/ per_cpu_sum(w) \/ finish_rcuwait(w)
  \/ schedule(w, "rcuwait_asleep", "rcuwait")
  \/ up_write(w) \/ wake_next(w) \/ wake_process(w) \/ exit(w)
  \/ \E c \in CPUS : wake_lock(w, c)
  \/ rcu_barrier(w) \/ init_rwsem(w)

Continue(t) ==
  \/ trylock_step(t) \/ wait_step(t)
  \/ t \in Readers /\ reader_step(t)
  \/ t \in Writers /\ writer_step(t)

Next ==
  /\ Start \/ callback \/ \E t \in Tasks : Continue(t)
  /\ UNCHANGED started

Spec == Init /\ [][Next]_vars

\* Every task that can run does, critical sections end, and RCU invokes the
\* callback after its grace period.
Fairness ==
  /\ WF_vars(callback /\ UNCHANGED started)
  /\ \A t \in Tasks : WF_vars(Continue(t) /\ UNCHANGED started)

FairSpec == Spec /\ Fairness
-----------------------------------------------------------------------------
(***************************************************************************)
(* Properties.                                                              *)
(***************************************************************************)
ReadPc == {"read", "fast_dec"}
RcuwaitPc == {"prepare", "rcuwait", "sum", "rcuwait_asleep", "finish"}
EnteredPc == RcuwaitPc \cup
  {"try_block", "wait_lock", "set_state", "check", "asleep", "write",
   "wake_lock", "wake_next", "inc", "block", "dec", "prod", "prod_wake",
   "wake_process", "exit"}
EnterPc == {"sync", "gp_cond", "gp_prepare", "gp_check", "gp_asleep"}
PC == {"idle", "fast_inc"} \cup ReadPc \cup EnterPc \cup EnteredPc \cup FreePc

Entered == {w \in Writers : pc[w] \in EnterPc \cup EnteredPc}

\* Every variable keeps its type: rcu_sync_exit() never takes gp_count below
\* zero, cb_head is queued at most once, and no task joins the wait queue a
\* second time, although its entry is removed by another task.
TypeOK ==
  /\ gp_state \in GP_IDLE .. GP_REPLAY
  /\ gp_count \in Nat
  /\ gp_wait \subseteq Writers
  /\ cb_queued \in {0, 1}
  /\ cb_gp \subseteq Tasks
  /\ sync_gp \in [Writers -> SUBSET Tasks]
  /\ state \in [Tasks -> {"TASK_RUNNING", "TASK_UNINTERRUPTIBLE"}]
  /\ read_count \in [CPUS -> 0 .. Mod - 1]
  /\ block \in {0, 1}
  /\ waiters \in Seq(Tasks)
  /\ \A i, j \in 1 .. Len(waiters) : waiters[i] = waiters[j] => i = j
  /\ wq_lock \in Tasks \cup {NULL}
  /\ writer \in Writers \cup {NULL}
  /\ pc \in [Tasks -> PC]
  /\ ctx \in [Tasks -> {"none", "first", "try", "wait", "wake", "up"}]
  /\ cpu \in [Tasks -> CPUS \cup {NULL}]
  /\ seen \in [Tasks -> Tasks \cup {NULL}]
  /\ started \in BOOLEAN
  /\ scan \in [Writers -> [cpu : CPUS, sum : 0 .. Mod - 1]]

\* "After this function returns, all subsequent calls to rcu_sync_is_idle()
\* will return false" (rcu/sync.c:111): from the return of rcu_sync_enter() to
\* the matching rcu_sync_exit() no reader is on a fast path, not even one that
\* tested gp_state long before.
SlowPathForced ==
  (\E w \in Writers : pc[w] \in EnteredPc) =>
    /\ gp_state >= GP_PASSED
    /\ \A r \in Readers : pc[r] \notin {"fast_inc", "fast_dec"}

\* None of the WARN_ON_ONCE() of rcu/sync.c can fire, and cb_head is never
\* queued twice or still queued when the semaphore is freed: the callback is
\* under way exactly in GP_EXIT and GP_REPLAY, gp_count counts the updaters,
\* and only the one that found GP_IDLE waits in GP_ENTER.
GpStateMatches ==
  /\ cb_queued = IF gp_state \in {GP_EXIT, GP_REPLAY} THEN 1 ELSE 0
  /\ gp_count = Cardinality(Entered) + (IF started THEN 1 ELSE 0)
  /\ gp_state = GP_IDLE => gp_count = 0
  /\ \A w \in Writers : pc[w] = "sync" => gp_state = GP_ENTER
  /\ \A v, w \in Writers : pc[v] = "sync" /\ pc[w] = "sync" => v = w
  /\ gp_state = GP_ENTER => \E w \in Writers : pc[w] = "sync"
  /\ \A w \in Writers : pc[w] = "freed" => rcu_sync_is_idle

\* The modular sum of read_count.
ActiveReaders ==
  LET sum[c \in 0 .. NR_CPUS] ==
        IF c = 0 THEN 0 ELSE (sum[c - 1] + read_count[c]) % Mod
  IN  sum[NR_CPUS]

Asleep(t, l) == pc[t] = l /\ state[t] # "TASK_RUNNING"

\* A waker that will still look at the head of the queue.
WillWake(w) ==
  \/ pc[w] \in {"wake_lock", "wake_next"}
  \/ pc[w] \in {"inc", "block"} /\ ctx[w] = "wake"
  \/ pc[w] = "wake_process" /\ seen[w] \in Readers

\* Nobody sleeps for good: while block is clear some waker is on its way to
\* the queue, a task taken off the queue is about to be woken, the writer is
\* prodded when the last reader is gone, even if that reader only backed out,
\* and nobody awaits a grace period that has passed.
NoLostWakeup ==
  /\ waiters # <<>> /\ block = 0 => \E w \in Writers : WillWake(w)
  /\ \A t \in Tasks :
       Asleep(t, "asleep") /\ t \notin Waiting =>
         \E w \in Writers : pc[w] = "wake_process" /\ seen[w] = t
  /\ \A w \in Writers :
       Asleep(w, "rcuwait_asleep") /\ ActiveReaders = 0 =>
         \E t \in Tasks : pc[t] = "prod" \/ (pc[t] = "prod_wake" /\ seen[t] = w)
  /\ \A w \in Writers : Asleep(w, "gp_asleep") => ~gp_passed

\* The contract of RwLockSpec.
HoldsRead(r) == pc[r] \in ReadPc \/ (pc[r] = "dec" /\ ctx[r] = "up")

Contract == INSTANCE RwLockSpec WITH
  readers <- {r \in Readers : HoldsRead(r)},
  writers <- {w \in Writers : pc[w] = "write"}

\* Readers on the fast path, readers on the slow path and readers let in by a
\* waker never meet a writer, although the writer reads the counters of the
\* CPUs one after the other.
ImplementsRwLock == Contract!Spec

\* From some time on, nobody is in percpu_down_read_trylock().
NoMoreTrylocks == <>[](\A r \in Readers : ctx[r] # "try")

\* A writer that has set block gets in once the readers have left: no prod is
\* lost, and new readers queue up behind it.  Only readers that retry a
\* trylock again and again could keep the sum from being zero when it is read.
\* (The wait ends nowhere but in the critical section.)
WriterGetsIn ==
  NoMoreTrylocks => []<>(\A w \in Writers : pc[w] \notin RcuwaitPc)

\* "Once this completes (at least one RCU-sched grace period hence) the reader
\* fast path will be available again" (percpu-rwsem.c:264): when the writers
\* stay away, rcu_sync gets back to GP_IDLE, whatever state they left it in.
FastPathRestored ==
  ~started /\ <>[](\A w \in Writers : pc[w] = "idle") => <>[]rcu_sync_is_idle
=============================================================================
