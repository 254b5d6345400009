# The locks of Linux 5.10: models, checks and proofs

This directory is a verification development of the kernel's core locking
primitives, `src/kernel/locking`. The kernel is far larger than any such
project; locks were chosen because everything else in it relies on them, because
they consist of a few hundred lines of lock-free code each, and because what can
go wrong in them is an interleaving that no test is likely to produce.

The modules are TLA+, checked with TLC on small instances; their safety
properties are also proved with TLAPS, for every size.

## 1. Inventory

| Part | State | Operations | Talks to | Hard because of |
|---|---|---|---|---|
| Queued spinlock, `qspinlock.c` | lock word (tail, pending, locked); 4 MCS nodes and a nesting count per CPU | lock (fast path, pending waiter, MCS queue, fallback without a node), trylock, unlock | used by every `wait_lock` below | single-word protocol shared by three kinds of waiter; interrupts that nest between any two accesses |
| Mutex, `mutex.c` | owner word with WAITERS, HANDOFF, PICKUP; wait list; osq | lock, lock_interruptible, lock_killable, trylock, unlock | spinlock (wait_lock), osq, scheduler (sleep, wake_q), signals | lost wakeups, theft, handoff, cancellation by signals |
| Optimistic spin queue, `osq_lock.c` | tail per lock; one node per CPU for all locks | osq_lock (may give up), osq_unlock | used by mutex and rwsem | neighbours that leave a linked list at the same time without a lock |
| Sleeping and waking, `sched/core.c` | task state, run queue membership, wake_q nodes | schedule, wake_q_add, wake_up_q, wake_up_process | everything that sleeps | wakeup against going to sleep |
| Wound/wait mutex, `mutex.c` | acquire contexts with stamps | ww_mutex_lock, unlock | mutex | deadlock avoidance across many locks |
| rw semaphore, `rwsem.c` | count (writer, WAITERS, HANDOFF, reader count), owner, wait list, osq | read and write lock (killable, interruptible), trylock, unlock, downgrade | spinlock, osq, wake_q, signals | locks granted on behalf of sleepers, read biases that come and go, stealing, handoff, cancellation |
| Semaphore, `semaphore.c` | count, wait list | down, down_timeout, down_interruptible, up | spinlock, scheduler | timeout and signal against a handoff by up |
| Per-CPU rwsem, `percpu-rwsem.c`; `rcu/sync.c` | per-CPU read counts, block flag, wait queue, rcuwait; rcu_sync state, updater count and callback | init, free, read and write lock and unlock, read trylock | RCU grace periods, wait queues | fast readers against a writer that switches modes; counters summed while they change; overlapping enters and exits |
| Queued rwlock, `qrwlock.c` | reader count and writer byte, wait_lock | read and write lock | spinlock | readers in interrupts bypass the queue |
| Completion, `sched/completion.c` | done counter, wait list | wait, complete, complete_all | scheduler | saturation, timeouts |
| Per-CPU reference count, `lib/percpu-refcount.c` | per-CPU and atomic counters, mode bits | get, put, kill, switch | RCU | mode switches against gets and puts |
| RT mutex, PI futex, paravirt spinlock, lockdep | - | - | - | see `components` in PROJECT.json |

What makes them correct: exclusion; each queue served in its order, with the
exceptions the code allows on purpose; no store into a node that is no longer
there; no wakeup lost; no waiter stuck. PROJECT.json lists under `hazards` the
lines at which each of these could break and the properties that would show it.

## 2. Modules

| Module | Content |
|---|---|
| `SpinLockSpec` | the contract of a spinlock: at most one holder |
| `Qspinlock` | the native queued spinlock; implements `SpinLockSpec` |
| `QspinlockProofs` | its theorems |
| `MutexSpec` | the contract of a mutex: one holder, and who may give up |
| `Mutex` | the mutex and the slice of scheduler and signals it uses; implements `MutexSpec` |
| `MutexProofs` | its theorems |
| `OsqSpec` | the contract of the spin queue: FIFO, head holds, others may leave |
| `Osq` | the optimistic spin queue; implements `OsqSpec` |
| `OsqProofs` | its theorems |
| `RwLockSpec` | the contract of a reader/writer lock: writers exclude everybody; downgrade |
| `Rwsem` | the reader/writer semaphore; implements `RwLockSpec` |
| `RwsemProofs` | its theorems |
| `RcuSync` | the state machine of `rcu/sync.c`, and RCU as its user sees it |
| `PercpuRwsem` | the per-CPU rw semaphore over `RcuSync`; implements `RwLockSpec` |
| `PercpuRwsemProofs` | theorems about both |
| `MCQspinlock`, `MCMutex`, `MCOsq`, `MCRwsem`, `MCPercpuRwsem` | instances for TLC |

The parts are composed by contract: `Mutex` and `Rwsem` take `wait_lock` to be a
perfect lock, which `SpinLockSpec` says and `Qspinlock` implements, and the osq to
be a lock whose waiters may give up, which is less than `OsqSpec` promises.
`PercpuRwsem` extends `RcuSync`: the actions of the semaphore contain those of the
state machine, and a reader's stretch with preemption off is the read-side section
that a grace period waits for.

**Granularity.** One action is one access to shared memory. Accesses are joined
where the second cannot be told apart from the first: a read that only decides
whether to try a cmpxchg is joined with the cmpxchg; a cmpxchg loop that retries
on any change is one atomic update; in `Mutex`, taking `wait_lock` is joined with
the access that follows, and dropping it with the one before, and what only the
holder of `wait_lock` changes is joined with its neighbour. `request_handoff`
joins the unlocked look at the list with setting the bit: without ww contexts a
first waiter stays first until it leaves by itself. A local variable goes back to
its initial value after its last use.

**Memory model.** Sequential consistency. Whether the barriers are strong enough
for weakly ordered machines is not a question these models can answer.

### Qspinlock

A context is a pair of CPU and nesting level (task, softirq, hardirq, nmi); it
runs while every higher level of its CPU is idle, and a lock that an interrupt
takes is held with that interrupt masked (`NotMasked`). The variables are the
three fields of the word, the `next` and `locked` fields of the MCS nodes, the
per-CPU `count`, and the locals. `queue` is a history variable that only the
properties read. `FETCH_OR_ATOMIC` chooses between the generic
`queued_fetch_set_pending_acquire()` and the x86 one, which sets the bit first
and reads the word afterwards. `MAX_NODES` is a parameter so that the fallback
without a node is reached. Fields are modelled as for `CONFIG_NR_CPUS` below
2^14, where tail, pending and locked can be written separately. `pv_*` hooks are
no-ops and `virt_spin_lock()` is false, as on bare metal.

### Mutex

The owner word is a record of task and flags. The program counter of a task
follows `mutex_lock()`, `__mutex_lock_common()`, `mutex_optimistic_spin()` and
`__mutex_unlock_slowpath()`. Whether the owner is on a CPU and whether a
reschedule is due may be answered either way at each step. A task state is
`TASK_RUNNING` or the state the task sleeps in; `schedule()` sleeps only if the
state is still set and no signal that it heeds is pending, and wakeups reset it.
An unlocker has a local wake queue with at most one task, and
`wake_q_add()` refuses a task that is on another one. Signals come to waiting
tasks only, since nothing else in the model looks at them.

### Osq

Every CPU has one node for all locks. The unqueue steps A, B and C of the code
are actions of their own, as are the accesses of `osq_wait_next()`, for
unqueueing and for unlocking. `need_resched()` and `vcpu_is_preempted()` may
become true at any time in the wait loop. `queue` is an auxiliary variable: a CPU
joins it with the exchange of the tail and leaves it when the tail is moved back,
when its successor's `prev` is rewritten (step C), or when the lock is passed on.

### Rwsem

The fields of `sem->count` are counted apart, without a carry, so that `TypeOK`
sees a bit that is set twice or cleared twice. `sem->owner` is the task and
RWSEM_READER_OWNED; the nonspinnable bits only influence whether a task goes on
spinning, which may be answered either way at each step, like the clocks, the
state of the owner and the time limits of the handoff (`timeout`). A reader or
writer follows `rwsem_down_read_slowpath()` or `rwsem_down_write_slowpath()`;
`rwsem_mark_wake()` has steps of its own, since only some of what it touches is
protected by `wait_lock`, and `call` remembers its caller. Where a writer tests
for a signal just after another access the two are one action (`Block`). A signal
is pending for whoever waits killable whenever the model chooses, and stays
pending once it has woken a task. A killable task stands for an interruptible one
too. A reader that has stopped spinning looks at the owner in one step
(`read_phase`) and at the count in the next (`read_try`), and a writer that was
woken looks at the head of the list without `wait_lock` in a step of its own
(`write_first`), so the lock may change hands in between. The reader count is
unbounded in the model and does not overflow, so `RWSEM_FLAG_READFAIL` is never
set.

### PercpuRwsem and RcuSync

A section under `rss_lock` is one action, as is the section of
`percpu_rwsem_wait()` for a writer; that of a reader has several accesses and
holds `waiters.lock` from the first to the last. `per_cpu_sum()` reads one CPU per
action. `ctx` says on whose behalf `__percpu_down_read_trylock()` or
`rcuwait_wake_up()` runs: a first attempt, a trylock, a reader in the wait section,
a waker in `percpu_rwsem_wake_function()`, or `percpu_up_read()`. `cpu` is the CPU
of a task with preemption off, and no other task runs there. `read_count` is a
`WIDTH`-bit integer, since arrivals and departures may be counted on different
CPUs for ever and only the modular sum has a meaning. `__wake_up_common()` drops
`waiters.lock` when it has walked past more than WAITQUEUE_WALK_BREAK_CNT (64)
entries and takes it again to go on from its bookmark; `wake_process` may do so
after any entry, and starts again at the head of the queue, where the bookmark
is, since every entry walked past has been removed. A grace period is the set of
tasks that were in a read-side section when it began and have not left it;
`cb_queued` counts how often `cb_head` is queued, so that queueing it twice is an
error one can see. The semaphore may be freed by a writer once it is idle and
initialised again. `rcu_barrier()` waits for a callback that is queued when it is
called ("dtor") and not for one queued later, so that a callback which queues
itself again while the semaphore is freed would be seen. The -ENOMEM return of
`__percpu_init_rwsem()` and the early return of `percpu_free_rwsem()` for a
semaphore without counters change nothing and are no steps; `started` stands for a user that called
`rcu_sync_enter_start()` before the first use and never frees it.

## 3. What TLC checks

| Run | Instance | Distinct states | Shows |
|---|---|---|---|
| `qspinlock` | 3 CPUs, 1 lock, x86 fetch, fairness | 134,047 | `Inv`, exclusion, nobody overtakes the queue, nobody starves |
| `qspinlock_nested` | 2 CPUs, an interrupt on one, 2 locks, generic fetch | 111,862 | MCS nodes are not shared, foreign stores hit the neighbour, `SpinLockSpec` is implemented |
| `qspinlock_no_node` | 2 CPUs, an interrupt on each, one node per CPU | 146,402 | the fallback without a node is safe |
| `mutex` | 3 tasks, killable and not | 308,421 | `Inv`, exclusion, no lost wakeup, flags match the list, handoffs are not stolen, `MutexSpec` is implemented |
| `mutex_live` | 3 tasks, no signals, fairness | 49,672 | a free mutex is taken, a requested handoff arrives |
| `mutex_signal` | 2 tasks, both signals, fairness | 20,161 | a heeded signal ends the wait; nothing else makes a lock fail |
| `osq` | 3 CPUs, 2 locks, fairness | 265,859 | exclusion, stores stay in the queue, `OsqSpec` is implemented, spinners get the lock or get out |
| `percpu_rwsem` | 2 readers, 1 writer, 2 CPUs, 3-bit counters | 471,000 | nobody is left asleep, `RwLockSpec` is implemented |
| `percpu_rwsem_writers` | 1 reader, 2 writers, 2 CPUs, 2-bit counters, with and without `rcu_sync_enter_start()`, fairness | 489,256 | the fast path is closed when it must be and comes back, no WARN_ON of `rcu/sync.c` fires, a writer gets in |
| `rwsem` | a reader, a writer and a task that is both, killable, one read lock per wake-up | 1,237,061 | count and owner tell the truth, HANDOFF reserves the lock, `RwLockSpec` is implemented |
| `rwsem_live` | 2 readers, 1 writer, no signals, fairness | 126,029 | a lock with waiters is held again, HANDOFF lets the first waiter in |
| `rwsem_lost_wakeup` | 1 reader, 2 writers, killable | - | finding: a writer sleeps on a free lock |

**Bounds.** None of the models counts without limit, so the only bounds are the
sizes of the sets. Three CPUs are the least with an owner, a pending waiter and
a queue head, or with a holder and two neighbours that leave an osq together;
two CPUs of which one is interrupted are the least where a node could be used
twice while somebody else is in the queue. Three tasks are the least with an
owner, a first waiter and a thief, or with a waker, a reader it grants the lock
to and a writer that steals it. `MAX_READERS_WAKEUP` is 1 so that a batch of
readers may be cut off; with 256 it never is. Two readers on two 3-bit counters
make the per-CPU counts wrap around while their sum stays right, and three bits
are the least that the proofs assume (`CountersFit`); two writers are
the least that overlap in `rcu_sync_enter()` and `rcu_sync_exit()`, and with one
reader two bits satisfy `CountersFit`. Symmetry is used for the tasks of safety
runs only.

**Type invariants.** Each `TypeOK` has clauses that the assignments alone do not
give: the tail of a queued spinlock, and every copy of it, is 0 or the code of a
node that exists, and no CPU gives back more nodes than it took; no task is on a
mutex wait list twice; the tail of an osq is the code of a CPU; no bit of
`sem->count` is set or cleared twice; `gp_count` does not fall below zero,
`cb_head` is queued at most once, and no task is in the wait queue of the per-CPU
semaphore twice.

**Fairness.** *Qspinlock*: a CPU that nothing interrupts keeps executing and a
holder unlocks; both are weak fairness. *Mutex*: strong fairness of a task's
steps. It differs from weak fairness only where a task waits for `wait_lock`,
which others may take in between; there it says that `wait_lock` does not starve
anyone, which is `StarvationFree` of the queued spinlock. *Osq*: preemption is
off, so weak fairness of each CPU inside the two functions. Unlocking is not
assumed there; `Progress` assumes it explicitly and `CanLeave` does without.
*Rwsem*: weak fairness of each task inside the lock and unlock functions, holders
included: a critical section ends. *PercpuRwsem*: the same, and weak fairness of
the RCU callback, which the grace-period machinery promises once the readers have
left.

**What the liveness properties do not say.** A mutex waiter is not guaranteed to
get the mutex: HANDOFF set on a mutex that is free at that moment is cleared by
whoever takes it next (`mutex.c:135`), and under fairness this can repeat for
ever. `HandoffHonoured` therefore speaks of a HANDOFF set while the mutex is
held. `SignalEndsWait` excepts a task that spins for ever, because
`mutex_optimistic_spin()` tests no signal. In the osq, CPUs that arrive and give
up one after the other can keep `osq_wait_next()` looping, since its two tests
never meet the state that would end the loop; `NoMoreGivingUp` rules that out.
An rwsem waiter is not guaranteed the lock either. `locktypes.rst` says of the
rw_semaphore that "the implementation is fair, thus preventing writer starvation";
spinning readers ignore WAITERS, and a queued writer asks for the handoff only
after a wakeup, which comes when the reader count reaches zero, so readers that
overlap starve it. What is true, and checked, is that a free lock is taken and
that HANDOFF once set is honoured. A per-CPU rwsem writer can be kept out by
readers that repeat `percpu_down_read_trylock()` just when it sums the counters;
`NoMoreTrylocks` rules that out. Without them `WriterGetsIn` says that again and
again no writer is in the rcuwait; the wait ends nowhere but in the critical
section.

**Finding** (`rwsem_lost_wakeup`). A writer can sleep at the head of the wait
list of a free rwsem. HANDOFF was set for a reader at the head; the reader is
killed and leaves the bit set for the writer W1 behind it (`rwsem.c:1109` clears
it only for an empty list). A writer W2 joins the list as WRITER_NOT_FIRST, wakes
the front and drops `wait_lock` for that (`rwsem.c:1198`). W1 is killed as well
and wakes W2, which has not yet set its task state. W2 is first now and the lock
is free, but `wstate` is looked at again only after `schedule()`, so
`rwsem_try_write_lock()` refuses because of HANDOFF (`rwsem.c:573`) and W2 sleeps.
Fast paths fail on HANDOFF and WAITERS, so it is woken only when some other task
enters the slow path. The comment at `rwsem.c:1180` states the intention that
fails here: with no active locks, "wake the front queued process(es) as the
handoff bit might be set". In the trace the three tasks are reused once they have
left, so each may stand for another one.

**A remark on a document.** `mutex-design.rst` says that "only one spinner can
compete for the mutex". Since the first waiter spins too, without the osq
(`mutex.c:1060`), two can, and `Mutex` lets them; the comment in `mutex.c` was
extended for this, the document was not.

**Mutants.** Every property of a passing run is paired in PROJECT.json with a
mutated operation that it catches, written next to the original: a forgotten
undo of the pending bit, a trylock left out before sleeping, a handoff without
PICKUP, a stale `locked` field, a pointer that is not read again, a back-out on
another CPU, a replay that queues no callback, flags left by a killed waiter.

## 4. What is proved

All theorems hold for every value of the constants that satisfies the named
assumptions (`QspinlockAssumption`: fewer than 2^14 CPUs, 1 to 4 nodes, contexts
and lock levels within their ranges, distinct null values; `MutexAssumption`:
modes and signals are the kernel's, NULL is no task; `OsqAssumption`: NULL is no
CPU and no lock; `RwsemAssumption`: as for the mutex,
finitely many tasks, at least one reader per wake-up; `PercpuAssumption` and
`TasksAssumption`: finitely many readers and writers, which are different tasks, at
least one CPU and one bit, distinct null values).

*Spinlock* (`QspinlockProofs`): `InvHolds`, `TypeCorrect`,
`MutualExclusionHolds`, `NodesNotSharedHolds`, `WritesToNeighbourHolds`,
`NoOvertakingHolds` and `Implements` (it implements `SpinLockSpec`).
Exclusion alone is not inductive: that the head of the queue may set the locked
byte depends on nobody else being at the head, which depends on the MCS list, the
encoded tails, the nodes not being shared by nested contexts, and the pending
bit having exactly one setter. `Inv` says these together: `NodeInv` (the nodes of
a CPU are a stack that follows the nesting), `MembersInv` (the queue is who is
past the exchange of the tail, and the tail names its last), `ChainInv` (the MCS
list is that queue), `LocalInv`, `PendingInv` (one setter, who clears it) and
`DecidedInv` (who has decided to take the lock finds it free).

*Mutex* (`MutexProofs`): `InvHolds`, `TypeCorrect`, `MutualExclusionHolds`,
`NoLostWakeupHolds`, `FlagsMatchListHolds`, `NotStolenHolds` and `Implements` (it
implements `MutexSpec`). `NoLostWakeup` needs to know that a waiter which is
about to sleep or to give up while the mutex is free has an unlocker that has yet
to look at the list (`CancelInv`), that a task on some wake queue will be woken
by its owner (`WakeInv`), and that PICKUP names the first waiter, which is not on
its way out (`FlagsMatchList`); these need the owner, list and `wait_lock`
invariants in turn.

*Spin queue* (`OsqProofs`): `InvHolds`, `TypeCorrect`, `MutuallyExclusive`,
`WritesStayInQueue` and `OsqImplemented` (it implements `OsqSpec`). The queue the
CPUs stand in is the auxiliary variable `queue`; the tail names its last CPU
(`Tails`) and its head is the one that was told so (`Heads`), but the linked list
is only a part of it: a link is missing while a new CPU has yet to set it, while
its owner has taken it (`xchg()` in `osq_wait_next()` or `osq_unlock()`), while the
CPU behind has taken it back in step A, and between the two stores of step C.
`Nexts`, `Behind`, `Taken` and `Unlinking` say for each of these cases who stands
on either side and why it stays: of two neighbours, the one before cannot leave
without a next pointer unless it is the last, and the one behind cannot give up
without clearing that pointer first. `node->prev` is not among them: a stale
`prev` makes the `cmpxchg()` of step A fail, which is all that is needed of it.

*rw semaphore* (`RwsemProofs`): `InvHolds`, `TypeCorrect`, `CountAlwaysMatches`,
`OwnerAlwaysMatches`, `HandoffAlwaysRespected` and `RwLockImplemented` (it
implements `RwLockSpec`). `CountMatches` alone is not inductive. That a bit of
`count` is not cleared twice depends on who may look at it under `wait_lock`
(`Locking`), on the list having no task twice and only tasks that wait (`Listed`),
and on WAITERS following the list except while a writer that has just taken the
lock is still on it (`Flags`). That the readers `rwsem_mark_wake()` grants the lock
to are no holders yet, and that no writer comes between its look at the writer bit
and the grant, is `Exclusion`, which counts those about to be granted the lock as
readers; it rests on `ReaderCount`, by which a count of zero means that nobody
reads and no bias is pending. The contract and `HandoffRespected` follow from one
lemma, `HolderMoves`: every step moves the lock in one of five ways, each with
what HANDOFF allows.

*Per-CPU rw semaphore and rcu_sync* (`PercpuRwsemProofs`): `InvHolds`,
`TypeCorrect`, `SlowPathAlwaysForced`, `GpStateAlwaysMatches`, and, assuming
`CountersFit`, `RwLockImplemented` and `NoWakeupLost`. `CountersFit` says that the
number of readers and CPUs together is below 2^WIDTH: the sum of the counters
is not taken atomically and may meet one reader that backs out on each CPU, so
this many can be in it; `read_count` has 32 bits. `SlowPathForced` needs that
a reader which saw GP_IDLE keeps the grace period that began after it from ending
(`FastPath`), and that the updaters are counted in `gp_count` (`Updaters`). That
a freed semaphore ends up in GP_IDLE, as the last WARN_ON of `rcu_sync_dtor()`
asks, needs that no callback queues itself again once freeing has begun (`Life`:
REPLAY was turned into EXIT).
`NoLostWakeup` needs that whoever joins the queue found `block` set under
`waiters.lock`, whose owner has yet to look at the queue (`Wakers`), that a task
taken off the queue is about to be woken (`Granted`), and the same for the rcuwait
and for the wait of `rcu_sync_enter()` (`Rcuwait`, `GpSleepers`). Exclusion is
proved with `Counters`: there are functions on the CPUs, the partial sums of the
holders and of the readers that are passing, of which the counters are the
differences modulo 2^WIDTH, and a writer that has added up the first CPUs has a
sum that those functions explain; a reader that backs out has to do so on the CPU
where it arrived, which preemption being off guarantees.

These three proofs have one lemma per conjunct, with one step per action; those of
the spinlock and the mutex have one lemma per action, and frame lemmas that say
which conjuncts an action cannot disturb.

*Induction over data.* The library's induction theorems cannot be used, since they
take an operator as a parameter. What a recursive function computes is proved by
contradiction instead, from the least index at which the claim fails
(`Least`, `UpTo`); this is enough for `Without`, by which tasks are taken off the
wait list, and for the sums of the per-CPU counters.

*Model-checked only*: every liveness property, because TLAPS does not handle
fairness. `NoLostWakeup` of `Rwsem` is the finding above: it does not hold.

## 5. Not modelled

Weak memory; paravirtual spinlocks; wound/wait contexts; the debug variants
(`CONFIG_DEBUG_MUTEXES`, lockdep, which forces the slow paths); I/O accounting in
`mutex_lock_io()`; kernels without `CONFIG_MUTEX_SPIN_ON_OWNER` or
`CONFIG_RWSEM_SPIN_ON_OWNER` (their behaviours are among the modelled ones, since
spinning may always be refused); `down_read_non_owner()`; an rwsem with so many
readers that the count overflows; how RCU finds out that a grace period is over.
Misuse, such as unlocking a mutex one does not hold, is excluded. The components
that remain are listed in PROJECT.json; those worth modelling next are below.

## 6. Plan

1. Done: spinlock, mutex, osq, rw semaphore, `rcu_sync` and per-CPU rw semaphore,
   with their contracts and the proofs of their safety properties.
2. Semaphore (up() against timeout and signal) and completion, over the sleep and
   wake actions of `Mutex`.
3. Queued rwlock over `SpinLockSpec`.
4. Wound/wait mutexes over `Mutex`: freedom from deadlock.
5. Per-CPU reference counts, with the grace periods of `RcuSync`.
6. Paravirtual spinlock.
