------------------------- MODULE PercpuRwsemProofs -------------------------
(***************************************************************************)
(* Proofs about PercpuRwsem, for every number of readers, writers and CPUs. *)
(*                                                                         *)
(* The inductive invariant is a conjunction of named parts.  There is one   *)
(* lemma for each part, which says that every step preserves it, with one   *)
(* step for each action, and which assumes only the parts it needs.  The    *)
(* hard part is Counters, which says what the counters and the sum that a   *)
(* writer is taking have to do with the readers.                            *)
(***************************************************************************)
EXTENDS PercpuRwsem, FiniteSetTheorems, WellFoundedInduction, TLAPS

-----------------------------------------------------------------------------
(***************************************************************************)
(* The inductive invariant.                                                 *)
(***************************************************************************)
CTX == {"none", "first", "try", "wait", "wake", "up"}
FastPc == {"fast_inc", "fast_dec"}
TryPc == {"inc", "block", "dec", "prod", "prod_wake"}
WaitPc == {"set_state", "check", "asleep"}
WakePc == {"wake_next", "wake_process"}
ReaderPc == {"idle", "read", "wait_lock"} \cup FastPc \cup TryPc \cup WaitPc
WriterPc == {"idle"} \cup EnterPc \cup EnteredPc \cup FreePc

\* TypeOK: the tasks, rcu_sync, and the semaphore.
TypeTask ==
  /\ pc \in [Tasks -> PC]
  /\ ctx \in [Tasks -> {"none", "first", "try", "wait", "wake", "up"}]
  /\ cpu \in [Tasks -> CPUS \cup {NULL}]
  /\ seen \in [Tasks -> Tasks \cup {NULL}]
  /\ state \in [Tasks -> {"TASK_RUNNING", "TASK_UNINTERRUPTIBLE"}]

TypeRcu ==
  /\ gp_state \in GP_IDLE .. GP_REPLAY
  /\ gp_count \in Nat
  /\ gp_wait \subseteq Writers
  /\ cb_queued \in Nat
  /\ cb_gp \subseteq Tasks
  /\ sync_gp \in [Writers -> SUBSET Tasks]

TypeSem ==
  /\ read_count \in [CPUS -> 0 .. Mod - 1]
  /\ block \in {0, 1}
  /\ waiters \in Seq(Tasks)
  /\ wq_lock \in Tasks \cup {NULL}
  /\ writer \in Writers \cup {NULL}
  /\ started \in BOOLEAN
  /\ scan \in [Writers -> [cpu : CPUS, sum : 0 .. Mod - 1]]

\* Who can be where, and on whose behalf.
Kinds ==
  /\ \A r \in Readers :
       /\ pc[r] \in ReaderPc
       /\ pc[r] \in {"inc", "block"} => ctx[r] \in {"first", "try", "wait"}
       /\ pc[r] \in {"dec", "prod", "prod_wake"} =>
            ctx[r] \in {"first", "try", "wait", "up"}
  /\ \A w \in Writers :
       /\ pc[w] \in WriterPc
       /\ pc[w] \in TryPc => ctx[w] = "wake"

\* Preemption is off exactly in the fast paths, in the trylock and its back-out
\* and under waiters.lock, and a CPU runs one such task.
Preemption ==
  /\ \A t \in Tasks : cpu[t] # NULL <=> pc[t] \in FastPc \cup TryPc \cup WakePc
  /\ \A t, u \in Tasks : cpu[t] = cpu[u] /\ cpu[t] # NULL => t = u

\* The task is between taking and dropping waiters.lock.
UnderLock(t) ==
  \/ pc[t] \in WakePc
  \/ pc[t] \in TryPc /\ ctx[t] \in {"wait", "wake"}

QueueLock == \A t \in Tasks : wq_lock = t <=> UnderLock(t)

\* No task is in the queue twice.
Distinct == \A i, j \in 1 .. Len(waiters) : waiters[i] = waiters[j] => i = j

\* The queue holds tasks that wait, and the reader a waker acts for is its head.
Queue ==
  /\ Distinct
  /\ \A t \in Waiting : pc[t] \in WaitPc
  /\ \A w \in Writers :
       pc[w] \in {"inc", "block"} => waiters # <<>> /\ Head(waiters) \in Readers

\* The writer has set block, or the waker that took it off the queue has.
Owns(w) ==
  \/ pc[w] \in RcuwaitPc \cup {"write"}
  \/ pc[w] \in WaitPc /\ w \notin Waiting

\* block is set while a writer owns the semaphore, and at most one does.
Ownership ==
  /\ \A w \in Writers : Owns(w) => block = 1
  /\ \A v, w \in Writers : Owns(v) /\ Owns(w) => v = w

\* percpu_free_rwsem() is called when nobody uses the semaphore, and the
\* callback it awaits is not replayed.
Life ==
  \A w \in Writers :
    pc[w] \in FreePc =>
      /\ ~started /\ gp_state # GP_REPLAY
      /\ \A t \in Tasks \ {w} : pc[t] = "idle"

\* GpStateMatches, and in GP_PASSED somebody has entered.
Updaters ==
  /\ GpStateMatches
  /\ gp_state = GP_PASSED => gp_count # 0

\* While a reader is on a fast path no writer has entered, and the one that is
\* entering waits for that reader.
FastPath ==
  /\ \A w \in Writers : pc[w] \in EnteredPc => gp_state >= GP_PASSED
  /\ \A r \in Readers : pc[r] \in FastPc =>
       /\ gp_state \in {GP_IDLE, GP_ENTER}
       /\ \A w \in Writers : pc[w] = "sync" => r \in sync_gp[w]

\* The queue is not empty, or a reader that holds waiters.lock will join it.
NeedsWaker ==
  \/ waiters # <<>>
  \/ \E r \in Readers : pc[r] \in {"dec", "prod", "prod_wake"}
       /\ ctx[r] = "wait"

\* The parts of NoLostWakeup that are about the queue and rcu_sync_enter().
Wakers == block = 0 /\ NeedsWaker => \E w \in Writers : WillWake(w)

Granted ==
  \A t \in Tasks :
    Asleep(t, "asleep") /\ t \notin Waiting =>
      \E w \in Writers : pc[w] = "wake_process" /\ seen[w] = t

GpSleepers ==
  \A w \in Writers :
    /\ pc[w] \in {"gp_check", "gp_asleep"} /\ ~gp_passed => w \in gp_wait
    /\ Asleep(w, "gp_asleep") => ~gp_passed

\* The rcuwait is that of the writer that waits, and the sum starts from zero.
Rcuwait ==
  \A w \in Writers :
    /\ pc[w] \in RcuwaitPc \ {"prepare"} => writer = w
    /\ pc[w] # "sum" => scan[w] = [cpu |-> 1, sum |-> 0]

\* The reader is one of those a writer has to wait for: it holds the semaphore,
\* or a waker took it for it.
Holder(r) == HoldsRead(r) \/ (pc[r] \in WaitPc /\ r \notin Waiting)
Holders == {r \in Readers : Holder(r)}

\* The task has incremented a counter but holds nothing for it: it is in the
\* trylock, or backing out.
Passes(t) == pc[t] = "block" \/ (pc[t] = "dec" /\ ctx[t] # "up")
Passing(c) == IF \E t \in Tasks : cpu[t] = c /\ Passes(t) THEN 1 ELSE 0

\* The writer sleeps, or will sleep, and nobody is about to wake it.
Unprodded(w) ==
  /\ state[w] # "TASK_RUNNING"
  /\ \A t \in Tasks : pc[t] # "prod" /\ ~(pc[t] = "prod_wake" /\ seen[t] = w)

\* g and e are partial sums over the CPUs 1 .. c.  g distributes the holders over
\* the CPUs: a CPU where more left than came has a negative share.  e counts the
\* tasks that are passing.
Counted(g, e) ==
  /\ g[0] = 0 /\ e[0] = 0
  /\ g[NR_CPUS] = Cardinality(Holders)
  /\ \A c \in CPUS :
       /\ read_count[c] = (g[c] - g[c - 1] + Passing(c)) % Mod
       /\ e[c] = e[c - 1] + Passing(c)

\* A writer that has added up the CPUs below scan[w].cpu has the holders of these
\* CPUs and d more: those that were passing when it read their counter, and
\* those that have left since.  d is too small for the sum to wrap around, and
\* an unprodded writer has seen only tasks that are still passing: those that
\* were counted and are gone prod the writer on their way out.
Scanned(w, g, e) ==
  /\ pc[w] = "sum" =>
      \E d \in Nat :
        /\ scan[w].sum = (g[scan[w].cpu - 1] + d) % Mod
        /\ g[NR_CPUS] + d <= Cardinality(Readers) + scan[w].cpu - 1
        /\ Unprodded(w) => d <= e[scan[w].cpu - 1]
  /\ pc[w] = "rcuwait_asleep" /\ Unprodded(w) => g[NR_CPUS] + e[NR_CPUS] > 0
  /\ pc[w] \in {"finish", "write"} => Holders = {}

\* Such partial sums exist.
Counters ==
  \E g, e \in [0 .. NR_CPUS -> Int] :
    Counted(g, e) /\ \A w \in Writers : Scanned(w, g, e)

-----------------------------------------------------------------------------
(***************************************************************************)
(* Arithmetic of counters that wrap around.                                 *)
(***************************************************************************)

\* Two residues that differ by a multiple of M are equal.
LEMMA ModUnique ==
  ASSUME NEW M \in Nat \ {0}, NEW q \in Int,
         NEW r \in 0 .. M - 1, NEW s \in 0 .. M - 1, M * q = r - s
  PROVE  r = s
<1>1. q >= 1 => M * q >= M
  OBVIOUS
<1>2. q <= -1 => M * q <= -M
  OBVIOUS
<1>3. M * 0 = 0
  OBVIOUS
<1>4. -M < r - s /\ r - s < M
  OBVIOUS
<1>5. q = 0
  BY <1>1, <1>2, <1>4
<1> QED BY <1>5, <1>3

\* What % and \div compute.
LEMMA ModRange ==
  ASSUME NEW M \in Nat \ {0}, NEW a \in Int
  PROVE  /\ a % M \in 0 .. M - 1
         /\ a \div M \in Int
         /\ a = M * (a \div M) + (a % M)
OBVIOUS

\* An addition may be reduced before it is continued, as the counters are.
LEMMA ModAdd ==
  ASSUME NEW M \in Nat \ {0}, NEW a \in Int, NEW b \in Int
  PROVE  ((a % M) + b) % M = (a + b) % M
<1> DEFINE q == a \div M
           r == a % M
           p == (r + b) \div M
           s == (r + b) % M
           o == (a + b) \div M
           u == (a + b) % M
<1>1. r \in 0 .. M - 1 /\ q \in Int /\ a = M * q + r
  BY ModRange
<1>2. r + b \in Int /\ a + b \in Int
  BY <1>1
<1>3. s \in 0 .. M - 1 /\ p \in Int /\ r + b = M * p + s
  BY <1>2, ModRange
<1> HIDE DEF r
<1>4. u \in 0 .. M - 1 /\ o \in Int /\ a + b = M * o + u
  <2> DEFINE c == a + b
  <2>1. c \in Int
    BY <1>2
  <2> HIDE DEF c
  <2>2. c % M \in 0 .. M - 1 /\ c \div M \in Int /\ c = M * (c \div M) + (c % M)
    BY <2>1, ModRange
  <2> QED BY <2>2 DEF c
<1> HIDE DEF q, p, o, s, u
<1>5. M * (o - p - q) = M * o - M * p - M * q
  BY <1>1, <1>3, <1>4
<1>6. M * q \in Int /\ M * p \in Int /\ M * o \in Int
  BY <1>1, <1>3, <1>4
<1>7. M * (o - p - q) = s - u
  BY <1>1, <1>3, <1>4, <1>5, <1>6
<1>8. o - p - q \in Int
  BY <1>1, <1>3, <1>4
<1>9. s = u
  BY <1>3, <1>4, <1>7, <1>8, ModUnique
<1> QED BY <1>9 DEF s, u, r

-----------------------------------------------------------------------------
(***************************************************************************)
(* The queue.                                                               *)
(***************************************************************************)

\* A task that joins the queue is its last, and only an empty queue gets a new
\* head.
LEMMA QueueAdd ==
  ASSUME waiters \in Seq(Tasks), Distinct, NEW t \in Tasks, t \notin Waiting,
         waiters' = Append(waiters, t)
  PROVE  /\ waiters' \in Seq(Tasks)
         /\ Distinct'
         /\ Waiting' = Waiting \cup {t}
         /\ waiters' # <<>>
         /\ waiters # <<>> => Head(waiters') = Head(waiters)
<1> DEFINE n == Len(waiters)
           a == Append(waiters, t)
<1>1. /\ n \in Nat
      /\ a \in Seq(Tasks) /\ Len(a) = n + 1
      /\ \A i \in 1 .. n : a[i] = waiters[i]
      /\ a[n + 1] = t
  OBVIOUS
<1>2. DOMAIN a = 1 .. n + 1 /\ DOMAIN waiters = 1 .. n
  BY <1>1
<1>3. \A i \in 1 .. n : waiters[i] # t
  BY <1>2 DEF Waiting, Range
<1> HIDE DEF a
<1>4. \A i, j \in 1 .. Len(a) : a[i] = a[j] => i = j
  BY <1>1, <1>3 DEF Distinct
<1>5. Range(a) = Range(waiters) \cup {t}
  <2>1. /\ Range(a) = {a[i] : i \in 1 .. n + 1}
        /\ Range(waiters) = {waiters[i] : i \in 1 .. n}
    BY <1>2 DEF Range
  <2>2. ASSUME NEW x \in Range(a) PROVE x \in Range(waiters) \cup {t}
    <3>1. PICK i \in 1 .. n + 1 : x = a[i]
      BY <2>1, <2>2
    <3>2. i \in 1 .. n \/ i = n + 1
      BY <1>1
    <3> HIDE DEF n
    <3> QED BY <1>1, <2>1, <3>1, <3>2
  <2>3. ASSUME NEW x \in Range(waiters) PROVE x \in Range(a)
    <3>1. PICK i \in 1 .. n : x = waiters[i]
      BY <2>1, <2>3
    <3>2. i \in 1 .. n + 1 /\ a[i] = x
      BY <1>1, <3>1
    <3> QED BY <2>1, <3>2
  <2>4. t \in Range(a)
    <3>1. n + 1 \in 1 .. n + 1
      BY <1>1
    <3> QED BY <1>1, <2>1, <3>1
  <2> QED BY <2>2, <2>3, <2>4
<1>6. a # <<>> /\ (waiters # <<>> => Head(a) = Head(waiters))
  <2>1. Len(a) # 0 /\ Head(a) = a[1]
    BY <1>1
  <2>2. waiters # <<>> => 1 \in 1 .. n /\ Head(waiters) = waiters[1]
    OBVIOUS
  <2>3. waiters # <<>> => a[1] = waiters[1]
    BY <1>1, <2>2
  <2> QED BY <2>1, <2>2, <2>3
<1>7. waiters' = a
  BY DEF a
<1> QED BY <1>1, <1>4, <1>5, <1>6, <1>7 DEF Distinct, Waiting

\* A waker that takes out the head keeps the others.
LEMMA QueueTail ==
  ASSUME waiters \in Seq(Tasks), Distinct, waiters # <<>>,
         waiters' = Tail(waiters)
  PROVE  /\ waiters' \in Seq(Tasks)
         /\ Distinct'
         /\ Head(waiters) \in Waiting
         /\ Waiting' = Waiting \ {Head(waiters)}
<1> DEFINE n == Len(waiters)
           b == Tail(waiters)
<1>1. /\ n \in Nat \ {0}
      /\ b \in Seq(Tasks) /\ Len(b) = n - 1
      /\ \A i \in 1 .. n - 1 : b[i] = waiters[i + 1]
      /\ Head(waiters) = waiters[1]
  OBVIOUS
<1>2. DOMAIN b = 1 .. n - 1 /\ DOMAIN waiters = 1 .. n
  BY <1>1
<1> HIDE DEF b
<1>3. \A i, j \in 1 .. Len(b) : b[i] = b[j] => i = j
  <2> SUFFICES ASSUME NEW i \in 1 .. n - 1, NEW j \in 1 .. n - 1, b[i] = b[j]
               PROVE  i = j
    BY <1>1
  <2>1. i + 1 \in 1 .. n /\ j + 1 \in 1 .. n /\ waiters[i + 1] = waiters[j + 1]
    BY <1>1
  <2>2. i + 1 = j + 1
    BY <2>1 DEF Distinct
  <2> QED BY <2>2
<1>4. /\ Range(b) = {b[i] : i \in 1 .. n - 1}
      /\ Range(waiters) = {waiters[i] : i \in 1 .. n}
  BY <1>2 DEF Range
<1>5. Head(waiters) \in Range(waiters)
  <2>1. 1 \in 1 .. n
    BY <1>1
  <2> QED BY <1>1, <1>4, <2>1
<1>6. ASSUME NEW x \in Range(b) PROVE x \in Range(waiters) \ {Head(waiters)}
  <2>1. PICK i \in 1 .. n - 1 : x = b[i]
    BY <1>4, <1>6
  <2>2. i + 1 \in 1 .. n /\ 1 \in 1 .. n /\ i + 1 # 1 /\ x = waiters[i + 1]
    BY <1>1, <2>1
  <2>3. waiters[i + 1] # waiters[1]
    BY <2>2 DEF Distinct
  <2> QED BY <1>1, <1>4, <2>2, <2>3
<1>7. ASSUME NEW x \in Range(waiters), x # Head(waiters) PROVE x \in Range(b)
  <2>1. PICK i \in 1 .. n : x = waiters[i]
    BY <1>4, <1>7
  <2>2. i # 1
    BY <1>1, <1>7, <2>1
  <2>3. i - 1 \in 1 .. n - 1 /\ b[i - 1] = x
    BY <1>1, <2>1, <2>2
  <2> QED BY <1>4, <2>3
<1>8. Range(b) = Range(waiters) \ {Head(waiters)}
  BY <1>6, <1>7
<1>9. waiters' = b
  BY DEF b
<1> QED BY <1>1, <1>3, <1>5, <1>8, <1>9 DEF Distinct, Waiting

-----------------------------------------------------------------------------
(***************************************************************************)
(* The updaters.                                                            *)
(***************************************************************************)

\* The callback moves nobody but a task that awaits it in rcu_barrier().
LEMMA CallbackMoves ==
  ASSUME callback
  PROVE  \A t \in Tasks : pc'[t] = pc[t] \/ (pc[t] = "barrier" /\ pc'[t] = "freed")
BY DEF callback

\* A step that leaves rcu_sync alone and moves nobody in or out keeps Updaters.
LEMMA UpdatersKept ==
  ASSUME Updaters, UNCHANGED <<gp_state, gp_count, cb_queued, started>>,
         \A w \in Writers :
           /\ pc'[w] \in EnterPc \cup EnteredPc <=> pc[w] \in EnterPc \cup EnteredPc
           /\ pc'[w] = "sync" <=> pc[w] = "sync"
           /\ pc'[w] = "freed" => pc[w] = "freed"
  PROVE  Updaters'
<1>1. Entered' = Entered
  BY DEF Entered
<1> QED
  BY <1>1 DEF Updaters, GpStateMatches, rcu_sync_is_idle, GP_IDLE, GP_ENTER,
        GP_PASSED, GP_EXIT, GP_REPLAY

\* The updaters can be counted,
LEMMA EnteredFinite == IsFiniteSet(Entered) /\ Cardinality(Entered) \in Nat
<1>1. IsFiniteSet(Writers)
  BY PercpuAssumption, FS_Subset DEF Tasks
<1>2. IsFiniteSet(Entered)
  BY <1>1, FS_Subset DEF Entered
<1> QED BY <1>2, FS_CardinalityType

\* one more has entered after rcu_sync_enter(),
LEMMA EnteredAdd ==
  ASSUME NEW w \in Writers, NEW l \in EnterPc, pc \in [Tasks -> PC],
         pc[w] = "idle", pc' = [pc EXCEPT ![w] = l]
  PROVE  Cardinality(Entered)' = Cardinality(Entered) + 1
<1>1. w \notin Entered /\ Entered' = Entered \cup {w}
  BY DEF Entered, EnterPc, EnteredPc, RcuwaitPc, Tasks
<1> QED BY <1>1, EnteredFinite, FS_AddElement

\* and one less after rcu_sync_exit().
LEMMA EnteredRemove ==
  ASSUME NEW w \in Writers, pc \in [Tasks -> PC],
         pc[w] \in EnteredPc, pc' = [pc EXCEPT ![w] = "idle"]
  PROVE  Cardinality(Entered)' = Cardinality(Entered) - 1
<1>1. w \in Entered /\ Entered' = Entered \ {w}
  BY DEF Entered, EnterPc, EnteredPc, RcuwaitPc, Tasks
<1> QED BY <1>1, EnteredFinite, FS_RemoveElement

\* While an updater is inside, gp_count is not zero.
LEMMA EnteredSome ==
  ASSUME NEW w \in Writers, pc[w] \in EnterPc \cup EnteredPc
  PROVE  Cardinality(Entered) # 0
<1>1. w \in Entered
  BY DEF Entered
<1> QED BY <1>1, EnteredFinite, FS_EmptySet

-----------------------------------------------------------------------------
(***************************************************************************)
(* Types.                                                                   *)
(***************************************************************************)

\* The types, part by part.
LEMMA TaskTypes ==
  ASSUME waiters \in Seq(Tasks), writer \in Writers \cup {NULL}, TypeTask,
         Kinds, Queue, [Next]_vars
  PROVE  TypeTask'
<1> USE DEF Goto, Jump, preempt_disable, preempt_enable, this_cpu_add,
      ReadLocked, Prodded, UnlockWaiters, semvars, rsp, rcuvars, queue, semrest,
      locals, rssvars, gpvars, rcu_read_unlock, wake_up, rcu_sync_enter,
      synchronize_rcu, rcu_sync_func, rcu_sync_call, prepare_to_wait_event,
      finish_wait, rcu_sync_exit, rcu_sync_dtor, rcu_callback, TypeTask, Kinds,
      Queue, Tasks, PC, FastPc, TryPc, WaitPc, WakePc, ReaderPc, WriterPc,
      EnterPc, EnteredPc, RcuwaitPc, ReadPc, FreePc
<1>0. started' = started
  BY DEF Next, vars
<1>1. ASSUME NEW r \in Readers, NEW c \in CPUS, NEW k \in {"first", "try"},
             down_read(r, c, k)
      PROVE  TypeTask'
  BY <1>0, <1>1 DEF down_read
<1>2. ASSUME NEW r \in Readers, fast_inc(r) PROVE TypeTask'
  BY <1>0, <1>2 DEF fast_inc
<1>3. ASSUME NEW r \in Readers, NEW c \in CPUS, up_read(r, c) PROVE TypeTask'
  BY <1>0, <1>3 DEF up_read
<1>4. ASSUME NEW r \in Readers, fast_dec(r) PROVE TypeTask'
  BY <1>0, <1>4 DEF fast_dec
<1>5. ASSUME NEW r \in Readers, NEW c \in CPUS, wait_lock_reader(r, c)
      PROVE  TypeTask'
  BY <1>0, <1>5 DEF wait_lock_reader
<1>6. ASSUME NEW t \in Tasks, inc(t) PROVE TypeTask'
  BY <1>0, <1>6 DEF inc
<1>7. ASSUME NEW t \in Tasks, test_block(t) PROVE TypeTask'
  <2>1. ctx[t] = "wake" => Head(waiters) \in Tasks
    BY <1>7 DEF test_block
  <2> HIDE DEF Kinds, Queue
  <2> QED BY <1>7, <2>1 DEF test_block
<1>8. ASSUME NEW t \in Tasks, dec(t) PROVE TypeTask'
  BY <1>0, <1>8 DEF dec
<1>9. ASSUME NEW t \in Tasks, prod(t) PROVE TypeTask'
  BY <1>0, <1>9 DEF prod
<1>10. ASSUME NEW t \in Tasks, prod_wake(t) PROVE TypeTask'
  BY <1>0, <1>10 DEF prod_wake
<1>11. ASSUME NEW t \in Tasks, set_state(t) PROVE TypeTask'
  BY <1>0, <1>11 DEF set_state
<1>12. ASSUME NEW t \in Tasks, check(t) PROVE TypeTask'
  BY <1>0, <1>12 DEF check
<1>13. ASSUME NEW t \in Tasks, schedule(t, "asleep", "set_state")
       PROVE  TypeTask'
  BY <1>0, <1>13 DEF schedule
<1>14. ASSUME NEW w \in Writers, down_write(w) PROVE TypeTask'
  BY <1>0, <1>14 DEF down_write
<1>15. ASSUME NEW w \in Writers, free_rwsem(w) PROVE TypeTask'
  BY <1>0, <1>15 DEF free_rwsem
<1>16. ASSUME NEW w \in Writers, sync(w) PROVE TypeTask'
  BY <1>0, <1>16 DEF sync
<1>17. ASSUME NEW w \in Writers, gp_cond(w) PROVE TypeTask'
  BY <1>0, <1>17 DEF gp_cond
<1>18. ASSUME NEW w \in Writers, gp_prepare(w) PROVE TypeTask'
  BY <1>0, <1>18 DEF gp_prepare
<1>19. ASSUME NEW w \in Writers, gp_check(w) PROVE TypeTask'
  BY <1>0, <1>19 DEF gp_check
<1>20. ASSUME NEW w \in Writers, schedule(w, "gp_asleep", "gp_prepare")
       PROVE  TypeTask'
  BY <1>0, <1>20 DEF schedule
<1>21. ASSUME NEW w \in Writers, try_block(w) PROVE TypeTask'
  BY <1>0, <1>21 DEF try_block
<1>22. ASSUME NEW w \in Writers, wait_lock_writer(w) PROVE TypeTask'
  BY <1>0, <1>22 DEF wait_lock_writer
<1>23. ASSUME NEW w \in Writers, prepare_to_rcuwait(w) PROVE TypeTask'
  BY <1>0, <1>23 DEF prepare_to_rcuwait
<1>24. ASSUME NEW w \in Writers, rcuwait(w) PROVE TypeTask'
  BY <1>0, <1>24 DEF rcuwait
<1>25. ASSUME NEW w \in Writers, per_cpu_sum(w) PROVE TypeTask'
  BY <1>0, <1>25 DEF per_cpu_sum
<1>26. ASSUME NEW w \in Writers, finish_rcuwait(w) PROVE TypeTask'
  BY <1>0, <1>26 DEF finish_rcuwait
<1>27. ASSUME NEW w \in Writers, schedule(w, "rcuwait_asleep", "rcuwait")
       PROVE  TypeTask'
  BY <1>0, <1>27 DEF schedule
<1>28. ASSUME NEW w \in Writers, up_write(w) PROVE TypeTask'
  BY <1>0, <1>28 DEF up_write
<1>29. ASSUME NEW w \in Writers, wake_next(w) PROVE TypeTask'
  BY <1>0, <1>29 DEF wake_next
<1>30. ASSUME NEW w \in Writers, wake_process(w) PROVE TypeTask'
  BY <1>0, <1>30 DEF wake_process
<1>31. ASSUME NEW w \in Writers, exit(w) PROVE TypeTask'
  BY <1>0, <1>31 DEF exit
<1>32. ASSUME NEW w \in Writers, rcu_barrier(w) PROVE TypeTask'
  BY <1>0, <1>32 DEF rcu_barrier
<1>33. ASSUME NEW w \in Writers, init_rwsem(w) PROVE TypeTask'
  BY <1>0, <1>33 DEF init_rwsem
<1>34. ASSUME NEW w \in Writers, NEW c \in CPUS, wake_lock(w, c) PROVE TypeTask'
  BY <1>0, <1>34 DEF wake_lock
<1>35. ASSUME callback PROVE TypeTask'
  BY <1>0, <1>35 DEF callback
<1>36. CASE UNCHANGED vars
  BY <1>36 DEF vars
<1> HIDE DEF Goto, Jump, preempt_disable, preempt_enable, this_cpu_add,
      ReadLocked, Prodded, UnlockWaiters, semvars, rsp, rcuvars, queue, semrest,
      locals, rssvars, gpvars, rcu_read_unlock, wake_up, rcu_sync_enter,
      synchronize_rcu, rcu_sync_func, rcu_sync_call, prepare_to_wait_event,
      finish_wait, rcu_sync_exit, rcu_sync_dtor, rcu_callback, TypeTask, Kinds,
      Queue, Tasks, PC, FastPc, TryPc, WaitPc, WakePc, ReaderPc, WriterPc,
      EnterPc, EnteredPc, RcuwaitPc, ReadPc, FreePc
<1> QED BY <1>1, <1>2, <1>3, <1>4, <1>5, <1>6, <1>7, <1>8, <1>9, <1>10, <1>11,
      <1>12, <1>13, <1>14, <1>15, <1>16, <1>17, <1>18, <1>19, <1>20, <1>21,
      <1>22, <1>23, <1>24, <1>25, <1>26, <1>27, <1>28, <1>29, <1>30, <1>31,
      <1>32, <1>33, <1>34, <1>35, <1>36 DEF Next, Start, Continue,
      trylock_step, wait_step, reader_step, writer_step, Tasks

LEMMA RcuTypes ==
  ASSUME pc \in [Tasks -> PC], TypeRcu, started \in BOOLEAN, Updaters,
         [Next]_vars
  PROVE  TypeRcu'
<1> USE DEF Goto, Jump, preempt_disable, preempt_enable, this_cpu_add,
      ReadLocked, Prodded, UnlockWaiters, semvars, rsp, rcuvars, queue, semrest,
      locals, rssvars, gpvars, rcu_read_unlock, wake_up, rcu_sync_enter,
      synchronize_rcu, rcu_sync_func, rcu_sync_call, prepare_to_wait_event,
      finish_wait, rcu_sync_exit, rcu_sync_dtor, rcu_callback, TypeRcu,
      Section, Tasks, rcu_sync_is_idle, GP_IDLE, GP_ENTER, GP_PASSED, GP_EXIT,
      GP_REPLAY
<1>0. started' = started
  BY DEF Next, vars
<1>1. ASSUME NEW r \in Readers, NEW c \in CPUS, NEW k \in {"first", "try"},
             down_read(r, c, k)
      PROVE  TypeRcu'
  BY <1>0, <1>1 DEF down_read
<1>2. ASSUME NEW r \in Readers, fast_inc(r) PROVE TypeRcu'
  BY <1>0, <1>2 DEF fast_inc
<1>3. ASSUME NEW r \in Readers, NEW c \in CPUS, up_read(r, c) PROVE TypeRcu'
  BY <1>0, <1>3 DEF up_read
<1>4. ASSUME NEW r \in Readers, fast_dec(r) PROVE TypeRcu'
  BY <1>0, <1>4 DEF fast_dec
<1>5. ASSUME NEW r \in Readers, NEW c \in CPUS, wait_lock_reader(r, c)
      PROVE  TypeRcu'
  BY <1>0, <1>5 DEF wait_lock_reader
<1>6. ASSUME NEW t \in Tasks, inc(t) PROVE TypeRcu'
  BY <1>0, <1>6 DEF inc
<1>7. ASSUME NEW t \in Tasks, test_block(t) PROVE TypeRcu'
  BY <1>0, <1>7 DEF test_block
<1>8. ASSUME NEW t \in Tasks, dec(t) PROVE TypeRcu'
  BY <1>0, <1>8 DEF dec
<1>9. ASSUME NEW t \in Tasks, prod(t) PROVE TypeRcu'
  BY <1>0, <1>9 DEF prod
<1>10. ASSUME NEW t \in Tasks, prod_wake(t) PROVE TypeRcu'
  BY <1>0, <1>10 DEF prod_wake
<1>11. ASSUME NEW t \in Tasks, set_state(t) PROVE TypeRcu'
  BY <1>0, <1>11 DEF set_state
<1>12. ASSUME NEW t \in Tasks, check(t) PROVE TypeRcu'
  BY <1>0, <1>12 DEF check
<1>13. ASSUME NEW t \in Tasks, schedule(t, "asleep", "set_state") PROVE TypeRcu'
  BY <1>0, <1>13 DEF schedule
<1>14. ASSUME NEW w \in Writers, down_write(w) PROVE TypeRcu'
  BY <1>0, <1>14 DEF down_write
<1>15. ASSUME NEW w \in Writers, free_rwsem(w) PROVE TypeRcu'
  BY <1>0, <1>15 DEF free_rwsem
<1>16. ASSUME NEW w \in Writers, sync(w) PROVE TypeRcu'
  BY <1>0, <1>16 DEF sync
<1>17. ASSUME NEW w \in Writers, gp_cond(w) PROVE TypeRcu'
  BY <1>0, <1>17 DEF gp_cond
<1>18. ASSUME NEW w \in Writers, gp_prepare(w) PROVE TypeRcu'
  BY <1>0, <1>18 DEF gp_prepare
<1>19. ASSUME NEW w \in Writers, gp_check(w) PROVE TypeRcu'
  BY <1>0, <1>19 DEF gp_check
<1>20. ASSUME NEW w \in Writers, schedule(w, "gp_asleep", "gp_prepare")
       PROVE  TypeRcu'
  BY <1>0, <1>20 DEF schedule
<1>21. ASSUME NEW w \in Writers, try_block(w) PROVE TypeRcu'
  BY <1>0, <1>21 DEF try_block
<1>22. ASSUME NEW w \in Writers, wait_lock_writer(w) PROVE TypeRcu'
  BY <1>0, <1>22 DEF wait_lock_writer
<1>23. ASSUME NEW w \in Writers, prepare_to_rcuwait(w) PROVE TypeRcu'
  BY <1>0, <1>23 DEF prepare_to_rcuwait
<1>24. ASSUME NEW w \in Writers, rcuwait(w) PROVE TypeRcu'
  BY <1>0, <1>24 DEF rcuwait
<1>25. ASSUME NEW w \in Writers, per_cpu_sum(w) PROVE TypeRcu'
  BY <1>0, <1>25 DEF per_cpu_sum
<1>26. ASSUME NEW w \in Writers, finish_rcuwait(w) PROVE TypeRcu'
  BY <1>0, <1>26 DEF finish_rcuwait
<1>27. ASSUME NEW w \in Writers, schedule(w, "rcuwait_asleep", "rcuwait")
       PROVE  TypeRcu'
  BY <1>0, <1>27 DEF schedule
<1>28. ASSUME NEW w \in Writers, up_write(w) PROVE TypeRcu'
  BY <1>0, <1>28 DEF up_write
<1>29. ASSUME NEW w \in Writers, wake_next(w) PROVE TypeRcu'
  BY <1>0, <1>29 DEF wake_next
<1>30. ASSUME NEW w \in Writers, wake_process(w) PROVE TypeRcu'
  BY <1>0, <1>30 DEF wake_process
<1>31. ASSUME NEW w \in Writers, exit(w) PROVE TypeRcu'
  <2>1. gp_count # 0
    <3>1. pc[w] \in EnteredPc
      BY <1>31 DEF exit, EnteredPc
    <3>2. Cardinality(Entered) # 0
      BY <3>1, EnteredSome
    <3> QED BY <3>2, EnteredFinite DEF Updaters, GpStateMatches
  <2>2. gp_count' = gp_count - 1
    BY <1>31 DEF exit
  <2>3. gp_count' \in Nat
    BY <2>1, <2>2
  <2> QED BY <1>31, <2>3 DEF exit
<1>32. ASSUME NEW w \in Writers, rcu_barrier(w) PROVE TypeRcu'
  BY <1>0, <1>32 DEF rcu_barrier
<1>33. ASSUME NEW w \in Writers, init_rwsem(w) PROVE TypeRcu'
  BY <1>0, <1>33 DEF init_rwsem
<1>34. ASSUME NEW w \in Writers, NEW c \in CPUS, wake_lock(w, c) PROVE TypeRcu'
  BY <1>0, <1>34 DEF wake_lock
<1>35. ASSUME callback PROVE TypeRcu'
  BY <1>0, <1>35 DEF callback
<1>36. CASE UNCHANGED vars
  BY <1>36 DEF vars
<1> HIDE DEF Goto, Jump, preempt_disable, preempt_enable, this_cpu_add,
      ReadLocked, Prodded, UnlockWaiters, semvars, rsp, rcuvars, queue, semrest,
      locals, rssvars, gpvars, rcu_read_unlock, wake_up, rcu_sync_enter,
      synchronize_rcu, rcu_sync_func, rcu_sync_call, prepare_to_wait_event,
      finish_wait, rcu_sync_exit, rcu_sync_dtor, rcu_callback, TypeRcu,
      Section, Tasks, rcu_sync_is_idle, GP_IDLE, GP_ENTER, GP_PASSED, GP_EXIT,
      GP_REPLAY
<1> QED BY <1>1, <1>2, <1>3, <1>4, <1>5, <1>6, <1>7, <1>8, <1>9, <1>10, <1>11,
      <1>12, <1>13, <1>14, <1>15, <1>16, <1>17, <1>18, <1>19, <1>20, <1>21,
      <1>22, <1>23, <1>24, <1>25, <1>26, <1>27, <1>28, <1>29, <1>30, <1>31,
      <1>32, <1>33, <1>34, <1>35, <1>36 DEF Next, Start, Continue,
      trylock_step, wait_step, reader_step, writer_step, Tasks

LEMMA SemTypes ==
  ASSUME pc \in [Tasks -> PC], ctx \in [Tasks -> CTX],
         cpu \in [Tasks -> CPUS \cup {NULL}], TypeSem, Kinds, Preemption,
         Queue, [Next]_vars
  PROVE  TypeSem'
<1> USE DEF Goto, Jump, preempt_disable, preempt_enable, this_cpu_add,
      ReadLocked, Prodded, UnlockWaiters, semvars, rsp, rcuvars, queue, semrest,
      locals, rssvars, gpvars, rcu_read_unlock, wake_up, rcu_sync_enter,
      synchronize_rcu, rcu_sync_func, rcu_sync_call, prepare_to_wait_event,
      finish_wait, rcu_sync_exit, rcu_sync_dtor, rcu_callback, TypeSem, Tasks
<1>0. started' = started
  BY DEF Next, vars
<1>1. ASSUME NEW r \in Readers, NEW c \in CPUS, NEW k \in {"first", "try"},
             down_read(r, c, k)
      PROVE  TypeSem'
  BY <1>0, <1>1 DEF down_read
<1>2. ASSUME NEW r \in Readers, fast_inc(r) PROVE TypeSem'
  <2>1. cpu[r] \in CPUS
    BY <1>2 DEF fast_inc, Preemption, FastPc, TryPc
  <2>2. /\ read_count' = [read_count EXCEPT ![cpu[r]] = (read_count[cpu[r]] + 1) % Mod]
        /\ UNCHANGED <<block, waiters, wq_lock, writer, scan>>
    BY <1>2 DEF fast_inc
  <2>3. read_count[cpu[r]] + 1 \in Int
    BY <2>1
  <2>4. (read_count[cpu[r]] + 1) % Mod \in 0 .. Mod - 1
    BY <2>3, ModRange, PercpuAssumption
  <2> QED BY <1>0, <2>1, <2>2, <2>4
<1>3. ASSUME NEW r \in Readers, NEW c \in CPUS, up_read(r, c) PROVE TypeSem'
  BY <1>0, <1>3 DEF up_read
<1>4. ASSUME NEW r \in Readers, fast_dec(r) PROVE TypeSem'
  <2>1. cpu[r] \in CPUS
    BY <1>4 DEF fast_dec, Preemption, FastPc, TryPc
  <2>2. /\ read_count' = [read_count EXCEPT ![cpu[r]] = (read_count[cpu[r]] + (-1)) % Mod]
        /\ UNCHANGED <<block, waiters, wq_lock, writer, scan>>
    BY <1>4 DEF fast_dec
  <2>3. read_count[cpu[r]] + (-1) \in Int
    BY <2>1
  <2>4. (read_count[cpu[r]] + (-1)) % Mod \in 0 .. Mod - 1
    BY <2>3, ModRange, PercpuAssumption
  <2> QED BY <1>0, <2>1, <2>2, <2>4
<1>5. ASSUME NEW r \in Readers, NEW c \in CPUS, wait_lock_reader(r, c)
      PROVE  TypeSem'
  BY <1>0, <1>5 DEF wait_lock_reader
<1>6. ASSUME NEW t \in Tasks, inc(t) PROVE TypeSem'
  <2>1. cpu[t] \in CPUS
    BY <1>6 DEF inc, Preemption, FastPc, TryPc
  <2>2. /\ read_count' = [read_count EXCEPT ![cpu[t]] = (read_count[cpu[t]] + 1) % Mod]
        /\ UNCHANGED <<block, waiters, wq_lock, writer, scan>>
    BY <1>6 DEF inc
  <2>3. read_count[cpu[t]] + 1 \in Int
    BY <2>1
  <2>4. (read_count[cpu[t]] + 1) % Mod \in 0 .. Mod - 1
    BY <2>3, ModRange, PercpuAssumption
  <2> QED BY <1>0, <2>1, <2>2, <2>4
<1>7. ASSUME NEW t \in Tasks, test_block(t) PROVE TypeSem'
  <2>1. waiters' \in Seq(Tasks)
    <3>1. waiters' = waiters \/ (waiters # <<>> /\ waiters' = Tail(waiters))
      BY <1>7 DEF test_block, Kinds, Queue
    <3>2. waiters \in Seq(Tasks)
      OBVIOUS
    <3> HIDE DEF TypeSem
    <3> QED BY <3>1, <3>2
  <2>2. UNCHANGED <<read_count, block, writer, scan>> /\ wq_lock' \in {wq_lock, NULL}
    BY <1>7 DEF test_block
  <2> QED BY <1>0, <2>1, <2>2
<1>8. ASSUME NEW t \in Tasks, dec(t) PROVE TypeSem'
  <2>1. cpu[t] \in CPUS
    BY <1>8 DEF dec, Preemption, FastPc, TryPc
  <2>2. /\ read_count' = [read_count EXCEPT ![cpu[t]] = (read_count[cpu[t]] + (-1)) % Mod]
        /\ UNCHANGED <<block, waiters, wq_lock, writer, scan>>
    BY <1>8 DEF dec
  <2>3. read_count[cpu[t]] + (-1) \in Int
    BY <2>1
  <2>4. (read_count[cpu[t]] + (-1)) % Mod \in 0 .. Mod - 1
    BY <2>3, ModRange, PercpuAssumption
  <2> QED BY <1>0, <2>1, <2>2, <2>4
<1>9. ASSUME NEW t \in Tasks, prod(t) PROVE TypeSem'
  <2>1. waiters' \in Seq(Tasks)
    <3>1. waiters' \in {waiters, Append(waiters, t)}
      BY <1>9 DEF prod
    <3>2. waiters \in Seq(Tasks)
      OBVIOUS
    <3> HIDE DEF TypeSem
    <3> QED BY <3>1, <3>2
  <2>2. UNCHANGED <<read_count, block, writer, scan>> /\ wq_lock' \in {wq_lock, NULL}
    BY <1>9 DEF prod
  <2> QED BY <1>0, <2>1, <2>2
<1>10. ASSUME NEW t \in Tasks, prod_wake(t) PROVE TypeSem'
  <2>1. waiters' \in Seq(Tasks)
    <3>1. waiters' \in {waiters, Append(waiters, t)}
      BY <1>10 DEF prod_wake
    <3>2. waiters \in Seq(Tasks)
      OBVIOUS
    <3> HIDE DEF TypeSem
    <3> QED BY <3>1, <3>2
  <2>2. UNCHANGED <<read_count, block, writer, scan>> /\ wq_lock' \in {wq_lock, NULL}
    BY <1>10 DEF prod_wake
  <2> QED BY <1>0, <2>1, <2>2
<1>11. ASSUME NEW t \in Tasks, set_state(t) PROVE TypeSem'
  BY <1>0, <1>11 DEF set_state
<1>12. ASSUME NEW t \in Tasks, check(t) PROVE TypeSem'
  BY <1>0, <1>12 DEF check
<1>13. ASSUME NEW t \in Tasks, schedule(t, "asleep", "set_state") PROVE TypeSem'
  BY <1>0, <1>13 DEF schedule
<1>14. ASSUME NEW w \in Writers, down_write(w) PROVE TypeSem'
  BY <1>0, <1>14 DEF down_write
<1>15. ASSUME NEW w \in Writers, free_rwsem(w) PROVE TypeSem'
  BY <1>0, <1>15 DEF free_rwsem
<1>16. ASSUME NEW w \in Writers, sync(w) PROVE TypeSem'
  BY <1>0, <1>16 DEF sync
<1>17. ASSUME NEW w \in Writers, gp_cond(w) PROVE TypeSem'
  BY <1>0, <1>17 DEF gp_cond
<1>18. ASSUME NEW w \in Writers, gp_prepare(w) PROVE TypeSem'
  BY <1>0, <1>18 DEF gp_prepare
<1>19. ASSUME NEW w \in Writers, gp_check(w) PROVE TypeSem'
  BY <1>0, <1>19 DEF gp_check
<1>20. ASSUME NEW w \in Writers, schedule(w, "gp_asleep", "gp_prepare")
       PROVE  TypeSem'
  BY <1>0, <1>20 DEF schedule
<1>21. ASSUME NEW w \in Writers, try_block(w) PROVE TypeSem'
  BY <1>0, <1>21 DEF try_block
<1>22. ASSUME NEW w \in Writers, wait_lock_writer(w) PROVE TypeSem'
  <2>1. waiters' \in Seq(Tasks)
    <3>1. waiters' \in {waiters, Append(waiters, w)}
      BY <1>22 DEF wait_lock_writer
    <3>2. waiters \in Seq(Tasks)
      OBVIOUS
    <3> HIDE DEF TypeSem
    <3> QED BY <3>1, <3>2
  <2>2. UNCHANGED <<read_count, wq_lock, writer, scan>> /\ block' \in {block, 1}
    BY <1>22 DEF wait_lock_writer
  <2> QED BY <1>0, <2>1, <2>2
<1>23. ASSUME NEW w \in Writers, prepare_to_rcuwait(w) PROVE TypeSem'
  BY <1>0, <1>23 DEF prepare_to_rcuwait
<1>24. ASSUME NEW w \in Writers, rcuwait(w) PROVE TypeSem'
  BY <1>0, <1>24 DEF rcuwait
<1>25. ASSUME NEW w \in Writers, per_cpu_sum(w) PROVE TypeSem'
  <2> DEFINE s == scan[w]
             total == (s.sum + read_count[s.cpu]) % Mod
             x == [cpu |-> IF s.cpu = NR_CPUS THEN 1 ELSE s.cpu + 1,
                   sum |-> IF s.cpu = NR_CPUS THEN 0 ELSE total]
  <2>1. /\ scan' = [scan EXCEPT ![w] = x]
        /\ UNCHANGED <<read_count, block, waiters, wq_lock, writer>>
    BY <1>25 DEF per_cpu_sum
  <2>2. /\ s.cpu \in CPUS /\ s.sum \in 0 .. Mod - 1
        /\ read_count[s.cpu] \in 0 .. Mod - 1
    OBVIOUS
  <2>3. s.sum + read_count[s.cpu] \in Int
    BY <2>2, PercpuAssumption
  <2>4. total \in 0 .. Mod - 1
    BY <2>3, ModRange, PercpuAssumption
  <2> HIDE DEF total, s
  <2>5. x \in [cpu : CPUS, sum : 0 .. Mod - 1]
    BY <2>2, <2>4, PercpuAssumption DEF CPUS
  <2> HIDE DEF x
  <2> QED BY <1>0, <2>1, <2>5
<1>26. ASSUME NEW w \in Writers, finish_rcuwait(w) PROVE TypeSem'
  BY <1>0, <1>26 DEF finish_rcuwait
<1>27. ASSUME NEW w \in Writers, schedule(w, "rcuwait_asleep", "rcuwait")
       PROVE  TypeSem'
  BY <1>0, <1>27 DEF schedule
<1>28. ASSUME NEW w \in Writers, up_write(w) PROVE TypeSem'
  BY <1>0, <1>28 DEF up_write
<1>29. ASSUME NEW w \in Writers, wake_next(w) PROVE TypeSem'
  <2>1. waiters' \in Seq(Tasks)
    <3>1. waiters' = waiters \/ (waiters # <<>> /\ waiters' = Tail(waiters))
      BY <1>29 DEF wake_next
    <3>2. waiters \in Seq(Tasks)
      OBVIOUS
    <3> HIDE DEF TypeSem
    <3> QED BY <3>1, <3>2
  <2>2. UNCHANGED <<read_count, writer, scan>> /\ block' \in {block, 1} /\ wq_lock' \in {wq_lock, NULL}
    BY <1>29 DEF wake_next
  <2> QED BY <1>0, <2>1, <2>2
<1>30. ASSUME NEW w \in Writers, wake_process(w) PROVE TypeSem'
  BY <1>0, <1>30 DEF wake_process
<1>31. ASSUME NEW w \in Writers, exit(w) PROVE TypeSem'
  BY <1>0, <1>31 DEF exit
<1>32. ASSUME NEW w \in Writers, rcu_barrier(w) PROVE TypeSem'
  BY <1>0, <1>32 DEF rcu_barrier
<1>33. ASSUME NEW w \in Writers, init_rwsem(w) PROVE TypeSem'
  <2>1. /\ read_count' = [c \in CPUS |-> 0] /\ writer' = NULL /\ waiters' = <<>>
        /\ block' = 0
        /\ UNCHANGED <<wq_lock, scan>>
    BY <1>33 DEF init_rwsem
  <2>2. 0 \in 0 .. Mod - 1
    BY PercpuAssumption
  <2> QED BY <1>0, <2>1, <2>2
<1>34. ASSUME NEW w \in Writers, NEW c \in CPUS, wake_lock(w, c) PROVE TypeSem'
  BY <1>0, <1>34 DEF wake_lock
<1>35. ASSUME callback PROVE TypeSem'
  BY <1>0, <1>35 DEF callback
<1>36. CASE UNCHANGED vars
  BY <1>36 DEF vars
<1> HIDE DEF Goto, Jump, preempt_disable, preempt_enable, this_cpu_add,
      ReadLocked, Prodded, UnlockWaiters, semvars, rsp, rcuvars, queue, semrest,
      locals, rssvars, gpvars, rcu_read_unlock, wake_up, rcu_sync_enter,
      synchronize_rcu, rcu_sync_func, rcu_sync_call, prepare_to_wait_event,
      finish_wait, rcu_sync_exit, rcu_sync_dtor, rcu_callback, TypeSem, Tasks
<1> QED BY <1>1, <1>2, <1>3, <1>4, <1>5, <1>6, <1>7, <1>8, <1>9, <1>10, <1>11,
      <1>12, <1>13, <1>14, <1>15, <1>16, <1>17, <1>18, <1>19, <1>20, <1>21,
      <1>22, <1>23, <1>24, <1>25, <1>26, <1>27, <1>28, <1>29, <1>30, <1>31,
      <1>32, <1>33, <1>34, <1>35, <1>36 DEF Next, Start, Continue,
      trylock_step, wait_step, reader_step, writer_step, Tasks

-----------------------------------------------------------------------------
(***************************************************************************)
(* Who is where, who holds which lock.                                      *)
(***************************************************************************)

\* A task is where its kind can be.
LEMMA KindsStep ==
  ASSUME pc \in [Tasks -> PC], ctx \in [Tasks -> CTX], Kinds, [Next]_vars
  PROVE  Kinds'
<1> USE TasksAssumption DEF Goto, Jump, preempt_disable, preempt_enable,
      this_cpu_add, ReadLocked, Prodded, UnlockWaiters, semvars, rsp, rcuvars,
      queue, semrest, locals, rssvars, gpvars, rcu_read_unlock, wake_up,
      rcu_sync_enter, synchronize_rcu, rcu_sync_func, rcu_sync_call,
      prepare_to_wait_event, finish_wait, rcu_sync_exit, rcu_sync_dtor,
      rcu_callback, Kinds, Tasks, FastPc, TryPc, WaitPc, WakePc, ReaderPc,
      WriterPc, EnterPc, EnteredPc, RcuwaitPc, ReadPc, FreePc
<1>0. started' = started
  BY DEF Next, vars
<1>1. ASSUME NEW r \in Readers, NEW c \in CPUS, NEW k \in {"first", "try"},
             down_read(r, c, k)
      PROVE  Kinds'
  BY <1>0, <1>1 DEF down_read
<1>2. ASSUME NEW r \in Readers, fast_inc(r) PROVE Kinds'
  BY <1>0, <1>2 DEF fast_inc
<1>3. ASSUME NEW r \in Readers, NEW c \in CPUS, up_read(r, c) PROVE Kinds'
  BY <1>0, <1>3 DEF up_read
<1>4. ASSUME NEW r \in Readers, fast_dec(r) PROVE Kinds'
  BY <1>0, <1>4 DEF fast_dec
<1>5. ASSUME NEW r \in Readers, NEW c \in CPUS, wait_lock_reader(r, c)
      PROVE  Kinds'
  BY <1>0, <1>5 DEF wait_lock_reader
<1>6. ASSUME NEW t \in Tasks, inc(t) PROVE Kinds'
  BY <1>0, <1>6 DEF inc
<1>7. ASSUME NEW t \in Tasks, test_block(t) PROVE Kinds'
  BY <1>0, <1>7 DEF test_block
<1>8. ASSUME NEW t \in Tasks, dec(t) PROVE Kinds'
  BY <1>0, <1>8 DEF dec
<1>9. ASSUME NEW t \in Tasks, prod(t) PROVE Kinds'
  BY <1>0, <1>9 DEF prod
<1>10. ASSUME NEW t \in Tasks, prod_wake(t) PROVE Kinds'
  BY <1>0, <1>10 DEF prod_wake
<1>11. ASSUME NEW t \in Tasks, set_state(t) PROVE Kinds'
  BY <1>0, <1>11 DEF set_state
<1>12. ASSUME NEW t \in Tasks, check(t) PROVE Kinds'
  BY <1>0, <1>12 DEF check
<1>13. ASSUME NEW t \in Tasks, schedule(t, "asleep", "set_state") PROVE Kinds'
  BY <1>0, <1>13 DEF schedule
<1>14. ASSUME NEW w \in Writers, down_write(w) PROVE Kinds'
  BY <1>0, <1>14 DEF down_write
<1>15. ASSUME NEW w \in Writers, free_rwsem(w) PROVE Kinds'
  BY <1>0, <1>15 DEF free_rwsem
<1>16. ASSUME NEW w \in Writers, sync(w) PROVE Kinds'
  BY <1>0, <1>16 DEF sync
<1>17. ASSUME NEW w \in Writers, gp_cond(w) PROVE Kinds'
  BY <1>0, <1>17 DEF gp_cond
<1>18. ASSUME NEW w \in Writers, gp_prepare(w) PROVE Kinds'
  BY <1>0, <1>18 DEF gp_prepare
<1>19. ASSUME NEW w \in Writers, gp_check(w) PROVE Kinds'
  BY <1>0, <1>19 DEF gp_check
<1>20. ASSUME NEW w \in Writers, schedule(w, "gp_asleep", "gp_prepare")
       PROVE  Kinds'
  BY <1>0, <1>20 DEF schedule
<1>21. ASSUME NEW w \in Writers, try_block(w) PROVE Kinds'
  BY <1>0, <1>21 DEF try_block
<1>22. ASSUME NEW w \in Writers, wait_lock_writer(w) PROVE Kinds'
  BY <1>0, <1>22 DEF wait_lock_writer
<1>23. ASSUME NEW w \in Writers, prepare_to_rcuwait(w) PROVE Kinds'
  BY <1>0, <1>23 DEF prepare_to_rcuwait
<1>24. ASSUME NEW w \in Writers, rcuwait(w) PROVE Kinds'
  BY <1>0, <1>24 DEF rcuwait
<1>25. ASSUME NEW w \in Writers, per_cpu_sum(w) PROVE Kinds'
  BY <1>0, <1>25 DEF per_cpu_sum
<1>26. ASSUME NEW w \in Writers, finish_rcuwait(w) PROVE Kinds'
  BY <1>0, <1>26 DEF finish_rcuwait
<1>27. ASSUME NEW w \in Writers, schedule(w, "rcuwait_asleep", "rcuwait")
       PROVE  Kinds'
  BY <1>0, <1>27 DEF schedule
<1>28. ASSUME NEW w \in Writers, up_write(w) PROVE Kinds'
  BY <1>0, <1>28 DEF up_write
<1>29. ASSUME NEW w \in Writers, wake_next(w) PROVE Kinds'
  BY <1>0, <1>29 DEF wake_next
<1>30. ASSUME NEW w \in Writers, wake_process(w) PROVE Kinds'
  BY <1>0, <1>30 DEF wake_process
<1>31. ASSUME NEW w \in Writers, exit(w) PROVE Kinds'
  BY <1>0, <1>31 DEF exit
<1>32. ASSUME NEW w \in Writers, rcu_barrier(w) PROVE Kinds'
  BY <1>0, <1>32 DEF rcu_barrier
<1>33. ASSUME NEW w \in Writers, init_rwsem(w) PROVE Kinds'
  BY <1>0, <1>33 DEF init_rwsem
<1>34. ASSUME NEW w \in Writers, NEW c \in CPUS, wake_lock(w, c) PROVE Kinds'
  BY <1>0, <1>34 DEF wake_lock
<1>35. ASSUME callback PROVE Kinds'
  BY <1>0, <1>35 DEF callback
<1>36. CASE UNCHANGED vars
  BY <1>36 DEF vars
<1> HIDE DEF Goto, Jump, preempt_disable, preempt_enable, this_cpu_add,
      ReadLocked, Prodded, UnlockWaiters, semvars, rsp, rcuvars, queue, semrest,
      locals, rssvars, gpvars, rcu_read_unlock, wake_up, rcu_sync_enter,
      synchronize_rcu, rcu_sync_func, rcu_sync_call, prepare_to_wait_event,
      finish_wait, rcu_sync_exit, rcu_sync_dtor, rcu_callback, Kinds, Tasks,
      FastPc, TryPc, WaitPc, WakePc, ReaderPc, WriterPc, EnterPc, EnteredPc,
      RcuwaitPc, ReadPc, FreePc
<1> QED BY <1>1, <1>2, <1>3, <1>4, <1>5, <1>6, <1>7, <1>8, <1>9, <1>10, <1>11,
      <1>12, <1>13, <1>14, <1>15, <1>16, <1>17, <1>18, <1>19, <1>20, <1>21,
      <1>22, <1>23, <1>24, <1>25, <1>26, <1>27, <1>28, <1>29, <1>30, <1>31,
      <1>32, <1>33, <1>34, <1>35, <1>36 DEF Next, Start, Continue,
      trylock_step, wait_step, reader_step, writer_step, Tasks

\* cpu follows preempt_disable() and preempt_enable().
LEMMA PreStep ==
  ASSUME pc \in [Tasks -> PC], ctx \in [Tasks -> CTX],
         cpu \in [Tasks -> CPUS \cup {NULL}], Preemption, [Next]_vars
  PROVE  Preemption'
<1> USE PercpuAssumption, TasksAssumption DEF Goto, Jump, preempt_disable,
      preempt_enable, this_cpu_add, ReadLocked, Prodded, UnlockWaiters, semvars,
      rsp, rcuvars, queue, semrest, locals, rssvars, gpvars, rcu_read_unlock,
      wake_up, rcu_sync_enter, synchronize_rcu, rcu_sync_func, rcu_sync_call,
      prepare_to_wait_event, finish_wait, rcu_sync_exit, rcu_sync_dtor,
      rcu_callback, Preemption, FastPc, TryPc, WakePc, FreePc
<1>1. ASSUME NEW r \in Readers, NEW c \in CPUS, NEW k \in {"first", "try"},
             down_read(r, c, k)
      PROVE  Preemption'
  BY <1>1 DEF down_read
<1>2. ASSUME NEW r \in Readers, fast_inc(r) PROVE Preemption'
  BY <1>2 DEF fast_inc
<1>3. ASSUME NEW r \in Readers, NEW c \in CPUS, up_read(r, c) PROVE Preemption'
  BY <1>3 DEF up_read
<1>4. ASSUME NEW r \in Readers, fast_dec(r) PROVE Preemption'
  BY <1>4 DEF fast_dec
<1>5. ASSUME NEW r \in Readers, NEW c \in CPUS, wait_lock_reader(r, c)
      PROVE  Preemption'
  BY <1>5 DEF wait_lock_reader
<1>6. ASSUME NEW t \in Tasks, inc(t) PROVE Preemption'
  BY <1>6 DEF inc
<1>7. ASSUME NEW t \in Tasks, test_block(t) PROVE Preemption'
  BY <1>7 DEF test_block
<1>8. ASSUME NEW t \in Tasks, dec(t) PROVE Preemption'
  BY <1>8 DEF dec
<1>9. ASSUME NEW t \in Tasks, prod(t) PROVE Preemption'
  BY <1>9 DEF prod
<1>10. ASSUME NEW t \in Tasks, prod_wake(t) PROVE Preemption'
  BY <1>10 DEF prod_wake
<1>11. ASSUME NEW t \in Tasks, set_state(t) PROVE Preemption'
  BY <1>11 DEF set_state
<1>12. ASSUME NEW t \in Tasks, check(t) PROVE Preemption'
  BY <1>12 DEF check
<1>13. ASSUME NEW t \in Tasks, schedule(t, "asleep", "set_state")
       PROVE  Preemption'
  BY <1>13 DEF schedule
<1>14. ASSUME NEW w \in Writers, down_write(w) PROVE Preemption'
  BY <1>14 DEF down_write
<1>15. ASSUME NEW w \in Writers, free_rwsem(w) PROVE Preemption'
  BY <1>15 DEF free_rwsem
<1>16. ASSUME NEW w \in Writers, sync(w) PROVE Preemption'
  BY <1>16 DEF sync
<1>17. ASSUME NEW w \in Writers, gp_cond(w) PROVE Preemption'
  BY <1>17 DEF gp_cond
<1>18. ASSUME NEW w \in Writers, gp_prepare(w) PROVE Preemption'
  BY <1>18 DEF gp_prepare
<1>19. ASSUME NEW w \in Writers, gp_check(w) PROVE Preemption'
  BY <1>19 DEF gp_check
<1>20. ASSUME NEW w \in Writers, schedule(w, "gp_asleep", "gp_prepare")
       PROVE  Preemption'
  BY <1>20 DEF schedule
<1>21. ASSUME NEW w \in Writers, try_block(w) PROVE Preemption'
  BY <1>21 DEF try_block
<1>22. ASSUME NEW w \in Writers, wait_lock_writer(w) PROVE Preemption'
  BY <1>22 DEF wait_lock_writer
<1>23. ASSUME NEW w \in Writers, prepare_to_rcuwait(w) PROVE Preemption'
  BY <1>23 DEF prepare_to_rcuwait
<1>24. ASSUME NEW w \in Writers, rcuwait(w) PROVE Preemption'
  BY <1>24 DEF rcuwait
<1>25. ASSUME NEW w \in Writers, per_cpu_sum(w) PROVE Preemption'
  BY <1>25 DEF per_cpu_sum
<1>26. ASSUME NEW w \in Writers, finish_rcuwait(w) PROVE Preemption'
  BY <1>26 DEF finish_rcuwait
<1>27. ASSUME NEW w \in Writers, schedule(w, "rcuwait_asleep", "rcuwait")
       PROVE  Preemption'
  BY <1>27 DEF schedule
<1>28. ASSUME NEW w \in Writers, up_write(w) PROVE Preemption'
  BY <1>28 DEF up_write
<1>29. ASSUME NEW w \in Writers, wake_next(w) PROVE Preemption'
  BY <1>29 DEF wake_next
<1>30. ASSUME NEW w \in Writers, wake_process(w) PROVE Preemption'
  BY <1>30 DEF wake_process
<1>31. ASSUME NEW w \in Writers, exit(w) PROVE Preemption'
  BY <1>31 DEF exit
<1>32. ASSUME NEW w \in Writers, rcu_barrier(w) PROVE Preemption'
  BY <1>32 DEF rcu_barrier
<1>33. ASSUME NEW w \in Writers, init_rwsem(w) PROVE Preemption'
  BY <1>33 DEF init_rwsem
<1>34. ASSUME NEW w \in Writers, NEW c \in CPUS, wake_lock(w, c)
       PROVE  Preemption'
  BY <1>34 DEF wake_lock
<1>35. ASSUME callback PROVE Preemption'
  BY <1>35 DEF callback
<1>36. CASE UNCHANGED vars
  BY <1>36 DEF vars
<1> HIDE DEF Goto, Jump, preempt_disable, preempt_enable, this_cpu_add,
      ReadLocked, Prodded, UnlockWaiters, semvars, rsp, rcuvars, queue, semrest,
      locals, rssvars, gpvars, rcu_read_unlock, wake_up, rcu_sync_enter,
      synchronize_rcu, rcu_sync_func, rcu_sync_call, prepare_to_wait_event,
      finish_wait, rcu_sync_exit, rcu_sync_dtor, rcu_callback, Preemption,
      FastPc, TryPc, WakePc, FreePc
<1> QED BY <1>1, <1>2, <1>3, <1>4, <1>5, <1>6, <1>7, <1>8, <1>9, <1>10, <1>11,
      <1>12, <1>13, <1>14, <1>15, <1>16, <1>17, <1>18, <1>19, <1>20, <1>21,
      <1>22, <1>23, <1>24, <1>25, <1>26, <1>27, <1>28, <1>29, <1>30, <1>31,
      <1>32, <1>33, <1>34, <1>35, <1>36 DEF Next, Start, Continue,
      trylock_step, wait_step, reader_step, writer_step, Tasks

\* waiters.lock is held by the task that is under it.
LEMMA LockStep ==
  ASSUME pc \in [Tasks -> PC], ctx \in [Tasks -> CTX],
         wq_lock \in Tasks \cup {NULL}, QueueLock, [Next]_vars
  PROVE  QueueLock'
<1> USE TasksAssumption DEF Goto, Jump, preempt_disable, preempt_enable,
      this_cpu_add, ReadLocked, Prodded, UnlockWaiters, semvars, rsp, rcuvars,
      queue, semrest, locals, rssvars, gpvars, rcu_read_unlock, wake_up,
      rcu_sync_enter, synchronize_rcu, rcu_sync_func, rcu_sync_call,
      prepare_to_wait_event, finish_wait, rcu_sync_exit, rcu_sync_dtor,
      rcu_callback, QueueLock, UnderLock, WakePc, TryPc, FreePc, Tasks
<1>0. started' = started
  BY DEF Next, vars
<1>1. ASSUME NEW r \in Readers, NEW c \in CPUS, NEW k \in {"first", "try"},
             down_read(r, c, k)
      PROVE  QueueLock'
  BY <1>0, <1>1 DEF down_read
<1>2. ASSUME NEW r \in Readers, fast_inc(r) PROVE QueueLock'
  BY <1>0, <1>2 DEF fast_inc
<1>3. ASSUME NEW r \in Readers, NEW c \in CPUS, up_read(r, c) PROVE QueueLock'
  BY <1>0, <1>3 DEF up_read
<1>4. ASSUME NEW r \in Readers, fast_dec(r) PROVE QueueLock'
  BY <1>0, <1>4 DEF fast_dec
<1>5. ASSUME NEW r \in Readers, NEW c \in CPUS, wait_lock_reader(r, c)
      PROVE  QueueLock'
  BY <1>0, <1>5 DEF wait_lock_reader
<1>6. ASSUME NEW t \in Tasks, inc(t) PROVE QueueLock'
  BY <1>0, <1>6 DEF inc
<1>7. ASSUME NEW t \in Tasks, test_block(t) PROVE QueueLock'
  BY <1>0, <1>7 DEF test_block
<1>8. ASSUME NEW t \in Tasks, dec(t) PROVE QueueLock'
  BY <1>0, <1>8 DEF dec
<1>9. ASSUME NEW t \in Tasks, prod(t) PROVE QueueLock'
  BY <1>0, <1>9 DEF prod
<1>10. ASSUME NEW t \in Tasks, prod_wake(t) PROVE QueueLock'
  BY <1>0, <1>10 DEF prod_wake
<1>11. ASSUME NEW t \in Tasks, set_state(t) PROVE QueueLock'
  BY <1>0, <1>11 DEF set_state
<1>12. ASSUME NEW t \in Tasks, check(t) PROVE QueueLock'
  BY <1>0, <1>12 DEF check
<1>13. ASSUME NEW t \in Tasks, schedule(t, "asleep", "set_state")
       PROVE  QueueLock'
  BY <1>0, <1>13 DEF schedule
<1>14. ASSUME NEW w \in Writers, down_write(w) PROVE QueueLock'
  BY <1>0, <1>14 DEF down_write
<1>15. ASSUME NEW w \in Writers, free_rwsem(w) PROVE QueueLock'
  BY <1>0, <1>15 DEF free_rwsem
<1>16. ASSUME NEW w \in Writers, sync(w) PROVE QueueLock'
  BY <1>0, <1>16 DEF sync
<1>17. ASSUME NEW w \in Writers, gp_cond(w) PROVE QueueLock'
  BY <1>0, <1>17 DEF gp_cond
<1>18. ASSUME NEW w \in Writers, gp_prepare(w) PROVE QueueLock'
  BY <1>0, <1>18 DEF gp_prepare
<1>19. ASSUME NEW w \in Writers, gp_check(w) PROVE QueueLock'
  BY <1>0, <1>19 DEF gp_check
<1>20. ASSUME NEW w \in Writers, schedule(w, "gp_asleep", "gp_prepare")
       PROVE  QueueLock'
  BY <1>0, <1>20 DEF schedule
<1>21. ASSUME NEW w \in Writers, try_block(w) PROVE QueueLock'
  BY <1>0, <1>21 DEF try_block
<1>22. ASSUME NEW w \in Writers, wait_lock_writer(w) PROVE QueueLock'
  BY <1>0, <1>22 DEF wait_lock_writer
<1>23. ASSUME NEW w \in Writers, prepare_to_rcuwait(w) PROVE QueueLock'
  BY <1>0, <1>23 DEF prepare_to_rcuwait
<1>24. ASSUME NEW w \in Writers, rcuwait(w) PROVE QueueLock'
  BY <1>0, <1>24 DEF rcuwait
<1>25. ASSUME NEW w \in Writers, per_cpu_sum(w) PROVE QueueLock'
  BY <1>0, <1>25 DEF per_cpu_sum
<1>26. ASSUME NEW w \in Writers, finish_rcuwait(w) PROVE QueueLock'
  BY <1>0, <1>26 DEF finish_rcuwait
<1>27. ASSUME NEW w \in Writers, schedule(w, "rcuwait_asleep", "rcuwait")
       PROVE  QueueLock'
  BY <1>0, <1>27 DEF schedule
<1>28. ASSUME NEW w \in Writers, up_write(w) PROVE QueueLock'
  BY <1>0, <1>28 DEF up_write
<1>29. ASSUME NEW w \in Writers, wake_next(w) PROVE QueueLock'
  BY <1>0, <1>29 DEF wake_next
<1>30. ASSUME NEW w \in Writers, wake_process(w) PROVE QueueLock'
  BY <1>0, <1>30 DEF wake_process
<1>31. ASSUME NEW w \in Writers, exit(w) PROVE QueueLock'
  BY <1>0, <1>31 DEF exit
<1>32. ASSUME NEW w \in Writers, rcu_barrier(w) PROVE QueueLock'
  BY <1>0, <1>32 DEF rcu_barrier
<1>33. ASSUME NEW w \in Writers, init_rwsem(w) PROVE QueueLock'
  BY <1>0, <1>33 DEF init_rwsem
<1>34. ASSUME NEW w \in Writers, NEW c \in CPUS, wake_lock(w, c)
       PROVE  QueueLock'
  BY <1>0, <1>34 DEF wake_lock
<1>35. ASSUME callback PROVE QueueLock'
  BY <1>0, <1>35 DEF callback
<1>36. CASE UNCHANGED vars
  BY <1>36 DEF vars
<1> HIDE DEF Goto, Jump, preempt_disable, preempt_enable, this_cpu_add,
      ReadLocked, Prodded, UnlockWaiters, semvars, rsp, rcuvars, queue, semrest,
      locals, rssvars, gpvars, rcu_read_unlock, wake_up, rcu_sync_enter,
      synchronize_rcu, rcu_sync_func, rcu_sync_call, prepare_to_wait_event,
      finish_wait, rcu_sync_exit, rcu_sync_dtor, rcu_callback, QueueLock,
      UnderLock, WakePc, TryPc, FreePc, Tasks
<1> QED BY <1>1, <1>2, <1>3, <1>4, <1>5, <1>6, <1>7, <1>8, <1>9, <1>10, <1>11,
      <1>12, <1>13, <1>14, <1>15, <1>16, <1>17, <1>18, <1>19, <1>20, <1>21,
      <1>22, <1>23, <1>24, <1>25, <1>26, <1>27, <1>28, <1>29, <1>30, <1>31,
      <1>32, <1>33, <1>34, <1>35, <1>36 DEF Next, Start, Continue,
      trylock_step, wait_step, reader_step, writer_step, Tasks

\* A task is queued once, while it waits; nobody but the holder of waiters.lock
\* changes the queue, so the head a waker looked at is still the head when its
\* trylock succeeds.
LEMMA QueueStep ==
  ASSUME pc \in [Tasks -> PC], ctx \in [Tasks -> CTX],
         wq_lock \in Tasks \cup {NULL}, waiters \in Seq(Tasks), Kinds,
         QueueLock, Queue, Life, [Next]_vars
  PROVE  Queue'
<1> USE TasksAssumption DEF Goto, Jump, preempt_disable, preempt_enable,
      this_cpu_add, ReadLocked, Prodded, UnlockWaiters, semvars, rsp, rcuvars,
      queue, semrest, locals, rssvars, gpvars, rcu_read_unlock, wake_up,
      rcu_sync_enter, synchronize_rcu, rcu_sync_func, rcu_sync_call,
      prepare_to_wait_event, finish_wait, rcu_sync_exit, rcu_sync_dtor,
      rcu_callback, Queue, Kinds, QueueLock, UnderLock, Life, Tasks, WakePc,
      TryPc, WaitPc, FreePc
<1>0. started' = started
  BY DEF Next, vars
<1>0q. waiters' = waiters => Waiting' = Waiting /\ (Distinct => Distinct')
  BY DEF Waiting, Distinct
<1>1. ASSUME NEW r \in Readers, NEW c \in CPUS, NEW k \in {"first", "try"},
             down_read(r, c, k)
      PROVE  Queue'
  BY <1>0, <1>0q, <1>1 DEF down_read
<1>2. ASSUME NEW r \in Readers, fast_inc(r) PROVE Queue'
  BY <1>0, <1>0q, <1>2 DEF fast_inc
<1>3. ASSUME NEW r \in Readers, NEW c \in CPUS, up_read(r, c) PROVE Queue'
  BY <1>0, <1>0q, <1>3 DEF up_read
<1>4. ASSUME NEW r \in Readers, fast_dec(r) PROVE Queue'
  BY <1>0, <1>0q, <1>4 DEF fast_dec
<1>5. ASSUME NEW r \in Readers, NEW c \in CPUS, wait_lock_reader(r, c)
      PROVE  Queue'
  BY <1>0, <1>0q, <1>5 DEF wait_lock_reader
<1>6. ASSUME NEW t \in Tasks, inc(t) PROVE Queue'
  BY <1>0, <1>0q, <1>6 DEF inc
<1>7. ASSUME NEW t \in Tasks, test_block(t) PROVE Queue'
  <2>1. CASE waiters' = waiters
    <3>1. /\ waiters' = waiters /\ pc[t] = "block"
          /\ \E l \in {"read", "dec"} : pc' = [pc EXCEPT ![t] = l]
      BY <1>7, <2>1 DEF test_block
    <3> QED BY <1>0q, <3>1
  <2>2. CASE waiters' # waiters
    <3>1. /\ waiters # <<>> /\ waiters' = Tail(waiters)
          /\ pc' = [pc EXCEPT ![t] = "wake_process"] /\ wq_lock = t
      BY <1>7, <2>2 DEF test_block
    <3>2. Distinct' /\ Waiting' = Waiting \ {Head(waiters)}
      BY <3>1, QueueTail
    <3> QED BY <3>1, <3>2
  <2> QED BY <2>1, <2>2
<1>8. ASSUME NEW t \in Tasks, dec(t) PROVE Queue'
  BY <1>0, <1>0q, <1>8 DEF dec
<1>9. ASSUME NEW t \in Tasks, prod(t) PROVE Queue'
  <2>1. CASE waiters' = waiters
    <3>1. /\ waiters' = waiters /\ pc[t] = "prod"
          /\ \E l \in {"idle", "wait_lock", "exit", "prod_wake"} :
               pc' = [pc EXCEPT ![t] = l]
      BY <1>9, <2>1 DEF prod
    <3> QED BY <1>0q, <3>1
  <2>2. CASE waiters' # waiters
    <3>1. /\ t \notin Waiting /\ waiters' = Append(waiters, t)
          /\ pc' = [pc EXCEPT ![t] = "set_state"]
      BY <1>9, <2>2 DEF prod
    <3>2. Distinct' /\ Waiting' = Waiting \cup {t} /\ waiters' # <<>>
          /\ (waiters # <<>> => Head(waiters') = Head(waiters))
      BY <3>1, QueueAdd
    <3> QED BY <3>1, <3>2
  <2> QED BY <2>1, <2>2
<1>10. ASSUME NEW t \in Tasks, prod_wake(t) PROVE Queue'
  <2>1. CASE waiters' = waiters
    <3>1. /\ waiters' = waiters /\ pc[t] = "prod_wake"
          /\ \E l \in {"idle", "wait_lock", "exit", "prod_wake"} :
               pc' = [pc EXCEPT ![t] = l]
      BY <1>10, <2>1 DEF prod_wake
    <3> QED BY <1>0q, <3>1
  <2>2. CASE waiters' # waiters
    <3>1. /\ t \notin Waiting /\ waiters' = Append(waiters, t)
          /\ pc' = [pc EXCEPT ![t] = "set_state"]
      BY <1>10, <2>2 DEF prod_wake
    <3>2. Distinct' /\ Waiting' = Waiting \cup {t} /\ waiters' # <<>>
          /\ (waiters # <<>> => Head(waiters') = Head(waiters))
      BY <3>1, QueueAdd
    <3> QED BY <3>1, <3>2
  <2> QED BY <2>1, <2>2
<1>11. ASSUME NEW t \in Tasks, set_state(t) PROVE Queue'
  BY <1>0, <1>0q, <1>11 DEF set_state
<1>12. ASSUME NEW t \in Tasks, check(t) PROVE Queue'
  <2>1. /\ waiters' = waiters /\ pc[t] = "check"
        /\ \E l \in {"read", "prepare", "asleep"} :
             pc' = [pc EXCEPT ![t] = l] /\ (l = "asleep" \/ t \notin Waiting)
    BY <1>12 DEF check
  <2> QED BY <1>0q, <2>1
<1>13. ASSUME NEW t \in Tasks, schedule(t, "asleep", "set_state") PROVE Queue'
  BY <1>0, <1>0q, <1>13 DEF schedule
<1>14. ASSUME NEW w \in Writers, down_write(w) PROVE Queue'
  BY <1>0, <1>0q, <1>14 DEF down_write
<1>15. ASSUME NEW w \in Writers, free_rwsem(w) PROVE Queue'
  BY <1>0, <1>0q, <1>15 DEF free_rwsem
<1>16. ASSUME NEW w \in Writers, sync(w) PROVE Queue'
  BY <1>0, <1>0q, <1>16 DEF sync
<1>17. ASSUME NEW w \in Writers, gp_cond(w) PROVE Queue'
  BY <1>0, <1>0q, <1>17 DEF gp_cond
<1>18. ASSUME NEW w \in Writers, gp_prepare(w) PROVE Queue'
  BY <1>0, <1>0q, <1>18 DEF gp_prepare
<1>19. ASSUME NEW w \in Writers, gp_check(w) PROVE Queue'
  <2>1. /\ waiters' = waiters /\ pc[w] = "gp_check"
        /\ \E l \in {"try_block", "gp_asleep"} : pc' = [pc EXCEPT ![w] = l]
    BY <1>19 DEF gp_check
  <2> QED BY <1>0q, <2>1
<1>20. ASSUME NEW w \in Writers, schedule(w, "gp_asleep", "gp_prepare")
       PROVE  Queue'
  BY <1>0, <1>0q, <1>20 DEF schedule
<1>21. ASSUME NEW w \in Writers, try_block(w) PROVE Queue'
  BY <1>0, <1>0q, <1>21 DEF try_block
<1>22. ASSUME NEW w \in Writers, wait_lock_writer(w) PROVE Queue'
  <2>1. CASE waiters' = waiters
    <3>1. /\ waiters' = waiters /\ pc[w] = "wait_lock"
          /\ \E l \in {"prepare"} : pc' = [pc EXCEPT ![w] = l]
      BY <1>22, <2>1 DEF wait_lock_writer
    <3> QED BY <1>0q, <3>1
  <2>2. CASE waiters' # waiters
    <3>1. /\ w \notin Waiting /\ waiters' = Append(waiters, w)
          /\ pc' = [pc EXCEPT ![w] = "set_state"]
      BY <1>22, <2>2 DEF wait_lock_writer
    <3>2. Distinct' /\ Waiting' = Waiting \cup {w} /\ waiters' # <<>>
          /\ (waiters # <<>> => Head(waiters') = Head(waiters))
      BY <3>1, QueueAdd
    <3> QED BY <3>1, <3>2
  <2> QED BY <2>1, <2>2
<1>23. ASSUME NEW w \in Writers, prepare_to_rcuwait(w) PROVE Queue'
  BY <1>0, <1>0q, <1>23 DEF prepare_to_rcuwait
<1>24. ASSUME NEW w \in Writers, rcuwait(w) PROVE Queue'
  BY <1>0, <1>0q, <1>24 DEF rcuwait
<1>25. ASSUME NEW w \in Writers, per_cpu_sum(w) PROVE Queue'
  BY <1>0, <1>0q, <1>25 DEF per_cpu_sum
<1>26. ASSUME NEW w \in Writers, finish_rcuwait(w) PROVE Queue'
  BY <1>0, <1>0q, <1>26 DEF finish_rcuwait
<1>27. ASSUME NEW w \in Writers, schedule(w, "rcuwait_asleep", "rcuwait")
       PROVE  Queue'
  BY <1>0, <1>0q, <1>27 DEF schedule
<1>28. ASSUME NEW w \in Writers, up_write(w) PROVE Queue'
  BY <1>0, <1>0q, <1>28 DEF up_write
<1>29. ASSUME NEW w \in Writers, wake_next(w) PROVE Queue'
  <2>1. CASE waiters' = waiters
    <3>1. /\ waiters' = waiters /\ pc[w] = "wake_next"
          /\ \E l \in {"inc", "exit"} :
               pc' = [pc EXCEPT ![w] = l] /\ (l = "inc" => waiters # <<>> /\ Head(waiters) \in Readers)
      BY <1>29, <2>1 DEF wake_next
    <3> QED BY <1>0q, <3>1
  <2>2. CASE waiters' # waiters
    <3>1. /\ waiters # <<>> /\ waiters' = Tail(waiters)
          /\ pc' = [pc EXCEPT ![w] = "wake_process"] /\ wq_lock = w
      BY <1>29, <2>2 DEF wake_next
    <3>2. Distinct' /\ Waiting' = Waiting \ {Head(waiters)}
      BY <3>1, QueueTail
    <3> QED BY <3>1, <3>2
  <2> QED BY <2>1, <2>2
<1>30. ASSUME NEW w \in Writers, wake_process(w) PROVE Queue'
  <2>1. /\ waiters' = waiters /\ pc[w] = "wake_process"
        /\ \E l \in {"wake_next", "wake_lock", "exit"} : pc' = [pc EXCEPT ![w] = l]
    BY <1>30 DEF wake_process
  <2> QED BY <1>0q, <2>1
<1>31. ASSUME NEW w \in Writers, exit(w) PROVE Queue'
  BY <1>0, <1>0q, <1>31 DEF exit
<1>32. ASSUME NEW w \in Writers, rcu_barrier(w) PROVE Queue'
  BY <1>0, <1>0q, <1>32 DEF rcu_barrier
<1>33. ASSUME NEW w \in Writers, init_rwsem(w) PROVE Queue'
  <2>1. waiters' = <<>> /\ pc' = [pc EXCEPT ![w] = "idle"]
    BY <1>33 DEF init_rwsem
  <2>2. Waiting' = {} /\ Distinct'
    BY <2>1 DEF Waiting, Range, Distinct
  <2> QED BY <1>33, <2>1, <2>2 DEF init_rwsem
<1>34. ASSUME NEW w \in Writers, NEW c \in CPUS, wake_lock(w, c) PROVE Queue'
  BY <1>0, <1>0q, <1>34 DEF wake_lock
<1>35. ASSUME callback PROVE Queue'
  <2>1. waiters' = waiters
    BY <1>35 DEF callback
  <2>2. \A t \in Waiting : t \in Tasks
    BY DEF Waiting, Range
  <2>3. \A t \in Tasks : pc'[t] = pc[t] \/ (pc[t] = "barrier" /\ pc'[t] = "freed")
    BY <1>35, CallbackMoves
  <2> QED BY <1>0q, <2>1, <2>2, <2>3
<1>36. CASE UNCHANGED vars
  BY <1>0q, <1>36 DEF vars
<1> HIDE DEF Goto, Jump, preempt_disable, preempt_enable, this_cpu_add,
      ReadLocked, Prodded, UnlockWaiters, semvars, rsp, rcuvars, queue, semrest,
      locals, rssvars, gpvars, rcu_read_unlock, wake_up, rcu_sync_enter,
      synchronize_rcu, rcu_sync_func, rcu_sync_call, prepare_to_wait_event,
      finish_wait, rcu_sync_exit, rcu_sync_dtor, rcu_callback, Queue, Kinds,
      QueueLock, UnderLock, Life, Tasks, WakePc, TryPc, WaitPc, FreePc
<1> QED BY <1>1, <1>2, <1>3, <1>4, <1>5, <1>6, <1>7, <1>8, <1>9, <1>10, <1>11,
      <1>12, <1>13, <1>14, <1>15, <1>16, <1>17, <1>18, <1>19, <1>20, <1>21,
      <1>22, <1>23, <1>24, <1>25, <1>26, <1>27, <1>28, <1>29, <1>30, <1>31,
      <1>32, <1>33, <1>34, <1>35, <1>36 DEF Next, Start, Continue,
      trylock_step, wait_step, reader_step, writer_step, Tasks

\* block has one owner, also when it passes from a waker to the writer it
\* wakes.
LEMMA OwnStep ==
  ASSUME pc \in [Tasks -> PC], ctx \in [Tasks -> CTX],
         wq_lock \in Tasks \cup {NULL}, waiters \in Seq(Tasks),
         block \in {0, 1}, Kinds, QueueLock, Queue, Ownership, Life, [Next]_vars
  PROVE  Ownership'
<1> USE TasksAssumption DEF Goto, Jump, preempt_disable, preempt_enable,
      this_cpu_add, ReadLocked, Prodded, UnlockWaiters, semvars, rsp, rcuvars,
      queue, semrest, locals, rssvars, gpvars, rcu_read_unlock, wake_up,
      rcu_sync_enter, synchronize_rcu, rcu_sync_func, rcu_sync_call,
      prepare_to_wait_event, finish_wait, rcu_sync_exit, rcu_sync_dtor,
      rcu_callback, Ownership, Owns, Queue, Life, Kinds, Tasks, WaitPc, FreePc,
      TryPc, RcuwaitPc, QueueLock, UnderLock, WakePc
<1>0. started' = started
  BY DEF Next, vars
<1>0q. waiters' = waiters => Waiting' = Waiting /\ (Distinct => Distinct')
  BY DEF Waiting, Distinct
<1>1. ASSUME NEW r \in Readers, NEW c \in CPUS, NEW k \in {"first", "try"},
             down_read(r, c, k)
      PROVE  Ownership'
  BY <1>0, <1>0q, <1>1 DEF down_read
<1>2. ASSUME NEW r \in Readers, fast_inc(r) PROVE Ownership'
  BY <1>0, <1>0q, <1>2 DEF fast_inc
<1>3. ASSUME NEW r \in Readers, NEW c \in CPUS, up_read(r, c) PROVE Ownership'
  BY <1>0, <1>0q, <1>3 DEF up_read
<1>4. ASSUME NEW r \in Readers, fast_dec(r) PROVE Ownership'
  BY <1>0, <1>0q, <1>4 DEF fast_dec
<1>5. ASSUME NEW r \in Readers, NEW c \in CPUS, wait_lock_reader(r, c)
      PROVE  Ownership'
  BY <1>0, <1>0q, <1>5 DEF wait_lock_reader
<1>6. ASSUME NEW t \in Tasks, inc(t) PROVE Ownership'
  BY <1>0, <1>0q, <1>6 DEF inc
<1>7. ASSUME NEW t \in Tasks, test_block(t) PROVE Ownership'
  <2>1. CASE waiters' = waiters
    BY <1>7, <1>0q, <2>1 DEF test_block
  <2>2. CASE waiters' # waiters
    <3>1. /\ waiters # <<>> /\ waiters' = Tail(waiters)
          /\ pc' = [pc EXCEPT ![t] = "wake_process"] /\ block' = block
          /\ Head(waiters) \in Readers /\ pc[t] = "block"
      BY <1>7, <2>2 DEF test_block
    <3>2. Distinct' /\ Waiting' = Waiting \ {Head(waiters)}
      BY <3>1, QueueTail
    <3> QED BY <3>1, <3>2
  <2> QED BY <2>1, <2>2
<1>8. ASSUME NEW t \in Tasks, dec(t) PROVE Ownership'
  BY <1>0, <1>0q, <1>8 DEF dec
<1>9. ASSUME NEW t \in Tasks, prod(t) PROVE Ownership'
  <2>1. CASE waiters' = waiters
    BY <1>9, <1>0q, <2>1 DEF prod
  <2>2. CASE waiters' # waiters
    <3>1. /\ t \notin Waiting /\ waiters' = Append(waiters, t)
          /\ pc' = [pc EXCEPT ![t] = "set_state"] /\ block' = block
      BY <1>9, <2>2 DEF prod
    <3>2. Distinct' /\ Waiting' = Waiting \cup {t} /\ waiters' # <<>>
          /\ (waiters # <<>> => Head(waiters') = Head(waiters))
      BY <3>1, QueueAdd
    <3> QED BY <3>1, <3>2
  <2> QED BY <2>1, <2>2
<1>10. ASSUME NEW t \in Tasks, prod_wake(t) PROVE Ownership'
  <2>1. CASE waiters' = waiters
    BY <1>10, <1>0q, <2>1 DEF prod_wake
  <2>2. CASE waiters' # waiters
    <3>1. /\ t \notin Waiting /\ waiters' = Append(waiters, t)
          /\ pc' = [pc EXCEPT ![t] = "set_state"] /\ block' = block
      BY <1>10, <2>2 DEF prod_wake
    <3>2. Distinct' /\ Waiting' = Waiting \cup {t} /\ waiters' # <<>>
          /\ (waiters # <<>> => Head(waiters') = Head(waiters))
      BY <3>1, QueueAdd
    <3> QED BY <3>1, <3>2
  <2> QED BY <2>1, <2>2
<1>11. ASSUME NEW t \in Tasks, set_state(t) PROVE Ownership'
  BY <1>0, <1>0q, <1>11 DEF set_state
<1>12. ASSUME NEW t \in Tasks, check(t) PROVE Ownership'
  BY <1>0, <1>0q, <1>12 DEF check
<1>13. ASSUME NEW t \in Tasks, schedule(t, "asleep", "set_state")
       PROVE  Ownership'
  BY <1>0, <1>0q, <1>13 DEF schedule
<1>14. ASSUME NEW w \in Writers, down_write(w) PROVE Ownership'
  BY <1>0, <1>0q, <1>14 DEF down_write
<1>15. ASSUME NEW w \in Writers, free_rwsem(w) PROVE Ownership'
  BY <1>0, <1>0q, <1>15 DEF free_rwsem
<1>16. ASSUME NEW w \in Writers, sync(w) PROVE Ownership'
  BY <1>0, <1>0q, <1>16 DEF sync
<1>17. ASSUME NEW w \in Writers, gp_cond(w) PROVE Ownership'
  BY <1>0, <1>0q, <1>17 DEF gp_cond
<1>18. ASSUME NEW w \in Writers, gp_prepare(w) PROVE Ownership'
  BY <1>0, <1>0q, <1>18 DEF gp_prepare
<1>19. ASSUME NEW w \in Writers, gp_check(w) PROVE Ownership'
  BY <1>0, <1>0q, <1>19 DEF gp_check
<1>20. ASSUME NEW w \in Writers, schedule(w, "gp_asleep", "gp_prepare")
       PROVE  Ownership'
  BY <1>0, <1>0q, <1>20 DEF schedule
<1>21. ASSUME NEW w \in Writers, try_block(w) PROVE Ownership'
  BY <1>0, <1>0q, <1>21 DEF try_block
<1>22. ASSUME NEW w \in Writers, wait_lock_writer(w) PROVE Ownership'
  <2>1. CASE waiters' = waiters
    BY <1>22, <1>0q, <2>1 DEF wait_lock_writer
  <2>2. CASE waiters' # waiters
    <3>1. /\ w \notin Waiting /\ waiters' = Append(waiters, w)
          /\ pc' = [pc EXCEPT ![w] = "set_state"] /\ block' = block
      BY <1>22, <2>2 DEF wait_lock_writer
    <3>2. Distinct' /\ Waiting' = Waiting \cup {w} /\ waiters' # <<>>
          /\ (waiters # <<>> => Head(waiters') = Head(waiters))
      BY <3>1, QueueAdd
    <3> QED BY <3>1, <3>2
  <2> QED BY <2>1, <2>2
<1>23. ASSUME NEW w \in Writers, prepare_to_rcuwait(w) PROVE Ownership'
  BY <1>0, <1>0q, <1>23 DEF prepare_to_rcuwait
<1>24. ASSUME NEW w \in Writers, rcuwait(w) PROVE Ownership'
  BY <1>0, <1>0q, <1>24 DEF rcuwait
<1>25. ASSUME NEW w \in Writers, per_cpu_sum(w) PROVE Ownership'
  BY <1>0, <1>0q, <1>25 DEF per_cpu_sum
<1>26. ASSUME NEW w \in Writers, finish_rcuwait(w) PROVE Ownership'
  BY <1>0, <1>0q, <1>26 DEF finish_rcuwait
<1>27. ASSUME NEW w \in Writers, schedule(w, "rcuwait_asleep", "rcuwait")
       PROVE  Ownership'
  BY <1>0, <1>0q, <1>27 DEF schedule
<1>28. ASSUME NEW w \in Writers, up_write(w) PROVE Ownership'
  BY <1>0, <1>0q, <1>28 DEF up_write
<1>29. ASSUME NEW w \in Writers, wake_next(w) PROVE Ownership'
  <2>1. CASE waiters' = waiters
    BY <1>29, <1>0q, <2>1 DEF wake_next
  <2>2. CASE waiters' # waiters
    <3>1. /\ waiters # <<>> /\ waiters' = Tail(waiters)
          /\ pc' = [pc EXCEPT ![w] = "wake_process"] /\ block = 0 /\ block' = 1
          /\ Head(waiters) \in Writers /\ pc[w] = "wake_next"
      BY <1>29, <2>2 DEF wake_next
    <3>2. pc[Head(waiters)] \in WaitPc /\ Waiting' = Waiting \ {Head(waiters)}
      BY <3>1, QueueTail
    <3> QED BY <3>1, <3>2
  <2> QED BY <2>1, <2>2
<1>30. ASSUME NEW w \in Writers, wake_process(w) PROVE Ownership'
  BY <1>0, <1>0q, <1>30 DEF wake_process
<1>31. ASSUME NEW w \in Writers, exit(w) PROVE Ownership'
  BY <1>0, <1>0q, <1>31 DEF exit
<1>32. ASSUME NEW w \in Writers, rcu_barrier(w) PROVE Ownership'
  BY <1>0, <1>0q, <1>32 DEF rcu_barrier
<1>33. ASSUME NEW w \in Writers, init_rwsem(w) PROVE Ownership'
  <2>1. waiters' = <<>> /\ pc' = [pc EXCEPT ![w] = "idle"]
    BY <1>33 DEF init_rwsem
  <2>2. Waiting' = {} /\ Distinct'
    BY <2>1 DEF Waiting, Range, Distinct
  <2> QED BY <1>33, <2>1, <2>2 DEF init_rwsem
<1>34. ASSUME NEW w \in Writers, NEW c \in CPUS, wake_lock(w, c)
       PROVE  Ownership'
  BY <1>0, <1>0q, <1>34 DEF wake_lock
<1>35. ASSUME callback PROVE Ownership'
  BY <1>0, <1>0q, <1>35 DEF callback
<1>36. CASE UNCHANGED vars
  BY <1>0q, <1>36 DEF vars
<1> HIDE DEF Goto, Jump, preempt_disable, preempt_enable, this_cpu_add,
      ReadLocked, Prodded, UnlockWaiters, semvars, rsp, rcuvars, queue, semrest,
      locals, rssvars, gpvars, rcu_read_unlock, wake_up, rcu_sync_enter,
      synchronize_rcu, rcu_sync_func, rcu_sync_call, prepare_to_wait_event,
      finish_wait, rcu_sync_exit, rcu_sync_dtor, rcu_callback, Ownership, Owns,
      Queue, Life, Kinds, Tasks, WaitPc, FreePc, TryPc, RcuwaitPc, QueueLock,
      UnderLock, WakePc
<1> QED BY <1>1, <1>2, <1>3, <1>4, <1>5, <1>6, <1>7, <1>8, <1>9, <1>10, <1>11,
      <1>12, <1>13, <1>14, <1>15, <1>16, <1>17, <1>18, <1>19, <1>20, <1>21,
      <1>22, <1>23, <1>24, <1>25, <1>26, <1>27, <1>28, <1>29, <1>30, <1>31,
      <1>32, <1>33, <1>34, <1>35, <1>36 DEF Next, Start, Continue,
      trylock_step, wait_step, reader_step, writer_step, Tasks

\* Nobody comes back while the semaphore is freed.
LEMMA LifeStep ==
  ASSUME pc \in [Tasks -> PC], Life, [Next]_vars
  PROVE  Life'
<1> USE TasksAssumption DEF Goto, Jump, preempt_disable, preempt_enable,
      this_cpu_add, ReadLocked, Prodded, UnlockWaiters, semvars, rsp, rcuvars,
      queue, semrest, locals, rssvars, gpvars, rcu_read_unlock, wake_up,
      rcu_sync_enter, synchronize_rcu, rcu_sync_func, rcu_sync_call,
      prepare_to_wait_event, finish_wait, rcu_sync_exit, rcu_sync_dtor,
      rcu_callback, Life, FreePc, InUse, Tasks, GP_IDLE, GP_ENTER, GP_PASSED,
      GP_EXIT, GP_REPLAY
<1>0. started' = started
  BY DEF Next, vars
<1>1. ASSUME NEW r \in Readers, NEW c \in CPUS, NEW k \in {"first", "try"},
             down_read(r, c, k)
      PROVE  Life'
  BY <1>0, <1>1 DEF down_read
<1>2. ASSUME NEW r \in Readers, fast_inc(r) PROVE Life'
  BY <1>0, <1>2 DEF fast_inc
<1>3. ASSUME NEW r \in Readers, NEW c \in CPUS, up_read(r, c) PROVE Life'
  BY <1>0, <1>3 DEF up_read
<1>4. ASSUME NEW r \in Readers, fast_dec(r) PROVE Life'
  BY <1>0, <1>4 DEF fast_dec
<1>5. ASSUME NEW r \in Readers, NEW c \in CPUS, wait_lock_reader(r, c)
      PROVE  Life'
  BY <1>0, <1>5 DEF wait_lock_reader
<1>6. ASSUME NEW t \in Tasks, inc(t) PROVE Life'
  BY <1>0, <1>6 DEF inc
<1>7. ASSUME NEW t \in Tasks, test_block(t) PROVE Life'
  BY <1>0, <1>7 DEF test_block
<1>8. ASSUME NEW t \in Tasks, dec(t) PROVE Life'
  BY <1>0, <1>8 DEF dec
<1>9. ASSUME NEW t \in Tasks, prod(t) PROVE Life'
  BY <1>0, <1>9 DEF prod
<1>10. ASSUME NEW t \in Tasks, prod_wake(t) PROVE Life'
  BY <1>0, <1>10 DEF prod_wake
<1>11. ASSUME NEW t \in Tasks, set_state(t) PROVE Life'
  BY <1>0, <1>11 DEF set_state
<1>12. ASSUME NEW t \in Tasks, check(t) PROVE Life'
  BY <1>0, <1>12 DEF check
<1>13. ASSUME NEW t \in Tasks, schedule(t, "asleep", "set_state") PROVE Life'
  BY <1>0, <1>13 DEF schedule
<1>14. ASSUME NEW w \in Writers, down_write(w) PROVE Life'
  BY <1>0, <1>14 DEF down_write
<1>15. ASSUME NEW w \in Writers, free_rwsem(w) PROVE Life'
  BY <1>0, <1>15 DEF free_rwsem
<1>16. ASSUME NEW w \in Writers, sync(w) PROVE Life'
  BY <1>0, <1>16 DEF sync
<1>17. ASSUME NEW w \in Writers, gp_cond(w) PROVE Life'
  BY <1>0, <1>17 DEF gp_cond
<1>18. ASSUME NEW w \in Writers, gp_prepare(w) PROVE Life'
  BY <1>0, <1>18 DEF gp_prepare
<1>19. ASSUME NEW w \in Writers, gp_check(w) PROVE Life'
  BY <1>0, <1>19 DEF gp_check
<1>20. ASSUME NEW w \in Writers, schedule(w, "gp_asleep", "gp_prepare")
       PROVE  Life'
  BY <1>0, <1>20 DEF schedule
<1>21. ASSUME NEW w \in Writers, try_block(w) PROVE Life'
  BY <1>0, <1>21 DEF try_block
<1>22. ASSUME NEW w \in Writers, wait_lock_writer(w) PROVE Life'
  BY <1>0, <1>22 DEF wait_lock_writer
<1>23. ASSUME NEW w \in Writers, prepare_to_rcuwait(w) PROVE Life'
  BY <1>0, <1>23 DEF prepare_to_rcuwait
<1>24. ASSUME NEW w \in Writers, rcuwait(w) PROVE Life'
  BY <1>0, <1>24 DEF rcuwait
<1>25. ASSUME NEW w \in Writers, per_cpu_sum(w) PROVE Life'
  BY <1>0, <1>25 DEF per_cpu_sum
<1>26. ASSUME NEW w \in Writers, finish_rcuwait(w) PROVE Life'
  BY <1>0, <1>26 DEF finish_rcuwait
<1>27. ASSUME NEW w \in Writers, schedule(w, "rcuwait_asleep", "rcuwait")
       PROVE  Life'
  BY <1>0, <1>27 DEF schedule
<1>28. ASSUME NEW w \in Writers, up_write(w) PROVE Life'
  BY <1>0, <1>28 DEF up_write
<1>29. ASSUME NEW w \in Writers, wake_next(w) PROVE Life'
  BY <1>0, <1>29 DEF wake_next
<1>30. ASSUME NEW w \in Writers, wake_process(w) PROVE Life'
  BY <1>0, <1>30 DEF wake_process
<1>31. ASSUME NEW w \in Writers, exit(w) PROVE Life'
  BY <1>0, <1>31 DEF exit
<1>32. ASSUME NEW w \in Writers, rcu_barrier(w) PROVE Life'
  BY <1>0, <1>32 DEF rcu_barrier
<1>33. ASSUME NEW w \in Writers, init_rwsem(w) PROVE Life'
  BY <1>0, <1>33 DEF init_rwsem
<1>34. ASSUME NEW w \in Writers, NEW c \in CPUS, wake_lock(w, c) PROVE Life'
  BY <1>0, <1>34 DEF wake_lock
<1>35. ASSUME callback PROVE Life'
  BY <1>0, <1>35 DEF callback
<1>36. CASE UNCHANGED vars
  BY <1>36 DEF vars
<1> HIDE DEF Goto, Jump, preempt_disable, preempt_enable, this_cpu_add,
      ReadLocked, Prodded, UnlockWaiters, semvars, rsp, rcuvars, queue, semrest,
      locals, rssvars, gpvars, rcu_read_unlock, wake_up, rcu_sync_enter,
      synchronize_rcu, rcu_sync_func, rcu_sync_call, prepare_to_wait_event,
      finish_wait, rcu_sync_exit, rcu_sync_dtor, rcu_callback, Life, FreePc,
      InUse, Tasks, GP_IDLE, GP_ENTER, GP_PASSED, GP_EXIT, GP_REPLAY
<1> QED BY <1>1, <1>2, <1>3, <1>4, <1>5, <1>6, <1>7, <1>8, <1>9, <1>10, <1>11,
      <1>12, <1>13, <1>14, <1>15, <1>16, <1>17, <1>18, <1>19, <1>20, <1>21,
      <1>22, <1>23, <1>24, <1>25, <1>26, <1>27, <1>28, <1>29, <1>30, <1>31,
      <1>32, <1>33, <1>34, <1>35, <1>36 DEF Next, Start, Continue,
      trylock_step, wait_step, reader_step, writer_step, Tasks

-----------------------------------------------------------------------------
(***************************************************************************)
(* rcu_sync and the fast path.                                              *)
(***************************************************************************)

\* rcu_sync counts its updaters, and its callback is queued exactly when it
\* must be.
LEMMA UpdatersStep ==
  ASSUME pc \in [Tasks -> PC], gp_state \in GP_IDLE .. GP_REPLAY,
         gp_count \in Nat, cb_queued \in Nat, started \in BOOLEAN, Kinds, Life,
         Updaters, FastPath, [Next]_vars
  PROVE  Updaters'
<1> USE TasksAssumption DEF Goto, Jump, preempt_disable, preempt_enable,
      this_cpu_add, ReadLocked, Prodded, UnlockWaiters, semvars, rsp, rcuvars,
      queue, semrest, locals, rssvars, gpvars, rcu_read_unlock, wake_up,
      rcu_sync_enter, synchronize_rcu, rcu_sync_func, rcu_sync_call,
      prepare_to_wait_event, finish_wait, rcu_sync_exit, rcu_sync_dtor,
      rcu_callback, Kinds, Tasks, EnterPc, EnteredPc, RcuwaitPc, ReaderPc,
      FreePc, TryPc
<1>0. started' = started
  BY DEF Next, vars
<1>1. ASSUME NEW r \in Readers, NEW c \in CPUS, NEW k \in {"first", "try"},
             down_read(r, c, k)
      PROVE  Updaters'
  <2>1. UNCHANGED <<gp_state, gp_count, cb_queued>>
    BY <1>1 DEF down_read
  <2>2. \A u \in Writers :
          /\ pc'[u] \in EnterPc \cup EnteredPc <=> pc[u] \in EnterPc \cup EnteredPc
          /\ pc'[u] = "sync" <=> pc[u] = "sync"
          /\ pc'[u] = "freed" => pc[u] = "freed"
    BY <1>1 DEF down_read
  <2> HIDE DEF EnterPc, EnteredPc
  <2> QED BY <1>0, <2>1, <2>2, UpdatersKept
<1>2. ASSUME NEW r \in Readers, fast_inc(r) PROVE Updaters'
  <2>1. UNCHANGED <<gp_state, gp_count, cb_queued>>
    BY <1>2 DEF fast_inc
  <2>2. \A u \in Writers :
          /\ pc'[u] \in EnterPc \cup EnteredPc <=> pc[u] \in EnterPc \cup EnteredPc
          /\ pc'[u] = "sync" <=> pc[u] = "sync"
          /\ pc'[u] = "freed" => pc[u] = "freed"
    BY <1>2 DEF fast_inc
  <2> HIDE DEF EnterPc, EnteredPc
  <2> QED BY <1>0, <2>1, <2>2, UpdatersKept
<1>3. ASSUME NEW r \in Readers, NEW c \in CPUS, up_read(r, c) PROVE Updaters'
  <2>1. UNCHANGED <<gp_state, gp_count, cb_queued>>
    BY <1>3 DEF up_read
  <2>2. \A u \in Writers :
          /\ pc'[u] \in EnterPc \cup EnteredPc <=> pc[u] \in EnterPc \cup EnteredPc
          /\ pc'[u] = "sync" <=> pc[u] = "sync"
          /\ pc'[u] = "freed" => pc[u] = "freed"
    BY <1>3 DEF up_read
  <2> HIDE DEF EnterPc, EnteredPc
  <2> QED BY <1>0, <2>1, <2>2, UpdatersKept
<1>4. ASSUME NEW r \in Readers, fast_dec(r) PROVE Updaters'
  <2>1. UNCHANGED <<gp_state, gp_count, cb_queued>>
    BY <1>4 DEF fast_dec
  <2>2. \A u \in Writers :
          /\ pc'[u] \in EnterPc \cup EnteredPc <=> pc[u] \in EnterPc \cup EnteredPc
          /\ pc'[u] = "sync" <=> pc[u] = "sync"
          /\ pc'[u] = "freed" => pc[u] = "freed"
    BY <1>4 DEF fast_dec
  <2> HIDE DEF EnterPc, EnteredPc
  <2> QED BY <1>0, <2>1, <2>2, UpdatersKept
<1>5. ASSUME NEW r \in Readers, NEW c \in CPUS, wait_lock_reader(r, c)
      PROVE  Updaters'
  <2>1. UNCHANGED <<gp_state, gp_count, cb_queued>>
    BY <1>5 DEF wait_lock_reader
  <2>2. \A u \in Writers :
          /\ pc'[u] \in EnterPc \cup EnteredPc <=> pc[u] \in EnterPc \cup EnteredPc
          /\ pc'[u] = "sync" <=> pc[u] = "sync"
          /\ pc'[u] = "freed" => pc[u] = "freed"
    BY <1>5 DEF wait_lock_reader
  <2> HIDE DEF EnterPc, EnteredPc
  <2> QED BY <1>0, <2>1, <2>2, UpdatersKept
<1>6. ASSUME NEW t \in Tasks, inc(t) PROVE Updaters'
  <2>1. UNCHANGED <<gp_state, gp_count, cb_queued>>
    BY <1>6 DEF inc
  <2>2. \A u \in Writers :
          /\ pc'[u] \in EnterPc \cup EnteredPc <=> pc[u] \in EnterPc \cup EnteredPc
          /\ pc'[u] = "sync" <=> pc[u] = "sync"
          /\ pc'[u] = "freed" => pc[u] = "freed"
    BY <1>6 DEF inc
  <2> HIDE DEF EnterPc, EnteredPc
  <2> QED BY <1>0, <2>1, <2>2, UpdatersKept
<1>7. ASSUME NEW t \in Tasks, test_block(t) PROVE Updaters'
  <2>1. UNCHANGED <<gp_state, gp_count, cb_queued>>
    BY <1>7 DEF test_block
  <2>2. \E l \in {"wake_process", "read", "dec"} :
          pc' = [pc EXCEPT ![t] = l] /\ (t \in Writers => l \notin {"idle", "read"})
    BY <1>7 DEF test_block
  <2>3. t \in Writers => pc[t] \in TryPc
    BY <1>7 DEF test_block, TryPc
  <2>4. \A u \in Writers :
          /\ pc'[u] \in EnterPc \cup EnteredPc <=> pc[u] \in EnterPc \cup EnteredPc
          /\ pc'[u] = "sync" <=> pc[u] = "sync"
          /\ pc'[u] = "freed" => pc[u] = "freed"
    BY <2>2, <2>3 DEF TryPc
  <2> HIDE DEF EnterPc, EnteredPc
  <2> QED BY <1>0, <2>1, <2>4, UpdatersKept
<1>8. ASSUME NEW t \in Tasks, dec(t) PROVE Updaters'
  <2>1. UNCHANGED <<gp_state, gp_count, cb_queued>>
    BY <1>8 DEF dec
  <2>2. \A u \in Writers :
          /\ pc'[u] \in EnterPc \cup EnteredPc <=> pc[u] \in EnterPc \cup EnteredPc
          /\ pc'[u] = "sync" <=> pc[u] = "sync"
          /\ pc'[u] = "freed" => pc[u] = "freed"
    BY <1>8 DEF dec
  <2> HIDE DEF EnterPc, EnteredPc
  <2> QED BY <1>0, <2>1, <2>2, UpdatersKept
<1>9. ASSUME NEW t \in Tasks, prod(t) PROVE Updaters'
  <2>1. UNCHANGED <<gp_state, gp_count, cb_queued>>
    BY <1>9 DEF prod
  <2>2. \E l \in {"idle", "wait_lock", "set_state", "exit", "prod_wake"} :
          pc' = [pc EXCEPT ![t] = l] /\ (t \in Writers => l \notin {"idle", "read"})
    BY <1>9 DEF prod
  <2>3. t \in Writers => pc[t] \in TryPc
    BY <1>9 DEF prod, TryPc
  <2>4. \A u \in Writers :
          /\ pc'[u] \in EnterPc \cup EnteredPc <=> pc[u] \in EnterPc \cup EnteredPc
          /\ pc'[u] = "sync" <=> pc[u] = "sync"
          /\ pc'[u] = "freed" => pc[u] = "freed"
    BY <2>2, <2>3 DEF TryPc
  <2> HIDE DEF EnterPc, EnteredPc
  <2> QED BY <1>0, <2>1, <2>4, UpdatersKept
<1>10. ASSUME NEW t \in Tasks, prod_wake(t) PROVE Updaters'
  <2>1. UNCHANGED <<gp_state, gp_count, cb_queued>>
    BY <1>10 DEF prod_wake
  <2>2. \E l \in {"idle", "wait_lock", "set_state", "exit"} :
          pc' = [pc EXCEPT ![t] = l] /\ (t \in Writers => l \notin {"idle", "read"})
    BY <1>10 DEF prod_wake
  <2>3. t \in Writers => pc[t] \in TryPc
    BY <1>10 DEF prod_wake, TryPc
  <2>4. \A u \in Writers :
          /\ pc'[u] \in EnterPc \cup EnteredPc <=> pc[u] \in EnterPc \cup EnteredPc
          /\ pc'[u] = "sync" <=> pc[u] = "sync"
          /\ pc'[u] = "freed" => pc[u] = "freed"
    BY <2>2, <2>3 DEF TryPc
  <2> HIDE DEF EnterPc, EnteredPc
  <2> QED BY <1>0, <2>1, <2>4, UpdatersKept
<1>11. ASSUME NEW t \in Tasks, set_state(t) PROVE Updaters'
  <2>1. UNCHANGED <<gp_state, gp_count, cb_queued>>
    BY <1>11 DEF set_state
  <2>2. \A u \in Writers :
          /\ pc'[u] \in EnterPc \cup EnteredPc <=> pc[u] \in EnterPc \cup EnteredPc
          /\ pc'[u] = "sync" <=> pc[u] = "sync"
          /\ pc'[u] = "freed" => pc[u] = "freed"
    BY <1>11 DEF set_state
  <2> HIDE DEF EnterPc, EnteredPc
  <2> QED BY <1>0, <2>1, <2>2, UpdatersKept
<1>12. ASSUME NEW t \in Tasks, check(t) PROVE Updaters'
  <2>1. UNCHANGED <<gp_state, gp_count, cb_queued>>
    BY <1>12 DEF check
  <2>2. \A u \in Writers :
          /\ pc'[u] \in EnterPc \cup EnteredPc <=> pc[u] \in EnterPc \cup EnteredPc
          /\ pc'[u] = "sync" <=> pc[u] = "sync"
          /\ pc'[u] = "freed" => pc[u] = "freed"
    BY <1>12 DEF check
  <2> HIDE DEF EnterPc, EnteredPc
  <2> QED BY <1>0, <2>1, <2>2, UpdatersKept
<1>13. ASSUME NEW t \in Tasks, schedule(t, "asleep", "set_state")
       PROVE  Updaters'
  <2>1. UNCHANGED <<gp_state, gp_count, cb_queued>>
    BY <1>13 DEF schedule
  <2>2. \A u \in Writers :
          /\ pc'[u] \in EnterPc \cup EnteredPc <=> pc[u] \in EnterPc \cup EnteredPc
          /\ pc'[u] = "sync" <=> pc[u] = "sync"
          /\ pc'[u] = "freed" => pc[u] = "freed"
    BY <1>13 DEF schedule
  <2> HIDE DEF EnterPc, EnteredPc
  <2> QED BY <1>0, <2>1, <2>2, UpdatersKept
<1>14. ASSUME NEW w \in Writers, down_write(w) PROVE Updaters'
  <2>1. /\ pc[w] = "idle"
        /\ pc' = [pc EXCEPT ![w] = IF rcu_sync_is_idle THEN "sync" ELSE "gp_cond"]
        /\ gp_count' = gp_count + 1 /\ cb_queued' = cb_queued
        /\ gp_state' = IF rcu_sync_is_idle THEN GP_ENTER ELSE gp_state
        /\ \A u \in Writers : pc[u] # "freed"
    BY <1>14 DEF down_write, InUse
  <2>2. Cardinality(Entered)' = Cardinality(Entered) + 1
    BY <2>1, EnteredAdd
  <2> QED BY <1>0, <2>1, <2>2, EnteredFinite DEF GpStateMatches, Updaters,
        rcu_sync_is_idle, GP_IDLE, GP_ENTER, GP_PASSED, GP_EXIT, GP_REPLAY
<1>15. ASSUME NEW w \in Writers, free_rwsem(w) PROVE Updaters'
  <2>1. /\ pc[w] = "idle"
        /\ pc' = [pc EXCEPT ![w] = IF rcu_sync_is_idle THEN "freed" ELSE "dtor"]
    BY <1>15 DEF free_rwsem
  <2>2. /\ gp_count' = gp_count /\ cb_queued' = cb_queued
        /\ gp_state' = IF gp_state = GP_REPLAY THEN GP_EXIT ELSE gp_state
    BY <1>15 DEF free_rwsem
  <2>3. \A u \in Writers : pc[u] = "idle"
    BY <1>15 DEF free_rwsem
  <2>4. Entered' = Entered
    BY <2>1 DEF Entered
  <2> QED BY <1>0, <2>1, <2>2, <2>3, <2>4 DEF GpStateMatches, Updaters,
        rcu_sync_is_idle, GP_IDLE, GP_ENTER, GP_PASSED, GP_EXIT, GP_REPLAY
<1>16. ASSUME NEW w \in Writers, sync(w) PROVE Updaters'
  <2>1. pc' = [pc EXCEPT ![w] = "try_block"] /\ pc[w] = "sync"
    BY <1>16 DEF sync
  <2>2. gp_count # 0
    BY <2>1, EnteredSome, EnteredFinite DEF Updaters, GpStateMatches
  <2>3. gp_state' = GP_PASSED /\ gp_count' = gp_count /\ cb_queued' = cb_queued
    BY <1>16, <2>2 DEF sync, synchronize_rcu, rcu_sync_func
  <2>4. Entered' = Entered
    BY <2>1 DEF Entered
  <2> QED BY <1>0, <2>1, <2>2, <2>3, <2>4 DEF GpStateMatches, Updaters,
        rcu_sync_is_idle, GP_IDLE, GP_ENTER, GP_PASSED, GP_EXIT, GP_REPLAY
<1>17. ASSUME NEW w \in Writers, gp_cond(w) PROVE Updaters'
  <2>1. UNCHANGED <<gp_state, gp_count, cb_queued>>
    BY <1>17 DEF gp_cond
  <2>2. \A u \in Writers :
          /\ pc'[u] \in EnterPc \cup EnteredPc <=> pc[u] \in EnterPc \cup EnteredPc
          /\ pc'[u] = "sync" <=> pc[u] = "sync"
          /\ pc'[u] = "freed" => pc[u] = "freed"
    BY <1>17 DEF gp_cond
  <2> HIDE DEF EnterPc, EnteredPc
  <2> QED BY <1>0, <2>1, <2>2, UpdatersKept
<1>18. ASSUME NEW w \in Writers, gp_prepare(w) PROVE Updaters'
  <2>1. UNCHANGED <<gp_state, gp_count, cb_queued>>
    BY <1>18 DEF gp_prepare
  <2>2. \A u \in Writers :
          /\ pc'[u] \in EnterPc \cup EnteredPc <=> pc[u] \in EnterPc \cup EnteredPc
          /\ pc'[u] = "sync" <=> pc[u] = "sync"
          /\ pc'[u] = "freed" => pc[u] = "freed"
    BY <1>18 DEF gp_prepare
  <2> HIDE DEF EnterPc, EnteredPc
  <2> QED BY <1>0, <2>1, <2>2, UpdatersKept
<1>19. ASSUME NEW w \in Writers, gp_check(w) PROVE Updaters'
  <2>1. UNCHANGED <<gp_state, gp_count, cb_queued>>
    BY <1>19 DEF gp_check
  <2>2. \A u \in Writers :
          /\ pc'[u] \in EnterPc \cup EnteredPc <=> pc[u] \in EnterPc \cup EnteredPc
          /\ pc'[u] = "sync" <=> pc[u] = "sync"
          /\ pc'[u] = "freed" => pc[u] = "freed"
    BY <1>19 DEF gp_check
  <2> HIDE DEF EnterPc, EnteredPc
  <2> QED BY <1>0, <2>1, <2>2, UpdatersKept
<1>20. ASSUME NEW w \in Writers, schedule(w, "gp_asleep", "gp_prepare")
       PROVE  Updaters'
  <2>1. UNCHANGED <<gp_state, gp_count, cb_queued>>
    BY <1>20 DEF schedule
  <2>2. \A u \in Writers :
          /\ pc'[u] \in EnterPc \cup EnteredPc <=> pc[u] \in EnterPc \cup EnteredPc
          /\ pc'[u] = "sync" <=> pc[u] = "sync"
          /\ pc'[u] = "freed" => pc[u] = "freed"
    BY <1>20 DEF schedule
  <2> HIDE DEF EnterPc, EnteredPc
  <2> QED BY <1>0, <2>1, <2>2, UpdatersKept
<1>21. ASSUME NEW w \in Writers, try_block(w) PROVE Updaters'
  <2>1. UNCHANGED <<gp_state, gp_count, cb_queued>>
    BY <1>21 DEF try_block
  <2>2. \A u \in Writers :
          /\ pc'[u] \in EnterPc \cup EnteredPc <=> pc[u] \in EnterPc \cup EnteredPc
          /\ pc'[u] = "sync" <=> pc[u] = "sync"
          /\ pc'[u] = "freed" => pc[u] = "freed"
    BY <1>21 DEF try_block
  <2> HIDE DEF EnterPc, EnteredPc
  <2> QED BY <1>0, <2>1, <2>2, UpdatersKept
<1>22. ASSUME NEW w \in Writers, wait_lock_writer(w) PROVE Updaters'
  <2>1. UNCHANGED <<gp_state, gp_count, cb_queued>>
    BY <1>22 DEF wait_lock_writer
  <2>2. \A u \in Writers :
          /\ pc'[u] \in EnterPc \cup EnteredPc <=> pc[u] \in EnterPc \cup EnteredPc
          /\ pc'[u] = "sync" <=> pc[u] = "sync"
          /\ pc'[u] = "freed" => pc[u] = "freed"
    BY <1>22 DEF wait_lock_writer
  <2> HIDE DEF EnterPc, EnteredPc
  <2> QED BY <1>0, <2>1, <2>2, UpdatersKept
<1>23. ASSUME NEW w \in Writers, prepare_to_rcuwait(w) PROVE Updaters'
  <2>1. UNCHANGED <<gp_state, gp_count, cb_queued>>
    BY <1>23 DEF prepare_to_rcuwait
  <2>2. \A u \in Writers :
          /\ pc'[u] \in EnterPc \cup EnteredPc <=> pc[u] \in EnterPc \cup EnteredPc
          /\ pc'[u] = "sync" <=> pc[u] = "sync"
          /\ pc'[u] = "freed" => pc[u] = "freed"
    BY <1>23 DEF prepare_to_rcuwait
  <2> HIDE DEF EnterPc, EnteredPc
  <2> QED BY <1>0, <2>1, <2>2, UpdatersKept
<1>24. ASSUME NEW w \in Writers, rcuwait(w) PROVE Updaters'
  <2>1. UNCHANGED <<gp_state, gp_count, cb_queued>>
    BY <1>24 DEF rcuwait
  <2>2. \A u \in Writers :
          /\ pc'[u] \in EnterPc \cup EnteredPc <=> pc[u] \in EnterPc \cup EnteredPc
          /\ pc'[u] = "sync" <=> pc[u] = "sync"
          /\ pc'[u] = "freed" => pc[u] = "freed"
    BY <1>24 DEF rcuwait
  <2> HIDE DEF EnterPc, EnteredPc
  <2> QED BY <1>0, <2>1, <2>2, UpdatersKept
<1>25. ASSUME NEW w \in Writers, per_cpu_sum(w) PROVE Updaters'
  <2>1. UNCHANGED <<gp_state, gp_count, cb_queued>>
    BY <1>25 DEF per_cpu_sum
  <2>2. \A u \in Writers :
          /\ pc'[u] \in EnterPc \cup EnteredPc <=> pc[u] \in EnterPc \cup EnteredPc
          /\ pc'[u] = "sync" <=> pc[u] = "sync"
          /\ pc'[u] = "freed" => pc[u] = "freed"
    BY <1>25 DEF per_cpu_sum
  <2> HIDE DEF EnterPc, EnteredPc
  <2> QED BY <1>0, <2>1, <2>2, UpdatersKept
<1>26. ASSUME NEW w \in Writers, finish_rcuwait(w) PROVE Updaters'
  <2>1. UNCHANGED <<gp_state, gp_count, cb_queued>>
    BY <1>26 DEF finish_rcuwait
  <2>2. \A u \in Writers :
          /\ pc'[u] \in EnterPc \cup EnteredPc <=> pc[u] \in EnterPc \cup EnteredPc
          /\ pc'[u] = "sync" <=> pc[u] = "sync"
          /\ pc'[u] = "freed" => pc[u] = "freed"
    BY <1>26 DEF finish_rcuwait
  <2> HIDE DEF EnterPc, EnteredPc
  <2> QED BY <1>0, <2>1, <2>2, UpdatersKept
<1>27. ASSUME NEW w \in Writers, schedule(w, "rcuwait_asleep", "rcuwait")
       PROVE  Updaters'
  <2>1. UNCHANGED <<gp_state, gp_count, cb_queued>>
    BY <1>27 DEF schedule
  <2>2. \A u \in Writers :
          /\ pc'[u] \in EnterPc \cup EnteredPc <=> pc[u] \in EnterPc \cup EnteredPc
          /\ pc'[u] = "sync" <=> pc[u] = "sync"
          /\ pc'[u] = "freed" => pc[u] = "freed"
    BY <1>27 DEF schedule
  <2> HIDE DEF EnterPc, EnteredPc
  <2> QED BY <1>0, <2>1, <2>2, UpdatersKept
<1>28. ASSUME NEW w \in Writers, up_write(w) PROVE Updaters'
  <2>1. UNCHANGED <<gp_state, gp_count, cb_queued>>
    BY <1>28 DEF up_write
  <2>2. \A u \in Writers :
          /\ pc'[u] \in EnterPc \cup EnteredPc <=> pc[u] \in EnterPc \cup EnteredPc
          /\ pc'[u] = "sync" <=> pc[u] = "sync"
          /\ pc'[u] = "freed" => pc[u] = "freed"
    BY <1>28 DEF up_write
  <2> HIDE DEF EnterPc, EnteredPc
  <2> QED BY <1>0, <2>1, <2>2, UpdatersKept
<1>29. ASSUME NEW w \in Writers, wake_next(w) PROVE Updaters'
  <2>1. UNCHANGED <<gp_state, gp_count, cb_queued>>
    BY <1>29 DEF wake_next
  <2>2. \A u \in Writers :
          /\ pc'[u] \in EnterPc \cup EnteredPc <=> pc[u] \in EnterPc \cup EnteredPc
          /\ pc'[u] = "sync" <=> pc[u] = "sync"
          /\ pc'[u] = "freed" => pc[u] = "freed"
    BY <1>29 DEF wake_next
  <2> HIDE DEF EnterPc, EnteredPc
  <2> QED BY <1>0, <2>1, <2>2, UpdatersKept
<1>30. ASSUME NEW w \in Writers, wake_process(w) PROVE Updaters'
  <2>1. UNCHANGED <<gp_state, gp_count, cb_queued>>
    BY <1>30 DEF wake_process
  <2>2. \A u \in Writers :
          /\ pc'[u] \in EnterPc \cup EnteredPc <=> pc[u] \in EnterPc \cup EnteredPc
          /\ pc'[u] = "sync" <=> pc[u] = "sync"
          /\ pc'[u] = "freed" => pc[u] = "freed"
    BY <1>30 DEF wake_process
  <2> HIDE DEF EnterPc, EnteredPc
  <2> QED BY <1>0, <2>1, <2>2, UpdatersKept
<1>31. ASSUME NEW w \in Writers, exit(w) PROVE Updaters'
  <2>1. /\ pc' = [pc EXCEPT ![w] = "idle"] /\ pc[w] = "exit"
        /\ gp_count' = gp_count - 1
    BY <1>31 DEF exit
  <2>2. \/ gp_count' = 0 /\ gp_state = GP_PASSED /\ gp_state' = GP_EXIT /\ cb_queued' = cb_queued + 1
        \/ gp_count' = 0 /\ gp_state = GP_EXIT /\ gp_state' = GP_REPLAY
             /\ cb_queued' = cb_queued
        \/ (gp_count' # 0 \/ gp_state \notin {GP_PASSED, GP_EXIT})
             /\ gp_state' = gp_state /\ cb_queued' = cb_queued
    BY <1>31 DEF exit
  <2>3. Cardinality(Entered)' = Cardinality(Entered) - 1
    BY <2>1, EnteredRemove
  <2>4. gp_state >= GP_PASSED
    BY <2>1 DEF FastPath
  <2>5. \A u \in Writers : pc[u] # "freed" /\ pc[u] # "sync"
    BY <2>1, <2>4 DEF Life, Updaters, GpStateMatches, GP_PASSED, GP_ENTER
  <2>6. Cardinality(Entered) # 0
    BY <2>1, EnteredSome
  <2>7. \A u \in Writers : pc'[u] # "freed" /\ pc'[u] # "sync"
    BY <2>1, <2>5
  <2>8. gp_count' = Cardinality(Entered)' + (IF started' THEN 1 ELSE 0)
    BY <1>0, <2>1, <2>3, EnteredFinite DEF Updaters, GpStateMatches
  <2>9. /\ cb_queued = IF gp_state \in {GP_EXIT, GP_REPLAY} THEN 1 ELSE 0
        /\ gp_count \in Nat /\ gp_state \in GP_PASSED .. GP_REPLAY
    BY <2>4 DEF Updaters, GpStateMatches, GP_IDLE, GP_ENTER, GP_PASSED,
          GP_EXIT, GP_REPLAY
  <2> HIDE DEF EnterPc, EnteredPc, RcuwaitPc, ReaderPc, Kinds
  <2> QED BY <2>1, <2>2, <2>7, <2>8, <2>9 DEF GpStateMatches, Updaters,
        rcu_sync_is_idle, GP_IDLE, GP_ENTER, GP_PASSED, GP_EXIT, GP_REPLAY
<1>32. ASSUME NEW w \in Writers, rcu_barrier(w) PROVE Updaters'
  <2>1. /\ pc[w] = "dtor" /\ ~started /\ (\A u \in Writers \ {w} : pc[u] = "idle")
        /\ pc' = [pc EXCEPT ![w] = IF cb_queued = 0 THEN "freed" ELSE "barrier"]
        /\ UNCHANGED <<gp_state, gp_count, cb_queued>>
    BY <1>32 DEF rcu_barrier, Life
  <2>2. Entered' = Entered /\ Entered = {}
    BY <2>1 DEF Entered
  <2>3. gp_count = 0
    BY <2>1, <2>2, FS_EmptySet DEF Updaters, GpStateMatches
  <2> QED BY <1>0, <2>1, <2>2, <2>3 DEF GpStateMatches, Updaters,
        rcu_sync_is_idle, GP_IDLE, GP_ENTER, GP_PASSED, GP_EXIT, GP_REPLAY
<1>33. ASSUME NEW w \in Writers, init_rwsem(w) PROVE Updaters'
  <2>1. /\ pc[w] = "freed" /\ ~started /\ (\A u \in Writers \ {w} : pc[u] = "idle")
        /\ pc' = [pc EXCEPT ![w] = "idle"] /\ gp_state' = GP_IDLE
        /\ gp_count' = 0 /\ cb_queued' = cb_queued
    BY <1>33 DEF init_rwsem, Life
  <2>2. Entered' = {}
    BY <2>1 DEF Entered
  <2>3. gp_state = GP_IDLE
    BY <2>1 DEF GpStateMatches, Updaters, rcu_sync_is_idle, GP_IDLE, GP_ENTER,
          GP_PASSED, GP_EXIT, GP_REPLAY
  <2> QED BY <1>0, <2>1, <2>2, <2>3, FS_EmptySet DEF GpStateMatches, Updaters,
        rcu_sync_is_idle, GP_IDLE, GP_ENTER, GP_PASSED, GP_EXIT, GP_REPLAY
<1>34. ASSUME NEW w \in Writers, NEW c \in CPUS, wake_lock(w, c) PROVE Updaters'
  <2>1. UNCHANGED <<gp_state, gp_count, cb_queued>>
    BY <1>34 DEF wake_lock
  <2>2. \A u \in Writers :
          /\ pc'[u] \in EnterPc \cup EnteredPc <=> pc[u] \in EnterPc \cup EnteredPc
          /\ pc'[u] = "sync" <=> pc[u] = "sync"
          /\ pc'[u] = "freed" => pc[u] = "freed"
    BY <1>34 DEF wake_lock
  <2> HIDE DEF EnterPc, EnteredPc
  <2> QED BY <1>0, <2>1, <2>2, UpdatersKept
<1>f. ASSUME NEW w \in Writers, pc[w] \in FreePc PROVE gp_count = 0
  <2>1. ~started /\ \A u \in Writers : pc[u] \notin EnterPc \cup EnteredPc
    BY <1>f DEF Life
  <2>2. Entered = {}
    BY <2>1 DEF Entered
  <2> QED BY <2>1, <2>2, FS_EmptySet DEF Updaters, GpStateMatches
<1>35. ASSUME callback PROVE Updaters'
  <2>1. \A u \in Writers :
          /\ pc'[u] \in EnterPc \cup EnteredPc <=> pc[u] \in EnterPc \cup EnteredPc
          /\ pc'[u] = "sync" <=> pc[u] = "sync"
          /\ pc'[u] = "freed" => pc[u] \in FreePc
    BY <1>35, CallbackMoves
  <2>2. /\ cb_queued > 0 /\ gp_count' = gp_count
        /\ \/ gp_count # 0 /\ gp_state' = GP_PASSED /\ cb_queued' = cb_queued - 1
           \/ gp_count = 0 /\ gp_state = GP_REPLAY /\ gp_state' = GP_EXIT
                /\ cb_queued' = cb_queued - 1 + 1
           \/ gp_count = 0 /\ gp_state # GP_REPLAY /\ gp_state' = GP_IDLE
                /\ cb_queued' = cb_queued - 1
    BY <1>35 DEF callback
  <2>3. Entered' = Entered
    BY <2>1 DEF Entered
  <2>4. \A u \in Writers : pc'[u] = "freed" => gp_state # GP_REPLAY /\ gp_count = 0
    BY <2>1, <1>f DEF Life
  <2> HIDE DEF EnterPc, EnteredPc, RcuwaitPc, ReaderPc, Kinds, FreePc
  <2> QED BY <1>0, <2>1, <2>2, <2>3, <2>4 DEF GpStateMatches, Updaters,
        rcu_sync_is_idle, GP_IDLE, GP_ENTER, GP_PASSED, GP_EXIT, GP_REPLAY
<1>36. CASE UNCHANGED vars
  BY <1>36, UpdatersKept DEF vars, semvars, rcuvars, rsp, rssvars
<1> HIDE DEF Goto, Jump, preempt_disable, preempt_enable, this_cpu_add,
      ReadLocked, Prodded, UnlockWaiters, semvars, rsp, rcuvars, queue, semrest,
      locals, rssvars, gpvars, rcu_read_unlock, wake_up, rcu_sync_enter,
      synchronize_rcu, rcu_sync_func, rcu_sync_call, prepare_to_wait_event,
      finish_wait, rcu_sync_exit, rcu_sync_dtor, rcu_callback, Kinds, Tasks,
      EnterPc, EnteredPc, RcuwaitPc, ReaderPc, FreePc, TryPc
<1> QED BY <1>1, <1>2, <1>3, <1>4, <1>5, <1>6, <1>7, <1>8, <1>9, <1>10, <1>11,
      <1>12, <1>13, <1>14, <1>15, <1>16, <1>17, <1>18, <1>19, <1>20, <1>21,
      <1>22, <1>23, <1>24, <1>25, <1>26, <1>27, <1>28, <1>29, <1>30, <1>31,
      <1>32, <1>33, <1>34, <1>35, <1>36 DEF Next, Start, Continue,
      trylock_step, wait_step, reader_step, writer_step, Tasks

\* A grace period lies between the arrival of the first updater and GP_PASSED,
\* and no reader that saw GP_IDLE survives it.
LEMMA FastPathStep ==
  ASSUME pc \in [Tasks -> PC], gp_state \in GP_IDLE .. GP_REPLAY,
         gp_count \in Nat, cb_queued \in Nat,
         sync_gp \in [Writers -> SUBSET Tasks],
         cpu \in [Tasks -> CPUS \cup {NULL}], started \in BOOLEAN, Kinds,
         Preemption, Life, Updaters, FastPath, [Next]_vars
  PROVE  FastPath'
<1> USE TasksAssumption DEF Goto, Jump, preempt_disable, preempt_enable,
      this_cpu_add, ReadLocked, Prodded, UnlockWaiters, semvars, rsp, rcuvars,
      queue, semrest, locals, rssvars, gpvars, rcu_read_unlock, wake_up,
      rcu_sync_enter, synchronize_rcu, rcu_sync_func, rcu_sync_call,
      prepare_to_wait_event, finish_wait, rcu_sync_exit, rcu_sync_dtor,
      rcu_callback, FastPath, Kinds, Life, Preemption, Section, InUse, Tasks,
      GP_IDLE, GP_ENTER, GP_PASSED, GP_EXIT, GP_REPLAY, rcu_sync_is_idle,
      gp_passed, FastPc, TryPc, WaitPc, WakePc, ReaderPc, WriterPc, EnterPc,
      EnteredPc, RcuwaitPc, ReadPc, FreePc
<1>0. started' = started
  BY DEF Next, vars
<1>1. ASSUME NEW r \in Readers, NEW c \in CPUS, NEW k \in {"first", "try"},
             down_read(r, c, k)
      PROVE  FastPath'
  <2>1. /\ UNCHANGED <<gp_state, sync_gp>> /\ pc' = [pc EXCEPT ![r] = pc'[r]]
        /\ pc'[r] \in FastPc => rcu_sync_is_idle
    BY <1>1 DEF down_read
  <2>2. rcu_sync_is_idle => \A w \in Writers : pc[w] # "sync"
    BY DEF Updaters, GpStateMatches
  <2> QED BY <2>1, <2>2
<1>2. ASSUME NEW r \in Readers, fast_inc(r) PROVE FastPath'
  BY <1>0, <1>2 DEF fast_inc
<1>3. ASSUME NEW r \in Readers, NEW c \in CPUS, up_read(r, c) PROVE FastPath'
  <2>1. /\ UNCHANGED <<gp_state, sync_gp>> /\ pc' = [pc EXCEPT ![r] = pc'[r]]
        /\ pc'[r] \in FastPc => rcu_sync_is_idle
    BY <1>3 DEF up_read
  <2>2. rcu_sync_is_idle => \A w \in Writers : pc[w] # "sync"
    BY DEF Updaters, GpStateMatches
  <2> QED BY <2>1, <2>2
<1>4. ASSUME NEW r \in Readers, fast_dec(r) PROVE FastPath'
  BY <1>0, <1>4 DEF fast_dec
<1>5. ASSUME NEW r \in Readers, NEW c \in CPUS, wait_lock_reader(r, c)
      PROVE  FastPath'
  BY <1>0, <1>5 DEF wait_lock_reader
<1>6. ASSUME NEW t \in Tasks, inc(t) PROVE FastPath'
  BY <1>0, <1>6 DEF inc
<1>7. ASSUME NEW t \in Tasks, test_block(t) PROVE FastPath'
  BY <1>0, <1>7 DEF test_block
<1>8. ASSUME NEW t \in Tasks, dec(t) PROVE FastPath'
  BY <1>0, <1>8 DEF dec
<1>9. ASSUME NEW t \in Tasks, prod(t) PROVE FastPath'
  BY <1>0, <1>9 DEF prod
<1>10. ASSUME NEW t \in Tasks, prod_wake(t) PROVE FastPath'
  BY <1>0, <1>10 DEF prod_wake
<1>11. ASSUME NEW t \in Tasks, set_state(t) PROVE FastPath'
  BY <1>0, <1>11 DEF set_state
<1>12. ASSUME NEW t \in Tasks, check(t) PROVE FastPath'
  BY <1>0, <1>12 DEF check
<1>13. ASSUME NEW t \in Tasks, schedule(t, "asleep", "set_state")
       PROVE  FastPath'
  BY <1>0, <1>13 DEF schedule
<1>14. ASSUME NEW w \in Writers, down_write(w) PROVE FastPath'
  BY <1>0, <1>14 DEF down_write
<1>15. ASSUME NEW w \in Writers, free_rwsem(w) PROVE FastPath'
  BY <1>0, <1>15 DEF free_rwsem
<1>16. ASSUME NEW w \in Writers, sync(w) PROVE FastPath'
  <2>1. /\ pc' = [pc EXCEPT ![w] = "try_block"] /\ pc[w] = "sync"
        /\ sync_gp[w] = {} /\ sync_gp' = sync_gp
    BY <1>16 DEF sync
  <2>2. gp_count # 0
    BY <2>1, EnteredSome, EnteredFinite, <1>0 DEF Updaters, GpStateMatches
  <2>3. gp_state' = GP_PASSED
    BY <1>16, <2>2 DEF sync
  <2> QED BY <2>1, <2>3
<1>17. ASSUME NEW w \in Writers, gp_cond(w) PROVE FastPath'
  BY <1>0, <1>17 DEF gp_cond
<1>18. ASSUME NEW w \in Writers, gp_prepare(w) PROVE FastPath'
  BY <1>0, <1>18 DEF gp_prepare
<1>19. ASSUME NEW w \in Writers, gp_check(w) PROVE FastPath'
  BY <1>0, <1>19 DEF gp_check
<1>20. ASSUME NEW w \in Writers, schedule(w, "gp_asleep", "gp_prepare")
       PROVE  FastPath'
  BY <1>0, <1>20 DEF schedule
<1>21. ASSUME NEW w \in Writers, try_block(w) PROVE FastPath'
  BY <1>0, <1>21 DEF try_block
<1>22. ASSUME NEW w \in Writers, wait_lock_writer(w) PROVE FastPath'
  BY <1>0, <1>22 DEF wait_lock_writer
<1>23. ASSUME NEW w \in Writers, prepare_to_rcuwait(w) PROVE FastPath'
  BY <1>0, <1>23 DEF prepare_to_rcuwait
<1>24. ASSUME NEW w \in Writers, rcuwait(w) PROVE FastPath'
  BY <1>0, <1>24 DEF rcuwait
<1>25. ASSUME NEW w \in Writers, per_cpu_sum(w) PROVE FastPath'
  BY <1>0, <1>25 DEF per_cpu_sum
<1>26. ASSUME NEW w \in Writers, finish_rcuwait(w) PROVE FastPath'
  BY <1>0, <1>26 DEF finish_rcuwait
<1>27. ASSUME NEW w \in Writers, schedule(w, "rcuwait_asleep", "rcuwait")
       PROVE  FastPath'
  BY <1>0, <1>27 DEF schedule
<1>28. ASSUME NEW w \in Writers, up_write(w) PROVE FastPath'
  BY <1>0, <1>28 DEF up_write
<1>29. ASSUME NEW w \in Writers, wake_next(w) PROVE FastPath'
  BY <1>0, <1>29 DEF wake_next
<1>30. ASSUME NEW w \in Writers, wake_process(w) PROVE FastPath'
  BY <1>0, <1>30 DEF wake_process
<1>31. ASSUME NEW w \in Writers, exit(w) PROVE FastPath'
  BY <1>0, <1>31 DEF exit
<1>32. ASSUME NEW w \in Writers, rcu_barrier(w) PROVE FastPath'
  BY <1>0, <1>32 DEF rcu_barrier
<1>33. ASSUME NEW w \in Writers, init_rwsem(w) PROVE FastPath'
  BY <1>0, <1>33 DEF init_rwsem
<1>34. ASSUME NEW w \in Writers, NEW c \in CPUS, wake_lock(w, c) PROVE FastPath'
  BY <1>0, <1>34 DEF wake_lock
<1>35. ASSUME callback PROVE FastPath'
  <2>1. /\ sync_gp' = sync_gp
        /\ gp_state' \in {GP_PASSED, GP_EXIT, GP_IDLE}
        /\ (gp_state' = GP_IDLE => gp_count = 0) /\ cb_queued # 0
    BY <1>35 DEF callback
  <2>2. gp_count = 0 => \A w \in Writers : pc[w] \notin EnterPc \cup EnteredPc
    BY EnteredSome, EnteredFinite DEF Updaters, GpStateMatches
  <2>3. gp_state \notin {GP_IDLE, GP_ENTER}
    BY <2>1 DEF Updaters, GpStateMatches
  <2>4. \A t \in Tasks : pc'[t] = pc[t] \/ (pc[t] = "barrier" /\ pc'[t] = "freed")
    BY <1>35, CallbackMoves
  <2> QED BY <2>1, <2>2, <2>3, <2>4
<1>36. CASE UNCHANGED vars
  BY <1>36 DEF vars
<1> HIDE DEF Goto, Jump, preempt_disable, preempt_enable, this_cpu_add,
      ReadLocked, Prodded, UnlockWaiters, semvars, rsp, rcuvars, queue, semrest,
      locals, rssvars, gpvars, rcu_read_unlock, wake_up, rcu_sync_enter,
      synchronize_rcu, rcu_sync_func, rcu_sync_call, prepare_to_wait_event,
      finish_wait, rcu_sync_exit, rcu_sync_dtor, rcu_callback, FastPath, Kinds,
      Life, Preemption, Section, InUse, Tasks, GP_IDLE, GP_ENTER, GP_PASSED,
      GP_EXIT, GP_REPLAY, rcu_sync_is_idle, gp_passed, FastPc, TryPc, WaitPc,
      WakePc, ReaderPc, WriterPc, EnterPc, EnteredPc, RcuwaitPc, ReadPc, FreePc
<1> QED BY <1>1, <1>2, <1>3, <1>4, <1>5, <1>6, <1>7, <1>8, <1>9, <1>10, <1>11,
      <1>12, <1>13, <1>14, <1>15, <1>16, <1>17, <1>18, <1>19, <1>20, <1>21,
      <1>22, <1>23, <1>24, <1>25, <1>26, <1>27, <1>28, <1>29, <1>30, <1>31,
      <1>32, <1>33, <1>34, <1>35, <1>36 DEF Next, Start, Continue,
      trylock_step, wait_step, reader_step, writer_step, Tasks

\* The rcuwait belongs to the writer that waits on it.
LEMMA RcuwaitStep ==
  ASSUME pc \in [Tasks -> PC],
         scan \in [Writers -> [cpu : CPUS, sum : 0 .. Mod - 1]], Kinds,
         Ownership, Life, Rcuwait, [Next]_vars
  PROVE  Rcuwait'
<1> USE TasksAssumption DEF Goto, Jump, preempt_disable, preempt_enable,
      this_cpu_add, ReadLocked, Prodded, UnlockWaiters, semvars, rsp, rcuvars,
      queue, semrest, locals, rssvars, gpvars, rcu_read_unlock, wake_up,
      rcu_sync_enter, synchronize_rcu, rcu_sync_func, rcu_sync_call,
      prepare_to_wait_event, finish_wait, rcu_sync_exit, rcu_sync_dtor,
      rcu_callback, Ownership, Owns, Rcuwait, Kinds, Life, Tasks, RcuwaitPc,
      FreePc
<1>0. started' = started
  BY DEF Next, vars
<1>1. ASSUME NEW r \in Readers, NEW c \in CPUS, NEW k \in {"first", "try"},
             down_read(r, c, k)
      PROVE  Rcuwait'
  BY <1>0, <1>1 DEF down_read
<1>2. ASSUME NEW r \in Readers, fast_inc(r) PROVE Rcuwait'
  BY <1>0, <1>2 DEF fast_inc
<1>3. ASSUME NEW r \in Readers, NEW c \in CPUS, up_read(r, c) PROVE Rcuwait'
  BY <1>0, <1>3 DEF up_read
<1>4. ASSUME NEW r \in Readers, fast_dec(r) PROVE Rcuwait'
  BY <1>0, <1>4 DEF fast_dec
<1>5. ASSUME NEW r \in Readers, NEW c \in CPUS, wait_lock_reader(r, c)
      PROVE  Rcuwait'
  BY <1>0, <1>5 DEF wait_lock_reader
<1>6. ASSUME NEW t \in Tasks, inc(t) PROVE Rcuwait'
  BY <1>0, <1>6 DEF inc
<1>7. ASSUME NEW t \in Tasks, test_block(t) PROVE Rcuwait'
  BY <1>0, <1>7 DEF test_block
<1>8. ASSUME NEW t \in Tasks, dec(t) PROVE Rcuwait'
  BY <1>0, <1>8 DEF dec
<1>9. ASSUME NEW t \in Tasks, prod(t) PROVE Rcuwait'
  BY <1>0, <1>9 DEF prod
<1>10. ASSUME NEW t \in Tasks, prod_wake(t) PROVE Rcuwait'
  BY <1>0, <1>10 DEF prod_wake
<1>11. ASSUME NEW t \in Tasks, set_state(t) PROVE Rcuwait'
  BY <1>0, <1>11 DEF set_state
<1>12. ASSUME NEW t \in Tasks, check(t) PROVE Rcuwait'
  BY <1>0, <1>12 DEF check
<1>13. ASSUME NEW t \in Tasks, schedule(t, "asleep", "set_state") PROVE Rcuwait'
  BY <1>0, <1>13 DEF schedule
<1>14. ASSUME NEW w \in Writers, down_write(w) PROVE Rcuwait'
  BY <1>0, <1>14 DEF down_write
<1>15. ASSUME NEW w \in Writers, free_rwsem(w) PROVE Rcuwait'
  BY <1>0, <1>15 DEF free_rwsem
<1>16. ASSUME NEW w \in Writers, sync(w) PROVE Rcuwait'
  BY <1>0, <1>16 DEF sync
<1>17. ASSUME NEW w \in Writers, gp_cond(w) PROVE Rcuwait'
  BY <1>0, <1>17 DEF gp_cond
<1>18. ASSUME NEW w \in Writers, gp_prepare(w) PROVE Rcuwait'
  BY <1>0, <1>18 DEF gp_prepare
<1>19. ASSUME NEW w \in Writers, gp_check(w) PROVE Rcuwait'
  BY <1>0, <1>19 DEF gp_check
<1>20. ASSUME NEW w \in Writers, schedule(w, "gp_asleep", "gp_prepare")
       PROVE  Rcuwait'
  BY <1>0, <1>20 DEF schedule
<1>21. ASSUME NEW w \in Writers, try_block(w) PROVE Rcuwait'
  BY <1>0, <1>21 DEF try_block
<1>22. ASSUME NEW w \in Writers, wait_lock_writer(w) PROVE Rcuwait'
  BY <1>0, <1>22 DEF wait_lock_writer
<1>23. ASSUME NEW w \in Writers, prepare_to_rcuwait(w) PROVE Rcuwait'
  BY <1>0, <1>23 DEF prepare_to_rcuwait
<1>24. ASSUME NEW w \in Writers, rcuwait(w) PROVE Rcuwait'
  BY <1>0, <1>24 DEF rcuwait
<1>25. ASSUME NEW w \in Writers, per_cpu_sum(w) PROVE Rcuwait'
  BY <1>0, <1>25 DEF per_cpu_sum
<1>26. ASSUME NEW w \in Writers, finish_rcuwait(w) PROVE Rcuwait'
  BY <1>0, <1>26 DEF finish_rcuwait
<1>27. ASSUME NEW w \in Writers, schedule(w, "rcuwait_asleep", "rcuwait")
       PROVE  Rcuwait'
  BY <1>0, <1>27 DEF schedule
<1>28. ASSUME NEW w \in Writers, up_write(w) PROVE Rcuwait'
  BY <1>0, <1>28 DEF up_write
<1>29. ASSUME NEW w \in Writers, wake_next(w) PROVE Rcuwait'
  BY <1>0, <1>29 DEF wake_next
<1>30. ASSUME NEW w \in Writers, wake_process(w) PROVE Rcuwait'
  BY <1>0, <1>30 DEF wake_process
<1>31. ASSUME NEW w \in Writers, exit(w) PROVE Rcuwait'
  BY <1>0, <1>31 DEF exit
<1>32. ASSUME NEW w \in Writers, rcu_barrier(w) PROVE Rcuwait'
  BY <1>0, <1>32 DEF rcu_barrier
<1>33. ASSUME NEW w \in Writers, init_rwsem(w) PROVE Rcuwait'
  BY <1>0, <1>33 DEF init_rwsem
<1>34. ASSUME NEW w \in Writers, NEW c \in CPUS, wake_lock(w, c) PROVE Rcuwait'
  BY <1>0, <1>34 DEF wake_lock
<1>35. ASSUME callback PROVE Rcuwait'
  BY <1>0, <1>35 DEF callback
<1>36. CASE UNCHANGED vars
  BY <1>36 DEF vars
<1> HIDE DEF Goto, Jump, preempt_disable, preempt_enable, this_cpu_add,
      ReadLocked, Prodded, UnlockWaiters, semvars, rsp, rcuvars, queue, semrest,
      locals, rssvars, gpvars, rcu_read_unlock, wake_up, rcu_sync_enter,
      synchronize_rcu, rcu_sync_func, rcu_sync_call, prepare_to_wait_event,
      finish_wait, rcu_sync_exit, rcu_sync_dtor, rcu_callback, Ownership, Owns,
      Rcuwait, Kinds, Life, Tasks, RcuwaitPc, FreePc
<1> QED BY <1>1, <1>2, <1>3, <1>4, <1>5, <1>6, <1>7, <1>8, <1>9, <1>10, <1>11,
      <1>12, <1>13, <1>14, <1>15, <1>16, <1>17, <1>18, <1>19, <1>20, <1>21,
      <1>22, <1>23, <1>24, <1>25, <1>26, <1>27, <1>28, <1>29, <1>30, <1>31,
      <1>32, <1>33, <1>34, <1>35, <1>36 DEF Next, Start, Continue,
      trylock_step, wait_step, reader_step, writer_step, Tasks

-----------------------------------------------------------------------------
(***************************************************************************)
(* Wakeups.                                                                 *)
(***************************************************************************)

\* While block is clear somebody will look at the queue: the reader that joins
\* it has found block set under waiters.lock, and the writer that clears block
\* takes that lock afterwards.
LEMMA WakersStep ==
  ASSUME pc \in [Tasks -> PC], ctx \in [Tasks -> CTX], waiters \in Seq(Tasks),
         seen \in [Tasks -> Tasks \cup {NULL}], block \in {0, 1},
         wq_lock \in Tasks \cup {NULL}, Kinds, QueueLock, Queue, Life, Wakers,
         [Next]_vars
  PROVE  Wakers'
<1> USE TasksAssumption DEF Goto, Jump, preempt_disable, preempt_enable,
      this_cpu_add, ReadLocked, Prodded, UnlockWaiters, semvars, rsp, rcuvars,
      queue, semrest, locals, rssvars, gpvars, rcu_read_unlock, wake_up,
      rcu_sync_enter, synchronize_rcu, rcu_sync_func, rcu_sync_call,
      prepare_to_wait_event, finish_wait, rcu_sync_exit, rcu_sync_dtor,
      rcu_callback, Wakers, NeedsWaker, WillWake, Kinds, QueueLock, UnderLock,
      Life, WakePc, TryPc, FreePc, Tasks
<1>0. started' = started
  BY DEF Next, vars
<1>1. ASSUME NEW r \in Readers, NEW c \in CPUS, NEW k \in {"first", "try"},
             down_read(r, c, k)
      PROVE  Wakers'
  BY <1>0, <1>1 DEF down_read
<1>2. ASSUME NEW r \in Readers, fast_inc(r) PROVE Wakers'
  BY <1>0, <1>2 DEF fast_inc
<1>3. ASSUME NEW r \in Readers, NEW c \in CPUS, up_read(r, c) PROVE Wakers'
  BY <1>0, <1>3 DEF up_read
<1>4. ASSUME NEW r \in Readers, fast_dec(r) PROVE Wakers'
  BY <1>0, <1>4 DEF fast_dec
<1>5. ASSUME NEW r \in Readers, NEW c \in CPUS, wait_lock_reader(r, c)
      PROVE  Wakers'
  BY <1>0, <1>5 DEF wait_lock_reader
<1>6. ASSUME NEW t \in Tasks, inc(t) PROVE Wakers'
  BY <1>0, <1>6 DEF inc
<1>7. ASSUME NEW t \in Tasks, test_block(t) PROVE Wakers'
  <2>1. CASE block = 0 /\ ctx[t] = "wake"
    <3>1. t \in Writers /\ Head(waiters) \in Readers
      BY <1>7, <2>1 DEF test_block, Queue
    <3>2. pc'[t] = "wake_process" /\ seen'[t] = Head(waiters)
      BY <1>7, <2>1 DEF test_block
    <3> QED BY <3>1, <3>2
  <2>2. CASE block = 0 /\ ctx[t] # "wake"
    <3>1. /\ t \in Readers /\ pc' = [pc EXCEPT ![t] = "read"]
          /\ ctx' = [ctx EXCEPT ![t] = "none"]
          /\ UNCHANGED <<block, waiters, seen>> /\ pc[t] = "block"
      BY <1>7, <2>2 DEF test_block
    <3> QED BY <3>1
  <2>3. CASE block = 1
    BY <1>7, <2>3 DEF test_block
  <2> QED BY <2>1, <2>2, <2>3
<1>8. ASSUME NEW t \in Tasks, dec(t) PROVE Wakers'
  BY <1>0, <1>8 DEF dec
<1>9. ASSUME NEW t \in Tasks, prod(t) PROVE Wakers'
  BY <1>0, <1>9 DEF prod
<1>10. ASSUME NEW t \in Tasks, prod_wake(t) PROVE Wakers'
  BY <1>0, <1>10 DEF prod_wake
<1>11. ASSUME NEW t \in Tasks, set_state(t) PROVE Wakers'
  BY <1>0, <1>11 DEF set_state
<1>12. ASSUME NEW t \in Tasks, check(t) PROVE Wakers'
  BY <1>0, <1>12 DEF check
<1>13. ASSUME NEW t \in Tasks, schedule(t, "asleep", "set_state") PROVE Wakers'
  BY <1>0, <1>13 DEF schedule
<1>14. ASSUME NEW w \in Writers, down_write(w) PROVE Wakers'
  BY <1>0, <1>14 DEF down_write
<1>15. ASSUME NEW w \in Writers, free_rwsem(w) PROVE Wakers'
  BY <1>0, <1>15 DEF free_rwsem
<1>16. ASSUME NEW w \in Writers, sync(w) PROVE Wakers'
  BY <1>0, <1>16 DEF sync
<1>17. ASSUME NEW w \in Writers, gp_cond(w) PROVE Wakers'
  BY <1>0, <1>17 DEF gp_cond
<1>18. ASSUME NEW w \in Writers, gp_prepare(w) PROVE Wakers'
  BY <1>0, <1>18 DEF gp_prepare
<1>19. ASSUME NEW w \in Writers, gp_check(w) PROVE Wakers'
  BY <1>0, <1>19 DEF gp_check
<1>20. ASSUME NEW w \in Writers, schedule(w, "gp_asleep", "gp_prepare")
       PROVE  Wakers'
  BY <1>0, <1>20 DEF schedule
<1>21. ASSUME NEW w \in Writers, try_block(w) PROVE Wakers'
  BY <1>0, <1>21 DEF try_block
<1>22. ASSUME NEW w \in Writers, wait_lock_writer(w) PROVE Wakers'
  BY <1>0, <1>22 DEF wait_lock_writer
<1>23. ASSUME NEW w \in Writers, prepare_to_rcuwait(w) PROVE Wakers'
  BY <1>0, <1>23 DEF prepare_to_rcuwait
<1>24. ASSUME NEW w \in Writers, rcuwait(w) PROVE Wakers'
  BY <1>0, <1>24 DEF rcuwait
<1>25. ASSUME NEW w \in Writers, per_cpu_sum(w) PROVE Wakers'
  BY <1>0, <1>25 DEF per_cpu_sum
<1>26. ASSUME NEW w \in Writers, finish_rcuwait(w) PROVE Wakers'
  BY <1>0, <1>26 DEF finish_rcuwait
<1>27. ASSUME NEW w \in Writers, schedule(w, "rcuwait_asleep", "rcuwait")
       PROVE  Wakers'
  BY <1>0, <1>27 DEF schedule
<1>28. ASSUME NEW w \in Writers, up_write(w) PROVE Wakers'
  BY <1>0, <1>28 DEF up_write
<1>29. ASSUME NEW w \in Writers, wake_next(w) PROVE Wakers'
  BY <1>0, <1>29 DEF wake_next
<1>30. ASSUME NEW w \in Writers, wake_process(w) PROVE Wakers'
  BY <1>0, <1>30 DEF wake_process
<1>31. ASSUME NEW w \in Writers, exit(w) PROVE Wakers'
  BY <1>0, <1>31 DEF exit
<1>32. ASSUME NEW w \in Writers, rcu_barrier(w) PROVE Wakers'
  BY <1>0, <1>32 DEF rcu_barrier
<1>33. ASSUME NEW w \in Writers, init_rwsem(w) PROVE Wakers'
  BY <1>0, <1>33 DEF init_rwsem
<1>34. ASSUME NEW w \in Writers, NEW c \in CPUS, wake_lock(w, c) PROVE Wakers'
  BY <1>0, <1>34 DEF wake_lock
<1>35. ASSUME callback PROVE Wakers'
  BY <1>0, <1>35 DEF callback
<1>36. CASE UNCHANGED vars
  BY <1>36 DEF vars
<1> HIDE DEF Goto, Jump, preempt_disable, preempt_enable, this_cpu_add,
      ReadLocked, Prodded, UnlockWaiters, semvars, rsp, rcuvars, queue, semrest,
      locals, rssvars, gpvars, rcu_read_unlock, wake_up, rcu_sync_enter,
      synchronize_rcu, rcu_sync_func, rcu_sync_call, prepare_to_wait_event,
      finish_wait, rcu_sync_exit, rcu_sync_dtor, rcu_callback, Wakers,
      NeedsWaker, WillWake, Kinds, QueueLock, UnderLock, Life, WakePc, TryPc,
      FreePc, Tasks
<1> QED BY <1>1, <1>2, <1>3, <1>4, <1>5, <1>6, <1>7, <1>8, <1>9, <1>10, <1>11,
      <1>12, <1>13, <1>14, <1>15, <1>16, <1>17, <1>18, <1>19, <1>20, <1>21,
      <1>22, <1>23, <1>24, <1>25, <1>26, <1>27, <1>28, <1>29, <1>30, <1>31,
      <1>32, <1>33, <1>34, <1>35, <1>36 DEF Next, Start, Continue,
      trylock_step, wait_step, reader_step, writer_step, Tasks

\* A task is taken off the queue by a waker that then wakes it.
LEMMA GrantedStep ==
  ASSUME pc \in [Tasks -> PC], ctx \in [Tasks -> CTX], waiters \in Seq(Tasks),
         seen \in [Tasks -> Tasks \cup {NULL}],
         state \in [Tasks -> {"TASK_RUNNING", "TASK_UNINTERRUPTIBLE"}], Kinds,
         Queue, Granted, Life, [Next]_vars
  PROVE  Granted'
<1> USE TasksAssumption DEF Goto, Jump, preempt_disable, preempt_enable,
      this_cpu_add, ReadLocked, Prodded, UnlockWaiters, semvars, rsp, rcuvars,
      queue, semrest, locals, rssvars, gpvars, rcu_read_unlock, wake_up,
      rcu_sync_enter, synchronize_rcu, rcu_sync_func, rcu_sync_call,
      prepare_to_wait_event, finish_wait, rcu_sync_exit, rcu_sync_dtor,
      rcu_callback, Granted, Asleep, Life, FreePc, Tasks, Queue, Kinds, WaitPc,
      TryPc
<1>0. started' = started
  BY DEF Next, vars
<1>0q. waiters' = waiters => Waiting' = Waiting /\ (Distinct => Distinct')
  BY DEF Waiting, Distinct
<1>1. ASSUME NEW r \in Readers, NEW c \in CPUS, NEW k \in {"first", "try"},
             down_read(r, c, k)
      PROVE  Granted'
  BY <1>0, <1>0q, <1>1 DEF down_read
<1>2. ASSUME NEW r \in Readers, fast_inc(r) PROVE Granted'
  BY <1>0, <1>0q, <1>2 DEF fast_inc
<1>3. ASSUME NEW r \in Readers, NEW c \in CPUS, up_read(r, c) PROVE Granted'
  BY <1>0, <1>0q, <1>3 DEF up_read
<1>4. ASSUME NEW r \in Readers, fast_dec(r) PROVE Granted'
  BY <1>0, <1>0q, <1>4 DEF fast_dec
<1>5. ASSUME NEW r \in Readers, NEW c \in CPUS, wait_lock_reader(r, c)
      PROVE  Granted'
  BY <1>0, <1>0q, <1>5 DEF wait_lock_reader
<1>6. ASSUME NEW t \in Tasks, inc(t) PROVE Granted'
  BY <1>0, <1>0q, <1>6 DEF inc
<1>7. ASSUME NEW t \in Tasks, test_block(t) PROVE Granted'
  <2>1. CASE waiters' = waiters
    BY <1>7, <1>0q, <2>1 DEF test_block
  <2>2. CASE waiters' # waiters
    <3>1. /\ waiters # <<>> /\ waiters' = Tail(waiters)
          /\ pc' = [pc EXCEPT ![t] = "wake_process"] /\ t \in Writers
          /\ pc[t] # "wake_process"
          /\ seen' = [seen EXCEPT ![t] = Head(waiters)] /\ state' = state
      BY <1>7, <2>2 DEF test_block
    <3>2. Distinct' /\ Waiting' = Waiting \ {Head(waiters)}
      BY <3>1, QueueTail
    <3> QED BY <3>1, <3>2
  <2> QED BY <2>1, <2>2
<1>8. ASSUME NEW t \in Tasks, dec(t) PROVE Granted'
  BY <1>0, <1>0q, <1>8 DEF dec
<1>9. ASSUME NEW t \in Tasks, prod(t) PROVE Granted'
  <2>1. CASE waiters' = waiters
    BY <1>9, <1>0q, <2>1 DEF prod
  <2>2. CASE waiters' # waiters
    <3>1. /\ t \notin Waiting /\ waiters' = Append(waiters, t)
          /\ pc' = [pc EXCEPT ![t] = "set_state"]
          /\ pc[t] \in {"prod", "prod_wake", "wait_lock"}
          /\ (\A u \in Tasks : state'[u] \in {state[u], "TASK_RUNNING"}) /\ seen' \in {seen, [seen EXCEPT ![t] = NULL]}
      BY <1>9, <2>2 DEF prod
    <3>2. Distinct' /\ Waiting' = Waiting \cup {t} /\ waiters' # <<>>
          /\ (waiters # <<>> => Head(waiters') = Head(waiters))
      BY <3>1, QueueAdd
    <3> QED BY <3>1, <3>2
  <2> QED BY <2>1, <2>2
<1>10. ASSUME NEW t \in Tasks, prod_wake(t) PROVE Granted'
  <2>1. CASE waiters' = waiters
    BY <1>10, <1>0q, <2>1 DEF prod_wake
  <2>2. CASE waiters' # waiters
    <3>1. /\ t \notin Waiting /\ waiters' = Append(waiters, t)
          /\ pc' = [pc EXCEPT ![t] = "set_state"]
          /\ pc[t] \in {"prod", "prod_wake", "wait_lock"}
          /\ (\A u \in Tasks : state'[u] \in {state[u], "TASK_RUNNING"}) /\ seen' \in {seen, [seen EXCEPT ![t] = NULL]}
      BY <1>10, <2>2 DEF prod_wake
    <3>2. Distinct' /\ Waiting' = Waiting \cup {t} /\ waiters' # <<>>
          /\ (waiters # <<>> => Head(waiters') = Head(waiters))
      BY <3>1, QueueAdd
    <3> QED BY <3>1, <3>2
  <2> QED BY <2>1, <2>2
<1>11. ASSUME NEW t \in Tasks, set_state(t) PROVE Granted'
  BY <1>0, <1>0q, <1>11 DEF set_state
<1>12. ASSUME NEW t \in Tasks, check(t) PROVE Granted'
  BY <1>0, <1>0q, <1>12 DEF check
<1>13. ASSUME NEW t \in Tasks, schedule(t, "asleep", "set_state") PROVE Granted'
  BY <1>0, <1>0q, <1>13 DEF schedule
<1>14. ASSUME NEW w \in Writers, down_write(w) PROVE Granted'
  BY <1>0, <1>0q, <1>14 DEF down_write
<1>15. ASSUME NEW w \in Writers, free_rwsem(w) PROVE Granted'
  BY <1>0, <1>0q, <1>15 DEF free_rwsem
<1>16. ASSUME NEW w \in Writers, sync(w) PROVE Granted'
  BY <1>0, <1>0q, <1>16 DEF sync
<1>17. ASSUME NEW w \in Writers, gp_cond(w) PROVE Granted'
  BY <1>0, <1>0q, <1>17 DEF gp_cond
<1>18. ASSUME NEW w \in Writers, gp_prepare(w) PROVE Granted'
  BY <1>0, <1>0q, <1>18 DEF gp_prepare
<1>19. ASSUME NEW w \in Writers, gp_check(w) PROVE Granted'
  BY <1>0, <1>0q, <1>19 DEF gp_check
<1>20. ASSUME NEW w \in Writers, schedule(w, "gp_asleep", "gp_prepare")
       PROVE  Granted'
  BY <1>0, <1>0q, <1>20 DEF schedule
<1>21. ASSUME NEW w \in Writers, try_block(w) PROVE Granted'
  BY <1>0, <1>0q, <1>21 DEF try_block
<1>22. ASSUME NEW w \in Writers, wait_lock_writer(w) PROVE Granted'
  <2>1. CASE waiters' = waiters
    BY <1>22, <1>0q, <2>1 DEF wait_lock_writer
  <2>2. CASE waiters' # waiters
    <3>1. /\ w \notin Waiting /\ waiters' = Append(waiters, w)
          /\ pc' = [pc EXCEPT ![w] = "set_state"]
          /\ pc[w] \in {"prod", "prod_wake", "wait_lock"}
          /\ (\A u \in Tasks : state'[u] \in {state[u], "TASK_RUNNING"}) /\ seen' \in {seen, [seen EXCEPT ![w] = NULL]}
      BY <1>22, <2>2 DEF wait_lock_writer
    <3>2. Distinct' /\ Waiting' = Waiting \cup {w} /\ waiters' # <<>>
          /\ (waiters # <<>> => Head(waiters') = Head(waiters))
      BY <3>1, QueueAdd
    <3> QED BY <3>1, <3>2
  <2> QED BY <2>1, <2>2
<1>23. ASSUME NEW w \in Writers, prepare_to_rcuwait(w) PROVE Granted'
  BY <1>0, <1>0q, <1>23 DEF prepare_to_rcuwait
<1>24. ASSUME NEW w \in Writers, rcuwait(w) PROVE Granted'
  BY <1>0, <1>0q, <1>24 DEF rcuwait
<1>25. ASSUME NEW w \in Writers, per_cpu_sum(w) PROVE Granted'
  BY <1>0, <1>0q, <1>25 DEF per_cpu_sum
<1>26. ASSUME NEW w \in Writers, finish_rcuwait(w) PROVE Granted'
  BY <1>0, <1>0q, <1>26 DEF finish_rcuwait
<1>27. ASSUME NEW w \in Writers, schedule(w, "rcuwait_asleep", "rcuwait")
       PROVE  Granted'
  BY <1>0, <1>0q, <1>27 DEF schedule
<1>28. ASSUME NEW w \in Writers, up_write(w) PROVE Granted'
  BY <1>0, <1>0q, <1>28 DEF up_write
<1>29. ASSUME NEW w \in Writers, wake_next(w) PROVE Granted'
  <2>1. CASE waiters' = waiters
    BY <1>29, <1>0q, <2>1 DEF wake_next
  <2>2. CASE waiters' # waiters
    <3>1. /\ waiters # <<>> /\ waiters' = Tail(waiters)
          /\ pc' = [pc EXCEPT ![w] = "wake_process"] /\ w \in Writers
          /\ pc[w] # "wake_process"
          /\ seen' = [seen EXCEPT ![w] = Head(waiters)] /\ state' = state
      BY <1>29, <2>2 DEF wake_next
    <3>2. Distinct' /\ Waiting' = Waiting \ {Head(waiters)}
      BY <3>1, QueueTail
    <3> QED BY <3>1, <3>2
  <2> QED BY <2>1, <2>2
<1>30. ASSUME NEW w \in Writers, wake_process(w) PROVE Granted'
  BY <1>0, <1>0q, <1>30 DEF wake_process
<1>31. ASSUME NEW w \in Writers, exit(w) PROVE Granted'
  BY <1>0, <1>0q, <1>31 DEF exit
<1>32. ASSUME NEW w \in Writers, rcu_barrier(w) PROVE Granted'
  BY <1>0, <1>0q, <1>32 DEF rcu_barrier
<1>33. ASSUME NEW w \in Writers, init_rwsem(w) PROVE Granted'
  <2>1. waiters' = <<>> /\ pc' = [pc EXCEPT ![w] = "idle"]
    BY <1>33 DEF init_rwsem
  <2>2. Waiting' = {} /\ Distinct'
    BY <2>1 DEF Waiting, Range, Distinct
  <2> QED BY <1>33, <2>1, <2>2 DEF init_rwsem
<1>34. ASSUME NEW w \in Writers, NEW c \in CPUS, wake_lock(w, c) PROVE Granted'
  BY <1>0, <1>0q, <1>34 DEF wake_lock
<1>35. ASSUME callback PROVE Granted'
  BY <1>0, <1>0q, <1>35 DEF callback
<1>36. CASE UNCHANGED vars
  BY <1>0q, <1>36 DEF vars
<1> HIDE DEF Goto, Jump, preempt_disable, preempt_enable, this_cpu_add,
      ReadLocked, Prodded, UnlockWaiters, semvars, rsp, rcuvars, queue, semrest,
      locals, rssvars, gpvars, rcu_read_unlock, wake_up, rcu_sync_enter,
      synchronize_rcu, rcu_sync_func, rcu_sync_call, prepare_to_wait_event,
      finish_wait, rcu_sync_exit, rcu_sync_dtor, rcu_callback, Granted, Asleep,
      Life, FreePc, Tasks, Queue, Kinds, WaitPc, TryPc
<1> QED BY <1>1, <1>2, <1>3, <1>4, <1>5, <1>6, <1>7, <1>8, <1>9, <1>10, <1>11,
      <1>12, <1>13, <1>14, <1>15, <1>16, <1>17, <1>18, <1>19, <1>20, <1>21,
      <1>22, <1>23, <1>24, <1>25, <1>26, <1>27, <1>28, <1>29, <1>30, <1>31,
      <1>32, <1>33, <1>34, <1>35, <1>36 DEF Next, Start, Continue,
      trylock_step, wait_step, reader_step, writer_step, Tasks

\* An updater that saw no grace period pass is on gp_wait when it sleeps.
LEMMA GpSleepersStep ==
  ASSUME pc \in [Tasks -> PC], gp_state \in GP_IDLE .. GP_REPLAY,
         gp_wait \subseteq Writers,
         state \in [Tasks -> {"TASK_RUNNING", "TASK_UNINTERRUPTIBLE"}],
         gp_count \in Nat, cb_queued \in Nat, started \in BOOLEAN, Kinds, Life,
         Updaters, FastPath, GpSleepers, [Next]_vars
  PROVE  GpSleepers'
<1> USE TasksAssumption DEF Goto, Jump, preempt_disable, preempt_enable,
      this_cpu_add, ReadLocked, Prodded, UnlockWaiters, semvars, rsp, rcuvars,
      queue, semrest, locals, rssvars, gpvars, rcu_read_unlock, wake_up,
      rcu_sync_enter, synchronize_rcu, rcu_sync_func, rcu_sync_call,
      prepare_to_wait_event, finish_wait, rcu_sync_exit, rcu_sync_dtor,
      rcu_callback, GpSleepers, Asleep, gp_passed, Tasks, GP_IDLE, GP_ENTER,
      GP_PASSED, GP_EXIT, GP_REPLAY, Life, FreePc, Kinds, InUse
<1>0. started' = started
  BY DEF Next, vars
<1>1. ASSUME NEW r \in Readers, NEW c \in CPUS, NEW k \in {"first", "try"},
             down_read(r, c, k)
      PROVE  GpSleepers'
  BY <1>0, <1>1 DEF down_read
<1>2. ASSUME NEW r \in Readers, fast_inc(r) PROVE GpSleepers'
  BY <1>0, <1>2 DEF fast_inc
<1>3. ASSUME NEW r \in Readers, NEW c \in CPUS, up_read(r, c) PROVE GpSleepers'
  BY <1>0, <1>3 DEF up_read
<1>4. ASSUME NEW r \in Readers, fast_dec(r) PROVE GpSleepers'
  BY <1>0, <1>4 DEF fast_dec
<1>5. ASSUME NEW r \in Readers, NEW c \in CPUS, wait_lock_reader(r, c)
      PROVE  GpSleepers'
  BY <1>0, <1>5 DEF wait_lock_reader
<1>6. ASSUME NEW t \in Tasks, inc(t) PROVE GpSleepers'
  BY <1>0, <1>6 DEF inc
<1>7. ASSUME NEW t \in Tasks, test_block(t) PROVE GpSleepers'
  BY <1>0, <1>7 DEF test_block
<1>8. ASSUME NEW t \in Tasks, dec(t) PROVE GpSleepers'
  BY <1>0, <1>8 DEF dec
<1>9. ASSUME NEW t \in Tasks, prod(t) PROVE GpSleepers'
  BY <1>0, <1>9 DEF prod
<1>10. ASSUME NEW t \in Tasks, prod_wake(t) PROVE GpSleepers'
  BY <1>0, <1>10 DEF prod_wake
<1>11. ASSUME NEW t \in Tasks, set_state(t) PROVE GpSleepers'
  BY <1>0, <1>11 DEF set_state
<1>12. ASSUME NEW t \in Tasks, check(t) PROVE GpSleepers'
  BY <1>0, <1>12 DEF check
<1>13. ASSUME NEW t \in Tasks, schedule(t, "asleep", "set_state")
       PROVE  GpSleepers'
  BY <1>0, <1>13 DEF schedule
<1>14. ASSUME NEW w \in Writers, down_write(w) PROVE GpSleepers'
  <2>1. /\ pc' = [pc EXCEPT ![w] = pc'[w]] /\ pc'[w] \in {"sync", "gp_cond"}
        /\ gp_wait' = gp_wait /\ state' = state
        /\ (gp_passed' <=> gp_passed)
    BY <1>14 DEF down_write, rcu_sync_is_idle
  <2> QED BY <2>1
<1>15. ASSUME NEW w \in Writers, free_rwsem(w) PROVE GpSleepers'
  BY <1>0, <1>15 DEF free_rwsem
<1>16. ASSUME NEW w \in Writers, sync(w) PROVE GpSleepers'
  <2>1. pc[w] = "sync" /\ pc' = [pc EXCEPT ![w] = "try_block"]
    BY <1>16 DEF sync
  <2>2. gp_state = GP_ENTER
    BY <2>1 DEF Updaters, GpStateMatches
  <2>3. gp_count # 0
    <3>1. pc[w] \in EnterPc
      BY <2>1 DEF EnterPc
    <3> QED BY <3>1, <1>0, EnteredSome, EnteredFinite DEF Updaters,
          GpStateMatches
  <2>4. gp_state' = GP_PASSED /\ wake_up(gp_wait)
    BY <1>16, <2>3 DEF sync
  <2> QED BY <2>1, <2>2, <2>4
<1>17. ASSUME NEW w \in Writers, gp_cond(w) PROVE GpSleepers'
  BY <1>0, <1>17 DEF gp_cond
<1>18. ASSUME NEW w \in Writers, gp_prepare(w) PROVE GpSleepers'
  BY <1>0, <1>18 DEF gp_prepare
<1>19. ASSUME NEW w \in Writers, gp_check(w) PROVE GpSleepers'
  BY <1>0, <1>19 DEF gp_check
<1>20. ASSUME NEW w \in Writers, schedule(w, "gp_asleep", "gp_prepare")
       PROVE  GpSleepers'
  BY <1>0, <1>20 DEF schedule
<1>21. ASSUME NEW w \in Writers, try_block(w) PROVE GpSleepers'
  BY <1>0, <1>21 DEF try_block
<1>22. ASSUME NEW w \in Writers, wait_lock_writer(w) PROVE GpSleepers'
  BY <1>0, <1>22 DEF wait_lock_writer
<1>23. ASSUME NEW w \in Writers, prepare_to_rcuwait(w) PROVE GpSleepers'
  BY <1>0, <1>23 DEF prepare_to_rcuwait
<1>24. ASSUME NEW w \in Writers, rcuwait(w) PROVE GpSleepers'
  BY <1>0, <1>24 DEF rcuwait
<1>25. ASSUME NEW w \in Writers, per_cpu_sum(w) PROVE GpSleepers'
  BY <1>0, <1>25 DEF per_cpu_sum
<1>26. ASSUME NEW w \in Writers, finish_rcuwait(w) PROVE GpSleepers'
  BY <1>0, <1>26 DEF finish_rcuwait
<1>27. ASSUME NEW w \in Writers, schedule(w, "rcuwait_asleep", "rcuwait")
       PROVE  GpSleepers'
  BY <1>0, <1>27 DEF schedule
<1>28. ASSUME NEW w \in Writers, up_write(w) PROVE GpSleepers'
  BY <1>0, <1>28 DEF up_write
<1>29. ASSUME NEW w \in Writers, wake_next(w) PROVE GpSleepers'
  BY <1>0, <1>29 DEF wake_next
<1>30. ASSUME NEW w \in Writers, wake_process(w) PROVE GpSleepers'
  BY <1>0, <1>30 DEF wake_process
<1>31. ASSUME NEW w \in Writers, exit(w) PROVE GpSleepers'
  BY <1>0, <1>31 DEF exit
<1>32. ASSUME NEW w \in Writers, rcu_barrier(w) PROVE GpSleepers'
  BY <1>0, <1>32 DEF rcu_barrier
<1>33. ASSUME NEW w \in Writers, init_rwsem(w) PROVE GpSleepers'
  BY <1>0, <1>33 DEF init_rwsem
<1>34. ASSUME NEW w \in Writers, NEW c \in CPUS, wake_lock(w, c)
       PROVE  GpSleepers'
  BY <1>0, <1>34 DEF wake_lock
<1>35. ASSUME callback PROVE GpSleepers'
  <2>1. gp_passed
    BY <1>35 DEF callback, Updaters, GpStateMatches
  <2>4. \A t \in Tasks : pc'[t] = pc[t] \/ (pc[t] = "barrier" /\ pc'[t] = "freed")
    BY <1>35, CallbackMoves
  <2>2. CASE gp_count # 0
    <3>1. gp_state' = GP_PASSED /\ wake_up(gp_wait)
      BY <1>35, <2>2 DEF callback
    <3> QED BY <2>1, <2>4, <3>1
  <2>3. CASE gp_count = 0
    <3>1. \A w \in Writers : pc[w] \notin EnterPc
      BY <2>3, EnteredSome, EnteredFinite DEF Updaters, GpStateMatches
    <3> QED BY <2>4, <3>1 DEF EnterPc
  <2> QED BY <2>2, <2>3
<1>36. CASE UNCHANGED vars
  BY <1>36 DEF vars
<1> HIDE DEF Goto, Jump, preempt_disable, preempt_enable, this_cpu_add,
      ReadLocked, Prodded, UnlockWaiters, semvars, rsp, rcuvars, queue, semrest,
      locals, rssvars, gpvars, rcu_read_unlock, wake_up, rcu_sync_enter,
      synchronize_rcu, rcu_sync_func, rcu_sync_call, prepare_to_wait_event,
      finish_wait, rcu_sync_exit, rcu_sync_dtor, rcu_callback, GpSleepers,
      Asleep, gp_passed, Tasks, GP_IDLE, GP_ENTER, GP_PASSED, GP_EXIT,
      GP_REPLAY, Life, FreePc, Kinds, InUse
<1> QED BY <1>1, <1>2, <1>3, <1>4, <1>5, <1>6, <1>7, <1>8, <1>9, <1>10, <1>11,
      <1>12, <1>13, <1>14, <1>15, <1>16, <1>17, <1>18, <1>19, <1>20, <1>21,
      <1>22, <1>23, <1>24, <1>25, <1>26, <1>27, <1>28, <1>29, <1>30, <1>31,
      <1>32, <1>33, <1>34, <1>35, <1>36 DEF Next, Start, Continue,
      trylock_step, wait_step, reader_step, writer_step, Tasks

-----------------------------------------------------------------------------
(***************************************************************************)
(* The counters.                                                            *)
(***************************************************************************)

\* A number below M is its own residue.
LEMMA ModSmall ==
  ASSUME NEW M \in Nat \ {0}, NEW a \in 0 .. M - 1
  PROVE  a % M = a
OBVIOUS

\* Where a writer relies on the counters, or is about to.
ScanPc == {"sum", "rcuwait_asleep", "finish", "write"}

\* f, with n more from c on: partial sums after n is added to item c.
Shifted(h, f, c, n) ==
  /\ h[0] = f[0]
  /\ h[NR_CPUS] = f[NR_CPUS] + n
  /\ \A i \in 0 .. NR_CPUS : h[i] = f[i] + (IF i >= c THEN n ELSE 0)
  /\ \A i \in CPUS :
       /\ f[i] \in Int /\ f[i - 1] \in Int /\ h[i] \in Int /\ h[i - 1] \in Int
       /\ h[i] - h[i - 1] = f[i] - f[i - 1] + (IF i = c THEN n ELSE 0)

\* A CPU and its predecessor are in the domain of the partial sums.
LEMMA CpuBounds ==
  ASSUME NEW c \in CPUS
  PROVE  c \in 0 .. NR_CPUS /\ c - 1 \in 0 .. NR_CPUS /\ c \in Int
BY PercpuAssumption DEF CPUS

\* Partial sums can be shifted.
LEMMA Shift ==
  ASSUME NEW f \in [0 .. NR_CPUS -> Int], NEW c \in CPUS, NEW n \in Int
  PROVE  \E h \in [0 .. NR_CPUS -> Int] : Shifted(h, f, c, n)
<1> DEFINE h == [i \in 0 .. NR_CPUS |-> IF i >= c THEN f[i] + n ELSE f[i]]
<1>1. /\ h \in [0 .. NR_CPUS -> Int] /\ h[0] = f[0]
      /\ h[NR_CPUS] = f[NR_CPUS] + n
      /\ \A i \in 0 .. NR_CPUS : h[i] = f[i] + (IF i >= c THEN n ELSE 0)
  BY PercpuAssumption DEF CPUS
<1> HIDE DEF h
<1>2. ASSUME NEW i \in CPUS
      PROVE  /\ f[i] \in Int /\ f[i - 1] \in Int /\ h[i] \in Int /\ h[i - 1] \in Int
             /\ h[i] - h[i - 1] = f[i] - f[i - 1] + (IF i = c THEN n ELSE 0)
  <2>1. i \in 0 .. NR_CPUS /\ i - 1 \in 0 .. NR_CPUS /\ i \in Int /\ c \in Int
    BY CpuBounds
  <2>2. f[i] \in Int /\ f[i - 1] \in Int /\ h[i] \in Int /\ h[i - 1] \in Int
    BY <1>1, <2>1
  <2>3. /\ h[i] = f[i] + (IF i >= c THEN n ELSE 0)
        /\ h[i - 1] = f[i - 1] + (IF i - 1 >= c THEN n ELSE 0)
    BY <1>1, <2>1
  <2> QED BY <2>1, <2>2, <2>3
<1>3. Shifted(h, f, c, n)
  BY <1>1, <1>2 DEF Shifted
<1> QED BY <1>1, <1>3

\* There are at most as many holders as readers,
LEMMA HoldersFinite ==
  /\ IsFiniteSet(Readers) /\ IsFiniteSet(Holders)
  /\ Cardinality(Readers) \in Nat /\ Cardinality(Holders) \in Nat
  /\ Cardinality(Holders) <= Cardinality(Readers)
<1>1. IsFiniteSet(Readers) /\ Holders \subseteq Readers
  BY PercpuAssumption, FS_Subset DEF Tasks, Holders
<1> QED BY <1>1, FS_Subset, FS_CardinalityType

\* they stay the same if nobody comes or goes,
LEMMA HoldersSame ==
  ASSUME \A r \in Readers : Holder(r)' <=> Holder(r)
  PROVE  Holders' = Holders
BY DEF Holders

\* one more if a reader comes,
LEMMA HoldersAdd ==
  ASSUME NEW r \in Readers, ~Holder(r), Holder(r)',
         \A q \in Readers \ {r} : Holder(q)' <=> Holder(q)
  PROVE  Cardinality(Holders)' = Cardinality(Holders) + 1
<1>1. r \notin Holders /\ Holders' = Holders \cup {r}
  BY DEF Holders
<1> QED BY <1>1, HoldersFinite, FS_AddElement

\* and one less if it goes.
LEMMA HoldersRemove ==
  ASSUME NEW r \in Readers, Holder(r), ~Holder(r)',
         \A q \in Readers \ {r} : Holder(q)' <=> Holder(q)
  PROVE  /\ Cardinality(Holders)' = Cardinality(Holders) - 1
         /\ Holders # {} /\ Holders' \subseteq Holders
<1>1. r \in Holders /\ Holders' = Holders \ {r}
  BY DEF Holders
<1> QED BY <1>1, HoldersFinite, FS_RemoveElement

\* Nobody begins or ends to pass.
LEMMA PassingSame ==
  ASSUME \A u \in Tasks, c \in CPUS :
           (cpu'[u] = c /\ Passes(u)') <=> (cpu[u] = c /\ Passes(u))
  PROVE  \A c \in CPUS : Passing(c)' = Passing(c)
BY DEF Passing

\* A task begins to pass: preemption is off, so it is the only one on its CPU.
LEMMA PassingBegins ==
  ASSUME Preemption, NEW t \in Tasks, cpu[t] # NULL, cpu' = cpu,
         ~Passes(t), Passes(t)', \A u \in Tasks \ {t} : Passes(u)' <=> Passes(u)
  PROVE  /\ Passing(cpu[t]) = 0 /\ Passing(cpu[t])' = 1
         /\ \A c \in CPUS \ {cpu[t]} : Passing(c)' = Passing(c)
BY DEF Passing, Preemption

\* A task ends to pass, on the CPU where it began.
LEMMA PassingEnds ==
  ASSUME Preemption, NEW t \in Tasks, cpu[t] # NULL, Passes(t), ~Passes(t)',
         \A u \in Tasks \ {t} : cpu'[u] = cpu[u] /\ (Passes(u)' <=> Passes(u))
  PROVE  /\ Passing(cpu[t]) = 1
         /\ \A c \in CPUS : c = cpu[t] => Passing(c)' = 0
         /\ \A c \in CPUS \ {cpu[t]} : Passing(c)' = Passing(c)
BY DEF Passing, Preemption

\* A task that does not pass may let go of its CPU.
LEMMA PassingNot ==
  ASSUME Preemption, NEW t \in Tasks, cpu[t] # NULL, ~Passes(t), ~Passes(t)',
         \A u \in Tasks \ {t} : cpu'[u] = cpu[u] /\ (Passes(u)' <=> Passes(u))
  PROVE  \A c \in CPUS : Passing(c)' = Passing(c)
BY DEF Passing, Preemption

\* The step leaves the scan of w alone, starts it, or w has already found zero.
ScanKept(w) ==
  \/ pc'[w] \notin ScanPc
  \/ pc[w] \in {"finish", "write"} /\ pc'[w] \in {"finish", "write"}
  \/ pc[w] = "rcuwait" /\ pc'[w] = "sum" /\ scan'[w] = [cpu |-> 1, sum |-> 0]
  \/ pc'[w] = pc[w] /\ scan'[w] = scan[w] /\ (Unprodded(w)' => Unprodded(w))

\* A step that touches neither the counters nor the readers they count keeps
\* Counters.
LEMMA CountersKept ==
  ASSUME Counters, read_count' = read_count,
         \A r \in Readers : Holder(r)' <=> Holder(r),
         \A c \in CPUS : Passing(c)' = Passing(c),
         \A w \in Writers : ScanKept(w)
  PROVE  Counters'
<1>1. PICK g \in [0 .. NR_CPUS -> Int], e \in [0 .. NR_CPUS -> Int] :
        Counted(g, e) /\ \A w \in Writers : Scanned(w, g, e)
  BY DEF Counters
<1>2. Holders' = Holders
  BY HoldersSame
<1>3. Counted(g, e)'
  BY <1>1, <1>2 DEF Counted
<1>4. ASSUME NEW w \in Writers PROVE Scanned(w, g, e)'
  <2>1. Scanned(w, g, e) /\ ScanKept(w)
    BY <1>1
  <2>2. CASE pc'[w] \notin ScanPc
    BY <2>2 DEF Scanned, ScanPc
  <2>3. CASE pc[w] \in {"finish", "write"} /\ pc'[w] \in {"finish", "write"}
    BY <1>2, <2>1, <2>3 DEF Scanned
  <2>4. CASE pc[w] = "rcuwait" /\ pc'[w] = "sum" /\ scan'[w] = [cpu |-> 1, sum |-> 0]
    <3>1. scan'[w].cpu = 1 /\ scan'[w].sum = 0 /\ g[0] = 0 /\ e[0] = 0
      BY <1>1, <2>4 DEF Counted
    <3>2. g[NR_CPUS] = Cardinality(Holders)
      BY <1>1 DEF Counted
    <3>3. g[NR_CPUS] + 0 <= Cardinality(Readers) + 1 - 1
      BY <3>2, HoldersFinite
    <3>4. 0 % Mod = 0
      BY ModSmall, PercpuAssumption
    <3>5. pc'[w] = "sum" /\ 0 \in Nat /\ 1 - 1 = 0 /\ 0 + 0 = 0 /\ 0 <= 0
      BY <2>4
    <3> HIDE DEF Mod
    <3>6. /\ scan'[w].sum = (g[scan'[w].cpu - 1] + 0) % Mod
          /\ g[NR_CPUS] + 0 <= Cardinality(Readers) + scan'[w].cpu - 1
          /\ Unprodded(w)' => 0 <= e[scan'[w].cpu - 1]
      BY <3>1, <3>3, <3>4, <3>5
    <3> QED BY <3>5, <3>6 DEF Scanned
  <2>5. CASE pc'[w] = pc[w] /\ scan'[w] = scan[w] /\ (Unprodded(w)' => Unprodded(w))
    BY <1>2, <2>1, <2>5 DEF Scanned
  <2> QED BY <2>1, <2>2, <2>3, <2>4, <2>5 DEF ScanKept
<1> QED BY <1>3, <1>4 DEF Counters

\* Arithmetic of the shifted sums.
LEMMA DiffSame ==
  ASSUME NEW a \in Int, NEW b \in Int, NEW x \in Int, NEW y \in Int,
         NEW p \in Int, NEW k \in Int, NEW n \in Int, a - b = x - y + k
  PROVE  /\ a - b + (p + n) = x - y + p + (k + n)
         /\ x = y + p => a = b + (p + k)
OBVIOUS

LEMMA ShiftBack ==
  ASSUME NEW x \in Int, NEW y \in Int, NEW d \in Nat, NEW m \in {0, -1},
         NEW q \in {0, m}, y = x + q
  PROVE  /\ d - q \in Nat
         /\ y + (d - q) = x + d
OBVIOUS

LEMMA ShiftLess ==
  ASSUME NEW x \in Int, NEW y \in Int, NEW d \in Nat, NEW m \in {0, -1},
         NEW q \in {0, m}, NEW z \in Int, y = x + m, x + d <= z
  PROVE  y + (d - q) <= z
OBVIOUS

\* The counter of CPU c changes by m for the holders and by n for the tasks
\* that are passing.
Recounts(c, m, n) ==
  /\ Cardinality(Holders)' = Cardinality(Holders) + m
  /\ Passing(c)' = Passing(c) + n
  /\ read_count'[c] = (read_count[c] + (m + n)) % Mod
  /\ \A i \in CPUS \ {c} :
       Passing(i)' = Passing(i) /\ read_count'[i] = read_count[i]

\* The shifted sums describe the new counters,
LEMMA Recounted ==
  ASSUME NEW g \in [0 .. NR_CPUS -> Int], NEW e \in [0 .. NR_CPUS -> Int],
         NEW h \in [0 .. NR_CPUS -> Int], NEW f \in [0 .. NR_CPUS -> Int],
         NEW c \in CPUS, NEW m \in Int, NEW n \in Int,
         Counted(g, e), Shifted(h, g, c, m), Shifted(f, e, c, n), Recounts(c, m, n)
  PROVE  Counted(h, f)'
<1>1. ASSUME NEW i \in CPUS
      PROVE  /\ read_count'[i] = (h[i] - h[i - 1] + Passing(i)') % Mod
             /\ f[i] = f[i - 1] + Passing(i)'
  <2>1. /\ read_count[i] = (g[i] - g[i - 1] + Passing(i)) % Mod
        /\ e[i] = e[i - 1] + Passing(i)
    BY DEF Counted
  <2>2. /\ f[i] \in Int /\ f[i - 1] \in Int /\ e[i] \in Int /\ e[i - 1] \in Int
        /\ f[i] - f[i - 1] = e[i] - e[i - 1] + (IF i = c THEN n ELSE 0)
    BY CpuBounds DEF Shifted
  <2>3. /\ h[i] \in Int /\ h[i - 1] \in Int /\ g[i] \in Int /\ g[i - 1] \in Int
        /\ h[i] - h[i - 1] = g[i] - g[i - 1] + (IF i = c THEN m ELSE 0)
    BY CpuBounds DEF Shifted
  <2>4. Passing(i) \in Int
    BY DEF Passing
  <2>x. PICK p \in Int : p = Passing(i)
    BY <2>4
  <2>y. PICK a \in Int, b \in Int, x \in Int, y \in Int :
          a = h[i] /\ b = h[i - 1] /\ x = g[i] /\ y = g[i - 1]
    BY <2>3
  <2>z. PICK s \in Int, t \in Int, u \in Int, v \in Int :
          s = f[i] /\ t = f[i - 1] /\ u = e[i] /\ v = e[i - 1]
    BY <2>2
  <2>5. CASE i # c
    <3>1. read_count'[i] = read_count[i] /\ Passing(i)' = p
      BY <2>5, <2>x DEF Recounts
    <3>2. a - b = x - y + 0 /\ s - t = u - v + 0 /\ u = v + p
      BY <2>1, <2>2, <2>3, <2>5, <2>x, <2>y, <2>z
    <3>3. a - b + (p + 0) = x - y + p + (0 + 0) /\ s = t + (p + 0)
      BY <3>2, DiffSame
    <3>4. p + 0 = p /\ x - y + p + (0 + 0) = x - y + p
      OBVIOUS
    <3> HIDE DEF Mod
    <3>5. read_count[i] = (x - y + p) % Mod
      BY <2>1, <2>x, <2>y
    <3>6. read_count'[i] = (a - b + p) % Mod /\ s = t + p
      BY <3>1, <3>3, <3>4, <3>5
    <3> QED BY <2>y, <2>z, <3>1, <3>6
  <2>6. CASE i = c
    <3>1. /\ read_count'[i] = (read_count[i] + (m + n)) % Mod
          /\ Passing(i)' = p + n
      BY <2>6, <2>x DEF Recounts
    <3>2. a - b = x - y + m /\ s - t = u - v + n /\ u = v + p
      BY <2>1, <2>2, <2>3, <2>6, <2>x, <2>y, <2>z
    <3>3. a - b + (p + n) = x - y + p + (m + n) /\ s = t + (p + n)
      BY <3>2, DiffSame
    <3>4. x - y + p \in Int /\ m + n \in Int /\ Mod \in Nat \ {0}
      BY PercpuAssumption
    <3> HIDE DEF Mod
    <3>5. read_count[i] = (x - y + p) % Mod
      BY <2>1, <2>x, <2>y
    <3>6. (((x - y + p) % Mod) + (m + n)) % Mod = (x - y + p + (m + n)) % Mod
      BY <3>4, ModAdd
    <3>7. read_count'[i] = (a - b + (p + n)) % Mod
      BY <3>1, <3>3, <3>5, <3>6
    <3> QED BY <2>y, <2>z, <3>1, <3>3, <3>7
  <2> QED BY <2>5, <2>6
<1>2. h[0] = 0 /\ f[0] = 0
  BY DEF Counted, Shifted
<1>3. h[NR_CPUS] = Cardinality(Holders)'
  BY DEF Counted, Shifted, Recounts
<1> QED BY <1>1, <1>2, <1>3 DEF Counted

\* Whatever the scan of w has read stays at least what the holders left there.
ScanSame(w, m, n) ==
  /\ pc'[w] = pc[w] /\ scan'[w] = scan[w] /\ scan[w].cpu \in CPUS
  /\ m \in {0, -1}
  /\ Holders' \subseteq Holders
  /\ Unprodded(w)' => Unprodded(w) /\ m = 0 /\ n >= 0

\* and what a writer has added up so far.
LEMMA Rescanned ==
  ASSUME NEW g \in [0 .. NR_CPUS -> Int], NEW e \in [0 .. NR_CPUS -> Int],
         NEW h \in [0 .. NR_CPUS -> Int], NEW f \in [0 .. NR_CPUS -> Int],
         NEW c \in CPUS, NEW m \in Int, NEW n \in Int, NEW w \in Writers,
         Scanned(w, g, e), Shifted(h, g, c, m), Shifted(f, e, c, n), ScanSame(w, m, n)
  PROVE  Scanned(w, h, f)'
<1>1. ASSUME pc'[w] = "sum"
      PROVE  \E d \in Nat :
               /\ scan'[w].sum = (h[scan'[w].cpu - 1] + d) % Mod
               /\ h[NR_CPUS] + d <= Cardinality(Readers) + scan'[w].cpu - 1
               /\ Unprodded(w)' => d <= f[scan'[w].cpu - 1]
  <2> PICK k \in 0 .. NR_CPUS : k = scan[w].cpu - 1
    BY CpuBounds DEF ScanSame
  <2>1. PICK d \in Nat :
          /\ scan[w].sum = (g[k] + d) % Mod
          /\ g[NR_CPUS] + d <= Cardinality(Readers) + scan[w].cpu - 1
          /\ Unprodded(w) => d <= e[k]
    BY <1>1 DEF Scanned, ScanSame
  <2>2. /\ h[k] = g[k] + (IF k >= c THEN m ELSE 0)
        /\ f[k] = e[k] + (IF k >= c THEN n ELSE 0)
        /\ h[NR_CPUS] = g[NR_CPUS] + m
    BY DEF Shifted
  <2>3. /\ g[k] \in Int /\ h[k] \in Int /\ e[k] \in Int /\ f[k] \in Int
        /\ g[NR_CPUS] \in Int /\ h[NR_CPUS] \in Int
    <3>1. NR_CPUS \in 0 .. NR_CPUS
      BY PercpuAssumption
    <3> QED BY <3>1
  <2>4. m \in {0, -1}
    BY DEF ScanSame
  <2>5. PICK q \in {0, m} : q = IF k >= c THEN m ELSE 0
    OBVIOUS
  <2>6. d - q \in Nat /\ h[k] + (d - q) = g[k] + d
    <3>1. h[k] = g[k] + q
      BY <2>2, <2>5
    <3>2. PICK x \in Int, y \in Int : x = g[k] /\ y = h[k]
      BY <2>3
    <3>3. d - q \in Nat /\ y + (d - q) = x + d
      <4>1. y = x + q
        BY <3>1, <3>2
      <4> QED BY <2>4, <4>1, ShiftBack
    <3> QED BY <3>2, <3>3
  <2>7. h[NR_CPUS] + (d - q) <= Cardinality(Readers) + scan[w].cpu - 1
    <3>1. Cardinality(Readers) + scan[w].cpu - 1 \in Int
      <4>1. Cardinality(Readers) \in Int /\ scan[w].cpu \in Int
        BY HoldersFinite, CpuBounds DEF ScanSame
      <4> QED BY <4>1
    <3>2. PICK x \in Int, y \in Int, z \in Int :
            /\ x = g[NR_CPUS] /\ y = h[NR_CPUS]
            /\ z = Cardinality(Readers) + scan[w].cpu - 1
      BY <2>3, <3>1
    <3>3. y = x + m /\ x + d <= z
      BY <2>1, <2>2, <3>2
    <3>4. y + (d - q) <= z
      BY <2>4, <3>3, ShiftLess
    <3> QED BY <3>2, <3>4
  <2>8. Unprodded(w)' => d - q <= f[k]
    <3> SUFFICES ASSUME Unprodded(w)' PROVE d - q <= f[k]
      OBVIOUS
    <3>1. d <= e[k] /\ m = 0 /\ n >= 0
      BY <2>1 DEF ScanSame
    <3>2. q = 0
      BY <3>1
    <3> QED BY <2>2, <2>3, <3>1, <3>2
  <2>9. /\ scan'[w].sum = (h[k] + (d - q)) % Mod
        /\ scan'[w].cpu - 1 = k /\ scan'[w].cpu = scan[w].cpu
    BY <2>1, <2>6 DEF ScanSame
  <2> HIDE DEF Mod
  <2> QED BY <2>6, <2>7, <2>8, <2>9
<1>2. pc'[w] = "rcuwait_asleep" /\ Unprodded(w)' => h[NR_CPUS] + f[NR_CPUS] > 0
  <2> SUFFICES ASSUME pc'[w] = "rcuwait_asleep", Unprodded(w)'
               PROVE  h[NR_CPUS] + f[NR_CPUS] > 0
    OBVIOUS
  <2>1. g[NR_CPUS] + e[NR_CPUS] > 0 /\ m = 0 /\ n >= 0
    BY DEF Scanned, ScanSame
  <2>2. h[NR_CPUS] = g[NR_CPUS] + m /\ f[NR_CPUS] = e[NR_CPUS] + n
    BY DEF Shifted
  <2>3. g[NR_CPUS] \in Int /\ e[NR_CPUS] \in Int
    BY PercpuAssumption
  <2> QED BY <2>1, <2>2, <2>3
<1>3. pc'[w] \in {"finish", "write"} => Holders' = {}
  BY DEF Scanned, ScanSame
<1> QED BY <1>1, <1>2, <1>3 DEF Scanned

\* A step that moves one counter together with the readers it counts keeps
\* Counters, unless a writer relies on them.
LEMMA CountersMove ==
  ASSUME Counters, NEW c \in CPUS, NEW m \in Int, NEW n \in Int,
         Recounts(c, m, n),
         \A w \in Writers : pc'[w] \notin ScanPc \/ ScanSame(w, m, n)
  PROVE  Counters'
<1>1. PICK g \in [0 .. NR_CPUS -> Int], e \in [0 .. NR_CPUS -> Int] :
        Counted(g, e) /\ \A w \in Writers : Scanned(w, g, e)
  BY DEF Counters
<1>2. PICK h \in [0 .. NR_CPUS -> Int] : Shifted(h, g, c, m)
  BY Shift
<1>3. PICK f \in [0 .. NR_CPUS -> Int] : Shifted(f, e, c, n)
  BY Shift
<1>4. Counted(h, f)'
  BY <1>1, <1>2, <1>3, Recounted
<1>5. ASSUME NEW w \in Writers PROVE Scanned(w, h, f)'
  <2>1. CASE pc'[w] \notin ScanPc
    BY <2>1 DEF Scanned, ScanPc
  <2>2. CASE ScanSame(w, m, n)
    BY <1>1, <1>2, <1>3, <2>2, Rescanned
  <2> QED BY <2>1, <2>2
<1> QED BY <1>4, <1>5 DEF Counters

\* Nobody is in any operation.
Unused == \A t \in Tasks : pc[t] = "idle"

\* With no reader and all counters zero, the partial sums are zero.
LEMMA CountersZero ==
  Unused /\ read_count = [c \in CPUS |-> 0] => Counters
<1> SUFFICES ASSUME Unused, read_count = [c \in CPUS |-> 0]
             PROVE  Counters
  OBVIOUS
<1> USE DEF Unused
<1> DEFINE z == [i \in 0 .. NR_CPUS |-> 0]
<1>1. /\ z \in [0 .. NR_CPUS -> Int] /\ z[0] = 0 /\ z[NR_CPUS] = 0
      /\ \A c \in CPUS : z[c] = 0 /\ z[c - 1] = 0
  BY CpuBounds, PercpuAssumption
<1> HIDE DEF z
<1>2. Holders = {}
  BY DEF Holders, Holder, HoldsRead, ReadPc, WaitPc, Tasks
<1>3. \A c \in CPUS : Passing(c) = 0
  BY DEF Passing, Passes
<1>4. 0 % Mod = 0
  BY ModSmall, PercpuAssumption
<1>5. Counted(z, z)
  <2>1. Cardinality(Holders) = 0
    BY <1>2, FS_EmptySet
  <2>2. ASSUME NEW c \in CPUS
        PROVE  read_count[c] = (z[c] - z[c - 1] + Passing(c)) % Mod /\ z[c] = z[c - 1] + Passing(c)
    <3>0. z[c] = 0 /\ z[c - 1] = 0 /\ Passing(c) = 0 /\ read_count[c] = 0
      BY <1>1, <1>3
    <3>1. /\ z[c] - z[c - 1] + Passing(c) = 0 /\ z[c] = z[c - 1] + Passing(c)
          /\ read_count[c] = 0
      BY <3>0
    <3> HIDE DEF Mod
    <3> QED BY <1>4, <3>1
  <2> QED BY <1>1, <2>1, <2>2 DEF Counted
<1>6. \A w \in Writers : Scanned(w, z, z)
  BY <1>2 DEF Scanned, Tasks
<1> QED BY <1>1, <1>5, <1>6 DEF Counters

\* The writer adds the counter of the next CPU, and decides after the last one.
LEMMA SumStep ==
  ASSUME CountersFit, pc \in [Tasks -> PC],
         scan \in [Writers -> [cpu : CPUS, sum : 0 .. Mod - 1]],
         read_count \in [CPUS -> 0 .. Mod - 1],
         Counters, NEW w \in Writers, per_cpu_sum(w)
  PROVE  Counters'
<1>1. PICK g \in [0 .. NR_CPUS -> Int], e \in [0 .. NR_CPUS -> Int] :
        Counted(g, e) /\ \A v \in Writers : Scanned(v, g, e)
  BY DEF Counters
<1>2. PICK k \in CPUS : k = scan[w].cpu
  OBVIOUS
<1>3. w \in Tasks /\ pc[w] = "sum"
  BY DEF Tasks, per_cpu_sum, Jump
<1>4. PICK d \in Nat :
        /\ scan[w].sum = (g[k - 1] + d) % Mod
        /\ g[NR_CPUS] + d <= Cardinality(Readers) + k - 1
        /\ Unprodded(w) => d <= e[k - 1]
  BY <1>1, <1>2, <1>3 DEF Scanned
<1>5. PICK p \in {0, 1} : p = Passing(k)
  BY DEF Passing
<1>6. /\ read_count[k] = (g[k] - g[k - 1] + p) % Mod /\ e[k] = e[k - 1] + p
      /\ g[NR_CPUS] = Cardinality(Holders)
  BY <1>1, <1>5 DEF Counted
<1>7. /\ g[k] \in Int /\ g[k - 1] \in Int /\ e[k] \in Int /\ e[k - 1] \in Int
      /\ k \in Int /\ NR_CPUS \in Int /\ g[NR_CPUS] \in Int
      /\ e[NR_CPUS] \in Int
  BY CpuBounds, PercpuAssumption
<1>n. d + p \in Nat /\ p \in Int
  OBVIOUS
<1>8. (scan[w].sum + read_count[k]) % Mod = (g[k] + (d + p)) % Mod
  <2>0. PICK a \in Int, b \in Int : a = g[k] /\ b = g[k - 1]
    BY <1>7
  <2>1. PICK x \in Int, y \in Int : x = b + d /\ y = a - b + p
    BY <1>n
  <2>2. x + y = a + (d + p) /\ Mod \in Nat \ {0}
    BY <1>n, <2>1, PercpuAssumption
  <2> HIDE DEF Mod
  <2>3. x % Mod \in Int /\ y % Mod \in Int
    BY <2>2, ModRange
  <2>4. ((x % Mod) + (y % Mod)) % Mod = (x + (y % Mod)) % Mod
    BY <2>2, <2>3, ModAdd
  <2>5. ((y % Mod) + x) % Mod = (y + x) % Mod
    BY <2>2, ModAdd
  <2>6. (y % Mod) + x = x + (y % Mod) /\ y + x = x + y
    BY <2>3
  <2>7. scan[w].sum = x % Mod /\ read_count[k] = y % Mod
    BY <1>4, <1>6, <2>0, <2>1
  <2> QED BY <2>0, <2>2, <2>4, <2>5, <2>6, <2>7
<1>9. /\ g[NR_CPUS] + (d + p) <= Cardinality(Readers) + k
      /\ Unprodded(w) => d + p <= e[k]
  <2>1. Cardinality(Readers) \in Int
    BY HoldersFinite
  <2>2. PICK a \in Int, u \in Int, v \in Int, z \in Int :
          a = g[NR_CPUS] /\ u = e[k] /\ v = e[k - 1] /\ z = Cardinality(Readers)
    BY <1>7, <2>1
  <2>3. a + d <= z + k - 1 /\ u = v + p /\ (Unprodded(w) => d <= v)
    BY <1>4, <1>6, <2>2
  <2>4. a + (d + p) <= z + k
    BY <1>7, <2>3
  <2>5. Unprodded(w) => d + p <= u
    BY <1>n, <2>3
  <2> QED BY <2>2, <2>4, <2>5
<1>10. /\ read_count' = read_count
       /\ UNCHANGED <<cpu, ctx, waiters, state, seen>>
       /\ \A u \in Tasks \ {w} : pc'[u] = pc[u]
       /\ \A v \in Writers \ {w} : scan'[v] = scan[v]
       /\ pc'[w] \in {"sum", "finish", "rcuwait_asleep"}
  BY <1>3 DEF per_cpu_sum, Jump, Goto, semvars, rcuvars, rsp
<1>11. Holders' = Holders
  BY <1>3, <1>10, HoldersSame DEF Holder, HoldsRead, ReadPc, WaitPc, Waiting,
        Tasks
<1>12. \A c \in CPUS : Passing(c)' = Passing(c)
  BY <1>3, <1>10, PassingSame DEF Passes
<1>13. Counted(g, e)'
  BY <1>1, <1>10, <1>11, <1>12 DEF Counted
<1>14. \A v \in Writers : Unprodded(v)' <=> Unprodded(v)
  BY <1>3, <1>10 DEF Unprodded
<1>15. ASSUME NEW v \in Writers, v # w PROVE Scanned(v, g, e)'
  <2>1. Scanned(v, g, e) /\ pc'[v] = pc[v] /\ scan'[v] = scan[v]
    BY <1>1, <1>10, <1>15 DEF Tasks
  <2> QED BY <1>11, <1>14, <1>15, <2>1 DEF Scanned
<1>16. Scanned(w, g, e)'
  <2>1. CASE k # NR_CPUS
    <3>1. /\ pc'[w] = "sum"
          /\ scan'[w] = [cpu |-> k + 1, sum |-> (scan[w].sum + read_count[k]) % Mod]
      BY <1>2, <1>3, <2>1 DEF per_cpu_sum, Jump, Goto
    <3>2. /\ scan'[w].cpu = k + 1
          /\ scan'[w].sum = (scan[w].sum + read_count[k]) % Mod
      BY <3>1
    <3>3. scan'[w].cpu - 1 = k
      BY <1>7, <3>2
    <3>4. Cardinality(Readers) + scan'[w].cpu - 1 = Cardinality(Readers) + k
      BY <1>7, <3>2, HoldersFinite
    <3> HIDE DEF Mod
    <3>5. /\ scan'[w].sum = (g[scan'[w].cpu - 1] + (d + p)) % Mod
          /\ g[NR_CPUS] + (d + p) <= Cardinality(Readers) + scan'[w].cpu - 1
          /\ Unprodded(w)' => d + p <= e[scan'[w].cpu - 1]
      BY <1>8, <1>9, <1>14, <3>2, <3>3, <3>4
    <3> QED BY <1>n, <3>1, <3>5 DEF Scanned
  <2>2. CASE k = NR_CPUS
    <3>1. PICK n \in Nat : n = g[NR_CPUS] + (d + p)
      BY <1>6, <1>7, <1>n, HoldersFinite
    <3>2. n \in 0 .. Mod - 1
      <4>1. Cardinality(Readers) \in Int /\ Mod \in Int
        BY HoldersFinite, PercpuAssumption
      <4>2. /\ n <= Cardinality(Readers) + NR_CPUS
            /\ Cardinality(Readers) + NR_CPUS < Mod
        BY <1>9, <2>2, <3>1 DEF CountersFit
      <4> HIDE DEF Mod
      <4> QED BY <1>7, <4>1, <4>2
    <3>3. n % Mod = n
      BY <3>2, ModSmall, PercpuAssumption
    <3>4. (scan[w].sum + read_count[k]) % Mod = n
      <4> HIDE DEF Mod
      <4> QED BY <1>8, <2>2, <3>1, <3>3
    <3>5. pc'[w] = IF n = 0 THEN "finish" ELSE "rcuwait_asleep"
      BY <1>2, <1>3, <2>2, <3>4 DEF per_cpu_sum, Jump, Goto
    <3>6. n = 0 => Holders' = {}
      <4>1. n = 0 => Cardinality(Holders) = 0
        BY <1>6, <3>1, HoldersFinite
      <4> QED BY <1>11, <4>1, HoldersFinite, FS_EmptySet
    <3>7. n # 0 /\ Unprodded(w)' => g[NR_CPUS] + e[NR_CPUS] > 0
      <4>1. Unprodded(w)' => d + p <= e[NR_CPUS]
        BY <1>9, <1>14, <2>2
      <4>2. PICK a \in Int, b \in Int, x \in Int :
              a = g[NR_CPUS] /\ b = e[NR_CPUS] /\ x = d + p
        BY <1>7, <1>n
      <4>3. n = a + x /\ (Unprodded(w)' => x <= b)
        BY <3>1, <4>1, <4>2
      <4>4. n # 0 /\ x <= b => a + b > 0
        BY <4>3
      <4> QED BY <4>2, <4>3, <4>4
    <3> QED BY <3>5, <3>6, <3>7 DEF Scanned
  <2> QED BY <2>1, <2>2
<1> QED BY <1>13, <1>15, <1>16 DEF Counters

\* Every step keeps the counters: a passing reader becomes a holder, or backs
\* out on the CPU where it arrived; a holder leaves on any CPU; and no reader
\* becomes a holder once a writer has set block.
LEMMA CountersStep ==
  ASSUME pc \in [Tasks -> PC], ctx \in [Tasks -> CTX],
         cpu \in [Tasks -> CPUS \cup {NULL}],
         state \in [Tasks -> {"TASK_RUNNING", "TASK_UNINTERRUPTIBLE"}],
         waiters \in Seq(Tasks),
         scan \in [Writers -> [cpu : CPUS, sum : 0 .. Mod - 1]],
         writer \in Writers \cup {NULL}, read_count \in [CPUS -> 0 .. Mod - 1],
         block \in {0, 1}, seen \in [Tasks -> Tasks \cup {NULL}], CountersFit,
         Kinds, Preemption, Queue, Ownership, Life, FastPath, Rcuwait,
         Counters, [Next]_vars
  PROVE  Counters'
<1> USE TasksAssumption DEF Goto, Jump, preempt_disable, preempt_enable,
      this_cpu_add, ReadLocked, Prodded, UnlockWaiters, semvars, rsp, rcuvars,
      queue, semrest, locals, rssvars, gpvars, rcu_read_unlock, wake_up,
      rcu_sync_enter, synchronize_rcu, rcu_sync_func, rcu_sync_call,
      prepare_to_wait_event, finish_wait, rcu_sync_exit, rcu_sync_dtor,
      rcu_callback, Tasks
<1>0. started' = started
  BY DEF Next, vars
<1>q. waiters' = waiters => Waiting' = Waiting
  BY DEF Waiting
<1>1. ASSUME NEW r \in Readers, NEW c \in CPUS, NEW k \in {"first", "try"},
             down_read(r, c, k)
      PROVE  Counters'
  <2>1. read_count' = read_count
    BY <1>1 DEF down_read
  <2>2. ASSUME NEW q \in Readers PROVE Holder(q)' <=> Holder(q)
    BY <1>1, <1>q DEF down_read, Holder, HoldsRead, ReadPc, WaitPc, Kinds
  <2>3. \A u \in Tasks, i \in CPUS :
          (cpu'[u] = i /\ Passes(u)') <=> (cpu[u] = i /\ Passes(u))
    BY <1>1 DEF down_read, Passes, Kinds
  <2>4. ASSUME NEW v \in Writers PROVE ScanKept(v)
    BY <1>1 DEF down_read, ScanKept, ScanPc, Unprodded, Rcuwait, RcuwaitPc
  <2> QED BY <2>1, <2>2, <2>3, <2>4, PassingSame, CountersKept
<1>2. ASSUME NEW r \in Readers, fast_inc(r) PROVE Counters'
  <2>1. /\ pc[r] = "fast_inc" /\ pc' = [pc EXCEPT ![r] = "read"]
        /\ cpu' = [cpu EXCEPT ![r] = NULL] /\ waiters' = waiters
        /\ read_count' = [read_count EXCEPT ![cpu[r]] = (read_count[cpu[r]] + 1) % Mod]
        /\ ctx' = [ctx EXCEPT ![r] = "none"]
    BY <1>2 DEF fast_inc
  <2>2. cpu[r] # NULL /\ cpu[r] \in CPUS
    BY <2>1 DEF Preemption, FastPc
  <2>c. PICK c \in CPUS : c = cpu[r]
    BY <2>2
  <2>3. Cardinality(Holders)' = Cardinality(Holders) + 1
    BY <2>1, <1>q, HoldersAdd DEF Holder, HoldsRead, ReadPc, WaitPc
  <2>4. \A i \in CPUS : Passing(i)' = Passing(i)
    BY <2>1, <2>2, PassingNot DEF Passes
  <2>5. Recounts(c, 1, 0)
    <3>1. Passing(c) \in Int
      BY DEF Passing
    <3>2. Passing(c) + 0 = Passing(c) /\ 1 + 0 = 1
      BY <3>1
    <3> HIDE DEF Mod
    <3>3. read_count'[c] = (read_count[c] + 1) % Mod
      BY <2>1, <2>c
    <3>4. \A i \in CPUS \ {c} : read_count'[i] = read_count[i]
      BY <2>1, <2>c
    <3> QED BY <2>3, <2>4, <3>1, <3>2, <3>3, <3>4 DEF Recounts
  <2>6. \A v \in Writers : pc'[v] \notin ScanPc
    <3>1. \A v \in Writers : pc[v] \notin EnteredPc
      <4>1. gp_state \in {GP_IDLE, GP_ENTER}
        BY <2>1 DEF FastPath, FastPc
      <4>2. ~(gp_state >= GP_PASSED)
        BY <4>1 DEF GP_PASSED, GP_IDLE, GP_ENTER
      <4> QED BY <4>2 DEF FastPath
    <3>2. \A v \in Writers : pc'[v] = pc[v]
      BY <2>1
    <3> QED BY <3>1, <3>2 DEF ScanPc, EnteredPc, RcuwaitPc
  <2> QED BY <2>5, <2>6, CountersMove
<1>3. ASSUME NEW r \in Readers, NEW c \in CPUS, up_read(r, c) PROVE Counters'
  <2>1. read_count' = read_count
    BY <1>3 DEF up_read
  <2>2. ASSUME NEW q \in Readers PROVE Holder(q)' <=> Holder(q)
    BY <1>3, <1>q DEF up_read, Holder, HoldsRead, ReadPc, WaitPc, Kinds
  <2>3. \A u \in Tasks, i \in CPUS :
          (cpu'[u] = i /\ Passes(u)') <=> (cpu[u] = i /\ Passes(u))
    BY <1>3 DEF up_read, Passes, Kinds
  <2>4. ASSUME NEW v \in Writers PROVE ScanKept(v)
    BY <1>3 DEF up_read, ScanKept, ScanPc, Unprodded, Rcuwait, RcuwaitPc
  <2> QED BY <2>1, <2>2, <2>3, <2>4, PassingSame, CountersKept
<1>4. ASSUME NEW r \in Readers, fast_dec(r) PROVE Counters'
  <2>1. /\ pc[r] = "fast_dec" /\ pc' = [pc EXCEPT ![r] = "idle"]
        /\ cpu' = [cpu EXCEPT ![r] = NULL] /\ waiters' = waiters
        /\ read_count' = [read_count EXCEPT ![cpu[r]] = (read_count[cpu[r]] + -1) % Mod]
        /\ ctx' = [ctx EXCEPT ![r] = "none"]
    BY <1>4 DEF fast_dec
  <2>2. cpu[r] # NULL /\ cpu[r] \in CPUS
    BY <2>1 DEF Preemption, FastPc
  <2>c. PICK c \in CPUS : c = cpu[r]
    BY <2>2
  <2>3. Cardinality(Holders)' = Cardinality(Holders) - 1
    BY <2>1, <1>q, HoldersRemove DEF Holder, HoldsRead, ReadPc, WaitPc
  <2>4. \A i \in CPUS : Passing(i)' = Passing(i)
    BY <2>1, <2>2, PassingNot DEF Passes
  <2>5. Recounts(c, -1, 0)
    <3>1. Passing(c) \in Int /\ Cardinality(Holders) \in Int
      BY HoldersFinite DEF Passing
    <3>2. Passing(c) + 0 = Passing(c) /\ -1 + 0 = -1
      BY <3>1
    <3> HIDE DEF Mod
    <3>3. read_count'[c] = (read_count[c] + -1) % Mod
      BY <2>1, <2>c
    <3>4. \A i \in CPUS \ {c} : read_count'[i] = read_count[i]
      BY <2>1, <2>c
    <3> QED BY <2>3, <2>4, <3>1, <3>2, <3>3, <3>4 DEF Recounts
  <2>6. \A v \in Writers : pc'[v] \notin ScanPc
    <3>1. \A v \in Writers : pc[v] \notin EnteredPc
      <4>1. gp_state \in {GP_IDLE, GP_ENTER}
        BY <2>1 DEF FastPath, FastPc
      <4>2. ~(gp_state >= GP_PASSED)
        BY <4>1 DEF GP_PASSED, GP_IDLE, GP_ENTER
      <4> QED BY <4>2 DEF FastPath
    <3>2. \A v \in Writers : pc'[v] = pc[v]
      BY <2>1
    <3> QED BY <3>1, <3>2 DEF ScanPc, EnteredPc, RcuwaitPc
  <2> QED BY <2>5, <2>6, CountersMove
<1>5. ASSUME NEW r \in Readers, NEW c \in CPUS, wait_lock_reader(r, c)
      PROVE  Counters'
  <2>1. read_count' = read_count
    BY <1>5 DEF wait_lock_reader
  <2>2. ASSUME NEW q \in Readers PROVE Holder(q)' <=> Holder(q)
    BY <1>5, <1>q DEF wait_lock_reader, Holder, HoldsRead, ReadPc, WaitPc, Kinds
  <2>3. \A u \in Tasks, i \in CPUS :
          (cpu'[u] = i /\ Passes(u)') <=> (cpu[u] = i /\ Passes(u))
    BY <1>5 DEF wait_lock_reader, Passes, Kinds
  <2>4. ASSUME NEW v \in Writers PROVE ScanKept(v)
    BY <1>5 DEF wait_lock_reader, ScanKept, ScanPc, Unprodded, Rcuwait,
          RcuwaitPc
  <2> QED BY <2>1, <2>2, <2>3, <2>4, PassingSame, CountersKept
<1>6. ASSUME NEW t \in Tasks, inc(t) PROVE Counters'
  <2>1. /\ pc[t] = "inc" /\ pc' = [pc EXCEPT ![t] = "block"]
        /\ UNCHANGED <<cpu, ctx, waiters, seen, scan, state>>
        /\ read_count' = [read_count EXCEPT ![cpu[t]] = (read_count[cpu[t]] + 1) % Mod]
    BY <1>6 DEF inc
  <2>2. cpu[t] # NULL /\ cpu[t] \in CPUS
    BY <2>1 DEF Preemption, TryPc
  <2>3. Holders' = Holders
    BY <2>1, <1>q, HoldersSame DEF Holder, HoldsRead, ReadPc, WaitPc
  <2>4. /\ Passing(cpu[t]) = 0 /\ Passing(cpu[t])' = 1
        /\ \A i \in CPUS \ {cpu[t]} : Passing(i)' = Passing(i)
    BY <2>1, <2>2, PassingBegins DEF Passes
  <2>5. Recounts(cpu[t], 0, 1)
    <3>1. Cardinality(Holders) \in Int
      BY HoldersFinite
    <3> HIDE DEF Mod
    <3> QED BY <2>1, <2>2, <2>3, <2>4, <3>1 DEF Recounts
  <2>6. ASSUME NEW v \in Writers PROVE pc'[v] \notin ScanPc \/ ScanSame(v, 0, 1)
    BY <2>1, <2>3 DEF ScanPc, ScanSame, Unprodded
  <2> QED BY <2>2, <2>5, <2>6, CountersMove
<1>7. ASSUME NEW t \in Tasks, test_block(t) PROVE Counters'
  <2>1. CASE block = 1
    <3>0. /\ pc[t] = "block" /\ pc' = [pc EXCEPT ![t] = "dec"]
          /\ UNCHANGED <<read_count, cpu, ctx, waiters, seen, scan, state>>
      BY <1>7, <2>1 DEF test_block
    <3>1. ctx[t] # "up"
      BY <3>0 DEF Kinds, TryPc
    <3>2. ASSUME NEW q \in Readers PROVE Holder(q)' <=> Holder(q)
      BY <3>0, <3>1, <1>q DEF Holder, HoldsRead, ReadPc, WaitPc
    <3>3. \A u \in Tasks, i \in CPUS :
            (cpu'[u] = i /\ Passes(u)') <=> (cpu[u] = i /\ Passes(u))
      BY <3>0, <3>1 DEF Passes
    <3>4. ASSUME NEW v \in Writers PROVE ScanKept(v)
      BY <3>0 DEF ScanKept, ScanPc, Unprodded
    <3> QED BY <3>0, <3>2, <3>3, <3>4, PassingSame, CountersKept
  <2>2. CASE block = 0
    <3>1. /\ pc[t] = "block" /\ read_count' = read_count
          /\ cpu[t] # NULL /\ cpu[t] \in CPUS
      BY <1>7, <2>2 DEF test_block, Preemption, TryPc
    <3>c. PICK c \in CPUS : c = cpu[t]
      BY <3>1
    <3>2. \A v \in Writers : pc[v] \notin ScanPc
      BY <2>2 DEF Ownership, Owns, ScanPc, RcuwaitPc
    <3>3. /\ Cardinality(Holders)' = Cardinality(Holders) + 1
          /\ Passing(c) = 1 /\ Passing(c)' = 0
          /\ \A i \in CPUS \ {c} : Passing(i)' = Passing(i)
          /\ \A v \in Writers : pc'[v] \notin ScanPc
      <4>1. CASE ctx[t] = "wake"
        <5>0. t \in Writers
          BY <3>1, <4>1 DEF Kinds, TryPc
        <5>1. /\ t \in Writers /\ waiters # <<>> /\ Head(waiters) \in Readers
              /\ pc' = [pc EXCEPT ![t] = "wake_process"]
              /\ ctx' = [ctx EXCEPT ![t] = "none"]
              /\ waiters' = Tail(waiters) /\ cpu' = cpu
          BY <1>7, <2>2, <3>1, <4>1, <5>0 DEF test_block, Queue
        <5>2. /\ Head(waiters) \in Waiting
              /\ Waiting' = Waiting \ {Head(waiters)}
              /\ pc[Head(waiters)] \in WaitPc
          BY <5>1, QueueTail DEF Queue
        <5>3. Cardinality(Holders)' = Cardinality(Holders) + 1
          <6>2. PICK r \in Readers : r = Head(waiters)
            BY <5>1
          <6>3. ~Holder(r) /\ (\A q \in Readers \ {r} : Holder(q)' <=> Holder(q))
            BY <3>1, <5>1, <5>2, <6>2 DEF Holder, HoldsRead, ReadPc, WaitPc
          <6>4. Holder(r)'
            BY <3>1, <5>1, <5>2, <6>2 DEF Holder, HoldsRead, ReadPc, WaitPc
          <6> QED BY <6>3, <6>4, HoldersAdd
        <5>4. /\ Passing(c) = 1 /\ Passing(c)' = 0
              /\ \A i \in CPUS \ {c} : Passing(i)' = Passing(i)
          BY <3>1, <3>c, <5>1, PassingEnds DEF Passes
        <5>5. \A v \in Writers : pc'[v] \notin ScanPc
          BY <3>2, <5>1 DEF ScanPc
        <5> QED BY <5>3, <5>4, <5>5
      <4>2. CASE ctx[t] # "wake"
        <5>1. /\ t \in Readers /\ waiters' = waiters
              /\ pc' = [pc EXCEPT ![t] = "read"]
              /\ ctx' = [ctx EXCEPT ![t] = "none"]
              /\ cpu' = [cpu EXCEPT ![t] = NULL]
          BY <1>7, <2>2, <3>1, <4>2 DEF test_block, Kinds, TryPc
        <5>2. Cardinality(Holders)' = Cardinality(Holders) + 1
          BY <3>1, <5>1, <1>q, HoldersAdd DEF Holder, HoldsRead, ReadPc, WaitPc
        <5>4. /\ Passing(c) = 1 /\ Passing(c)' = 0
              /\ \A i \in CPUS \ {c} : Passing(i)' = Passing(i)
          BY <3>1, <3>c, <5>1, PassingEnds DEF Passes
        <5>5. \A v \in Writers : pc'[v] \notin ScanPc
          BY <3>2, <5>1 DEF ScanPc
        <5> QED BY <5>2, <5>4, <5>5
      <4> QED BY <4>1, <4>2
    <3>4. Recounts(c, 1, -1)
      <4>1. /\ read_count[c] % Mod = read_count[c] /\ 1 + -1 = 0
            /\ read_count[c] + 0 = read_count[c]
        BY ModSmall, PercpuAssumption
      <4> HIDE DEF Mod
      <4>2. read_count'[c] = (read_count[c] + (1 + -1)) % Mod
        BY <3>1, <4>1
      <4> QED BY <3>1, <3>3, <4>2 DEF Recounts
    <3> QED BY <3>3, <3>4, CountersMove
  <2> QED BY <2>1, <2>2
<1>8. ASSUME NEW t \in Tasks, dec(t) PROVE Counters'
  <2>1. /\ pc[t] = "dec" /\ pc' = [pc EXCEPT ![t] = "prod"]
        /\ UNCHANGED <<cpu, ctx, waiters, seen, scan, state>>
        /\ read_count' = [read_count EXCEPT ![cpu[t]] = (read_count[cpu[t]] + -1) % Mod]
    BY <1>8 DEF dec
  <2>2. cpu[t] # NULL /\ cpu[t] \in CPUS
    BY <2>1 DEF Preemption, TryPc
  <2>3. Cardinality(Holders) \in Int /\ Passing(cpu[t]) \in Int
    BY HoldersFinite DEF Passing
  <2>4. CASE ctx[t] # "up"
    <3>1. Holders' = Holders
      BY <2>1, <2>4, <1>q, HoldersSame DEF Holder, HoldsRead, ReadPc, WaitPc
    <3>2. /\ Passing(cpu[t]) = 1 /\ Passing(cpu[t])' = 0
          /\ \A i \in CPUS \ {cpu[t]} : Passing(i)' = Passing(i)
      BY <2>1, <2>2, <2>4, PassingEnds DEF Passes
    <3>3. Recounts(cpu[t], 0, -1)
      <4> HIDE DEF Mod
      <4> QED BY <2>1, <2>2, <2>3, <3>1, <3>2 DEF Recounts
    <3>4. ASSUME NEW v \in Writers
          PROVE  pc'[v] \notin ScanPc \/ ScanSame(v, 0, -1)
      BY <2>1, <3>1 DEF ScanPc, ScanSame, Unprodded
    <3> QED BY <2>2, <3>3, <3>4, CountersMove
  <2>5. CASE ctx[t] = "up"
    <3>1. t \in Readers
      BY <2>1, <2>5 DEF Kinds, TryPc
    <3>2. /\ Cardinality(Holders)' = Cardinality(Holders) - 1
          /\ Holders' \subseteq Holders
      BY <2>1, <2>5, <3>1, <1>q, HoldersRemove DEF Holder, HoldsRead, ReadPc,
            WaitPc
    <3>3. \A i \in CPUS : Passing(i)' = Passing(i)
      BY <2>1, <2>2, <2>5, PassingNot DEF Passes
    <3>4. Recounts(cpu[t], -1, 0)
      <4> HIDE DEF Mod
      <4> QED BY <2>1, <2>2, <2>3, <3>2, <3>3 DEF Recounts
    <3>5. ASSUME NEW v \in Writers
          PROVE  pc'[v] \notin ScanPc \/ ScanSame(v, -1, 0)
      BY <2>1, <3>2 DEF ScanPc, ScanSame, Unprodded
    <3> QED BY <2>2, <3>4, <3>5, CountersMove
  <2> QED BY <2>4, <2>5
<1>9. ASSUME NEW t \in Tasks, prod(t) PROVE Counters'
  <2>0. t \in Tasks /\ pc[t] \notin WaitPc /\ Distinct
    BY <1>9 DEF prod, WaitPc, Queue
  <2>9. \/ waiters' = waiters
        \/ t \in Readers /\ pc'[t] = "set_state" /\ Waiting' = Waiting \cup {t}
    <3>1. \/ waiters' = waiters
          \/ ctx[t] = "wait" /\ pc'[t] = "set_state"
               /\ waiters' = Append(waiters, t)
      BY <1>9 DEF prod
    <3>2. ctx[t] = "wait" => t \in Readers
      BY <1>9 DEF prod, Kinds, TryPc
    <3>3. t \notin Waiting
      BY <2>0 DEF Queue
    <3> QED BY <2>0, <3>1, <3>2, <3>3, QueueAdd
  <2>1. read_count' = read_count
    BY <1>9 DEF prod
  <2>2. ASSUME NEW q \in Readers PROVE Holder(q)' <=> Holder(q)
    BY <1>9, <1>q, <2>9 DEF prod, Holder, HoldsRead, ReadPc, WaitPc, Kinds
  <2>3. \A u \in Tasks, i \in CPUS :
          (cpu'[u] = i /\ Passes(u)') <=> (cpu[u] = i /\ Passes(u))
    BY <1>9 DEF prod, Passes, Kinds
  <2>4. ASSUME NEW v \in Writers PROVE ScanKept(v)
    <3>1. scan'[v] = scan[v] /\ state'[v] = state[v]
      BY <1>9 DEF prod
    <3>2. pc[v] \in {"sum", "rcuwait_asleep"} => writer = v /\ v # NULL
      BY DEF Rcuwait, RcuwaitPc
    <3>3. pc'[v] \in ScanPc => pc'[v] = pc[v] /\ v # t
      BY <1>9 DEF prod, ScanPc
    <3>4. CASE pc'[v] \in {"sum", "rcuwait_asleep"}
      <4>1. writer # NULL /\ pc'[t] = "prod_wake" /\ seen'[t] = v
        BY <1>9, <3>2, <3>3, <3>4 DEF prod, ScanPc
      <4> QED BY <3>1, <3>3, <3>4, <4>1 DEF ScanKept, Unprodded, ScanPc
    <3>5. CASE pc'[v] \notin {"sum", "rcuwait_asleep"}
      BY <3>3, <3>5 DEF ScanKept, ScanPc
    <3> QED BY <3>4, <3>5
  <2> QED BY <2>1, <2>2, <2>3, <2>4, PassingSame, CountersKept
<1>10. ASSUME NEW t \in Tasks, prod_wake(t) PROVE Counters'
  <2>0. t \in Tasks /\ pc[t] \notin WaitPc /\ Distinct
    BY <1>10 DEF prod_wake, WaitPc, Queue
  <2>9. \/ waiters' = waiters
        \/ t \in Readers /\ pc'[t] = "set_state" /\ Waiting' = Waiting \cup {t}
    <3>1. \/ waiters' = waiters
          \/ ctx[t] = "wait" /\ pc'[t] = "set_state"
               /\ waiters' = Append(waiters, t)
      BY <1>10 DEF prod_wake
    <3>2. ctx[t] = "wait" => t \in Readers
      BY <1>10 DEF prod_wake, Kinds, TryPc
    <3>3. t \notin Waiting
      BY <2>0 DEF Queue
    <3> QED BY <2>0, <3>1, <3>2, <3>3, QueueAdd
  <2>1. read_count' = read_count
    BY <1>10 DEF prod_wake
  <2>2. ASSUME NEW q \in Readers PROVE Holder(q)' <=> Holder(q)
    BY <1>10, <1>q, <2>9 DEF prod_wake, Holder, HoldsRead, ReadPc, WaitPc, Kinds
  <2>3. \A u \in Tasks, i \in CPUS :
          (cpu'[u] = i /\ Passes(u)') <=> (cpu[u] = i /\ Passes(u))
    BY <1>10 DEF prod_wake, Passes, Kinds
  <2>4. ASSUME NEW v \in Writers PROVE ScanKept(v)
    BY <1>10 DEF prod_wake, ScanKept, ScanPc, Unprodded, Rcuwait, RcuwaitPc
  <2> QED BY <2>1, <2>2, <2>3, <2>4, PassingSame, CountersKept
<1>11. ASSUME NEW t \in Tasks, set_state(t) PROVE Counters'
  <2>1. read_count' = read_count
    BY <1>11 DEF set_state
  <2>2. ASSUME NEW q \in Readers PROVE Holder(q)' <=> Holder(q)
    BY <1>11, <1>q DEF set_state, Holder, HoldsRead, ReadPc, WaitPc, Kinds
  <2>3. \A u \in Tasks, i \in CPUS :
          (cpu'[u] = i /\ Passes(u)') <=> (cpu[u] = i /\ Passes(u))
    BY <1>11 DEF set_state, Passes, Kinds
  <2>4. ASSUME NEW v \in Writers PROVE ScanKept(v)
    BY <1>11 DEF set_state, ScanKept, ScanPc, Unprodded, Rcuwait, RcuwaitPc
  <2> QED BY <2>1, <2>2, <2>3, <2>4, PassingSame, CountersKept
<1>12. ASSUME NEW t \in Tasks, check(t) PROVE Counters'
  <2>1. read_count' = read_count
    BY <1>12 DEF check
  <2>2. ASSUME NEW q \in Readers PROVE Holder(q)' <=> Holder(q)
    BY <1>12, <1>q DEF check, Holder, HoldsRead, ReadPc, WaitPc, Kinds
  <2>3. \A u \in Tasks, i \in CPUS :
          (cpu'[u] = i /\ Passes(u)') <=> (cpu[u] = i /\ Passes(u))
    BY <1>12 DEF check, Passes, Kinds
  <2>4. ASSUME NEW v \in Writers PROVE ScanKept(v)
    BY <1>12 DEF check, ScanKept, ScanPc, Unprodded, Rcuwait, RcuwaitPc
  <2> QED BY <2>1, <2>2, <2>3, <2>4, PassingSame, CountersKept
<1>13. ASSUME NEW t \in Tasks, schedule(t, "asleep", "set_state")
       PROVE  Counters'
  <2>1. read_count' = read_count
    BY <1>13 DEF schedule
  <2>2. ASSUME NEW q \in Readers PROVE Holder(q)' <=> Holder(q)
    BY <1>13, <1>q DEF schedule, Holder, HoldsRead, ReadPc, WaitPc, Kinds
  <2>3. \A u \in Tasks, i \in CPUS :
          (cpu'[u] = i /\ Passes(u)') <=> (cpu[u] = i /\ Passes(u))
    BY <1>13 DEF schedule, Passes, Kinds
  <2>4. ASSUME NEW v \in Writers PROVE ScanKept(v)
    BY <1>13 DEF schedule, ScanKept, ScanPc, Unprodded, Rcuwait, RcuwaitPc
  <2> QED BY <2>1, <2>2, <2>3, <2>4, PassingSame, CountersKept
<1>14. ASSUME NEW w \in Writers, down_write(w) PROVE Counters'
  <2>1. read_count' = read_count
    BY <1>14 DEF down_write
  <2>2. ASSUME NEW q \in Readers PROVE Holder(q)' <=> Holder(q)
    BY <1>14, <1>q DEF down_write, Holder, HoldsRead, ReadPc, WaitPc, Kinds
  <2>3. \A u \in Tasks, i \in CPUS :
          (cpu'[u] = i /\ Passes(u)') <=> (cpu[u] = i /\ Passes(u))
    BY <1>14 DEF down_write, Passes, Kinds
  <2>4. ASSUME NEW v \in Writers PROVE ScanKept(v)
    BY <1>14 DEF down_write, ScanKept, ScanPc, Unprodded, Rcuwait, RcuwaitPc
  <2> QED BY <2>1, <2>2, <2>3, <2>4, PassingSame, CountersKept
<1>15. ASSUME NEW w \in Writers, free_rwsem(w) PROVE Counters'
  <2>1. read_count' = read_count
    BY <1>15 DEF free_rwsem
  <2>2. ASSUME NEW q \in Readers PROVE Holder(q)' <=> Holder(q)
    BY <1>15, <1>q DEF free_rwsem, Holder, HoldsRead, ReadPc, WaitPc, Kinds
  <2>3. \A u \in Tasks, i \in CPUS :
          (cpu'[u] = i /\ Passes(u)') <=> (cpu[u] = i /\ Passes(u))
    BY <1>15 DEF free_rwsem, Passes, Kinds
  <2>4. ASSUME NEW v \in Writers PROVE ScanKept(v)
    BY <1>15 DEF free_rwsem, ScanKept, ScanPc, Unprodded, Rcuwait, RcuwaitPc
  <2> QED BY <2>1, <2>2, <2>3, <2>4, PassingSame, CountersKept
<1>16. ASSUME NEW w \in Writers, sync(w) PROVE Counters'
  <2>1. read_count' = read_count
    BY <1>16 DEF sync
  <2>2. ASSUME NEW q \in Readers PROVE Holder(q)' <=> Holder(q)
    BY <1>16, <1>q DEF sync, Holder, HoldsRead, ReadPc, WaitPc, Kinds
  <2>3. \A u \in Tasks, i \in CPUS :
          (cpu'[u] = i /\ Passes(u)') <=> (cpu[u] = i /\ Passes(u))
    BY <1>16 DEF sync, Passes, Kinds
  <2>4. ASSUME NEW v \in Writers PROVE ScanKept(v)
    BY <1>16 DEF sync, ScanKept, ScanPc, Unprodded, Rcuwait, RcuwaitPc
  <2> QED BY <2>1, <2>2, <2>3, <2>4, PassingSame, CountersKept
<1>17. ASSUME NEW w \in Writers, gp_cond(w) PROVE Counters'
  <2>1. read_count' = read_count
    BY <1>17 DEF gp_cond
  <2>2. ASSUME NEW q \in Readers PROVE Holder(q)' <=> Holder(q)
    BY <1>17, <1>q DEF gp_cond, Holder, HoldsRead, ReadPc, WaitPc, Kinds
  <2>3. \A u \in Tasks, i \in CPUS :
          (cpu'[u] = i /\ Passes(u)') <=> (cpu[u] = i /\ Passes(u))
    BY <1>17 DEF gp_cond, Passes, Kinds
  <2>4. ASSUME NEW v \in Writers PROVE ScanKept(v)
    BY <1>17 DEF gp_cond, ScanKept, ScanPc, Unprodded, Rcuwait, RcuwaitPc
  <2> QED BY <2>1, <2>2, <2>3, <2>4, PassingSame, CountersKept
<1>18. ASSUME NEW w \in Writers, gp_prepare(w) PROVE Counters'
  <2>1. read_count' = read_count
    BY <1>18 DEF gp_prepare
  <2>2. ASSUME NEW q \in Readers PROVE Holder(q)' <=> Holder(q)
    BY <1>18, <1>q DEF gp_prepare, Holder, HoldsRead, ReadPc, WaitPc, Kinds
  <2>3. \A u \in Tasks, i \in CPUS :
          (cpu'[u] = i /\ Passes(u)') <=> (cpu[u] = i /\ Passes(u))
    BY <1>18 DEF gp_prepare, Passes, Kinds
  <2>4. ASSUME NEW v \in Writers PROVE ScanKept(v)
    BY <1>18 DEF gp_prepare, ScanKept, ScanPc, Unprodded, Rcuwait, RcuwaitPc
  <2> QED BY <2>1, <2>2, <2>3, <2>4, PassingSame, CountersKept
<1>19. ASSUME NEW w \in Writers, gp_check(w) PROVE Counters'
  <2>1. read_count' = read_count
    BY <1>19 DEF gp_check
  <2>2. ASSUME NEW q \in Readers PROVE Holder(q)' <=> Holder(q)
    BY <1>19, <1>q DEF gp_check, Holder, HoldsRead, ReadPc, WaitPc, Kinds
  <2>3. \A u \in Tasks, i \in CPUS :
          (cpu'[u] = i /\ Passes(u)') <=> (cpu[u] = i /\ Passes(u))
    BY <1>19 DEF gp_check, Passes, Kinds
  <2>4. ASSUME NEW v \in Writers PROVE ScanKept(v)
    BY <1>19 DEF gp_check, ScanKept, ScanPc, Unprodded, Rcuwait, RcuwaitPc
  <2> QED BY <2>1, <2>2, <2>3, <2>4, PassingSame, CountersKept
<1>20. ASSUME NEW w \in Writers, schedule(w, "gp_asleep", "gp_prepare")
       PROVE  Counters'
  <2>1. read_count' = read_count
    BY <1>20 DEF schedule
  <2>2. ASSUME NEW q \in Readers PROVE Holder(q)' <=> Holder(q)
    BY <1>20, <1>q DEF schedule, Holder, HoldsRead, ReadPc, WaitPc, Kinds
  <2>3. \A u \in Tasks, i \in CPUS :
          (cpu'[u] = i /\ Passes(u)') <=> (cpu[u] = i /\ Passes(u))
    BY <1>20 DEF schedule, Passes, Kinds
  <2>4. ASSUME NEW v \in Writers PROVE ScanKept(v)
    BY <1>20 DEF schedule, ScanKept, ScanPc, Unprodded, Rcuwait, RcuwaitPc
  <2> QED BY <2>1, <2>2, <2>3, <2>4, PassingSame, CountersKept
<1>21. ASSUME NEW w \in Writers, try_block(w) PROVE Counters'
  <2>1. read_count' = read_count
    BY <1>21 DEF try_block
  <2>2. ASSUME NEW q \in Readers PROVE Holder(q)' <=> Holder(q)
    BY <1>21, <1>q DEF try_block, Holder, HoldsRead, ReadPc, WaitPc, Kinds
  <2>3. \A u \in Tasks, i \in CPUS :
          (cpu'[u] = i /\ Passes(u)') <=> (cpu[u] = i /\ Passes(u))
    BY <1>21 DEF try_block, Passes, Kinds
  <2>4. ASSUME NEW v \in Writers PROVE ScanKept(v)
    BY <1>21 DEF try_block, ScanKept, ScanPc, Unprodded, Rcuwait, RcuwaitPc
  <2> QED BY <2>1, <2>2, <2>3, <2>4, PassingSame, CountersKept
<1>22. ASSUME NEW w \in Writers, wait_lock_writer(w) PROVE Counters'
  <2>0. pc[w] \notin WaitPc /\ Distinct
    BY <1>22 DEF wait_lock_writer, WaitPc, Queue
  <2>9. waiters' = waiters \/ Waiting' = Waiting \cup {w}
    <3>1. waiters' = waiters \/ waiters' = Append(waiters, w)
      BY <1>22 DEF wait_lock_writer
    <3>2. w \notin Waiting
      BY <2>0 DEF Queue
    <3> QED BY <2>0, <3>1, <3>2, QueueAdd
  <2>1. read_count' = read_count
    BY <1>22 DEF wait_lock_writer
  <2>2. ASSUME NEW q \in Readers PROVE Holder(q)' <=> Holder(q)
    BY <1>22, <1>q, <2>9 DEF wait_lock_writer, Holder, HoldsRead, ReadPc,
          WaitPc, Kinds
  <2>3. \A u \in Tasks, i \in CPUS :
          (cpu'[u] = i /\ Passes(u)') <=> (cpu[u] = i /\ Passes(u))
    BY <1>22 DEF wait_lock_writer, Passes, Kinds
  <2>4. ASSUME NEW v \in Writers PROVE ScanKept(v)
    BY <1>22 DEF wait_lock_writer, ScanKept, ScanPc, Unprodded, Rcuwait,
          RcuwaitPc
  <2> QED BY <2>1, <2>2, <2>3, <2>4, PassingSame, CountersKept
<1>23. ASSUME NEW w \in Writers, prepare_to_rcuwait(w) PROVE Counters'
  <2>1. read_count' = read_count
    BY <1>23 DEF prepare_to_rcuwait
  <2>2. ASSUME NEW q \in Readers PROVE Holder(q)' <=> Holder(q)
    BY <1>23, <1>q DEF prepare_to_rcuwait, Holder, HoldsRead, ReadPc, WaitPc,
          Kinds
  <2>3. \A u \in Tasks, i \in CPUS :
          (cpu'[u] = i /\ Passes(u)') <=> (cpu[u] = i /\ Passes(u))
    BY <1>23 DEF prepare_to_rcuwait, Passes, Kinds
  <2>4. ASSUME NEW v \in Writers PROVE ScanKept(v)
    BY <1>23 DEF prepare_to_rcuwait, ScanKept, ScanPc, Unprodded, Rcuwait,
          RcuwaitPc
  <2> QED BY <2>1, <2>2, <2>3, <2>4, PassingSame, CountersKept
<1>24. ASSUME NEW w \in Writers, rcuwait(w) PROVE Counters'
  <2>1. read_count' = read_count
    BY <1>24 DEF rcuwait
  <2>2. ASSUME NEW q \in Readers PROVE Holder(q)' <=> Holder(q)
    BY <1>24, <1>q DEF rcuwait, Holder, HoldsRead, ReadPc, WaitPc, Kinds
  <2>3. \A u \in Tasks, i \in CPUS :
          (cpu'[u] = i /\ Passes(u)') <=> (cpu[u] = i /\ Passes(u))
    BY <1>24 DEF rcuwait, Passes, Kinds
  <2>4. ASSUME NEW v \in Writers PROVE ScanKept(v)
    BY <1>24 DEF rcuwait, ScanKept, ScanPc, Unprodded, Rcuwait, RcuwaitPc
  <2> QED BY <2>1, <2>2, <2>3, <2>4, PassingSame, CountersKept
<1>25. ASSUME NEW w \in Writers, per_cpu_sum(w) PROVE Counters'
  BY <1>25, SumStep
<1>26. ASSUME NEW w \in Writers, finish_rcuwait(w) PROVE Counters'
  <2>1. read_count' = read_count
    BY <1>26 DEF finish_rcuwait
  <2>2. ASSUME NEW q \in Readers PROVE Holder(q)' <=> Holder(q)
    BY <1>26, <1>q DEF finish_rcuwait, Holder, HoldsRead, ReadPc, WaitPc, Kinds
  <2>3. \A u \in Tasks, i \in CPUS :
          (cpu'[u] = i /\ Passes(u)') <=> (cpu[u] = i /\ Passes(u))
    BY <1>26 DEF finish_rcuwait, Passes, Kinds
  <2>4. ASSUME NEW v \in Writers PROVE ScanKept(v)
    BY <1>26 DEF finish_rcuwait, ScanKept, ScanPc, Unprodded, Rcuwait, RcuwaitPc
  <2> QED BY <2>1, <2>2, <2>3, <2>4, PassingSame, CountersKept
<1>27. ASSUME NEW w \in Writers, schedule(w, "rcuwait_asleep", "rcuwait")
       PROVE  Counters'
  <2>1. read_count' = read_count
    BY <1>27 DEF schedule
  <2>2. ASSUME NEW q \in Readers PROVE Holder(q)' <=> Holder(q)
    BY <1>27, <1>q DEF schedule, Holder, HoldsRead, ReadPc, WaitPc, Kinds
  <2>3. \A u \in Tasks, i \in CPUS :
          (cpu'[u] = i /\ Passes(u)') <=> (cpu[u] = i /\ Passes(u))
    BY <1>27 DEF schedule, Passes, Kinds
  <2>4. ASSUME NEW v \in Writers PROVE ScanKept(v)
    BY <1>27 DEF schedule, ScanKept, ScanPc, Unprodded, Rcuwait, RcuwaitPc
  <2> QED BY <2>1, <2>2, <2>3, <2>4, PassingSame, CountersKept
<1>28. ASSUME NEW w \in Writers, up_write(w) PROVE Counters'
  <2>1. read_count' = read_count
    BY <1>28 DEF up_write
  <2>2. ASSUME NEW q \in Readers PROVE Holder(q)' <=> Holder(q)
    BY <1>28, <1>q DEF up_write, Holder, HoldsRead, ReadPc, WaitPc, Kinds
  <2>3. \A u \in Tasks, i \in CPUS :
          (cpu'[u] = i /\ Passes(u)') <=> (cpu[u] = i /\ Passes(u))
    BY <1>28 DEF up_write, Passes, Kinds
  <2>4. ASSUME NEW v \in Writers PROVE ScanKept(v)
    BY <1>28 DEF up_write, ScanKept, ScanPc, Unprodded, Rcuwait, RcuwaitPc
  <2> QED BY <2>1, <2>2, <2>3, <2>4, PassingSame, CountersKept
<1>29. ASSUME NEW w \in Writers, wake_next(w) PROVE Counters'
  <2>9. waiters' = waiters \/ \E v \in Writers : Waiting' = Waiting \ {v}
    <3>1. \/ waiters' = waiters
          \/ waiters # <<>> /\ Head(waiters) \in Writers
               /\ waiters' = Tail(waiters)
      BY <1>29 DEF wake_next
    <3> QED BY <3>1, QueueTail DEF Queue
  <2>1. read_count' = read_count
    BY <1>29 DEF wake_next
  <2>2. ASSUME NEW q \in Readers PROVE Holder(q)' <=> Holder(q)
    BY <1>29, <1>q, <2>9 DEF wake_next, Holder, HoldsRead, ReadPc, WaitPc, Kinds
  <2>3. \A u \in Tasks, i \in CPUS :
          (cpu'[u] = i /\ Passes(u)') <=> (cpu[u] = i /\ Passes(u))
    BY <1>29 DEF wake_next, Passes, Kinds
  <2>4. ASSUME NEW v \in Writers PROVE ScanKept(v)
    BY <1>29 DEF wake_next, ScanKept, ScanPc, Unprodded, Rcuwait, RcuwaitPc
  <2> QED BY <2>1, <2>2, <2>3, <2>4, PassingSame, CountersKept
<1>30. ASSUME NEW w \in Writers, wake_process(w) PROVE Counters'
  <2>1. read_count' = read_count
    BY <1>30 DEF wake_process
  <2>2. ASSUME NEW q \in Readers PROVE Holder(q)' <=> Holder(q)
    BY <1>30, <1>q DEF wake_process, Holder, HoldsRead, ReadPc, WaitPc, Kinds
  <2>3. \A u \in Tasks, i \in CPUS :
          (cpu'[u] = i /\ Passes(u)') <=> (cpu[u] = i /\ Passes(u))
    BY <1>30 DEF wake_process, Passes, Kinds
  <2>4. ASSUME NEW v \in Writers PROVE ScanKept(v)
    BY <1>30 DEF wake_process, ScanKept, ScanPc, Unprodded, Rcuwait, RcuwaitPc
  <2> QED BY <2>1, <2>2, <2>3, <2>4, PassingSame, CountersKept
<1>31. ASSUME NEW w \in Writers, exit(w) PROVE Counters'
  <2>1. read_count' = read_count
    BY <1>31 DEF exit
  <2>2. ASSUME NEW q \in Readers PROVE Holder(q)' <=> Holder(q)
    BY <1>31, <1>q DEF exit, Holder, HoldsRead, ReadPc, WaitPc, Kinds
  <2>3. \A u \in Tasks, i \in CPUS :
          (cpu'[u] = i /\ Passes(u)') <=> (cpu[u] = i /\ Passes(u))
    BY <1>31 DEF exit, Passes, Kinds
  <2>4. ASSUME NEW v \in Writers PROVE ScanKept(v)
    BY <1>31 DEF exit, ScanKept, ScanPc, Unprodded, Rcuwait, RcuwaitPc
  <2> QED BY <2>1, <2>2, <2>3, <2>4, PassingSame, CountersKept
<1>32. ASSUME NEW w \in Writers, rcu_barrier(w) PROVE Counters'
  <2>1. read_count' = read_count
    BY <1>32 DEF rcu_barrier
  <2>2. ASSUME NEW q \in Readers PROVE Holder(q)' <=> Holder(q)
    BY <1>32, <1>q DEF rcu_barrier, Holder, HoldsRead, ReadPc, WaitPc, Kinds
  <2>3. \A u \in Tasks, i \in CPUS :
          (cpu'[u] = i /\ Passes(u)') <=> (cpu[u] = i /\ Passes(u))
    BY <1>32 DEF rcu_barrier, Passes, Kinds
  <2>4. ASSUME NEW v \in Writers PROVE ScanKept(v)
    BY <1>32 DEF rcu_barrier, ScanKept, ScanPc, Unprodded, Rcuwait, RcuwaitPc
  <2> QED BY <2>1, <2>2, <2>3, <2>4, PassingSame, CountersKept
<1>33. ASSUME NEW w \in Writers, init_rwsem(w) PROVE Counters'
  <2>1. Unused' /\ (read_count = [c \in CPUS |-> 0])'
    BY <1>33 DEF init_rwsem, Life, FreePc, Unused
  <2> QED BY <2>1, CountersZero, PTL
<1>34. ASSUME NEW w \in Writers, NEW c \in CPUS, wake_lock(w, c) PROVE Counters'
  <2>1. read_count' = read_count
    BY <1>34 DEF wake_lock
  <2>2. ASSUME NEW q \in Readers PROVE Holder(q)' <=> Holder(q)
    BY <1>34, <1>q DEF wake_lock, Holder, HoldsRead, ReadPc, WaitPc, Kinds
  <2>3. \A u \in Tasks, i \in CPUS :
          (cpu'[u] = i /\ Passes(u)') <=> (cpu[u] = i /\ Passes(u))
    BY <1>34 DEF wake_lock, Passes, Kinds
  <2>4. ASSUME NEW v \in Writers PROVE ScanKept(v)
    BY <1>34 DEF wake_lock, ScanKept, ScanPc, Unprodded, Rcuwait, RcuwaitPc
  <2> QED BY <2>1, <2>2, <2>3, <2>4, PassingSame, CountersKept
<1>35. ASSUME callback PROVE Counters'
  <2>1. read_count' = read_count
    BY <1>35 DEF callback
  <2>2. ASSUME NEW q \in Readers PROVE Holder(q)' <=> Holder(q)
    BY <1>35, <1>q DEF callback, Holder, HoldsRead, ReadPc, WaitPc, Kinds
  <2>3. \A u \in Tasks, i \in CPUS :
          (cpu'[u] = i /\ Passes(u)') <=> (cpu[u] = i /\ Passes(u))
    BY <1>35 DEF callback, Passes, Kinds
  <2>4. ASSUME NEW v \in Writers PROVE ScanKept(v)
    BY <1>35 DEF callback, ScanKept, ScanPc, Unprodded, Rcuwait, RcuwaitPc
  <2> QED BY <2>1, <2>2, <2>3, <2>4, PassingSame, CountersKept
<1>36. CASE UNCHANGED vars
  <2>1. UNCHANGED <<read_count, cpu, pc, ctx, waiters, state, seen, scan>>
    BY <1>36 DEF vars
  <2>2. ASSUME NEW q \in Readers PROVE Holder(q)' <=> Holder(q)
    BY <1>q, <2>1 DEF Holder, HoldsRead
  <2>3. \A u \in Tasks, i \in CPUS :
          (cpu'[u] = i /\ Passes(u)') <=> (cpu[u] = i /\ Passes(u))
    BY <2>1 DEF Passes
  <2>4. ASSUME NEW v \in Writers PROVE ScanKept(v)
    BY <2>1 DEF ScanKept, Unprodded
  <2> QED BY <2>1, <2>2, <2>3, <2>4, PassingSame, CountersKept
<1> HIDE DEF Goto, Jump, preempt_disable, preempt_enable, this_cpu_add,
      ReadLocked, Prodded, UnlockWaiters, semvars, rsp, rcuvars, queue, semrest,
      locals, rssvars, gpvars, rcu_read_unlock, wake_up, rcu_sync_enter,
      synchronize_rcu, rcu_sync_func, rcu_sync_call, prepare_to_wait_event,
      finish_wait, rcu_sync_exit, rcu_sync_dtor, rcu_callback, Tasks
<1> QED BY <1>1, <1>2, <1>3, <1>4, <1>5, <1>6, <1>7, <1>8, <1>9, <1>10, <1>11,
      <1>12, <1>13, <1>14, <1>15, <1>16, <1>17, <1>18, <1>19, <1>20, <1>21,
      <1>22, <1>23, <1>24, <1>25, <1>26, <1>27, <1>28, <1>29, <1>30, <1>31,
      <1>32, <1>33, <1>34, <1>35, <1>36 DEF Next, Start, Continue,
      trylock_step, wait_step, reader_step, writer_step, Tasks

-----------------------------------------------------------------------------
(***************************************************************************)
(* The invariant holds.                                                     *)
(***************************************************************************)
\* The invariant without the counters.
Inv ==
  /\ TypeTask /\ TypeRcu /\ TypeSem
  /\ Kinds /\ Preemption /\ QueueLock /\ Queue /\ Ownership /\ Life
  /\ Updaters /\ FastPath /\ Rcuwait
  /\ Wakers /\ Granted /\ GpSleepers

\* A semaphore nobody uses yet satisfies the invariant.
LEMMA InitInv == Init => Inv /\ Counters
<1> SUFFICES ASSUME Init PROVE Inv /\ Counters
  OBVIOUS
<1> USE TasksAssumption, PercpuAssumption
<1>1. Unused /\ Waiting = {} /\ waiters = <<>> /\ waiters \in Seq(Tasks)
  BY DEF Init, Unused, Waiting, Range
<1>2. started \in BOOLEAN
  BY DEF Init
<1>3. TypeTask
  BY DEF Init, RcuInit, TypeTask, CTX, PC
<1>4. TypeRcu
  BY DEF Init, RcuInit, TypeRcu, GP_IDLE, GP_ENTER, GP_PASSED, GP_EXIT,
        GP_REPLAY
<1>5. TypeSem
  <2>1. 1 \in CPUS
    BY DEF CPUS
  <2>2. 0 \in 0 .. Mod - 1
    <3> HIDE DEF Mod
    <3> QED OBVIOUS
  <2> HIDE DEF Mod
  <2> QED BY <1>1, <1>2, <2>1, <2>2 DEF Init, TypeSem
<1>6. Kinds /\ QueueLock /\ Ownership /\ Life /\ Rcuwait
  BY <1>1 DEF Unused, Init, Kinds, QueueLock, UnderLock, Ownership, Owns, Life,
     Rcuwait, ReaderPc, WriterPc, TryPc, WakePc, WaitPc, RcuwaitPc, FreePc, Tasks
<1>7. Preemption
  BY <1>1 DEF Unused, Init, Preemption, FastPc, TryPc, WakePc
<1>8. Queue
  BY <1>1 DEF Unused, Queue, Distinct, Tasks
<1>9. Updaters
  <2>1. Entered = {}
    BY <1>1 DEF Unused, Entered, EnterPc, EnteredPc, RcuwaitPc, Tasks
  <2>2. Cardinality(Entered) = 0
    BY <2>1, FS_EmptySet
  <2>3. /\ gp_state = IF started THEN GP_PASSED ELSE GP_IDLE
        /\ gp_count = IF started THEN 1 ELSE 0
        /\ cb_queued = 0
        /\ \A w \in Writers : pc[w] = "idle"
    BY <1>1 DEF Unused, Init, RcuInit, Tasks
  <2> QED BY <1>2, <2>2, <2>3 DEF Updaters, GpStateMatches, rcu_sync_is_idle,
          GP_IDLE, GP_ENTER, GP_PASSED, GP_EXIT, GP_REPLAY
<1>10. FastPath
  BY <1>1 DEF Unused, FastPath, FastPc, EnteredPc, RcuwaitPc, Tasks
<1>11. Wakers /\ Granted /\ GpSleepers
  BY <1>1 DEF Unused, Wakers, NeedsWaker, Granted, GpSleepers, Asleep, Tasks
<1>12. Counters
  BY <1>1, CountersZero DEF Init
<1> QED BY <1>3, <1>4, <1>5, <1>6, <1>7, <1>8, <1>9, <1>10, <1>11, <1>12 DEF Inv

\* Every step preserves it.
LEMMA InvStep == Inv /\ [Next]_vars => Inv'
<1> SUFFICES ASSUME Inv, [Next]_vars PROVE Inv'
  OBVIOUS
<1> USE DEF Inv
<1>1. /\ pc \in [Tasks -> PC] /\ ctx \in [Tasks -> CTX]
      /\ cpu \in [Tasks -> CPUS \cup {NULL}]
      /\ seen \in [Tasks -> Tasks \cup {NULL}]
      /\ state \in [Tasks -> {"TASK_RUNNING", "TASK_UNINTERRUPTIBLE"}]
  BY DEF TypeTask, CTX
<1>2. /\ gp_state \in GP_IDLE .. GP_REPLAY /\ gp_count \in Nat
      /\ gp_wait \subseteq Writers /\ cb_queued \in Nat
      /\ sync_gp \in [Writers -> SUBSET Tasks]
  BY DEF TypeRcu
<1>3. /\ block \in {0, 1} /\ waiters \in Seq(Tasks)
      /\ wq_lock \in Tasks \cup {NULL}
      /\ writer \in Writers \cup {NULL} /\ started \in BOOLEAN
      /\ scan \in [Writers -> [cpu : CPUS, sum : 0 .. Mod - 1]]
  BY DEF TypeSem
<1>4. TypeTask' /\ TypeRcu' /\ TypeSem'
  BY <1>1, <1>3, TaskTypes, RcuTypes, SemTypes
<1>5. Kinds' /\ Preemption' /\ QueueLock' /\ Life'
  BY <1>1, <1>3, KindsStep, PreStep, LockStep, LifeStep
<1>6. Queue' /\ Ownership' /\ Rcuwait'
  BY <1>1, <1>3, QueueStep, OwnStep, RcuwaitStep
<1>7. Updaters' /\ FastPath'
  BY <1>1, <1>2, <1>3, UpdatersStep, FastPathStep
<1>8. Wakers' /\ Granted' /\ GpSleepers'
  BY <1>1, <1>2, <1>3, WakersStep, GrantedStep, GpSleepersStep
<1> QED BY <1>4, <1>5, <1>6, <1>7, <1>8

\* So the invariant always holds.
LEMMA InvHolds == Spec => []Inv
<1>1. Init => Inv
  BY InitInv
<1>2. Inv /\ [Next]_vars => Inv'
  BY InvStep
<1> QED BY <1>1, <1>2, PTL DEF Spec

\* The counters too, as long as they can tell the readers apart.
LEMMA CountersHold ==
  ASSUME CountersFit
  PROVE  Spec => []Counters
<1>1. Init => Counters
  BY InitInv
<1>2. Inv /\ Counters /\ [Next]_vars => Counters'
  <2> SUFFICES ASSUME Inv, Counters, [Next]_vars PROVE Counters'
    OBVIOUS
  <2>1. /\ pc \in [Tasks -> PC] /\ ctx \in [Tasks -> CTX]
        /\ cpu \in [Tasks -> CPUS \cup {NULL}]
        /\ seen \in [Tasks -> Tasks \cup {NULL}]
        /\ state \in [Tasks -> {"TASK_RUNNING", "TASK_UNINTERRUPTIBLE"}]
    BY DEF Inv, TypeTask, CTX
  <2>2. /\ waiters \in Seq(Tasks) /\ writer \in Writers \cup {NULL}
        /\ block \in {0, 1} /\ read_count \in [CPUS -> 0 .. Mod - 1]
        /\ scan \in [Writers -> [cpu : CPUS, sum : 0 .. Mod - 1]]
    BY DEF Inv, TypeSem
  <2> QED BY <2>1, <2>2, CountersStep DEF Inv
<1> QED BY <1>1, <1>2, InvHolds, PTL DEF Spec

-----------------------------------------------------------------------------
(***************************************************************************)
(* The theorems.                                                            *)
(***************************************************************************)
\* However calls of rcu_sync_enter(), rcu_sync_exit() and the callback overlap,
\* gp_count never falls below zero and cb_head is never queued while it is
\* queued, and no task is in the wait queue twice.
THEOREM TypeCorrect == Spec => []TypeOK
<1>1. Inv => TypeOK
  <2> SUFFICES ASSUME Inv PROVE TypeOK
    OBVIOUS
  <2>1. cb_queued \in {0, 1}
    BY DEF Inv, Updaters, GpStateMatches
  <2>2. \A i, j \in 1 .. Len(waiters) : waiters[i] = waiters[j] => i = j
    BY DEF Inv, Queue, Distinct
  <2> QED BY <2>1, <2>2 DEF Inv, TypeTask, TypeRcu, TypeSem, TypeOK
<1> QED BY <1>1, InvHolds, PTL

\* Between the return of rcu_sync_enter() and the matching rcu_sync_exit() no
\* reader is on the fast path of percpu_down_read() or percpu_up_read(), not
\* even one that read gp_state before the writer came.
THEOREM SlowPathAlwaysForced == Spec => []SlowPathForced
<1>1. Inv => SlowPathForced
  <2> SUFFICES ASSUME Inv, NEW w \in Writers, pc[w] \in EnteredPc
               PROVE  /\ gp_state >= GP_PASSED
                      /\ \A r \in Readers : pc[r] \notin {"fast_inc", "fast_dec"}
    BY DEF SlowPathForced
  <2>1. gp_state >= GP_PASSED
    BY DEF Inv, FastPath
  <2>2. gp_state \notin {GP_IDLE, GP_ENTER}
    BY <2>1 DEF GP_IDLE, GP_ENTER, GP_PASSED
  <2> QED BY <2>1, <2>2 DEF Inv, FastPath, FastPc
<1> QED BY <1>1, InvHolds, PTL

\* No WARN_ON_ONCE() of rcu/sync.c fires: gp_count counts the updaters, the
\* callback is queued exactly in GP_EXIT and GP_REPLAY, and only the updater
\* that found GP_IDLE waits in GP_ENTER.
THEOREM GpStateAlwaysMatches == Spec => []GpStateMatches
<1>1. Inv => GpStateMatches
  BY DEF Inv, Updaters
<1> QED BY <1>1, InvHolds, PTL

-----------------------------------------------------------------------------
(***************************************************************************)
(* Every step is one of RwLockSpec, or none.                                *)
(***************************************************************************)
ContractStep == [Contract!Next]_(Contract!vars)

\* A step is invisible if nobody gets or gives up the lock,
LEMMA ContractSame ==
  ASSUME \A r \in Readers : HoldsRead(r)' <=> HoldsRead(r),
         \A w \in Writers : pc'[w] = "write" <=> pc[w] = "write"
  PROVE  ContractStep
<1>1. {r \in Readers : HoldsRead(r)}' = {r \in Readers : HoldsRead(r)}
  OBVIOUS
<1>2. {w \in Writers : pc[w] = "write"}' = {w \in Writers : pc[w] = "write"}
  OBVIOUS
<1> QED BY <1>1, <1>2 DEF ContractStep, Contract!vars

\* a read_lock() if a reader gets it while nobody writes,
LEMMA ContractReadLock ==
  ASSUME NEW r \in Readers, HoldsRead(r)',
         \A q \in Readers \ {r} : HoldsRead(q)' <=> HoldsRead(q),
         \A w \in Writers : pc[w] # "write" /\ pc'[w] # "write"
  PROVE  ContractStep
<1>1. /\ {q \in Readers : HoldsRead(q)}' = {q \in Readers : HoldsRead(q)} \cup {r}
      /\ {w \in Writers : pc[w] = "write"} = {}
      /\ {w \in Writers : pc[w] = "write"}' = {}
  OBVIOUS
<1>2. Contract!read_lock({r})
  BY <1>1 DEF Contract!read_lock
<1>3. {r} \in SUBSET Tasks
  BY DEF Tasks
<1> QED BY <1>2, <1>3 DEF ContractStep, Contract!Next

\* and a read_unlock() if a reader gives it up.
LEMMA ContractReadUnlock ==
  ASSUME NEW r \in Readers, HoldsRead(r), ~HoldsRead(r)',
         \A q \in Readers \ {r} : HoldsRead(q)' <=> HoldsRead(q),
         \A w \in Writers : pc'[w] = "write" <=> pc[w] = "write"
  PROVE  ContractStep
<1>1. /\ r \in {q \in Readers : HoldsRead(q)}
      /\ {q \in Readers : HoldsRead(q)}' = {q \in Readers : HoldsRead(q)} \ {r}
      /\ {w \in Writers : pc[w] = "write"}' = {w \in Writers : pc[w] = "write"}
  OBVIOUS
<1>2. Contract!read_unlock(r)
  BY <1>1 DEF Contract!read_unlock
<1>3. r \in Tasks
  BY DEF Tasks
<1> QED BY <1>2, <1>3 DEF ContractStep, Contract!Next

\* A writer that has found the sum to be zero meets no reader.
LEMMA WriterAlone ==
  ASSUME Counters, NEW w \in Writers, pc[w] \in {"finish", "write"}
  PROVE  Holders = {}
BY DEF Counters, Scanned

\* No other step is possible.
LEMMA Refines ==
  ASSUME pc \in [Tasks -> PC], ctx \in [Tasks -> CTX], Kinds, Ownership, Life,
         FastPath, Counters, [Next]_vars
  PROVE  ContractStep
<1> USE TasksAssumption DEF Goto, Jump, preempt_disable, preempt_enable,
      this_cpu_add, ReadLocked, Prodded, UnlockWaiters, semvars, rsp, rcuvars,
      queue, semrest, locals, rssvars, gpvars, rcu_read_unlock, wake_up,
      rcu_sync_enter, synchronize_rcu, rcu_sync_func, rcu_sync_call,
      prepare_to_wait_event, finish_wait, rcu_sync_exit, rcu_sync_dtor,
      rcu_callback, Tasks
<1>0. started' = started
  BY DEF Next, vars
<1>1. ASSUME NEW r \in Readers, NEW c \in CPUS, NEW k \in {"first", "try"},
             down_read(r, c, k)
      PROVE  ContractStep
  <2>1. ASSUME NEW q \in Readers PROVE HoldsRead(q)' <=> HoldsRead(q)
    BY <1>1 DEF down_read, HoldsRead, ReadPc, Kinds, TryPc
  <2>2. ASSUME NEW v \in Writers PROVE pc'[v] = "write" <=> pc[v] = "write"
    BY <1>1 DEF down_read, Kinds
  <2> QED BY <2>1, <2>2, ContractSame
<1>2. ASSUME NEW r \in Readers, fast_inc(r) PROVE ContractStep
  <2>1. /\ pc[r] = "fast_inc" /\ pc' = [pc EXCEPT ![r] = "read"]
        /\ ctx' = [ctx EXCEPT ![r] = "none"]
    BY <1>2 DEF fast_inc
  <2>2. gp_state \in {GP_IDLE, GP_ENTER}
    BY <2>1 DEF FastPath, FastPc
  <2>3. ~(gp_state >= GP_PASSED)
    BY <2>2 DEF GP_PASSED, GP_IDLE, GP_ENTER
  <2>4. \A w \in Writers : pc[w] # "write" /\ pc'[w] # "write"
    BY <2>1, <2>3 DEF FastPath, EnteredPc
  <2>5. HoldsRead(r)' /\ \A q \in Readers \ {r} : HoldsRead(q)' <=> HoldsRead(q)
    BY <2>1 DEF HoldsRead, ReadPc
  <2> QED BY <2>4, <2>5, ContractReadLock
<1>3. ASSUME NEW r \in Readers, NEW c \in CPUS, up_read(r, c) PROVE ContractStep
  <2>1. ASSUME NEW q \in Readers PROVE HoldsRead(q)' <=> HoldsRead(q)
    BY <1>3 DEF up_read, HoldsRead, ReadPc, Kinds, TryPc
  <2>2. ASSUME NEW v \in Writers PROVE pc'[v] = "write" <=> pc[v] = "write"
    BY <1>3 DEF up_read, Kinds
  <2> QED BY <2>1, <2>2, ContractSame
<1>4. ASSUME NEW r \in Readers, fast_dec(r) PROVE ContractStep
  <2>1. /\ pc[r] = "fast_dec" /\ pc' = [pc EXCEPT ![r] = "idle"]
        /\ ctx' = [ctx EXCEPT ![r] = "none"]
    BY <1>4 DEF fast_dec
  <2>2. /\ HoldsRead(r) /\ ~HoldsRead(r)'
        /\ \A q \in Readers \ {r} : HoldsRead(q)' <=> HoldsRead(q)
        /\ \A w \in Writers : pc'[w] = "write" <=> pc[w] = "write"
    BY <2>1 DEF HoldsRead, ReadPc
  <2> QED BY <2>2, ContractReadUnlock
<1>5. ASSUME NEW r \in Readers, NEW c \in CPUS, wait_lock_reader(r, c)
      PROVE  ContractStep
  <2>1. ASSUME NEW q \in Readers PROVE HoldsRead(q)' <=> HoldsRead(q)
    BY <1>5 DEF wait_lock_reader, HoldsRead, ReadPc, Kinds, TryPc
  <2>2. ASSUME NEW v \in Writers PROVE pc'[v] = "write" <=> pc[v] = "write"
    BY <1>5 DEF wait_lock_reader, Kinds
  <2> QED BY <2>1, <2>2, ContractSame
<1>6. ASSUME NEW t \in Tasks, inc(t) PROVE ContractStep
  <2>1. ASSUME NEW q \in Readers PROVE HoldsRead(q)' <=> HoldsRead(q)
    BY <1>6 DEF inc, HoldsRead, ReadPc, Kinds, TryPc
  <2>2. ASSUME NEW v \in Writers PROVE pc'[v] = "write" <=> pc[v] = "write"
    BY <1>6 DEF inc, Kinds
  <2> QED BY <2>1, <2>2, ContractSame
<1>7. ASSUME NEW t \in Tasks, test_block(t) PROVE ContractStep
  <2>1. pc[t] = "block"
    BY <1>7 DEF test_block
  <2>2. CASE block = 0 /\ ctx[t] # "wake"
    <3>1. /\ t \in Readers /\ pc' = [pc EXCEPT ![t] = "read"]
          /\ ctx' = [ctx EXCEPT ![t] = "none"]
      BY <1>7, <2>1, <2>2 DEF test_block, Kinds, TryPc
    <3>2. \A w \in Writers : pc[w] # "write" /\ pc'[w] # "write"
      BY <2>2, <3>1 DEF Ownership, Owns
    <3>3. /\ HoldsRead(t)'
          /\ \A q \in Readers \ {t} : HoldsRead(q)' <=> HoldsRead(q)
      BY <3>1 DEF HoldsRead, ReadPc
    <3> QED BY <3>1, <3>2, <3>3, ContractReadLock
  <2>3. CASE ~(block = 0 /\ ctx[t] # "wake")
    <3>1. \E l \in {"wake_process", "dec"} :
            /\ pc' = [pc EXCEPT ![t] = l]
            /\ ctx' \in {ctx, [ctx EXCEPT ![t] = "none"]}
            /\ l = "dec" => ctx' = ctx
      BY <1>7, <2>1, <2>3 DEF test_block
    <3>2. ctx[t] # "up"
      BY <2>1 DEF Kinds, TryPc
    <3>3. \A q \in Readers : HoldsRead(q)' <=> HoldsRead(q)
      BY <2>1, <3>1, <3>2 DEF HoldsRead, ReadPc
    <3>4. \A w \in Writers : pc'[w] = "write" <=> pc[w] = "write"
      BY <2>1, <3>1
    <3> QED BY <3>3, <3>4, ContractSame
  <2> QED BY <2>2, <2>3
<1>8. ASSUME NEW t \in Tasks, dec(t) PROVE ContractStep
  <2>1. pc[t] = "dec" /\ pc' = [pc EXCEPT ![t] = "prod"] /\ ctx' = ctx
    BY <1>8 DEF dec
  <2>2. \A w \in Writers : pc'[w] = "write" <=> pc[w] = "write"
    BY <2>1
  <2>3. CASE ctx[t] = "up"
    <3>1. t \in Readers
      BY <2>1, <2>3 DEF Kinds, TryPc
    <3>2. /\ HoldsRead(t) /\ ~HoldsRead(t)'
          /\ \A q \in Readers \ {t} : HoldsRead(q)' <=> HoldsRead(q)
      BY <2>1, <2>3, <3>1 DEF HoldsRead, ReadPc
    <3> QED BY <2>2, <3>1, <3>2, ContractReadUnlock
  <2>4. CASE ctx[t] # "up"
    <3>1. \A q \in Readers : HoldsRead(q)' <=> HoldsRead(q)
      BY <2>1, <2>4 DEF HoldsRead, ReadPc
    <3> QED BY <2>2, <3>1, ContractSame
  <2> QED BY <2>3, <2>4
<1>9. ASSUME NEW t \in Tasks, prod(t) PROVE ContractStep
  <2>1. ASSUME NEW q \in Readers PROVE HoldsRead(q)' <=> HoldsRead(q)
    BY <1>9 DEF prod, HoldsRead, ReadPc, Kinds, TryPc
  <2>2. ASSUME NEW v \in Writers PROVE pc'[v] = "write" <=> pc[v] = "write"
    BY <1>9 DEF prod, Kinds
  <2> QED BY <2>1, <2>2, ContractSame
<1>10. ASSUME NEW t \in Tasks, prod_wake(t) PROVE ContractStep
  <2>1. ASSUME NEW q \in Readers PROVE HoldsRead(q)' <=> HoldsRead(q)
    BY <1>10 DEF prod_wake, HoldsRead, ReadPc, Kinds, TryPc
  <2>2. ASSUME NEW v \in Writers PROVE pc'[v] = "write" <=> pc[v] = "write"
    BY <1>10 DEF prod_wake, Kinds
  <2> QED BY <2>1, <2>2, ContractSame
<1>11. ASSUME NEW t \in Tasks, set_state(t) PROVE ContractStep
  <2>1. ASSUME NEW q \in Readers PROVE HoldsRead(q)' <=> HoldsRead(q)
    BY <1>11 DEF set_state, HoldsRead, ReadPc, Kinds, TryPc
  <2>2. ASSUME NEW v \in Writers PROVE pc'[v] = "write" <=> pc[v] = "write"
    BY <1>11 DEF set_state, Kinds
  <2> QED BY <2>1, <2>2, ContractSame
<1>12. ASSUME NEW t \in Tasks, check(t) PROVE ContractStep
  <2>1. /\ pc[t] = "check" /\ ctx' = ctx
        /\ \E l \in {"read", "prepare", "asleep"} :
          /\ pc' = [pc EXCEPT ![t] = l]
          /\ l = "read" => t \in Readers /\ t \notin Waiting
    BY <1>12 DEF check
  <2>2. CASE pc'[t] = "read"
    <3>1. t \in Readers /\ t \notin Waiting /\ pc' = [pc EXCEPT ![t] = "read"]
      BY <2>1, <2>2
    <3>2. t \in Holders
      BY <2>1, <3>1 DEF Holders, Holder, WaitPc
    <3>3. \A w \in Writers : pc[w] # "write"
      BY <3>2, WriterAlone
    <3>4. \A w \in Writers : pc'[w] # "write"
      BY <3>1, <3>3
    <3>5. /\ HoldsRead(t)'
          /\ \A q \in Readers \ {t} : HoldsRead(q)' <=> HoldsRead(q)
      BY <2>1, <3>1 DEF HoldsRead, ReadPc
    <3> QED BY <3>1, <3>3, <3>4, <3>5, ContractReadLock
  <2>3. CASE pc'[t] # "read"
    <3>1. \A q \in Readers : HoldsRead(q)' <=> HoldsRead(q)
      BY <2>1, <2>3 DEF HoldsRead, ReadPc
    <3>2. \A w \in Writers : pc'[w] = "write" <=> pc[w] = "write"
      BY <2>1
    <3> QED BY <3>1, <3>2, ContractSame
  <2> QED BY <2>2, <2>3
<1>13. ASSUME NEW t \in Tasks, schedule(t, "asleep", "set_state")
       PROVE  ContractStep
  <2>1. ASSUME NEW q \in Readers PROVE HoldsRead(q)' <=> HoldsRead(q)
    BY <1>13 DEF schedule, HoldsRead, ReadPc, Kinds, TryPc
  <2>2. ASSUME NEW v \in Writers PROVE pc'[v] = "write" <=> pc[v] = "write"
    BY <1>13 DEF schedule, Kinds
  <2> QED BY <2>1, <2>2, ContractSame
<1>14. ASSUME NEW w \in Writers, down_write(w) PROVE ContractStep
  <2>1. ASSUME NEW q \in Readers PROVE HoldsRead(q)' <=> HoldsRead(q)
    BY <1>14 DEF down_write, HoldsRead, ReadPc, Kinds, TryPc
  <2>2. ASSUME NEW v \in Writers PROVE pc'[v] = "write" <=> pc[v] = "write"
    BY <1>14 DEF down_write, Kinds
  <2> QED BY <2>1, <2>2, ContractSame
<1>15. ASSUME NEW w \in Writers, free_rwsem(w) PROVE ContractStep
  <2>1. ASSUME NEW q \in Readers PROVE HoldsRead(q)' <=> HoldsRead(q)
    BY <1>15 DEF free_rwsem, HoldsRead, ReadPc, Kinds, TryPc
  <2>2. ASSUME NEW v \in Writers PROVE pc'[v] = "write" <=> pc[v] = "write"
    BY <1>15 DEF free_rwsem, Kinds
  <2> QED BY <2>1, <2>2, ContractSame
<1>16. ASSUME NEW w \in Writers, sync(w) PROVE ContractStep
  <2>1. ASSUME NEW q \in Readers PROVE HoldsRead(q)' <=> HoldsRead(q)
    BY <1>16 DEF sync, HoldsRead, ReadPc, Kinds, TryPc
  <2>2. ASSUME NEW v \in Writers PROVE pc'[v] = "write" <=> pc[v] = "write"
    BY <1>16 DEF sync, Kinds
  <2> QED BY <2>1, <2>2, ContractSame
<1>17. ASSUME NEW w \in Writers, gp_cond(w) PROVE ContractStep
  <2>1. ASSUME NEW q \in Readers PROVE HoldsRead(q)' <=> HoldsRead(q)
    BY <1>17 DEF gp_cond, HoldsRead, ReadPc, Kinds, TryPc
  <2>2. ASSUME NEW v \in Writers PROVE pc'[v] = "write" <=> pc[v] = "write"
    BY <1>17 DEF gp_cond, Kinds
  <2> QED BY <2>1, <2>2, ContractSame
<1>18. ASSUME NEW w \in Writers, gp_prepare(w) PROVE ContractStep
  <2>1. ASSUME NEW q \in Readers PROVE HoldsRead(q)' <=> HoldsRead(q)
    BY <1>18 DEF gp_prepare, HoldsRead, ReadPc, Kinds, TryPc
  <2>2. ASSUME NEW v \in Writers PROVE pc'[v] = "write" <=> pc[v] = "write"
    BY <1>18 DEF gp_prepare, Kinds
  <2> QED BY <2>1, <2>2, ContractSame
<1>19. ASSUME NEW w \in Writers, gp_check(w) PROVE ContractStep
  <2>1. ASSUME NEW q \in Readers PROVE HoldsRead(q)' <=> HoldsRead(q)
    BY <1>19 DEF gp_check, HoldsRead, ReadPc, Kinds, TryPc
  <2>2. ASSUME NEW v \in Writers PROVE pc'[v] = "write" <=> pc[v] = "write"
    BY <1>19 DEF gp_check, Kinds
  <2> QED BY <2>1, <2>2, ContractSame
<1>20. ASSUME NEW w \in Writers, schedule(w, "gp_asleep", "gp_prepare")
       PROVE  ContractStep
  <2>1. ASSUME NEW q \in Readers PROVE HoldsRead(q)' <=> HoldsRead(q)
    BY <1>20 DEF schedule, HoldsRead, ReadPc, Kinds, TryPc
  <2>2. ASSUME NEW v \in Writers PROVE pc'[v] = "write" <=> pc[v] = "write"
    BY <1>20 DEF schedule, Kinds
  <2> QED BY <2>1, <2>2, ContractSame
<1>21. ASSUME NEW w \in Writers, try_block(w) PROVE ContractStep
  <2>1. ASSUME NEW q \in Readers PROVE HoldsRead(q)' <=> HoldsRead(q)
    BY <1>21 DEF try_block, HoldsRead, ReadPc, Kinds, TryPc
  <2>2. ASSUME NEW v \in Writers PROVE pc'[v] = "write" <=> pc[v] = "write"
    BY <1>21 DEF try_block, Kinds
  <2> QED BY <2>1, <2>2, ContractSame
<1>22. ASSUME NEW w \in Writers, wait_lock_writer(w) PROVE ContractStep
  <2>1. ASSUME NEW q \in Readers PROVE HoldsRead(q)' <=> HoldsRead(q)
    BY <1>22 DEF wait_lock_writer, HoldsRead, ReadPc, Kinds, TryPc
  <2>2. ASSUME NEW v \in Writers PROVE pc'[v] = "write" <=> pc[v] = "write"
    BY <1>22 DEF wait_lock_writer, Kinds
  <2> QED BY <2>1, <2>2, ContractSame
<1>23. ASSUME NEW w \in Writers, prepare_to_rcuwait(w) PROVE ContractStep
  <2>1. ASSUME NEW q \in Readers PROVE HoldsRead(q)' <=> HoldsRead(q)
    BY <1>23 DEF prepare_to_rcuwait, HoldsRead, ReadPc, Kinds, TryPc
  <2>2. ASSUME NEW v \in Writers PROVE pc'[v] = "write" <=> pc[v] = "write"
    BY <1>23 DEF prepare_to_rcuwait, Kinds
  <2> QED BY <2>1, <2>2, ContractSame
<1>24. ASSUME NEW w \in Writers, rcuwait(w) PROVE ContractStep
  <2>1. ASSUME NEW q \in Readers PROVE HoldsRead(q)' <=> HoldsRead(q)
    BY <1>24 DEF rcuwait, HoldsRead, ReadPc, Kinds, TryPc
  <2>2. ASSUME NEW v \in Writers PROVE pc'[v] = "write" <=> pc[v] = "write"
    BY <1>24 DEF rcuwait, Kinds
  <2> QED BY <2>1, <2>2, ContractSame
<1>25. ASSUME NEW w \in Writers, per_cpu_sum(w) PROVE ContractStep
  <2>1. ASSUME NEW q \in Readers PROVE HoldsRead(q)' <=> HoldsRead(q)
    BY <1>25 DEF per_cpu_sum, HoldsRead, ReadPc, Kinds, TryPc
  <2>2. ASSUME NEW v \in Writers PROVE pc'[v] = "write" <=> pc[v] = "write"
    BY <1>25 DEF per_cpu_sum, Kinds
  <2> QED BY <2>1, <2>2, ContractSame
<1>26. ASSUME NEW w \in Writers, finish_rcuwait(w) PROVE ContractStep
  <2>1. pc[w] = "finish" /\ pc' = [pc EXCEPT ![w] = "write"] /\ ctx' = ctx
    BY <1>26 DEF finish_rcuwait
  <2>2. Holders = {}
    BY <2>1, WriterAlone
  <2>3. \A r \in Readers : ~HoldsRead(r) /\ ~HoldsRead(r)'
    BY <2>1, <2>2 DEF Holders, Holder, HoldsRead, ReadPc
  <2>4. \A v \in Writers \ {w} : pc[v] # "write" /\ pc'[v] # "write"
    BY <2>1 DEF Ownership, Owns, RcuwaitPc
  <2>5. /\ {r \in Readers : HoldsRead(r)} = {}
        /\ {r \in Readers : HoldsRead(r)}' = {}
        /\ {v \in Writers : pc[v] = "write"} = {}
        /\ {v \in Writers : pc[v] = "write"}' = {w}
    BY <2>1, <2>3, <2>4
  <2>6. Contract!write_lock(w)
    BY <2>5 DEF Contract!write_lock
  <2> QED BY <2>6 DEF ContractStep, Contract!Next
<1>27. ASSUME NEW w \in Writers, schedule(w, "rcuwait_asleep", "rcuwait")
       PROVE  ContractStep
  <2>1. ASSUME NEW q \in Readers PROVE HoldsRead(q)' <=> HoldsRead(q)
    BY <1>27 DEF schedule, HoldsRead, ReadPc, Kinds, TryPc
  <2>2. ASSUME NEW v \in Writers PROVE pc'[v] = "write" <=> pc[v] = "write"
    BY <1>27 DEF schedule, Kinds
  <2> QED BY <2>1, <2>2, ContractSame
<1>28. ASSUME NEW w \in Writers, up_write(w) PROVE ContractStep
  <2>1. pc[w] = "write" /\ pc' = [pc EXCEPT ![w] = "wake_lock"] /\ ctx' = ctx
    BY <1>28 DEF up_write
  <2>2. \A v \in Writers \ {w} : pc[v] # "write"
    BY <2>1 DEF Ownership, Owns
  <2>3. \A r \in Readers : HoldsRead(r)' <=> HoldsRead(r)
    BY <2>1 DEF HoldsRead, ReadPc
  <2>4. /\ {r \in Readers : HoldsRead(r)}' = {r \in Readers : HoldsRead(r)}
        /\ w \in {v \in Writers : pc[v] = "write"}
        /\ {v \in Writers : pc[v] = "write"}' = {}
    BY <2>1, <2>2, <2>3
  <2>5. Contract!write_unlock(w)
    BY <2>4 DEF Contract!write_unlock
  <2> QED BY <2>5 DEF ContractStep, Contract!Next
<1>29. ASSUME NEW w \in Writers, wake_next(w) PROVE ContractStep
  <2>1. ASSUME NEW q \in Readers PROVE HoldsRead(q)' <=> HoldsRead(q)
    BY <1>29 DEF wake_next, HoldsRead, ReadPc, Kinds, TryPc
  <2>2. ASSUME NEW v \in Writers PROVE pc'[v] = "write" <=> pc[v] = "write"
    BY <1>29 DEF wake_next, Kinds
  <2> QED BY <2>1, <2>2, ContractSame
<1>30. ASSUME NEW w \in Writers, wake_process(w) PROVE ContractStep
  <2>1. ASSUME NEW q \in Readers PROVE HoldsRead(q)' <=> HoldsRead(q)
    BY <1>30 DEF wake_process, HoldsRead, ReadPc, Kinds, TryPc
  <2>2. ASSUME NEW v \in Writers PROVE pc'[v] = "write" <=> pc[v] = "write"
    BY <1>30 DEF wake_process, Kinds
  <2> QED BY <2>1, <2>2, ContractSame
<1>31. ASSUME NEW w \in Writers, exit(w) PROVE ContractStep
  <2>1. ASSUME NEW q \in Readers PROVE HoldsRead(q)' <=> HoldsRead(q)
    BY <1>31 DEF exit, HoldsRead, ReadPc, Kinds, TryPc
  <2>2. ASSUME NEW v \in Writers PROVE pc'[v] = "write" <=> pc[v] = "write"
    BY <1>31 DEF exit, Kinds
  <2> QED BY <2>1, <2>2, ContractSame
<1>32. ASSUME NEW w \in Writers, rcu_barrier(w) PROVE ContractStep
  <2>1. ASSUME NEW q \in Readers PROVE HoldsRead(q)' <=> HoldsRead(q)
    BY <1>32 DEF rcu_barrier, HoldsRead, ReadPc, Kinds, TryPc
  <2>2. ASSUME NEW v \in Writers PROVE pc'[v] = "write" <=> pc[v] = "write"
    BY <1>32 DEF rcu_barrier, Kinds
  <2> QED BY <2>1, <2>2, ContractSame
<1>33. ASSUME NEW w \in Writers, init_rwsem(w) PROVE ContractStep
  <2>1. ASSUME NEW q \in Readers PROVE HoldsRead(q)' <=> HoldsRead(q)
    BY <1>33 DEF init_rwsem, HoldsRead, ReadPc, Kinds, TryPc
  <2>2. ASSUME NEW v \in Writers PROVE pc'[v] = "write" <=> pc[v] = "write"
    BY <1>33 DEF init_rwsem, Kinds
  <2> QED BY <2>1, <2>2, ContractSame
<1>34. ASSUME NEW w \in Writers, NEW c \in CPUS, wake_lock(w, c)
       PROVE  ContractStep
  <2>1. ASSUME NEW q \in Readers PROVE HoldsRead(q)' <=> HoldsRead(q)
    BY <1>34 DEF wake_lock, HoldsRead, ReadPc, Kinds, TryPc
  <2>2. ASSUME NEW v \in Writers PROVE pc'[v] = "write" <=> pc[v] = "write"
    BY <1>34 DEF wake_lock, Kinds
  <2> QED BY <2>1, <2>2, ContractSame
<1>35. ASSUME callback PROVE ContractStep
  <2>1. ASSUME NEW q \in Readers PROVE HoldsRead(q)' <=> HoldsRead(q)
    BY <1>35 DEF callback, HoldsRead, ReadPc, Kinds, TryPc
  <2>2. ASSUME NEW v \in Writers PROVE pc'[v] = "write" <=> pc[v] = "write"
    BY <1>35 DEF callback, Kinds
  <2> QED BY <2>1, <2>2, ContractSame
<1>36. CASE UNCHANGED vars
  <2>1. pc' = pc /\ ctx' = ctx
    BY <1>36 DEF vars
  <2> QED BY <2>1, ContractSame DEF HoldsRead
<1> HIDE DEF Goto, Jump, preempt_disable, preempt_enable, this_cpu_add,
      ReadLocked, Prodded, UnlockWaiters, semvars, rsp, rcuvars, queue, semrest,
      locals, rssvars, gpvars, rcu_read_unlock, wake_up, rcu_sync_enter,
      synchronize_rcu, rcu_sync_func, rcu_sync_call, prepare_to_wait_event,
      finish_wait, rcu_sync_exit, rcu_sync_dtor, rcu_callback, Tasks
<1> QED BY <1>1, <1>2, <1>3, <1>4, <1>5, <1>6, <1>7, <1>8, <1>9, <1>10, <1>11,
      <1>12, <1>13, <1>14, <1>15, <1>16, <1>17, <1>18, <1>19, <1>20, <1>21,
      <1>22, <1>23, <1>24, <1>25, <1>26, <1>27, <1>28, <1>29, <1>30, <1>31,
      <1>32, <1>33, <1>34, <1>35, <1>36 DEF Next, Start, Continue,
      trylock_step, wait_step, reader_step, writer_step, Tasks

\* Readers on the fast path, readers on the slow path and readers let in by a
\* waker never meet a writer, and two writers never meet: every step of
\* percpu-rwsem.c is a step of RwLockSpec or invisible to its users.
THEOREM RwLockImplemented ==
  ASSUME CountersFit
  PROVE  Spec => ImplementsRwLock
<1>1. Init => Contract!Init
  <2> SUFFICES ASSUME Init PROVE Contract!Init
    OBVIOUS
  <2>1. /\ {r \in Readers : HoldsRead(r)} = {}
        /\ {w \in Writers : pc[w] = "write"} = {}
    BY DEF Init, HoldsRead, ReadPc, Tasks
  <2> QED BY <2>1 DEF Contract!Init
<1>2. Inv /\ Counters /\ [Next]_vars => [Contract!Next]_(Contract!vars)
  <2> SUFFICES ASSUME Inv, Counters, [Next]_vars PROVE ContractStep
    BY DEF ContractStep
  <2>1. pc \in [Tasks -> PC] /\ ctx \in [Tasks -> CTX]
    BY DEF Inv, TypeTask, CTX
  <2> QED BY <2>1, Refines DEF Inv
<1> QED BY <1>1, <1>2, InvHolds, CountersHold, PTL
        DEF Spec, ImplementsRwLock, Contract!Spec

-----------------------------------------------------------------------------
(***************************************************************************)
(* What the sum of the counters is.                                         *)
(***************************************************************************)
\* A set of natural numbers has a least element.
LEMMA Least ==
  ASSUME NEW S \in SUBSET Nat, S # {}
  PROVE  \E n \in S : \A m \in S : n <= m
<1>1. PICK x \in S : \A y \in S : ~(<<y, x>> \in OpToRel(<, Nat))
  BY NatLessThanWellFounded, WFMin
<1>2. \A y \in S : ~(y < x)
  BY <1>1 DEF OpToRel
<1> QED BY <1>2

\* What holds before CPU 1 and carries over from CPU to CPU holds of all.
LEMMA CpuInduction ==
  ASSUME NEW S \in SUBSET (0 .. NR_CPUS), 0 \in S,
         \A c \in CPUS : c - 1 \in S => c \in S
  PROVE  S = 0 .. NR_CPUS
<1> SUFFICES ASSUME (0 .. NR_CPUS) \ S # {} PROVE FALSE
  OBVIOUS
<1>1. PICK n \in (0 .. NR_CPUS) \ S : \A m \in (0 .. NR_CPUS) \ S : n <= m
  <2>1. (0 .. NR_CPUS) \ S \in SUBSET Nat
    BY PercpuAssumption
  <2> QED BY <2>1, Least
<1>2. n \in CPUS /\ n - 1 \in 0 .. NR_CPUS
  BY PercpuAssumption DEF CPUS
<1>3. n - 1 \in S
  BY <1>1, <1>2, PercpuAssumption
<1> QED BY <1>2, <1>3

\* At most one task passes on a CPU.
LEMMA PassingBound ==
  ASSUME NEW g \in [0 .. NR_CPUS -> Int], NEW e \in [0 .. NR_CPUS -> Int],
         Counted(g, e)
  PROVE  e[NR_CPUS] \in 0 .. NR_CPUS
<1> DEFINE S == {c \in 0 .. NR_CPUS : e[c] \in 0 .. c}
<1>1. 0 \in S
  BY PercpuAssumption DEF Counted
<1>2. ASSUME NEW c \in CPUS, c - 1 \in S PROVE c \in S
  <2>1. c \in 0 .. NR_CPUS /\ c \in Int /\ e[c] = e[c - 1] + Passing(c)
    BY CpuBounds DEF Counted
  <2>0. Passing(c) \in 0 .. 1
    BY DEF Passing
  <2>2. PICK p \in 0 .. 1, a \in Int : p = Passing(c) /\ a = e[c - 1]
    BY <1>2, <2>0
  <2>3. a \in 0 .. c - 1 /\ e[c] = a + p
    BY <1>2, <2>1, <2>2
  <2>4. e[c] \in 0 .. c
    BY <2>1, <2>2, <2>3
  <2> QED BY <2>1, <2>4
<1>3. S = 0 .. NR_CPUS
  BY <1>1, <1>2, CpuInduction
<1>4. NR_CPUS \in S
  BY <1>3, PercpuAssumption
<1> QED BY <1>4

\* The modular sum counts the holders and those that are passing.
LEMMA ActiveReadersCounted ==
  ASSUME NEW g \in [0 .. NR_CPUS -> Int], NEW e \in [0 .. NR_CPUS -> Int],
         Counted(g, e)
  PROVE  ActiveReaders = (g[NR_CPUS] + e[NR_CPUS]) % Mod
<1> DEFINE F(f) == [c \in 0 .. NR_CPUS |->
                      IF c = 0 THEN 0 ELSE (f[c - 1] + read_count[c]) % Mod]
           s == CHOOSE f : f = F(f)
           h == [c \in 0 .. NR_CPUS |-> (g[c] + e[c]) % Mod]
<1>1. ActiveReaders = s[NR_CPUS]
  BY DEF ActiveReaders
<1>2. ASSUME NEW c \in CPUS
      PROVE  (((g[c - 1] + e[c - 1]) % Mod) + read_count[c]) % Mod = (g[c] + e[c]) % Mod
  <2>1. /\ g[c] \in Int /\ g[c - 1] \in Int /\ e[c] \in Int /\ e[c - 1] \in Int
    BY CpuBounds
  <2>2. PICK a \in Int, b \in Int, u \in Int, v \in Int, p \in Int :
          /\ a = g[c] /\ b = g[c - 1] /\ u = e[c] /\ v = e[c - 1]
          /\ p = Passing(c)
    <3>1. Passing(c) \in Int
      BY DEF Passing
    <3> QED BY <2>1, <3>1
  <2>3. read_count[c] = (a - b + p) % Mod /\ u = v + p
    BY <2>2 DEF Counted
  <2>4. PICK x \in Int, y \in Int : x = b + v /\ y = a - b + p
    OBVIOUS
  <2>5. x + y = a + u /\ Mod \in Nat \ {0}
    BY <2>3, <2>4, PercpuAssumption
  <2> HIDE DEF Mod
  <2>6. x % Mod \in Int /\ y % Mod \in Int
    BY <2>5, ModRange
  <2>7. ((x % Mod) + (y % Mod)) % Mod = (x + (y % Mod)) % Mod
    BY <2>5, <2>6, ModAdd
  <2>8. ((y % Mod) + x) % Mod = (y + x) % Mod
    BY <2>5, ModAdd
  <2>9. (y % Mod) + x = x + (y % Mod) /\ y + x = x + y
    BY <2>6
  <2>10. (g[c - 1] + e[c - 1]) % Mod = x % Mod /\ read_count[c] = y % Mod
    BY <2>2, <2>3, <2>4
  <2>11. (g[c] + e[c]) % Mod = (x + y) % Mod
    BY <2>2, <2>5
  <2> QED BY <2>7, <2>8, <2>9, <2>10, <2>11
<1>3. (g[0] + e[0]) % Mod = 0
  <2>1. 0 % Mod = 0 /\ g[0] = 0 /\ e[0] = 0 /\ 0 + 0 = 0
    BY ModSmall, PercpuAssumption DEF Counted
  <2> HIDE DEF Mod
  <2> QED BY <2>1
<1>4. ASSUME NEW c \in 0 .. NR_CPUS, c # 0
      PROVE  c \in CPUS /\ c - 1 \in 0 .. NR_CPUS
  BY <1>4, PercpuAssumption DEF CPUS
<1> HIDE DEF Mod
<1>5. h = F(h)
  <2>1. ASSUME NEW c \in 0 .. NR_CPUS
        PROVE  h[c] = IF c = 0 THEN 0 ELSE (h[c - 1] + read_count[c]) % Mod
    <3>1. CASE c = 0
      BY <1>3, <3>1
    <3>2. CASE c # 0
      <4>1. h[c - 1] = (g[c - 1] + e[c - 1]) % Mod /\ h[c] = (g[c] + e[c]) % Mod
        BY <1>4, <3>2
      <4> QED BY <1>2, <1>4, <3>2, <4>1
    <3> QED BY <3>1, <3>2
  <2> QED BY <2>1
<1>6. s = F(s)
  BY <1>5
<1> HIDE DEF s
<1>7. s[0] = 0 /\ \A c \in CPUS : s[c] = (s[c - 1] + read_count[c]) % Mod
  <2>1. ASSUME NEW c \in 0 .. NR_CPUS
        PROVE  s[c] = IF c = 0 THEN 0 ELSE (s[c - 1] + read_count[c]) % Mod
    BY <1>6
  <2>2. 0 \in 0 .. NR_CPUS /\ \A c \in CPUS : c \in 0 .. NR_CPUS /\ c # 0
    BY PercpuAssumption DEF CPUS
  <2> QED BY <2>1, <2>2
<1> DEFINE S == {c \in 0 .. NR_CPUS : s[c] = (g[c] + e[c]) % Mod}
<1>8. 0 \in S
  BY <1>3, <1>7, PercpuAssumption
<1>9. ASSUME NEW c \in CPUS, c - 1 \in S PROVE c \in S
  BY <1>2, <1>7, <1>9, CpuBounds
<1>10. NR_CPUS \in S
  <2>1. S \in SUBSET (0 .. NR_CPUS) /\ NR_CPUS \in 0 .. NR_CPUS
    BY PercpuAssumption
  <2> HIDE DEF S
  <2> QED BY <1>8, <1>9, <2>1, CpuInduction
<1> QED BY <1>1, <1>10

\* Nobody sleeps for good in percpu_rwsem_wait(), in rcuwait_wait_event() or in
\* rcu_sync_enter(): somebody is on the way to wake them, also when the last
\* reader was one that only backed out of __percpu_down_read_trylock().
THEOREM NoWakeupLost ==
  ASSUME CountersFit
  PROVE  Spec => []NoLostWakeup
<1>1. Inv /\ Counters => NoLostWakeup
  <2> SUFFICES ASSUME Inv, Counters PROVE NoLostWakeup
    OBVIOUS
  <2>1. waiters # <<>> /\ block = 0 => \E w \in Writers : WillWake(w)
    BY DEF Inv, Wakers, NeedsWaker
  <2>2. \A t \in Tasks :
          Asleep(t, "asleep") /\ t \notin Waiting =>
            \E w \in Writers : pc[w] = "wake_process" /\ seen[w] = t
    BY DEF Inv, Granted
  <2>3. \A w \in Writers : Asleep(w, "gp_asleep") => ~gp_passed
    BY DEF Inv, GpSleepers
  <2>4. ASSUME NEW w \in Writers, Asleep(w, "rcuwait_asleep"),
               ActiveReaders = 0,
               \A t \in Tasks : pc[t] # "prod" /\ ~(pc[t] = "prod_wake" /\ seen[t] = w)
        PROVE  FALSE
    <3>1. PICK g \in [0 .. NR_CPUS -> Int], e \in [0 .. NR_CPUS -> Int] :
            Counted(g, e) /\ \A v \in Writers : Scanned(v, g, e)
      BY DEF Counters
    <3>2. g[NR_CPUS] + e[NR_CPUS] > 0
      BY <2>4, <3>1 DEF Scanned, Unprodded, Asleep
    <3>3. g[NR_CPUS] = Cardinality(Holders) /\ e[NR_CPUS] \in 0 .. NR_CPUS
      BY <3>1, PassingBound DEF Counted
    <3>4. PICK n \in Nat : n = g[NR_CPUS] + e[NR_CPUS]
      BY <3>3, HoldersFinite, PercpuAssumption
    <3>5. n \in 0 .. Mod - 1
      <4>1. PICK a \in Int, b \in Int, z \in Int, m \in Int :
              /\ a = g[NR_CPUS] /\ b = e[NR_CPUS]
              /\ z = Cardinality(Readers) /\ m = Mod
        BY <3>3, HoldersFinite, PercpuAssumption
      <4>2. a <= z /\ b <= NR_CPUS /\ z + NR_CPUS < m
        BY <3>3, <4>1, HoldersFinite, PercpuAssumption DEF CountersFit
      <4> HIDE DEF Mod
      <4> QED BY <3>4, <4>1, <4>2, PercpuAssumption
    <3>6. n % Mod = n
      BY <3>5, ModSmall, PercpuAssumption
    <3>7. ActiveReaders = n % Mod
      BY <3>1, <3>4, ActiveReadersCounted
    <3> HIDE DEF Mod
    <3> QED BY <2>4, <3>2, <3>4, <3>6, <3>7
  <2> QED BY <2>1, <2>2, <2>3, <2>4 DEF NoLostWakeup
<1> QED BY <1>1, InvHolds, CountersHold, PTL
=============================================================================
