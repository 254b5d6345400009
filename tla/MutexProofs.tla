----------------------------- MODULE MutexProofs -----------------------------
(***************************************************************************)
(* Proofs about Mutex, for every set of tasks, of waiting modes and of      *)
(* signals.  Most steps move one task and leave the owner word and the wait *)
(* list alone, or are an acquisition: two lemmas say once and for all what  *)
(* such a step has to respect, and the proofs of the actions cite them.     *)
(***************************************************************************)
EXTENDS Mutex, TLAPS

-----------------------------------------------------------------------------
(***************************************************************************)
(* The wait list.                                                           *)
(***************************************************************************)
\* list_del() takes out t, keeps the order of the others, and so keeps the
\* first waiter unless that is t.
LEMMA ListDel ==
  ASSUME NEW s \in Seq(Tasks), NEW t \in Tasks,
         \A i, j \in 1 .. Len(s) : s[i] = s[j] => i = j,
         \E i \in 1 .. Len(s) : s[i] = t
  PROVE  /\ list_del(s, t) \in Seq(Tasks)
         /\ \A i, j \in 1 .. Len(list_del(s, t)) :
              list_del(s, t)[i] = list_del(s, t)[j] => i = j
         /\ {list_del(s, t)[i] : i \in 1 .. Len(list_del(s, t))}
              = {s[i] : i \in 1 .. Len(s)} \ {t}
         /\ Head(s) # t => list_del(s, t) # <<>> /\ Head(list_del(s, t)) = Head(s)
<1> DEFINE k == CHOOSE i \in 1 .. Len(s) : s[i] = t
           d == [j \in 1 .. Len(s) - 1 |-> IF j < k THEN s[j] ELSE s[j + 1]]
<1>1. k \in 1 .. Len(s) /\ s[k] = t
  OBVIOUS
<1>2. Len(s) \in Nat \ {0} /\ \A i \in 1 .. Len(s) : s[i] \in Tasks
  BY <1>1
<1>3. list_del(s, t) = d
  BY DEF list_del
<1> HIDE DEF k
<1>4. d \in Seq(Tasks) /\ Len(d) = Len(s) - 1
  BY <1>1, <1>2
<1>5. \A i, j \in 1 .. Len(d) : d[i] = d[j] => i = j
  BY <1>1, <1>2, <1>4
<1>6. {d[i] : i \in 1 .. Len(d)} = {s[i] : i \in 1 .. Len(s)} \ {t}
  <2>1. ASSUME NEW i \in 1 .. Len(d)
        PROVE  d[i] \in {s[j] : j \in 1 .. Len(s)} \ {t}
    BY <1>1, <1>2, <1>4, <2>1
  <2>2. ASSUME NEW i \in 1 .. Len(s), s[i] # t
        PROVE  s[i] \in {d[j] : j \in 1 .. Len(d)}
    <3>1. CASE i < k
      BY <1>1, <1>2, <1>4, <3>1
    <3>2. CASE i > k
      <4>1. i - 1 \in 1 .. Len(d) /\ d[i - 1] = s[i]
        BY <1>1, <1>2, <1>4, <3>2
      <4> QED BY <4>1
    <3>3. i < k \/ i > k
      BY <1>1, <1>2, <2>2
    <3> QED BY <3>1, <3>2, <3>3
  <2> HIDE DEF d
  <2> QED BY <2>1, <2>2
<1>7. Head(s) # t => d # <<>> /\ Head(d) = Head(s)
  <2> SUFFICES ASSUME Head(s) # t PROVE d # <<>> /\ Head(d) = Head(s)
    OBVIOUS
  <2>1. Head(s) = s[1] /\ k > 1
    BY <1>1, <1>2
  <2>2. 1 \in 1 .. Len(s) - 1 /\ d[1] = s[1]
    BY <1>1, <1>2, <2>1
  <2> HIDE DEF d
  <2>3. d \in Seq(Tasks) /\ Len(d) # 0
    BY <1>2, <1>4, <2>2
  <2>4. d # <<>> /\ Head(d) = d[1]
    BY <2>3
  <2> QED BY <2>1, <2>2, <2>4
<1> HIDE DEF d
<1>8. {list_del(s, t)[i] : i \in 1 .. Len(list_del(s, t))}
        = {s[i] : i \in 1 .. Len(s)} \ {t}
  BY <1>3, <1>6, Zenon
<1>9. \A i, j \in 1 .. Len(list_del(s, t)) :
              list_del(s, t)[i] = list_del(s, t)[j] => i = j
  BY <1>3, <1>5
<1> QED BY <1>3, <1>4, <1>7, <1>8, <1>9

\* A new waiter goes to the end.
LEMMA ListAdd ==
  ASSUME NEW s \in Seq(Tasks), NEW t \in Tasks,
         \A i, j \in 1 .. Len(s) : s[i] = s[j] => i = j,
         \A i \in 1 .. Len(s) : s[i] # t
  PROVE  /\ Append(s, t) \in Seq(Tasks)
         /\ \A i, j \in 1 .. Len(Append(s, t)) :
              Append(s, t)[i] = Append(s, t)[j] => i = j
         /\ {Append(s, t)[i] : i \in 1 .. Len(Append(s, t))}
              = {s[i] : i \in 1 .. Len(s)} \cup {t}
         /\ Append(s, t) # <<>>
         /\ Head(Append(s, t)) = IF s = <<>> THEN t ELSE Head(s)
<1> DEFINE a == Append(s, t)
<1>1. /\ a \in Seq(Tasks) /\ Len(a) = Len(s) + 1
      /\ \A i \in 1 .. Len(s) : a[i] = s[i]
      /\ a[Len(s) + 1] = t
      /\ Len(s) \in Nat
  OBVIOUS
<1> HIDE DEF a
<1>2. {a[i] : i \in 1 .. Len(a)} = {s[i] : i \in 1 .. Len(s)} \cup {t}
  <2>1. ASSUME NEW i \in 1 .. Len(a)
        PROVE  a[i] \in {s[j] : j \in 1 .. Len(s)} \cup {t}
    <3>1. i \in 1 .. Len(s) \/ i = Len(s) + 1
      BY <1>1, <2>1
    <3> QED BY <1>1, <3>1
  <2>2. ASSUME NEW i \in 1 .. Len(s)
        PROVE  s[i] \in {a[j] : j \in 1 .. Len(a)}
    <3>1. i \in 1 .. Len(a) /\ a[i] = s[i]
      BY <1>1, <2>2
    <3> QED BY <3>1
  <2>3. t \in {a[j] : j \in 1 .. Len(a)}
    <3>1. Len(a) \in 1 .. Len(a) /\ a[Len(a)] = t
      BY <1>1
    <3> QED BY <3>1
  <2>4. {a[i] : i \in 1 .. Len(a)} \subseteq {s[i] : i \in 1 .. Len(s)} \cup {t}
    BY <2>1
  <2>5. {s[i] : i \in 1 .. Len(s)} \subseteq {a[i] : i \in 1 .. Len(a)}
    BY <2>2
  <2> QED BY <2>3, <2>4, <2>5
<1>3. Len(a) # 0
  BY <1>1
<1>4. Head(a) = a[1] /\ a # <<>>
  BY <1>1, <1>3
<1>5. s # <<>> => Head(s) = s[1] /\ 1 \in 1 .. Len(s)
  OBVIOUS
<1>6. s = <<>> => Len(s) = 0
  OBVIOUS
<1>7. Head(a) = IF s = <<>> THEN t ELSE Head(s)
  BY <1>1, <1>4, <1>5, <1>6
<1>8. \A i, j \in 1 .. Len(a) : a[i] = a[j] => i = j
  BY <1>1
<1> QED BY <1>1, <1>2, <1>4, <1>7, <1>8 DEF a

\* The first waiter is on the list.
LEMMA FirstWaits ==
  ASSUME TypeOK, wait_list # <<>>
  PROVE  Head(wait_list) \in Tasks /\ Head(wait_list) \in Waiters
<1>1. wait_list \in Seq(Tasks) /\ 1 \in 1 .. Len(wait_list)
  BY DEF TypeOK
<1>2. Head(wait_list) = wait_list[1] /\ wait_list[1] \in Tasks
  BY <1>1
<1> QED BY <1>1, <1>2 DEF Waiters

-----------------------------------------------------------------------------
(***************************************************************************)
(* Steps that move one task.                                                *)
(***************************************************************************)
\* Where a task may end up asleep or leave without the mutex.
SleepPc == {"signal_check", "err", "schedule", "asleep"}

\* Only t moves, to l, and only t's local variables change.
Moves(t, l) ==
  /\ pc' = [pc EXCEPT ![t] = l]
  /\ mode' \in [Tasks -> MODES \cup {"none"}]
  /\ state' \in [Tasks -> MODES \cup {"TASK_RUNNING"}]
  /\ sig' \in [Tasks -> Signals]
  /\ first' \in [Tasks -> BOOLEAN]
  /\ seen' \in [Tasks -> Tasks \cup {NULL}]
  /\ \A u \in Tasks \ {t} : /\ mode'[u] = mode[u]
                            /\ sig'[u] = sig[u]
                            /\ state'[u] = state[u]

\* The wait_lock and the osq go with where t is.
Locks(t, l) ==
  /\ wait_lock' \in Tasks \cup {NULL}
  /\ osq' \in Tasks \cup {NULL}
  /\ \A u \in Tasks \ {t} : /\ wait_lock' = u <=> wait_lock = u
                            /\ osq' = u <=> osq = u
  /\ wait_lock' = t <=> l \in LockedPc
  /\ osq' = t <=> \/ l \in {"osq_unlock", "fail_unlock"}
                  \/ l \in SpinPc /\ t \notin Waiters

\* The wait list stays, and where t is goes with whether t is on it.
Queues(t, l) ==
  /\ UNCHANGED wait_list
  /\ l \in QueuedPc => t \in Waiters
  /\ t \in Waiters => l \in QueuedPc \cup SpinPc

\* The wakeups under way stay as they are.
KeepsWakeups(t, l) ==
  /\ UNCHANGED <<wake_q, wake_node>>
  /\ pc[t] \notin WakerPc /\ l \notin WakerPc

Step(t, l) == Moves(t, l) /\ Locks(t, l) /\ Queues(t, l) /\ KeepsWakeups(t, l)

\* A lock operation keeps its parameter, and fails for a reason.
KeepsMode(t, l) ==
  /\ l \in (QueuedPc \cup SpinPc \cup EnterPc) \ HoldingPc => mode'[t] \in MODES
  /\ l = "err" => signal_pending_state(mode'[t], sig'[t])

\* The conjuncts of the invariant that are the same for an acquisition and
\* for a step that leaves the owner word alone.
LEMMA MoveInv ==
  ASSUME Inv, NEW t \in Tasks, NEW l \in PC,
         Step(t, l), KeepsMode(t, l), owner' \in Word
  PROVE  /\ Waiters' = Waiters
         /\ TypeOK' /\ WaitLockInv' /\ ListInv' /\ OsqInv' /\ WakeInv' /\ ModeInv'
         /\ pc'[t] = l /\ \A u \in Tasks \ {t} : pc'[u] = pc[u]
<1> USE DEF Inv, Step
<1>1. Waiters' = Waiters /\ UNCHANGED wait_list
  BY DEF Queues, Waiters
<1>2. pc' = [pc EXCEPT ![t] = l] /\ pc \in [Tasks -> PC]
  BY DEF Moves, TypeOK
<1>3. pc'[t] = l /\ \A u \in Tasks \ {t} : pc'[u] = pc[u]
  BY <1>2
<1>4. TypeOK'
  BY <1>1, <1>2 DEF TypeOK, Moves, Locks, KeepsWakeups
<1>5. WaitLockInv'
  BY <1>3 DEF WaitLockInv, Locks
<1>6. ListInv'
  BY <1>1, <1>3 DEF ListInv, Queues
<1>7. OsqInv'
  BY <1>1, <1>3 DEF OsqInv, Locks
<1>8. WakeInv'
  <2>1. \A u \in Tasks : pc'[u] \in WakerPc \/ pc[u] \in WakerPc => pc'[u] = pc[u]
    BY <1>3 DEF KeepsWakeups
  <2> QED BY <2>1 DEF WakeInv, KeepsWakeups, WakerPc
<1>9. ModeInv'
  <2>1. ASSUME NEW u \in Tasks \ {t}
        PROVE  /\ Waiting(u)' => mode'[u] \in MODES
               /\ pc'[u] = "err" => signal_pending_state(mode'[u], sig'[u])
    BY <1>3, <2>1 DEF ModeInv, Moves, Waiting
  <2>2. /\ Waiting(t)' => mode'[t] \in MODES
        /\ pc'[t] = "err" => signal_pending_state(mode'[t], sig'[t])
    BY <1>3 DEF KeepsMode, Waiting
  <2> QED BY <2>1, <2>2 DEF ModeInv
<1> QED BY <1>1, <1>3, <1>4, <1>5, <1>6, <1>7, <1>8, <1>9

\* The owner word stays, and t goes to sleep or leaves only after it has
\* seen that it cannot have the mutex.
KeepsOwner(t, l) ==
  /\ UNCHANGED owner
  /\ pc[t] \in HoldingPc <=> l \in HoldingPc
  /\ owner.pickup /\ owner.task = t => l \in PickupPc
  /\ l \in {"signal_check", "err"}
       => pc[t] \in {"signal_check", "err"} \/ owner.task # NULL
  /\ l \in SleepPc /\ state'[t] # "TASK_RUNNING"
       => \/ pc[t] \in SleepPc /\ state[t] # "TASK_RUNNING"
          \/ ~CanTake(t)

\* Such a step keeps the invariant.
LEMMA LocalStep ==
  ASSUME Inv, NEW t \in Tasks, NEW l \in PC,
         Step(t, l), KeepsMode(t, l), KeepsOwner(t, l)
  PROVE  Inv'
<1> USE DEF Inv, Step, KeepsOwner
<1>1. owner' \in Word
  BY DEF TypeOK
<1>2. /\ Waiters' = Waiters
      /\ TypeOK' /\ WaitLockInv' /\ ListInv' /\ OsqInv' /\ WakeInv' /\ ModeInv'
      /\ pc'[t] = l /\ \A u \in Tasks \ {t} : pc'[u] = pc[u]
  BY <1>1, MoveInv
<1>3. UNCHANGED <<wait_list, wake_q, wake_node>>
  BY DEF Queues, KeepsWakeups
<1>4. OwnerInv'
  BY <1>2 DEF OwnerInv
<1>5. FlagsMatchList'
  <2>1. ASSUME owner.pickup PROVE pc'[owner.task] \in PickupPc
    BY <1>2, <2>1 DEF FlagsMatchList, OwnerInv, TypeOK, Word
  <2>2. \A u : IsFirst(u)' <=> IsFirst(u)
    BY <1>3 DEF IsFirst
  <2> QED BY <1>3, <2>1, <2>2 DEF FlagsMatchList
<1>6. (\E u \in Tasks : pc[u] = "unlock_wait") => \E u \in Tasks : pc'[u] = "unlock_wait"
  BY <1>2 DEF KeepsWakeups, WakerPc
<1>7. CancelInv'
  BY <1>2, <1>6 DEF CancelInv
<1>8. NoLostWakeup'
  <2> SUFFICES ASSUME wait_list # <<>>, owner.task = NULL \/ owner.pickup
               PROVE  WillAct(Head(wait_list))'
    BY <1>3 DEF NoLostWakeup
  <2> DEFINE h == Head(wait_list)
  <2>1. h \in Tasks /\ h \in Waiters
    BY FirstWaits
  <2>2. WillAct(h)
    BY DEF NoLostWakeup
  <2>3. Head(wait_list)' = h
    BY <1>3
  <2>4. ASSUME h = t, l \in SleepPc, state'[t] # "TASK_RUNNING"
        PROVE  pc[t] \in SleepPc /\ state[t] # "TASK_RUNNING"
    <3>1. CanTake(t)
      BY <2>4, MutexAssumption DEF CanTake, FlagsMatchList, IsFirst
    <3> QED BY <2>4, <3>1
  <2>5. ASSUME NEW u \in Tasks, pc[u] \in {"wake_up_q", "wake_up_process"},
               wake_q[u] = h
        PROVE  pc'[u] \in {"wake_up_q", "wake_up_process"} /\ wake_q'[u] = h
    BY <1>2, <1>3, <2>5 DEF KeepsWakeups, WakerPc
  <2>6. ASSUME pc[h] \notin SleepPc \/ state[h] = "TASK_RUNNING"
        PROVE  pc'[h] \notin SleepPc \/ state'[h] = "TASK_RUNNING"
    BY <1>2, <2>1, <2>4, <2>6 DEF Moves
  <2> HIDE DEF h
  <2> QED BY <1>6, <2>1, <2>2, <2>3, <2>5, <2>6 DEF WillAct, SleepPc
<1> QED BY <1>2, <1>4, <1>5, <1>7, <1>8

\* t becomes the owner, with WAITERS kept and the other flags cleared.
Takes(t) ==
  /\ CanTake(t)
  /\ owner' \in Word /\ owner'.task = t /\ owner'.waiters = owner.waiters
  /\ ~owner'.handoff /\ ~owner'.pickup

\* What __mutex_trylock_or_owner() leaves in the owner word.
LEMMA TakenFacts ==
  ASSUME Inv, NEW t \in Tasks, CanTake(t), owner' = Taken(t)
  PROVE  Takes(t)
BY DEF Takes, Taken, Inv, TypeOK, Word

\* An acquisition keeps the invariant.
LEMMA TakeStep ==
  ASSUME Inv, NEW t \in Tasks, NEW l \in {"cs", "osq_unlock", "relock", "acquired"},
         Step(t, l), Takes(t), pc[t] \notin HoldingPc
  PROVE  Inv'
<1> USE DEF Inv, Step
<1>1. /\ owner' \in Word /\ owner'.task = t /\ owner'.waiters = owner.waiters
      /\ ~owner'.handoff /\ ~owner'.pickup /\ CanTake(t)
  BY DEF Takes
<1>2. l \in PC /\ l \in HoldingPc /\ KeepsMode(t, l)
  BY DEF PC, HoldingPc, KeepsMode
<1>3. /\ Waiters' = Waiters
      /\ TypeOK' /\ WaitLockInv' /\ ListInv' /\ OsqInv' /\ WakeInv' /\ ModeInv'
      /\ pc'[t] = l /\ \A u \in Tasks \ {t} : pc'[u] = pc[u]
  BY <1>1, <1>2, MoveInv
<1>4. OwnerInv'
  BY <1>1, <1>2, <1>3, MutexAssumption DEF OwnerInv, CanTake
<1>5. FlagsMatchList'
  BY <1>1 DEF FlagsMatchList, Queues
<1>6. CancelInv'
  BY <1>1, MutexAssumption DEF CancelInv
<1>7. NoLostWakeup'
  BY <1>1, MutexAssumption DEF NoLostWakeup
<1> QED BY <1>3, <1>4, <1>5, <1>6, <1>7

-----------------------------------------------------------------------------
(***************************************************************************)
(* The actions that leave the owner word and the wait list alone.           *)
(***************************************************************************)

\* Where each task is goes with the locks, the lists and the owner word.
LEMMA PcFacts ==
  ASSUME Inv
  PROVE  /\ wait_lock \in Tasks \cup {NULL} /\ osq \in Tasks \cup {NULL}
         /\ \A t \in Tasks :
              /\ pc[t] \in PC
              /\ wait_lock = t <=> pc[t] \in LockedPc
              /\ osq = t <=> \/ pc[t] \in {"osq_unlock", "fail_unlock"}
                             \/ pc[t] \in SpinPc /\ t \notin Waiters
              /\ pc[t] \in QueuedPc => t \in Waiters
              /\ t \in Waiters => pc[t] \in QueuedPc \cup SpinPc
         /\ owner.pickup => owner.task \in Waiters
<1>1. owner.pickup => owner.task \in Waiters
  BY FirstWaits DEF Inv, FlagsMatchList, IsFirst
<1> QED BY <1>1 DEF Inv, TypeOK, WaitLockInv, OsqInv, ListInv

\* A contended lock operation begins.
LEMMA LockSlowInv ==
  ASSUME Inv, NEW t \in Tasks, (\E m \in MODES : mutex_lock_slow(t, m))
  PROVE  Inv'
<1> USE PcFacts, MutexAssumption
        DEF mutex_lock_slow, Goto, listvars, spinvars, wakevars, callvars, Step, Locks,
            Queues, KeepsWakeups, PC, LockedPc, HoldingPc, QueuedPc, SpinPc, EnterPc, WakerPc
<1>1. Moves(t, "trylock")
  BY DEF Moves, Inv, TypeOK, Signals
<1>2. Step(t, "trylock")
  BY <1>1
<1>3. KeepsMode(t, "trylock")
  BY <1>1 DEF KeepsMode, Inv, TypeOK, ModeInv, Waiting
<1>4. KeepsOwner(t, "trylock")
  BY <1>1 DEF KeepsOwner, Inv, FlagsMatchList, PickupPc, SleepPc, CanTake
<1> QED BY <1>2, <1>3, <1>4, LocalStep

\* The first attempt of the slow path.
LEMMA SlowTrylockInv ==
  ASSUME Inv, NEW t \in Tasks, slowpath_trylock(t)
  PROVE  Inv'
<1> USE PcFacts, MutexAssumption
        DEF slowpath_trylock, Goto, listvars, spinvars, wakevars, callvars, Acquire, Step, Locks,
            Queues, KeepsWakeups, PC, LockedPc, HoldingPc, QueuedPc, SpinPc, EnterPc, WakerPc
<1>1. CASE CanTake(t)
  <2>1. Moves(t, "cs")
    BY <1>1 DEF Moves, Inv, TypeOK, Signals
  <2>2. Step(t, "cs")
    BY <1>1, <2>1
  <2>3. CanTake(t) /\ owner' = Taken(t)
    BY <1>1, <2>1
  <2>4. Takes(t)
    BY <2>3, TakenFacts
  <2> QED BY <2>2, <2>4, TakeStep
<1>2. CASE ~CanTake(t)
  <2>1. Moves(t, "can_spin")
    BY <1>2 DEF Moves, Inv, TypeOK, Signals
  <2>2. Step(t, "can_spin")
    BY <1>2, <2>1
  <2>3. KeepsMode(t, "can_spin")
    BY <1>2, <2>1 DEF KeepsMode, Inv, TypeOK, ModeInv, Waiting
  <2>4. KeepsOwner(t, "can_spin")
    BY <1>2, <2>1 DEF KeepsOwner, Inv, FlagsMatchList, PickupPc, SleepPc, CanTake
  <2> QED BY <2>2, <2>3, <2>4, LocalStep
<1> QED BY <1>1, <1>2

\* The decision to spin.
LEMMA CanSpinInv ==
  ASSUME Inv, NEW t \in Tasks, mutex_can_spin_on_owner(t)
  PROVE  Inv'
<1> USE PcFacts, MutexAssumption
        DEF mutex_can_spin_on_owner, Goto, listvars, spinvars, wakevars, callvars, Step, Locks,
            Queues, KeepsWakeups, PC, LockedPc, HoldingPc, QueuedPc, SpinPc, EnterPc, WakerPc
<1>1. CASE pc' = [pc EXCEPT ![t] = "osq_lock"]
  <2>1. Moves(t, "osq_lock")
    BY <1>1 DEF Moves, Inv, TypeOK, Signals
  <2>2. Step(t, "osq_lock")
    BY <1>1, <2>1
  <2>3. KeepsMode(t, "osq_lock")
    BY <1>1, <2>1 DEF KeepsMode, Inv, TypeOK, ModeInv, Waiting
  <2>4. KeepsOwner(t, "osq_lock")
    BY <1>1, <2>1 DEF KeepsOwner, Inv, FlagsMatchList, PickupPc, SleepPc, CanTake
  <2> QED BY <2>2, <2>3, <2>4, LocalStep
<1>2. CASE pc' = [pc EXCEPT ![t] = "wait_lock"]
  <2>1. Moves(t, "wait_lock")
    BY <1>2 DEF Moves, Inv, TypeOK, Signals
  <2>2. Step(t, "wait_lock")
    BY <1>2, <2>1
  <2>3. KeepsMode(t, "wait_lock")
    BY <1>2, <2>1 DEF KeepsMode, Inv, TypeOK, ModeInv, Waiting
  <2>4. KeepsOwner(t, "wait_lock")
    BY <1>2, <2>1 DEF KeepsOwner, Inv, FlagsMatchList, PickupPc, SleepPc, CanTake
  <2> QED BY <2>2, <2>3, <2>4, LocalStep
<1> QED BY <1>1, <1>2

\* A spinner takes the osq or gives up.
LEMMA OsqLockInv ==
  ASSUME Inv, NEW t \in Tasks, osq_lock(t)
  PROVE  Inv'
<1> USE PcFacts, MutexAssumption
        DEF osq_lock, Goto, listvars, spinvars, wakevars, callvars, Step, Locks,
            Queues, KeepsWakeups, PC, LockedPc, HoldingPc, QueuedPc, SpinPc, EnterPc, WakerPc
<1>1. CASE osq = NULL /\ osq' = t /\ Goto(t, "spin")
  <2>1. Moves(t, "spin")
    BY <1>1 DEF Moves, Inv, TypeOK, Signals
  <2>2. Step(t, "spin")
    BY <1>1, <2>1
  <2>3. KeepsMode(t, "spin")
    BY <1>1, <2>1 DEF KeepsMode, Inv, TypeOK, ModeInv, Waiting
  <2>4. KeepsOwner(t, "spin")
    BY <1>1, <2>1 DEF KeepsOwner, Inv, FlagsMatchList, PickupPc, SleepPc, CanTake
  <2> QED BY <2>2, <2>3, <2>4, LocalStep
<1>2. CASE UNCHANGED osq /\ Goto(t, "wait_lock")
  <2>1. Moves(t, "wait_lock")
    BY <1>2 DEF Moves, Inv, TypeOK, Signals
  <2>2. Step(t, "wait_lock")
    BY <1>2, <2>1
  <2>3. KeepsMode(t, "wait_lock")
    BY <1>2, <2>1 DEF KeepsMode, Inv, TypeOK, ModeInv, Waiting
  <2>4. KeepsOwner(t, "wait_lock")
    BY <1>2, <2>1 DEF KeepsOwner, Inv, FlagsMatchList, PickupPc, SleepPc, CanTake
  <2> QED BY <2>2, <2>3, <2>4, LocalStep
<1> QED BY <1>1, <1>2

\* A spinner's attempt.
LEMMA SpinTrylockInv ==
  ASSUME Inv, NEW t \in Tasks, spin_trylock(t)
  PROVE  Inv'
<1> USE PcFacts, MutexAssumption
        DEF spin_trylock, Goto, listvars, spinvars, wakevars, callvars, Acquire, Step, Locks,
            Queues, KeepsWakeups, PC, LockedPc, HoldingPc, QueuedPc, SpinPc, EnterPc, WakerPc
<1>1. CASE CanTake(t) /\ t \in Waiters
  <2>1. Moves(t, "relock")
    BY <1>1 DEF Moves, Inv, TypeOK, Signals
  <2>2. Step(t, "relock")
    BY <1>1, <2>1
  <2>3. CanTake(t) /\ owner' = Taken(t)
    BY <1>1, <2>1
  <2>4. Takes(t)
    BY <2>3, TakenFacts
  <2> QED BY <2>2, <2>4, TakeStep
<1>2. CASE CanTake(t) /\ t \notin Waiters
  <2>1. Moves(t, "osq_unlock")
    BY <1>2 DEF Moves, Inv, TypeOK, Signals
  <2>2. Step(t, "osq_unlock")
    BY <1>2, <2>1
  <2>3. CanTake(t) /\ owner' = Taken(t)
    BY <1>2, <2>1
  <2>4. Takes(t)
    BY <2>3, TakenFacts
  <2> QED BY <2>2, <2>4, TakeStep
<1>3. CASE ~CanTake(t)
  <2>1. Moves(t, "spin_on_owner")
    BY <1>3 DEF Moves, Inv, TypeOK, Signals, Word
  <2>2. Step(t, "spin_on_owner")
    BY <1>3, <2>1
  <2>3. KeepsMode(t, "spin_on_owner")
    BY <1>3, <2>1 DEF KeepsMode, Inv, TypeOK, ModeInv, Waiting
  <2>4. KeepsOwner(t, "spin_on_owner")
    BY <1>3, <2>1 DEF KeepsOwner, Inv, FlagsMatchList, PickupPc, SleepPc, CanTake
  <2> QED BY <2>2, <2>3, <2>4, LocalStep
<1> QED BY <1>1, <1>2, <1>3

\* The owner a spinner watches has changed.
LEMMA OwnerChangedInv ==
  ASSUME Inv, NEW t \in Tasks, owner_changed(t)
  PROVE  Inv'
<1> USE PcFacts, MutexAssumption
        DEF owner_changed, Goto, listvars, spinvars, wakevars, callvars, Step, Locks,
            Queues, KeepsWakeups, PC, LockedPc, HoldingPc, QueuedPc, SpinPc, EnterPc, WakerPc
<1>1. Moves(t, "spin")
  BY DEF Moves, Inv, TypeOK, Signals
<1>2. Step(t, "spin")
  BY <1>1
<1>3. KeepsMode(t, "spin")
  BY <1>1 DEF KeepsMode, Inv, TypeOK, ModeInv, Waiting
<1>4. KeepsOwner(t, "spin")
  BY <1>1 DEF KeepsOwner, Inv, FlagsMatchList, PickupPc, SleepPc, CanTake
<1> QED BY <1>2, <1>3, <1>4, LocalStep

\* A spinner stops spinning.
LEMMA StopSpinningInv ==
  ASSUME Inv, NEW t \in Tasks, stop_spinning(t)
  PROVE  Inv'
<1> USE PcFacts, MutexAssumption
        DEF stop_spinning, Goto, listvars, spinvars, wakevars, callvars, Step, Locks,
            Queues, KeepsWakeups, PC, LockedPc, HoldingPc, QueuedPc, SpinPc, EnterPc, WakerPc
<1>1. CASE t \in Waiters
  <2>1. Moves(t, "lock_wait")
    BY <1>1 DEF Moves, Inv, TypeOK, Signals
  <2>2. Step(t, "lock_wait")
    BY <1>1, <2>1
  <2>3. KeepsMode(t, "lock_wait")
    BY <1>1, <2>1 DEF KeepsMode, Inv, TypeOK, ModeInv, Waiting
  <2>4. KeepsOwner(t, "lock_wait")
    BY <1>1, <2>1 DEF KeepsOwner, Inv, FlagsMatchList, PickupPc, SleepPc, CanTake
  <2> QED BY <2>2, <2>3, <2>4, LocalStep
<1>2. CASE t \notin Waiters
  <2>1. Moves(t, "fail_unlock")
    BY <1>2 DEF Moves, Inv, TypeOK, Signals
  <2>2. Step(t, "fail_unlock")
    BY <1>2, <2>1
  <2>3. KeepsMode(t, "fail_unlock")
    BY <1>2, <2>1 DEF KeepsMode, Inv, TypeOK, ModeInv, Waiting
  <2>4. KeepsOwner(t, "fail_unlock")
    BY <1>2, <2>1 DEF KeepsOwner, Inv, FlagsMatchList, PickupPc, SleepPc, CanTake
  <2> QED BY <2>2, <2>3, <2>4, LocalStep
<1> QED BY <1>1, <1>2

\* A spinner releases the osq.
LEMMA OsqUnlockInv ==
  ASSUME Inv, NEW t \in Tasks, osq_unlock(t)
  PROVE  Inv'
<1> USE PcFacts, MutexAssumption
        DEF osq_unlock, Goto, listvars, spinvars, wakevars, callvars, Step, Locks,
            Queues, KeepsWakeups, PC, LockedPc, HoldingPc, QueuedPc, SpinPc, EnterPc, WakerPc
<1>1. CASE pc[t] = "osq_unlock"
  <2>1. Moves(t, "cs")
    BY <1>1 DEF Moves, Inv, TypeOK, Signals
  <2>2. Step(t, "cs")
    BY <1>1, <2>1
  <2>3. KeepsMode(t, "cs")
    BY <1>1, <2>1 DEF KeepsMode, Inv, TypeOK, ModeInv, Waiting
  <2>4. KeepsOwner(t, "cs")
    BY <1>1, <2>1 DEF KeepsOwner, Inv, FlagsMatchList, PickupPc, SleepPc, CanTake
  <2> QED BY <2>2, <2>3, <2>4, LocalStep
<1>2. CASE pc[t] = "fail_unlock"
  <2>1. Moves(t, "wait_lock")
    BY <1>2 DEF Moves, Inv, TypeOK, Signals
  <2>2. Step(t, "wait_lock")
    BY <1>2, <2>1
  <2>3. KeepsMode(t, "wait_lock")
    BY <1>2, <2>1 DEF KeepsMode, Inv, TypeOK, ModeInv, Waiting
  <2>4. KeepsOwner(t, "wait_lock")
    BY <1>2, <2>1 DEF KeepsOwner, Inv, FlagsMatchList, PickupPc, SleepPc, CanTake
  <2> QED BY <2>2, <2>3, <2>4, LocalStep
<1> QED BY <1>1, <1>2

\* The attempt after taking wait_lock.
LEMMA WaitLockTrylockInv ==
  ASSUME Inv, NEW t \in Tasks, wait_lock_trylock(t)
  PROVE  Inv'
<1> USE PcFacts, MutexAssumption
        DEF wait_lock_trylock, Goto, listvars, spinvars, wakevars, callvars, Acquire, Step, Locks,
            Queues, KeepsWakeups, PC, LockedPc, HoldingPc, QueuedPc, SpinPc, EnterPc, WakerPc
<1>1. CASE CanTake(t)
  <2>1. Moves(t, "cs")
    BY <1>1 DEF Moves, Inv, TypeOK, Signals
  <2>2. Step(t, "cs")
    BY <1>1, <2>1
  <2>3. CanTake(t) /\ owner' = Taken(t)
    BY <1>1, <2>1
  <2>4. Takes(t)
    BY <2>3, TakenFacts
  <2> QED BY <2>2, <2>4, TakeStep
<1>2. CASE ~CanTake(t)
  <2>1. Moves(t, "add_waiter")
    BY <1>2 DEF Moves, Inv, TypeOK, Signals
  <2>2. Step(t, "add_waiter")
    BY <1>2, <2>1
  <2>3. KeepsMode(t, "add_waiter")
    BY <1>2, <2>1 DEF KeepsMode, Inv, TypeOK, ModeInv, Waiting
  <2>4. KeepsOwner(t, "add_waiter")
    BY <1>2, <2>1 DEF KeepsOwner, Inv, FlagsMatchList, PickupPc, SleepPc, CanTake
  <2> QED BY <2>2, <2>3, <2>4, LocalStep
<1> QED BY <1>1, <1>2

\* The attempt at the head of the loop.
LEMMA LoopTrylockInv ==
  ASSUME Inv, NEW t \in Tasks, loop_trylock(t)
  PROVE  Inv'
<1> USE PcFacts, MutexAssumption
        DEF loop_trylock, Goto, listvars, spinvars, wakevars, callvars, Acquire, Step, Locks,
            Queues, KeepsWakeups, PC, LockedPc, HoldingPc, QueuedPc, SpinPc, EnterPc, WakerPc
<1>1. CASE CanTake(t)
  <2>1. Moves(t, "acquired")
    BY <1>1 DEF Moves, Inv, TypeOK, Signals
  <2>2. Step(t, "acquired")
    BY <1>1, <2>1
  <2>3. CanTake(t) /\ owner' = Taken(t)
    BY <1>1, <2>1
  <2>4. Takes(t)
    BY <2>3, TakenFacts
  <2> QED BY <2>2, <2>4, TakeStep
<1>2. CASE ~CanTake(t)
  <2>1. Moves(t, "signal_check")
    BY <1>2 DEF Moves, Inv, TypeOK, Signals
  <2>2. Step(t, "signal_check")
    BY <1>2, <2>1
  <2>3. KeepsMode(t, "signal_check")
    BY <1>2, <2>1 DEF KeepsMode, Inv, TypeOK, ModeInv, Waiting
  <2>4. KeepsOwner(t, "signal_check")
    BY <1>2, <2>1 DEF KeepsOwner, Inv, FlagsMatchList, PickupPc, SleepPc, CanTake
  <2> QED BY <2>2, <2>3, <2>4, LocalStep
<1> QED BY <1>1, <1>2

\* A waiter gives up or drops wait_lock to sleep.
LEMMA SignalCheckInv ==
  ASSUME Inv, NEW t \in Tasks, signal_check(t)
  PROVE  Inv'
<1> USE PcFacts, MutexAssumption
        DEF signal_check, Goto, listvars, spinvars, wakevars, callvars, Step, Locks,
            Queues, KeepsWakeups, PC, LockedPc, HoldingPc, QueuedPc, SpinPc, EnterPc, WakerPc
<1>1. CASE signal_pending_state(mode[t], sig[t])
  <2>1. Moves(t, "err")
    BY <1>1 DEF Moves, Inv, TypeOK, Signals
  <2>2. Step(t, "err")
    BY <1>1, <2>1
  <2>3. KeepsMode(t, "err")
    BY <1>1, <2>1 DEF KeepsMode, Inv, TypeOK, ModeInv, Waiting
  <2>4. KeepsOwner(t, "err")
    BY <1>1, <2>1 DEF KeepsOwner, Inv, FlagsMatchList, PickupPc, SleepPc, CanTake
  <2> QED BY <2>2, <2>3, <2>4, LocalStep
<1>2. CASE ~signal_pending_state(mode[t], sig[t])
  <2>1. Moves(t, "schedule")
    BY <1>2 DEF Moves, Inv, TypeOK, Signals
  <2>2. Step(t, "schedule")
    BY <1>2, <2>1
  <2>3. KeepsMode(t, "schedule")
    BY <1>2, <2>1 DEF KeepsMode, Inv, TypeOK, ModeInv, Waiting
  <2>4. KeepsOwner(t, "schedule")
    BY <1>2, <2>1 DEF KeepsOwner, Inv, FlagsMatchList, PickupPc, SleepPc, CanTake
  <2> QED BY <2>2, <2>3, <2>4, LocalStep
<1> QED BY <1>1, <1>2

\* schedule() falls through or sleeps.
LEMMA ScheduleInv ==
  ASSUME Inv, NEW t \in Tasks, schedule(t)
  PROVE  Inv'
<1> USE PcFacts, MutexAssumption
        DEF schedule, Goto, listvars, spinvars, wakevars, callvars, Step, Locks,
            Queues, KeepsWakeups, PC, LockedPc, HoldingPc, QueuedPc, SpinPc, EnterPc, WakerPc
<1>1. CASE state[t] = "TASK_RUNNING" \/ signal_pending_state(state[t], sig[t])
  <2>1. Moves(t, "woken")
    BY <1>1 DEF Moves, Inv, TypeOK, Signals
  <2>2. Step(t, "woken")
    BY <1>1, <2>1
  <2>3. KeepsMode(t, "woken")
    BY <1>1, <2>1 DEF KeepsMode, Inv, TypeOK, ModeInv, Waiting
  <2>4. KeepsOwner(t, "woken")
    BY <1>1, <2>1 DEF KeepsOwner, Inv, FlagsMatchList, PickupPc, SleepPc, CanTake
  <2> QED BY <2>2, <2>3, <2>4, LocalStep
<1>2. CASE ~(state[t] = "TASK_RUNNING" \/ signal_pending_state(state[t], sig[t]))
  <2>1. Moves(t, "asleep")
    BY <1>2 DEF Moves, Inv, TypeOK, Signals
  <2>2. Step(t, "asleep")
    BY <1>2, <2>1
  <2>3. KeepsMode(t, "asleep")
    BY <1>2, <2>1 DEF KeepsMode, Inv, TypeOK, ModeInv, Waiting
  <2>4. KeepsOwner(t, "asleep")
    BY <1>2, <2>1 DEF KeepsOwner, Inv, FlagsMatchList, PickupPc, SleepPc, CanTake
  <2> QED BY <2>2, <2>3, <2>4, LocalStep
<1> QED BY <1>1, <1>2

\* A sleeper that was woken runs.
LEMMA ScheduleReturnsInv ==
  ASSUME Inv, NEW t \in Tasks, schedule_returns(t)
  PROVE  Inv'
<1> USE PcFacts, MutexAssumption
        DEF schedule_returns, Goto, listvars, spinvars, wakevars, callvars, Step, Locks,
            Queues, KeepsWakeups, PC, LockedPc, HoldingPc, QueuedPc, SpinPc, EnterPc, WakerPc
<1>1. Moves(t, "woken")
  BY DEF Moves, Inv, TypeOK, Signals
<1>2. Step(t, "woken")
  BY <1>1
<1>3. KeepsMode(t, "woken")
  BY <1>1 DEF KeepsMode, Inv, TypeOK, ModeInv, Waiting
<1>4. KeepsOwner(t, "woken")
  BY <1>1 DEF KeepsOwner, Inv, FlagsMatchList, PickupPc, SleepPc, CanTake
<1> QED BY <1>2, <1>3, <1>4, LocalStep

\* A waiter announces that it will sleep.
LEMMA SetStateInv ==
  ASSUME Inv, NEW t \in Tasks, set_current_state(t)
  PROVE  Inv'
<1> USE PcFacts, MutexAssumption
        DEF set_current_state, Goto, listvars, spinvars, wakevars, callvars, Step, Locks,
            Queues, KeepsWakeups, PC, LockedPc, HoldingPc, QueuedPc, SpinPc, EnterPc, WakerPc
<1>1. Moves(t, "retry")
  BY DEF Moves, Inv, TypeOK, Signals, ModeInv, Waiting
<1>2. Step(t, "retry")
  BY <1>1
<1>3. KeepsMode(t, "retry")
  BY <1>1 DEF KeepsMode, Inv, TypeOK, ModeInv, Waiting
<1>4. KeepsOwner(t, "retry")
  BY <1>1 DEF KeepsOwner, Inv, FlagsMatchList, PickupPc, SleepPc, CanTake
<1> QED BY <1>2, <1>3, <1>4, LocalStep

\* The attempt before the next round.
LEMMA RetryTrylockInv ==
  ASSUME Inv, NEW t \in Tasks, retry_trylock(t)
  PROVE  Inv'
<1> USE PcFacts, MutexAssumption
        DEF retry_trylock, Goto, listvars, spinvars, wakevars, callvars, Acquire, Step, Locks,
            Queues, KeepsWakeups, PC, LockedPc, HoldingPc, QueuedPc, SpinPc, EnterPc, WakerPc
<1>1. CASE CanTake(t)
  <2>1. Moves(t, "relock")
    BY <1>1 DEF Moves, Inv, TypeOK, Signals
  <2>2. Step(t, "relock")
    BY <1>1, <2>1
  <2>3. CanTake(t) /\ owner' = Taken(t)
    BY <1>1, <2>1
  <2>4. Takes(t)
    BY <2>3, TakenFacts
  <2> QED BY <2>2, <2>4, TakeStep
<1>2. CASE ~CanTake(t) /\ first[t]
  <2>1. Moves(t, "spin")
    BY <1>2 DEF Moves, Inv, TypeOK, Signals
  <2>2. Step(t, "spin")
    BY <1>2, <2>1
  <2>3. KeepsMode(t, "spin")
    BY <1>2, <2>1 DEF KeepsMode, Inv, TypeOK, ModeInv, Waiting
  <2>4. KeepsOwner(t, "spin")
    BY <1>2, <2>1 DEF KeepsOwner, Inv, FlagsMatchList, PickupPc, SleepPc, CanTake
  <2> QED BY <2>2, <2>3, <2>4, LocalStep
<1>3. CASE ~CanTake(t) /\ ~first[t]
  <2>1. Moves(t, "lock_wait")
    BY <1>3 DEF Moves, Inv, TypeOK, Signals
  <2>2. Step(t, "lock_wait")
    BY <1>3, <2>1
  <2>3. KeepsMode(t, "lock_wait")
    BY <1>3, <2>1 DEF KeepsMode, Inv, TypeOK, ModeInv, Waiting
  <2>4. KeepsOwner(t, "lock_wait")
    BY <1>3, <2>1 DEF KeepsOwner, Inv, FlagsMatchList, PickupPc, SleepPc, CanTake
  <2> QED BY <2>2, <2>3, <2>4, LocalStep
<1> QED BY <1>1, <1>2, <1>3

\* A waiter takes wait_lock again.
LEMMA LockWaitInv ==
  ASSUME Inv, NEW t \in Tasks, lock_wait(t)
  PROVE  Inv'
<1> USE PcFacts, MutexAssumption
        DEF lock_wait, Goto, listvars, spinvars, wakevars, callvars, Step, Locks,
            Queues, KeepsWakeups, PC, LockedPc, HoldingPc, QueuedPc, SpinPc, EnterPc, WakerPc
<1>1. Moves(t, "loop")
  BY DEF Moves, Inv, TypeOK, Signals
<1>2. Step(t, "loop")
  BY <1>1
<1>3. KeepsMode(t, "loop")
  BY <1>1 DEF KeepsMode, Inv, TypeOK, ModeInv, Waiting
<1>4. KeepsOwner(t, "loop")
  BY <1>1 DEF KeepsOwner, Inv, FlagsMatchList, PickupPc, SleepPc, CanTake
<1> QED BY <1>2, <1>3, <1>4, LocalStep

\* The fast path of the unlock fails.
LEMMA UnlockSlowInv ==
  ASSUME Inv, NEW t \in Tasks, mutex_unlock_slow(t)
  PROVE  Inv'
<1> USE PcFacts, MutexAssumption
        DEF mutex_unlock_slow, Goto, listvars, spinvars, wakevars, callvars, Step, Locks,
            Queues, KeepsWakeups, PC, LockedPc, HoldingPc, QueuedPc, SpinPc, EnterPc, WakerPc
<1>1. Moves(t, "unlock_slow")
  BY DEF Moves, Inv, TypeOK, Signals
<1>2. Step(t, "unlock_slow")
  BY <1>1
<1>3. KeepsMode(t, "unlock_slow")
  BY <1>1 DEF KeepsMode, Inv, TypeOK, ModeInv, Waiting
<1>4. KeepsOwner(t, "unlock_slow")
  BY <1>1 DEF KeepsOwner, Inv, FlagsMatchList, PickupPc, SleepPc, CanTake
<1> QED BY <1>2, <1>3, <1>4, LocalStep

\* A signal comes.
LEMMA SignalInv ==
  ASSUME Inv, NEW t \in Tasks, (\E s \in SIGNALS : signal_wake_up(t, s))
  PROVE  Inv'
<1> USE PcFacts, MutexAssumption
        DEF signal_wake_up, Goto, listvars, spinvars, wakevars, callvars, Step, Locks,
            Queues, KeepsWakeups, PC, LockedPc, HoldingPc, QueuedPc, SpinPc, EnterPc, WakerPc
<1>1. Moves(t, pc[t])
  BY DEF Moves, Inv, TypeOK, Signals
<1>2. Step(t, pc[t])
  BY <1>1 DEF Waiting
<1>3. KeepsMode(t, pc[t])
  BY <1>1 DEF KeepsMode, Inv, TypeOK, ModeInv, Waiting,
              signal_pending_state
<1>4. KeepsOwner(t, pc[t])
  BY <1>1 DEF KeepsOwner, Inv, FlagsMatchList, PickupPc, SleepPc, CanTake,
              TypeOK, Waiting
<1> QED BY <1>2, <1>3, <1>4, LocalStep

\* The fast path, and mutex_trylock().
LEMMA TakeInv ==
  ASSUME Inv, NEW t \in Tasks, mutex_lock_fast(t) \/ mutex_trylock(t)
  PROVE  Inv'
<1> USE PcFacts, MutexAssumption
        DEF mutex_lock_fast, mutex_trylock, Goto, listvars, spinvars, wakevars,
            callvars, Step, Locks, Queues, KeepsWakeups, PC, LockedPc,
            HoldingPc, QueuedPc, SpinPc, EnterPc, WakerPc
<1>1. Moves(t, "cs")
  BY DEF Moves, Inv, TypeOK, Signals
<1>2. Step(t, "cs")
  BY <1>1
<1>3. Takes(t)
  <2>1. CASE mutex_lock_fast(t)
    BY <2>1 DEF Takes, CanTake, ZERO, Inv, TypeOK, Word
  <2>2. CASE mutex_trylock(t)
    BY <2>2, TakenFacts
  <2> QED BY <2>1, <2>2
<1> QED BY <1>1, <1>2, <1>3, TakeStep

-----------------------------------------------------------------------------
(***************************************************************************)
(* The actions that change the wait list or release the mutex.              *)
(***************************************************************************)
\* A new waiter on an empty list sets WAITERS.  It holds wait_lock and has
\* another attempt before it, so no wakeup is due to it yet.
LEMMA AddWaiterInv ==
  ASSUME Inv, NEW t \in Tasks, add_waiter(t)
  PROVE  Inv'
<1> USE PcFacts DEF Goto, spinvars, wakevars, callvars
<1>1. pc[t] = "add_waiter" /\ t \notin Waiters /\ pc \in [Tasks -> PC]
  BY DEF add_waiter, QueuedPc, SpinPc, Inv, TypeOK
<1>2. pc'[t] = "loop" /\ \A u \in Tasks \ {t} : pc'[u] = pc[u]
  BY <1>1 DEF add_waiter
<1>3. /\ wait_list' \in Seq(Tasks)
      /\ \A i, j \in 1 .. Len(wait_list') : wait_list'[i] = wait_list'[j] => i = j
      /\ Waiters' = Waiters \cup {t}
      /\ wait_list' # <<>>
      /\ Head(wait_list') = IF wait_list = <<>> THEN t ELSE Head(wait_list)
  <2>1. \A i \in 1 .. Len(wait_list) : wait_list[i] # t
    BY <1>1 DEF Waiters
  <2>2. wait_list' = Append(wait_list, t)
    BY DEF add_waiter
  <2> QED BY <2>1, <2>2, ListAdd DEF Waiters, Inv, TypeOK
<1>4. /\ owner' \in Word /\ owner'.waiters
      /\ owner'.task = owner.task /\ owner'.handoff = owner.handoff
      /\ owner'.pickup = owner.pickup
  BY DEF add_waiter, Inv, TypeOK, Word, FlagsMatchList
<1>5. /\ state' \in [Tasks -> MODES \cup {"TASK_RUNNING"}]
      /\ \A u \in Tasks \ {t} : state'[u] = state[u]
  BY <1>1 DEF add_waiter, Inv, TypeOK, ModeInv, Waiting, EnterPc, HoldingPc
<1>6. UNCHANGED <<wait_lock, osq, seen, wake_q, wake_node, mode, sig, first>>
  BY DEF add_waiter
<1>7. TypeOK'
  BY <1>1, <1>3, <1>4, <1>5, <1>6 DEF add_waiter, Inv, TypeOK, PC, QueuedPc
<1>8. WaitLockInv' /\ OwnerInv' /\ ListInv' /\ OsqInv' /\ WakeInv' /\ CancelInv'
  <2>1. WaitLockInv' /\ OwnerInv'
    BY <1>1, <1>2, <1>4, <1>6 DEF Inv, WaitLockInv, OwnerInv, LockedPc, HoldingPc
  <2>2. ListInv' /\ OsqInv'
    BY <1>1, <1>2, <1>3, <1>6 DEF Inv, ListInv, OsqInv, QueuedPc, SpinPc
  <2>3. WakeInv' /\ CancelInv'
    BY <1>1, <1>2, <1>4, <1>6 DEF Inv, WakeInv, CancelInv
  <2> QED BY <2>1, <2>2, <2>3
<1>9. FlagsMatchList'
  <2>1. ASSUME owner.pickup
        PROVE  owner.task # t /\ wait_list # <<>> /\ owner.task = Head(wait_list)
               /\ pc[owner.task] \in PickupPc /\ owner.task \in Tasks
    BY <1>1, <2>1, FirstWaits DEF Inv, FlagsMatchList, IsFirst
  <2> QED BY <1>2, <1>3, <1>4, <2>1 DEF FlagsMatchList, IsFirst
<1>10. ModeInv'
  <2>1. mode[t] \in MODES
    BY <1>1 DEF Inv, ModeInv, Waiting, EnterPc, HoldingPc
  <2> QED BY <1>1, <1>2, <1>6, <2>1 DEF Inv, ModeInv, Waiting
<1>11. NoLostWakeup'
  <2>1. CASE wait_list = <<>>
    BY <1>2, <1>3, <2>1 DEF NoLostWakeup, WillAct
  <2>2. CASE wait_list # <<>>
    <3> SUFFICES ASSUME owner.task = NULL \/ owner.pickup
                 PROVE  WillAct(Head(wait_list))'
      BY <1>3, <1>4, <2>2 DEF NoLostWakeup
    <3>1. Head(wait_list) \in Tasks /\ Head(wait_list) # t
      BY <1>1, <2>2, FirstWaits DEF Inv
    <3>2. WillAct(Head(wait_list))
      BY <2>2 DEF Inv, NoLostWakeup
    <3> QED BY <1>1, <1>2, <1>3, <1>5, <1>6, <2>2, <3>1, <3>2 DEF WillAct
  <2> QED BY <2>1, <2>2
<1> QED BY <1>7, <1>8, <1>9, <1>10, <1>11 DEF Inv

\* The first waiter, awake, sets HANDOFF.
LEMMA RequestHandoffInv ==
  ASSUME Inv, NEW t \in Tasks, request_handoff(t)
  PROVE  Inv'
<1> USE PcFacts DEF Goto, listvars, spinvars, wakevars, callvars
<1>1. pc[t] = "woken" /\ pc \in [Tasks -> PC]
  BY DEF request_handoff, Inv, TypeOK
<1>2. pc'[t] = "set_state" /\ \A u \in Tasks \ {t} : pc'[u] = pc[u]
  BY <1>1 DEF request_handoff
<1>3. /\ owner' \in Word /\ owner'.task = owner.task
      /\ owner'.waiters = owner.waiters /\ owner'.pickup = owner.pickup
      /\ owner'.handoff => owner.handoff \/ IsFirst(t)
  BY DEF request_handoff, Inv, TypeOK, Word, IsFirst
<1>4. /\ UNCHANGED <<wait_lock, wait_list, osq, seen, wake_q, wake_node, mode,
                     sig, state>>
      /\ Waiters' = Waiters
  BY DEF request_handoff, Waiters
<1>5. TypeOK'
  BY <1>1, <1>3, <1>4 DEF request_handoff, Inv, TypeOK, PC, QueuedPc, IsFirst
<1>6. WaitLockInv' /\ OwnerInv'
  BY <1>1, <1>2, <1>3, <1>4 DEF Inv, WaitLockInv, OwnerInv, LockedPc, HoldingPc
<1>7. ListInv' /\ OsqInv'
  BY <1>1, <1>2, <1>4 DEF Inv, ListInv, OsqInv, QueuedPc, SpinPc
<1>8. FlagsMatchList'
  <2>1. owner.pickup => owner.task \in Tasks
    BY FirstWaits DEF Inv, FlagsMatchList, IsFirst
  <2>2. "set_state" \in PickupPc
    BY DEF PickupPc, QueuedPc
  <2> QED BY <1>2, <1>3, <1>4, <2>1, <2>2 DEF Inv, FlagsMatchList, IsFirst
<1>9. WakeInv' /\ CancelInv'
  BY <1>1, <1>2, <1>3, <1>4 DEF Inv, WakeInv, CancelInv
<1>10. ModeInv'
  BY <1>1, <1>2, <1>4 DEF Inv, ModeInv, Waiting, QueuedPc, HoldingPc
<1>11. NoLostWakeup'
  <2> SUFFICES ASSUME wait_list # <<>>, owner.task = NULL \/ owner.pickup
               PROVE  WillAct(Head(wait_list))'
    BY <1>3, <1>4 DEF NoLostWakeup
  <2>1. Head(wait_list) \in Tasks
    BY FirstWaits DEF Inv
  <2>2. WillAct(Head(wait_list))
    BY DEF Inv, NoLostWakeup
  <2> QED BY <1>1, <1>2, <1>4, <2>1, <2>2 DEF WillAct
<1> QED BY <1>5, <1>6, <1>7, <1>8, <1>9, <1>10, <1>11 DEF Inv

\* A waiter leaves the list; the flags go with the last one, and PICKUP stays
\* since it never names a waiter that leaves.
LEMMA RemoveWaiter ==
  ASSUME Inv, NEW t \in Tasks, t \in Waiters, remove_waiter(t),
         ~(owner.pickup /\ owner.task = t)
  PROVE  /\ wait_list' \in Seq(Tasks)
         /\ \A i, j \in 1 .. Len(wait_list') :
              wait_list'[i] = wait_list'[j] => i = j
         /\ Waiters' = Waiters \ {t}
         /\ Head(wait_list) # t
              => wait_list' # <<>> /\ Head(wait_list') = Head(wait_list)
         /\ owner' \in Word /\ owner'.task = owner.task
         /\ owner'.pickup = owner.pickup
         /\ owner'.waiters <=> wait_list' # <<>>
         /\ owner'.handoff => wait_list' # <<>>
<1>1. /\ wait_list' \in Seq(Tasks)
      /\ \A i, j \in 1 .. Len(wait_list') : wait_list'[i] = wait_list'[j] => i = j
      /\ Waiters' = Waiters \ {t}
      /\ Head(wait_list) # t
           => wait_list' # <<>> /\ Head(wait_list') = Head(wait_list)
  <2>1. \E i \in 1 .. Len(wait_list) : wait_list[i] = t
    BY DEF Waiters
  <2>2. wait_list' = list_del(wait_list, t)
    BY DEF remove_waiter
  <2>3. /\ wait_list \in Seq(Tasks)
        /\ \A i, j \in 1 .. Len(wait_list) : wait_list[i] = wait_list[j] => i = j
    BY DEF Inv, TypeOK
  <2> DEFINE d == list_del(wait_list, t)
  <2>4. /\ d \in Seq(Tasks)
        /\ \A i, j \in 1 .. Len(d) : d[i] = d[j] => i = j
        /\ {d[i] : i \in 1 .. Len(d)}
             = {wait_list[i] : i \in 1 .. Len(wait_list)} \ {t}
        /\ Head(wait_list) # t => d # <<>> /\ Head(d) = Head(wait_list)
    BY <2>1, <2>3, ListDel
  <2> HIDE DEF d
  <2>5. wait_list' = d
    BY <2>2 DEF d
  <2>6. Waiters' = Waiters \ {t}
    BY <2>4, <2>5, Zenon DEF Waiters
  <2>7. \A i, j \in 1 .. Len(wait_list') : wait_list'[i] = wait_list'[j] => i = j
    BY <2>4, <2>5
  <2> QED BY <2>4, <2>5, <2>6, <2>7
<1>2. owner.pickup => wait_list' # <<>>
  BY <1>1 DEF Inv, FlagsMatchList, IsFirst
<1>3. wait_list # <<>>
  BY DEF Waiters, Inv, TypeOK
<1>4. owner' = IF wait_list' = <<>> THEN [ZERO EXCEPT !.task = owner.task] ELSE owner
  BY DEF remove_waiter
<1>5. /\ owner' \in Word /\ owner'.task = owner.task
      /\ owner'.pickup = owner.pickup
      /\ owner'.waiters <=> wait_list' # <<>>
      /\ owner'.handoff => wait_list' # <<>>
  BY <1>2, <1>3, <1>4 DEF ZERO, Word, Inv, TypeOK, FlagsMatchList
<1> QED BY <1>1, <1>5

\* The new holder leaves the wait list.
LEMMA AcquiredInv ==
  ASSUME Inv, NEW t \in Tasks, acquired(t)
  PROVE  Inv'
<1> USE PcFacts DEF Goto, spinvars, wakevars, callvars
<1>1. pc[t] \in {"acquired", "relock"} /\ t \in Waiters /\ pc \in [Tasks -> PC]
  BY DEF acquired, QueuedPc, Inv, TypeOK
<1>2. pc'[t] = "cs" /\ \A u \in Tasks \ {t} : pc'[u] = pc[u]
  BY <1>1 DEF acquired
<1>3. owner.task = t /\ ~owner.pickup
  BY <1>1 DEF Inv, OwnerInv, HoldingPc
<1>4. /\ wait_list' \in Seq(Tasks)
      /\ \A i, j \in 1 .. Len(wait_list') : wait_list'[i] = wait_list'[j] => i = j
      /\ Waiters' = Waiters \ {t}
      /\ owner' \in Word /\ owner'.task = t /\ ~owner'.pickup
      /\ owner'.waiters <=> wait_list' # <<>>
      /\ owner'.handoff => wait_list' # <<>>
  BY <1>1, <1>3, RemoveWaiter DEF acquired
<1>5. UNCHANGED <<osq, seen, wake_q, wake_node, mode, sig, first>>
  BY DEF acquired
<1>6. wait_lock' = NULL /\ (wait_lock = t \/ wait_lock = NULL)
  BY <1>1 DEF acquired, LockedPc
<1>7. TypeOK'
  BY <1>1, <1>4, <1>5, <1>6 DEF acquired, Inv, TypeOK, PC, HoldingPc
<1>8. WaitLockInv' /\ OwnerInv'
  BY <1>1, <1>2, <1>3, <1>4, <1>6, MutexAssumption
     DEF Inv, WaitLockInv, OwnerInv, LockedPc, HoldingPc
<1>9. ListInv' /\ OsqInv'
  BY <1>1, <1>2, <1>4, <1>5 DEF Inv, ListInv, OsqInv, QueuedPc, SpinPc
<1>10. FlagsMatchList' /\ CancelInv' /\ NoLostWakeup'
  BY <1>4, MutexAssumption DEF FlagsMatchList, CancelInv, NoLostWakeup
<1>11. WakeInv' /\ ModeInv'
  BY <1>1, <1>2, <1>5 DEF Inv, WakeInv, ModeInv, Waiting, HoldingPc
<1> QED BY <1>7, <1>8, <1>9, <1>10, <1>11 DEF Inv

\* A waiter leaves with -EINTR.  If the mutex is free, an unlocker still has
\* to look for the first waiter, so the next one is not forgotten.
LEMMA ErrInv ==
  ASSUME Inv, NEW t \in Tasks, err(t)
  PROVE  Inv'
<1> USE PcFacts DEF Goto, spinvars, wakevars
<1>1. pc[t] = "err" /\ t \in Waiters /\ pc \in [Tasks -> PC]
  BY DEF err, QueuedPc, Inv, TypeOK
<1>2. pc'[t] = "idle" /\ \A u \in Tasks \ {t} : pc'[u] = pc[u]
  BY <1>1 DEF err
<1>3. owner.task # t
  BY <1>1 DEF Inv, OwnerInv, HoldingPc, FlagsMatchList, PickupPc
<1>4. /\ wait_list' \in Seq(Tasks)
      /\ \A i, j \in 1 .. Len(wait_list') : wait_list'[i] = wait_list'[j] => i = j
      /\ Waiters' = Waiters \ {t}
      /\ Head(wait_list) # t
           => wait_list' # <<>> /\ Head(wait_list') = Head(wait_list)
      /\ owner' \in Word /\ owner'.task = owner.task /\ owner'.pickup = owner.pickup
      /\ owner'.waiters <=> wait_list' # <<>>
      /\ owner'.handoff => wait_list' # <<>>
  BY <1>1, <1>3, RemoveWaiter DEF err
<1>5. /\ UNCHANGED <<osq, seen, wake_q, wake_node, first>>
      /\ \A u \in Tasks \ {t} : mode'[u] = mode[u] /\ sig'[u] = sig[u]
                                /\ state'[u] = state[u]
  BY DEF err, Inv, TypeOK
<1>6. wait_lock' = NULL /\ wait_lock = t
  BY <1>1 DEF err, LockedPc
<1>7. TypeOK'
  BY <1>1, <1>4, <1>5, <1>6 DEF err, Inv, TypeOK, PC, Signals
<1>8. WaitLockInv' /\ OwnerInv'
  BY <1>1, <1>2, <1>3, <1>4, <1>6, MutexAssumption
     DEF Inv, WaitLockInv, OwnerInv, LockedPc, HoldingPc
<1>9. ListInv' /\ OsqInv'
  BY <1>1, <1>2, <1>4, <1>5 DEF Inv, ListInv, OsqInv, QueuedPc, SpinPc
<1>10. FlagsMatchList'
  <2>1. ASSUME owner.pickup
        PROVE  /\ owner.task \in Tasks \ {t} /\ Head(wait_list) = owner.task
               /\ pc[owner.task] \in PickupPc
    BY <1>3, <2>1, FirstWaits DEF Inv, FlagsMatchList, IsFirst
  <2> QED BY <1>2, <1>3, <1>4, <2>1 DEF FlagsMatchList, IsFirst
<1>11. WakeInv' /\ CancelInv'
  BY <1>1, <1>2, <1>4, <1>5 DEF Inv, WakeInv, CancelInv
<1>12. ModeInv'
  BY <1>1, <1>2, <1>5 DEF Inv, ModeInv, Waiting, QueuedPc, SpinPc, EnterPc
<1>13. NoLostWakeup'
  <2>1. CASE owner.task = NULL
    <3>1. PICK u \in Tasks : pc[u] = "unlock_wait"
      BY <1>1, <2>1 DEF Inv, CancelInv
    <3>2. pc'[u] = "unlock_wait"
      BY <1>1, <1>2, <3>1
    <3> QED BY <3>2 DEF NoLostWakeup, WillAct
  <2>2. CASE owner.pickup
    <3>1. /\ wait_list # <<>> /\ Head(wait_list) \in Tasks \ {t}
          /\ Head(wait_list') = Head(wait_list)
      BY <1>3, <1>4, <2>2, FirstWaits DEF Inv, FlagsMatchList, IsFirst
    <3>2. WillAct(Head(wait_list))
      BY <2>2, <3>1 DEF Inv, NoLostWakeup
    <3>3. WillAct(Head(wait_list))'
      BY <1>1, <1>2, <1>5, <3>1, <3>2 DEF WillAct
    <3> QED BY <3>3 DEF NoLostWakeup
  <2> QED BY <1>4, <2>1, <2>2 DEF NoLostWakeup
<1> QED BY <1>7, <1>8, <1>9, <1>10, <1>11, <1>12, <1>13 DEF Inv

\* The fast path releases a mutex that nobody waits for.
LEMMA UnlockFastInv ==
  ASSUME Inv, NEW t \in Tasks, mutex_unlock_fast(t)
  PROVE  Inv'
<1> USE PcFacts DEF Goto, listvars, spinvars, wakevars, callvars
<1>1. pc[t] = "cs" /\ pc \in [Tasks -> PC]
  BY DEF mutex_unlock_fast, Inv, TypeOK
<1>2. pc'[t] = "idle" /\ \A u \in Tasks \ {t} : pc'[u] = pc[u]
  BY <1>1 DEF mutex_unlock_fast
<1>3. /\ owner.task = t /\ ~owner.waiters /\ ~owner.pickup
      /\ owner' \in Word /\ owner'.task = NULL /\ ~owner'.waiters
      /\ ~owner'.handoff /\ ~owner'.pickup
  BY DEF mutex_unlock_fast, ZERO, Word
<1>4. wait_list = <<>>
  BY <1>3 DEF Inv, FlagsMatchList
<1>5. /\ UNCHANGED <<wait_lock, wait_list, osq, seen, wake_q, wake_node, mode,
                     sig, state, first>>
      /\ Waiters' = Waiters
  BY DEF mutex_unlock_fast, Waiters
<1>6. TypeOK'
  BY <1>1, <1>3, <1>5 DEF mutex_unlock_fast, Inv, TypeOK, PC
<1>7. WaitLockInv' /\ OwnerInv'
  BY <1>1, <1>2, <1>3, <1>5, MutexAssumption
     DEF Inv, WaitLockInv, OwnerInv, LockedPc, HoldingPc
<1>8. ListInv' /\ OsqInv'
  BY <1>1, <1>2, <1>5 DEF Inv, ListInv, OsqInv, QueuedPc, SpinPc
<1>9. FlagsMatchList' /\ NoLostWakeup'
  BY <1>3, <1>4, <1>5 DEF FlagsMatchList, NoLostWakeup
<1>10. CancelInv'
  <2>1. Waiters = {}
    BY <1>4 DEF Waiters
  <2> QED BY <1>1, <1>2, <2>1 DEF CancelInv, QueuedPc
<1>11. WakeInv' /\ ModeInv'
  BY <1>1, <1>2, <1>5 DEF Inv, WakeInv, ModeInv, Waiting, QueuedPc, SpinPc, EnterPc
<1> QED BY <1>6, <1>7, <1>8, <1>9, <1>10, <1>11 DEF Inv

\* The slow path releases the mutex and, if somebody waits, goes on to look
\* for the first waiter; or it leaves the mutex to be handed off.
LEMMA UnlockOwnerInv ==
  ASSUME Inv, NEW t \in Tasks, unlock_owner(t)
  PROVE  Inv'
<1>1. CASE owner.handoff
  <2> USE PcFacts DEF unlock_owner, Goto, listvars, spinvars, wakevars, callvars,
                      PC, LockedPc, HoldingPc, QueuedPc, SpinPc, EnterPc, WakerPc
  <2>1. Moves(t, "unlock_handoff")
    BY <1>1 DEF Moves, Inv, TypeOK
  <2>2. Step(t, "unlock_handoff")
    BY <1>1, <2>1 DEF Step, Locks, Queues, KeepsWakeups
  <2>3. KeepsMode(t, "unlock_handoff")
    BY DEF KeepsMode
  <2>4. KeepsOwner(t, "unlock_handoff")
    BY <1>1 DEF KeepsOwner, Inv, FlagsMatchList, PickupPc, SleepPc
  <2> QED BY <2>2, <2>3, <2>4, LocalStep
<1>2. CASE ~owner.handoff
  <2> USE PcFacts DEF Goto, listvars, spinvars, wakevars, callvars
  <2> DEFINE l == IF owner.waiters THEN "unlock_wait" ELSE "idle"
  <2>1. pc[t] = "unlock_slow" /\ pc \in [Tasks -> PC]
    BY DEF unlock_owner, Inv, TypeOK
  <2>2. pc' = [pc EXCEPT ![t] = l]
    BY <1>2 DEF unlock_owner
  <2>3. pc'[t] = l /\ \A u \in Tasks \ {t} : pc'[u] = pc[u]
    BY <2>1, <2>2
  <2>4. l \in {"unlock_wait", "idle"} /\ (owner.waiters => l = "unlock_wait")
    OBVIOUS
  <2> HIDE DEF l
  <2>5. owner.task = t /\ ~owner.pickup
    BY <2>1 DEF Inv, OwnerInv, HoldingPc
  <2>6. /\ owner' \in Word /\ owner'.task = NULL /\ owner'.waiters = owner.waiters
        /\ ~owner'.handoff /\ ~owner'.pickup
    BY <1>2, <2>5 DEF unlock_owner, Inv, TypeOK, Word
  <2>7. /\ UNCHANGED <<wait_lock, wait_list, osq, seen, wake_q, wake_node, mode,
                       sig, state, first>>
        /\ Waiters' = Waiters
    BY DEF unlock_owner, Waiters
  <2>8. TypeOK'
    BY <2>1, <2>2, <2>4, <2>6, <2>7 DEF Inv, TypeOK, PC, WakerPc
  <2>9. WaitLockInv' /\ OwnerInv'
    BY <2>1, <2>3, <2>4, <2>5, <2>6, <2>7, MutexAssumption
       DEF Inv, WaitLockInv, OwnerInv, LockedPc, HoldingPc
  <2>10. ListInv' /\ OsqInv'
    BY <2>1, <2>3, <2>4, <2>7 DEF Inv, ListInv, OsqInv, QueuedPc, SpinPc
  <2>11. FlagsMatchList'
    BY <2>6, <2>7 DEF Inv, FlagsMatchList
  <2>12. wait_list # <<>> => pc'[t] = "unlock_wait"
    BY <2>3, <2>4 DEF Inv, FlagsMatchList
  <2>13. NoLostWakeup'
    BY <2>7, <2>12 DEF NoLostWakeup, WillAct
  <2>14. CancelInv'
    <3>1. ASSUME NEW u \in Tasks, pc'[u] \in {"signal_check", "err"}
          PROVE  wait_list # <<>>
      <4>1. u \in Waiters
        BY <2>3, <2>4, <3>1 DEF QueuedPc
      <4> QED BY <4>1 DEF Waiters
    <3> QED BY <2>12, <3>1 DEF CancelInv
  <2>15. WakeInv' /\ ModeInv'
    BY <2>1, <2>3, <2>4, <2>7
       DEF Inv, WakeInv, ModeInv, Waiting, QueuedPc, SpinPc, EnterPc
  <2> QED BY <2>8, <2>9, <2>10, <2>11, <2>13, <2>14, <2>15 DEF Inv
<1> QED BY <1>1, <1>2

\* What the wait_lock section of the unlock does to the wakeups: if somebody
\* waits, the first waiter has a wakeup under way, ours or an earlier one.
LEMMA UnlockWakes ==
  ASSUME Inv, NEW t \in Tasks, unlock_wait(t)
  PROVE  /\ pc' \in [Tasks -> PC]
         /\ pc'[t] \in {"idle", "wake_up_q"}
         /\ \A u \in Tasks \ {t} : pc'[u] = pc[u]
         /\ wake_q' \in [Tasks -> Tasks \cup {NULL}] /\ wake_node' \subseteq Tasks
         /\ WakeInv'
         /\ wait_list # <<>>
              => \E u \in Tasks : pc'[u] = "wake_up_q" /\ wake_q'[u] = Head(wait_list)
<1> USE DEF Goto, wakevars
<1>1. /\ pc[t] \in {"unlock_wait", "unlock_handoff"} /\ pc \in [Tasks -> PC]
      /\ wake_q \in [Tasks -> Tasks \cup {NULL}] /\ wake_node \subseteq Tasks
  BY DEF unlock_wait, Inv, TypeOK
<1>2. wake_q[t] = NULL
  BY <1>1 DEF Inv, WakeInv
<1>3. CASE wait_list = <<>>
  <2>1. pc' = [pc EXCEPT ![t] = "idle"] /\ UNCHANGED <<wake_q, wake_node>>
    BY <1>3 DEF unlock_wait
  <2> QED BY <1>1, <1>3, <2>1 DEF PC, Inv, WakeInv
<1>4. CASE wait_list # <<>>
  <2>1. Head(wait_list) \in Tasks
    BY <1>4, FirstWaits DEF Inv
  <2>2. PICK h \in Tasks : h = Head(wait_list)
    BY <2>1
  <2>3. wake_q_add(t, h)
    BY <1>4, <2>2, MutexAssumption DEF unlock_wait
  <2>4. CASE h \in wake_node
    <3>1. pc' = [pc EXCEPT ![t] = "idle"] /\ UNCHANGED <<wake_q, wake_node>>
      BY <2>3, <2>4 DEF wake_q_add
    <3>2. WakeInv'
      BY <1>1, <3>1 DEF Inv, WakeInv
    <3>3. \E u \in Tasks : pc'[u] = "wake_up_q" /\ wake_q'[u] = h
      BY <2>4, <3>1, <3>2 DEF WakeInv
    <3> QED BY <1>1, <2>2, <3>1, <3>2, <3>3 DEF PC
  <2>5. CASE h \notin wake_node
    <3>1. /\ pc' = [pc EXCEPT ![t] = "wake_up_q"]
          /\ wake_q' = [wake_q EXCEPT ![t] = h]
          /\ wake_node' = wake_node \cup {h}
      BY <2>3, <2>5 DEF wake_q_add
    <3>2. WakeInv'
      BY <1>1, <1>2, <3>1, MutexAssumption DEF Inv, WakeInv
    <3> QED BY <1>1, <2>2, <3>1, <3>2 DEF PC, WakerPc
  <2> QED BY <2>4, <2>5
<1> QED BY <1>3, <1>4

\* The wait_lock section of the unlock: with HANDOFF seen, the mutex goes to
\* the first waiter, which is not in a wait_lock section and so can only pick
\* it up.
LEMMA UnlockWaitInv ==
  ASSUME Inv, NEW t \in Tasks, unlock_wait(t)
  PROVE  Inv'
<1> USE PcFacts DEF listvars, spinvars, callvars
<1>1. /\ pc[t] \in {"unlock_wait", "unlock_handoff"} /\ wait_lock = NULL
      /\ t \notin Waiters
  BY DEF unlock_wait, QueuedPc, SpinPc
<1>2. /\ pc' \in [Tasks -> PC]
      /\ pc'[t] \in {"idle", "wake_up_q"}
      /\ \A u \in Tasks \ {t} : pc'[u] = pc[u]
      /\ wake_q' \in [Tasks -> Tasks \cup {NULL}] /\ wake_node' \subseteq Tasks
      /\ WakeInv'
      /\ wait_list # <<>>
           => \E u \in Tasks : pc'[u] = "wake_up_q" /\ wake_q'[u] = Head(wait_list)
  BY UnlockWakes
<1>3. /\ UNCHANGED <<wait_lock, wait_list, osq, seen, mode, sig, state, first>>
      /\ Waiters' = Waiters
  BY DEF unlock_wait, Waiters
<1>4. \A u \in Tasks : pc[u] \notin LockedPc
  BY <1>1, MutexAssumption
<1>5. WaitLockInv' /\ ListInv' /\ OsqInv'
  BY <1>1, <1>2, <1>3 DEF Inv, WaitLockInv, ListInv, OsqInv, LockedPc, QueuedPc, SpinPc
<1>6. CancelInv'
  BY <1>2, <1>4 DEF CancelInv, LockedPc
<1>7. ModeInv'
  BY <1>1, <1>2, <1>3 DEF Inv, ModeInv, Waiting, QueuedPc, SpinPc, EnterPc
<1>8. NoLostWakeup'
  BY <1>2, <1>3 DEF NoLostWakeup, WillAct
<1>9. TypeOK' /\ OwnerInv' /\ FlagsMatchList'
  <2>1. CASE pc[t] = "unlock_wait"
    <3>1. UNCHANGED owner
      BY <2>1 DEF unlock_wait
    <3>2. TypeOK'
      BY <1>2, <1>3, <3>1 DEF Inv, TypeOK
    <3>3. OwnerInv'
      BY <1>2, <2>1, <3>1 DEF Inv, OwnerInv, HoldingPc
    <3>4. FlagsMatchList'
      <4>1. owner.pickup => owner.task \in Tasks \ {t}
        BY <1>1, FirstWaits DEF Inv, FlagsMatchList, IsFirst
      <4> QED BY <1>2, <1>3, <3>1, <4>1 DEF Inv, FlagsMatchList, IsFirst
    <3> QED BY <3>2, <3>3, <3>4
  <2>2. CASE pc[t] = "unlock_handoff"
    <3>1. owner.task = t /\ ~owner.pickup
      BY <2>2 DEF Inv, OwnerInv, HoldingPc
    <3>2. \A u \in Tasks : pc'[u] \notin HoldingPc
      BY <1>2, <3>1 DEF Inv, OwnerInv, HoldingPc
    <3>3. CASE wait_list = <<>>
      <4>1. owner' = [task |-> NULL, waiters |-> owner.waiters,
                      handoff |-> FALSE, pickup |-> FALSE]
        BY <2>2, <3>3 DEF unlock_wait, handoff
      <4>2. owner' \in Word
        BY <4>1 DEF Word, Inv, TypeOK
      <4>3. TypeOK'
        BY <1>2, <1>3, <4>2 DEF Inv, TypeOK
      <4> QED BY <1>3, <3>2, <4>1, <4>3, MutexAssumption
              DEF Inv, OwnerInv, FlagsMatchList
    <3>4. CASE wait_list # <<>>
      <4>1. Head(wait_list) \in Tasks /\ Head(wait_list) \in Waiters
        BY <3>4, FirstWaits DEF Inv
      <4>2. PICK h \in Tasks : h = Head(wait_list) /\ h \in Waiters
        BY <4>1
      <4>3. owner' = [task |-> h, waiters |-> owner.waiters,
                      handoff |-> FALSE, pickup |-> TRUE]
        BY <2>2, <3>4, <4>2, MutexAssumption DEF unlock_wait, handoff
      <4>4. owner' \in Word
        BY <4>3 DEF Word, Inv, TypeOK
      <4>5. TypeOK'
        BY <1>2, <1>3, <4>4 DEF Inv, TypeOK
      <4>6. OwnerInv'
        BY <3>2, <4>3, MutexAssumption DEF OwnerInv
      <4>7. pc'[h] \in PickupPc
        BY <1>1, <1>2, <1>4, <3>2, <4>2
           DEF PickupPc, QueuedPc, SpinPc, LockedPc, HoldingPc
      <4>8. FlagsMatchList'
        BY <1>3, <3>4, <4>2, <4>3, <4>7 DEF Inv, FlagsMatchList, IsFirst
      <4> QED BY <4>5, <4>6, <4>8
    <3> QED BY <3>3, <3>4
  <2> QED BY <1>1, <2>1, <2>2
<1> QED BY <1>2, <1>5, <1>6, <1>7, <1>8, <1>9 DEF Inv

\* wake_up_q() and wake_up_process().  The task woken is TASK_RUNNING when
\* the record of the wakeup goes.
LEMMA WakeUpInv ==
  ASSUME Inv, NEW t \in Tasks, wake_up_q(t) \/ wake_up_process(t)
  PROVE  Inv'
<1> USE PcFacts DEF Goto, listvars, spinvars, callvars
<1>1. PICK l \in {"wake_up_process", "idle"} :
        /\ pc[t] = IF l = "idle" THEN "wake_up_process" ELSE "wake_up_q"
        /\ pc' = [pc EXCEPT ![t] = l]
        /\ l = "idle" => wake_up_process(t)
        /\ l = "wake_up_process" => wake_up_q(t)
  BY DEF wake_up_q, wake_up_process
<1>2. pc'[t] = l /\ (\A u \in Tasks \ {t} : pc'[u] = pc[u]) /\ pc \in [Tasks -> PC]
  BY <1>1 DEF Inv, TypeOK
<1>3. wake_q[t] \in Tasks
  BY <1>1 DEF Inv, WakeInv, TypeOK
<1>4. /\ UNCHANGED <<owner, wait_lock, wait_list, osq, seen, mode, sig, first>>
      /\ Waiters' = Waiters
  BY DEF wake_up_q, wake_up_process, Waiters
<1>5. PICK w \in Tasks : w = wake_q[t]
  BY <1>3
<1>6. /\ l = "idle" => /\ state' = [state EXCEPT ![w] = "TASK_RUNNING"]
                       /\ wake_q' = [wake_q EXCEPT ![t] = NULL]
                       /\ UNCHANGED wake_node
      /\ l = "wake_up_process" => /\ wake_node' = wake_node \ {w}
                                  /\ UNCHANGED <<state, wake_q>>
  BY <1>1, <1>5 DEF wake_up_q, wake_up_process
<1>7. TypeOK'
  <2>1. CASE l = "idle"
    BY <1>1, <1>2, <1>4, <1>6, <2>1 DEF Inv, TypeOK, PC
  <2>2. CASE l = "wake_up_process"
    BY <1>1, <1>2, <1>4, <1>6, <2>2 DEF Inv, TypeOK, PC, WakerPc
  <2> QED BY <2>1, <2>2
<1>8. WaitLockInv' /\ OwnerInv'
  BY <1>1, <1>2, <1>4 DEF Inv, WaitLockInv, OwnerInv, LockedPc, HoldingPc
<1>9. ListInv' /\ OsqInv'
  BY <1>1, <1>2, <1>4 DEF Inv, ListInv, OsqInv, QueuedPc, SpinPc
<1>10. FlagsMatchList'
  <2>1. t \notin Waiters
    BY <1>1 DEF QueuedPc, SpinPc
  <2>2. owner.pickup => owner.task \in Tasks \ {t}
    BY <2>1, FirstWaits DEF Inv, FlagsMatchList, IsFirst
  <2> QED BY <1>2, <1>4, <2>2 DEF Inv, FlagsMatchList, IsFirst
<1>11. WakeInv'
  <2>1. CASE l = "idle"
    BY <1>1, <1>2, <1>6, <2>1 DEF Inv, TypeOK, WakeInv
  <2>2. CASE l = "wake_up_process"
    BY <1>1, <1>2, <1>5, <1>6, <2>2 DEF Inv, TypeOK, WakeInv
  <2> QED BY <2>1, <2>2
<1>12. CancelInv'
  BY <1>1, <1>2, <1>4 DEF Inv, CancelInv
<1>13. ModeInv'
  BY <1>1, <1>2, <1>4 DEF Inv, ModeInv, Waiting, QueuedPc, SpinPc, EnterPc
<1>14. NoLostWakeup'
  <2> SUFFICES ASSUME wait_list # <<>>, owner.task = NULL \/ owner.pickup
               PROVE  WillAct(Head(wait_list))'
    BY <1>4 DEF NoLostWakeup
  <2>1. Head(wait_list) \in Tasks /\ Head(wait_list) # t
    BY <1>1, FirstWaits DEF Inv, QueuedPc, SpinPc
  <2>2. PICK h \in Tasks : h = Head(wait_list) /\ h # t
    BY <2>1
  <2>3. WillAct(h)
    BY <2>2 DEF Inv, NoLostWakeup
  <2>4. ASSUME h = w, l = "idle" PROVE state'[h] = "TASK_RUNNING"
    BY <1>6, <2>4 DEF Inv, TypeOK
  <2>5. state[h] = "TASK_RUNNING" => state'[h] = "TASK_RUNNING"
    BY <1>1, <1>6 DEF Inv, TypeOK
  <2>6. ASSUME NEW u \in Tasks, pc[u] \in {"wake_up_q", "wake_up_process"},
               wake_q[u] = h
        PROVE  \/ pc'[u] \in {"wake_up_q", "wake_up_process"} /\ wake_q'[u] = h
               \/ state'[h] = "TASK_RUNNING"
    BY <1>1, <1>2, <1>5, <1>6, <2>4, <2>6 DEF Inv, TypeOK
  <2>7. ASSUME NEW u \in Tasks, pc[u] = "unlock_wait"
        PROVE  pc'[u] = "unlock_wait"
    BY <1>1, <1>2, <2>7
  <2>8. pc'[h] = pc[h] /\ Head(wait_list)' = h
    BY <1>2, <1>4, <2>2
  <2> QED BY <2>3, <2>5, <2>6, <2>7, <2>8 DEF WillAct
<1> QED BY <1>7, <1>8, <1>9, <1>10, <1>11, <1>12, <1>13, <1>14 DEF Inv

-----------------------------------------------------------------------------
(***************************************************************************)
(* The invariant and what follows from it.                                  *)
(***************************************************************************)
\* A mutex fresh from __mutex_init() satisfies the invariant.
LEMMA InitInv == Init => Inv
<1> SUFFICES ASSUME Init PROVE Inv
  OBVIOUS
<1> USE MutexAssumption DEF Init
<1>1. wait_list \in Seq(Tasks) /\ Len(wait_list) = 0 /\ Waiters = {}
  BY DEF Waiters
<1>2. TypeOK
  BY <1>1 DEF TypeOK, Word, ZERO, PC, Signals
<1>3. WaitLockInv /\ OwnerInv
  BY DEF WaitLockInv, OwnerInv, ZERO, LockedPc, HoldingPc
<1>4. ListInv /\ OsqInv
  BY <1>1 DEF ListInv, OsqInv, QueuedPc, SpinPc
<1>5. FlagsMatchList /\ NoLostWakeup
  BY DEF FlagsMatchList, NoLostWakeup, ZERO
<1>6. WakeInv /\ CancelInv
  BY DEF WakeInv, CancelInv
<1>7. ModeInv
  BY DEF ModeInv, Waiting, QueuedPc, SpinPc, EnterPc
<1> QED BY <1>2, <1>3, <1>4, <1>5, <1>6, <1>7 DEF Inv

\* Every step keeps the invariant.
LEMMA NextInv == Inv /\ [Next]_vars => Inv'
<1> SUFFICES ASSUME Inv, [Next]_vars PROVE Inv'
  OBVIOUS
<1>1. CASE UNCHANGED vars
  BY <1>1 DEF vars, Inv, TypeOK, WaitLockInv, OwnerInv, ListInv, OsqInv,
     FlagsMatchList, WakeInv, CancelInv, ModeInv, NoLostWakeup, Waiters, IsFirst,
     Waiting, WillAct
<1>2. ASSUME NEW t \in Tasks, Call(t) PROVE Inv'
  BY <1>2, TakeInv, LockSlowInv DEF Call
<1>3. ASSUME NEW t \in Tasks, Spin(t) PROVE Inv'
  BY <1>3, CanSpinInv, OsqLockInv, SpinTrylockInv, OwnerChangedInv,
     StopSpinningInv, OsqUnlockInv DEF Spin
<1>4. ASSUME NEW t \in Tasks, Wait(t) PROVE Inv'
  BY <1>4, WaitLockTrylockInv, AddWaiterInv, LoopTrylockInv, SignalCheckInv,
     ScheduleInv, ScheduleReturnsInv, RequestHandoffInv, SetStateInv,
     RetryTrylockInv, LockWaitInv, AcquiredInv, ErrInv DEF Wait
<1>5. ASSUME NEW t \in Tasks, Unlock(t) PROVE Inv'
  BY <1>5, UnlockFastInv, UnlockSlowInv, UnlockOwnerInv, UnlockWaitInv,
     WakeUpInv DEF Unlock
<1>6. ASSUME NEW t \in Tasks, slowpath_trylock(t) PROVE Inv'
  BY <1>6, SlowTrylockInv
<1>7. ASSUME NEW t \in Tasks, \E s \in SIGNALS : signal_wake_up(t, s) PROVE Inv'
  BY <1>7, SignalInv
<1> QED BY <1>1, <1>2, <1>3, <1>4, <1>5, <1>6, <1>7 DEF Next, Continue

\* The invariant holds in every reachable state, for any number of tasks.
THEOREM InvHolds == Spec => []Inv
<1> QED BY InitInv, NextInv, PTL DEF Spec

\* Every variable keeps its type and no task is on the wait list twice.
THEOREM TypeCorrect == Spec => []TypeOK
<1>1. Inv => TypeOK
  BY DEF Inv
<1> QED BY <1>1, InvHolds, PTL

\* At most one task holds the mutex: the owner word names the holder.
THEOREM MutualExclusionHolds == Spec => []MutualExclusion
<1>1. Inv => MutualExclusion
  BY DEF Inv, OwnerInv, MutualExclusion, Holders
<1> QED BY <1>1, InvHolds, PTL

\* No wakeup is lost: a mutex that is free or handed over and waited for has
\* somebody who will act on it.
THEOREM NoLostWakeupHolds == Spec => []NoLostWakeup
<1>1. Inv => NoLostWakeup
  BY DEF Inv
<1> QED BY <1>1, InvHolds, PTL

\* WAITERS, HANDOFF and PICKUP agree with the wait list.
THEOREM FlagsMatchListHolds == Spec => []FlagsMatchList
<1>1. Inv => FlagsMatchList
  BY DEF Inv
<1> QED BY <1>1, InvHolds, PTL

-----------------------------------------------------------------------------
(***************************************************************************)
(* The contract.                                                            *)
(***************************************************************************)
\* What a step does to the task in the contract's terms.
LEMMA PhaseStep ==
  ASSUME TypeOK, NEW t \in Tasks, NEW l \in PC, pc' = [pc EXCEPT ![t] = l]
  PROVE  Phase' = [Phase EXCEPT ![t] = PhaseOf(l)] /\ Phase[t] = PhaseOf(pc[t])
<1>1. pc \in [Tasks -> PC]
  BY DEF TypeOK
<1>2. \A u \in Tasks : pc'[u] = IF u = t THEN l ELSE pc[u]
  BY <1>1
<1>3. \A u \in Tasks : PhaseOf(pc'[u]) = IF u = t THEN PhaseOf(l) ELSE PhaseOf(pc[u])
  BY <1>2 DEF PhaseOf
<1>4. Phase' = [u \in Tasks |-> PhaseOf(pc'[u])]
  BY DEF Phase, PhaseOf
<1> QED BY <1>3, <1>4 DEF Phase

\* A task that may take the mutex finds it without a holder.
LEMMA NoHolder ==
  ASSUME Inv, NEW t \in Tasks, CanTake(t)
  PROVE  Contract!Holders = {}
<1>1. \A u \in Tasks : pc[u] \notin HoldingPc
  BY MutexAssumption DEF Inv, OwnerInv, CanTake
<1> QED BY <1>1 DEF Contract!Holders, Phase, PhaseOf

\* A step within the operation under way is no step of the contract.
LEMMA Silent ==
  ASSUME Inv, NEW t \in Tasks, NEW l \in PC, pc' = [pc EXCEPT ![t] = l],
         PhaseOf(l) = PhaseOf(pc[t]), UNCHANGED <<mode, sig>>
  PROVE  [Contract!Next]_(Contract!vars)
<1>1. Phase' = [Phase EXCEPT ![t] = PhaseOf(l)] /\ Phase[t] = PhaseOf(pc[t])
  BY PhaseStep DEF Inv
<1>2. Phase' = Phase
  BY <1>1 DEF Phase
<1> QED BY <1>2 DEF Contract!vars

\* An attempt that succeeds is the contract's Grant.
LEMMA Granted ==
  ASSUME Inv, NEW t \in Tasks, NEW l \in HoldingPc, pc' = [pc EXCEPT ![t] = l],
         PhaseOf(pc[t]) = "waiting", Acquire(t)
  PROVE  [Contract!Next]_(Contract!vars)
<1>1. l \in PC /\ PhaseOf(l) = "holding"
  BY DEF PC, PhaseOf
<1>2. Phase' = [Phase EXCEPT ![t] = "holding"] /\ Phase[t] = "waiting"
  BY <1>1, PhaseStep DEF Inv
<1>3. Contract!Holders = {}
  BY NoHolder DEF Acquire
<1> QED BY <1>2, <1>3 DEF Contract!Next, Contract!Grant, Acquire

\* A holder's unlock is the contract's Release.
LEMMA Released ==
  ASSUME Inv, NEW t \in Tasks, NEW l \in PC, pc' = [pc EXCEPT ![t] = l],
         PhaseOf(pc[t]) = "holding", PhaseOf(l) = "idle", UNCHANGED <<mode, sig>>
  PROVE  [Contract!Next]_(Contract!vars)
<1>1. Phase' = [Phase EXCEPT ![t] = "idle"] /\ Phase[t] = "holding"
  BY PhaseStep DEF Inv
<1> QED BY <1>1 DEF Contract!Next, Contract!Release

\* The mutex implements its contract: it has one holder at a time, and a lock
\* operation fails only with a signal pending that its mode heeds.
THEOREM Implements == Spec => ImplementsMutex
<1>1. Init => Contract!Init
  BY DEF Init, Contract!Init, Phase, PhaseOf, HoldingPc, QueuedPc, SpinPc, EnterPc
<1>2. ASSUME Inv, [Next]_vars PROVE [Contract!Next]_(Contract!vars)
  <2> USE DEF Goto, callvars, PhaseOf, PC, HoldingPc, QueuedPc, SpinPc, EnterPc,
              WakerPc
  <2>0. \A t \in Tasks : (t \in Waiters => pc[t] \in QueuedPc \cup SpinPc)
                         /\ pc[t] \in PC
    BY <1>2 DEF Inv, ListInv, TypeOK
  <2>1. CASE UNCHANGED vars
    BY <2>1 DEF vars, Contract!vars, Phase
  <2>2. ASSUME NEW t \in Tasks, mutex_lock_fast(t) \/ mutex_trylock(t)
        PROVE  [Contract!Next]_(Contract!vars)
    <3>1. CanTake(t) /\ pc' = [pc EXCEPT ![t] = "cs"] /\ pc[t] = "idle"
          /\ UNCHANGED <<mode, sig>>
      BY <2>2 DEF mutex_lock_fast, mutex_trylock, CanTake, ZERO
    <3>2. Phase' = [Phase EXCEPT ![t] = "holding"] /\ Phase[t] = "idle"
      BY <1>2, <3>1, PhaseStep DEF Inv
    <3>3. Contract!Holders = {}
      BY <1>2, <3>1, NoHolder
    <3> QED BY <3>1, <3>2, <3>3 DEF Contract!Next, Contract!Take
  <2>3. ASSUME NEW t \in Tasks, NEW m \in MODES, mutex_lock_slow(t, m)
        PROVE  [Contract!Next]_(Contract!vars)
    <3>1. Phase' = [Phase EXCEPT ![t] = "waiting"] /\ Phase[t] = "idle"
      BY <1>2, <2>3, PhaseStep DEF Inv, mutex_lock_slow
    <3> QED BY <2>3, <3>1 DEF Contract!Next, Contract!Request, mutex_lock_slow
  <2>4. ASSUME NEW t \in Tasks, slowpath_trylock(t) \/ loop_trylock(t)
        PROVE  [Contract!Next]_(Contract!vars)
    <3>1. CASE CanTake(t)
      BY <1>2, <2>4, <3>1, Granted DEF slowpath_trylock, loop_trylock
    <3>2. CASE ~CanTake(t)
      BY <1>2, <2>4, <3>2, Silent DEF slowpath_trylock, loop_trylock, Acquire
    <3> QED BY <3>1, <3>2
  <2>5. ASSUME NEW t \in Tasks,
               spin_trylock(t) \/ wait_lock_trylock(t) \/ retry_trylock(t)
        PROVE  [Contract!Next]_(Contract!vars)
    <3>1. CASE CanTake(t)
      BY <1>2, <2>5, <3>1, Granted DEF spin_trylock, wait_lock_trylock, retry_trylock
    <3>2. CASE ~CanTake(t)
      BY <1>2, <2>5, <3>2, Silent
         DEF spin_trylock, wait_lock_trylock, retry_trylock, Acquire
    <3> QED BY <3>1, <3>2
  <2>6. ASSUME NEW t \in Tasks,
               \/ mutex_can_spin_on_owner(t) \/ osq_lock(t) \/ owner_changed(t)
               \/ stop_spinning(t) \/ osq_unlock(t)
        PROVE  [Contract!Next]_(Contract!vars)
    BY <1>2, <2>0, <2>6, Silent
       DEF mutex_can_spin_on_owner, osq_lock, owner_changed, stop_spinning, osq_unlock
  <2>7. ASSUME NEW t \in Tasks,
               \/ add_waiter(t) \/ signal_check(t) \/ schedule(t)
               \/ schedule_returns(t) \/ request_handoff(t)
        PROVE  [Contract!Next]_(Contract!vars)
    BY <1>2, <2>7, Silent
       DEF add_waiter, signal_check, schedule, schedule_returns, request_handoff
  <2>8. ASSUME NEW t \in Tasks, set_current_state(t) \/ lock_wait(t) \/ acquired(t)
        PROVE  [Contract!Next]_(Contract!vars)
    BY <1>2, <2>8, Silent DEF set_current_state, lock_wait, acquired
  <2>9. ASSUME NEW t \in Tasks, err(t)
        PROVE  [Contract!Next]_(Contract!vars)
    <3>0. pc' = [pc EXCEPT ![t] = "idle"] /\ pc[t] = "err"
      BY <2>9 DEF err
    <3>1. Phase' = [Phase EXCEPT ![t] = "idle"] /\ Phase[t] = "waiting"
      <4>1. "idle" \in PC /\ PhaseOf("idle") = "idle" /\ PhaseOf("err") = "waiting"
        OBVIOUS
      <4>2. TypeOK
        BY <1>2 DEF Inv
      <4> HIDE DEF PhaseOf, PC
      <4>3. Phase' = [Phase EXCEPT ![t] = PhaseOf("idle")] /\ Phase[t] = PhaseOf(pc[t])
        BY <3>0, <4>1, <4>2, PhaseStep
      <4> QED BY <3>0, <4>1, <4>3
    <3>2. signal_pending_state(mode[t], sig[t])
      BY <1>2, <2>9 DEF Inv, ModeInv, err
    <3> QED BY <2>9, <3>1, <3>2 DEF Contract!Next, Contract!GiveUp, err
  <2>10. ASSUME NEW t \in Tasks,
                mutex_unlock_fast(t) \/ unlock_owner(t) \/ unlock_wait(t)
         PROVE  [Contract!Next]_(Contract!vars)
    <3>1. CASE mutex_unlock_fast(t)
      BY <1>2, <3>1, Released DEF mutex_unlock_fast
    <3>2. CASE unlock_owner(t) /\ owner.handoff
      BY <1>2, <3>2, Silent DEF unlock_owner
    <3>3. CASE unlock_owner(t) /\ ~owner.handoff
      BY <1>2, <3>3, Released DEF unlock_owner
    <3>4. CASE unlock_wait(t)
      <4>1. PICK l \in {"idle", "wake_up_q"} : pc' = [pc EXCEPT ![t] = l]
        BY <3>4 DEF unlock_wait, wake_q_add
      <4>2. UNCHANGED <<mode, sig>> /\ pc[t] \in {"unlock_wait", "unlock_handoff"}
        BY <3>4 DEF unlock_wait
      <4>3. CASE pc[t] = "unlock_wait"
        BY <1>2, <4>1, <4>2, <4>3, Silent
      <4>4. CASE pc[t] = "unlock_handoff"
        BY <1>2, <4>1, <4>2, <4>4, Released
      <4> QED BY <4>2, <4>3, <4>4
    <3> QED BY <2>10, <3>1, <3>2, <3>3, <3>4
  <2>11. ASSUME NEW t \in Tasks,
                mutex_unlock_slow(t) \/ wake_up_q(t) \/ wake_up_process(t)
         PROVE  [Contract!Next]_(Contract!vars)
    BY <1>2, <2>11, Silent DEF mutex_unlock_slow, wake_up_q, wake_up_process
  <2>12. ASSUME NEW t \in Tasks, NEW s \in SIGNALS, signal_wake_up(t, s)
         PROVE  [Contract!Next]_(Contract!vars)
    <3>1. Phase' = Phase /\ Phase[t] = "waiting"
      BY <2>12 DEF signal_wake_up, Phase, Waiting
    <3>2. s \in {"signal", "fatal"}
      BY MutexAssumption
    <3> QED BY <2>12, <3>1, <3>2 DEF Contract!Next, Contract!Signal, signal_wake_up
  <2> QED BY <1>2, <2>1, <2>2, <2>3, <2>4, <2>5, <2>6, <2>7, <2>8, <2>9, <2>10,
             <2>11, <2>12 DEF Next, Call, Continue, Spin, Wait, Unlock
<1> QED BY <1>1, <1>2, InvHolds, PTL DEF Spec, ImplementsMutex, Contract!Spec

-----------------------------------------------------------------------------
\* A step that leaves the owner's task alone steals nothing, and neither does
\* one on a mutex that is free or held without HANDOFF.
LEMMA NotStolenStep ==
  ASSUME Inv, [Next]_vars
  PROVE  /\ owner.task # NULL /\ owner.handoff /\ owner'.task # owner.task
              => owner'.task = Head(wait_list)
         /\ owner.pickup => owner'.task = owner.task
<1> DEFINE Same == owner'.task = owner.task
           Free == ~owner.pickup /\ (owner.task = NULL \/ ~owner.handoff)
<1>1. CASE UNCHANGED vars
  BY <1>1 DEF vars
<1>2. ASSUME NEW t \in Tasks, CanTake(t), owner' = Taken(t)
      PROVE  Same \/ Free
  BY <1>2 DEF CanTake, Taken, Inv, TypeOK, Word, OwnerInv
<1>3. ASSUME NEW t \in Tasks, Call(t) PROVE Same \/ Free
  BY <1>2, <1>3 DEF Call, mutex_lock_fast, mutex_trylock, mutex_lock_slow, ZERO
<1>4. ASSUME NEW t \in Tasks, slowpath_trylock(t) \/ Spin(t) PROVE Same \/ Free
  BY <1>2, <1>4 DEF slowpath_trylock, Spin, mutex_can_spin_on_owner, osq_lock,
     spin_trylock, owner_changed, stop_spinning, osq_unlock, Acquire
<1>5. ASSUME NEW t \in Tasks, Wait(t) PROVE Same \/ Free
  <2>1. CASE wait_lock_trylock(t) \/ loop_trylock(t) \/ retry_trylock(t)
    BY <1>2, <2>1 DEF wait_lock_trylock, loop_trylock, retry_trylock, Acquire
  <2>2. CASE add_waiter(t) \/ request_handoff(t)
    BY <2>2 DEF add_waiter, request_handoff, Inv, TypeOK, Word
  <2>3. CASE acquired(t) \/ err(t)
    BY <2>3 DEF acquired, err, remove_waiter, ZERO
  <2>4. CASE signal_check(t) \/ schedule(t) \/ schedule_returns(t)
             \/ set_current_state(t) \/ lock_wait(t)
    BY <2>4 DEF signal_check, schedule, schedule_returns, set_current_state, lock_wait
  <2> QED BY <1>5, <2>1, <2>2, <2>3, <2>4 DEF Wait
<1>6. ASSUME NEW t \in Tasks, Unlock(t)
      PROVE  Same \/ Free \/ (owner'.task = Head(wait_list) /\ ~owner.pickup)
  <2>1. CASE mutex_unlock_fast(t) \/ unlock_owner(t)
    <3>1. ~owner.pickup
      BY <2>1 DEF mutex_unlock_fast, unlock_owner, Inv, OwnerInv, HoldingPc, ZERO
    <3> QED BY <2>1, <3>1 DEF mutex_unlock_fast, unlock_owner, ZERO
  <2>2. CASE unlock_wait(t) /\ pc[t] = "unlock_handoff"
    <3>1. ~owner.pickup
      BY <2>2 DEF Inv, OwnerInv, HoldingPc
    <3>2. CASE wait_list = <<>>
      BY <3>1, <3>2 DEF Inv, FlagsMatchList
    <3>3. CASE wait_list # <<>>
      BY <2>2, <3>1, <3>3 DEF unlock_wait, handoff
    <3> QED BY <3>2, <3>3
  <2>3. CASE unlock_wait(t) /\ pc[t] # "unlock_handoff"
    BY <2>3 DEF unlock_wait
  <2>4. CASE mutex_unlock_slow(t) \/ wake_up_q(t) \/ wake_up_process(t)
    BY <2>4 DEF mutex_unlock_slow, wake_up_q, wake_up_process
  <2> QED BY <1>6, <2>1, <2>2, <2>3, <2>4 DEF Unlock
<1>7. ASSUME NEW t \in Tasks, \E s \in SIGNALS : signal_wake_up(t, s) PROVE Same
  BY <1>7 DEF signal_wake_up
<1> QED BY <1>1, <1>3, <1>4, <1>5, <1>6, <1>7 DEF Next, Continue

\* HANDOFF on a held mutex is honoured and a mutex handed over is not stolen.
THEOREM NotStolenHolds == Spec => NotStolen
<1>1. Inv /\ [Next]_vars
        => [/\ owner.task # NULL /\ owner.handoff /\ owner'.task # owner.task
                 => owner'.task = Head(wait_list)
            /\ owner.pickup => owner'.task = owner.task]_vars
  BY NotStolenStep
<1> QED BY <1>1, InvHolds, PTL DEF Spec, NotStolen
=============================================================================
