-------------------------------- MODULE Osq --------------------------------
(***************************************************************************)
(* The queue of optimistic spinners, kernel/locking/osq_lock.c: an MCS lock *)
(* whose waiters can leave the queue.  Every CPU has ONE node, osq_node, and *)
(* uses it for every lock it ever spins on.                                 *)
(*                                                                         *)
(* One action is one access to lock->tail or to a field of a node that      *)
(* another CPU can reach; preemption is off, so one CPU is one process.     *)
(* A read that only decides whether to try the cmpxchg or xchg after it is  *)
(* joined with it.  need_resched() and vcpu_is_preempted() may answer       *)
(* either way at any time.  Memory is sequentially consistent.              *)
(***************************************************************************)
EXTENDS Integers, Sequences, SequencesExt

CONSTANTS
  NR_CPUS,    \* the number of CPUs
  Locks,      \* the queues: the osq of one mutex or rw_semaphore each
  NULL        \* no node, no lock

Cpus == 0 .. NR_CPUS - 1

ASSUME OsqAssumption ==
  /\ NR_CPUS \in Nat
  /\ NULL \notin Nat
  /\ NULL \notin Locks

VARIABLES
  tail,       \* lock->tail: an encoded CPU number
  next,       \* osq_node.next of each CPU
  prev,       \* osq_node.prev
  locked,     \* osq_node.locked
  pc,         \* where each CPU is
  lock,       \* the parameter lock
  lprev,      \* the local variable prev
  lnext,      \* the local variable next
  queue       \* auxiliary: the CPUs queued on each lock, the holder first

vars == <<tail, next, prev, locked, pc, lock, lprev, lnext, queue>>

OSQ_UNLOCKED_VAL == 0

encode_cpu(c) == c + 1

\* Mutant: the CPU number is not decremented.
decode_cpu_raw(v) == v

decode_cpu(v) == v - 1

\* The program counters, grouped by what the CPU is doing.
UnlockPc == {"xchg_next", "unlock_tail", "unlock_next", "unlock_grant"}
HoldPc == {"cs"} \cup UnlockPc
WaitPc == {"wait", "step_a", "step_a_locked", "step_a_prev"}
StepBPc == {"step_b_tail", "step_b_next"}
UnqueuePc == {"step_a", "step_a_locked", "step_a_prev", "step_c_prev",
              "step_c_next"} \cup StepBPc
TryPc == {"set_prev", "link", "step_c_prev"} \cup WaitPc \cup StepBPc
PC == {"idle", "xchg_tail", "step_c_next"} \cup HoldPc \cup TryPc

Goto(c, l) == pc' = [pc EXCEPT ![c] = l]

nodevars == <<next, prev, locked>>
localvars == <<lprev, lnext>>

\* What the auxiliary queue becomes: a new last CPU, the head gone, or one of
\* those that spin gone.
Enqueue(c) == queue' = [queue EXCEPT ![lock[c]] = Append(@, c)]
Dequeue(c) == queue' = [queue EXCEPT ![lock[c]] = Tail(@)]
Unqueue(c) ==
  LET q == queue[lock[c]]
      i == CHOOSE i \in 1 .. Len(q) : q[i] = c
  IN  queue' = [queue EXCEPT ![lock[c]] = RemoveAt(q, i)]

\* Back to the caller: the locals are gone.
Return(c) ==
  /\ Goto(c, "idle")
  /\ lock' = [lock EXCEPT ![c] = NULL]
  /\ lprev' = [lprev EXCEPT ![c] = NULL]
  /\ lnext' = [lnext EXCEPT ![c] = NULL]

Init ==
  /\ tail = [l \in Locks |-> OSQ_UNLOCKED_VAL]
  /\ next = [c \in Cpus |-> NULL]
  /\ prev = [c \in Cpus |-> NULL]
  /\ locked = [c \in Cpus |-> FALSE]
  /\ pc = [c \in Cpus |-> "idle"]
  /\ lock = [c \in Cpus |-> NULL]
  /\ lprev = [c \in Cpus |-> NULL]
  /\ lnext = [c \in Cpus |-> NULL]
  /\ queue = [l \in Locks |-> <<>>]

-----------------------------------------------------------------------------
(***************************************************************************)
(* osq_lock(): join the queue and wait.                                     *)
(***************************************************************************)
\* Mutant: node->locked keeps the value of the last use.
init_node_stale_locked(c, l) ==
  /\ pc[c] = "idle"
  /\ lock' = [lock EXCEPT ![c] = l]
  /\ next' = [next EXCEPT ![c] = NULL]
  /\ Goto(c, "xchg_tail")
  /\ UNCHANGED <<tail, prev, locked, localvars, queue>>

init_node(c, l) ==
  /\ pc[c] = "idle"
  /\ lock' = [lock EXCEPT ![c] = l]
  /\ locked' = [locked EXCEPT ![c] = FALSE]
  /\ next' = [next EXCEPT ![c] = NULL]
  /\ Goto(c, "xchg_tail")
  /\ UNCHANGED <<tail, prev, localvars, queue>>

xchg_tail(c) ==
  /\ pc[c] = "xchg_tail"
  /\ LET old == tail[lock[c]]
     IN  \/ old = OSQ_UNLOCKED_VAL /\ Goto(c, "cs") /\ UNCHANGED lprev
         \/ /\ old # OSQ_UNLOCKED_VAL
            /\ lprev' = [lprev EXCEPT ![c] = decode_cpu(old)]
            /\ Goto(c, "set_prev")
  /\ tail' = [tail EXCEPT ![lock[c]] = encode_cpu(c)]
  /\ Enqueue(c)
  /\ UNCHANGED <<nodevars, lock, lnext>>

set_prev(c) ==
  /\ pc[c] = "set_prev"
  /\ prev' = [prev EXCEPT ![c] = lprev[c]]
  /\ Goto(c, "link")
  /\ UNCHANGED <<tail, next, locked, lock, localvars, queue>>

link(c) ==
  /\ pc[c] = "link"
  /\ next' = [next EXCEPT ![lprev[c]] = c]
  /\ Goto(c, "wait")
  /\ UNCHANGED <<tail, prev, locked, lock, localvars, queue>>

\* osq_lock() returns true.
wait_locked(c) ==
  /\ pc[c] = "wait"
  /\ locked[c]
  /\ Goto(c, "cs")
  /\ lprev' = [lprev EXCEPT ![c] = NULL]
  /\ UNCHANGED <<tail, nodevars, lock, lnext, queue>>

\* need_resched() or vcpu_is_preempted().
stop_waiting(c) ==
  /\ pc[c] = "wait"
  /\ ~locked[c]
  /\ Goto(c, "step_a")
  /\ UNCHANGED <<tail, nodevars, lock, localvars, queue>>

-----------------------------------------------------------------------------
(***************************************************************************)
(* Unqueueing, step A: stabilize prev by taking prev->next back.            *)
(***************************************************************************)
step_a(c) ==
  /\ pc[c] = "step_a"
  /\ \/ /\ next[lprev[c]] = c
        /\ next' = [next EXCEPT ![lprev[c]] = NULL]
        /\ Goto(c, "step_b_tail")
     \/ next[lprev[c]] # c /\ Goto(c, "step_a_locked") /\ UNCHANGED next
  /\ UNCHANGED <<tail, prev, locked, lock, localvars, queue>>

step_a_locked(c) ==
  /\ pc[c] = "step_a_locked"
  /\ \/ locked[c] /\ Goto(c, "cs") /\ lprev' = [lprev EXCEPT ![c] = NULL]
     \/ ~locked[c] /\ Goto(c, "step_a_prev") /\ UNCHANGED lprev
  /\ UNCHANGED <<tail, nodevars, lock, lnext, queue>>

\* Mutant: prev is not read again.
step_a_prev_cached(c) ==
  /\ pc[c] = "step_a_prev"
  /\ Goto(c, "step_a")
  /\ UNCHANGED <<tail, nodevars, lock, localvars, queue>>

step_a_prev(c) ==
  /\ pc[c] = "step_a_prev"
  /\ lprev' = [lprev EXCEPT ![c] = prev[c]]
  /\ Goto(c, "step_a")
  /\ UNCHANGED <<tail, nodevars, lock, lnext, queue>>

-----------------------------------------------------------------------------
(***************************************************************************)
(* osq_wait_next(): move the tail back to old, or get a next.  It is step B *)
(* of unqueueing and the slow case of osq_unlock().                         *)
(***************************************************************************)
\* Mutant: the tail is set to empty in step B too.
move_tail_to_nobody(c, old) ==
  /\ tail[lock[c]] = encode_cpu(c)
  /\ tail' = [tail EXCEPT ![lock[c]] = OSQ_UNLOCKED_VAL]

move_tail(c, old) ==
  /\ tail[lock[c]] = encode_cpu(c)
  /\ tail' = [tail EXCEPT ![lock[c]] = old]

\* Mutant: next is read and left in place.
take_next_read(c) ==
  /\ next[c] # NULL
  /\ lnext' = [lnext EXCEPT ![c] = next[c]]
  /\ UNCHANGED next

take_next(c) ==
  /\ next[c] # NULL
  /\ lnext' = [lnext EXCEPT ![c] = next[c]]
  /\ next' = [next EXCEPT ![c] = NULL]

\* osq_lock() returns false: the tail was moved back to prev.
step_b_tail(c) ==
  /\ pc[c] = "step_b_tail"
  /\ \/ move_tail(c, encode_cpu(lprev[c])) /\ Return(c) /\ Unqueue(c)
     \/ /\ tail[lock[c]] # encode_cpu(c)
        /\ Goto(c, "step_b_next")
        /\ UNCHANGED <<tail, lock, localvars, queue>>
  /\ UNCHANGED nodevars

step_b_next(c) ==
  /\ pc[c] = "step_b_next"
  /\ \/ take_next(c) /\ Goto(c, "step_c_prev")
     \/ next[c] = NULL /\ Goto(c, "step_b_tail") /\ UNCHANGED <<next, lnext>>
  /\ UNCHANGED <<tail, prev, locked, lock, lprev, queue>>

\* Step C: unlink; osq_lock() returns false.
step_c_prev(c) ==
  /\ pc[c] = "step_c_prev"
  /\ prev' = [prev EXCEPT ![lnext[c]] = lprev[c]]
  /\ Goto(c, "step_c_next")
  /\ Unqueue(c)
  /\ UNCHANGED <<tail, next, locked, lock, localvars>>

step_c_next(c) ==
  /\ pc[c] = "step_c_next"
  /\ next' = [next EXCEPT ![lprev[c]] = lnext[c]]
  /\ Return(c)
  /\ UNCHANGED <<tail, prev, locked, queue>>

-----------------------------------------------------------------------------
(***************************************************************************)
(* osq_unlock()                                                             *)
(***************************************************************************)
osq_unlock(c) ==
  /\ pc[c] = "cs"
  /\ \/ move_tail(c, OSQ_UNLOCKED_VAL) /\ Return(c) /\ Dequeue(c)
     \/ /\ tail[lock[c]] # encode_cpu(c)
        /\ Goto(c, "xchg_next")
        /\ UNCHANGED <<tail, lock, localvars, queue>>
  /\ UNCHANGED nodevars

xchg_next(c) ==
  /\ pc[c] = "xchg_next"
  /\ \/ take_next(c) /\ Goto(c, "unlock_grant")
     \/ next[c] = NULL /\ Goto(c, "unlock_tail") /\ UNCHANGED <<next, lnext>>
  /\ UNCHANGED <<tail, prev, locked, lock, lprev, queue>>

unlock_tail(c) ==
  /\ pc[c] = "unlock_tail"
  /\ \/ move_tail(c, OSQ_UNLOCKED_VAL) /\ Return(c) /\ Dequeue(c)
     \/ /\ tail[lock[c]] # encode_cpu(c)
        /\ Goto(c, "unlock_next")
        /\ UNCHANGED <<tail, lock, localvars, queue>>
  /\ UNCHANGED nodevars

unlock_next(c) ==
  /\ pc[c] = "unlock_next"
  /\ \/ take_next(c) /\ Goto(c, "unlock_grant")
     \/ next[c] = NULL /\ Goto(c, "unlock_tail") /\ UNCHANGED <<next, lnext>>
  /\ UNCHANGED <<tail, prev, locked, lock, lprev, queue>>

\* Mutant: next->locked is not set when next came late.
unlock_grant_forgotten(c) ==
  /\ pc[c] = "unlock_grant"
  /\ Return(c)
  /\ Dequeue(c)
  /\ UNCHANGED <<tail, nodevars>>

unlock_grant(c) ==
  /\ pc[c] = "unlock_grant"
  /\ locked' = [locked EXCEPT ![lnext[c]] = TRUE]
  /\ Return(c)
  /\ Dequeue(c)
  /\ UNCHANGED <<tail, next, prev>>

-----------------------------------------------------------------------------
\* What a CPU does by itself inside osq_lock() and osq_unlock().
Continue(c) ==
  \/ xchg_tail(c) \/ set_prev(c) \/ link(c) \/ wait_locked(c)
  \/ step_a(c) \/ step_a_locked(c) \/ step_a_prev(c)
  \/ step_b_tail(c) \/ step_b_next(c) \/ step_c_prev(c) \/ step_c_next(c)
  \/ xchg_next(c) \/ unlock_tail(c) \/ unlock_next(c) \/ unlock_grant(c)

Next ==
  \E c \in Cpus :
    \/ Continue(c) \/ stop_waiting(c) \/ osq_unlock(c)
    \/ \E l \in Locks : init_node(c, l)

Spec == Init /\ [][Next]_vars

\* A CPU inside osq_lock() or osq_unlock() keeps running, preemption being
\* off.  Nothing makes it spin less or unlock.
Fairness == \A c \in Cpus : WF_vars(Continue(c))

FairSpec == Spec /\ Fairness
-----------------------------------------------------------------------------
(***************************************************************************)
(* Properties.                                                              *)
(***************************************************************************)
\* Every variable keeps its type: a pointer is NULL or the node of some CPU,
\* and the tail is OSQ_UNLOCKED_VAL or the encoding of one.
TypeOK ==
  /\ tail \in [Locks -> 0 .. NR_CPUS]
  /\ next \in [Cpus -> Cpus \cup {NULL}]
  /\ prev \in [Cpus -> Cpus \cup {NULL}]
  /\ locked \in [Cpus -> BOOLEAN]
  /\ pc \in [Cpus -> PC]
  /\ lock \in [Cpus -> Locks \cup {NULL}]
  /\ lprev \in [Cpus -> Cpus \cup {NULL}]
  /\ lnext \in [Cpus -> Cpus \cup {NULL}]
  /\ queue \in [Locks -> Seq(Cpus)]

\* At most one CPU is between a successful osq_lock() and the end of
\* osq_unlock() of the same queue, however many give up in between.
MutualExclusion ==
  \A c, d \in Cpus :
    pc[c] \in HoldPc /\ pc[d] \in HoldPc /\ lock[c] = lock[d] => c = d

\* The node of another CPU that the next step of c writes to.
Target(c) ==
  CASE pc[c] \in {"link", "step_c_next"} -> lprev[c]
    [] pc[c] \in {"step_c_prev", "unlock_grant"} -> lnext[c]
    [] pc[c] = "step_a" /\ next[lprev[c]] = c -> lprev[c]
    [] OTHER -> NULL

\* "Using a single mcs node per CPU is safe" (osq_lock.c:10): a store to the
\* node of another CPU reaches it while that CPU is in the same queue, never
\* after it has left or has begun to use the node for another lock.
WritesInQueue ==
  \A c \in Cpus :
    Target(c) # NULL => Target(c) \in Range(queue[lock[c]])

\* The contract of OsqSpec.
PhaseOf(l) ==
  IF l \in HoldPc THEN "holding" ELSE IF l \in TryPc THEN "trying" ELSE "out"
Phase == [c \in Cpus |-> PhaseOf(pc[c])]

Contract == INSTANCE OsqSpec WITH phase <- Phase

\* The CPUs get the lock in the order in which they joined the queue, only
\* the head has it, and a CPU that gives up was not the head.
ImplementsOsq == Contract!Spec

\* From some time on, no more spinners give up.
NoMoreGivingUp == <>[][\A c \in Cpus : ~stop_waiting(c)]_vars

\* When every holder unlocks, the spinners that do not give up all get the
\* lock: no unlocker waits forever for a next pointer, and none is lost.
Progress ==
  NoMoreGivingUp /\ (\A c \in Cpus : WF_vars(osq_unlock(c)))
    => \A c \in Cpus : pc[c] \in TryPc ~> pc[c] \in HoldPc \cup {"idle"}

\* "spinners are able to exit the MCS spinlock queue when they need to
\* reschedule" (mutex-design.rst:58), even if the holder keeps the lock for
\* good.  Only CPUs that come and give up one after the other can delay it.
CanLeave ==
  NoMoreGivingUp
    => \A c \in Cpus : pc[c] \in UnqueuePc ~> pc[c] \notin UnqueuePc
=============================================================================
