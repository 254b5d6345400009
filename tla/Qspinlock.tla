------------------------------ MODULE Qspinlock ------------------------------
(***************************************************************************)
(* The native queued spinlock: kernel/locking/qspinlock.c,                  *)
(* include/asm-generic/qspinlock.h and the x86 override of                  *)
(* queued_fetch_set_pending_acquire() in arch/x86/include/asm/qspinlock.h.  *)
(*                                                                         *)
(* A lock is the word (tail, pending, locked).  A context that finds it     *)
(* contended either becomes the one pending waiter or takes one of its      *)
(* CPU's MCS nodes and joins the queue whose last node the tail names.      *)
(*                                                                         *)
(* A context is <<cpu, level>>: level 1 is the task, the higher levels are  *)
(* the interrupts that may nest on that CPU.  A context runs only while     *)
(* every higher level of its CPU is idle.  One action is one access to      *)
(* shared memory; a busy-wait is an action whose guard is the awaited       *)
(* condition.  Memory is sequentially consistent.  A local variable gets    *)
(* its initial value back where its last use is, since the code never reads *)
(* it again.                                                                *)
(***************************************************************************)
EXTENDS Integers, Sequences

CONSTANTS
  NR_CPUS,          \* CPUs are 0 .. NR_CPUS - 1
  LEVELS,           \* nesting levels per CPU (task, softirq, hardirq, nmi)
  Ctx,              \* the contexts <<cpu, level>> that take spinlocks
  MAX_NODES,        \* MCS nodes per CPU
  LOCKS,            \* the spinlocks
  LockLevel,        \* LockLevel[l]: highest level that ever takes lock l
  FETCH_OR_ATOMIC,  \* TRUE: generic atomic_fetch_or; FALSE: x86 btsl, then read
  NULL,             \* the null MCS pointer
  NoLock            \* lk[c] of an idle context

ASSUME QspinlockAssumption ==
  /\ NR_CPUS \in 1 .. (2^14 - 1)          \* BUILD_BUG_ON in the slowpath
  /\ LEVELS \in Nat \ {0}
  /\ Ctx \subseteq (0 .. NR_CPUS - 1) \X (1 .. LEVELS)
  /\ MAX_NODES \in 1 .. 4                 \* _Q_TAIL_IDX_BITS is 2
  /\ LockLevel \in [LOCKS -> 1 .. LEVELS]
  /\ FETCH_OR_ATOMIC \in BOOLEAN
  /\ NULL \notin (Nat \X Nat)
  /\ NoLock \notin LOCKS

CPUS == 0 .. NR_CPUS - 1
Cpu(c) == c[1]
Level(c) == c[2]
Node == CPUS \X (0 .. MAX_NODES - 1)

VARIABLES
  tail,        \* lock->tail: 0, or the encoded node at the end of the queue
  pending,     \* lock->pending
  locked,      \* lock->locked
  next,        \* mcs.next of every node
  mcs_locked,  \* mcs.locked of every node
  count,       \* qnodes[0].mcs.count of every CPU
  pc,          \* where each context is
  lk,          \* the lock each context is acquiring or holds
  val,         \* the local variable val, where a later step still uses it
  old,         \* the tail xchg_tail() returned
  nxt,         \* the local variable next
  idx,         \* the local variable idx: which node of its CPU it uses
  queue        \* history: the contexts queued on each lock, oldest first

lockvars == <<tail, pending, locked>>
mcsvars == <<next, mcs_locked>>
vars == <<tail, pending, locked, next, mcs_locked, count,
          pc, lk, val, old, nxt, idx, queue>>

\* The program counters, grouped by what the context has.
PendingPc == {"undo", "pendwait", "take"}
HeadPc == {"ldnext", "head", "claim", "setlocked", "waitnext", "mcsunlock"}
QueuedPc == {"link", "mcswait"} \cup HeadPc
OwnerPc == {"waitnext", "mcsunlock", "release", "cs"}
NodePc == {"init", "trylock", "xchg"} \cup QueuedPc
CountedPc == NodePc \cup {"spintry", "release"}
PC == {"idle", "pendspin", "pend", "reread", "queue"} \cup PendingPc
        \cup CountedPc \cup {"cs"}

-----------------------------------------------------------------------------
(***************************************************************************)
(* The 16-bit tail: 2 bits of node index and, above them, the CPU plus one, *)
(* so that no node encodes to the 0 that means "no tail".                   *)
(***************************************************************************)
encode_tail(cpu, i) == (cpu + 1) * 4 + i
decode_tail(t) == <<(t \div 4) - 1, t % 4>>

\* What the tail may hold: no tail, or the code of an MCS node.
Tails == {0} \cup {encode_tail(p, i) : p \in CPUS, i \in 0 .. MAX_NODES - 1}

NodeOf(c) == <<Cpu(c), idx[c]>>
TailOf(c) == encode_tail(Cpu(c), idx[c])

Word(l) == [tail |-> tail[l], pending |-> pending[l], locked |-> locked[l]]
Contended(v) == v.tail # 0 \/ v.pending = 1     \* val & ~_Q_LOCKED_MASK
Free(l) == tail[l] = 0 /\ pending[l] = 0 /\ locked[l] = 0

Words == [tail : Tails, pending : {0, 1}, locked : {0, 1}]
NoWord == [tail |-> 0, pending |-> 0, locked |-> 0]

Init ==
  /\ tail = [l \in LOCKS |-> 0]
  /\ pending = [l \in LOCKS |-> 0]
  /\ locked = [l \in LOCKS |-> 0]
  /\ next = [n \in Node |-> NULL]
  /\ mcs_locked = [n \in Node |-> 0]
  /\ count = [p \in CPUS |-> 0]
  /\ pc = [c \in Ctx |-> "idle"]
  /\ lk = [c \in Ctx |-> NoLock]
  /\ val = [c \in Ctx |-> NoWord]
  /\ old = [c \in Ctx |-> 0]
  /\ nxt = [c \in Ctx |-> NULL]
  /\ idx = [c \in Ctx |-> 0]
  /\ queue = [l \in LOCKS |-> <<>>]

-----------------------------------------------------------------------------
(***************************************************************************)
(* Scheduling.  Interrupts nest: c runs while the levels above it are idle. *)
(* A lock that level k takes is held with interrupts up to level k masked,  *)
(* so a context starts only where the contexts it interrupts use locks of   *)
(* lower levels; and it never waits for a lock of a lower level.            *)
(***************************************************************************)
Running(c) ==
  \A d \in Ctx : Cpu(d) = Cpu(c) /\ Level(d) > Level(c) => pc[d] = "idle"

NotMasked(c) ==
  \A d \in Ctx : /\ Cpu(d) = Cpu(c)
                 /\ Level(d) < Level(c)
                 /\ pc[d] # "idle"
                 => LockLevel[lk[d]] < Level(c)

Step(c, from, to) ==
  /\ pc[c] = from
  /\ Running(c)
  /\ pc' = [pc EXCEPT ![c] = to]

Begin(c, l, to) ==
  /\ NotMasked(c)
  /\ Step(c, "idle", to)
  /\ lk' = [lk EXCEPT ![c] = l]

\* Where the slowpath goes with the value it was entered with, or re-read.
AfterSpin(v) == IF Contended(v) THEN "queue" ELSE "pend"

-----------------------------------------------------------------------------
(***************************************************************************)
(* The fast paths and the unlock.                                           *)
(***************************************************************************)

\* queued_spin_lock(): the cmpxchg succeeds.
queued_spin_lock_fast(c, l) ==
  /\ Level(c) <= LockLevel[l]
  /\ Begin(c, l, "cs")
  /\ Free(l)
  /\ locked' = [locked EXCEPT ![l] = 1]
  /\ UNCHANGED <<tail, pending, mcsvars, count, val, old, nxt, idx, queue>>

\* queued_spin_lock(): the cmpxchg fails and enters the slowpath with the
\* value it found; the value "pending only" is waited out first.
queued_spin_lock_slow(c, l) ==
  /\ Level(c) <= LockLevel[l]
  /\ Begin(c, l, IF tail[l] = 0 /\ pending[l] = 1 /\ locked[l] = 0
                   THEN "pendspin" ELSE AfterSpin(Word(l)))
  /\ ~Free(l)
  /\ UNCHANGED <<lockvars, mcsvars, count, val, old, nxt, idx, queue>>

\* queued_spin_trylock() succeeds; a failing trylock changes nothing.  It
\* never waits, so any level may try any lock.
queued_spin_trylock(c, l) ==
  /\ Begin(c, l, "cs")
  /\ Free(l)
  /\ locked' = [locked EXCEPT ![l] = 1]
  /\ UNCHANGED <<tail, pending, mcsvars, count, val, old, nxt, idx, queue>>

queued_spin_unlock(c) ==
  /\ Step(c, "cs", "idle")
  /\ locked' = [locked EXCEPT ![lk[c]] = 0]
  /\ lk' = [lk EXCEPT ![c] = NoLock]
  /\ UNCHANGED <<tail, pending, mcsvars, count, val, old, nxt, idx, queue>>

-----------------------------------------------------------------------------
(***************************************************************************)
(* The slowpath: the pending waiter.                                        *)
(***************************************************************************)

\* The bounded wait for a hand-over 0,1,0 -> 0,0,1: after _Q_PENDING_LOOPS
\* reads it goes on with whatever it read last.
wait_pending_handover(c) ==
  /\ Step(c, "pendspin", AfterSpin(Word(lk[c])))
  /\ UNCHANGED <<lockvars, mcsvars, count, lk, val, old, nxt, idx, queue>>

\* What follows the fetch: undo and queue on contention, else wait for the
\* owner, else take the lock.
\* (Mutant: the tail is not part of the contention test.)
AfterFetch_ignores_tail(v) ==
  IF v.pending = 1 THEN "queue" ELSE IF v.locked = 1 THEN "pendwait" ELSE "take"

AfterFetch(v) ==
  IF Contended(v) THEN IF v.pending = 0 THEN "undo" ELSE "queue"
  ELSE IF v.locked = 1 THEN "pendwait" ELSE "take"

\* queued_fetch_set_pending_acquire(): generic, one atomic fetch-or; on x86
\* a locked btsl, whose result is only the old pending bit.
queued_fetch_set_pending_acquire(c) ==
  /\ Step(c, "pend", IF FETCH_OR_ATOMIC THEN AfterFetch(Word(lk[c])) ELSE "reread")
  /\ val' = [val EXCEPT ![c] = [NoWord EXCEPT !.pending = pending[lk[c]]]]
  /\ pending' = [pending EXCEPT ![lk[c]] = 1]
  /\ UNCHANGED <<tail, locked, mcsvars, count, lk, old, nxt, idx, queue>>

\* x86: the tail and locked fields are read after the btsl.
Reread(c) == [Word(lk[c]) EXCEPT !.pending = val[c].pending]

queued_fetch_set_pending_reread(c) ==
  /\ Step(c, "reread", AfterFetch(Reread(c)))
  /\ val' = [val EXCEPT ![c] = NoWord]
  /\ UNCHANGED <<lockvars, mcsvars, count, lk, old, nxt, idx, queue>>

\* (Mutant: the pending bit is not undone.)
clear_pending_forgotten(c) ==
  /\ Step(c, "undo", "queue")
  /\ UNCHANGED <<lockvars, mcsvars, count, lk, val, old, nxt, idx, queue>>

clear_pending(c) ==
  /\ Step(c, "undo", "queue")
  /\ pending' = [pending EXCEPT ![lk[c]] = 0]
  /\ UNCHANGED <<tail, locked, mcsvars, count, lk, val, old, nxt, idx, queue>>

\* (Mutant: the pending waiter does not wait for the owner.)
pending_wait_skipped(c) ==
  /\ Step(c, "pendwait", "take")
  /\ UNCHANGED <<lockvars, mcsvars, count, lk, val, old, nxt, idx, queue>>

\* The pending waiter waits for the owner to go away.
pending_wait_owner(c) ==
  /\ Step(c, "pendwait", "take")
  /\ locked[lk[c]] = 0
  /\ UNCHANGED <<lockvars, mcsvars, count, lk, val, old, nxt, idx, queue>>

clear_pending_set_locked(c) ==
  /\ Step(c, "take", "cs")
  /\ pending' = [pending EXCEPT ![lk[c]] = 0]
  /\ locked' = [locked EXCEPT ![lk[c]] = 1]
  /\ UNCHANGED <<tail, mcsvars, count, lk, val, old, nxt, idx, queue>>

-----------------------------------------------------------------------------
(***************************************************************************)
(* The slowpath: the MCS queue.                                             *)
(***************************************************************************)

\* (Mutant: the node is used before it is counted, so an interrupt reuses it.)
grab_mcs_node_uncounted(c) ==
  /\ Step(c, "queue", IF count[Cpu(c)] < MAX_NODES THEN "init" ELSE "spintry")
  /\ idx' = [idx EXCEPT ![c] = count[Cpu(c)]]
  /\ UNCHANGED <<lockvars, mcsvars, count, lk, val, old, nxt, queue>>

\* idx = node->count++; without a free node, fall back to spinning.
grab_mcs_node(c) ==
  /\ Step(c, "queue", IF count[Cpu(c)] < MAX_NODES THEN "init" ELSE "spintry")
  /\ idx' = [idx EXCEPT ![c] = count[Cpu(c)]]
  /\ count' = [count EXCEPT ![Cpu(c)] = @ + 1]
  /\ UNCHANGED <<lockvars, mcsvars, lk, val, old, nxt, queue>>

\* (Mutant: the fallback only looks at the locked byte.)
spin_without_node_blind(c) ==
  /\ Step(c, "spintry", "release")
  /\ locked[lk[c]] = 0
  /\ locked' = [locked EXCEPT ![lk[c]] = 1]
  /\ UNCHANGED <<tail, pending, mcsvars, count, lk, val, old, nxt, idx, queue>>

spin_without_node(c) ==
  /\ Step(c, "spintry", "release")
  /\ Free(lk[c])
  /\ locked' = [locked EXCEPT ![lk[c]] = 1]
  /\ UNCHANGED <<tail, pending, mcsvars, count, lk, val, old, nxt, idx, queue>>

\* (Mutant: node->next keeps what the node's previous use left in it.)
init_node_stale_next(c) ==
  /\ Step(c, "init", "trylock")
  /\ mcs_locked' = [mcs_locked EXCEPT ![NodeOf(c)] = 0]
  /\ UNCHANGED <<lockvars, next, count, lk, val, old, nxt, idx, queue>>

init_node(c) ==
  /\ Step(c, "init", "trylock")
  /\ mcs_locked' = [mcs_locked EXCEPT ![NodeOf(c)] = 0]
  /\ next' = [next EXCEPT ![NodeOf(c)] = NULL]
  /\ UNCHANGED <<lockvars, count, lk, val, old, nxt, idx, queue>>

\* (Mutant: the trylock overlooks the queue.)
node_trylock_steals(c) ==
  LET free == locked[lk[c]] = 0 /\ pending[lk[c]] = 0 IN
  /\ Step(c, "trylock", IF free THEN "release" ELSE "xchg")
  /\ locked' = IF free THEN [locked EXCEPT ![lk[c]] = 1] ELSE locked
  /\ UNCHANGED <<tail, pending, mcsvars, count, lk, val, old, nxt, idx, queue>>

\* The trylock once the node is set up: "someone let go while we weren't
\* watching", or go on to publish the node.
node_trylock(c) ==
  /\ Step(c, "trylock", IF Free(lk[c]) THEN "release" ELSE "xchg")
  /\ locked' = IF Free(lk[c]) THEN [locked EXCEPT ![lk[c]] = 1] ELSE locked
  /\ UNCHANGED <<tail, pending, mcsvars, count, lk, val, old, nxt, idx, queue>>

\* xchg_tail(), and next = NULL.
xchg_tail(c) ==
  /\ Step(c, "xchg", IF tail[lk[c]] # 0 THEN "link" ELSE "head")
  /\ old' = [old EXCEPT ![c] = tail[lk[c]]]
  /\ tail' = [tail EXCEPT ![lk[c]] = TailOf(c)]
  /\ nxt' = [nxt EXCEPT ![c] = NULL]
  /\ queue' = [queue EXCEPT ![lk[c]] = Append(@, c)]
  /\ UNCHANGED <<pending, locked, mcsvars, count, lk, val, idx>>

\* WRITE_ONCE(prev->next, node)
link_into_queue(c) ==
  /\ Step(c, "link", "mcswait")
  /\ next' = [next EXCEPT ![decode_tail(old[c])] = NodeOf(c)]
  /\ old' = [old EXCEPT ![c] = 0]
  /\ UNCHANGED <<lockvars, mcs_locked, count, lk, val, nxt, idx, queue>>

arch_mcs_spin_lock_contended(c) ==
  /\ Step(c, "mcswait", "ldnext")
  /\ mcs_locked[NodeOf(c)] = 1
  /\ UNCHANGED <<lockvars, mcsvars, count, lk, val, old, nxt, idx, queue>>

load_next(c) ==
  /\ Step(c, "ldnext", "head")
  /\ nxt' = [nxt EXCEPT ![c] = next[NodeOf(c)]]
  /\ UNCHANGED <<lockvars, mcsvars, count, lk, val, old, idx, queue>>

\* (Mutant: the queue head does not wait for the pending waiter.)
wait_head_ignores_pending(c) ==
  /\ Step(c, "head", IF tail[lk[c]] = TailOf(c) THEN "claim" ELSE "setlocked")
  /\ locked[lk[c]] = 0
  /\ val' = [val EXCEPT ![c] = IF tail[lk[c]] = TailOf(c) THEN Word(lk[c]) ELSE NoWord]
  /\ UNCHANGED <<lockvars, mcsvars, count, lk, old, nxt, idx, queue>>

\* The queue head waits for owner and pending to go away, and then decides
\* from the tail it read whether it is alone.
wait_head(c) ==
  /\ Step(c, "head", IF tail[lk[c]] = TailOf(c) THEN "claim" ELSE "setlocked")
  /\ locked[lk[c]] = 0
  /\ pending[lk[c]] = 0
  /\ val' = [val EXCEPT ![c] = IF tail[lk[c]] = TailOf(c) THEN Word(lk[c]) ELSE NoWord]
  /\ UNCHANGED <<lockvars, mcsvars, count, lk, old, nxt, idx, queue>>

\* n,0,0 -> 0,0,1 with one cmpxchg, unless the word changed meanwhile.
claim_uncontended(c) ==
  LET l == lk[c]
      alone == Word(l) = val[c]
  IN /\ Step(c, "claim", IF alone THEN "release" ELSE "setlocked")
     /\ tail' = IF alone THEN [tail EXCEPT ![l] = 0] ELSE tail
     /\ locked' = IF alone THEN [locked EXCEPT ![l] = 1] ELSE locked
     /\ queue' = IF alone THEN [queue EXCEPT ![l] = Tail(@)] ELSE queue
     /\ val' = [val EXCEPT ![c] = NoWord]
     /\ UNCHANGED <<pending, mcsvars, count, lk, old, nxt, idx>>

set_locked(c) ==
  /\ Step(c, "setlocked", IF nxt[c] = NULL THEN "waitnext" ELSE "mcsunlock")
  /\ locked' = [locked EXCEPT ![lk[c]] = 1]
  /\ UNCHANGED <<tail, pending, mcsvars, count, lk, val, old, nxt, idx, queue>>

wait_next(c) ==
  /\ Step(c, "waitnext", "mcsunlock")
  /\ next[NodeOf(c)] # NULL
  /\ nxt' = [nxt EXCEPT ![c] = next[NodeOf(c)]]
  /\ UNCHANGED <<lockvars, mcsvars, count, lk, val, old, idx, queue>>

arch_mcs_spin_unlock_contended(c) ==
  /\ Step(c, "mcsunlock", "release")
  /\ mcs_locked' = [mcs_locked EXCEPT ![nxt[c]] = 1]
  /\ queue' = [queue EXCEPT ![lk[c]] = Tail(@)]
  /\ nxt' = [nxt EXCEPT ![c] = NULL]
  /\ UNCHANGED <<lockvars, next, count, lk, val, old, idx>>

release_node(c) ==
  /\ Step(c, "release", "cs")
  /\ count' = [count EXCEPT ![Cpu(c)] = @ - 1]
  /\ idx' = [idx EXCEPT ![c] = 0]
  /\ UNCHANGED <<lockvars, mcsvars, lk, val, old, nxt, queue>>

-----------------------------------------------------------------------------
Pending(c) ==
  \/ wait_pending_handover(c) \/ queued_fetch_set_pending_acquire(c)
  \/ queued_fetch_set_pending_reread(c) \/ clear_pending(c)
  \/ pending_wait_owner(c) \/ clear_pending_set_locked(c)

Queue(c) ==
  \/ grab_mcs_node(c) \/ spin_without_node(c) \/ init_node(c) \/ node_trylock(c)
  \/ xchg_tail(c) \/ link_into_queue(c) \/ arch_mcs_spin_lock_contended(c)
  \/ load_next(c) \/ wait_head(c) \/ claim_uncontended(c) \/ set_locked(c)
  \/ wait_next(c) \/ arch_mcs_spin_unlock_contended(c) \/ release_node(c)

queued_spin_lock_slowpath(c) == Pending(c) \/ Queue(c)

Next ==
  \E c \in Ctx :
    \/ \E l \in LOCKS : \/ queued_spin_lock_fast(c, l)
                        \/ queued_spin_lock_slow(c, l)
                        \/ queued_spin_trylock(c, l)
    \/ queued_spin_lock_slowpath(c)
    \/ queued_spin_unlock(c)

Spec == Init /\ [][Next]_vars

(***************************************************************************)
(* A CPU that is not interrupted keeps executing, and the holder of a       *)
(* spinlock releases it: both are what code that spins relies on.           *)
(***************************************************************************)
Fairness ==
  \A c \in Ctx : WF_vars(queued_spin_lock_slowpath(c)) /\ WF_vars(queued_spin_unlock(c))

FairSpec == Spec /\ Fairness

-----------------------------------------------------------------------------
(***************************************************************************)
(* Properties.                                                              *)
(***************************************************************************)
Owners(l) == {c \in Ctx : pc[c] \in OwnerPc /\ lk[c] = l}

\* Every variable keeps its type: the tail of a lock, and every copy of one
\* that a context still works with, is 0 or names a node that exists, and no
\* CPU gives back more nodes than it took.  count, and so idx, may exceed the
\* nodes there are: that is how the slowpath finds out that none is left.
TypeOK ==
  /\ tail \in [LOCKS -> Tails]
  /\ pending \in [LOCKS -> {0, 1}]
  /\ locked \in [LOCKS -> {0, 1}]
  /\ next \in [Node -> Node \cup {NULL}]
  /\ mcs_locked \in [Node -> {0, 1}]
  /\ count \in [CPUS -> Nat]
  /\ pc \in [Ctx -> PC]
  /\ lk \in [Ctx -> LOCKS \cup {NoLock}]
  /\ val \in [Ctx -> Words]
  /\ old \in [Ctx -> Tails]
  /\ nxt \in [Ctx -> Node \cup {NULL}]
  /\ idx \in [Ctx -> Nat]
  /\ queue \in [LOCKS -> Seq(Ctx)]

\* No two contexts are past the acquisition of the same lock, on whichever of
\* the six paths through queued_spin_lock() and its slowpath they took it, and
\* the locked byte is set exactly while somebody is.
MutualExclusion ==
  \A l \in LOCKS :
    /\ \A c, d \in Owners(l) : c = d
    /\ locked[l] = 1 <=> Owners(l) # {}

\* An interrupt never gets a node that the context it interrupted is using
\* (the ordering of node->count++ before the initialisation of the node).
NodesNotShared ==
  \A c, d \in Ctx :
    c # d /\ pc[c] \in NodePc /\ pc[d] \in NodePc => NodeOf(c) # NodeOf(d)

\* The two writes the slowpath makes to somebody else's node hit the right
\* one: prev->next is written while prev is still queued for the same lock
\* and directly ahead, and next->locked is set for the waiter directly behind.
WritesToNeighbour ==
  \A c \in Ctx :
    LET q == queue[lk[c]] IN
    /\ pc[c] = "link" =>
         \E i \in 2 .. Len(q) : q[i] = c /\ NodeOf(q[i-1]) = decode_tail(old[c])
    /\ pc[c] = "mcsunlock" =>
         /\ Len(q) > 1 /\ q[1] = c
         /\ pc[q[2]] = "mcswait" /\ NodeOf(q[2]) = nxt[c]

\* It is c's turn to take lock l.
InTurn(c, l) == queue[l] = <<>> \/ pc[c] = "take" \/ Head(queue[l]) = c

\* First come, first served: once contexts have queued, a lock is acquired
\* only by the oldest of them or by the one pending waiter that was ahead of
\* the queue, never by a fast path, a trylock or the fallback without a node.
NoOvertaking ==
  [][\A c \in Ctx : pc[c] \notin OwnerPc /\ pc'[c] \in OwnerPc => InTurn(c, lk'[c])]_vars

\* A queued spinlock is starvation free: whoever enters queued_spin_lock()
\* gets the lock, although newcomers keep arriving and the pending bit of a
\* newcomer may disturb the queue head's cmpxchg.
StarvationFree == \A c \in Ctx : pc[c] \notin {"idle", "cs"} ~> pc[c] = "cs"

\* What a user of the lock sees of a context.
Phase(c) ==
  IF pc[c] = "idle" THEN "idle" ELSE IF pc[c] \in OwnerPc THEN "holding" ELSE "waiting"

Contract == INSTANCE SpinLockSpec WITH phase <- [c \in Ctx |-> Phase(c)], wanted <- lk

\* Every step of the lock word and its queue is a step of SpinLockSpec.
ImplementsSpinLock == Contract!Spec

-----------------------------------------------------------------------------
(***************************************************************************)
(* The inductive invariant behind MutualExclusion, NodesNotShared and       *)
(* WritesToNeighbour.                                                       *)
(***************************************************************************)

\* Exactly the idle contexts want no lock.
LkInv == \A c \in Ctx : pc[c] = "idle" <=> lk[c] = NoLock

\* The nodes of a CPU are handed out like a stack that follows the nesting.
NodeInv ==
  /\ \A c \in Ctx : pc[c] \in CountedPc => idx[c] < count[Cpu(c)]
  /\ \A c \in Ctx : pc[c] \in NodePc => idx[c] < MAX_NODES
  /\ \A c, d \in Ctx :
       /\ Cpu(c) = Cpu(d) /\ Level(c) < Level(d)
       /\ pc[c] \in CountedPc /\ pc[d] \in CountedPc
       => idx[c] < idx[d]

\* The queue holds exactly the contexts past xchg_tail(), each once, and the
\* tail names its last one.
MembersOK(l) ==
  /\ \A i \in 1 .. Len(queue[l]) :
       pc[queue[l][i]] \in QueuedPc /\ lk[queue[l][i]] = l
  /\ \A i, j \in 1 .. Len(queue[l]) : queue[l][i] = queue[l][j] => i = j
  /\ \A c \in Ctx : pc[c] \in QueuedPc /\ lk[c] = l
                      => \E i \in 1 .. Len(queue[l]) : queue[l][i] = c
  /\ tail[l] = IF Len(queue[l]) = 0 THEN 0 ELSE TailOf(queue[l][Len(queue[l])])

MembersInv == \A l \in LOCKS : MembersOK(l)

\* The MCS list is the queue: the head alone may proceed, everybody behind it
\* waits, linked or about to link itself behind its predecessor.
ChainOK(l, i) ==
  LET c == queue[l][i] IN
  /\ i = 1 => \/ pc[c] \in HeadPc
              \/ pc[c] = "mcswait" /\ mcs_locked[NodeOf(c)] = 1
  /\ i > 1 => /\ pc[c] \in {"link", "mcswait"}
              /\ mcs_locked[NodeOf(c)] = 0
              /\ pc[c] = "link" => /\ old[c] = TailOf(queue[l][i-1])
                                   /\ next[NodeOf(queue[l][i-1])] = NULL
              /\ pc[c] = "mcswait" => next[NodeOf(queue[l][i-1])] = NodeOf(c)
  /\ i = Len(queue[l]) => next[NodeOf(c)] = NULL

ChainInv == \A l \in LOCKS : \A i \in 1 .. Len(queue[l]) : ChainOK(l, i)

\* A node about to be published is clean, and what a head remembers as its
\* successor is what its node says.
LocalOK(c) ==
  /\ pc[c] \in {"trylock", "xchg"} =>
       next[NodeOf(c)] = NULL /\ mcs_locked[NodeOf(c)] = 0
  /\ pc[c] \in HeadPc \ {"ldnext"} => nxt[c] = NULL \/ nxt[c] = next[NodeOf(c)]
  /\ pc[c] = "mcsunlock" => nxt[c] # NULL
  /\ pc[c] = "claim" => val[c] = [tail |-> TailOf(c), pending |-> 0, locked |-> 0]

LocalInv == \A c \in Ctx : LocalOK(c)

\* The pending bit has one setter, whose duty it is to clear it.
SetPending(c) ==
  pc[c] \in PendingPc \/ (pc[c] = "reread" /\ val[c].pending = 0)

PendingInv ==
  /\ \A c \in Ctx : SetPending(c) => pending[lk[c]] = 1
  /\ \A c, d \in Ctx : SetPending(c) /\ SetPending(d) /\ lk[c] = lk[d] => c = d
  /\ \A l \in LOCKS : pending[l] = 1 => \E c \in Ctx : SetPending(c) /\ lk[c] = l

\* The lock is free for whoever decided to take it, and the pending waiter
\* and the queue head never both so decide.
DecidedInv ==
  /\ \A c \in Ctx : pc[c] \in {"take", "claim", "setlocked"} => locked[lk[c]] = 0
  /\ \A c, d \in Ctx :
       pc[c] \in {"pendwait", "take"} /\ pc[d] \in {"claim", "setlocked"}
         => lk[c] # lk[d]

\* The conjunction that Next preserves.
Inv ==
  /\ TypeOK /\ LkInv /\ NodeInv /\ MembersInv /\ ChainInv /\ LocalInv
  /\ PendingInv /\ DecidedInv /\ MutualExclusion
=============================================================================
