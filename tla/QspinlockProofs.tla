-------------------------- MODULE QspinlockProofs --------------------------
(***************************************************************************)
(* Proofs about Qspinlock, for any number of CPUs, nesting levels, locks    *)
(* and MCS nodes.                                                           *)
(***************************************************************************)
EXTENDS Qspinlock, TLAPS

\* Contexts are pairs; Cpu and Level determine a context.
LEMMA CtxPairs ==
  /\ \A c \in Ctx : Cpu(c) \in CPUS /\ Cpu(c) \in Nat /\ Level(c) \in Nat
  /\ \A c, d \in Ctx : Cpu(c) = Cpu(d) /\ Level(c) = Level(d) => c = d
  /\ NULL \notin Node
BY QspinlockAssumption DEF Cpu, Level, CPUS, Node

\* A tail decodes to the node it encodes (the CPU number is stored plus one,
\* the index has two bits), and it is never the 0 of an empty queue.
LEMMA TailEncoding ==
  ASSUME NEW p \in Nat, NEW i \in 0 .. 3
  PROVE  /\ encode_tail(p, i) \in Nat \ {0}
         /\ decode_tail(encode_tail(p, i)) = <<p, i>>
<1>1. (p + 1) * 4 + i \in Nat \ {0}
  OBVIOUS
<1>2. ((p + 1) * 4 + i) \div 4 = p + 1 /\ ((p + 1) * 4 + i) % 4 = i
  OBVIOUS
<1> QED BY <1>1, <1>2 DEF encode_tail, decode_tail

\* The word without a tail is well-formed.
LEMMA NoTail == 0 \in Tails /\ NoWord \in Words
<1>1. 0 \in Tails
  BY DEF Tails
<1> QED BY <1>1 DEF NoWord, Words

\* The MCS nodes in use, and hence their tails, are pairwise different.
LEMMA NodesDiffer ==
  ASSUME TypeOK, NodeInv,
         NEW c \in Ctx, NEW d \in Ctx, pc[c] \in NodePc, pc[d] \in NodePc
  PROVE  /\ NodeOf(c) \in Node
         /\ TailOf(c) \in Tails
         /\ TailOf(c) \in Nat \ {0}
         /\ decode_tail(TailOf(c)) = NodeOf(c)
         /\ NodeOf(c) = NodeOf(d) => c = d
         /\ TailOf(c) = TailOf(d) => c = d
<1>1. idx[c] \in 0 .. MAX_NODES - 1 /\ idx[d] \in 0 .. MAX_NODES - 1 /\ MAX_NODES \in 1 .. 4
  BY QspinlockAssumption DEF TypeOK, NodeInv
<1>2. NodeOf(c) \in Node
  BY <1>1, CtxPairs DEF NodeOf, Node
<1>a. Cpu(c) \in Nat /\ Cpu(d) \in Nat /\ idx[c] \in 0 .. 3 /\ idx[d] \in 0 .. 3
  BY <1>1, CtxPairs
<1>3. TailOf(c) \in Nat \ {0} /\ decode_tail(TailOf(c)) = NodeOf(c)
  BY <1>a, TailEncoding DEF TailOf, NodeOf
<1>4. decode_tail(TailOf(d)) = NodeOf(d)
  BY <1>a, TailEncoding DEF TailOf, NodeOf
<1>6. TailOf(c) \in Tails
  BY <1>1, CtxPairs DEF TailOf, Tails
<1>5. NodeOf(c) = NodeOf(d) => c = d
  <2> SUFFICES ASSUME NodeOf(c) = NodeOf(d) PROVE c = d
    OBVIOUS
  <2>1. Cpu(c) = Cpu(d) /\ idx[c] = idx[d]
    BY DEF NodeOf
  <2>2. ~(Level(c) < Level(d)) /\ ~(Level(d) < Level(c))
    BY <2>1, <1>1 DEF NodeInv, NodePc, CountedPc
  <2> QED BY <2>1, <2>2, CtxPairs
<1> QED BY <1>2, <1>3, <1>4, <1>5, <1>6

(***************************************************************************)
(* The unlocked word and idle CPUs satisfy the invariant.                   *)
(***************************************************************************)
LEMMA InitInv == Init => Inv
<1> SUFFICES ASSUME Init PROVE Inv
  OBVIOUS
<1>1. TypeOK
  BY QspinlockAssumption, NoTail DEF Init, TypeOK, PC
<1>2. LkInv /\ NodeInv /\ MembersInv /\ ChainInv /\ LocalInv /\ PendingInv /\ DecidedInv
  BY QspinlockAssumption DEF Init, LkInv, NodeInv, MembersInv, MembersOK, ChainInv, LocalInv, LocalOK, PendingInv, DecidedInv,
     SetPending, PendingPc, HeadPc, QueuedPc, NodePc, CountedPc
<1>3. MutualExclusion
  BY DEF Init, MutualExclusion, Owners, OwnerPc
<1> QED BY <1>1, <1>2, <1>3 DEF Inv

-----------------------------------------------------------------------------
(***************************************************************************)
(* Frame lemmas.  Every step is taken by one context c, which writes no     *)
(* local variable but its own; each conjunct of Inv then only depends on    *)
(* which class of program counters c enters and leaves and on the shared    *)
(* memory it writes.                                                        *)
(***************************************************************************)
Others(c) ==
  \A d \in Ctx \ {c} :
    /\ pc'[d] = pc[d] /\ lk'[d] = lk[d] /\ val'[d] = val[d]
    /\ old'[d] = old[d] /\ nxt'[d] = nxt[d] /\ idx'[d] = idx[d]

SameNode(d) ==
  next'[NodeOf(d)] = next[NodeOf(d)] /\ mcs_locked'[NodeOf(d)] = mcs_locked[NodeOf(d)]

\* NodeInv survives a step that takes and returns no node.
LEMMA NodeFrame ==
  ASSUME NodeInv, NEW c \in Ctx, Others(c), UNCHANGED count,
         pc'[c] \in CountedPc => pc[c] \in CountedPc /\ idx'[c] = idx[c],
         pc'[c] \in NodePc => pc[c] \in NodePc
  PROVE  NodeInv'
<1>1. \A d \in Ctx : /\ pc'[d] \in CountedPc => pc[d] \in CountedPc /\ idx'[d] = idx[d]
                     /\ pc'[d] \in NodePc => pc[d] \in NodePc
  BY DEF Others
<1>2. \A d : pc'[d] \in NodePc => pc'[d] \in CountedPc
  BY DEF CountedPc
<1> QED BY <1>1, <1>2 DEF NodeInv, Cpu, Level

\* MembersInv survives a step by which c neither joins nor leaves the queue.
LEMMA MembersFrame ==
  ASSUME TypeOK, MembersInv, NEW c \in Ctx, Others(c), UNCHANGED <<tail, queue>>,
         pc'[c] \in QueuedPc <=> pc[c] \in QueuedPc,
         pc[c] \in QueuedPc => lk'[c] = lk[c] /\ idx'[c] = idx[c]
  PROVE  MembersInv'
<1>1. \A d \in Ctx : /\ pc'[d] \in QueuedPc <=> pc[d] \in QueuedPc
                     /\ pc[d] \in QueuedPc => lk'[d] = lk[d] /\ idx'[d] = idx[d]
  BY DEF Others
<1>2. \A l \in LOCKS : \A i \in 1 .. Len(queue[l]) : queue[l][i] \in Ctx
  BY DEF TypeOK
<1>3. \A l \in LOCKS : Len(queue[l]) \in Nat
  BY DEF TypeOK
<1> QED BY <1>1, <1>2, <1>3 DEF MembersInv, MembersOK, TailOf

\* The queue of a lock is untouched by a context that wants another lock.
LEMMA OtherQueues ==
  ASSUME TypeOK, MembersInv, ChainInv, NEW c \in Ctx, Others(c), lk'[c] = lk[c],
         NEW m \in LOCKS, m # lk[c], queue'[m] = queue[m], tail'[m] = tail[m],
         \A d \in Ctx \ {c} : pc[d] \in QueuedPc /\ lk[d] = m => SameNode(d)
  PROVE  MembersOK(m)' /\ \A i \in 1 .. Len(queue'[m]) : ChainOK(m, i)'
<1> DEFINE q == queue[m]
<1>1. /\ Len(q) \in Nat
      /\ \A i \in 1 .. Len(q) : q[i] \in Ctx \ {c} /\ pc[q[i]] \in QueuedPc /\ lk[q[i]] = m
  BY DEF TypeOK, MembersInv, MembersOK
<1>2. \A i \in 1 .. Len(q) :
        /\ pc'[q[i]] = pc[q[i]] /\ lk'[q[i]] = lk[q[i]] /\ old'[q[i]] = old[q[i]]
        /\ NodeOf(q[i])' = <<Cpu(q[i]), idx[q[i]]>>
        /\ TailOf(q[i])' = encode_tail(Cpu(q[i]), idx[q[i]])
        /\ SameNode(q[i])
  BY <1>1 DEF Others, NodeOf, TailOf
<1>3. MembersOK(m)'
  <2>1. \A d \in Ctx : pc'[d] \in QueuedPc /\ lk'[d] = m => pc[d] \in QueuedPc /\ lk[d] = m
    BY DEF Others
  <2> QED BY <1>1, <1>2, <2>1 DEF MembersInv, MembersOK, TailOf
<1>4. ASSUME NEW i \in 1 .. Len(q) PROVE ChainOK(m, i)'
  <2>1. i \in Nat /\ (i > 1 => i - 1 \in 1 .. Len(q))
    BY <1>1
  <2>2. ChainOK(m, i)
    BY DEF ChainInv
  <2> QED BY <1>1, <1>2, <2>1, <2>2 DEF ChainOK, SameNode, NodeOf, TailOf
<1> QED BY <1>3, <1>4

\* ChainInv survives a step of a context that is not queued, or that is (or
\* has just been told to be) the head, and that writes no queued node.
LEMMA ChainFrame ==
  ASSUME TypeOK, MembersInv, ChainInv, NEW c \in Ctx, Others(c), UNCHANGED queue,
         \A d \in Ctx : pc[d] \in QueuedPc => SameNode(d) /\ idx'[d] = idx[d],
         pc[c] \in QueuedPc => /\ pc'[c] \in HeadPc
                               /\ pc[c] \in HeadPc \/ mcs_locked[NodeOf(c)] = 1
  PROVE  ChainInv'
<1> SUFFICES ASSUME NEW l \in LOCKS, NEW i \in 1 .. Len(queue[l])
             PROVE  ChainOK(l, i)'
  BY DEF ChainInv
<1> DEFINE q == queue[l][i]  p == queue[l][i-1]
<1>1. i \in Nat /\ Len(queue[l]) \in Nat /\ q \in Ctx /\ (i > 1 => p \in Ctx)
  BY DEF TypeOK
<1>2. pc[q] \in QueuedPc /\ (i > 1 => pc[p] \in QueuedPc)
  <2>1. i > 1 => i - 1 \in 1 .. Len(queue[l])
    BY <1>1
  <2> QED BY <1>1, <2>1 DEF MembersInv, MembersOK
<1>3. /\ NodeOf(q)' = NodeOf(q) /\ SameNode(q)
      /\ i > 1 => NodeOf(p)' = NodeOf(p) /\ TailOf(p)' = TailOf(p) /\ SameNode(p)
  BY <1>1, <1>2 DEF NodeOf, TailOf
<1>4. ChainOK(l, i)
  BY DEF ChainInv
<1>5. q # c => pc'[q] = pc[q] /\ old'[q] = old[q]
  BY <1>1 DEF Others
<1>6. q = c => i = 1 /\ pc'[q] \in HeadPc
  BY <1>1, <1>2, <1>4 DEF ChainOK, HeadPc
<1> QED BY <1>1, <1>3, <1>4, <1>5, <1>6 DEF ChainOK, SameNode

\* LocalInv survives a step that writes no node another context relies on.
LEMMA LocalFrame ==
  ASSUME LocalInv, NEW c \in Ctx, Others(c), LocalOK(c)',
         \A d \in Ctx \ {c} : pc[d] \in {"trylock", "xchg"} \cup HeadPc => SameNode(d)
  PROVE  LocalInv'
<1> SUFFICES ASSUME NEW d \in Ctx \ {c} PROVE LocalOK(d)'
  BY DEF LocalInv
<1>1. /\ pc'[d] = pc[d] /\ val'[d] = val[d] /\ nxt'[d] = nxt[d]
      /\ NodeOf(d)' = NodeOf(d) /\ TailOf(d)' = TailOf(d)
  BY DEF Others, NodeOf, TailOf
<1>2. LocalOK(d)
  BY DEF LocalInv
<1> QED BY <1>1, <1>2 DEF LocalOK, SameNode, HeadPc

\* PendingInv survives a step that leaves the pending bit alone.
LEMMA PendingFrame ==
  ASSUME PendingInv, NEW c \in Ctx, Others(c), UNCHANGED pending,
         SetPending(c)' <=> SetPending(c),
         SetPending(c) => lk'[c] = lk[c]
  PROVE  PendingInv'
<1>1. \A d \in Ctx : SetPending(d)' <=> SetPending(d)
  BY DEF Others, SetPending
<1>2. \A d \in Ctx : SetPending(d) => lk'[d] = lk[d]
  BY DEF Others
<1> QED BY <1>1, <1>2 DEF PendingInv

\* The setter of the pending bit clears it and has no duty any more.
LEMMA PendingCleared ==
  ASSUME TypeOK, LkInv, PendingInv, NEW c \in Ctx, Others(c), lk[c] \in LOCKS, lk'[c] = lk[c],
         SetPending(c), ~SetPending(c)', pending' = [pending EXCEPT ![lk[c]] = 0]
  PROVE  PendingInv'
<1>1. \A d \in Ctx \ {c} : (SetPending(d)' <=> SetPending(d)) /\ lk'[d] = lk[d]
  BY DEF Others, SetPending
<1>2. /\ pending'[lk[c]] = 0
      /\ \A l \in LOCKS \ {lk[c]} : pending'[l] = pending[l]
  BY DEF TypeOK
<1>3. \A d \in Ctx \ {c} : SetPending(d) => lk[d] \in LOCKS \ {lk[c]}
  BY DEF PendingInv, SetPending, PendingPc, TypeOK, LkInv
<1> QED BY <1>1, <1>2, <1>3 DEF PendingInv

\* DecidedInv survives a step by which c decides nothing.
LEMMA DecidedFrame ==
  ASSUME DecidedInv, NEW c \in Ctx, Others(c), UNCHANGED locked,
         pc'[c] \notin {"pendwait", "take", "claim", "setlocked"}
  PROVE  DecidedInv'
BY DEF DecidedInv, Others

\* It survives the acquisition or release of a lock nobody else decided on.
LEMMA DecidedTakes ==
  ASSUME TypeOK, LkInv, DecidedInv, NEW c \in Ctx, Others(c),
         NEW l \in LOCKS, \A k \in LOCKS \ {l} : locked'[k] = locked[k],
         pc'[c] \notin {"pendwait", "take", "claim", "setlocked"},
         \A d \in Ctx \ {c} : pc[d] \in {"take", "claim", "setlocked"} => lk[d] # l
  PROVE  DecidedInv'
<1>1. \A d \in Ctx \ {c} : pc[d] \in {"take", "claim", "setlocked"}
                             => lk[d] \in LOCKS /\ locked'[lk[d]] = locked[lk[d]]
  BY DEF TypeOK, LkInv
<1> QED BY <1>1 DEF DecidedInv, Others

\* MutualExclusion survives a step that neither takes nor releases the lock.
LEMMA OwnerFrame ==
  ASSUME MutualExclusion, NEW c \in Ctx, Others(c), UNCHANGED locked,
         pc'[c] \in OwnerPc <=> pc[c] \in OwnerPc,
         pc[c] \in OwnerPc => lk'[c] = lk[c]
  PROVE  MutualExclusion'
<1>1. \A l \in LOCKS : Owners(l)' = Owners(l)
  BY DEF Owners, Others
<1> QED BY <1>1 DEF MutualExclusion

\* Taking a free lock gives it exactly one owner.
LEMMA OwnerTakes ==
  ASSUME TypeOK, MutualExclusion, NEW c \in Ctx, Others(c), NEW l \in LOCKS,
         locked[l] = 0, locked' = [locked EXCEPT ![l] = 1],
         pc[c] \notin OwnerPc, pc'[c] \in OwnerPc, lk'[c] = l
  PROVE  MutualExclusion'
<1>1. Owners(l) = {}
  BY DEF MutualExclusion
<1>2. Owners(l)' = {c}
  BY <1>1 DEF Owners, Others
<1>3. \A k \in LOCKS \ {l} : Owners(k)' = Owners(k)
  BY DEF Owners, Others
<1>4. locked'[l] = 1 /\ \A k \in LOCKS \ {l} : locked'[k] = locked[k]
  BY DEF TypeOK
<1> QED BY <1>2, <1>3, <1>4 DEF MutualExclusion

\* Releasing a lock leaves it without an owner.
LEMMA OwnerReleases ==
  ASSUME TypeOK, MutualExclusion, NEW c \in Ctx, Others(c), NEW l \in LOCKS, lk[c] = l,
         locked' = [locked EXCEPT ![l] = 0],
         pc[c] \in OwnerPc, pc'[c] \notin OwnerPc
  PROVE  MutualExclusion'
<1>1. \A d \in Owners(l) : d = c
  BY DEF MutualExclusion, Owners
<1>2. Owners(l)' = {}
  BY <1>1 DEF Owners, Others
<1>3. \A k \in LOCKS \ {l} : Owners(k)' = Owners(k)
  BY DEF Owners, Others
<1>4. locked'[l] = 0 /\ \A k \in LOCKS \ {l} : locked'[k] = locked[k]
  BY DEF TypeOK
<1> QED BY <1>2, <1>3, <1>4 DEF MutualExclusion

-----------------------------------------------------------------------------
(* What the queue invariants say of one context. *)

\* A context that is not idle has a lock.
LEMMA HasLock ==
  ASSUME TypeOK, LkInv, NEW c \in Ctx, pc[c] # "idle"
  PROVE  lk[c] \in LOCKS
BY DEF TypeOK, LkInv

\* A lock with a queued context has a tail.
LEMMA QueuedMeansTail ==
  ASSUME TypeOK, LkInv, NodeInv, MembersInv, NEW c \in Ctx, pc[c] \in QueuedPc
  PROVE  /\ lk[c] \in LOCKS
         /\ Len(queue[lk[c]]) \in Nat \ {0}
         /\ tail[lk[c]] # 0
<1>1. lk[c] \in LOCKS
  BY HasLock DEF QueuedPc, HeadPc
<1> DEFINE q == queue[lk[c]]
<1>2. Len(q) \in Nat \ {0}
  BY <1>1 DEF MembersInv, MembersOK, TypeOK
<1>3. q[Len(q)] \in Ctx /\ pc[q[Len(q)]] \in NodePc
  BY <1>1, <1>2 DEF MembersInv, MembersOK, TypeOK, NodePc
<1> QED BY <1>1, <1>2, <1>3, NodesDiffer DEF MembersInv, MembersOK

\* A context past its MCS wait is the first of its queue.
LEMMA HeadIsFirst ==
  ASSUME TypeOK, LkInv, MembersInv, ChainInv, NEW c \in Ctx, pc[c] \in HeadPc
  PROVE  /\ lk[c] \in LOCKS
         /\ Len(queue[lk[c]]) \in Nat \ {0}
         /\ queue[lk[c]][1] = c
<1>1. lk[c] \in LOCKS
  BY HasLock DEF HeadPc
<1>2. PICK i \in 1 .. Len(queue[lk[c]]) : queue[lk[c]][i] = c
  BY <1>1 DEF MembersInv, MembersOK, QueuedPc
<1>3. i \in Nat /\ Len(queue[lk[c]]) \in Nat
  BY <1>1 DEF TypeOK
<1>4. ChainOK(lk[c], i)
  BY <1>1 DEF ChainInv
<1>5. i = 1
  BY <1>2, <1>3, <1>4 DEF ChainOK, HeadPc
<1> QED BY <1>1, <1>2, <1>3, <1>5

\* Nobody has decided to take a lock whose word is all zero.
LEMMA FreeMeansUndecided ==
  ASSUME Inv, NEW l \in LOCKS, Free(l), NEW d \in Ctx, lk[d] = l
  PROVE  /\ pc[d] \notin {"pendwait", "take", "claim", "setlocked"}
         /\ pc[d] \notin OwnerPc
<1> USE DEF Inv
<1>1. pc[d] \notin PendingPc
  BY DEF PendingInv, SetPending, Free
<1>2. pc[d] \notin QueuedPc
  BY QueuedMeansTail DEF Free
<1>3. pc[d] \notin OwnerPc
  BY DEF MutualExclusion, Owners, Free
<1> QED BY <1>1, <1>2, <1>3 DEF PendingPc, QueuedPc, HeadPc

\* A context that sets or waits on pending decides soundly: it saw no tail,
\* so no queue head is deciding.
LEMMA DecidedPending ==
  ASSUME Inv, NEW c \in Ctx, Others(c), UNCHANGED <<locked, lk>>,
         pc'[c] \notin {"claim", "setlocked"},
         pc'[c] \in {"pendwait", "take"} => tail[lk[c]] = 0 \/ pc[c] \in {"pendwait", "take"},
         pc'[c] = "take" => locked[lk[c]] = 0
  PROVE  DecidedInv'
<1> USE DEF Inv
<1>1. \A d \in Ctx : pc[d] \in {"claim", "setlocked"} => tail[lk[d]] # 0
  BY QueuedMeansTail DEF QueuedPc, HeadPc
<1> QED BY <1>1 DEF DecidedInv, Others

\* A queue head whose tail is the lock's tail is alone in the queue.
LEMMA AloneInQueue ==
  ASSUME Inv, NEW c \in Ctx, pc[c] = "claim", Word(lk[c]) = val[c]
  PROVE  Len(queue[lk[c]]) = 1 /\ queue[lk[c]][1] = c
<1> USE DEF Inv
<1> DEFINE q == queue[lk[c]]
<1>1. lk[c] \in LOCKS /\ Len(q) \in Nat \ {0} /\ q[1] = c
  BY HeadIsFirst DEF HeadPc
<1>2. tail[lk[c]] = TailOf(c)
  <2>1. val[c] = [tail |-> TailOf(c), pending |-> 0, locked |-> 0]
    BY DEF LocalInv, LocalOK
  <2>2. val[c].tail = TailOf(c) /\ val[c].tail = tail[lk[c]]
    BY <2>1 DEF Word
  <2> QED BY <2>2
<1>3. tail[lk[c]] = TailOf(q[Len(q)]) /\ q[Len(q)] \in Ctx /\ pc[q[Len(q)]] \in NodePc
  BY <1>1 DEF MembersInv, MembersOK, TypeOK, NodePc
<1>4. q[Len(q)] = q[1]
  BY <1>1, <1>2, <1>3, NodesDiffer DEF NodePc, QueuedPc, HeadPc
<1>5. Len(q) \in 1 .. Len(q) /\ 1 \in 1 .. Len(q)
  BY <1>1
<1>6. \A i, j \in 1 .. Len(q) : q[i] = q[j] => i = j
  BY <1>1 DEF MembersInv, MembersOK
<1>7. Len(q) = 1
  BY <1>4, <1>5, <1>6
<1> QED BY <1>1, <1>7

\* The context a head hands over to is queued directly behind it and waits.
LEMMA SuccessorWaits ==
  ASSUME Inv, NEW c \in Ctx, pc[c] = "mcsunlock"
  PROVE  LET q == queue[lk[c]] IN
         /\ Len(q) \in Nat /\ Len(q) > 1 /\ q[1] = c /\ q[2] \in Ctx \ {c}
         /\ pc[q[2]] = "mcswait" /\ nxt[c] = NodeOf(q[2])
<1> USE DEF Inv
<1> DEFINE q == queue[lk[c]]
<1>1. lk[c] \in LOCKS /\ Len(q) \in Nat \ {0} /\ q[1] = c
  BY HeadIsFirst DEF HeadPc
<1>2. nxt[c] # NULL /\ nxt[c] = next[NodeOf(c)]
  BY DEF LocalInv, LocalOK, HeadPc
<1>3. Len(q) > 1
  BY <1>1, <1>2 DEF ChainInv, ChainOK
<1>4. 2 \in 1 .. Len(q) /\ q[2] \in Ctx \ {c} /\ ChainOK(lk[c], 2)
  BY <1>1, <1>3 DEF MembersInv, MembersOK, ChainInv, TypeOK
<1>5. pc[q[2]] = "mcswait" /\ next[NodeOf(q[1])] = NodeOf(q[2])
  BY <1>1, <1>2, <1>4 DEF ChainOK
<1> QED BY <1>1, <1>2, <1>3, <1>4, <1>5

-----------------------------------------------------------------------------
(***************************************************************************)
(* The four steps that change the queue.                                    *)
(***************************************************************************)

\* xchg_tail() appends a clean node behind the last one.
LEMMA XchgQueue ==
  ASSUME Inv, NEW c \in Ctx, xchg_tail(c)
  PROVE  MembersInv' /\ ChainInv'
<1> USE DEF Inv
<1>1. /\ Others(c) /\ pc[c] = "xchg" /\ pc'[c] \in {"link", "head"}
      /\ UNCHANGED <<next, mcs_locked, lk, idx>>
  BY DEF Others, TypeOK, xchg_tail, Step, mcsvars
<1>2. PICK m \in LOCKS, q \in Seq(Ctx), n \in Nat :
        m = lk[c] /\ q = queue[m] /\ n = Len(q) /\ lk'[c] = m
  <2>1. lk[c] \in LOCKS
    BY <1>1, HasLock
  <2> QED BY <1>1, <2>1 DEF TypeOK
<1>3. /\ queue'[m] = Append(q, c) /\ tail'[m] = TailOf(c) /\ old'[c] = tail[m]
      /\ pc'[c] = IF tail[m] # 0 THEN "link" ELSE "head"
      /\ \A k \in LOCKS \ {m} : queue'[k] = queue[k] /\ tail'[k] = tail[k]
  BY <1>2 DEF xchg_tail, Step, TypeOK
<1>4. /\ Len(queue'[m]) = n + 1 /\ queue'[m][n + 1] = c
      /\ \A i \in 1 .. n : queue'[m][i] = q[i] /\ q[i] \in Ctx
      /\ \A i \in 1 .. n + 1 : i \in 1 .. n \/ i = n + 1
  BY <1>2, <1>3
<1>5. ASSUME NEW k \in LOCKS, k # m
      PROVE  MembersOK(k)' /\ \A i \in 1 .. Len(queue'[k]) : ChainOK(k, i)'
  <2>1. \A d \in Ctx \ {c} : SameNode(d)
    BY <1>1 DEF SameNode
  <2> QED BY <1>1, <1>2, <1>3, <1>5, <2>1, OtherQueues
<1>6. \A i \in 1 .. n : /\ q[i] # c /\ pc'[q[i]] = pc[q[i]] /\ lk'[q[i]] = m
                        /\ old'[q[i]] = old[q[i]] /\ pc[q[i]] \in QueuedPc
  BY <1>1, <1>2, <1>4 DEF MembersInv, MembersOK, Others, QueuedPc, HeadPc
<1>7. MembersOK(m)'
  <2>1. \A i \in 1 .. n + 1 : pc'[queue'[m][i]] \in QueuedPc /\ lk'[queue'[m][i]] = m
    <3>1. pc'[c] \in QueuedPc /\ lk'[c] = m
      BY <1>1, <1>2 DEF QueuedPc, HeadPc
    <3>2. \A i \in 1 .. n : pc'[q[i]] \in QueuedPc /\ lk'[q[i]] = m
      BY <1>6
    <3> QED BY <1>4, <3>1, <3>2
  <2>2. \A i, j \in 1 .. n + 1 : queue'[m][i] = queue'[m][j] => i = j
    <3>1. \A i, j \in 1 .. n : q[i] = q[j] => i = j
      BY <1>2 DEF MembersInv, MembersOK
    <3> QED BY <1>4, <1>6, <3>1
  <2>3. \A d \in Ctx : pc'[d] \in QueuedPc /\ lk'[d] = m
                         => \E i \in 1 .. n + 1 : queue'[m][i] = d
    <3>1. \A d \in Ctx \ {c} : pc'[d] \in QueuedPc /\ lk'[d] = m
                                 => \E i \in 1 .. n : q[i] = d
      BY <1>1, <1>2 DEF MembersInv, MembersOK, Others
    <3>2. n + 1 \in 1 .. n + 1 /\ \A i \in 1 .. n : i \in 1 .. n + 1
      OBVIOUS
    <3> QED BY <1>4, <3>1, <3>2
  <2>4. tail'[m] = encode_tail(Cpu(c), idx'[c]) /\ n + 1 # 0
    BY <1>1, <1>3 DEF TailOf
  <2> QED BY <1>4, <2>1, <2>2, <2>3, <2>4 DEF MembersOK, TailOf
<1>8. ASSUME NEW i \in 1 .. n PROVE ChainOK(m, i)'
  <2>1. ChainOK(m, i)
    BY <1>2 DEF ChainInv
  <2>2. i \in Nat /\ i # n + 1 /\ (i > 1 => i - 1 \in 1 .. n)
    OBVIOUS
  <2>3. queue'[m][i] = q[i] /\ (i > 1 => queue'[m][i-1] = q[i-1])
    BY <1>4, <2>2
  <2>4. Len(queue'[m]) = n + 1 /\ queue[m] = q
    BY <1>2, <1>4
  <2>5. PICK x \in Ctx : x = q[i] /\ x = queue'[m][i] /\ pc'[x] = pc[x] /\ old'[x] = old[x]
                         /\ NodeOf(x)' = NodeOf(x)
    BY <1>1, <1>4, <1>6, <2>3 DEF NodeOf
  <2>6. CASE i = 1
    BY <1>1, <2>1, <2>2, <2>4, <2>5, <2>6 DEF ChainOK
  <2>7. CASE i > 1
    <3>1. PICK y \in Ctx : y = q[i-1] /\ y = queue'[m][i-1] /\ NodeOf(y)' = NodeOf(y) /\ TailOf(y)' = TailOf(y)
      BY <1>1, <1>4, <2>2, <2>3, <2>7 DEF NodeOf, TailOf
    <3> QED BY <1>1, <2>1, <2>2, <2>4, <2>5, <2>7, <3>1 DEF ChainOK
  <2> QED BY <2>2, <2>6, <2>7
<1>9. ChainOK(m, n + 1)'
  <2>1. next[NodeOf(c)] = NULL /\ mcs_locked[NodeOf(c)] = 0
    BY <1>1 DEF LocalInv, LocalOK
  <2>2. CASE n = 0
    <3>1. pc'[c] = "head"
      BY <1>2, <1>3, <2>2 DEF MembersInv, MembersOK
    <3> QED BY <1>1, <1>4, <2>1, <2>2, <3>1 DEF ChainOK, NodeOf, HeadPc
  <2>3. CASE n > 0
    <3>1. n \in 1 .. n /\ q[n] \in Ctx /\ pc[q[n]] \in NodePc
      BY <1>4, <1>6, <2>3 DEF NodePc
    <3>2. tail[m] = TailOf(q[n]) /\ tail[m] # 0
      BY <1>2, <2>3, <3>1, NodesDiffer DEF MembersInv, MembersOK
    <3>3. pc'[c] = "link" /\ old'[c] = TailOf(q[n])
      BY <1>3, <3>2
    <3>4. next[NodeOf(q[n])] = NULL
      BY <1>2, <3>1 DEF ChainInv, ChainOK
    <3>5. queue'[m][n] = q[n] /\ (n + 1) - 1 = n /\ n + 1 # 1
      BY <1>4, <2>3, <3>1
    <3> QED BY <1>1, <1>4, <2>1, <3>3, <3>4, <3>5 DEF ChainOK, NodeOf, TailOf
  <2> QED BY <2>2, <2>3
<1> QED BY <1>4, <1>5, <1>7, <1>8, <1>9 DEF MembersInv, ChainInv

\* WRITE_ONCE(prev->next, node) reaches the predecessor's node, which is
\* still queued, and no other.
LEMMA LinkQueue ==
  ASSUME Inv, NEW c \in Ctx, link_into_queue(c)
  PROVE  ChainInv' /\ LocalInv'
<1> USE DEF Inv
<1>1. /\ Others(c) /\ pc[c] = "link" /\ pc'[c] = "mcswait"
      /\ UNCHANGED <<tail, mcs_locked, lk, val, nxt, idx, queue>>
  BY DEF Others, TypeOK, link_into_queue, Step, lockvars
<1>2. PICK m \in LOCKS, q \in Seq(Ctx), n \in Nat :
        m = lk[c] /\ q = queue[m] /\ n = Len(q) /\ lk'[c] = m
  <2>1. lk[c] \in LOCKS
    BY <1>1, HasLock
  <2> QED BY <1>1, <2>1 DEF TypeOK
<1>3. PICK i \in 1 .. n : q[i] = c /\ ChainOK(m, i)
  BY <1>1, <1>2 DEF MembersInv, MembersOK, ChainInv, QueuedPc
<1>4. i \in Nat /\ i > 1 /\ i - 1 \in 1 .. n /\ i - 1 # n
  BY <1>1, <1>2, <1>3 DEF ChainOK, HeadPc
<1>5. /\ \A j, k \in 1 .. n : q[j] = q[k] => j = k
      /\ \A j \in 1 .. n : q[j] \in Ctx /\ pc[q[j]] \in QueuedPc /\ lk[q[j]] = m
  BY <1>2 DEF MembersInv, MembersOK
<1>6. PICK p \in Ctx \ {c} : p = q[i-1] /\ pc[p] \in QueuedPc /\ lk[p] = m
  BY <1>1, <1>3, <1>4, <1>5
<1>7. pc[c] \in NodePc /\ pc[p] \in NodePc
  BY <1>1, <1>6 DEF NodePc, QueuedPc
<1>8. /\ old[c] = TailOf(p) /\ next[NodeOf(p)] = NULL /\ mcs_locked[NodeOf(c)] = 0
      /\ i = n => next[NodeOf(c)] = NULL
  BY <1>1, <1>2, <1>3, <1>4, <1>6 DEF ChainOK
<1>9. decode_tail(old[c]) = NodeOf(p) /\ NodeOf(p) \in Node
  BY <1>7, <1>8, NodesDiffer
<1>10. next' = [next EXCEPT ![NodeOf(p)] = NodeOf(c)]
  BY <1>9 DEF link_into_queue
<1>11. next'[NodeOf(p)] = NodeOf(c)
  BY <1>9, <1>10 DEF TypeOK
<1>12. \A d \in Ctx : pc[d] \in NodePc /\ d # p => SameNode(d)
  <2> SUFFICES ASSUME NEW d \in Ctx, pc[d] \in NodePc, d # p PROVE SameNode(d)
    OBVIOUS
  <2>1. NodeOf(d) # NodeOf(p) /\ NodeOf(d) \in Node
    BY <1>7, NodesDiffer
  <2> QED BY <1>1, <1>10, <2>1 DEF SameNode, TypeOK
<1>13. ASSUME NEW k \in LOCKS, k # m, NEW j \in 1 .. Len(queue'[k]) PROVE ChainOK(k, j)'
  <2>1. \A d \in Ctx \ {c} : pc[d] \in QueuedPc /\ lk[d] = k => SameNode(d)
    BY <1>6, <1>12, <1>13 DEF NodePc
  <2> QED BY <1>1, <1>2, <1>13, <2>1, OtherQueues
<1>14. ASSUME NEW j \in 1 .. n PROVE ChainOK(m, j)'
  <2>1. ChainOK(m, j) /\ j \in Nat /\ (j > 1 => j - 1 \in 1 .. n)
    BY <1>2 DEF ChainInv
  <2>2. \A k \in 1 .. n : (q[k] = p => k = i - 1) /\ (q[k] = c => k = i)
    BY <1>3, <1>4, <1>5, <1>6
  <2>3. \A k \in 1 .. n : /\ NodeOf(q[k]) = <<Cpu(q[k]), idx[q[k]]>>
                          /\ TailOf(q[k]) = encode_tail(Cpu(q[k]), idx[q[k]])
                          /\ q[k] # c => pc'[q[k]] = pc[q[k]] /\ old'[q[k]] = old[q[k]]
    BY <1>1, <1>5 DEF Others, NodeOf, TailOf
  <2>4. CASE j = i
    <3>1. i = n => next'[NodeOf(c)] = NULL
      BY <1>6, <1>7, <1>8, <1>12 DEF SameNode
    <3>2. /\ queue'[m][i] = c /\ queue'[m][i-1] = p /\ NodeOf(c)' = NodeOf(c) /\ NodeOf(p)' = NodeOf(p)
          /\ Len(queue'[m]) = n
      BY <1>1, <1>2, <1>3, <1>6 DEF NodeOf
    <3>3. mcs_locked'[NodeOf(c)] = 0
      BY <1>1, <1>8
    <3> QED BY <1>1, <1>4, <1>11, <2>4, <3>1, <3>2, <3>3 DEF ChainOK
  <2>5. CASE j # i
    <3>1. q[j] # c /\ (j > 1 => SameNode(q[j-1])) /\ (j = n => SameNode(q[j]))
      BY <1>4, <1>5, <1>12, <2>1, <2>2, <2>5 DEF NodePc
    <3>2. queue'[m] = q /\ queue[m] = q
      BY <1>1, <1>2
    <3>3. /\ NodeOf(q[j])' = NodeOf(q[j]) /\ (j > 1 => NodeOf(q[j-1])' = NodeOf(q[j-1]))
          /\ (j > 1 => TailOf(q[j-1])' = TailOf(q[j-1]))
      BY <1>1 DEF NodeOf, TailOf
    <3>4. pc'[q[j]] = pc[q[j]] /\ old'[q[j]] = old[q[j]]
      BY <2>3, <3>1
    <3> QED BY <1>1, <1>2, <2>1, <3>1, <3>2, <3>3, <3>4 DEF ChainOK, SameNode
  <2> QED BY <2>4, <2>5
<1>15. ChainInv'
  <2>1. Len(queue'[m]) = n
    BY <1>1, <1>2
  <2> QED BY <1>13, <1>14, <2>1 DEF ChainInv
<1>16. LocalOK(c)'
  BY <1>1 DEF LocalOK, HeadPc
<1>17. LocalOK(p)'
  <2>1. LocalOK(p) /\ pc[p] \notin {"trylock", "xchg"}
    BY <1>6 DEF LocalInv, QueuedPc, HeadPc
  <2>2. /\ pc'[p] = pc[p] /\ nxt'[p] = nxt[p] /\ val'[p] = val[p]
        /\ NodeOf(p)' = NodeOf(p) /\ TailOf(p)' = TailOf(p)
    BY <1>1 DEF Others, NodeOf, TailOf
  <2> QED BY <1>8, <2>1, <2>2 DEF LocalOK
<1>18. ASSUME NEW d \in Ctx \ {c, p} PROVE LocalOK(d)'
  <2>1. LocalOK(d) /\ (pc[d] \in NodePc => SameNode(d))
    BY <1>12 DEF LocalInv
  <2>2. /\ pc'[d] = pc[d] /\ nxt'[d] = nxt[d] /\ val'[d] = val[d]
        /\ NodeOf(d)' = NodeOf(d) /\ TailOf(d)' = TailOf(d)
    BY <1>1 DEF Others, NodeOf, TailOf
  <2> QED BY <2>1, <2>2 DEF LocalOK, SameNode, NodePc, QueuedPc, HeadPc
<1> QED BY <1>15, <1>16, <1>17, <1>18 DEF LocalInv

\* The uncontended claim empties the queue; a failed cmpxchg leaves it alone.
LEMMA ClaimQueue ==
  ASSUME Inv, NEW c \in Ctx, claim_uncontended(c)
  PROVE  MembersInv' /\ ChainInv'
<1> USE DEF Inv
<1>1. /\ Others(c) /\ pc[c] = "claim" /\ pc'[c] \in {"release", "setlocked"}
      /\ UNCHANGED <<next, mcs_locked, lk, idx>>
  BY DEF Others, TypeOK, claim_uncontended, Step, mcsvars
<1>2. \A d \in Ctx : SameNode(d)
  BY <1>1 DEF SameNode
<1>3. CASE Word(lk[c]) # val[c]
  <2>1. UNCHANGED <<tail, queue>> /\ pc'[c] = "setlocked"
    BY <1>3 DEF claim_uncontended, Step, TypeOK
  <2>2. MembersInv'
    BY <1>1, <2>1, MembersFrame DEF QueuedPc, HeadPc
  <2>3. ChainInv'
    BY <1>1, <1>2, <2>1, ChainFrame DEF HeadPc
  <2> QED BY <2>2, <2>3
<1>4. CASE Word(lk[c]) = val[c]
  <2>1. PICK m \in LOCKS, q \in Seq(Ctx) :
          m = lk[c] /\ q = queue[m] /\ lk'[c] = m /\ Len(q) = 1 /\ q[1] = c
    <3>1. lk[c] \in LOCKS
      BY <1>1, HasLock
    <3> QED BY <1>1, <1>4, <3>1, AloneInQueue DEF TypeOK
  <2>2. /\ pc'[c] = "release" /\ queue'[m] = Tail(q) /\ tail'[m] = 0
        /\ \A k \in LOCKS \ {m} : queue'[k] = queue[k] /\ tail'[k] = tail[k]
    BY <1>4, <2>1 DEF claim_uncontended, Step, TypeOK
  <2>3. Len(queue'[m]) = 0
    BY <2>1, <2>2
  <2>4. ASSUME NEW k \in LOCKS, k # m
        PROVE  MembersOK(k)' /\ \A i \in 1 .. Len(queue'[k]) : ChainOK(k, i)'
    BY <1>1, <1>2, <2>1, <2>2, <2>4, OtherQueues
  <2>5. \A d \in Ctx : pc[d] \in QueuedPc /\ lk[d] = m => d = c
    BY <2>1 DEF MembersInv, MembersOK
  <2>6. \A d \in Ctx : ~(pc'[d] \in QueuedPc /\ lk'[d] = m)
    BY <1>1, <2>2, <2>5 DEF Others, QueuedPc, HeadPc
  <2>7. MembersOK(m)' /\ \A i \in 1 .. Len(queue'[m]) : ChainOK(m, i)'
    BY <2>2, <2>3, <2>6 DEF MembersOK
  <2> QED BY <2>4, <2>7 DEF MembersInv, ChainInv
<1> QED BY <1>3, <1>4

\* arch_mcs_spin_unlock_contended() makes the second of the queue the first.
LEMMA HandoverQueue ==
  ASSUME Inv, NEW c \in Ctx, arch_mcs_spin_unlock_contended(c)
  PROVE  MembersInv' /\ ChainInv' /\ LocalInv'
<1> USE DEF Inv
<1>1. /\ Others(c) /\ pc[c] = "mcsunlock" /\ pc'[c] = "release"
      /\ UNCHANGED <<tail, next, lk, idx>>
  BY DEF Others, TypeOK, arch_mcs_spin_unlock_contended, Step, lockvars
<1>2. PICK m \in LOCKS, q \in Seq(Ctx), n \in Nat, s \in Ctx \ {c} :
        /\ m = lk[c] /\ q = queue[m] /\ n = Len(q) /\ lk'[c] = m
        /\ n > 1 /\ q[1] = c /\ q[2] = s /\ pc[s] = "mcswait" /\ nxt[c] = NodeOf(s)
  <2>1. lk[c] \in LOCKS
    BY <1>1, HasLock
  <2>2. LET q == queue[lk[c]] IN
        /\ Len(q) \in Nat /\ Len(q) > 1 /\ q[1] = c /\ q[2] \in Ctx \ {c}
        /\ pc[q[2]] = "mcswait" /\ nxt[c] = NodeOf(q[2])
    BY <1>1, SuccessorWaits
  <2>3. queue[lk[c]] \in Seq(Ctx) /\ lk'[c] = lk[c]
    BY <1>1, <2>1 DEF TypeOK
  <2> QED BY <2>1, <2>2, <2>3
<1>3. /\ queue'[m] = Tail(q) /\ \A k \in LOCKS \ {m} : queue'[k] = queue[k]
      /\ mcs_locked' = [mcs_locked EXCEPT ![NodeOf(s)] = 1]
  BY <1>2 DEF arch_mcs_spin_unlock_contended, TypeOK
<1>4. pc[s] \in NodePc /\ pc[s] \in QueuedPc /\ NodeOf(s) \in Node /\ lk[s] = m
  <2>1. pc[s] \in NodePc /\ pc[s] \in QueuedPc
    BY <1>2 DEF NodePc, QueuedPc
  <2>2. 2 \in 1 .. n
    BY <1>2
  <2> QED BY <1>2, <2>1, <2>2, NodesDiffer DEF MembersInv, MembersOK
<1>5. \A d \in Ctx : pc[d] \in NodePc /\ d # s => SameNode(d)
  <2> SUFFICES ASSUME NEW d \in Ctx, pc[d] \in NodePc, d # s PROVE SameNode(d)
    OBVIOUS
  <2>1. NodeOf(d) # NodeOf(s) /\ NodeOf(d) \in Node
    BY <1>4, NodesDiffer
  <2> QED BY <1>1, <1>3, <2>1 DEF SameNode, TypeOK
<1>6. mcs_locked'[NodeOf(s)] = 1
  BY <1>3, <1>4 DEF TypeOK
<1>7. /\ Len(queue'[m]) = n - 1
      /\ \A i \in 1 .. n - 1 : queue'[m][i] = q[i+1] /\ i + 1 \in 2 .. n
  BY <1>2, <1>3
<1>8. /\ \A i, j \in 1 .. n : q[i] = q[j] => i = j
      /\ \A i \in 1 .. n : q[i] \in Ctx /\ pc[q[i]] \in QueuedPc /\ lk[q[i]] = m
  BY <1>2 DEF MembersInv, MembersOK
<1>9. \A i \in 2 .. n : /\ q[i] \in Ctx \ {c} /\ pc'[q[i]] = pc[q[i]] /\ pc[q[i]] \in QueuedPc
                        /\ lk'[q[i]] = m /\ old'[q[i]] = old[q[i]]
  <2> SUFFICES ASSUME NEW i \in 2 .. n
               PROVE  q[i] \in Ctx \ {c} /\ pc[q[i]] \in QueuedPc /\ lk[q[i]] = m
    BY <1>1 DEF Others
  <2>1. i \in 1 .. n /\ 1 \in 1 .. n /\ i # 1
    BY <1>2
  <2> QED BY <1>2, <1>8, <2>1
<1>10. ASSUME NEW k \in LOCKS, k # m
       PROVE  MembersOK(k)' /\ \A i \in 1 .. Len(queue'[k]) : ChainOK(k, i)'
  <2>1. \A d \in Ctx \ {c} : pc[d] \in QueuedPc /\ lk[d] = k => SameNode(d)
    BY <1>4, <1>5, <1>10 DEF NodePc
  <2> QED BY <1>1, <1>2, <1>3, <1>10, <2>1, OtherQueues
<1>11. MembersOK(m)'
  <2>1. \A i \in 1 .. n - 1 : pc'[queue'[m][i]] \in QueuedPc /\ lk'[queue'[m][i]] = m
    BY <1>7, <1>9
  <2>2. ASSUME NEW i \in 1 .. n - 1, NEW j \in 1 .. n - 1, queue'[m][i] = queue'[m][j]
        PROVE  i = j
    <3>1. i + 1 \in 1 .. n /\ j + 1 \in 1 .. n /\ q[i+1] = q[j+1]
      BY <1>2, <1>7, <2>2
    <3>2. i + 1 = j + 1
      BY <1>8, <3>1
    <3> QED BY <3>2
  <2>3. ASSUME NEW d \in Ctx, pc'[d] \in QueuedPc, lk'[d] = m
        PROVE  \E i \in 1 .. n - 1 : queue'[m][i] = d
    <3>1. d # c /\ pc[d] \in QueuedPc /\ lk[d] = m
      BY <1>1, <2>3 DEF Others, QueuedPc, HeadPc
    <3>2. PICK j \in 1 .. n : q[j] = d
      BY <1>2, <3>1 DEF MembersInv, MembersOK
    <3>3. j - 1 \in 1 .. n - 1 /\ (j - 1) + 1 = j
      BY <1>2, <3>1, <3>2
    <3> QED BY <1>7, <3>2, <3>3
  <2>4. n - 1 # 0 /\ tail'[m] = encode_tail(Cpu(queue'[m][n-1]), idx'[queue'[m][n-1]])
    <3>1. n - 1 \in 1 .. n - 1 /\ (n - 1) + 1 = n /\ n # 0
      BY <1>2
    <3>2. queue'[m][n-1] = q[n]
      BY <1>7, <3>1
    <3>3. tail[m] = TailOf(q[n])
      BY <1>2, <3>1 DEF MembersInv, MembersOK
    <3> QED BY <1>1, <3>1, <3>2, <3>3 DEF TailOf
  <2> QED BY <1>7, <2>1, <2>2, <2>3, <2>4 DEF MembersOK, TailOf
<1>12. ASSUME NEW i \in 1 .. n - 1 PROVE ChainOK(m, i)'
  <2>1. /\ i \in Nat /\ i + 1 \in 2 .. n /\ i + 1 \in 1 .. n /\ (i + 1) - 1 = i /\ i + 1 > 1
        /\ i > 1 => i - 1 \in 1 .. n - 1 /\ (i - 1) + 1 = i
        /\ i = n - 1 <=> i + 1 = n
    BY <1>2
  <2>2. ChainOK(m, i + 1) /\ Len(queue[m]) = n /\ queue[m] = q
    BY <1>2, <2>1 DEF ChainInv
  <2>3. PICK x \in Ctx : x = q[i+1] /\ x = queue'[m][i] /\ NodeOf(x)' = NodeOf(x) /\ pc'[x] = pc[x]
                         /\ pc[x] \in QueuedPc /\ old'[x] = old[x]
    BY <1>1, <1>7, <1>9, <2>1 DEF NodeOf
  <2>4. i > 1 => queue'[m][i-1] = q[i]
    BY <1>7, <2>1
  <2>5. pc[x] \in {"link", "mcswait"} /\ mcs_locked[NodeOf(x)] = 0
    BY <2>1, <2>2, <2>3 DEF ChainOK
  <2>6. i = n - 1 => next'[NodeOf(x)] = NULL
    BY <1>1, <2>1, <2>2, <2>3 DEF ChainOK
  <2>7. CASE i = 1
    <3>1. x = s
      <4>1. i + 1 = 2
        BY <2>7
      <4> QED BY <1>2, <2>3, <4>1
    <3> QED BY <1>2, <1>6, <1>7, <2>3, <2>6, <2>7, <3>1 DEF ChainOK
  <2>8. CASE i > 1
    <3>1. x # s
      <4>1. 2 \in 1 .. n /\ i + 1 # 2
        BY <1>2, <2>1, <2>8
      <4> QED BY <1>2, <1>8, <2>1, <2>3, <4>1
    <3>2. mcs_locked'[NodeOf(x)] = 0
      BY <1>5, <2>3, <2>5, <3>1 DEF SameNode, NodePc
    <3>3. PICK y \in Ctx : y = q[i] /\ y = queue'[m][i-1] /\ NodeOf(y)' = NodeOf(y) /\ TailOf(y)' = TailOf(y)
      <4>1. i \in 1 .. n
        BY <2>1
      <4> QED BY <1>1, <1>8, <2>4, <2>8, <4>1 DEF NodeOf, TailOf
    <3>4. /\ pc[x] = "link" => old[x] = TailOf(y) /\ next[NodeOf(y)] = NULL
          /\ pc[x] = "mcswait" => next[NodeOf(y)] = NodeOf(x)
      BY <2>1, <2>2, <2>3, <3>3 DEF ChainOK
    <3> QED BY <1>1, <1>7, <2>1, <2>3, <2>5, <2>6, <2>8, <3>2, <3>3, <3>4 DEF ChainOK
  <2> QED BY <2>1, <2>7, <2>8
<1>13. LocalInv'
  <2>1. LocalOK(c)'
    BY <1>1 DEF LocalOK, HeadPc
  <2>2. \A d \in Ctx \ {c} : pc[d] \in {"trylock", "xchg"} \cup HeadPc => SameNode(d)
    BY <1>2, <1>5 DEF NodePc, QueuedPc, HeadPc
  <2> QED BY <1>1, <2>1, <2>2, LocalFrame
<1> QED BY <1>7, <1>10, <1>11, <1>12, <1>13 DEF MembersInv, ChainInv

-----------------------------------------------------------------------------
\* Every step of every context preserves Inv.
LEMMA NextInv == Inv /\ [Next]_vars => Inv'
<1> SUFFICES ASSUME Inv, [Next]_vars PROVE Inv'
  OBVIOUS
<1> USE DEF Inv
<1>1. ASSUME NEW c \in Ctx, NEW l \in LOCKS, queued_spin_lock_fast(c, l)
     PROVE  Inv'
  <2>1. /\ Others(c) /\ pc[c] = "idle" /\ pc'[c] = "cs"
        /\ UNCHANGED <<tail, pending, next, mcs_locked, count, val, old, nxt, idx, queue>>
        /\ lk'[c] = l
    BY <1>1 DEF Others, TypeOK, queued_spin_lock_fast, Step, Begin, lockvars, mcsvars
  <2>2. TypeOK'
    BY <1>1, <2>1, QspinlockAssumption, CtxPairs DEF TypeOK, queued_spin_lock_fast, Step, Begin, lockvars, mcsvars, PC, PendingPc, CountedPc, NodePc, QueuedPc, HeadPc
  <2>3. LkInv'
    BY <2>1, QspinlockAssumption DEF LkInv, Others
  <2>4. NodeInv'
    BY <2>1, NodeFrame DEF NodePc, CountedPc, QueuedPc, HeadPc
  <2>5. MembersInv'
    BY <2>1, MembersFrame DEF QueuedPc, HeadPc
  <2>6. ChainInv'
    BY <2>1, ChainFrame DEF Others, SameNode, QueuedPc, HeadPc
  <2>7. LocalInv'
    <3>1. LocalOK(c)'
      BY <2>1  DEF LocalOK, HeadPc
    <3> QED BY <2>1, <3>1, LocalFrame DEF SameNode
  <2>8. PendingInv'
    BY <2>1, PendingFrame DEF SetPending, PendingPc
  <2>9. DecidedInv'
    <3>1. \A d \in Ctx \ {c} : pc[d] \in {"take", "claim", "setlocked"} => lk[d] # l
      BY <1>1, FreeMeansUndecided DEF queued_spin_lock_fast
    <3>2. \A k \in LOCKS \ {l} : locked'[k] = locked[k]
      BY <1>1 DEF queued_spin_lock_fast, TypeOK
    <3> QED BY <2>1, <3>1, <3>2, DecidedTakes
  <2>10. MutualExclusion'
    BY <1>1, <2>1, OwnerTakes DEF queued_spin_lock_fast, Free, OwnerPc
  <2> QED BY <2>2, <2>3, <2>4, <2>5, <2>6, <2>7, <2>8, <2>9, <2>10
<1>2. ASSUME NEW c \in Ctx, NEW l \in LOCKS, queued_spin_lock_slow(c, l)
     PROVE  Inv'
  <2>1. /\ Others(c) /\ pc[c] = "idle" /\ pc'[c] \in {"pendspin", "queue", "pend"}
        /\ UNCHANGED <<tail, pending, locked, next, mcs_locked, count, val, old, nxt, idx, queue>>
        /\ lk'[c] = l
    BY <1>2 DEF Others, TypeOK, queued_spin_lock_slow, Step, Begin, lockvars, mcsvars, AfterSpin
  <2>2. TypeOK'
    BY <1>2, <2>1, QspinlockAssumption, CtxPairs DEF TypeOK, queued_spin_lock_slow, Step, Begin, lockvars, mcsvars, PC, PendingPc, CountedPc, NodePc, QueuedPc, HeadPc, AfterSpin
  <2>3. LkInv'
    BY <2>1, QspinlockAssumption DEF LkInv, Others
  <2>4. NodeInv'
    BY <2>1, NodeFrame DEF NodePc, CountedPc, QueuedPc, HeadPc
  <2>5. MembersInv'
    BY <2>1, MembersFrame DEF QueuedPc, HeadPc
  <2>6. ChainInv'
    BY <2>1, ChainFrame DEF Others, SameNode, QueuedPc, HeadPc
  <2>7. LocalInv'
    <3>1. LocalOK(c)'
      BY <2>1  DEF LocalOK, HeadPc
    <3> QED BY <2>1, <3>1, LocalFrame DEF SameNode
  <2>8. PendingInv'
    BY <2>1, PendingFrame DEF SetPending, PendingPc
  <2>9. DecidedInv'
    BY <2>1, DecidedFrame
  <2>10. MutualExclusion'
    BY <2>1, OwnerFrame DEF OwnerPc
  <2> QED BY <2>2, <2>3, <2>4, <2>5, <2>6, <2>7, <2>8, <2>9, <2>10
<1>3. ASSUME NEW c \in Ctx, NEW l \in LOCKS, queued_spin_trylock(c, l)
     PROVE  Inv'
  <2>1. /\ Others(c) /\ pc[c] = "idle" /\ pc'[c] = "cs"
        /\ UNCHANGED <<tail, pending, next, mcs_locked, count, val, old, nxt, idx, queue>>
        /\ lk'[c] = l
    BY <1>3 DEF Others, TypeOK, queued_spin_trylock, Step, Begin, lockvars, mcsvars
  <2>2. TypeOK'
    BY <1>3, <2>1, QspinlockAssumption, CtxPairs DEF TypeOK, queued_spin_trylock, Step, Begin, lockvars, mcsvars, PC, PendingPc, CountedPc, NodePc, QueuedPc, HeadPc
  <2>3. LkInv'
    BY <2>1, QspinlockAssumption DEF LkInv, Others
  <2>4. NodeInv'
    BY <2>1, NodeFrame DEF NodePc, CountedPc, QueuedPc, HeadPc
  <2>5. MembersInv'
    BY <2>1, MembersFrame DEF QueuedPc, HeadPc
  <2>6. ChainInv'
    BY <2>1, ChainFrame DEF Others, SameNode, QueuedPc, HeadPc
  <2>7. LocalInv'
    <3>1. LocalOK(c)'
      BY <2>1  DEF LocalOK, HeadPc
    <3> QED BY <2>1, <3>1, LocalFrame DEF SameNode
  <2>8. PendingInv'
    BY <2>1, PendingFrame DEF SetPending, PendingPc
  <2>9. DecidedInv'
    <3>1. \A d \in Ctx \ {c} : pc[d] \in {"take", "claim", "setlocked"} => lk[d] # l
      BY <1>3, FreeMeansUndecided DEF queued_spin_trylock
    <3>2. \A k \in LOCKS \ {l} : locked'[k] = locked[k]
      BY <1>3 DEF queued_spin_trylock, TypeOK
    <3> QED BY <2>1, <3>1, <3>2, DecidedTakes
  <2>10. MutualExclusion'
    BY <1>3, <2>1, OwnerTakes DEF queued_spin_trylock, Free, OwnerPc
  <2> QED BY <2>2, <2>3, <2>4, <2>5, <2>6, <2>7, <2>8, <2>9, <2>10
<1>4. ASSUME NEW c \in Ctx, queued_spin_unlock(c)
     PROVE  Inv'
  <2>1. /\ Others(c) /\ pc[c] = "cs" /\ pc'[c] = "idle"
        /\ UNCHANGED <<tail, pending, next, mcs_locked, count, val, old, nxt, idx, queue>>
        /\ lk'[c] = NoLock
    BY <1>4 DEF Others, TypeOK, queued_spin_unlock, Step, lockvars, mcsvars
  <2>2. lk[c] \in LOCKS
    BY <2>1, HasLock
  <2>3. TypeOK'
    BY <1>4, <2>1, QspinlockAssumption, CtxPairs DEF TypeOK, queued_spin_unlock, Step, lockvars, mcsvars, PC, PendingPc, CountedPc, NodePc, QueuedPc, HeadPc
  <2>4. LkInv'
    BY <2>1, QspinlockAssumption DEF LkInv, Others
  <2>5. NodeInv'
    BY <2>1, NodeFrame DEF NodePc, CountedPc, QueuedPc, HeadPc
  <2>6. MembersInv'
    BY <2>1, MembersFrame DEF QueuedPc, HeadPc
  <2>7. ChainInv'
    BY <2>1, ChainFrame DEF Others, SameNode, QueuedPc, HeadPc
  <2>8. LocalInv'
    <3>1. LocalOK(c)'
      BY <2>1  DEF LocalOK, HeadPc
    <3> QED BY <2>1, <3>1, LocalFrame DEF SameNode
  <2>9. PendingInv'
    BY <2>1, PendingFrame DEF SetPending, PendingPc
  <2>10. DecidedInv'
    <3>1. \A d \in Ctx \ {c} : pc[d] \in {"take", "claim", "setlocked"} => lk[d] # lk[c]
      <4>1. locked[lk[c]] = 1
        BY <2>1, <2>2 DEF MutualExclusion, Owners, OwnerPc
      <4> QED BY <4>1 DEF DecidedInv
    <3>2. \A k \in LOCKS \ {lk[c]} : locked'[k] = locked[k]
      BY <1>4 DEF queued_spin_unlock, TypeOK
    <3> QED BY <2>1, <2>2, <3>1, <3>2, DecidedTakes
  <2>11. MutualExclusion'
    BY <1>4, <2>1, <2>2, OwnerReleases DEF queued_spin_unlock, OwnerPc
  <2> QED BY <2>3, <2>4, <2>5, <2>6, <2>7, <2>8, <2>9, <2>10, <2>11
<1>5. ASSUME NEW c \in Ctx, wait_pending_handover(c)
     PROVE  Inv'
  <2>1. /\ Others(c) /\ pc[c] = "pendspin" /\ pc'[c] \in {"queue", "pend"}
        /\ UNCHANGED <<tail, pending, locked, next, mcs_locked, count, lk, val, old, nxt, idx, queue>>
    BY <1>5 DEF Others, TypeOK, wait_pending_handover, Step, lockvars, mcsvars, AfterSpin
  <2>2. lk[c] \in LOCKS
    BY <2>1, HasLock
  <2>3. TypeOK'
    BY <1>5, <2>1, QspinlockAssumption, CtxPairs DEF TypeOK, wait_pending_handover, Step, lockvars, mcsvars, PC, PendingPc, CountedPc, NodePc, QueuedPc, HeadPc, AfterSpin
  <2>4. LkInv'
    BY <2>1 DEF LkInv, Others
  <2>5. NodeInv'
    BY <2>1, NodeFrame DEF NodePc, CountedPc, QueuedPc, HeadPc
  <2>6. MembersInv'
    BY <2>1, MembersFrame DEF QueuedPc, HeadPc
  <2>7. ChainInv'
    BY <2>1, ChainFrame DEF Others, SameNode, QueuedPc, HeadPc
  <2>8. LocalInv'
    <3>1. LocalOK(c)'
      BY <2>1  DEF LocalOK, HeadPc
    <3> QED BY <2>1, <3>1, LocalFrame DEF SameNode
  <2>9. PendingInv'
    BY <2>1, PendingFrame DEF SetPending, PendingPc
  <2>10. DecidedInv'
    BY <2>1, DecidedFrame
  <2>11. MutualExclusion'
    BY <2>1, OwnerFrame DEF OwnerPc
  <2> QED BY <2>3, <2>4, <2>5, <2>6, <2>7, <2>8, <2>9, <2>10, <2>11
<1>6. ASSUME NEW c \in Ctx, queued_fetch_set_pending_acquire(c)
     PROVE  Inv'
  <2>1. /\ Others(c) /\ pc[c] = "pend" /\ pc'[c] \in {"undo", "queue", "pendwait", "take", "reread"}
        /\ UNCHANGED <<tail, locked, next, mcs_locked, count, lk, old, nxt, idx, queue>>
    BY <1>6 DEF Others, TypeOK, queued_fetch_set_pending_acquire, Step, lockvars, mcsvars, AfterFetch
  <2>2. lk[c] \in LOCKS
    BY <2>1, HasLock
  <2>3. TypeOK'
    <3>1. [NoWord EXCEPT !.pending = pending[lk[c]]] \in Words
      BY <2>2, NoTail DEF TypeOK, NoWord, Words
    <3>2. pc' \in [Ctx -> PC] /\ pending' \in [LOCKS -> {0, 1}] /\ val' \in [Ctx -> Words]
      BY <1>6, <2>1, <3>1 DEF TypeOK, queued_fetch_set_pending_acquire, Step, PC, PendingPc
    <3> QED BY <2>1, <3>2 DEF TypeOK
  <2>4. LkInv'
    BY <2>1 DEF LkInv, Others
  <2>5. NodeInv'
    BY <2>1, NodeFrame DEF NodePc, CountedPc, QueuedPc, HeadPc
  <2>6. MembersInv'
    BY <2>1, MembersFrame DEF QueuedPc, HeadPc
  <2>7. ChainInv'
    BY <2>1, ChainFrame DEF Others, SameNode, QueuedPc, HeadPc
  <2>8. LocalInv'
    <3>1. LocalOK(c)'
      BY <2>1  DEF LocalOK, HeadPc
    <3> QED BY <2>1, <3>1, LocalFrame DEF SameNode
  <2>9. PendingInv'
    <3>1. SetPending(c)' <=> pending[lk[c]] = 0
      <4>1. val'[c].pending = pending[lk[c]]
        BY <1>6 DEF queued_fetch_set_pending_acquire, TypeOK, NoWord
      <4>2. pc'[c] = IF FETCH_OR_ATOMIC THEN AfterFetch(Word(lk[c])) ELSE "reread"
        BY <1>6 DEF queued_fetch_set_pending_acquire, Step, TypeOK
      <4>3. pending[lk[c]] \in {0, 1}
        BY <2>2 DEF TypeOK
      <4> QED BY <4>1, <4>2, <4>3 DEF SetPending, AfterFetch, Contended, Word, PendingPc
    <3>2. /\ ~SetPending(c)
          /\ \A d \in Ctx \ {c} : SetPending(d)' <=> SetPending(d)
      BY <2>1 DEF SetPending, PendingPc, Others
    <3>3. pending'[lk[c]] = 1 /\ \A l \in LOCKS \ {lk[c]} : pending'[l] = pending[l]
      BY <1>6, <2>2 DEF queued_fetch_set_pending_acquire, TypeOK
    <3>4. \A d \in Ctx : SetPending(d) => lk[d] \in LOCKS
      BY HasLock DEF SetPending, PendingPc
    <3>5. \A l \in LOCKS : pending[l] \in {0, 1}
      BY DEF TypeOK
    <3> QED BY <2>1, <2>2, <3>1, <3>2, <3>3, <3>4, <3>5 DEF PendingInv
  <2>10. DecidedInv'
    <3>1. /\ pc'[c] \in {"pendwait", "take"} => tail[lk[c]] = 0
          /\ pc'[c] = "take" => locked[lk[c]] = 0
      BY <1>6, <2>2 DEF queued_fetch_set_pending_acquire, Step, TypeOK, AfterFetch, Contended, Word
    <3> QED BY <2>1, <3>1, DecidedPending
  <2>11. MutualExclusion'
    BY <2>1, OwnerFrame DEF OwnerPc
  <2> QED BY <2>3, <2>4, <2>5, <2>6, <2>7, <2>8, <2>9, <2>10, <2>11
<1>7. ASSUME NEW c \in Ctx, queued_fetch_set_pending_reread(c)
     PROVE  Inv'
  <2>1. /\ Others(c) /\ pc[c] = "reread" /\ pc'[c] \in {"undo", "queue", "pendwait", "take"}
        /\ UNCHANGED <<tail, pending, locked, next, mcs_locked, count, lk, old, nxt, idx, queue>>
    BY <1>7 DEF Others, TypeOK, queued_fetch_set_pending_reread, Step, lockvars, mcsvars, AfterFetch
  <2>2. lk[c] \in LOCKS
    BY <2>1, HasLock
  <2>3. TypeOK'
    <3>2. pc' \in [Ctx -> PC] /\ val' \in [Ctx -> Words]
      BY <1>7, <2>1, NoTail DEF TypeOK, queued_fetch_set_pending_reread, Step, PC, PendingPc
    <3> QED BY <2>1, <3>2 DEF TypeOK
  <2>4. LkInv'
    BY <2>1 DEF LkInv, Others
  <2>5. NodeInv'
    BY <2>1, NodeFrame DEF NodePc, CountedPc, QueuedPc, HeadPc
  <2>6. MembersInv'
    BY <2>1, MembersFrame DEF QueuedPc, HeadPc
  <2>7. ChainInv'
    BY <2>1, ChainFrame DEF Others, SameNode, QueuedPc, HeadPc
  <2>8. LocalInv'
    <3>1. LocalOK(c)'
      BY <2>1  DEF LocalOK, HeadPc
    <3> QED BY <2>1, <3>1, LocalFrame DEF SameNode
  <2>9. PendingInv'
    <3>1. val[c].pending \in {0, 1} /\ Reread(c).pending = val[c].pending
      BY DEF TypeOK, Words, Reread, Word
    <3>2. pc'[c] = AfterFetch(Reread(c))
      BY <1>7 DEF queued_fetch_set_pending_reread, Step, TypeOK
    <3>3. SetPending(c)' <=> SetPending(c)
      BY <2>1, <3>1, <3>2 DEF SetPending, AfterFetch, Contended, PendingPc
    <3> QED BY <2>1, <3>3, PendingFrame
  <2>10. DecidedInv'
    <3>1. /\ pc'[c] \in {"pendwait", "take"} => tail[lk[c]] = 0
          /\ pc'[c] = "take" => locked[lk[c]] = 0
      BY <1>7, <2>2 DEF queued_fetch_set_pending_reread, Step, TypeOK, AfterFetch, Contended, Reread, Word
    <3> QED BY <2>1, <3>1, DecidedPending
  <2>11. MutualExclusion'
    BY <2>1, OwnerFrame DEF OwnerPc
  <2> QED BY <2>3, <2>4, <2>5, <2>6, <2>7, <2>8, <2>9, <2>10, <2>11
<1>8. ASSUME NEW c \in Ctx, clear_pending(c)
     PROVE  Inv'
  <2>1. /\ Others(c) /\ pc[c] = "undo" /\ pc'[c] = "queue"
        /\ UNCHANGED <<tail, locked, next, mcs_locked, count, lk, val, old, nxt, idx, queue>>
    BY <1>8 DEF Others, TypeOK, clear_pending, Step, lockvars, mcsvars
  <2>2. lk[c] \in LOCKS
    BY <2>1, HasLock
  <2>3. TypeOK'
    BY <1>8, <2>1, QspinlockAssumption, CtxPairs DEF TypeOK, clear_pending, Step, lockvars, mcsvars, PC, PendingPc, CountedPc, NodePc, QueuedPc, HeadPc
  <2>4. LkInv'
    BY <2>1 DEF LkInv, Others
  <2>5. NodeInv'
    BY <2>1, NodeFrame DEF NodePc, CountedPc, QueuedPc, HeadPc
  <2>6. MembersInv'
    BY <2>1, MembersFrame DEF QueuedPc, HeadPc
  <2>7. ChainInv'
    BY <2>1, ChainFrame DEF Others, SameNode, QueuedPc, HeadPc
  <2>8. LocalInv'
    <3>1. LocalOK(c)'
      BY <2>1  DEF LocalOK, HeadPc
    <3> QED BY <2>1, <3>1, LocalFrame DEF SameNode
  <2>9. PendingInv'
    BY <1>8, <2>1, <2>2, PendingCleared DEF clear_pending, SetPending, PendingPc
  <2>10. DecidedInv'
    BY <2>1, DecidedFrame
  <2>11. MutualExclusion'
    BY <2>1, OwnerFrame DEF OwnerPc
  <2> QED BY <2>3, <2>4, <2>5, <2>6, <2>7, <2>8, <2>9, <2>10, <2>11
<1>9. ASSUME NEW c \in Ctx, pending_wait_owner(c)
     PROVE  Inv'
  <2>1. /\ Others(c) /\ pc[c] = "pendwait" /\ pc'[c] = "take"
        /\ UNCHANGED <<tail, pending, locked, next, mcs_locked, count, lk, val, old, nxt, idx, queue>>
    BY <1>9 DEF Others, TypeOK, pending_wait_owner, Step, lockvars, mcsvars
  <2>2. lk[c] \in LOCKS
    BY <2>1, HasLock
  <2>3. TypeOK'
    BY <1>9, <2>1, QspinlockAssumption, CtxPairs DEF TypeOK, pending_wait_owner, Step, lockvars, mcsvars, PC, PendingPc, CountedPc, NodePc, QueuedPc, HeadPc
  <2>4. LkInv'
    BY <2>1 DEF LkInv, Others
  <2>5. NodeInv'
    BY <2>1, NodeFrame DEF NodePc, CountedPc, QueuedPc, HeadPc
  <2>6. MembersInv'
    BY <2>1, MembersFrame DEF QueuedPc, HeadPc
  <2>7. ChainInv'
    BY <2>1, ChainFrame DEF Others, SameNode, QueuedPc, HeadPc
  <2>8. LocalInv'
    <3>1. LocalOK(c)'
      BY <2>1  DEF LocalOK, HeadPc
    <3> QED BY <2>1, <3>1, LocalFrame DEF SameNode
  <2>9. PendingInv'
    BY <2>1, PendingFrame DEF SetPending, PendingPc
  <2>10. DecidedInv'
    BY <1>9, <2>1, DecidedPending DEF pending_wait_owner
  <2>11. MutualExclusion'
    BY <2>1, OwnerFrame DEF OwnerPc
  <2> QED BY <2>3, <2>4, <2>5, <2>6, <2>7, <2>8, <2>9, <2>10, <2>11
<1>10. ASSUME NEW c \in Ctx, clear_pending_set_locked(c)
     PROVE  Inv'
  <2>1. /\ Others(c) /\ pc[c] = "take" /\ pc'[c] = "cs"
        /\ UNCHANGED <<tail, next, mcs_locked, count, lk, val, old, nxt, idx, queue>>
    BY <1>10 DEF Others, TypeOK, clear_pending_set_locked, Step, lockvars, mcsvars
  <2>2. lk[c] \in LOCKS
    BY <2>1, HasLock
  <2>3. TypeOK'
    BY <1>10, <2>1, QspinlockAssumption, CtxPairs DEF TypeOK, clear_pending_set_locked, Step, lockvars, mcsvars, PC, PendingPc, CountedPc, NodePc, QueuedPc, HeadPc
  <2>4. LkInv'
    BY <2>1 DEF LkInv, Others
  <2>5. NodeInv'
    BY <2>1, NodeFrame DEF NodePc, CountedPc, QueuedPc, HeadPc
  <2>6. MembersInv'
    BY <2>1, MembersFrame DEF QueuedPc, HeadPc
  <2>7. ChainInv'
    BY <2>1, ChainFrame DEF Others, SameNode, QueuedPc, HeadPc
  <2>8. LocalInv'
    <3>1. LocalOK(c)'
      BY <2>1  DEF LocalOK, HeadPc
    <3> QED BY <2>1, <3>1, LocalFrame DEF SameNode
  <2>9. PendingInv'
    BY <1>10, <2>1, <2>2, PendingCleared DEF clear_pending_set_locked, SetPending, PendingPc
  <2>10. DecidedInv'
    <3>1. \A d \in Ctx \ {c} : pc[d] \in {"take", "claim", "setlocked"} => lk[d] # lk[c]
      BY <2>1 DEF DecidedInv, PendingInv, SetPending, PendingPc
    <3>2. \A k \in LOCKS \ {lk[c]} : locked'[k] = locked[k]
      BY <1>10 DEF clear_pending_set_locked, TypeOK
    <3> QED BY <2>1, <2>2, <3>1, <3>2, DecidedTakes
  <2>11. MutualExclusion'
    <3>1. locked[lk[c]] = 0
      BY <2>1 DEF DecidedInv
    <3> QED BY <1>10, <2>1, <2>2, <3>1, OwnerTakes DEF clear_pending_set_locked, OwnerPc
  <2> QED BY <2>3, <2>4, <2>5, <2>6, <2>7, <2>8, <2>9, <2>10, <2>11
<1>11. ASSUME NEW c \in Ctx, grab_mcs_node(c)
     PROVE  Inv'
  <2>1. /\ Others(c) /\ pc[c] = "queue" /\ pc'[c] \in {"init", "spintry"}
        /\ UNCHANGED <<tail, pending, locked, next, mcs_locked, lk, val, old, nxt, queue>>
    BY <1>11 DEF Others, TypeOK, grab_mcs_node, Step, lockvars, mcsvars
  <2>2. lk[c] \in LOCKS
    BY <2>1, HasLock
  <2>3. TypeOK'
    BY <1>11, <2>1, QspinlockAssumption, CtxPairs DEF TypeOK, grab_mcs_node, Step, lockvars, mcsvars, PC, PendingPc, CountedPc, NodePc, QueuedPc, HeadPc
  <2>4. LkInv'
    BY <2>1 DEF LkInv, Others
  <2>5. NodeInv'
    <3>1. /\ count'[Cpu(c)] = count[Cpu(c)] + 1 /\ idx'[c] = count[Cpu(c)]
          /\ count[Cpu(c)] \in Nat /\ MAX_NODES \in Nat
          /\ pc'[c] = "init" => idx'[c] < MAX_NODES
      BY <1>11, CtxPairs, QspinlockAssumption DEF grab_mcs_node, Step, TypeOK
    <3>2. \A p \in CPUS \ {Cpu(c)} : count'[p] = count[p]
      BY <1>11 DEF grab_mcs_node, TypeOK
    <3>3. \A d \in Ctx : Cpu(d) = Cpu(c) /\ Level(d) > Level(c) => pc[d] \notin CountedPc
      BY <1>11 DEF grab_mcs_node, Step, Running, CountedPc, NodePc, QueuedPc, HeadPc
    <3>4. \A d \in Ctx \ {c} : pc[d] \in CountedPc => idx[d] < count[Cpu(d)] /\ idx[d] \in Nat
      BY DEF NodeInv, TypeOK
    <3>5. \A d \in Ctx \ {c} : pc'[d] = pc[d] /\ idx'[d] = idx[d]
      BY <2>1 DEF Others
    <3>6. pc'[c] \in NodePc => pc'[c] = "init"
      BY <2>1 DEF NodePc, QueuedPc, HeadPc
    <3>7. \A d \in Ctx : Cpu(d) \in CPUS /\ Level(d) \in Nat /\ count[Cpu(d)] \in Nat
      BY CtxPairs DEF TypeOK
    <3>8. (\A d \in Ctx : pc[d] \in CountedPc => idx[d] < count[Cpu(d)])'
      BY <3>1, <3>2, <3>4, <3>5, <3>7 DEF Cpu
    <3>9. (\A d \in Ctx : pc[d] \in NodePc => idx[d] < MAX_NODES)'
      BY <3>1, <3>5, <3>6 DEF NodeInv
    <3>10. (\A d, e \in Ctx :
              /\ Cpu(d) = Cpu(e) /\ Level(d) < Level(e)
              /\ pc[d] \in CountedPc /\ pc[e] \in CountedPc
              => idx[d] < idx[e])'
      BY <3>1, <3>3, <3>4, <3>5, <3>7 DEF NodeInv, Cpu, Level
    <3> QED BY <3>8, <3>9, <3>10 DEF NodeInv
  <2>6. MembersInv'
    BY <2>1, MembersFrame DEF QueuedPc, HeadPc
  <2>7. ChainInv'
    BY <2>1, ChainFrame DEF Others, SameNode, QueuedPc, HeadPc
  <2>8. LocalInv'
    <3>1. LocalOK(c)'
      BY <2>1  DEF LocalOK, HeadPc
    <3> QED BY <2>1, <3>1, LocalFrame DEF SameNode
  <2>9. PendingInv'
    BY <2>1, PendingFrame DEF SetPending, PendingPc
  <2>10. DecidedInv'
    BY <2>1, DecidedFrame
  <2>11. MutualExclusion'
    BY <2>1, OwnerFrame DEF OwnerPc
  <2> QED BY <2>3, <2>4, <2>5, <2>6, <2>7, <2>8, <2>9, <2>10, <2>11
<1>12. ASSUME NEW c \in Ctx, spin_without_node(c)
     PROVE  Inv'
  <2>1. /\ Others(c) /\ pc[c] = "spintry" /\ pc'[c] = "release"
        /\ UNCHANGED <<tail, pending, next, mcs_locked, count, lk, val, old, nxt, idx, queue>>
    BY <1>12 DEF Others, TypeOK, spin_without_node, Step, lockvars, mcsvars
  <2>2. lk[c] \in LOCKS
    BY <2>1, HasLock
  <2>3. TypeOK'
    BY <1>12, <2>1, QspinlockAssumption, CtxPairs DEF TypeOK, spin_without_node, Step, lockvars, mcsvars, PC, PendingPc, CountedPc, NodePc, QueuedPc, HeadPc
  <2>4. LkInv'
    BY <2>1 DEF LkInv, Others
  <2>5. NodeInv'
    BY <2>1, NodeFrame DEF NodePc, CountedPc, QueuedPc, HeadPc
  <2>6. MembersInv'
    BY <2>1, MembersFrame DEF QueuedPc, HeadPc
  <2>7. ChainInv'
    BY <2>1, ChainFrame DEF Others, SameNode, QueuedPc, HeadPc
  <2>8. LocalInv'
    <3>1. LocalOK(c)'
      BY <2>1  DEF LocalOK, HeadPc
    <3> QED BY <2>1, <3>1, LocalFrame DEF SameNode
  <2>9. PendingInv'
    BY <2>1, PendingFrame DEF SetPending, PendingPc
  <2>10. DecidedInv'
    <3>1. \A d \in Ctx \ {c} : pc[d] \in {"take", "claim", "setlocked"} => lk[d] # lk[c]
      BY <1>12, <2>2, FreeMeansUndecided DEF spin_without_node
    <3>2. \A k \in LOCKS \ {lk[c]} : locked'[k] = locked[k]
      BY <1>12 DEF spin_without_node, TypeOK
    <3> QED BY <2>1, <2>2, <3>1, <3>2, DecidedTakes
  <2>11. MutualExclusion'
    BY <1>12, <2>1, <2>2, OwnerTakes DEF spin_without_node, Free, OwnerPc
  <2> QED BY <2>3, <2>4, <2>5, <2>6, <2>7, <2>8, <2>9, <2>10, <2>11
<1>13. ASSUME NEW c \in Ctx, init_node(c)
     PROVE  Inv'
  <2>1. /\ Others(c) /\ pc[c] = "init" /\ pc'[c] = "trylock"
        /\ UNCHANGED <<tail, pending, locked, count, lk, val, old, nxt, idx, queue>>
    BY <1>13 DEF Others, TypeOK, init_node, Step, lockvars, mcsvars
  <2>2. lk[c] \in LOCKS
    BY <2>1, HasLock
  <2>3. TypeOK'
    BY <1>13, <2>1, QspinlockAssumption, CtxPairs DEF TypeOK, init_node, Step, lockvars, mcsvars, PC, PendingPc, CountedPc, NodePc, QueuedPc, HeadPc
  <2>4. LkInv'
    BY <2>1 DEF LkInv, Others
  <2>5. NodeInv'
    BY <2>1, NodeFrame DEF NodePc, CountedPc, QueuedPc, HeadPc
  <2>6. MembersInv'
    BY <2>1, MembersFrame DEF QueuedPc, HeadPc
  <2>7. ChainInv'
    <3>1. \A d \in Ctx \ {c} : pc[d] \in NodePc => SameNode(d)
      BY <1>13, <2>1, NodesDiffer DEF init_node, SameNode, TypeOK, NodePc
    <3> QED BY <2>1, <3>1, ChainFrame DEF NodePc, QueuedPc, HeadPc
  <2>8. LocalInv'
    <3>1. \A d \in Ctx \ {c} : pc[d] \in NodePc => SameNode(d)
      BY <1>13, <2>1, NodesDiffer DEF init_node, SameNode, TypeOK, NodePc
    <3>2. LocalOK(c)'
      BY <1>13, <2>1, NodesDiffer DEF init_node, LocalOK, TypeOK, NodePc, NodeOf, HeadPc
    <3> QED BY <2>1, <3>1, <3>2, LocalFrame DEF NodePc, QueuedPc
  <2>9. PendingInv'
    BY <2>1, PendingFrame DEF SetPending, PendingPc
  <2>10. DecidedInv'
    BY <2>1, DecidedFrame
  <2>11. MutualExclusion'
    BY <2>1, OwnerFrame DEF OwnerPc
  <2> QED BY <2>3, <2>4, <2>5, <2>6, <2>7, <2>8, <2>9, <2>10, <2>11
<1>14. ASSUME NEW c \in Ctx, node_trylock(c)
     PROVE  Inv'
  <2>1. /\ Others(c) /\ pc[c] = "trylock" /\ pc'[c] \in {"release", "xchg"}
        /\ UNCHANGED <<tail, pending, next, mcs_locked, count, lk, val, old, nxt, idx, queue>>
    BY <1>14 DEF Others, TypeOK, node_trylock, Step, lockvars, mcsvars
  <2>2. lk[c] \in LOCKS
    BY <2>1, HasLock
  <2>3. TypeOK'
    BY <1>14, <2>1, QspinlockAssumption, CtxPairs DEF TypeOK, node_trylock, Step, lockvars, mcsvars, PC, PendingPc, CountedPc, NodePc, QueuedPc, HeadPc
  <2>4. LkInv'
    BY <2>1 DEF LkInv, Others
  <2>5. NodeInv'
    BY <2>1, NodeFrame DEF NodePc, CountedPc, QueuedPc, HeadPc
  <2>6. MembersInv'
    BY <2>1, MembersFrame DEF QueuedPc, HeadPc
  <2>7. ChainInv'
    BY <2>1, ChainFrame DEF Others, SameNode, QueuedPc, HeadPc
  <2>8. LocalInv'
    <3>1. LocalOK(c)
      BY DEF LocalInv
    <3>2. LocalOK(c)'
      BY <2>1, <3>1 DEF LocalOK, NodeOf, TailOf, HeadPc
    <3> QED BY <2>1, <3>2, LocalFrame DEF SameNode, NodeOf
  <2>9. PendingInv'
    BY <2>1, PendingFrame DEF SetPending, PendingPc
  <2>10. DecidedInv'
    <3>1. CASE ~Free(lk[c])
      BY <1>14, <2>1, <3>1, DecidedFrame DEF node_trylock
    <3>2. CASE Free(lk[c])
      <4>1. \A d \in Ctx \ {c} : pc[d] \in {"take", "claim", "setlocked"} => lk[d] # lk[c]
        BY <2>2, <3>2, FreeMeansUndecided
      <4>2. \A k \in LOCKS \ {lk[c]} : locked'[k] = locked[k]
        BY <1>14 DEF node_trylock, TypeOK
      <4> QED BY <2>1, <2>2, <4>1, <4>2, DecidedTakes
    <3> QED BY <3>1, <3>2
  <2>11. MutualExclusion'
    <3>1. CASE Free(lk[c])
      BY <1>14, <2>1, <2>2, <3>1, OwnerTakes DEF node_trylock, Step, TypeOK, OwnerPc, Free
    <3>2. CASE ~Free(lk[c])
      BY <1>14, <2>1, <3>2, OwnerFrame DEF node_trylock, Step, TypeOK, OwnerPc
    <3> QED BY <3>1, <3>2
  <2> QED BY <2>3, <2>4, <2>5, <2>6, <2>7, <2>8, <2>9, <2>10, <2>11
<1>15. ASSUME NEW c \in Ctx, xchg_tail(c)
     PROVE  Inv'
  <2>1. /\ Others(c) /\ pc[c] = "xchg" /\ pc'[c] \in {"link", "head"}
        /\ UNCHANGED <<pending, locked, next, mcs_locked, count, lk, val, idx>>
    BY <1>15 DEF Others, TypeOK, xchg_tail, Step, lockvars, mcsvars
  <2>2. lk[c] \in LOCKS
    BY <2>1, HasLock
  <2>3. TypeOK'
    <3>1. TailOf(c) \in Tails
      BY <2>1, NodesDiffer DEF NodePc
    <3>2. Append(queue[lk[c]], c) \in Seq(Ctx)
      BY <2>2 DEF TypeOK
    <3>3. pc' \in [Ctx -> PC]
      BY <1>15, <2>1 DEF TypeOK, xchg_tail, Step, PC, CountedPc, NodePc, QueuedPc, HeadPc
    <3>4. /\ tail' \in [LOCKS -> Tails] /\ old' \in [Ctx -> Tails] /\ nxt' \in [Ctx -> Node \cup {NULL}]
          /\ queue' \in [LOCKS -> Seq(Ctx)]
      BY <1>15, <2>2, <3>1, <3>2 DEF TypeOK, xchg_tail
    <3> QED BY <2>1, <3>3, <3>4 DEF TypeOK
  <2>4. LkInv'
    BY <2>1 DEF LkInv, Others
  <2>5. NodeInv'
    BY <2>1, NodeFrame DEF NodePc, CountedPc, QueuedPc, HeadPc
  <2>6. MembersInv'
    BY <1>15, XchgQueue
  <2>7. ChainInv'
    BY <1>15, XchgQueue
  <2>8. LocalInv'
    <3>1. LocalOK(c)
      BY DEF LocalInv
    <3>2. LocalOK(c)'
      BY <1>15, <2>1, <3>1 DEF LocalOK, NodeOf, TailOf, HeadPc, xchg_tail, TypeOK
    <3> QED BY <2>1, <3>2, LocalFrame DEF SameNode, NodeOf
  <2>9. PendingInv'
    BY <2>1, PendingFrame DEF SetPending, PendingPc
  <2>10. DecidedInv'
    BY <2>1, DecidedFrame
  <2>11. MutualExclusion'
    BY <2>1, OwnerFrame DEF OwnerPc
  <2> QED BY <2>3, <2>4, <2>5, <2>6, <2>7, <2>8, <2>9, <2>10, <2>11
<1>16. ASSUME NEW c \in Ctx, link_into_queue(c)
     PROVE  Inv'
  <2>1. /\ Others(c) /\ pc[c] = "link" /\ pc'[c] = "mcswait"
        /\ UNCHANGED <<tail, pending, locked, mcs_locked, count, lk, val, nxt, idx, queue>>
    BY <1>16 DEF Others, TypeOK, link_into_queue, Step, lockvars, mcsvars
  <2>2. lk[c] \in LOCKS
    BY <2>1, HasLock
  <2>3. TypeOK'
    <3>1. NodeOf(c) \in Node
      BY <2>1, NodesDiffer DEF NodePc, QueuedPc
    <3>2. pc' \in [Ctx -> PC]
      BY <1>16, <2>1 DEF TypeOK, link_into_queue, Step, PC, CountedPc, NodePc, QueuedPc
    <3>3. next' \in [Node -> Node \cup {NULL}] /\ old' \in [Ctx -> Tails]
      BY <1>16, <3>1, NoTail DEF TypeOK, link_into_queue
    <3> QED BY <2>1, <3>2, <3>3 DEF TypeOK
  <2>4. LkInv'
    BY <2>1 DEF LkInv, Others
  <2>5. NodeInv'
    BY <2>1, NodeFrame DEF NodePc, CountedPc, QueuedPc, HeadPc
  <2>6. MembersInv'
    BY <2>1, MembersFrame DEF QueuedPc, HeadPc
  <2>7. ChainInv'
    BY <1>16, LinkQueue
  <2>8. LocalInv'
    BY <1>16, LinkQueue
  <2>9. PendingInv'
    BY <2>1, PendingFrame DEF SetPending, PendingPc
  <2>10. DecidedInv'
    BY <2>1, DecidedFrame
  <2>11. MutualExclusion'
    BY <2>1, OwnerFrame DEF OwnerPc
  <2> QED BY <2>3, <2>4, <2>5, <2>6, <2>7, <2>8, <2>9, <2>10, <2>11
<1>17. ASSUME NEW c \in Ctx, arch_mcs_spin_lock_contended(c)
     PROVE  Inv'
  <2>1. /\ Others(c) /\ pc[c] = "mcswait" /\ pc'[c] = "ldnext"
        /\ UNCHANGED <<tail, pending, locked, next, mcs_locked, count, lk, val, old, nxt, idx, queue>>
    BY <1>17 DEF Others, TypeOK, arch_mcs_spin_lock_contended, Step, lockvars, mcsvars
  <2>2. lk[c] \in LOCKS
    BY <2>1, HasLock
  <2>3. TypeOK'
    BY <1>17, <2>1, QspinlockAssumption, CtxPairs DEF TypeOK, arch_mcs_spin_lock_contended, Step, lockvars, mcsvars, PC, PendingPc, CountedPc, NodePc, QueuedPc, HeadPc
  <2>4. LkInv'
    BY <2>1 DEF LkInv, Others
  <2>5. NodeInv'
    BY <2>1, NodeFrame DEF NodePc, CountedPc, QueuedPc, HeadPc
  <2>6. MembersInv'
    BY <2>1, MembersFrame DEF QueuedPc, HeadPc
  <2>7. ChainInv'
    BY <1>17, <2>1, ChainFrame DEF arch_mcs_spin_lock_contended, SameNode, HeadPc
  <2>8. LocalInv'
    <3>1. LocalOK(c)'
      BY <2>1  DEF LocalOK, HeadPc
    <3> QED BY <2>1, <3>1, LocalFrame DEF SameNode
  <2>9. PendingInv'
    BY <2>1, PendingFrame DEF SetPending, PendingPc
  <2>10. DecidedInv'
    BY <2>1, DecidedFrame
  <2>11. MutualExclusion'
    BY <2>1, OwnerFrame DEF OwnerPc
  <2> QED BY <2>3, <2>4, <2>5, <2>6, <2>7, <2>8, <2>9, <2>10, <2>11
<1>18. ASSUME NEW c \in Ctx, load_next(c)
     PROVE  Inv'
  <2>1. /\ Others(c) /\ pc[c] = "ldnext" /\ pc'[c] = "head"
        /\ UNCHANGED <<tail, pending, locked, next, mcs_locked, count, lk, val, old, idx, queue>>
    BY <1>18 DEF Others, TypeOK, load_next, Step, lockvars, mcsvars
  <2>2. lk[c] \in LOCKS
    BY <2>1, HasLock
  <2>3. TypeOK'
    <3>1. NodeOf(c) \in Node
      BY <2>1, NodesDiffer DEF NodePc, QueuedPc, HeadPc
    <3>2. nxt' \in [Ctx -> Node \cup {NULL}]
      BY <1>18, <3>1 DEF load_next, TypeOK
    <3>3. pc' \in [Ctx -> PC]
      BY <1>18, <2>1 DEF TypeOK, load_next, Step, PC, CountedPc, NodePc, QueuedPc, HeadPc
    <3> QED BY <2>1, <3>2, <3>3 DEF TypeOK
  <2>4. LkInv'
    BY <2>1 DEF LkInv, Others
  <2>5. NodeInv'
    BY <2>1, NodeFrame DEF NodePc, CountedPc, QueuedPc, HeadPc
  <2>6. MembersInv'
    BY <2>1, MembersFrame DEF QueuedPc, HeadPc
  <2>7. ChainInv'
    BY <2>1, ChainFrame DEF Others, SameNode, QueuedPc, HeadPc
  <2>8. LocalInv'
    <3>1. LocalOK(c)
      BY DEF LocalInv
    <3>2. LocalOK(c)'
      BY <1>18, <2>1, <3>1 DEF LocalOK, NodeOf, TailOf, HeadPc, load_next, TypeOK
    <3> QED BY <2>1, <3>2, LocalFrame DEF SameNode, NodeOf
  <2>9. PendingInv'
    BY <2>1, PendingFrame DEF SetPending, PendingPc
  <2>10. DecidedInv'
    BY <2>1, DecidedFrame
  <2>11. MutualExclusion'
    BY <2>1, OwnerFrame DEF OwnerPc
  <2> QED BY <2>3, <2>4, <2>5, <2>6, <2>7, <2>8, <2>9, <2>10, <2>11
<1>19. ASSUME NEW c \in Ctx, wait_head(c)
     PROVE  Inv'
  <2>1. /\ Others(c) /\ pc[c] = "head" /\ pc'[c] \in {"claim", "setlocked"}
        /\ UNCHANGED <<tail, pending, locked, next, mcs_locked, count, lk, old, nxt, idx, queue>>
    BY <1>19 DEF Others, TypeOK, wait_head, Step, lockvars, mcsvars
  <2>2. lk[c] \in LOCKS
    BY <2>1, HasLock
  <2>3. TypeOK'
    <3>1. NoWord \in Words /\ Word(lk[c]) \in Words
      BY <2>2, NoTail DEF TypeOK, Word, Words
    <3>2. val' \in [Ctx -> Words]
      BY <1>19, <3>1 DEF wait_head, TypeOK
    <3>3. pc' \in [Ctx -> PC]
      BY <1>19, <2>1 DEF TypeOK, wait_head, Step, PC, CountedPc, NodePc, QueuedPc, HeadPc
    <3> QED BY <2>1, <3>2, <3>3 DEF TypeOK
  <2>4. LkInv'
    BY <2>1 DEF LkInv, Others
  <2>5. NodeInv'
    BY <2>1, NodeFrame DEF NodePc, CountedPc, QueuedPc, HeadPc
  <2>6. MembersInv'
    BY <2>1, MembersFrame DEF QueuedPc, HeadPc
  <2>7. ChainInv'
    BY <2>1, ChainFrame DEF Others, SameNode, QueuedPc, HeadPc
  <2>8. LocalInv'
    <3>1. LocalOK(c)
      BY DEF LocalInv
    <3>2. LocalOK(c)'
      BY <1>19, <2>2, <2>1, <3>1 DEF LocalOK, NodeOf, TailOf, HeadPc, wait_head, Step, TypeOK, Word
    <3> QED BY <2>1, <3>2, LocalFrame DEF SameNode, NodeOf
  <2>9. PendingInv'
    BY <2>1, PendingFrame DEF SetPending, PendingPc
  <2>10. DecidedInv'
    <3>1. locked[lk[c]] = 0 /\ pending[lk[c]] = 0
      BY <1>19 DEF wait_head
    <3>2. \A d \in Ctx : pc[d] \in {"pendwait", "take"} => lk[d] # lk[c]
      BY <3>1 DEF PendingInv, SetPending, PendingPc
    <3> QED BY <2>1, <3>1, <3>2 DEF DecidedInv, Others
  <2>11. MutualExclusion'
    BY <2>1, OwnerFrame DEF OwnerPc
  <2> QED BY <2>3, <2>4, <2>5, <2>6, <2>7, <2>8, <2>9, <2>10, <2>11
<1>20. ASSUME NEW c \in Ctx, claim_uncontended(c)
     PROVE  Inv'
  <2>1. /\ Others(c) /\ pc[c] = "claim" /\ pc'[c] \in {"release", "setlocked"}
        /\ UNCHANGED <<pending, next, mcs_locked, count, lk, old, nxt, idx>>
    BY <1>20 DEF Others, TypeOK, claim_uncontended, Step, lockvars, mcsvars
  <2>2. lk[c] \in LOCKS
    BY <2>1, HasLock
  <2>3. TypeOK'
    <3>1. Len(queue[lk[c]]) \in Nat \ {0}
      BY <2>1, HeadIsFirst DEF HeadPc
    <3>2. queue' \in [LOCKS -> Seq(Ctx)] /\ tail' \in [LOCKS -> Tails] /\ locked' \in [LOCKS -> {0, 1}]
      BY <1>20, <2>2, <3>1, NoTail DEF claim_uncontended, TypeOK
    <3>3. pc' \in [Ctx -> PC]
      BY <1>20, <2>1 DEF TypeOK, claim_uncontended, Step, PC, CountedPc, NodePc, QueuedPc, HeadPc
    <3>4. val' \in [Ctx -> Words]
      BY <1>20, NoTail DEF claim_uncontended, TypeOK
    <3> QED BY <2>1, <3>2, <3>3, <3>4 DEF TypeOK
  <2>4. LkInv'
    BY <2>1 DEF LkInv, Others
  <2>5. NodeInv'
    BY <2>1, NodeFrame DEF NodePc, CountedPc, QueuedPc, HeadPc
  <2>6. MembersInv'
    BY <1>20, ClaimQueue
  <2>7. ChainInv'
    BY <1>20, ClaimQueue
  <2>8. LocalInv'
    <3>1. LocalOK(c)
      BY DEF LocalInv
    <3>2. LocalOK(c)'
      BY <2>1, <3>1 DEF LocalOK, NodeOf, TailOf, HeadPc
    <3> QED BY <2>1, <3>2, LocalFrame DEF SameNode, NodeOf
  <2>9. PendingInv'
    BY <2>1, PendingFrame DEF SetPending, PendingPc
  <2>10. DecidedInv'
    <3>1. \A d \in Ctx \ {c} : pc[d] \in {"pendwait", "take", "claim", "setlocked"} => lk[d] # lk[c]
      BY <2>1, HeadIsFirst DEF DecidedInv, HeadPc
    <3>2. CASE Word(lk[c]) = val[c]
      BY <1>20, <2>1, <2>2, <3>1, <3>2, DecidedTakes DEF claim_uncontended, Step, TypeOK
    <3>3. CASE Word(lk[c]) # val[c]
      <4>1. UNCHANGED locked
        BY <1>20, <3>3 DEF claim_uncontended
      <4> QED BY <2>1, <3>1, <4>1 DEF DecidedInv, Others
    <3> QED BY <3>2, <3>3
  <2>11. MutualExclusion'
    <3>1. locked[lk[c]] = 0
      BY <2>1 DEF DecidedInv
    <3>2. CASE Word(lk[c]) = val[c]
      BY <1>20, <2>1, <2>2, <3>1, <3>2, OwnerTakes DEF claim_uncontended, Step, TypeOK, OwnerPc
    <3>3. CASE Word(lk[c]) # val[c]
      BY <1>20, <2>1, <3>3, OwnerFrame DEF claim_uncontended, Step, TypeOK, OwnerPc
    <3> QED BY <3>2, <3>3
  <2> QED BY <2>3, <2>4, <2>5, <2>6, <2>7, <2>8, <2>9, <2>10, <2>11
<1>21. ASSUME NEW c \in Ctx, set_locked(c)
     PROVE  Inv'
  <2>1. /\ Others(c) /\ pc[c] = "setlocked" /\ pc'[c] \in {"waitnext", "mcsunlock"}
        /\ UNCHANGED <<tail, pending, next, mcs_locked, count, lk, val, old, nxt, idx, queue>>
    BY <1>21 DEF Others, TypeOK, set_locked, Step, lockvars, mcsvars
  <2>2. lk[c] \in LOCKS
    BY <2>1, HasLock
  <2>3. TypeOK'
    BY <1>21, <2>1, QspinlockAssumption, CtxPairs DEF TypeOK, set_locked, Step, lockvars, mcsvars, PC, PendingPc, CountedPc, NodePc, QueuedPc, HeadPc
  <2>4. LkInv'
    BY <2>1 DEF LkInv, Others
  <2>5. NodeInv'
    BY <2>1, NodeFrame DEF NodePc, CountedPc, QueuedPc, HeadPc
  <2>6. MembersInv'
    BY <2>1, MembersFrame DEF QueuedPc, HeadPc
  <2>7. ChainInv'
    BY <2>1, ChainFrame DEF Others, SameNode, QueuedPc, HeadPc
  <2>8. LocalInv'
    <3>1. LocalOK(c)
      BY DEF LocalInv
    <3>2. LocalOK(c)'
      BY <1>21, <2>1, <3>1 DEF LocalOK, NodeOf, TailOf, HeadPc, set_locked, Step, TypeOK
    <3> QED BY <2>1, <3>2, LocalFrame DEF SameNode, NodeOf
  <2>9. PendingInv'
    BY <2>1, PendingFrame DEF SetPending, PendingPc
  <2>10. DecidedInv'
    <3>1. \A d \in Ctx \ {c} : pc[d] \in {"take", "claim", "setlocked"} => lk[d] # lk[c]
      BY <2>1, HeadIsFirst DEF DecidedInv, HeadPc
    <3>2. \A k \in LOCKS \ {lk[c]} : locked'[k] = locked[k]
      BY <1>21 DEF set_locked, TypeOK
    <3> QED BY <2>1, <2>2, <3>1, <3>2, DecidedTakes
  <2>11. MutualExclusion'
    <3>1. locked[lk[c]] = 0
      BY <2>1 DEF DecidedInv
    <3> QED BY <1>21, <2>1, <2>2, <3>1, OwnerTakes DEF set_locked, OwnerPc
  <2> QED BY <2>3, <2>4, <2>5, <2>6, <2>7, <2>8, <2>9, <2>10, <2>11
<1>22. ASSUME NEW c \in Ctx, wait_next(c)
     PROVE  Inv'
  <2>1. /\ Others(c) /\ pc[c] = "waitnext" /\ pc'[c] = "mcsunlock"
        /\ UNCHANGED <<tail, pending, locked, next, mcs_locked, count, lk, val, old, idx, queue>>
    BY <1>22 DEF Others, TypeOK, wait_next, Step, lockvars, mcsvars
  <2>2. lk[c] \in LOCKS
    BY <2>1, HasLock
  <2>3. TypeOK'
    <3>1. NodeOf(c) \in Node
      BY <2>1, NodesDiffer DEF NodePc, QueuedPc, HeadPc
    <3>2. nxt' \in [Ctx -> Node \cup {NULL}]
      BY <1>22, <3>1 DEF wait_next, TypeOK
    <3>3. pc' \in [Ctx -> PC]
      BY <1>22, <2>1 DEF TypeOK, wait_next, Step, PC, CountedPc, NodePc, QueuedPc, HeadPc
    <3> QED BY <2>1, <3>2, <3>3 DEF TypeOK
  <2>4. LkInv'
    BY <2>1 DEF LkInv, Others
  <2>5. NodeInv'
    BY <2>1, NodeFrame DEF NodePc, CountedPc, QueuedPc, HeadPc
  <2>6. MembersInv'
    BY <2>1, MembersFrame DEF QueuedPc, HeadPc
  <2>7. ChainInv'
    BY <2>1, ChainFrame DEF Others, SameNode, QueuedPc, HeadPc
  <2>8. LocalInv'
    <3>1. LocalOK(c)
      BY DEF LocalInv
    <3>2. LocalOK(c)'
      BY <1>22, <2>1, <3>1 DEF LocalOK, NodeOf, TailOf, HeadPc, wait_next, Step, TypeOK
    <3> QED BY <2>1, <3>2, LocalFrame DEF SameNode, NodeOf
  <2>9. PendingInv'
    BY <2>1, PendingFrame DEF SetPending, PendingPc
  <2>10. DecidedInv'
    BY <2>1, DecidedFrame
  <2>11. MutualExclusion'
    BY <2>1, OwnerFrame DEF OwnerPc
  <2> QED BY <2>3, <2>4, <2>5, <2>6, <2>7, <2>8, <2>9, <2>10, <2>11
<1>23. ASSUME NEW c \in Ctx, arch_mcs_spin_unlock_contended(c)
     PROVE  Inv'
  <2>1. /\ Others(c) /\ pc[c] = "mcsunlock" /\ pc'[c] = "release"
        /\ UNCHANGED <<tail, pending, locked, next, count, lk, val, old, idx>>
    BY <1>23 DEF Others, TypeOK, arch_mcs_spin_unlock_contended, Step, lockvars, mcsvars
  <2>2. lk[c] \in LOCKS
    BY <2>1, HasLock
  <2>3. TypeOK'
    <3>1. Len(queue[lk[c]]) \in Nat \ {0}
      BY <2>1, HeadIsFirst DEF HeadPc
    <3>2. queue' \in [LOCKS -> Seq(Ctx)]
      BY <1>23, <2>2, <3>1 DEF arch_mcs_spin_unlock_contended, TypeOK
    <3>3. pc' \in [Ctx -> PC]
      BY <1>23, <2>1 DEF TypeOK, arch_mcs_spin_unlock_contended, Step, PC, CountedPc
    <3>4. mcs_locked' \in [Node -> {0, 1}] /\ nxt' \in [Ctx -> Node \cup {NULL}]
      BY <1>23 DEF arch_mcs_spin_unlock_contended, TypeOK
    <3> QED BY <2>1, <3>2, <3>3, <3>4 DEF TypeOK
  <2>4. LkInv'
    BY <2>1 DEF LkInv, Others
  <2>5. NodeInv'
    BY <2>1, NodeFrame DEF NodePc, CountedPc, QueuedPc, HeadPc
  <2>6. MembersInv'
    BY <1>23, HandoverQueue
  <2>7. ChainInv'
    BY <1>23, HandoverQueue
  <2>8. LocalInv'
    BY <1>23, HandoverQueue
  <2>9. PendingInv'
    BY <2>1, PendingFrame DEF SetPending, PendingPc
  <2>10. DecidedInv'
    BY <2>1, DecidedFrame
  <2>11. MutualExclusion'
    BY <2>1, OwnerFrame DEF OwnerPc
  <2> QED BY <2>3, <2>4, <2>5, <2>6, <2>7, <2>8, <2>9, <2>10, <2>11
<1>24. ASSUME NEW c \in Ctx, release_node(c)
     PROVE  Inv'
  <2>1. /\ Others(c) /\ pc[c] = "release" /\ pc'[c] = "cs"
        /\ UNCHANGED <<tail, pending, locked, next, mcs_locked, lk, val, old, nxt, queue>>
    BY <1>24 DEF Others, TypeOK, release_node, Step, lockvars, mcsvars
  <2>2. lk[c] \in LOCKS
    BY <2>1, HasLock
  <2>3. TypeOK'
    <3>1. count[Cpu(c)] - 1 \in Nat
      BY <2>1, CtxPairs DEF NodeInv, TypeOK, CountedPc
    <3> QED BY <1>24, <2>1, <3>1 DEF TypeOK, release_node, Step, PC
  <2>4. LkInv'
    BY <2>1 DEF LkInv, Others
  <2>5. NodeInv'
    <3>1. /\ count'[Cpu(c)] = count[Cpu(c)] - 1 /\ count[Cpu(c)] \in Nat
          /\ idx[c] \in Nat /\ idx[c] < count[Cpu(c)]
          /\ \A p \in CPUS \ {Cpu(c)} : count'[p] = count[p]
      BY <1>24, <2>1, CtxPairs DEF release_node, TypeOK, NodeInv, CountedPc
    <3>2. \A d \in Ctx : Cpu(d) = Cpu(c) /\ Level(d) > Level(c) => pc[d] \notin CountedPc
      BY <1>24 DEF release_node, Step, Running, CountedPc, NodePc, QueuedPc, HeadPc
    <3>3. \A d \in Ctx \ {c} : /\ pc'[d] = pc[d] /\ idx'[d] = idx[d] /\ idx[d] \in Nat
                               /\ Cpu(d) = Cpu(c) => Level(d) # Level(c)
      BY <2>1, CtxPairs DEF Others, TypeOK
    <3>4. \A d \in Ctx \ {c} : pc[d] \in CountedPc /\ Cpu(d) = Cpu(c) => idx[d] < idx[c]
      BY <2>1, <3>2, <3>3, CtxPairs DEF NodeInv, CountedPc
    <3>5. pc'[c] \notin CountedPc /\ pc'[c] \notin NodePc
      BY <2>1 DEF CountedPc, NodePc, QueuedPc, HeadPc
    <3>6. \A d \in Ctx : Cpu(d) \in CPUS /\ count[Cpu(d)] \in Nat
      BY CtxPairs DEF TypeOK
    <3>7. (\A d \in Ctx : pc[d] \in CountedPc => idx[d] < count[Cpu(d)])'
      BY <3>1, <3>3, <3>4, <3>5, <3>6 DEF NodeInv, Cpu
    <3>8. (\A d \in Ctx : pc[d] \in NodePc => idx[d] < MAX_NODES)'
      BY <3>3, <3>5 DEF NodeInv
    <3>9. (\A d, e \in Ctx :
              /\ Cpu(d) = Cpu(e) /\ Level(d) < Level(e)
              /\ pc[d] \in CountedPc /\ pc[e] \in CountedPc
              => idx[d] < idx[e])'
      BY <3>3, <3>5 DEF NodeInv, Cpu, Level
    <3> QED BY <3>7, <3>8, <3>9 DEF NodeInv
  <2>6. MembersInv'
    BY <2>1, MembersFrame DEF QueuedPc, HeadPc
  <2>7. ChainInv'
    BY <2>1, ChainFrame DEF Others, SameNode, QueuedPc, HeadPc
  <2>8. LocalInv'
    <3>1. LocalOK(c)'
      BY <2>1  DEF LocalOK, HeadPc
    <3> QED BY <2>1, <3>1, LocalFrame DEF SameNode
  <2>9. PendingInv'
    BY <2>1, PendingFrame DEF SetPending, PendingPc
  <2>10. DecidedInv'
    BY <2>1, DecidedFrame
  <2>11. MutualExclusion'
    BY <2>1, OwnerFrame DEF OwnerPc
  <2> QED BY <2>3, <2>4, <2>5, <2>6, <2>7, <2>8, <2>9, <2>10, <2>11
<1>25. CASE UNCHANGED vars
  <2>1. TypeOK' /\ LkInv' /\ NodeInv' /\ MembersInv'
    BY <1>25 DEF vars, TypeOK, LkInv, NodeInv, MembersInv, MembersOK, TailOf
  <2>2. ChainInv' /\ LocalInv'
    BY <1>25 DEF vars, ChainInv, ChainOK, LocalInv, LocalOK, NodeOf, TailOf
  <2>3. PendingInv' /\ DecidedInv' /\ MutualExclusion'
    BY <1>25 DEF vars, PendingInv, SetPending, DecidedInv, MutualExclusion, Owners
  <2> QED BY <2>1, <2>2, <2>3
<1> QED BY <1>1, <1>2, <1>3, <1>4, <1>5, <1>6, <1>7, <1>8, <1>9, <1>10, <1>11, <1>12, <1>13, <1>14, <1>15, <1>16, <1>17, <1>18, <1>19, <1>20, <1>21, <1>22, <1>23, <1>24, <1>25 DEF Next, queued_spin_lock_slowpath, Pending, Queue

-----------------------------------------------------------------------------
\* Inv holds throughout, for any numbers of CPUs, nesting levels and nodes.
THEOREM InvHolds == Spec => []Inv
BY InitInv, NextInv, PTL DEF Spec

\* The tail of every lock is 0 or the code of an MCS node that exists, so is
\* every tail a context has read and still uses, every MCS pointer is NULL or
\* a node, and the node counters never fall below zero.
THEOREM TypeCorrect == Spec => []TypeOK
<1>1. Inv => TypeOK
  BY DEF Inv
<1> QED BY <1>1, InvHolds, PTL

\* At most one context is past the acquisition of a lock, and the locked byte
\* says whether one is.
THEOREM MutualExclusionHolds == Spec => []MutualExclusion
<1>1. Inv => MutualExclusion
  BY DEF Inv
<1> QED BY <1>1, InvHolds, PTL

\* Nested contexts never use the same MCS node.
THEOREM NodesNotSharedHolds == Spec => []NodesNotShared
<1>1. Inv => NodesNotShared
  BY NodesDiffer DEF Inv, NodesNotShared
<1> QED BY <1>1, InvHolds, PTL

\* Writes through prev and next reach the neighbour in the queue.
THEOREM WritesToNeighbourHolds == Spec => []WritesToNeighbour
<1>1. ASSUME Inv, NEW c \in Ctx, pc[c] = "link"
      PROVE  \E i \in 2 .. Len(queue[lk[c]]) :
               /\ queue[lk[c]][i] = c
               /\ NodeOf(queue[lk[c]][i-1]) = decode_tail(old[c])
  <2> USE DEF Inv
  <2>1. lk[c] \in LOCKS /\ Len(queue[lk[c]]) \in Nat
    BY <1>1, HasLock DEF TypeOK
  <2>2. PICK i \in 1 .. Len(queue[lk[c]]) : queue[lk[c]][i] = c /\ ChainOK(lk[c], i)
    BY <1>1, <2>1 DEF MembersInv, MembersOK, ChainInv, QueuedPc
  <2>3. i # 1 /\ i \in 2 .. Len(queue[lk[c]]) /\ i - 1 \in 1 .. Len(queue[lk[c]]) /\ i > 1
    BY <1>1, <2>1, <2>2 DEF ChainOK, HeadPc
  <2>4. queue[lk[c]][i-1] \in Ctx /\ pc[queue[lk[c]][i-1]] \in NodePc
    BY <1>1, <2>1, <2>3 DEF MembersInv, MembersOK, TypeOK, NodePc
  <2>5. old[c] = TailOf(queue[lk[c]][i-1])
    BY <1>1, <2>2, <2>3 DEF ChainOK
  <2> QED BY <1>1, <2>2, <2>3, <2>4, <2>5, NodesDiffer
<1>2. Inv => WritesToNeighbour
  BY <1>1, SuccessorWaits DEF WritesToNeighbour
<1> QED BY <1>2, InvHolds, PTL

\* How a context comes to own a lock: it takes a lock whose word is all zero,
\* or it is the pending waiter, or it is the first of the queue.
LEMMA Acquisition ==
  ASSUME Inv, [Next]_vars, NEW c \in Ctx, pc[c] \notin OwnerPc, pc'[c] \in OwnerPc
  PROVE  /\ lk'[c] \in LOCKS /\ locked[lk'[c]] = 0
         /\ pc[c] = "idle" \/ lk'[c] = lk[c]
         /\ Free(lk'[c]) \/ pc[c] = "take" \/ (pc[c] \in HeadPc /\ lk'[c] = lk[c])
<1> USE DEF Inv
<1>1. ASSUME NEW l \in LOCKS, queued_spin_lock_fast(c, l) \/ queued_spin_trylock(c, l)
      PROVE  lk'[c] = l /\ Free(l) /\ pc[c] = "idle"
  BY <1>1 DEF queued_spin_lock_fast, queued_spin_trylock, Begin, Step, TypeOK
<1>2. ASSUME spin_without_node(c) \/ node_trylock(c)
      PROVE  lk'[c] = lk[c] /\ Free(lk[c]) /\ lk[c] \in LOCKS
  BY <1>2, HasLock DEF spin_without_node, node_trylock, Step, TypeOK, OwnerPc
<1>3. ASSUME clear_pending_set_locked(c) \/ claim_uncontended(c) \/ set_locked(c)
      PROVE  /\ lk'[c] = lk[c] /\ lk[c] \in LOCKS /\ locked[lk[c]] = 0
             /\ pc[c] = "take" \/ pc[c] \in HeadPc
  BY <1>3, HasLock DEF clear_pending_set_locked, claim_uncontended, set_locked, Step, DecidedInv, HeadPc
<1>4. \/ \E l \in LOCKS : queued_spin_lock_fast(c, l) \/ queued_spin_trylock(c, l)
      \/ spin_without_node(c) \/ node_trylock(c)
      \/ clear_pending_set_locked(c) \/ claim_uncontended(c) \/ set_locked(c)
  <2>1. PICK d \in Ctx :
          \/ \E l \in LOCKS : \/ queued_spin_lock_fast(d, l)
                              \/ queued_spin_lock_slow(d, l)
                              \/ queued_spin_trylock(d, l)
          \/ queued_spin_lock_slowpath(d)
          \/ queued_spin_unlock(d)
    BY DEF Next, vars
  <2>2. ASSUME NEW from, NEW to, Step(d, from, to), d # c PROVE FALSE
    BY <2>2 DEF Step, TypeOK
  <2>3. d = c
    BY <2>1, <2>2 DEF queued_spin_lock_fast, queued_spin_lock_slow, queued_spin_trylock, Begin,
       queued_spin_unlock, queued_spin_lock_slowpath, Pending, Queue,
       wait_pending_handover, queued_fetch_set_pending_acquire, queued_fetch_set_pending_reread,
       clear_pending, pending_wait_owner, clear_pending_set_locked, grab_mcs_node,
       spin_without_node, init_node, node_trylock, xchg_tail, link_into_queue,
       arch_mcs_spin_lock_contended, load_next, wait_head, claim_uncontended, set_locked,
       wait_next, arch_mcs_spin_unlock_contended, release_node
  <2>4. /\ ~\E l \in LOCKS : queued_spin_lock_slow(c, l)
        /\ ~queued_spin_unlock(c)
        /\ ~Pending(c) \/ clear_pending_set_locked(c)
    BY DEF queued_spin_lock_slow, Begin, Step, queued_spin_unlock, Pending, wait_pending_handover,
       queued_fetch_set_pending_acquire, queued_fetch_set_pending_reread, clear_pending,
       pending_wait_owner, AfterSpin, AfterFetch, TypeOK, OwnerPc
  <2>5. Queue(c) => spin_without_node(c) \/ node_trylock(c) \/ claim_uncontended(c) \/ set_locked(c)
    BY DEF Queue, Step, grab_mcs_node, init_node, xchg_tail, link_into_queue,
       arch_mcs_spin_lock_contended, load_next, wait_head,
       wait_next, arch_mcs_spin_unlock_contended, release_node, TypeOK, OwnerPc
  <2> QED BY <2>1, <2>3, <2>4, <2>5 DEF queued_spin_lock_slowpath
<1> QED BY <1>1, <1>2, <1>3, <1>4 DEF Free

\* A queued lock is taken in the order of the queue.
THEOREM NoOvertakingHolds == Spec => NoOvertaking
<1>1. ASSUME Inv, [Next]_vars, NEW c \in Ctx, pc[c] \notin OwnerPc, pc'[c] \in OwnerPc
      PROVE  InTurn(c, lk'[c])
  <2> USE DEF Inv
  <2>1. lk'[c] \in LOCKS
    BY <1>1, Acquisition
  <2>2. CASE Free(lk'[c])
    <3>1. queue[lk'[c]] \in Seq(Ctx)
      BY <1>1, <2>1 DEF TypeOK
    <3>2. ASSUME Len(queue[lk'[c]]) # 0 PROVE FALSE
      <4> DEFINE q == queue[lk'[c]]
      <4>1. Len(q) \in 1 .. Len(q)
        BY <3>1, <3>2
      <4>2. q[Len(q)] \in Ctx /\ pc[q[Len(q)]] \in QueuedPc /\ lk[q[Len(q)]] = lk'[c]
        BY <1>1, <2>1, <3>1, <4>1 DEF MembersInv, MembersOK
      <4>3. tail[lk'[c]] # 0
        BY <1>1, <4>2, QueuedMeansTail
      <4> QED BY <2>2, <4>3 DEF Free
    <3> QED BY <3>1, <3>2 DEF InTurn
  <2>3. CASE pc[c] \in HeadPc /\ lk'[c] = lk[c]
    <3>1. queue[lk[c]] \in Seq(Ctx) /\ Len(queue[lk[c]]) # 0 /\ queue[lk[c]][1] = c
      BY <1>1, <2>1, <2>3, HeadIsFirst DEF TypeOK
    <3> QED BY <2>3, <3>1 DEF InTurn
  <2>4. CASE pc[c] = "take"
    BY <2>4 DEF InTurn
  <2> QED BY <1>1, <2>2, <2>3, <2>4, Acquisition
<1>2. Inv /\ [Next]_vars =>
        [\A c \in Ctx : pc[c] \notin OwnerPc /\ pc'[c] \in OwnerPc => InTurn(c, lk'[c])]_vars
  BY <1>1
<1> QED BY <1>2, InvHolds, PTL DEF Spec, NoOvertaking

-----------------------------------------------------------------------------
(***************************************************************************)
(* Refinement: Qspinlock implements SpinLockSpec.                           *)
(***************************************************************************)

\* The abstract holders are the owners.
LEMMA HoldersAreOwners == \A l \in LOCKS : Contract!Holders(l) = Owners(l)
BY DEF Contract!Holders, Owners, Phase, OwnerPc

\* A step of c, seen through the refinement mapping.
LEMMA MappedStep ==
  ASSUME Inv, NEW c \in Ctx, Others(c),
         \/ Phase(c)' = Phase(c) /\ UNCHANGED lk
         \/ /\ Phase(c) = "idle" /\ Phase(c)' = "waiting"
            /\ \E l \in LOCKS : lk' = [lk EXCEPT ![c] = l]
         \/ /\ Phase(c) = "idle" /\ Phase(c)' = "holding"
            /\ \E l \in LOCKS : lk' = [lk EXCEPT ![c] = l] /\ locked[l] = 0
         \/ /\ Phase(c) = "waiting" /\ Phase(c)' = "holding"
            /\ UNCHANGED lk /\ lk[c] \in LOCKS /\ locked[lk[c]] = 0
         \/ Phase(c) = "holding" /\ Phase(c)' = "idle" /\ lk' = [lk EXCEPT ![c] = NoLock]
  PROVE  [Contract!Next]_(Contract!vars)
<1> USE DEF Inv
<1> DEFINE ph == [d \in Ctx |-> Phase(d)]
<1>1. \A d \in Ctx \ {c} : Phase(d)' = Phase(d)
  BY DEF Others, Phase
<1>2. ph' = [ph EXCEPT ![c] = Phase(c)'] /\ ph[c] = Phase(c)
  BY <1>1
<1>3. \A l \in LOCKS : locked[l] = 0 => Contract!Holders(l) = {}
  BY HoldersAreOwners DEF MutualExclusion
<1>4. CASE Phase(c)' = Phase(c) /\ UNCHANGED lk
  BY <1>2, <1>4 DEF Contract!vars
<1>5. CASE /\ Phase(c) = "idle" /\ Phase(c)' = "waiting"
           /\ \E l \in LOCKS : lk' = [lk EXCEPT ![c] = l]
  BY <1>2, <1>5 DEF Contract!Next, Contract!Request
<1>6. CASE /\ Phase(c) = "idle" /\ Phase(c)' = "holding"
           /\ \E l \in LOCKS : lk' = [lk EXCEPT ![c] = l] /\ locked[l] = 0
  BY <1>2, <1>3, <1>6 DEF Contract!Next, Contract!Take
<1>7. CASE /\ Phase(c) = "waiting" /\ Phase(c)' = "holding"
           /\ UNCHANGED lk /\ lk[c] \in LOCKS /\ locked[lk[c]] = 0
  BY <1>2, <1>3, <1>7 DEF Contract!Next, Contract!Grant
<1>8. CASE Phase(c) = "holding" /\ Phase(c)' = "idle" /\ lk' = [lk EXCEPT ![c] = NoLock]
  BY <1>2, <1>8 DEF Contract!Next, Contract!Release
<1> QED BY <1>4, <1>5, <1>6, <1>7, <1>8

\* The queued spinlock implements the contract of a spinlock.
THEOREM Implements == Spec => ImplementsSpinLock
<1>1. Init => Contract!Init
  BY DEF Init, Contract!Init, Phase
<1>2. ASSUME Inv, [Next]_vars PROVE [Contract!Next]_(Contract!vars)
  <2> USE DEF Inv
  <2>1. CASE UNCHANGED vars
    BY <2>1 DEF vars, Contract!vars, Phase
  <2>2. ASSUME NEW c \in Ctx, NEW l \in LOCKS,
               queued_spin_lock_fast(c, l) \/ queued_spin_trylock(c, l)
        PROVE  [Contract!Next]_(Contract!vars)
    <3>1. Others(c) /\ lk' = [lk EXCEPT ![c] = l] /\ locked[l] = 0
      BY <1>2, <2>2 DEF queued_spin_lock_fast, queued_spin_trylock, Begin, Step, Others, TypeOK, Free
    <3>2. Phase(c) = "idle" /\ Phase(c)' = "holding"
      BY <1>2, <2>2 DEF queued_spin_lock_fast, queued_spin_trylock, Begin, Step, TypeOK, Phase, OwnerPc
    <3> QED BY <1>2, <3>1, <3>2, MappedStep
  <2>3. ASSUME NEW c \in Ctx, NEW l \in LOCKS, queued_spin_lock_slow(c, l)
        PROVE  [Contract!Next]_(Contract!vars)
    <3>1. Others(c) /\ lk' = [lk EXCEPT ![c] = l]
      BY <1>2, <2>3 DEF queued_spin_lock_slow, Begin, Step, Others, TypeOK
    <3>2. Phase(c) = "idle" /\ Phase(c)' = "waiting"
      BY <1>2, <2>3 DEF queued_spin_lock_slow, Begin, Step, TypeOK, Phase, OwnerPc, AfterSpin
    <3> QED BY <1>2, <3>1, <3>2, MappedStep
  <2>4. ASSUME NEW c \in Ctx, queued_spin_unlock(c)
        PROVE  [Contract!Next]_(Contract!vars)
    <3>1. Others(c) /\ lk' = [lk EXCEPT ![c] = NoLock]
      BY <1>2, <2>4 DEF queued_spin_unlock, Step, Others, TypeOK
    <3>2. Phase(c) = "holding" /\ Phase(c)' = "idle"
      BY <1>2, <2>4 DEF queued_spin_unlock, Step, TypeOK, Phase, OwnerPc
    <3> QED BY <1>2, <3>1, <3>2, MappedStep
  <2>5. ASSUME NEW c \in Ctx, queued_spin_lock_slowpath(c)
        PROVE  [Contract!Next]_(Contract!vars)
    <3>1. Others(c) /\ UNCHANGED lk /\ pc[c] \notin {"idle", "cs"} /\ pc'[c] # "idle"
          /\ (pc[c] \in OwnerPc => pc'[c] \in OwnerPc)
      <4> USE <1>2, <2>5 DEF Others, TypeOK, Step, OwnerPc
      <4>1. CASE Pending(c)
        BY <4>1 DEF Pending, wait_pending_handover, queued_fetch_set_pending_acquire,
           queued_fetch_set_pending_reread, clear_pending, pending_wait_owner,
           clear_pending_set_locked, AfterSpin, AfterFetch
      <4>2. CASE grab_mcs_node(c) \/ spin_without_node(c) \/ init_node(c) \/ node_trylock(c) \/ xchg_tail(c)
        BY <4>2 DEF grab_mcs_node, spin_without_node, init_node, node_trylock, xchg_tail
      <4>3. CASE link_into_queue(c) \/ arch_mcs_spin_lock_contended(c) \/ load_next(c) \/ wait_head(c)
        BY <4>3 DEF link_into_queue, arch_mcs_spin_lock_contended, load_next, wait_head
      <4>4. CASE claim_uncontended(c) \/ set_locked(c) \/ wait_next(c)
                 \/ arch_mcs_spin_unlock_contended(c) \/ release_node(c)
        BY <4>4 DEF claim_uncontended, set_locked, wait_next, arch_mcs_spin_unlock_contended, release_node
      <4> QED BY <4>1, <4>2, <4>3, <4>4 DEF queued_spin_lock_slowpath, Queue
    <3>2. CASE pc[c] \in OwnerPc \/ pc'[c] \notin OwnerPc
      <4>1. Phase(c)' = Phase(c)
        BY <3>1, <3>2 DEF Phase
      <4> QED BY <1>2, <3>1, <4>1, MappedStep
    <3>3. CASE pc[c] \notin OwnerPc /\ pc'[c] \in OwnerPc
      <4>1. Phase(c) = "waiting" /\ Phase(c)' = "holding"
        BY <3>1, <3>3 DEF Phase
      <4>2. lk[c] \in LOCKS /\ locked[lk[c]] = 0
        BY <1>2, <3>1, <3>3, Acquisition
      <4> QED BY <1>2, <3>1, <4>1, <4>2, MappedStep
    <3> QED BY <3>2, <3>3
  <2> QED BY <1>2, <2>1, <2>2, <2>3, <2>4, <2>5 DEF Next
<1> QED BY <1>1, <1>2, InvHolds, PTL DEF Spec, ImplementsSpinLock, Contract!Spec

=============================================================================
