----------------------------- MODULE OsqProofs -----------------------------
(***************************************************************************)
(* Proofs about Osq, for every number of CPUs and locks.                    *)
(*                                                                         *)
(* The inductive invariant says how the tail and the next pointers describe *)
(* the auxiliary queue.  Of two neighbours in the queue, at most one can    *)
(* undo the link between them: whoever took the next pointer that the other *)
(* one would need.                                                          *)
(***************************************************************************)
EXTENDS Osq, SequenceTheorems, TLAPS

-----------------------------------------------------------------------------
(***************************************************************************)
(* The inductive invariant.                                                 *)
(***************************************************************************)
QueuedPc == HoldPc \cup TryPc

\* c has taken its next pointer, and will write to the node behind it.
TakenPc == {"step_c_prev", "unlock_grant"}

\* The node before c does not point to c, and c knows it.
BehindPc == {"set_prev", "link", "step_c_prev"} \cup StepBPc

Distinct(q) == \A i, j \in 1 .. Len(q) : q[i] = q[j] => i = j

\* n comes just behind p.
Follows(q, p, n) == \E i \in 1 .. Len(q) - 1 : q[i] = p /\ q[i + 1] = n

\* n comes just behind p in one of the queues.
Before(qs, p, n) == \E l \in Locks : Follows(qs[l], p, n)

Locals ==
  \A c \in Cpus :
    /\ pc[c] # "idle" => lock[c] \in Locks
    /\ pc[c] \in TryPc \cup {"step_c_next"} => lprev[c] \in Cpus
    /\ pc[c] \in WaitPc \cup {"link"} => prev[c] \in Cpus
    /\ pc[c] = "xchg_tail" => ~locked[c]

\* The queue of a lock has the CPUs that want the lock or hold it in it.
Queues ==
  \A l \in Locks :
    /\ Distinct(queue[l])
    /\ \A c \in Cpus :
         c \in Range(queue[l]) <=> lock[c] = l /\ pc[c] \in QueuedPc

Tails ==
  \A l \in Locks :
    tail[l] = IF queue[l] = <<>> THEN OSQ_UNLOCKED_VAL ELSE encode_cpu(Last(queue[l]))

\* The head of the queue has the lock, or has been told so while it waits.
Heads ==
  \A c \in Cpus :
    /\ pc[c] \in HoldPc => c = Head(queue[lock[c]])
    /\ pc[c] \in TryPc => (locked[c] <=> c = Head(queue[lock[c]]))
    /\ pc[c] \in TryPc /\ locked[c] => pc[c] \in WaitPc

\* A next pointer points to the CPU behind, which waits.
Nexts ==
  \A c \in Cpus :
    next[c] # NULL =>
      /\ pc[c] \in QueuedPc \ TakenPc
      /\ Before(queue, c, next[c])
      /\ pc[next[c]] \in WaitPc

\* A CPU in BehindPc has the one before it in lprev, and that one cannot leave.
Behind ==
  \A c \in Cpus :
    pc[c] \in BehindPc =>
      /\ Before(queue, lprev[c], c)
      /\ next[lprev[c]] = NULL
      /\ pc[lprev[c]] \notin TakenPc

\* A CPU in TakenPc has the one behind it in lnext, and that one waits.
Taken ==
  \A c \in Cpus :
    pc[c] \in TakenPc =>
      /\ Before(queue, c, lnext[c])
      /\ pc[lnext[c]] \in WaitPc

\* A CPU that has left the queue and has yet to link its neighbours keeps them
\* both where they are, and no other CPU does the same.
Unlinking ==
  \A c \in Cpus :
    pc[c] = "step_c_next" =>
      /\ Before(queue, lprev[c], lnext[c])
      /\ lock[lprev[c]] = lock[c]
      /\ next[lprev[c]] = NULL
      /\ pc[lprev[c]] \notin TakenPc
      /\ pc[lnext[c]] \in WaitPc
      /\ \A d \in Cpus : pc[d] = "step_c_next" /\ lprev[d] = lprev[c] => d = c

Inv ==
  /\ TypeOK /\ Locals /\ Queues /\ Tails /\ Heads
  /\ Nexts /\ Behind /\ Taken /\ Unlinking

-----------------------------------------------------------------------------
(***************************************************************************)
(* Queues.                                                                  *)
(***************************************************************************)
\* What is needed of a sequence.
LEMMA Queue ==
  ASSUME NEW q \in Seq(Cpus)
  PROVE  /\ Len(q) \in Nat /\ (q = <<>> <=> Len(q) = 0)
         /\ \A i \in 1 .. Len(q) : q[i] \in Cpus
         /\ Range(q) = {q[i] : i \in 1 .. Len(q)}
         /\ q # <<>> => /\ Head(q) = q[1] /\ Last(q) = q[Len(q)]
                        /\ Head(q) \in Range(q) /\ Last(q) \in Range(q)
<1>1. Len(q) \in Nat /\ (q = <<>> <=> Len(q) = 0)
  BY EmptySeq, LenProperties
<1>2. \A i \in 1 .. Len(q) : q[i] \in Cpus
  BY ElementOfSeq
<1>3. Range(q) = {q[i] : i \in 1 .. Len(q)}
  BY RangeEquality
<1>4. q # <<>> => Head(q) = q[1] /\ 1 \in 1 .. Len(q) /\ Len(q) \in 1 .. Len(q)
  BY <1>1
<1> QED BY <1>1, <1>2, <1>3, <1>4 DEF Last

\* Neighbours are in the queue and each other's only ones.
LEMMA Neighbours ==
  ASSUME NEW q \in Seq(Cpus), Distinct(q), NEW p, NEW n, Follows(q, p, n)
  PROVE  /\ q # <<>> /\ p \in Range(q) /\ n \in Range(q) /\ p # n
         /\ p \in Cpus /\ n \in Cpus
         /\ n # Head(q) /\ p # Last(q)
         /\ \A m : Follows(q, p, m) => m = n
         /\ \A o : Follows(q, o, n) => o = p
<1>1. PICK i \in 1 .. Len(q) - 1 : q[i] = p /\ q[i + 1] = n
  BY DEF Follows
<1>2. PICK k \in Nat : k = Len(q)
  BY Queue
<1>3. /\ i \in 1 .. k /\ i + 1 \in 1 .. k /\ i # i + 1 /\ i # k /\ i + 1 # 1
      /\ k # 0 /\ 1 \in 1 .. k /\ k \in 1 .. k
  BY <1>1, <1>2
<1>4. \A a, b \in 1 .. k : q[a] = q[b] => a = b
  BY <1>2 DEF Distinct
<1>5. q # <<>> /\ Head(q) = q[1] /\ Last(q) = q[k]
  BY <1>2, <1>3, Queue
<1>6. p \in Range(q) /\ n \in Range(q) /\ p \in Cpus /\ n \in Cpus
  BY <1>1, <1>2, <1>3, Queue
<1>7. p # n /\ n # Head(q) /\ p # Last(q)
  BY <1>1, <1>3, <1>4, <1>5
<1>8. ASSUME NEW m, Follows(q, p, m) PROVE m = n
  <2>1. PICK j \in 1 .. Len(q) - 1 : q[j] = p /\ q[j + 1] = m
    BY <1>8 DEF Follows
  <2>2. j \in 1 .. k
    BY <1>2, <2>1
  <2> QED BY <1>1, <1>3, <1>4, <2>1, <2>2
<1>9. ASSUME NEW o, Follows(q, o, n) PROVE o = p
  <2>1. PICK j \in 1 .. Len(q) - 1 : q[j] = o /\ q[j + 1] = n
    BY <1>9 DEF Follows
  <2>2. j \in 1 .. k /\ j + 1 \in 1 .. k
    BY <1>2, <2>1
  <2>3. j + 1 = i + 1
    BY <1>1, <1>3, <1>4, <2>1, <2>2
  <2>4. j = i
    BY <1>1, <2>1, <2>3
  <2> QED BY <1>1, <2>1, <2>4
<1> QED BY <1>5, <1>6, <1>7, <1>8, <1>9

\* A CPU joins.
LEMMA Joined ==
  ASSUME NEW q \in Seq(Cpus), Distinct(q), NEW c \in Cpus, c \notin Range(q),
         NEW r, r = Append(q, c)
  PROVE  /\ r \in Seq(Cpus) /\ Distinct(r) /\ Range(r) = Range(q) \cup {c}
         /\ r # <<>> /\ Last(r) = c
         /\ q = <<>> => Head(r) = c
         /\ q # <<>> => Head(r) = Head(q) /\ Follows(r, Last(q), c)
         /\ \A p, n : Follows(q, p, n) => Follows(r, p, n)
<1>1. PICK k \in Nat : k = Len(q)
  BY Queue
<1>2. /\ r \in Seq(Cpus) /\ r # <<>> /\ Len(r) = k + 1
      /\ \A i \in 1 .. k : r[i] = q[i]
      /\ r[k + 1] = c
  BY <1>1, AppendProperties
<1>3. Range(q) = {q[i] : i \in 1 .. k} /\ Range(r) = {r[i] : i \in 1 .. k + 1}
  BY <1>1, <1>2, Queue
<1>4. \A i \in 1 .. k + 1 : i \in 1 .. k \/ i = k + 1
  OBVIOUS
<1>5. \A i \in 1 .. k : i \in 1 .. k + 1
  OBVIOUS
<1>6. k + 1 \in 1 .. k + 1
  OBVIOUS
<1>7. Range(r) = Range(q) \cup {c}
  BY <1>2, <1>3, <1>4, <1>5, <1>6
<1>8. Distinct(r)
  <2>1. \A i, j \in 1 .. k : q[i] = q[j] => i = j
    BY <1>1 DEF Distinct
  <2>2. \A i \in 1 .. k : q[i] # c
    BY <1>3
  <2> QED BY <1>2, <1>4, <2>1, <2>2 DEF Distinct
<1>9. Last(r) = c
  BY <1>2, Queue
<1>10. q = <<>> => Head(r) = c
  BY <1>1, <1>2, Queue
<1>11. ASSUME q # <<>> PROVE Head(r) = Head(q) /\ Follows(r, Last(q), c)
  <2>1. /\ k \in 1 .. k /\ 1 \in 1 .. k /\ Last(q) = q[k] /\ Head(q) = q[1]
        /\ Head(r) = r[1]
    BY <1>1, <1>2, <1>11, Queue
  <2>2. k \in 1 .. Len(r) - 1 /\ r[k] = Last(q)
    BY <1>2, <2>1
  <2> QED BY <1>2, <2>1, <2>2 DEF Follows
<1>12. ASSUME NEW p, NEW n, Follows(q, p, n) PROVE Follows(r, p, n)
  <2>1. PICK i \in 1 .. k - 1 : q[i] = p /\ q[i + 1] = n
    BY <1>1, <1>12 DEF Follows
  <2>2. i \in 1 .. k /\ i + 1 \in 1 .. k /\ i \in 1 .. Len(r) - 1
    BY <1>2, <2>1
  <2> QED BY <1>2, <2>1, <2>2 DEF Follows
<1> QED BY <1>2, <1>7, <1>8, <1>9, <1>10, <1>11, <1>12

\* The head leaves.
LEMMA HeadLeft ==
  ASSUME NEW q \in Seq(Cpus), Distinct(q), q # <<>>, NEW r, r = Tail(q)
  PROVE  /\ r \in Seq(Cpus) /\ Distinct(r) /\ Range(r) = Range(q) \ {Head(q)}
         /\ Last(q) = Head(q) => r = <<>>
         /\ Last(q) # Head(q) => r # <<>> /\ Last(r) = Last(q)
         /\ \A n : Follows(q, Head(q), n) => r # <<>> /\ Head(r) = n
         /\ \A p, n : Follows(q, p, n) /\ p # Head(q) => Follows(r, p, n)
<1>1. PICK k \in Nat : k = Len(q) /\ k # 0
  BY Queue
<1>2. /\ r \in Seq(Cpus) /\ Len(r) = k - 1
      /\ \A i \in 1 .. k - 1 : r[i] = q[i + 1]
  BY <1>1, HeadTailProperties
<1>3. Head(q) = q[1] /\ Last(q) = q[k]
  BY <1>1, Queue
<1>4. \A i, j \in 1 .. k : q[i] = q[j] => i = j
  BY <1>1 DEF Distinct
<1>5. Range(q) = {q[i] : i \in 1 .. k} /\ Range(r) = {r[i] : i \in 1 .. k - 1}
  BY <1>1, <1>2, Queue
<1>6. Range(r) = Range(q) \ {Head(q)}
  <2>1. \A i \in 1 .. k - 1 : i + 1 \in 1 .. k /\ i + 1 # 1
    BY <1>1
  <2>2. \A i \in 1 .. k : i # 1 => i - 1 \in 1 .. k - 1 /\ (i - 1) + 1 = i
    BY <1>1
  <2>3. 1 \in 1 .. k
    BY <1>1
  <2>4. \A i \in 1 .. k - 1 : r[i] \in Range(q) /\ r[i] # q[1]
    BY <1>2, <1>4, <1>5, <2>1, <2>3
  <2>5. \A i \in 1 .. k : q[i] # q[1] => q[i] \in Range(r)
    <3> SUFFICES ASSUME NEW i \in 1 .. k, q[i] # q[1] PROVE q[i] \in Range(r)
      OBVIOUS
    <3>1. i - 1 \in 1 .. k - 1 /\ (i - 1) + 1 = i
      BY <2>2
    <3>2. r[i - 1] = q[i]
      BY <1>2, <3>1
    <3> QED BY <1>5, <3>1, <3>2
  <2>6. \A x : x \in Range(r) => x \in Range(q) /\ x # q[1]
    BY <1>5, <2>4
  <2>7. \A x : x \in Range(q) /\ x # q[1] => x \in Range(r)
    BY <1>5, <2>5
  <2> QED BY <1>3, <2>6, <2>7
<1>7. Distinct(r)
  <2> SUFFICES ASSUME NEW i \in 1 .. k - 1, NEW j \in 1 .. k - 1, r[i] = r[j] PROVE i = j
    BY <1>2 DEF Distinct
  <2>1. i + 1 \in 1 .. k /\ j + 1 \in 1 .. k /\ q[i + 1] = q[j + 1]
    BY <1>1, <1>2
  <2>2. i + 1 = j + 1
    BY <1>4, <2>1
  <2> QED BY <2>2
<1>8. Last(q) = Head(q) => r = <<>>
  <2>1. 1 \in 1 .. k /\ k \in 1 .. k
    BY <1>1
  <2>2. Last(q) = Head(q) => k = 1
    BY <1>3, <1>4, <2>1
  <2> QED BY <1>2, <2>2, Queue
<1>9. Last(q) # Head(q) => r # <<>> /\ Last(r) = Last(q)
  <2> SUFFICES ASSUME Last(q) # Head(q) PROVE r # <<>> /\ Last(r) = Last(q)
    OBVIOUS
  <2>1. k # 1
    BY <1>3
  <2>2. k - 1 \in 1 .. k - 1 /\ (k - 1) + 1 = k /\ k - 1 # 0
    BY <1>1, <2>1
  <2>3. r # <<>> /\ Last(r) = r[k - 1]
    BY <1>2, <2>2, Queue
  <2> QED BY <1>2, <1>3, <2>2, <2>3
<1>10. ASSUME NEW n, Follows(q, Head(q), n) PROVE r # <<>> /\ Head(r) = n
  <2>1. PICK i \in 1 .. k - 1 : q[i] = q[1] /\ q[i + 1] = n
    BY <1>1, <1>3, <1>10 DEF Follows
  <2>2. i = 1
    BY <1>1, <1>4, <2>1
  <2>3. k - 1 # 0 /\ 1 \in 1 .. k - 1
    BY <1>1, <2>1, <2>2
  <2>4. r # <<>> /\ Head(r) = r[1]
    BY <1>2, <2>3, Queue
  <2> QED BY <1>2, <2>1, <2>2, <2>3, <2>4
<1>11. ASSUME NEW p, NEW n, Follows(q, p, n), p # Head(q) PROVE Follows(r, p, n)
  <2>1. PICK i \in 1 .. k - 1 : q[i] = p /\ q[i + 1] = n
    BY <1>1, <1>11 DEF Follows
  <2>2. i # 1
    BY <1>3, <1>11, <2>1
  <2>3. PICK j \in Nat : j = i - 1
    BY <2>1
  <2>4. /\ j \in 1 .. k - 1 /\ j + 1 = i /\ j + 1 \in 1 .. k - 1
        /\ (j + 1) + 1 = i + 1 /\ j \in 1 .. (k - 1) - 1
    BY <1>1, <2>1, <2>2, <2>3
  <2>5. r[j] = p /\ r[j + 1] = n
    BY <1>2, <2>1, <2>4
  <2> QED BY <1>2, <2>4, <2>5 DEF Follows
<1> QED BY <1>2, <1>6, <1>7, <1>8, <1>9, <1>10, <1>11

\* A CPU leaves from behind another one.
LEMMA OneLeft ==
  ASSUME NEW q \in Seq(Cpus), Distinct(q), NEW h, NEW c, Follows(q, h, c),
         NEW i, i \in 1 .. Len(q), q[i] = c, NEW r, r = RemoveAt(q, i)
  PROVE  /\ r \in Seq(Cpus) /\ Distinct(r) /\ Range(r) = Range(q) \ {c}
         /\ r # <<>> /\ Head(r) = Head(q)
         /\ i \in 2 .. Len(q)
         /\ Last(q) = c => Last(r) = h
         /\ Last(q) # c => Last(r) = Last(q)
         /\ \A n : Follows(q, c, n) => Follows(r, h, n)
         /\ \A p, n : Follows(q, p, n) /\ p # c /\ n # c => Follows(r, p, n)
<1>1. PICK k \in Nat : k = Len(q)
  BY Queue
<1>2. \A a, b \in 1 .. k : q[a] = q[b] => a = b
  BY <1>1 DEF Distinct
<1>3. i \in 2 .. k /\ i - 1 \in 1 .. k /\ q[i - 1] = h
  <2>1. PICK j \in 1 .. k - 1 : q[j] = h /\ q[j + 1] = c
    BY <1>1 DEF Follows
  <2>2. j + 1 \in 1 .. k /\ i \in 1 .. k
    BY <1>1, <2>1
  <2>3. j + 1 = i
    BY <1>2, <2>1, <2>2
  <2>4. j = i - 1
    BY <2>1, <2>3
  <2> QED BY <1>1, <2>1, <2>2, <2>4
<1>4. \A a \in 1 .. k : q[a] \in Cpus
  BY <1>1, Queue
<1>5. /\ r \in Seq(Cpus) /\ Len(r) = k - 1
      /\ \A a \in 1 .. k - 1 : r[a] = IF a < i THEN q[a] ELSE q[a + 1]
  <2> DEFINE s == SubSeq(q, 1, i - 1)
             t == SubSeq(q, i + 1, k)
  <2>1. /\ s \in Seq(Cpus) /\ Len(s) = i - 1
        /\ \A a \in 1 .. i - 1 : s[a] = q[a]
    <3>1. /\ 1 \in Int /\ i - 1 \in Int /\ 1 <= i - 1 /\ (i - 1) - 1 + 1 = i - 1
          /\ \A a \in 1 .. i - 1 : q[a] \in Cpus /\ 1 + a - 1 = a
      BY <1>3, <1>4
    <3>2. /\ s \in Seq(Cpus) /\ Len(s) = (i - 1) - 1 + 1
          /\ \A a \in 1 .. (i - 1) - 1 + 1 : s[a] = q[1 + a - 1]
      BY <3>1, SubSeqProperties
    <3> HIDE DEF s
    <3> QED BY <3>1, <3>2
  <2>2. /\ t \in Seq(Cpus) /\ Len(t) = k - i
        /\ \A a \in 1 .. k - i : t[a] = q[i + a]
    <3>1. /\ i + 1 \in Int /\ k \in Int
          /\ k - (i + 1) + 1 = k - i
          /\ i + 1 <= k \/ k - i = 0
          /\ \A a \in i + 1 .. k : q[a] \in Cpus
          /\ \A a \in 1 .. k - i : (i + 1) + a - 1 = i + a
      BY <1>3, <1>4
    <3>2. /\ t \in Seq(Cpus) /\ Len(t) = IF i + 1 <= k THEN k - (i + 1) + 1 ELSE 0
          /\ \A a \in 1 .. k - (i + 1) + 1 : t[a] = q[(i + 1) + a - 1]
      BY <3>1, SubSeqProperties
    <3> HIDE DEF t
    <3>3. Len(t) = k - i
      BY <1>3, <3>1, <3>2
    <3> QED BY <3>1, <3>2, <3>3
  <2>3. r = s \o t
    BY <1>1 DEF RemoveAt
  <2> HIDE DEF s, t
  <2>4. /\ r \in Seq(Cpus) /\ Len(r) = Len(s) + Len(t)
        /\ \A a \in 1 .. Len(s) + Len(t) :
             r[a] = IF a <= Len(s) THEN s[a] ELSE t[a - Len(s)]
    BY <2>1, <2>2, <2>3, ConcatProperties
  <2>5. Len(s) + Len(t) = k - 1
    BY <1>3, <2>1, <2>2
  <2>6. ASSUME NEW a \in 1 .. k - 1
        PROVE  r[a] = IF a < i THEN q[a] ELSE q[a + 1]
    <3>1. CASE a < i
      <4>1. a <= Len(s) /\ a \in 1 .. i - 1
        BY <1>3, <2>1, <3>1
      <4> QED BY <2>1, <2>4, <2>5, <3>1, <4>1
    <3>2. CASE ~(a < i)
      <4>1. /\ ~(a <= Len(s)) /\ a - Len(s) \in 1 .. k - i
            /\ i + (a - Len(s)) = a + 1
        BY <1>3, <2>1, <3>2
      <4>2. r[a] = t[a - Len(s)]
        BY <2>4, <2>5, <4>1
      <4> QED BY <2>2, <3>2, <4>1, <4>2
    <3> QED BY <3>1, <3>2
  <2> QED BY <2>4, <2>5, <2>6
<1>6. \A a \in 1 .. k - 1 :
        \E b \in 1 .. k : b # i /\ r[a] = q[b] /\ b = IF a < i THEN a ELSE a + 1
  BY <1>3, <1>5
<1>7. \A b \in 1 .. k : b # i => \E a \in 1 .. k - 1 : r[a] = q[b]
  <2> SUFFICES ASSUME NEW b \in 1 .. k, b # i PROVE \E a \in 1 .. k - 1 : r[a] = q[b]
    OBVIOUS
  <2>1. CASE b < i
    <3>1. b \in 1 .. k - 1
      BY <1>3, <2>1
    <3> QED BY <1>5, <2>1, <3>1
  <2>2. CASE ~(b < i)
    <3>1. b - 1 \in 1 .. k - 1 /\ ~(b - 1 < i) /\ (b - 1) + 1 = b
      BY <1>3, <2>2
    <3> QED BY <1>5, <3>1
  <2> QED BY <2>1, <2>2
<1>8. Range(q) = {q[a] : a \in 1 .. k} /\ Range(r) = {r[a] : a \in 1 .. k - 1}
  BY <1>1, <1>5, Queue
<1>9. Range(r) = Range(q) \ {c}
  <2>1. i \in 1 .. k
    BY <1>3
  <2>2. \A x : x \in Range(r) => x \in Range(q) /\ x # c
    BY <1>2, <1>6, <1>8, <2>1
  <2>3. \A x : x \in Range(q) /\ x # c => x \in Range(r)
    BY <1>7, <1>8
  <2> QED BY <2>2, <2>3
<1>10. Distinct(r)
  <2> SUFFICES ASSUME NEW a \in 1 .. k - 1, NEW b \in 1 .. k - 1, r[a] = r[b] PROVE a = b
    BY <1>5 DEF Distinct
  <2>1. PICK d \in 1 .. k : r[a] = q[d] /\ d = IF a < i THEN a ELSE a + 1
    BY <1>6
  <2>2. PICK e \in 1 .. k : r[b] = q[e] /\ e = IF b < i THEN b ELSE b + 1
    BY <1>6
  <2>3. d = e
    BY <1>2, <2>1, <2>2
  <2> QED BY <1>3, <2>1, <2>2, <2>3
<1>11. r # <<>> /\ Head(r) = Head(q)
  <2>1. k - 1 # 0 /\ k # 0 /\ 1 \in 1 .. k - 1 /\ 1 < i
    BY <1>3
  <2>2. r # <<>> /\ Head(r) = r[1] /\ Head(q) = q[1]
    BY <1>1, <1>5, <2>1, Queue
  <2> QED BY <1>5, <2>1, <2>2
<1>12. /\ Last(q) = q[k] /\ Last(r) = r[k - 1] /\ k \in 1 .. k
       /\ k - 1 \in 1 .. k - 1
  <2>1. k # 0 /\ k \in 1 .. k /\ k - 1 \in 1 .. k - 1
    BY <1>3
  <2> QED BY <1>1, <1>5, <2>1 DEF Last
<1>13. Last(q) = c => Last(r) = h
  <2> SUFFICES ASSUME Last(q) = c PROVE Last(r) = h
    OBVIOUS
  <2>1. i = k
    BY <1>2, <1>3, <1>12
  <2>2. k - 1 < i
    BY <2>1
  <2> QED BY <1>3, <1>5, <1>12, <2>1, <2>2
<1>14. Last(q) # c => Last(r) = Last(q)
  <2> SUFFICES ASSUME Last(q) # c PROVE Last(r) = Last(q)
    OBVIOUS
  <2>1. i # k
    BY <1>12
  <2>2. ~(k - 1 < i) /\ (k - 1) + 1 = k
    BY <1>3, <2>1
  <2> QED BY <1>5, <1>12, <2>2
<1>15. ASSUME NEW n, Follows(q, c, n) PROVE Follows(r, h, n)
  <2>1. PICK j \in 1 .. k - 1 : q[j] = c /\ q[j + 1] = n
    BY <1>1, <1>15 DEF Follows
  <2>2. j = i
    <3>1. j \in 1 .. k /\ i \in 1 .. k
      BY <1>3, <2>1
    <3> QED BY <1>2, <2>1, <3>1
  <2>3. /\ i - 1 \in 1 .. (k - 1) - 1 /\ i - 1 \in 1 .. k - 1 /\ (i - 1) + 1 = i
        /\ i - 1 < i /\ i \in 1 .. k - 1 /\ ~(i < i)
    BY <1>3, <2>1, <2>2
  <2>4. r[i - 1] = h /\ r[i] = n
    BY <1>3, <1>5, <2>1, <2>2, <2>3
  <2> QED BY <1>5, <2>3, <2>4 DEF Follows
<1>16. ASSUME NEW p, NEW n, Follows(q, p, n), p # c, n # c
       PROVE  Follows(r, p, n)
  <2>1. PICK j \in 1 .. k - 1 : q[j] = p /\ q[j + 1] = n
    BY <1>1, <1>16 DEF Follows
  <2>2. j # i /\ j + 1 # i
    BY <1>16, <2>1
  <2>3. CASE j < i
    <3>1. /\ j \in 1 .. k - 1 /\ j + 1 < i /\ j + 1 \in 1 .. k - 1
          /\ j \in 1 .. (k - 1) - 1
      BY <1>3, <2>1, <2>2, <2>3
    <3>2. r[j] = p /\ r[j + 1] = n
      BY <1>5, <2>1, <2>3, <3>1
    <3> QED BY <1>5, <3>1, <3>2 DEF Follows
  <2>4. CASE ~(j < i)
    <3>1. PICK m \in Nat : m = j - 1
      BY <2>1
    <3>2. /\ m \in 1 .. k - 1 /\ ~(m < i) /\ m + 1 = j /\ ~(m + 1 < i)
          /\ m + 1 \in 1 .. k - 1 /\ (m + 1) + 1 = j + 1
          /\ m \in 1 .. (k - 1) - 1
      BY <1>3, <2>1, <2>2, <2>4, <3>1
    <3>3. r[m] = p /\ r[m + 1] = n
      BY <1>5, <2>1, <3>2
    <3> QED BY <1>5, <3>2, <3>3 DEF Follows
  <2> QED BY <2>3, <2>4
<1> QED BY <1>1, <1>3, <1>5, <1>9, <1>10, <1>11, <1>13, <1>14, <1>15, <1>16

\* The encoding of a CPU number.
LEMMA Encoding ==
  /\ OSQ_UNLOCKED_VAL \in 0 .. NR_CPUS
  /\ \A c \in Cpus : /\ encode_cpu(c) \in 0 .. NR_CPUS
                     /\ encode_cpu(c) # OSQ_UNLOCKED_VAL
                     /\ decode_cpu(encode_cpu(c)) = c
  /\ \A v \in 0 .. NR_CPUS : v # OSQ_UNLOCKED_VAL => decode_cpu(v) \in Cpus
  /\ \A c, d \in Cpus : encode_cpu(c) = encode_cpu(d) => c = d
  /\ NULL \notin Cpus /\ NULL \notin Locks
  BY OsqAssumption DEF OSQ_UNLOCKED_VAL, encode_cpu, decode_cpu, Cpus

\* Where two neighbours are: the one behind is not the head and so has to wait.
LEMMA Order ==
  ASSUME TypeOK, Queues, Heads, NEW p, NEW n, Before(queue, p, n)
  PROVE  /\ p \in Cpus /\ n \in Cpus /\ p # n
         /\ lock[p] \in Locks /\ lock[n] = lock[p]
         /\ p \in Range(queue[lock[p]]) /\ n \in Range(queue[lock[p]])
         /\ pc[p] \in QueuedPc /\ pc[n] \in TryPc /\ ~locked[n]
         /\ p # Last(queue[lock[p]])
         /\ Follows(queue[lock[p]], p, n)
         /\ \A m : Before(queue, p, m) => m = n
         /\ \A o : Before(queue, o, n) => o = p
<1>1. ASSUME NEW x, NEW y, Before(queue, x, y)
      PROVE  /\ x \in Cpus /\ y \in Cpus /\ x # y
             /\ lock[x] \in Locks /\ lock[y] = lock[x]
             /\ x \in Range(queue[lock[x]]) /\ y \in Range(queue[lock[x]])
             /\ pc[x] \in QueuedPc /\ pc[y] \in QueuedPc
             /\ Follows(queue[lock[x]], x, y)
             /\ y # Head(queue[lock[y]]) /\ x # Last(queue[lock[x]])
  <2>1. PICK l \in Locks : Follows(queue[l], x, y)
    BY <1>1 DEF Before
  <2>2. queue[l] \in Seq(Cpus) /\ Distinct(queue[l])
    BY DEF TypeOK, Queues
  <2>3. /\ x \in Range(queue[l]) /\ y \in Range(queue[l]) /\ x # y /\ x \in Cpus
        /\ y \in Cpus
        /\ y # Head(queue[l]) /\ x # Last(queue[l])
    BY <2>1, <2>2, Neighbours
  <2>4. lock[x] = l /\ lock[y] = l /\ pc[x] \in QueuedPc /\ pc[y] \in QueuedPc
    BY <2>3 DEF Queues
  <2> QED BY <2>1, <2>3, <2>4
<1>2. queue[lock[p]] \in Seq(Cpus) /\ Distinct(queue[lock[p]])
  BY <1>1 DEF TypeOK, Queues
<1>3. pc[n] \in TryPc /\ ~locked[n]
  BY <1>1 DEF Heads, QueuedPc
<1>4. ASSUME NEW m, Before(queue, p, m) PROVE m = n
  BY <1>1, <1>2, <1>4, Neighbours
<1>5. ASSUME NEW o, Before(queue, o, n) PROVE o = p
  <2>1. Follows(queue[lock[p]], o, n) /\ Follows(queue[lock[p]], p, n)
    BY <1>1, <1>5
  <2> QED BY <1>2, <2>1, Neighbours
<1> QED BY <1>1, <1>3, <1>4, <1>5

\* A CPU that wants the lock or holds it is in the queue.
LEMMA InQueue ==
  ASSUME TypeOK, Queues, NEW c \in Cpus, pc[c] \in QueuedPc, lock[c] \in Locks
  PROVE  /\ queue[lock[c]] \in Seq(Cpus) /\ Distinct(queue[lock[c]])
         /\ c \in Range(queue[lock[c]]) /\ queue[lock[c]] # <<>>
<1>1. /\ queue[lock[c]] \in Seq(Cpus) /\ Distinct(queue[lock[c]])
      /\ c \in Range(queue[lock[c]])
  BY DEF TypeOK, Queues
<1>2. queue[lock[c]] # <<>>
  <2> SUFFICES ASSUME queue[lock[c]] = <<>> PROVE FALSE
    OBVIOUS
  <2>1. /\ Len(queue[lock[c]]) = 0
        /\ Range(queue[lock[c]]) = {queue[lock[c]][i] : i \in 1 .. Len(queue[lock[c]])}
    BY <1>1, Queue
  <2> QED BY <1>1, <2>1
<1> QED BY <1>1, <1>2

\* The queues when a CPU joins one.
LEMMA Joins ==
  ASSUME TypeOK, Queues, NEW c \in Cpus, lock[c] \in Locks,
         pc[c] \notin QueuedPc, Enqueue(c)
  PROVE  /\ queue' \in [Locks -> Seq(Cpus)]
         /\ \A l \in Locks : l # lock[c] => queue'[l] = queue[l]
         /\ Distinct(queue'[lock[c]])
         /\ Range(queue'[lock[c]]) = Range(queue[lock[c]]) \cup {c}
         /\ queue'[lock[c]] # <<>> /\ Last(queue'[lock[c]]) = c
         /\ queue[lock[c]] = <<>> => Head(queue'[lock[c]]) = c
         /\ queue[lock[c]] # <<>> => /\ Head(queue'[lock[c]]) = Head(queue[lock[c]])
                                     /\ Before(queue', Last(queue[lock[c]]), c)
         /\ \A p, n : Before(queue, p, n) => Before(queue', p, n)
<1> DEFINE l == lock[c]
           q == queue[l]
           r == queue'[l]
<1>1. l \in Locks /\ q \in Seq(Cpus) /\ Distinct(q) /\ c \notin Range(q)
  BY DEF TypeOK, Queues
<1>2. queue' = [queue EXCEPT ![l] = Append(q, c)] /\ r = Append(q, c)
  BY DEF Enqueue, TypeOK
<1>3. \A k \in Locks : k # l => queue'[k] = queue[k]
  BY <1>2 DEF TypeOK
<1> HIDE DEF l, q, r
<1>4. /\ r \in Seq(Cpus) /\ Distinct(r) /\ Range(r) = Range(q) \cup {c}
      /\ r # <<>> /\ Last(r) = c
      /\ q = <<>> => Head(r) = c
      /\ q # <<>> => Head(r) = Head(q) /\ Follows(r, Last(q), c)
      /\ \A p, n : Follows(q, p, n) => Follows(r, p, n)
  BY <1>1, <1>2, Joined
<1>5. queue' \in [Locks -> Seq(Cpus)]
  BY <1>1, <1>2, <1>4 DEF TypeOK
<1>6. \A p, n : Before(queue, p, n) => Before(queue', p, n)
  BY <1>3, <1>4 DEF Before, q, r
<1>7. q # <<>> => Before(queue', Last(q), c)
  BY <1>1, <1>4 DEF Before, r
<1> QED BY <1>3, <1>4, <1>5, <1>6, <1>7 DEF l, q, r

\* The queues when the head, which holds the lock, leaves.
LEMMA Leaves ==
  ASSUME TypeOK, Queues, Heads, NEW c \in Cpus, lock[c] \in Locks,
         pc[c] \in HoldPc, Dequeue(c)
  PROVE  /\ queue' \in [Locks -> Seq(Cpus)]
         /\ \A l \in Locks : l # lock[c] => queue'[l] = queue[l]
         /\ Distinct(queue'[lock[c]])
         /\ Range(queue'[lock[c]]) = Range(queue[lock[c]]) \ {c}
         /\ c = Head(queue[lock[c]]) /\ queue[lock[c]] # <<>>
         /\ Last(queue[lock[c]]) = c => queue'[lock[c]] = <<>>
         /\ Last(queue[lock[c]]) # c => /\ queue'[lock[c]] # <<>>
                                        /\ Last(queue'[lock[c]]) = Last(queue[lock[c]])
         /\ \A n : Before(queue, c, n) => /\ queue'[lock[c]] # <<>>
                                          /\ Head(queue'[lock[c]]) = n
         /\ \A p, n : Before(queue, p, n) /\ p # c => Before(queue', p, n)
<1> DEFINE l == lock[c]
           q == queue[l]
           r == queue'[l]
<1>1. /\ l \in Locks /\ q \in Seq(Cpus) /\ Distinct(q) /\ q # <<>>
      /\ c = Head(q)
  BY InQueue DEF QueuedPc, Heads
<1>2. queue' = [queue EXCEPT ![l] = Tail(q)] /\ r = Tail(q)
  BY DEF Dequeue, TypeOK
<1>3. \A k \in Locks : k # l => queue'[k] = queue[k]
  BY <1>2 DEF TypeOK
<1>4. \A n : Before(queue, c, n) => Follows(q, c, n)
  BY Order
<1> HIDE DEF l, q, r
<1>5. /\ r \in Seq(Cpus) /\ Distinct(r) /\ Range(r) = Range(q) \ {c}
      /\ Last(q) = c => r = <<>>
      /\ Last(q) # c => r # <<>> /\ Last(r) = Last(q)
      /\ \A n : Follows(q, c, n) => r # <<>> /\ Head(r) = n
      /\ \A p, n : Follows(q, p, n) /\ p # c => Follows(r, p, n)
  BY <1>1, <1>2, HeadLeft
<1>6. queue' \in [Locks -> Seq(Cpus)]
  BY <1>1, <1>2, <1>5 DEF TypeOK
<1>7. \A p, n : Before(queue, p, n) /\ p # c => Before(queue', p, n)
  BY <1>3, <1>5 DEF Before, q, r
<1> QED BY <1>1, <1>3, <1>4, <1>5, <1>6, <1>7 DEF l, q, r

\* The queues when a CPU leaves from behind h.
LEMMA GivesUp ==
  ASSUME TypeOK, Queues, Heads, NEW c \in Cpus, NEW h, Before(queue, h, c),
         Unqueue(c)
  PROVE  /\ lock[c] \in Locks
         /\ queue' \in [Locks -> Seq(Cpus)]
         /\ \A l \in Locks : l # lock[c] => queue'[l] = queue[l]
         /\ Distinct(queue'[lock[c]])
         /\ Range(queue'[lock[c]]) = Range(queue[lock[c]]) \ {c}
         /\ queue'[lock[c]] # <<>>
         /\ Head(queue'[lock[c]]) = Head(queue[lock[c]])
         /\ queue[lock[c]] # <<>>
         /\ Last(queue[lock[c]]) = c => Last(queue'[lock[c]]) = h
         /\ Last(queue[lock[c]]) # c => Last(queue'[lock[c]]) = Last(queue[lock[c]])
         /\ \A n : Before(queue, c, n) => Before(queue', h, n)
         /\ \A p, n : Before(queue, p, n) /\ p # c /\ n # c => Before(queue', p, n)
         /\ \E i \in 2 .. Len(queue[lock[c]]) :
              /\ queue[lock[c]][i] = c
              /\ queue' = [queue EXCEPT ![lock[c]] = RemoveAt(queue[lock[c]], i)]
<1> DEFINE l == lock[c]
           q == queue[l]
           r == queue'[l]
           i == CHOOSE i \in 1 .. Len(q) : q[i] = c
<1>1. l \in Locks /\ Follows(q, h, c) /\ c \in Range(q) /\ lock[h] = l
  BY Order
<1>2. q \in Seq(Cpus) /\ Distinct(q) /\ q # <<>>
  BY <1>1, Order, InQueue
<1>3. queue' = [queue EXCEPT ![l] = RemoveAt(q, i)]
  BY DEF Unqueue
<1>4. r = RemoveAt(q, i)
  BY <1>1, <1>3 DEF TypeOK
<1>5. \A k \in Locks : k # l => queue'[k] = queue[k]
  BY <1>3 DEF TypeOK
<1>6. \A n : Before(queue, c, n) => Follows(q, c, n)
  BY Order
<1>7. \E j \in 1 .. Len(q) : q[j] = c
  BY <1>1, <1>2, Queue
<1>8. i \in 1 .. Len(q) /\ q[i] = c
  BY <1>7
<1> HIDE DEF l, q, r, i
<1>9. /\ r \in Seq(Cpus) /\ Distinct(r) /\ Range(r) = Range(q) \ {c}
      /\ r # <<>> /\ Head(r) = Head(q)
      /\ i \in 2 .. Len(q)
      /\ Last(q) = c => Last(r) = h
      /\ Last(q) # c => Last(r) = Last(q)
      /\ \A n : Follows(q, c, n) => Follows(r, h, n)
      /\ \A p, n : Follows(q, p, n) /\ p # c /\ n # c => Follows(r, p, n)
  BY <1>1, <1>2, <1>4, <1>8, OneLeft
<1>10. queue' \in [Locks -> Seq(Cpus)]
  BY <1>1, <1>3, <1>4, <1>9 DEF TypeOK
<1>11. \A p, n : Before(queue, p, n) /\ p # c /\ n # c => Before(queue', p, n)
  BY <1>5, <1>9 DEF Before, q, r
<1>12. \A n : Before(queue, c, n) => Before(queue', h, n)
  BY <1>1, <1>6, <1>9 DEF Before, r
<1>13. \E j \in 2 .. Len(q) : q[j] = c /\ queue' = [queue EXCEPT ![l] = RemoveAt(q, j)]
  BY <1>3, <1>8, <1>9
<1> QED BY <1>1, <1>2, <1>5, <1>9, <1>10, <1>11, <1>12, <1>13 DEF l, q, r

\* A CPU that finds itself in lock->tail is the last one of the queue.
LEMMA LastTail ==
  ASSUME TypeOK, Queues, Tails, NEW c \in Cpus, lock[c] \in Locks
  PROVE  /\ tail[lock[c]] = encode_cpu(c) => c = Last(queue[lock[c]]) /\ queue[lock[c]] # <<>>
         /\ tail[lock[c]] # OSQ_UNLOCKED_VAL =>
              decode_cpu(tail[lock[c]]) = Last(queue[lock[c]]) /\ queue[lock[c]] # <<>>
         /\ queue[lock[c]] # <<>> => /\ Last(queue[lock[c]]) \in Cpus
                                     /\ lock[Last(queue[lock[c]])] = lock[c]
                                     /\ pc[Last(queue[lock[c]])] \in QueuedPc
                                     /\ tail[lock[c]] # OSQ_UNLOCKED_VAL
<1> DEFINE q == queue[lock[c]]
<1>1. /\ q \in Seq(Cpus)
      /\ tail[lock[c]] = IF q = <<>> THEN OSQ_UNLOCKED_VAL ELSE encode_cpu(Last(q))
      /\ \A d \in Cpus : d \in Range(q) => lock[d] = lock[c] /\ pc[d] \in QueuedPc
  BY DEF TypeOK, Tails, Queues
<1> HIDE DEF q
<1>2. q # <<>> => Last(q) \in Range(q) /\ Last(q) \in Cpus
  <2> SUFFICES ASSUME q # <<>> PROVE Last(q) \in Range(q) /\ Last(q) \in Cpus
    OBVIOUS
  <2>1. Last(q) \in Range(q)
    BY <1>1, Queue
  <2> QED BY <1>1, <2>1, Queue
<1> QED BY <1>1, <1>2, Encoding DEF q

-----------------------------------------------------------------------------
(***************************************************************************)
(* The queues and the tail.                                                 *)
(***************************************************************************)

\* Every step keeps the types: decoding the tail gives a CPU, and moving it
\* back gives the encoding of one.
LEMMA TypeStep ==
  ASSUME TypeOK, Locals, Queues, Heads, Behind, [Next]_vars
  PROVE  TypeOK'
<1>0. UNCHANGED vars => TypeOK'
  BY DEF vars, TypeOK, PC, HoldPc, UnlockPc, TryPc, WaitPc, StepBPc
<1>1. ASSUME NEW c \in Cpus, NEW l \in Locks, init_node(c, l) PROVE TypeOK'
  <2>1. locked' \in [Cpus -> BOOLEAN]
    BY <1>1 DEF init_node, TypeOK
  <2> QED BY <1>1, <2>1 DEF init_node, Goto, localvars, TypeOK, PC, HoldPc,
        UnlockPc, TryPc, WaitPc, StepBPc
<1>2. ASSUME NEW c \in Cpus, xchg_tail(c) PROVE TypeOK'
  <2>1. /\ lock[c] \in Locks /\ pc[c] \notin QueuedPc /\ Enqueue(c)
    BY <1>2 DEF xchg_tail, Locals, QueuedPc, HoldPc, UnlockPc, TryPc, WaitPc,
          StepBPc
  <2>2. queue' \in [Locks -> Seq(Cpus)]
    BY <2>1, Joins
  <2>3. tail' \in [Locks -> 0 .. NR_CPUS]
    BY <1>2, Encoding DEF xchg_tail, TypeOK
  <2>4. lprev' \in [Cpus -> Cpus \cup {NULL}]
    <3>1. tail[lock[c]] \in 0 .. NR_CPUS
      BY <2>1 DEF TypeOK
    <3> QED BY <1>2, <3>1, Encoding DEF xchg_tail, TypeOK
  <2>5. pc' \in [Cpus -> PC]
    BY <1>2 DEF xchg_tail, Goto, TypeOK, PC, HoldPc, UnlockPc, TryPc, WaitPc,
          StepBPc
  <2> QED BY <1>2, <2>2, <2>3, <2>4, <2>5 DEF xchg_tail, nodevars, TypeOK
<1>3. ASSUME NEW c \in Cpus, set_prev(c) PROVE TypeOK'
  BY <1>3 DEF set_prev, Goto, localvars, TypeOK, PC, HoldPc, UnlockPc, TryPc,
        WaitPc, StepBPc
<1>4. ASSUME NEW c \in Cpus, link(c) PROVE TypeOK'
  BY <1>4 DEF link, Goto, localvars, TypeOK, PC, HoldPc, UnlockPc, TryPc,
        WaitPc, StepBPc
<1>5. ASSUME NEW c \in Cpus, wait_locked(c) PROVE TypeOK'
  BY <1>5 DEF wait_locked, Goto, nodevars, TypeOK, PC, HoldPc, UnlockPc, TryPc,
        WaitPc, StepBPc
<1>6. ASSUME NEW c \in Cpus, stop_waiting(c) PROVE TypeOK'
  BY <1>6 DEF stop_waiting, Goto, nodevars, localvars, TypeOK, PC, HoldPc,
        UnlockPc, TryPc, WaitPc, StepBPc
<1>7. ASSUME NEW c \in Cpus, step_a(c) PROVE TypeOK'
  BY <1>7 DEF step_a, Goto, localvars, TypeOK, PC, HoldPc, UnlockPc, TryPc,
        WaitPc, StepBPc
<1>8. ASSUME NEW c \in Cpus, step_a_locked(c) PROVE TypeOK'
  BY <1>8 DEF step_a_locked, Goto, nodevars, TypeOK, PC, HoldPc, UnlockPc,
        TryPc, WaitPc, StepBPc
<1>9. ASSUME NEW c \in Cpus, step_a_prev(c) PROVE TypeOK'
  BY <1>9 DEF step_a_prev, Goto, nodevars, TypeOK, PC, HoldPc, UnlockPc, TryPc,
        WaitPc, StepBPc
<1>10. ASSUME NEW c \in Cpus, step_b_tail(c) PROVE TypeOK'
  <2>1. queue' \in [Locks -> Seq(Cpus)]
    <3>1. CASE Unqueue(c)
      <4>1. Before(queue, lprev[c], c)
        BY <1>10, <3>1 DEF step_b_tail, Locals, Behind, HoldPc, UnlockPc,
              BehindPc, StepBPc
      <4> QED BY <3>1, <4>1, GivesUp
    <3>2. CASE UNCHANGED queue
      BY <3>2 DEF TypeOK
    <3> QED BY <1>10, <3>1, <3>2 DEF step_b_tail
  <2>2. tail' \in [Locks -> 0 .. NR_CPUS]
    <3>1. lprev[c] \in Cpus
      BY <1>10 DEF step_b_tail, Locals, TryPc, StepBPc
    <3>2. encode_cpu(lprev[c]) \in 0 .. NR_CPUS
      BY <3>1, Encoding
    <3>3. tail' = [tail EXCEPT ![lock[c]] = encode_cpu(lprev[c])] \/ tail' = tail
      BY <1>10 DEF step_b_tail, move_tail
    <3> QED BY <3>2, <3>3 DEF TypeOK
  <2>3. lock' \in [Cpus -> Locks \cup {NULL}] /\ pc' \in [Cpus -> PC]
    BY <1>10 DEF step_b_tail, Return, Goto, TypeOK, PC, HoldPc, UnlockPc,
          TryPc, WaitPc, StepBPc
  <2>4. /\ lprev' \in [Cpus -> Cpus \cup {NULL}]
        /\ lnext' \in [Cpus -> Cpus \cup {NULL}]
    BY <1>10 DEF step_b_tail, Return, localvars, TypeOK
  <2> QED BY <1>10, <2>1, <2>2, <2>3, <2>4 DEF step_b_tail, nodevars, TypeOK
<1>11. ASSUME NEW c \in Cpus, step_b_next(c) PROVE TypeOK'
  BY <1>11 DEF step_b_next, Goto, take_next, TypeOK, PC, HoldPc, UnlockPc,
        TryPc, WaitPc, StepBPc
<1>12. ASSUME NEW c \in Cpus, step_c_prev(c) PROVE TypeOK'
  <2>1. Before(queue, lprev[c], c) /\ Unqueue(c)
    BY <1>12 DEF step_c_prev, Behind, BehindPc
  <2>2. queue' \in [Locks -> Seq(Cpus)]
    BY <2>1, GivesUp
  <2> QED BY <1>12, <2>2 DEF step_c_prev, Goto, localvars, TypeOK, PC, HoldPc,
        UnlockPc, TryPc, WaitPc, StepBPc
<1>13. ASSUME NEW c \in Cpus, step_c_next(c) PROVE TypeOK'
  BY <1>13 DEF step_c_next, Goto, Return, TypeOK, PC, HoldPc, UnlockPc, TryPc,
        WaitPc, StepBPc
<1>14. ASSUME NEW c \in Cpus, osq_unlock(c) PROVE TypeOK'
  <2>1. queue' \in [Locks -> Seq(Cpus)]
    <3>1. CASE Dequeue(c)
      <4>1. pc[c] \in HoldPc /\ lock[c] \in Locks
        BY <1>14, <3>1 DEF osq_unlock, Locals, Behind, HoldPc, UnlockPc,
              BehindPc, StepBPc
      <4> QED BY <3>1, <4>1, Leaves
    <3>2. CASE UNCHANGED queue
      BY <3>2 DEF TypeOK
    <3> QED BY <1>14, <3>1, <3>2 DEF osq_unlock
  <2>2. tail' \in [Locks -> 0 .. NR_CPUS]
    BY <1>14, Encoding DEF osq_unlock, move_tail, nodevars, TypeOK
  <2>3. lock' \in [Cpus -> Locks \cup {NULL}] /\ pc' \in [Cpus -> PC]
    BY <1>14 DEF osq_unlock, Return, Goto, TypeOK, PC, HoldPc, UnlockPc, TryPc,
          WaitPc, StepBPc
  <2>4. /\ lprev' \in [Cpus -> Cpus \cup {NULL}]
        /\ lnext' \in [Cpus -> Cpus \cup {NULL}]
    BY <1>14 DEF osq_unlock, Return, localvars, TypeOK
  <2> QED BY <1>14, <2>1, <2>2, <2>3, <2>4 DEF osq_unlock, nodevars, TypeOK
<1>15. ASSUME NEW c \in Cpus, xchg_next(c) PROVE TypeOK'
  BY <1>15 DEF xchg_next, Goto, take_next, TypeOK, PC, HoldPc, UnlockPc, TryPc,
        WaitPc, StepBPc
<1>16. ASSUME NEW c \in Cpus, unlock_tail(c) PROVE TypeOK'
  <2>1. queue' \in [Locks -> Seq(Cpus)]
    <3>1. CASE Dequeue(c)
      <4>1. pc[c] \in HoldPc /\ lock[c] \in Locks
        BY <1>16, <3>1 DEF unlock_tail, Locals, Behind, HoldPc, UnlockPc,
              BehindPc, StepBPc
      <4> QED BY <3>1, <4>1, Leaves
    <3>2. CASE UNCHANGED queue
      BY <3>2 DEF TypeOK
    <3> QED BY <1>16, <3>1, <3>2 DEF unlock_tail
  <2>2. tail' \in [Locks -> 0 .. NR_CPUS]
    BY <1>16, Encoding DEF unlock_tail, move_tail, nodevars, TypeOK
  <2>3. lock' \in [Cpus -> Locks \cup {NULL}] /\ pc' \in [Cpus -> PC]
    BY <1>16 DEF unlock_tail, Return, Goto, TypeOK, PC, HoldPc, UnlockPc,
          TryPc, WaitPc, StepBPc
  <2>4. /\ lprev' \in [Cpus -> Cpus \cup {NULL}]
        /\ lnext' \in [Cpus -> Cpus \cup {NULL}]
    BY <1>16 DEF unlock_tail, Return, localvars, TypeOK
  <2> QED BY <1>16, <2>1, <2>2, <2>3, <2>4 DEF unlock_tail, nodevars, TypeOK
<1>17. ASSUME NEW c \in Cpus, unlock_next(c) PROVE TypeOK'
  BY <1>17 DEF unlock_next, Goto, take_next, TypeOK, PC, HoldPc, UnlockPc,
        TryPc, WaitPc, StepBPc
<1>18. ASSUME NEW c \in Cpus, unlock_grant(c) PROVE TypeOK'
  <2>1. pc[c] \in HoldPc /\ lock[c] \in Locks /\ Dequeue(c)
    BY <1>18 DEF unlock_grant, Locals, HoldPc, UnlockPc
  <2>2. queue' \in [Locks -> Seq(Cpus)]
    BY <2>1, Leaves
  <2>3. locked' \in [Cpus -> BOOLEAN]
    BY <1>18 DEF unlock_grant, TypeOK
  <2>4. lock' \in [Cpus -> Locks \cup {NULL}] /\ pc' \in [Cpus -> PC]
    BY <1>18 DEF unlock_grant, Return, Goto, TypeOK, PC, HoldPc, UnlockPc,
          TryPc, WaitPc, StepBPc
  <2>5. /\ lprev' \in [Cpus -> Cpus \cup {NULL}]
        /\ lnext' \in [Cpus -> Cpus \cup {NULL}]
    BY <1>18 DEF unlock_grant, Return, TypeOK
  <2> QED BY <1>18, <2>2, <2>3, <2>4, <2>5 DEF unlock_grant, TypeOK
<1> QED
  BY <1>0, <1>1, <1>2, <1>3, <1>4, <1>5, <1>6, <1>7, <1>8, <1>9, <1>10, <1>11,
        <1>12, <1>13, <1>14, <1>15, <1>16, <1>17, <1>18 DEF Next, Continue

\* Every step keeps the locals: only a CPU that waits is told that it has the
\* lock, so none finds locked set when it joins.
LEMMA LocalsStep ==
  ASSUME TypeOK, Locals, Queues, Heads, Taken, [Next]_vars
  PROVE  Locals'
<1>0. UNCHANGED vars => Locals'
  BY DEF vars, TypeOK, Locals, QueuedPc, HoldPc, UnlockPc, TryPc, WaitPc,
        StepBPc
<1>1. ASSUME NEW c \in Cpus, NEW l \in Locks, init_node(c, l) PROVE Locals'
  BY <1>1 DEF init_node, Goto, localvars, TypeOK, Locals, QueuedPc, HoldPc,
        UnlockPc, TryPc, WaitPc, StepBPc
<1>2. ASSUME NEW c \in Cpus, xchg_tail(c) PROVE Locals'
  <2>1. tail[lock[c]] \in 0 .. NR_CPUS
    BY <1>2 DEF xchg_tail, Locals, TypeOK
  <2>2. tail[lock[c]] # OSQ_UNLOCKED_VAL => decode_cpu(tail[lock[c]]) \in Cpus
    BY <2>1, Encoding
  <2> QED BY <1>2, <2>2 DEF xchg_tail, Goto, nodevars, TypeOK, Locals,
        QueuedPc, HoldPc, UnlockPc, TryPc, WaitPc, StepBPc
<1>3. ASSUME NEW c \in Cpus, set_prev(c) PROVE Locals'
  BY <1>3 DEF set_prev, Goto, localvars, TypeOK, Locals, QueuedPc, HoldPc,
        UnlockPc, TryPc, WaitPc, StepBPc
<1>4. ASSUME NEW c \in Cpus, link(c) PROVE Locals'
  BY <1>4 DEF link, Goto, localvars, TypeOK, Locals, QueuedPc, HoldPc,
        UnlockPc, TryPc, WaitPc, StepBPc
<1>5. ASSUME NEW c \in Cpus, wait_locked(c) PROVE Locals'
  BY <1>5 DEF wait_locked, Goto, nodevars, TypeOK, Locals, QueuedPc, HoldPc,
        UnlockPc, TryPc, WaitPc, StepBPc
<1>6. ASSUME NEW c \in Cpus, stop_waiting(c) PROVE Locals'
  BY <1>6 DEF stop_waiting, Goto, nodevars, localvars, TypeOK, Locals,
        QueuedPc, HoldPc, UnlockPc, TryPc, WaitPc, StepBPc
<1>7. ASSUME NEW c \in Cpus, step_a(c) PROVE Locals'
  BY <1>7 DEF step_a, Goto, localvars, TypeOK, Locals, QueuedPc, HoldPc,
        UnlockPc, TryPc, WaitPc, StepBPc
<1>8. ASSUME NEW c \in Cpus, step_a_locked(c) PROVE Locals'
  BY <1>8 DEF step_a_locked, Goto, nodevars, TypeOK, Locals, QueuedPc, HoldPc,
        UnlockPc, TryPc, WaitPc, StepBPc
<1>9. ASSUME NEW c \in Cpus, step_a_prev(c) PROVE Locals'
  BY <1>9 DEF step_a_prev, Goto, nodevars, TypeOK, Locals, QueuedPc, HoldPc,
        UnlockPc, TryPc, WaitPc, StepBPc
<1>10. ASSUME NEW c \in Cpus, step_b_tail(c) PROVE Locals'
  BY <1>10 DEF step_b_tail, Goto, nodevars, localvars, move_tail, Return,
        TypeOK, Locals, QueuedPc, HoldPc, UnlockPc, TryPc, WaitPc, StepBPc
<1>11. ASSUME NEW c \in Cpus, step_b_next(c) PROVE Locals'
  BY <1>11 DEF step_b_next, Goto, take_next, TypeOK, Locals, QueuedPc, HoldPc,
        UnlockPc, TryPc, WaitPc, StepBPc
<1>12. ASSUME NEW c \in Cpus, step_c_prev(c) PROVE Locals'
  <2>1. lprev[c] \in Cpus /\ prev' = [prev EXCEPT ![lnext[c]] = lprev[c]]
    BY <1>12 DEF step_c_prev, Locals, TryPc
  <2>2. \A d \in Cpus : prev[d] \in Cpus => prev'[d] \in Cpus
    BY <2>1 DEF TypeOK
  <2> QED BY <1>12, <2>1, <2>2 DEF step_c_prev, Goto, localvars, TypeOK,
        Locals, QueuedPc, HoldPc, UnlockPc, TryPc, WaitPc, StepBPc
<1>13. ASSUME NEW c \in Cpus, step_c_next(c) PROVE Locals'
  BY <1>13 DEF step_c_next, Goto, Return, TypeOK, Locals, QueuedPc, HoldPc,
        UnlockPc, TryPc, WaitPc, StepBPc
<1>14. ASSUME NEW c \in Cpus, osq_unlock(c) PROVE Locals'
  BY <1>14 DEF osq_unlock, Goto, nodevars, localvars, move_tail, Return,
        TypeOK, Locals, QueuedPc, HoldPc, UnlockPc, TryPc, WaitPc, StepBPc
<1>15. ASSUME NEW c \in Cpus, xchg_next(c) PROVE Locals'
  BY <1>15 DEF xchg_next, Goto, take_next, TypeOK, Locals, QueuedPc, HoldPc,
        UnlockPc, TryPc, WaitPc, StepBPc
<1>16. ASSUME NEW c \in Cpus, unlock_tail(c) PROVE Locals'
  BY <1>16 DEF unlock_tail, Goto, nodevars, localvars, move_tail, Return,
        TypeOK, Locals, QueuedPc, HoldPc, UnlockPc, TryPc, WaitPc, StepBPc
<1>17. ASSUME NEW c \in Cpus, unlock_next(c) PROVE Locals'
  BY <1>17 DEF unlock_next, Goto, take_next, TypeOK, Locals, QueuedPc, HoldPc,
        UnlockPc, TryPc, WaitPc, StepBPc
<1>18. ASSUME NEW c \in Cpus, unlock_grant(c) PROVE Locals'
  <2>1. lnext[c] \in Cpus /\ pc[lnext[c]] \in WaitPc
    BY <1>18, Order DEF unlock_grant, Taken, TakenPc
  <2> QED BY <1>18, <2>1 DEF unlock_grant, Return, Goto, TypeOK, Locals,
        QueuedPc, HoldPc, UnlockPc, TryPc, WaitPc, StepBPc
<1> QED
  BY <1>0, <1>1, <1>2, <1>3, <1>4, <1>5, <1>6, <1>7, <1>8, <1>9, <1>10, <1>11,
        <1>12, <1>13, <1>14, <1>15, <1>16, <1>17, <1>18 DEF Next, Continue

\* The queues when one CPU has left its queue.
LEMMA QueuesAfter ==
  ASSUME TypeOK, Queues, NEW c \in Cpus, lock[c] \in Locks, pc[c] \in QueuedPc,
         pc'[c] \notin QueuedPc,
         \A d \in Cpus : d # c => pc'[d] = pc[d] /\ lock'[d] = lock[d],
         \A l \in Locks : l # lock[c] => queue'[l] = queue[l],
         Distinct(queue'[lock[c]]),
         Range(queue'[lock[c]]) = Range(queue[lock[c]]) \ {c}
  PROVE  Queues'
  BY DEF Queues

\* The queues keep the CPUs that want the lock or hold it in them.
LEMMA QueuesStep ==
  ASSUME TypeOK, Locals, Queues, Heads, Behind, [Next]_vars
  PROVE  Queues'
<1>0. UNCHANGED vars => Queues'
  BY DEF vars, TypeOK, Queues, QueuedPc, HoldPc, UnlockPc, TryPc, WaitPc,
        StepBPc
<1>1. ASSUME NEW c \in Cpus, NEW l \in Locks, init_node(c, l) PROVE Queues'
  BY <1>1 DEF init_node, Goto, localvars, TypeOK, Queues, QueuedPc, HoldPc,
        UnlockPc, TryPc, WaitPc, StepBPc
<1>2. ASSUME NEW c \in Cpus, xchg_tail(c) PROVE Queues'
  <2>1. /\ lock[c] \in Locks /\ pc[c] \notin QueuedPc /\ Enqueue(c)
        /\ lock' = lock
        /\ pc' = [pc EXCEPT ![c] = "cs"] \/ pc' = [pc EXCEPT ![c] = "set_prev"]
    BY <1>2 DEF xchg_tail, Goto, Locals, QueuedPc, HoldPc, UnlockPc, TryPc,
          WaitPc, StepBPc
  <2>2. /\ queue' \in [Locks -> Seq(Cpus)]
        /\ \A l \in Locks : l # lock[c] => queue'[l] = queue[l]
        /\ Distinct(queue'[lock[c]])
        /\ Range(queue'[lock[c]]) = Range(queue[lock[c]]) \cup {c}
    BY <2>1, Joins
  <2>3. \A d \in Cpus : (pc'[d] \in QueuedPc <=> pc[d] \in QueuedPc \/ d = c)
    BY <2>1 DEF TypeOK, QueuedPc, HoldPc, UnlockPc, TryPc, WaitPc, StepBPc
  <2>4. ASSUME NEW l \in Locks
        PROVE  /\ Distinct(queue'[l])
               /\ \A d \in Cpus : d \in Range(queue'[l]) <=> lock'[d] = l /\ pc'[d] \in QueuedPc
    <3>1. CASE l = lock[c]
      BY <2>1, <2>2, <2>3, <3>1 DEF Queues
    <3>2. CASE l # lock[c]
      BY <2>1, <2>2, <2>3, <3>2 DEF Queues
    <3> QED BY <3>1, <3>2
  <2> QED BY <2>4 DEF Queues
<1>3. ASSUME NEW c \in Cpus, set_prev(c) PROVE Queues'
  BY <1>3 DEF set_prev, Goto, localvars, TypeOK, Queues, QueuedPc, HoldPc,
        UnlockPc, TryPc, WaitPc, StepBPc
<1>4. ASSUME NEW c \in Cpus, link(c) PROVE Queues'
  BY <1>4 DEF link, Goto, localvars, TypeOK, Queues, QueuedPc, HoldPc,
        UnlockPc, TryPc, WaitPc, StepBPc
<1>5. ASSUME NEW c \in Cpus, wait_locked(c) PROVE Queues'
  BY <1>5 DEF wait_locked, Goto, nodevars, TypeOK, Queues, QueuedPc, HoldPc,
        UnlockPc, TryPc, WaitPc, StepBPc
<1>6. ASSUME NEW c \in Cpus, stop_waiting(c) PROVE Queues'
  BY <1>6 DEF stop_waiting, Goto, nodevars, localvars, TypeOK, Queues,
        QueuedPc, HoldPc, UnlockPc, TryPc, WaitPc, StepBPc
<1>7. ASSUME NEW c \in Cpus, step_a(c) PROVE Queues'
  BY <1>7 DEF step_a, Goto, localvars, TypeOK, Queues, QueuedPc, HoldPc,
        UnlockPc, TryPc, WaitPc, StepBPc
<1>8. ASSUME NEW c \in Cpus, step_a_locked(c) PROVE Queues'
  BY <1>8 DEF step_a_locked, Goto, nodevars, TypeOK, Queues, QueuedPc, HoldPc,
        UnlockPc, TryPc, WaitPc, StepBPc
<1>9. ASSUME NEW c \in Cpus, step_a_prev(c) PROVE Queues'
  BY <1>9 DEF step_a_prev, Goto, nodevars, TypeOK, Queues, QueuedPc, HoldPc,
        UnlockPc, TryPc, WaitPc, StepBPc
<1>10. ASSUME NEW c \in Cpus, step_b_tail(c) PROVE Queues'
  <2>1. CASE Return(c) /\ Unqueue(c)
    <3>1. Before(queue, lprev[c], c) /\ Unqueue(c)
      BY <1>10, <2>1 DEF step_b_tail, Behind, BehindPc, StepBPc
    <3>2. /\ pc'[c] \notin QueuedPc /\ lock[c] \in Locks /\ pc[c] \in QueuedPc
          /\ \A d \in Cpus : d # c => pc'[d] = pc[d] /\ lock'[d] = lock[d]
      BY <1>10, <2>1 DEF step_b_tail, Goto, Return, TypeOK, Locals, QueuedPc,
            HoldPc, UnlockPc, TryPc, WaitPc, StepBPc
    <3>3. /\ \A l \in Locks : l # lock[c] => queue'[l] = queue[l]
          /\ Distinct(queue'[lock[c]])
          /\ Range(queue'[lock[c]]) = Range(queue[lock[c]]) \ {c}
      BY <3>1, GivesUp
    <3> QED BY <3>2, <3>3, QueuesAfter
  <2>2. CASE Goto(c, "step_b_next") /\ UNCHANGED <<lock, queue>>
    BY <1>10, <2>2 DEF step_b_tail, Goto, TypeOK, Queues, QueuedPc, HoldPc,
          UnlockPc, TryPc, WaitPc, StepBPc
  <2> QED BY <1>10, <2>1, <2>2 DEF step_b_tail
<1>11. ASSUME NEW c \in Cpus, step_b_next(c) PROVE Queues'
  BY <1>11 DEF step_b_next, Goto, take_next, TypeOK, Queues, QueuedPc, HoldPc,
        UnlockPc, TryPc, WaitPc, StepBPc
<1>12. ASSUME NEW c \in Cpus, step_c_prev(c) PROVE Queues'
  <2>1. Before(queue, lprev[c], c) /\ Unqueue(c)
    BY <1>12 DEF step_c_prev, Behind, BehindPc
  <2>2. /\ pc'[c] \notin QueuedPc /\ lock[c] \in Locks /\ pc[c] \in QueuedPc
        /\ \A d \in Cpus : d # c => pc'[d] = pc[d] /\ lock'[d] = lock[d]
    BY <1>12 DEF step_c_prev, Goto, TypeOK, Locals, QueuedPc, HoldPc, UnlockPc,
          TryPc, WaitPc, StepBPc
  <2>3. /\ \A l \in Locks : l # lock[c] => queue'[l] = queue[l]
        /\ Distinct(queue'[lock[c]])
        /\ Range(queue'[lock[c]]) = Range(queue[lock[c]]) \ {c}
    BY <2>1, GivesUp
  <2> QED BY <2>2, <2>3, QueuesAfter
<1>13. ASSUME NEW c \in Cpus, step_c_next(c) PROVE Queues'
  BY <1>13 DEF step_c_next, Goto, Return, TypeOK, Queues, QueuedPc, HoldPc,
        UnlockPc, TryPc, WaitPc, StepBPc
<1>14. ASSUME NEW c \in Cpus, osq_unlock(c) PROVE Queues'
  <2>1. CASE Return(c) /\ Dequeue(c)
    <3>1. pc[c] \in HoldPc /\ lock[c] \in Locks /\ Dequeue(c)
      BY <1>14, <2>1 DEF osq_unlock, Locals, HoldPc, UnlockPc
    <3>2. /\ pc'[c] \notin QueuedPc /\ lock[c] \in Locks /\ pc[c] \in QueuedPc
          /\ \A d \in Cpus : d # c => pc'[d] = pc[d] /\ lock'[d] = lock[d]
      BY <1>14, <2>1 DEF osq_unlock, Goto, Return, TypeOK, Locals, QueuedPc,
            HoldPc, UnlockPc, TryPc, WaitPc, StepBPc
    <3>3. /\ \A l \in Locks : l # lock[c] => queue'[l] = queue[l]
          /\ Distinct(queue'[lock[c]])
          /\ Range(queue'[lock[c]]) = Range(queue[lock[c]]) \ {c}
      BY <3>1, Leaves
    <3> QED BY <3>2, <3>3, QueuesAfter
  <2>2. CASE Goto(c, "xchg_next") /\ UNCHANGED <<lock, queue>>
    BY <1>14, <2>2 DEF osq_unlock, Goto, TypeOK, Queues, QueuedPc, HoldPc,
          UnlockPc, TryPc, WaitPc, StepBPc
  <2> QED BY <1>14, <2>1, <2>2 DEF osq_unlock
<1>15. ASSUME NEW c \in Cpus, xchg_next(c) PROVE Queues'
  BY <1>15 DEF xchg_next, Goto, take_next, TypeOK, Queues, QueuedPc, HoldPc,
        UnlockPc, TryPc, WaitPc, StepBPc
<1>16. ASSUME NEW c \in Cpus, unlock_tail(c) PROVE Queues'
  <2>1. CASE Return(c) /\ Dequeue(c)
    <3>1. pc[c] \in HoldPc /\ lock[c] \in Locks /\ Dequeue(c)
      BY <1>16, <2>1 DEF unlock_tail, Locals, HoldPc, UnlockPc
    <3>2. /\ pc'[c] \notin QueuedPc /\ lock[c] \in Locks /\ pc[c] \in QueuedPc
          /\ \A d \in Cpus : d # c => pc'[d] = pc[d] /\ lock'[d] = lock[d]
      BY <1>16, <2>1 DEF unlock_tail, Goto, Return, TypeOK, Locals, QueuedPc,
            HoldPc, UnlockPc, TryPc, WaitPc, StepBPc
    <3>3. /\ \A l \in Locks : l # lock[c] => queue'[l] = queue[l]
          /\ Distinct(queue'[lock[c]])
          /\ Range(queue'[lock[c]]) = Range(queue[lock[c]]) \ {c}
      BY <3>1, Leaves
    <3> QED BY <3>2, <3>3, QueuesAfter
  <2>2. CASE Goto(c, "unlock_next") /\ UNCHANGED <<lock, queue>>
    BY <1>16, <2>2 DEF unlock_tail, Goto, TypeOK, Queues, QueuedPc, HoldPc,
          UnlockPc, TryPc, WaitPc, StepBPc
  <2> QED BY <1>16, <2>1, <2>2 DEF unlock_tail
<1>17. ASSUME NEW c \in Cpus, unlock_next(c) PROVE Queues'
  BY <1>17 DEF unlock_next, Goto, take_next, TypeOK, Queues, QueuedPc, HoldPc,
        UnlockPc, TryPc, WaitPc, StepBPc
<1>18. ASSUME NEW c \in Cpus, unlock_grant(c) PROVE Queues'
  <2>1. CASE Return(c) /\ Dequeue(c)
    <3>1. pc[c] \in HoldPc /\ lock[c] \in Locks /\ Dequeue(c)
      BY <1>18, <2>1 DEF unlock_grant, Locals, HoldPc, UnlockPc
    <3>2. /\ pc'[c] \notin QueuedPc /\ lock[c] \in Locks /\ pc[c] \in QueuedPc
          /\ \A d \in Cpus : d # c => pc'[d] = pc[d] /\ lock'[d] = lock[d]
      BY <1>18, <2>1 DEF unlock_grant, Goto, Return, TypeOK, Locals, QueuedPc,
            HoldPc, UnlockPc, TryPc, WaitPc, StepBPc
    <3>3. /\ \A l \in Locks : l # lock[c] => queue'[l] = queue[l]
          /\ Distinct(queue'[lock[c]])
          /\ Range(queue'[lock[c]]) = Range(queue[lock[c]]) \ {c}
      BY <3>1, Leaves
    <3> QED BY <3>2, <3>3, QueuesAfter
  <2> QED BY <1>18, <2>1 DEF unlock_grant
<1> QED
  BY <1>0, <1>1, <1>2, <1>3, <1>4, <1>5, <1>6, <1>7, <1>8, <1>9, <1>10, <1>11,
        <1>12, <1>13, <1>14, <1>15, <1>16, <1>17, <1>18 DEF Next, Continue

\* lock->tail is the last CPU of the queue: whoever moves it back was the last
\* one, and who leaves from the middle has one behind it.
LEMMA TailsStep ==
  ASSUME TypeOK, Locals, Queues, Tails, Heads, Behind, Taken, [Next]_vars
  PROVE  Tails'
<1>0. UNCHANGED vars => Tails'
  BY DEF vars, Tails
<1>1. ASSUME NEW c \in Cpus, NEW l \in Locks, init_node(c, l) PROVE Tails'
  BY <1>1 DEF init_node, Goto, localvars, Tails
<1>2. ASSUME NEW c \in Cpus, xchg_tail(c) PROVE Tails'
  <2>1. /\ lock[c] \in Locks /\ pc[c] \notin QueuedPc /\ Enqueue(c)
        /\ tail' = [tail EXCEPT ![lock[c]] = encode_cpu(c)]
    BY <1>2 DEF xchg_tail, Locals, QueuedPc, HoldPc, UnlockPc, TryPc, WaitPc,
          StepBPc
  <2>2. /\ \A l \in Locks : l # lock[c] => queue'[l] = queue[l]
        /\ queue'[lock[c]] # <<>> /\ Last(queue'[lock[c]]) = c
    BY <2>1, Joins
  <2> QED BY <2>1, <2>2 DEF TypeOK, Tails
<1>3. ASSUME NEW c \in Cpus, set_prev(c) PROVE Tails'
  BY <1>3 DEF set_prev, Goto, localvars, Tails
<1>4. ASSUME NEW c \in Cpus, link(c) PROVE Tails'
  BY <1>4 DEF link, Goto, localvars, Tails
<1>5. ASSUME NEW c \in Cpus, wait_locked(c) PROVE Tails'
  BY <1>5 DEF wait_locked, Goto, nodevars, Tails
<1>6. ASSUME NEW c \in Cpus, stop_waiting(c) PROVE Tails'
  BY <1>6 DEF stop_waiting, Goto, nodevars, localvars, Tails
<1>7. ASSUME NEW c \in Cpus, step_a(c) PROVE Tails'
  BY <1>7 DEF step_a, Goto, localvars, Tails
<1>8. ASSUME NEW c \in Cpus, step_a_locked(c) PROVE Tails'
  BY <1>8 DEF step_a_locked, Goto, nodevars, Tails
<1>9. ASSUME NEW c \in Cpus, step_a_prev(c) PROVE Tails'
  BY <1>9 DEF step_a_prev, Goto, nodevars, Tails
<1>10. ASSUME NEW c \in Cpus, step_b_tail(c) PROVE Tails'
  <2>1. CASE move_tail(c, encode_cpu(lprev[c])) /\ Unqueue(c)
    <3>1. /\ lock[c] \in Locks /\ Before(queue, lprev[c], c)
          /\ tail[lock[c]] = encode_cpu(c)
          /\ tail' = [tail EXCEPT ![lock[c]] = encode_cpu(lprev[c])]
      BY <1>10, <2>1 DEF step_b_tail, move_tail, Locals, Behind, BehindPc,
            StepBPc
    <3>2. c = Last(queue[lock[c]])
      BY <3>1, LastTail
    <3>3. /\ \A l \in Locks : l # lock[c] => queue'[l] = queue[l]
          /\ queue'[lock[c]] # <<>>
          /\ Last(queue'[lock[c]]) = lprev[c]
      BY <2>1, <3>1, <3>2, GivesUp
    <3> QED BY <3>1, <3>3 DEF TypeOK, Tails
  <2>2. CASE UNCHANGED <<tail, queue>>
    BY <2>2 DEF Tails
  <2> QED BY <1>10, <2>1, <2>2 DEF step_b_tail
<1>11. ASSUME NEW c \in Cpus, step_b_next(c) PROVE Tails'
  BY <1>11 DEF step_b_next, Goto, take_next, Tails
<1>12. ASSUME NEW c \in Cpus, step_c_prev(c) PROVE Tails'
  <2>1. /\ lock[c] \in Locks /\ Before(queue, lprev[c], c)
        /\ Before(queue, c, lnext[c])
        /\ Unqueue(c) /\ UNCHANGED tail
    BY <1>12 DEF step_c_prev, Locals, Behind, BehindPc, Taken, TakenPc
  <2>2. c # Last(queue[lock[c]])
    BY <2>1, Order
  <2>3. /\ \A l \in Locks : l # lock[c] => queue'[l] = queue[l]
        /\ queue'[lock[c]] # <<>> /\ queue[lock[c]] # <<>>
        /\ Last(queue'[lock[c]]) = Last(queue[lock[c]])
    BY <2>1, <2>2, GivesUp
  <2> QED BY <2>1, <2>3 DEF TypeOK, Tails
<1>13. ASSUME NEW c \in Cpus, step_c_next(c) PROVE Tails'
  BY <1>13 DEF step_c_next, Goto, Return, Tails
<1>14. ASSUME NEW c \in Cpus, osq_unlock(c) PROVE Tails'
  <2>1. CASE move_tail(c, OSQ_UNLOCKED_VAL) /\ Dequeue(c)
    <3>1. /\ lock[c] \in Locks /\ pc[c] \in HoldPc /\ c = Head(queue[lock[c]])
          /\ tail[lock[c]] = encode_cpu(c)
          /\ tail' = [tail EXCEPT ![lock[c]] = OSQ_UNLOCKED_VAL]
      BY <1>14, <2>1 DEF osq_unlock, move_tail, Locals, Heads, HoldPc, UnlockPc
    <3>2. c = Last(queue[lock[c]])
      BY <3>1, LastTail
    <3>3. /\ \A l \in Locks : l # lock[c] => queue'[l] = queue[l]
          /\ queue'[lock[c]] = <<>>
      BY <2>1, <3>1, <3>2, Leaves
    <3> QED BY <3>1, <3>3 DEF TypeOK, Tails
  <2>2. CASE UNCHANGED <<tail, queue>>
    BY <2>2 DEF Tails
  <2> QED BY <1>14, <2>1, <2>2 DEF osq_unlock
<1>15. ASSUME NEW c \in Cpus, xchg_next(c) PROVE Tails'
  BY <1>15 DEF xchg_next, Goto, take_next, Tails
<1>16. ASSUME NEW c \in Cpus, unlock_tail(c) PROVE Tails'
  <2>1. CASE move_tail(c, OSQ_UNLOCKED_VAL) /\ Dequeue(c)
    <3>1. /\ lock[c] \in Locks /\ pc[c] \in HoldPc /\ c = Head(queue[lock[c]])
          /\ tail[lock[c]] = encode_cpu(c)
          /\ tail' = [tail EXCEPT ![lock[c]] = OSQ_UNLOCKED_VAL]
      BY <1>16, <2>1 DEF unlock_tail, move_tail, Locals, Heads, HoldPc, UnlockPc
    <3>2. c = Last(queue[lock[c]])
      BY <3>1, LastTail
    <3>3. /\ \A l \in Locks : l # lock[c] => queue'[l] = queue[l]
          /\ queue'[lock[c]] = <<>>
      BY <2>1, <3>1, <3>2, Leaves
    <3> QED BY <3>1, <3>3 DEF TypeOK, Tails
  <2>2. CASE UNCHANGED <<tail, queue>>
    BY <2>2 DEF Tails
  <2> QED BY <1>16, <2>1, <2>2 DEF unlock_tail
<1>17. ASSUME NEW c \in Cpus, unlock_next(c) PROVE Tails'
  BY <1>17 DEF unlock_next, Goto, take_next, Tails
<1>18. ASSUME NEW c \in Cpus, unlock_grant(c) PROVE Tails'
  <2>1. /\ lock[c] \in Locks /\ Before(queue, c, lnext[c]) /\ pc[c] \in HoldPc
        /\ Dequeue(c) /\ UNCHANGED tail
    BY <1>18 DEF unlock_grant, Locals, Taken, TakenPc, HoldPc, UnlockPc
  <2>2. c # Last(queue[lock[c]])
    BY <2>1, Order
  <2>3. /\ \A l \in Locks : l # lock[c] => queue'[l] = queue[l]
        /\ queue'[lock[c]] # <<>> /\ queue[lock[c]] # <<>>
        /\ Last(queue'[lock[c]]) = Last(queue[lock[c]])
    BY <2>1, <2>2, Leaves
  <2> QED BY <2>1, <2>3 DEF TypeOK, Tails
<1> QED
  BY <1>0, <1>1, <1>2, <1>3, <1>4, <1>5, <1>6, <1>7, <1>8, <1>9, <1>10, <1>11,
        <1>12, <1>13, <1>14, <1>15, <1>16, <1>17, <1>18 DEF Next, Continue

\* A CPU is told that it has the lock exactly when it becomes the head, and
\* then it waits: a CPU in step B or C has one before it that cannot leave, so
\* it cannot become the head.
LEMMA HeadsStep ==
  ASSUME TypeOK, Locals, Queues, Tails, Heads, Nexts, Behind, Taken, [Next]_vars
  PROVE  Heads'
<1>0. UNCHANGED vars => Heads'
  BY DEF vars, TypeOK, Heads, QueuedPc, HoldPc, UnlockPc, TryPc, WaitPc, StepBPc
<1>1. ASSUME NEW c \in Cpus, NEW l \in Locks, init_node(c, l) PROVE Heads'
  BY <1>1 DEF init_node, Goto, localvars, TypeOK, Heads, QueuedPc, HoldPc,
        UnlockPc, TryPc, WaitPc, StepBPc
<1>2. ASSUME NEW c \in Cpus, xchg_tail(c) PROVE Heads'
  <2>1. /\ lock[c] \in Locks /\ pc[c] \notin QueuedPc /\ Enqueue(c)
        /\ ~locked[c]
        /\ UNCHANGED <<lock, locked>>
    BY <1>2 DEF xchg_tail, nodevars, Locals, QueuedPc, HoldPc, UnlockPc, TryPc,
          WaitPc, StepBPc
  <2>2. /\ \A l \in Locks : l # lock[c] => queue'[l] = queue[l]
        /\ queue[lock[c]] = <<>> => Head(queue'[lock[c]]) = c
        /\ queue[lock[c]] # <<>> => Head(queue'[lock[c]]) = Head(queue[lock[c]])
    BY <2>1, Joins
  <2>3. \A d \in Cpus : d # c => pc'[d] = pc[d]
    BY <1>2 DEF xchg_tail, Goto, TypeOK
  <2>4. pc'[c] = IF queue[lock[c]] = <<>> THEN "cs" ELSE "set_prev"
    BY <1>2, <2>1, LastTail DEF xchg_tail, Goto, TypeOK, Tails
  <2>5. queue[lock[c]] # <<>> => c # Head(queue[lock[c]])
    <3>1. queue[lock[c]] \in Seq(Cpus) /\ c \notin Range(queue[lock[c]])
      BY <2>1 DEF TypeOK, Queues
    <3> QED BY <3>1, Queue
  <2>6. ASSUME NEW d \in Cpus, d # c, pc[d] \in QueuedPc
        PROVE  Head(queue'[lock[d]]) = Head(queue[lock[d]])
    <3>1. lock[d] \in Locks /\ queue[lock[d]] # <<>>
      BY <2>6, InQueue DEF Locals, QueuedPc, HoldPc, UnlockPc, TryPc, WaitPc,
            StepBPc
    <3> QED BY <2>2, <3>1
  <2>7. \A d \in Cpus : d # c =>
          /\ pc'[d] \in HoldPc => d = Head(queue'[lock'[d]])
          /\ pc'[d] \in TryPc => (locked'[d] <=> d = Head(queue'[lock'[d]]))
          /\ pc'[d] \in TryPc /\ locked'[d] => pc'[d] \in WaitPc
    BY <2>1, <2>3, <2>6 DEF Heads, QueuedPc
  <2>8. /\ pc'[c] \in HoldPc => c = Head(queue'[lock'[c]])
        /\ pc'[c] \in TryPc => ~locked'[c] /\ c # Head(queue'[lock'[c]])
    BY <2>1, <2>2, <2>4, <2>5 DEF HoldPc, UnlockPc, TryPc, WaitPc, StepBPc
  <2> QED BY <2>7, <2>8 DEF Heads
<1>3. ASSUME NEW c \in Cpus, set_prev(c) PROVE Heads'
  BY <1>3 DEF set_prev, Goto, localvars, TypeOK, Heads, QueuedPc, HoldPc,
        UnlockPc, TryPc, WaitPc, StepBPc
<1>4. ASSUME NEW c \in Cpus, link(c) PROVE Heads'
  BY <1>4 DEF link, Goto, localvars, TypeOK, Heads, QueuedPc, HoldPc, UnlockPc,
        TryPc, WaitPc, StepBPc
<1>5. ASSUME NEW c \in Cpus, wait_locked(c) PROVE Heads'
  BY <1>5 DEF wait_locked, Goto, nodevars, TypeOK, Heads, QueuedPc, HoldPc,
        UnlockPc, TryPc, WaitPc, StepBPc
<1>6. ASSUME NEW c \in Cpus, stop_waiting(c) PROVE Heads'
  BY <1>6 DEF stop_waiting, Goto, nodevars, localvars, TypeOK, Heads, QueuedPc,
        HoldPc, UnlockPc, TryPc, WaitPc, StepBPc
<1>7. ASSUME NEW c \in Cpus, step_a(c) PROVE Heads'
  <2>1. next[lprev[c]] = c => ~locked[c]
    <3>1. lprev[c] \in Cpus /\ c # NULL
      BY <1>7, Encoding DEF step_a, Locals, TryPc, WaitPc
    <3> QED BY <3>1, Order DEF Nexts
  <2>2. /\ UNCHANGED <<lock, queue, locked>> /\ pc[c] = "step_a"
        /\ \/ pc' = [pc EXCEPT ![c] = "step_b_tail"] /\ ~locked[c]
           \/ pc' = [pc EXCEPT ![c] = "step_a_locked"]
    BY <1>7, <2>1 DEF step_a, Goto
  <2> QED BY <2>2 DEF TypeOK, Heads, QueuedPc, HoldPc, UnlockPc, TryPc, WaitPc,
        StepBPc
<1>8. ASSUME NEW c \in Cpus, step_a_locked(c) PROVE Heads'
  BY <1>8 DEF step_a_locked, Goto, nodevars, TypeOK, Heads, QueuedPc, HoldPc,
        UnlockPc, TryPc, WaitPc, StepBPc
<1>9. ASSUME NEW c \in Cpus, step_a_prev(c) PROVE Heads'
  BY <1>9 DEF step_a_prev, Goto, nodevars, TypeOK, Heads, QueuedPc, HoldPc,
        UnlockPc, TryPc, WaitPc, StepBPc
<1>10. ASSUME NEW c \in Cpus, step_b_tail(c) PROVE Heads'
  <2>1. CASE Return(c) /\ Unqueue(c)
    <3>1. /\ Before(queue, lprev[c], c) /\ UNCHANGED locked
          /\ \A d \in Cpus : d # c => pc'[d] = pc[d] /\ lock'[d] = lock[d]
          /\ pc'[c] = "idle"
      BY <1>10, <2>1 DEF step_b_tail, nodevars, Return, Goto, TypeOK, Behind,
            BehindPc, StepBPc
    <3>2. /\ \A l \in Locks : l # lock[c] => queue'[l] = queue[l]
          /\ Head(queue'[lock[c]]) = Head(queue[lock[c]]) /\ lock[c] \in Locks
      BY <2>1, <3>1, GivesUp
    <3>3. \A d \in Cpus : pc[d] \in QueuedPc => Head(queue'[lock[d]]) = Head(queue[lock[d]])
      BY <3>2 DEF Locals, QueuedPc, HoldPc, UnlockPc, TryPc, WaitPc, StepBPc
    <3> QED BY <3>1, <3>3 DEF Heads, QueuedPc, HoldPc, UnlockPc, TryPc, WaitPc,
          StepBPc
  <2>2. CASE Goto(c, "step_b_next") /\ UNCHANGED <<lock, queue>>
    BY <1>10, <2>2 DEF step_b_tail, Goto, nodevars, TypeOK, Heads, QueuedPc,
          HoldPc, UnlockPc, TryPc, WaitPc, StepBPc
  <2> QED BY <1>10, <2>1, <2>2 DEF step_b_tail
<1>11. ASSUME NEW c \in Cpus, step_b_next(c) PROVE Heads'
  BY <1>11 DEF step_b_next, Goto, take_next, TypeOK, Heads, QueuedPc, HoldPc,
        UnlockPc, TryPc, WaitPc, StepBPc
<1>12. ASSUME NEW c \in Cpus, step_c_prev(c) PROVE Heads'
  <2>1. /\ Before(queue, lprev[c], c) /\ UNCHANGED <<locked, lock>>
        /\ Unqueue(c)
        /\ \A d \in Cpus : d # c => pc'[d] = pc[d]
        /\ pc'[c] = "step_c_next"
    BY <1>12 DEF step_c_prev, Goto, TypeOK, Behind, BehindPc
  <2>2. /\ \A l \in Locks : l # lock[c] => queue'[l] = queue[l]
        /\ Head(queue'[lock[c]]) = Head(queue[lock[c]]) /\ lock[c] \in Locks
    BY <2>1, GivesUp
  <2>3. \A d \in Cpus : pc[d] \in QueuedPc => Head(queue'[lock[d]]) = Head(queue[lock[d]])
    BY <2>2 DEF Locals, QueuedPc, HoldPc, UnlockPc, TryPc, WaitPc, StepBPc
  <2> QED BY <2>1, <2>3 DEF Heads, QueuedPc, HoldPc, UnlockPc, TryPc, WaitPc,
        StepBPc
<1>13. ASSUME NEW c \in Cpus, step_c_next(c) PROVE Heads'
  BY <1>13 DEF step_c_next, Goto, Return, TypeOK, Heads, QueuedPc, HoldPc,
        UnlockPc, TryPc, WaitPc, StepBPc
<1>14. ASSUME NEW c \in Cpus, osq_unlock(c) PROVE Heads'
  <2>1. CASE move_tail(c, OSQ_UNLOCKED_VAL) /\ Return(c) /\ Dequeue(c)
    <3>1. /\ lock[c] \in Locks /\ pc[c] \in HoldPc
          /\ tail[lock[c]] = encode_cpu(c)
          /\ \A d \in Cpus : d # c => pc'[d] = pc[d] /\ lock'[d] = lock[d]
          /\ pc'[c] = "idle" /\ UNCHANGED locked
      BY <1>14, <2>1 DEF osq_unlock, nodevars, move_tail, Return, Goto, TypeOK,
            Locals, HoldPc, UnlockPc
    <3>2. c = Last(queue[lock[c]])
      BY <3>1, LastTail
    <3>3. /\ \A l \in Locks : l # lock[c] => queue'[l] = queue[l]
          /\ queue'[lock[c]] = <<>>
          /\ Range(queue'[lock[c]]) = Range(queue[lock[c]]) \ {c}
          /\ queue'[lock[c]] \in Seq(Cpus)
      BY <2>1, <3>1, <3>2, Leaves
    <3>4. /\ Len(queue'[lock[c]]) = 0
          /\ Range(queue'[lock[c]]) = {queue'[lock[c]][i] : i \in 1 .. Len(queue'[lock[c]])}
      BY <3>3, Queue
    <3>5. Range(queue'[lock[c]]) = {}
      BY <3>4
    <3>6. \A d \in Cpus : d # c /\ pc[d] \in QueuedPc => lock[d] \in Locks /\ lock[d] # lock[c]
      BY <3>1, <3>3, <3>5 DEF Locals, Queues, QueuedPc, HoldPc, UnlockPc,
            TryPc, WaitPc, StepBPc
    <3> QED BY <3>1, <3>3, <3>6 DEF Heads, QueuedPc, HoldPc, UnlockPc, TryPc,
          WaitPc, StepBPc
  <2>2. CASE Goto(c, "xchg_next") /\ UNCHANGED <<lock, queue>>
    BY <1>14, <2>2 DEF osq_unlock, Goto, nodevars, TypeOK, Heads, QueuedPc,
          HoldPc, UnlockPc, TryPc, WaitPc, StepBPc
  <2> QED BY <1>14, <2>1, <2>2 DEF osq_unlock
<1>15. ASSUME NEW c \in Cpus, xchg_next(c) PROVE Heads'
  BY <1>15 DEF xchg_next, Goto, take_next, TypeOK, Heads, QueuedPc, HoldPc,
        UnlockPc, TryPc, WaitPc, StepBPc
<1>16. ASSUME NEW c \in Cpus, unlock_tail(c) PROVE Heads'
  <2>1. CASE move_tail(c, OSQ_UNLOCKED_VAL) /\ Return(c) /\ Dequeue(c)
    <3>1. /\ lock[c] \in Locks /\ pc[c] \in HoldPc
          /\ tail[lock[c]] = encode_cpu(c)
          /\ \A d \in Cpus : d # c => pc'[d] = pc[d] /\ lock'[d] = lock[d]
          /\ pc'[c] = "idle" /\ UNCHANGED locked
      BY <1>16, <2>1 DEF unlock_tail, nodevars, move_tail, Return, Goto,
            TypeOK, Locals, HoldPc, UnlockPc
    <3>2. c = Last(queue[lock[c]])
      BY <3>1, LastTail
    <3>3. /\ \A l \in Locks : l # lock[c] => queue'[l] = queue[l]
          /\ queue'[lock[c]] = <<>>
          /\ Range(queue'[lock[c]]) = Range(queue[lock[c]]) \ {c}
          /\ queue'[lock[c]] \in Seq(Cpus)
      BY <2>1, <3>1, <3>2, Leaves
    <3>4. /\ Len(queue'[lock[c]]) = 0
          /\ Range(queue'[lock[c]]) = {queue'[lock[c]][i] : i \in 1 .. Len(queue'[lock[c]])}
      BY <3>3, Queue
    <3>5. Range(queue'[lock[c]]) = {}
      BY <3>4
    <3>6. \A d \in Cpus : d # c /\ pc[d] \in QueuedPc => lock[d] \in Locks /\ lock[d] # lock[c]
      BY <3>1, <3>3, <3>5 DEF Locals, Queues, QueuedPc, HoldPc, UnlockPc,
            TryPc, WaitPc, StepBPc
    <3> QED BY <3>1, <3>3, <3>6 DEF Heads, QueuedPc, HoldPc, UnlockPc, TryPc,
          WaitPc, StepBPc
  <2>2. CASE Goto(c, "unlock_next") /\ UNCHANGED <<lock, queue>>
    BY <1>16, <2>2 DEF unlock_tail, Goto, nodevars, TypeOK, Heads, QueuedPc,
          HoldPc, UnlockPc, TryPc, WaitPc, StepBPc
  <2> QED BY <1>16, <2>1, <2>2 DEF unlock_tail
<1>17. ASSUME NEW c \in Cpus, unlock_next(c) PROVE Heads'
  BY <1>17 DEF unlock_next, Goto, take_next, TypeOK, Heads, QueuedPc, HoldPc,
        UnlockPc, TryPc, WaitPc, StepBPc
<1>18. ASSUME NEW c \in Cpus, unlock_grant(c) PROVE Heads'
  <2>1. /\ lock[c] \in Locks /\ Before(queue, c, lnext[c])
        /\ pc[lnext[c]] \in WaitPc
        /\ pc[c] \in HoldPc /\ Dequeue(c) /\ c = Head(queue[lock[c]])
        /\ locked' = [locked EXCEPT ![lnext[c]] = TRUE]
        /\ \A d \in Cpus : d # c => pc'[d] = pc[d] /\ lock'[d] = lock[d]
        /\ pc'[c] = "idle"
    BY <1>18 DEF unlock_grant, Return, Goto, TypeOK, Heads, Locals, Taken,
          TakenPc, HoldPc, UnlockPc
  <2>2. lnext[c] \in Cpus /\ lnext[c] # c /\ lock[lnext[c]] = lock[c]
    BY <2>1, Order
  <2>3. /\ \A l \in Locks : l # lock[c] => queue'[l] = queue[l]
        /\ Head(queue'[lock[c]]) = lnext[c]
    BY <2>1, Leaves
  <2>4. ASSUME NEW d \in Cpus, d # c, d # lnext[c], pc[d] \in QueuedPc
        PROVE  /\ pc[d] \in HoldPc => d = Head(queue'[lock[d]])
               /\ pc[d] \in TryPc => (locked[d] <=> d = Head(queue'[lock[d]]))
               /\ pc[d] \in TryPc /\ locked[d] => pc[d] \in WaitPc
    <3>1. lock[d] \in Locks
      BY <2>4 DEF Locals, QueuedPc, HoldPc, UnlockPc, TryPc, WaitPc, StepBPc
    <3> QED BY <2>1, <2>2, <2>3, <2>4, <3>1 DEF Heads
  <2>5. \A d \in Cpus : d # lnext[c] => locked'[d] = locked[d]
    BY <2>1 DEF TypeOK
  <2>6. locked'[lnext[c]]
    BY <2>1, <2>2 DEF TypeOK
  <2>7. /\ pc'[lnext[c]] \in WaitPc /\ lock'[lnext[c]] = lock[c]
        /\ pc'[lnext[c]] \notin HoldPc
    BY <2>1, <2>2 DEF QueuedPc, HoldPc, UnlockPc, TryPc, WaitPc, StepBPc
  <2> QED BY <2>1, <2>3, <2>4, <2>5, <2>6, <2>7 DEF Heads, QueuedPc, HoldPc,
        UnlockPc, TryPc, WaitPc, StepBPc
<1> QED
  BY <1>0, <1>1, <1>2, <1>3, <1>4, <1>5, <1>6, <1>7, <1>8, <1>9, <1>10, <1>11,
        <1>12, <1>13, <1>14, <1>15, <1>16, <1>17, <1>18 DEF Next, Continue

-----------------------------------------------------------------------------
(***************************************************************************)
(* The pointers.                                                            *)
(***************************************************************************)

\* A CPU that is the last one of its queue has nobody behind it, so its next
\* pointer is NULL.
LEMMA NobodyBehind ==
  ASSUME TypeOK, Queues, Tails, Heads, Nexts, Taken, NEW c \in Cpus,
         lock[c] \in Locks,
         c = Last(queue[lock[c]])
  PROVE  next[c] = NULL /\ pc[c] \notin TakenPc /\ \A n : ~Before(queue, c, n)
<1>1. \A n : ~Before(queue, c, n)
  BY Order
<1> QED BY <1>1 DEF Nexts, Taken

\* A step of c.
OneStep(c) ==
  \/ Continue(c) \/ stop_waiting(c) \/ osq_unlock(c)
  \/ \E l \in Locks : init_node(c, l)

\* Neighbours stay neighbours when neither of them moves.
LEMMA StayNeighbours ==
  ASSUME TypeOK, Locals, Queues, Heads, Behind, NEW c \in Cpus,
         OneStep(c),
         NEW p, NEW n, Before(queue, p, n), p # c, n # c
  PROVE  Before(queue', p, n)
<1>1. CASE Enqueue(c) /\ pc[c] = "xchg_tail"
  <2>1. lock[c] \in Locks /\ pc[c] \notin QueuedPc
    BY <1>1 DEF Locals, QueuedPc, HoldPc, UnlockPc, TryPc, WaitPc, StepBPc
  <2> QED BY <1>1, <2>1, Joins
<1>2. CASE Dequeue(c) /\ pc[c] \in HoldPc
  <2>1. lock[c] \in Locks
    BY <1>2 DEF Locals, HoldPc, UnlockPc
  <2> QED BY <1>2, <2>1, Leaves
<1>3. CASE Unqueue(c) /\ pc[c] \in BehindPc
  <2>1. Before(queue, lprev[c], c)
    BY <1>3 DEF Behind
  <2> QED BY <1>3, <2>1, GivesUp
<1>4. CASE UNCHANGED queue
  BY <1>4
<1>5. CASE xchg_tail(c)
  BY <1>1, <1>5 DEF xchg_tail
<1>6. CASE osq_unlock(c) \/ unlock_tail(c) \/ unlock_grant(c)
  BY <1>2, <1>4, <1>6 DEF osq_unlock, unlock_tail, unlock_grant, HoldPc,
        UnlockPc
<1>7. CASE step_b_tail(c) \/ step_c_prev(c)
  BY <1>3, <1>4, <1>7 DEF step_b_tail, step_c_prev, BehindPc, StepBPc
<1>8. CASE \/ \E l \in Locks : init_node(c, l)
           \/ set_prev(c) \/ link(c) \/ wait_locked(c) \/ stop_waiting(c)
           \/ step_a(c) \/ step_a_locked(c) \/ step_a_prev(c)
           \/ step_b_next(c) \/ step_c_next(c) \/ xchg_next(c) \/ unlock_next(c)
  BY <1>4, <1>8 DEF init_node, set_prev, link, wait_locked, stop_waiting,
        step_a,
        step_a_locked, step_a_prev, step_b_next, step_c_next, xchg_next, unlock_next
<1> QED BY <1>5, <1>6, <1>7, <1>8 DEF OneStep, Continue

\* The next pointers when a CPU with none moves on that nobody points to.
LEMMA NextsAfter ==
  ASSUME TypeOK, Locals, Queues, Heads, Behind, Nexts, NEW c \in Cpus,
         OneStep(c), UNCHANGED next, next[c] = NULL, pc[c] \notin WaitPc,
         \A d \in Cpus : d # c => pc'[d] = pc[d]
  PROVE  Nexts'
<1>1. ASSUME NEW d \in Cpus, next[d] # NULL
      PROVE  d # c /\ next[d] # c /\ next[d] \in Cpus /\ Before(queue', d, next[d])
  <2>1. d # c /\ next[d] # c /\ next[d] \in Cpus /\ Before(queue, d, next[d])
    BY <1>1 DEF Nexts, TypeOK
  <2> QED BY <2>1, StayNeighbours
<1> QED BY <1>1 DEF Nexts

\* A CPU with a next pointer cannot leave, and the one it points to cannot stop
\* waiting without taking the pointer back.
LEMMA NextsStep ==
  ASSUME TypeOK, Locals, Queues, Tails, Heads, Nexts, Behind, Taken, Unlinking,
         [Next]_vars
  PROVE  Nexts'
<1>0. UNCHANGED vars => Nexts'
  BY DEF vars, TypeOK, Nexts, QueuedPc, HoldPc, UnlockPc, TryPc, WaitPc,
        StepBPc, TakenPc, BehindPc
<1>1. ASSUME NEW c \in Cpus, NEW l \in Locks, init_node(c, l) PROVE Nexts'
  BY <1>1 DEF init_node, Goto, localvars, TypeOK, Nexts, QueuedPc, HoldPc,
        UnlockPc, TryPc, WaitPc, StepBPc, TakenPc, BehindPc
<1>2. ASSUME NEW c \in Cpus, xchg_tail(c) PROVE Nexts'
  <2>1. /\ UNCHANGED next /\ pc[c] = "xchg_tail"
        /\ \A d \in Cpus : d # c => pc'[d] = pc[d]
    BY <1>2 DEF xchg_tail, nodevars, Goto, TypeOK
  <2>2. lock[c] \in Locks /\ pc[c] \notin QueuedPc /\ Enqueue(c)
    BY <1>2 DEF xchg_tail, Locals, QueuedPc, HoldPc, UnlockPc, TryPc, WaitPc,
          StepBPc
  <2>3. \A p, n : Before(queue, p, n) => Before(queue', p, n)
    BY <2>2, Joins
  <2>4. next[c] = NULL
    BY <2>2 DEF Nexts
  <2> QED BY <2>1, <2>3, <2>4 DEF Nexts, WaitPc, TypeOK
<1>3. ASSUME NEW c \in Cpus, set_prev(c) PROVE Nexts'
  BY <1>3 DEF set_prev, Goto, localvars, TypeOK, Nexts, QueuedPc, HoldPc,
        UnlockPc, TryPc, WaitPc, StepBPc, TakenPc, BehindPc
<1>4. ASSUME NEW c \in Cpus, link(c) PROVE Nexts'
  <2>1. /\ Before(queue, lprev[c], c) /\ pc[lprev[c]] \notin TakenPc
        /\ UNCHANGED queue
        /\ next' = [next EXCEPT ![lprev[c]] = c] /\ pc[c] = "link"
        /\ pc' = [pc EXCEPT ![c] = "wait"]
    BY <1>4 DEF link, Goto, Behind, BehindPc
  <2>2. lprev[c] \in Cpus /\ lprev[c] # c /\ pc[lprev[c]] \in QueuedPc
    BY <2>1, Order
  <2>3. \A d \in Cpus : (pc[d] \in QueuedPc \ TakenPc => pc'[d] \in QueuedPc \ TakenPc)
                       /\ (pc[d] \in WaitPc => pc'[d] \in WaitPc)
    BY <2>1 DEF TypeOK, QueuedPc, HoldPc, UnlockPc, TryPc, WaitPc, StepBPc,
          TakenPc, BehindPc
  <2>4. pc'[c] \in WaitPc
    BY <2>1 DEF TypeOK, WaitPc
  <2>5. \A d \in Cpus : next'[d] = IF d = lprev[c] THEN c ELSE next[d]
    BY <2>1, <2>2 DEF TypeOK
  <2> QED BY <2>1, <2>2, <2>3, <2>4, <2>5 DEF Nexts, TypeOK
<1>5. ASSUME NEW c \in Cpus, wait_locked(c) PROVE Nexts'
  <2>1. \A d \in Cpus : next[d] = c => ~locked[c]
    BY Order, Encoding DEF Nexts
  <2> QED BY <1>5, <2>1 DEF wait_locked, Goto, nodevars, TypeOK, Nexts,
        QueuedPc, HoldPc, UnlockPc, TryPc, WaitPc, StepBPc, TakenPc, BehindPc
<1>6. ASSUME NEW c \in Cpus, stop_waiting(c) PROVE Nexts'
  BY <1>6 DEF stop_waiting, Goto, nodevars, localvars, TypeOK, Nexts, QueuedPc,
        HoldPc, UnlockPc, TryPc, WaitPc, StepBPc, TakenPc, BehindPc
<1>7. ASSUME NEW c \in Cpus, step_a(c) PROVE Nexts'
  <2>1. CASE next[lprev[c]] = c
    <3>1. /\ lprev[c] \in Cpus /\ next' = [next EXCEPT ![lprev[c]] = NULL]
          /\ UNCHANGED queue
          /\ pc[c] = "step_a" /\ pc' = [pc EXCEPT ![c] = "step_b_tail"]
      BY <1>7, <2>1 DEF step_a, Goto, Locals, TryPc, WaitPc
    <3>2. \A d \in Cpus : next[d] = c => d = lprev[c]
      BY <2>1, <3>1, Order, Encoding DEF Nexts
    <3>3. \A d \in Cpus : (pc[d] \in QueuedPc \ TakenPc => pc'[d] \in QueuedPc \ TakenPc)
                         /\ (d # c => pc'[d] = pc[d])
      BY <3>1 DEF TypeOK, QueuedPc, HoldPc, UnlockPc, TryPc, WaitPc, StepBPc,
            TakenPc, BehindPc
    <3>4. \A d \in Cpus : next'[d] = IF d = lprev[c] THEN NULL ELSE next[d]
      BY <3>1 DEF TypeOK
    <3> QED BY <3>1, <3>2, <3>3, <3>4 DEF Nexts, TypeOK
  <2>2. CASE next[lprev[c]] # c
    BY <1>7, <2>2 DEF step_a, Goto, localvars, TypeOK, Nexts, QueuedPc, HoldPc,
          UnlockPc, TryPc, WaitPc, StepBPc, TakenPc, BehindPc
  <2> QED BY <2>1, <2>2
<1>8. ASSUME NEW c \in Cpus, step_a_locked(c) PROVE Nexts'
  <2>1. \A d \in Cpus : next[d] = c => ~locked[c]
    BY Order, Encoding DEF Nexts
  <2> QED BY <1>8, <2>1 DEF step_a_locked, Goto, nodevars, TypeOK, Nexts,
        QueuedPc, HoldPc, UnlockPc, TryPc, WaitPc, StepBPc, TakenPc, BehindPc
<1>9. ASSUME NEW c \in Cpus, step_a_prev(c) PROVE Nexts'
  BY <1>9 DEF step_a_prev, Goto, nodevars, TypeOK, Nexts, QueuedPc, HoldPc,
        UnlockPc, TryPc, WaitPc, StepBPc, TakenPc, BehindPc
<1>10. ASSUME NEW c \in Cpus, step_b_tail(c) PROVE Nexts'
  <2>1. CASE move_tail(c, encode_cpu(lprev[c])) /\ Return(c)
    <3>1. /\ lock[c] \in Locks /\ tail[lock[c]] = encode_cpu(c)
          /\ UNCHANGED next
          /\ pc[c] \notin WaitPc /\ \A d \in Cpus : d # c => pc'[d] = pc[d]
      BY <1>10, <2>1 DEF step_b_tail, nodevars, move_tail, Return, Goto,
            TypeOK, Locals, WaitPc
    <3>2. next[c] = NULL
      BY <3>1, LastTail, NobodyBehind
    <3> QED BY <1>10, <3>1, <3>2, NextsAfter DEF OneStep, Continue
  <2>2. CASE Goto(c, "step_b_next") /\ UNCHANGED <<lock, queue>>
    BY <1>10, <2>2 DEF step_b_tail, Goto, nodevars, TypeOK, Nexts, QueuedPc,
          HoldPc, UnlockPc, TryPc, WaitPc, StepBPc, TakenPc, BehindPc
  <2> QED BY <1>10, <2>1, <2>2 DEF step_b_tail
<1>11. ASSUME NEW c \in Cpus, step_b_next(c) PROVE Nexts'
  <2>1. /\ pc[c] = "step_b_next" /\ UNCHANGED queue
        /\ pc' = [pc EXCEPT ![c] = "step_c_prev"] \/ pc' = [pc EXCEPT ![c] = "step_b_tail"]
        /\ next' = [next EXCEPT ![c] = NULL]
    BY <1>11 DEF step_b_next, Goto, take_next, TypeOK
  <2>2. /\ next'[c] = NULL
        /\ \A d \in Cpus : d # c => pc'[d] = pc[d] /\ next'[d] = next[d]
    BY <2>1 DEF TypeOK
  <2>3. pc[c] \notin WaitPc
    BY <2>1 DEF WaitPc
  <2> QED BY <2>1, <2>2, <2>3 DEF Nexts, TypeOK
<1>12. ASSUME NEW c \in Cpus, step_c_prev(c) PROVE Nexts'
  <2>1. /\ UNCHANGED next /\ pc[c] \in TakenPc
        /\ \A d \in Cpus : d # c => pc'[d] = pc[d]
    BY <1>12 DEF step_c_prev, Return, Goto, TypeOK, TakenPc
  <2>2. next[c] = NULL /\ pc[c] \notin WaitPc
    BY <2>1 DEF Nexts, TakenPc, WaitPc
  <2> QED BY <1>12, <2>1, <2>2, NextsAfter DEF OneStep, Continue
<1>13. ASSUME NEW c \in Cpus, step_c_next(c) PROVE Nexts'
  <2>1. /\ Before(queue, lprev[c], lnext[c]) /\ pc[lprev[c]] \notin TakenPc
        /\ pc[lnext[c]] \in WaitPc /\ UNCHANGED queue
        /\ next' = [next EXCEPT ![lprev[c]] = lnext[c]] /\ pc[c] = "step_c_next"
        /\ pc' = [pc EXCEPT ![c] = "idle"]
    BY <1>13 DEF step_c_next, Return, Goto, Unlinking
  <2>2. lprev[c] \in Cpus /\ lnext[c] \in Cpus /\ pc[lprev[c]] \in QueuedPc
    BY <2>1, Order
  <2>3. \A d \in Cpus : pc[d] \in QueuedPc \/ pc[d] \in WaitPc => pc'[d] = pc[d]
    BY <2>1 DEF TypeOK, QueuedPc, HoldPc, UnlockPc, TryPc, WaitPc, StepBPc
  <2>4. \A d \in Cpus : next'[d] = IF d = lprev[c] THEN lnext[c] ELSE next[d]
    BY <2>1, <2>2 DEF TypeOK
  <2> QED BY <2>1, <2>2, <2>3, <2>4 DEF Nexts, TypeOK
<1>14. ASSUME NEW c \in Cpus, osq_unlock(c) PROVE Nexts'
  <2>1. CASE move_tail(c, OSQ_UNLOCKED_VAL) /\ Return(c)
    <3>1. /\ lock[c] \in Locks /\ tail[lock[c]] = encode_cpu(c)
          /\ UNCHANGED next
          /\ pc[c] \notin WaitPc /\ \A d \in Cpus : d # c => pc'[d] = pc[d]
      BY <1>14, <2>1 DEF osq_unlock, nodevars, move_tail, Return, Goto, TypeOK,
            Locals, WaitPc
    <3>2. next[c] = NULL
      BY <3>1, LastTail, NobodyBehind
    <3> QED BY <1>14, <3>1, <3>2, NextsAfter DEF OneStep, Continue
  <2>2. CASE Goto(c, "xchg_next") /\ UNCHANGED <<lock, queue>>
    BY <1>14, <2>2 DEF osq_unlock, Goto, nodevars, TypeOK, Nexts, QueuedPc,
          HoldPc, UnlockPc, TryPc, WaitPc, StepBPc, TakenPc, BehindPc
  <2> QED BY <1>14, <2>1, <2>2 DEF osq_unlock
<1>15. ASSUME NEW c \in Cpus, xchg_next(c) PROVE Nexts'
  <2>1. /\ pc[c] = "xchg_next" /\ UNCHANGED queue
        /\ pc' = [pc EXCEPT ![c] = "unlock_grant"] \/ pc' = [pc EXCEPT ![c] = "unlock_tail"]
        /\ next' = [next EXCEPT ![c] = NULL]
    BY <1>15 DEF xchg_next, Goto, take_next, TypeOK
  <2>2. /\ next'[c] = NULL
        /\ \A d \in Cpus : d # c => pc'[d] = pc[d] /\ next'[d] = next[d]
    BY <2>1 DEF TypeOK
  <2>3. pc[c] \notin WaitPc
    BY <2>1 DEF WaitPc
  <2> QED BY <2>1, <2>2, <2>3 DEF Nexts, TypeOK
<1>16. ASSUME NEW c \in Cpus, unlock_tail(c) PROVE Nexts'
  <2>1. CASE move_tail(c, OSQ_UNLOCKED_VAL) /\ Return(c)
    <3>1. /\ lock[c] \in Locks /\ tail[lock[c]] = encode_cpu(c)
          /\ UNCHANGED next
          /\ pc[c] \notin WaitPc /\ \A d \in Cpus : d # c => pc'[d] = pc[d]
      BY <1>16, <2>1 DEF unlock_tail, nodevars, move_tail, Return, Goto,
            TypeOK, Locals, WaitPc
    <3>2. next[c] = NULL
      BY <3>1, LastTail, NobodyBehind
    <3> QED BY <1>16, <3>1, <3>2, NextsAfter DEF OneStep, Continue
  <2>2. CASE Goto(c, "unlock_next") /\ UNCHANGED <<lock, queue>>
    BY <1>16, <2>2 DEF unlock_tail, Goto, nodevars, TypeOK, Nexts, QueuedPc,
          HoldPc, UnlockPc, TryPc, WaitPc, StepBPc, TakenPc, BehindPc
  <2> QED BY <1>16, <2>1, <2>2 DEF unlock_tail
<1>17. ASSUME NEW c \in Cpus, unlock_next(c) PROVE Nexts'
  <2>1. /\ pc[c] = "unlock_next" /\ UNCHANGED queue
        /\ pc' = [pc EXCEPT ![c] = "unlock_grant"] \/ pc' = [pc EXCEPT ![c] = "unlock_tail"]
        /\ next' = [next EXCEPT ![c] = NULL]
    BY <1>17 DEF unlock_next, Goto, take_next, TypeOK
  <2>2. /\ next'[c] = NULL
        /\ \A d \in Cpus : d # c => pc'[d] = pc[d] /\ next'[d] = next[d]
    BY <2>1 DEF TypeOK
  <2>3. pc[c] \notin WaitPc
    BY <2>1 DEF WaitPc
  <2> QED BY <2>1, <2>2, <2>3 DEF Nexts, TypeOK
<1>18. ASSUME NEW c \in Cpus, unlock_grant(c) PROVE Nexts'
  <2>1. /\ UNCHANGED next /\ pc[c] \in TakenPc
        /\ \A d \in Cpus : d # c => pc'[d] = pc[d]
    BY <1>18 DEF unlock_grant, Return, Goto, TypeOK, TakenPc
  <2>2. next[c] = NULL /\ pc[c] \notin WaitPc
    BY <2>1 DEF Nexts, TakenPc, WaitPc
  <2> QED BY <1>18, <2>1, <2>2, NextsAfter DEF OneStep, Continue
<1> QED
  BY <1>0, <1>1, <1>2, <1>3, <1>4, <1>5, <1>6, <1>7, <1>8, <1>9, <1>10, <1>11,
        <1>12, <1>13, <1>14, <1>15, <1>16, <1>17, <1>18 DEF Next, Continue

\* Behind after a step of c: the CPUs with c before them, the others, and c.
LEMMA BehindAfter ==
  ASSUME TypeOK, Locals, Queues, Heads, Behind, NEW c \in Cpus,
         OneStep(c),
         \A d \in Cpus : d # c => pc'[d] = pc[d] /\ lprev'[d] = lprev[d],
         \A d \in Cpus : d # c /\ pc[d] \in BehindPc =>
           /\ next'[lprev[d]] = NULL
           /\ lprev[d] # c \/ (UNCHANGED queue /\ pc'[c] \notin TakenPc),
         pc'[c] \in BehindPc =>
           /\ Before(queue', lprev'[c], c)
           /\ next'[lprev'[c]] = NULL
           /\ pc'[lprev'[c]] \notin TakenPc
  PROVE  Behind'
<1>1. ASSUME NEW d \in Cpus, d # c, pc[d] \in BehindPc
      PROVE  Before(queue', lprev[d], d) /\ pc'[lprev[d]] \notin TakenPc
  <2>1. Before(queue, lprev[d], d) /\ pc[lprev[d]] \notin TakenPc
    BY <1>1 DEF Behind
  <2>2. lprev[d] \in Cpus
    BY <2>1, Order
  <2>3. CASE lprev[d] = c
    BY <1>1, <2>1, <2>3
  <2>4. CASE lprev[d] # c
    <3>1. Before(queue', lprev[d], d)
      BY <1>1, <2>1, <2>4, StayNeighbours
    <3> QED BY <2>1, <2>2, <2>4, <3>1
  <2> QED BY <2>3, <2>4
<1> QED BY <1>1 DEF Behind

\* Once step A has cleared prev->next, or while it is not yet set, the CPU
\* before stays: it is not the last one and finds no next pointer to take.
LEMMA BehindStep ==
  ASSUME TypeOK, Locals, Queues, Tails, Heads, Nexts, Behind, Taken, Unlinking,
         [Next]_vars
  PROVE  Behind'
<1>0. UNCHANGED vars => Behind'
  BY DEF vars, Behind
<1>1. ASSUME NEW c \in Cpus, NEW l \in Locks, init_node(c, l) PROVE Behind'
  <2>1. /\ UNCHANGED <<queue, lprev>> /\ pc'[c] \notin TakenPc
        /\ pc'[c] \notin BehindPc
        /\ next' = [next EXCEPT ![c] = NULL]
        /\ \A d \in Cpus : d # c => pc'[d] = pc[d]
    BY <1>1 DEF init_node, Goto, localvars, TypeOK, TakenPc, BehindPc, StepBPc
  <2>2. \A d \in Cpus : next[d] = NULL => next'[d] = NULL
    BY <2>1 DEF TypeOK
  <2>3. \A d \in Cpus : pc[d] \in BehindPc => next'[lprev[d]] = NULL
    BY <2>2, Order DEF Behind
  <2> QED BY <1>1, <2>1, <2>3, BehindAfter DEF OneStep
<1>2. ASSUME NEW c \in Cpus, xchg_tail(c) PROVE Behind'
  <2>1. /\ lock[c] \in Locks /\ pc[c] \notin QueuedPc /\ pc[c] \notin BehindPc
        /\ Enqueue(c) /\ UNCHANGED next
        /\ \A d \in Cpus : d # c => pc'[d] = pc[d] /\ lprev'[d] = lprev[d]
    BY <1>2 DEF xchg_tail, Goto, nodevars, TypeOK, Locals, QueuedPc, HoldPc,
          UnlockPc, TryPc, WaitPc, StepBPc, TakenPc, BehindPc
  <2>2. \A d \in Cpus : pc[d] \in BehindPc => lprev[d] # c /\ next'[lprev[d]] = NULL
    BY <2>1, Order DEF Behind
  <2>3. ASSUME pc'[c] \in BehindPc
        PROVE  /\ Before(queue', lprev'[c], c) /\ next'[lprev'[c]] = NULL
               /\ pc'[lprev'[c]] \notin TakenPc
    <3>1. /\ tail[lock[c]] # OSQ_UNLOCKED_VAL
          /\ lprev'[c] = decode_cpu(tail[lock[c]])
      BY <1>2, <2>3 DEF xchg_tail, Goto, nodevars, TypeOK, BehindPc, StepBPc
    <3>2. PICK p \in Cpus : /\ p = Last(queue[lock[c]]) /\ lock[p] = lock[c] /\ p = lprev'[c]
                           /\ queue[lock[c]] # <<>> /\ pc[p] \in QueuedPc
      BY <2>1, <3>1, LastTail
    <3>3. next[p] = NULL /\ pc[p] \notin TakenPc
      BY <2>1, <3>2, NobodyBehind
    <3>4. Before(queue', p, c)
      BY <2>1, <3>2, Joins
    <3> QED BY <2>1, <3>2, <3>3, <3>4
  <2> QED BY <1>2, <2>1, <2>2, <2>3, BehindAfter DEF OneStep, Continue
<1>3. ASSUME NEW c \in Cpus, set_prev(c) PROVE Behind'
  <2>1. /\ UNCHANGED queue /\ pc'[c] \notin TakenPc
        /\ \A d \in Cpus : d # c => pc'[d] = pc[d] /\ lprev'[d] = lprev[d]
        /\ \A d \in Cpus : next[d] = NULL => next'[d] = NULL
    BY <1>3 DEF set_prev, Goto, localvars, TypeOK, TakenPc
  <2>2. \A d \in Cpus : pc[d] \in BehindPc => lprev[d] \in Cpus /\ next'[lprev[d]] = NULL
    BY <2>1, Order DEF Behind
  <2>3. pc[c] \in BehindPc /\ lprev'[c] = lprev[c]
    BY <1>3 DEF set_prev, Goto, localvars, TypeOK, BehindPc, StepBPc
  <2>4. /\ Before(queue, lprev[c], c) /\ next'[lprev[c]] = NULL
        /\ pc[lprev[c]] \notin TakenPc /\ lprev[c] # c /\ lprev[c] \in Cpus
    BY <2>2, <2>3, Order DEF Behind
  <2> QED BY <1>3, <2>1, <2>2, <2>3, <2>4, BehindAfter DEF OneStep, Continue
<1>4. ASSUME NEW c \in Cpus, link(c) PROVE Behind'
  <2>1. /\ UNCHANGED queue /\ pc'[c] \notin TakenPc /\ pc'[c] \notin BehindPc
        /\ next' = [next EXCEPT ![lprev[c]] = c] /\ pc[c] \in BehindPc
        /\ \A d \in Cpus : d # c => pc'[d] = pc[d] /\ lprev'[d] = lprev[d]
    BY <1>4 DEF link, Goto, localvars, TypeOK, QueuedPc, HoldPc, UnlockPc,
          TryPc, WaitPc, StepBPc, TakenPc, BehindPc
  <2>2. ASSUME NEW d \in Cpus, d # c, pc[d] \in BehindPc
        PROVE  next'[lprev[d]] = NULL
    <3>1. /\ Before(queue, lprev[d], d) /\ Before(queue, lprev[c], c)
          /\ next[lprev[d]] = NULL
      BY <2>1, <2>2 DEF Behind
    <3>2. lprev[d] # lprev[c] /\ lprev[d] \in Cpus
      BY <2>2, <3>1, Order
    <3> QED BY <2>1, <3>1, <3>2 DEF TypeOK
  <2> QED BY <1>4, <2>1, <2>2, BehindAfter DEF OneStep, Continue
<1>5. ASSUME NEW c \in Cpus, wait_locked(c) PROVE Behind'
  <2>1. /\ UNCHANGED queue /\ pc'[c] \notin TakenPc
        /\ \A d \in Cpus : d # c => pc'[d] = pc[d] /\ lprev'[d] = lprev[d]
        /\ \A d \in Cpus : next[d] = NULL => next'[d] = NULL
    BY <1>5 DEF wait_locked, Goto, nodevars, TypeOK, TakenPc
  <2>2. \A d \in Cpus : pc[d] \in BehindPc => lprev[d] \in Cpus /\ next'[lprev[d]] = NULL
    BY <2>1, Order DEF Behind
  <2>3. pc'[c] \notin BehindPc
    BY <1>5 DEF wait_locked, Goto, nodevars, TypeOK, BehindPc, StepBPc
  <2> QED BY <1>5, <2>1, <2>2, <2>3, BehindAfter DEF OneStep, Continue
<1>6. ASSUME NEW c \in Cpus, stop_waiting(c) PROVE Behind'
  <2>1. /\ UNCHANGED queue /\ pc'[c] \notin TakenPc
        /\ \A d \in Cpus : d # c => pc'[d] = pc[d] /\ lprev'[d] = lprev[d]
        /\ \A d \in Cpus : next[d] = NULL => next'[d] = NULL
    BY <1>6 DEF stop_waiting, Goto, nodevars, localvars, TypeOK, TakenPc
  <2>2. \A d \in Cpus : pc[d] \in BehindPc => lprev[d] \in Cpus /\ next'[lprev[d]] = NULL
    BY <2>1, Order DEF Behind
  <2>3. pc'[c] \notin BehindPc
    BY <1>6 DEF stop_waiting, Goto, nodevars, localvars, TypeOK, BehindPc,
          StepBPc
  <2> QED BY <1>6, <2>1, <2>2, <2>3, BehindAfter DEF OneStep, Continue
<1>7. ASSUME NEW c \in Cpus, step_a(c) PROVE Behind'
  <2>1. CASE next[lprev[c]] = c
    <3>1. /\ UNCHANGED <<queue, lprev>> /\ pc'[c] \notin TakenPc
          /\ next' = [next EXCEPT ![lprev[c]] = NULL] /\ lprev[c] \in Cpus
          /\ \A d \in Cpus : d # c => pc'[d] = pc[d]
      BY <1>7, <2>1 DEF step_a, Goto, localvars, TypeOK, Locals, QueuedPc,
            HoldPc, UnlockPc, TryPc, WaitPc, StepBPc, TakenPc, BehindPc
    <3>2. /\ next'[lprev[c]] = NULL
          /\ \A d \in Cpus : next[d] = NULL => next'[d] = NULL
      BY <3>1 DEF TypeOK
    <3>3. \A d \in Cpus : pc[d] \in BehindPc => next'[lprev[d]] = NULL
      BY <3>2, Order DEF Behind
    <3>4. /\ Before(queue, lprev[c], c) /\ pc[lprev[c]] \notin TakenPc
      BY <2>1, <3>1, Encoding DEF Nexts
    <3>5. lprev[c] # c
      BY <3>4, Order
    <3> QED BY <1>7, <3>1, <3>2, <3>3, <3>4, <3>5, BehindAfter DEF OneStep,
          Continue
  <2>2. CASE next[lprev[c]] # c
    <3>1. /\ UNCHANGED <<queue, lprev, next>> /\ pc'[c] \notin TakenPc
          /\ pc'[c] \notin BehindPc
          /\ \A d \in Cpus : d # c => pc'[d] = pc[d]
      BY <1>7, <2>2 DEF step_a, Goto, localvars, TypeOK, TakenPc, BehindPc,
            StepBPc
    <3>2. \A d \in Cpus : pc[d] \in BehindPc => next'[lprev[d]] = NULL
      BY <3>1 DEF Behind
    <3> QED BY <1>7, <3>1, <3>2, BehindAfter DEF OneStep, Continue
  <2> QED BY <2>1, <2>2
<1>8. ASSUME NEW c \in Cpus, step_a_locked(c) PROVE Behind'
  <2>1. /\ UNCHANGED queue /\ pc'[c] \notin TakenPc
        /\ \A d \in Cpus : d # c => pc'[d] = pc[d] /\ lprev'[d] = lprev[d]
        /\ \A d \in Cpus : next[d] = NULL => next'[d] = NULL
    BY <1>8 DEF step_a_locked, Goto, nodevars, TypeOK, TakenPc
  <2>2. \A d \in Cpus : pc[d] \in BehindPc => lprev[d] \in Cpus /\ next'[lprev[d]] = NULL
    BY <2>1, Order DEF Behind
  <2>3. pc'[c] \notin BehindPc
    BY <1>8 DEF step_a_locked, Goto, nodevars, TypeOK, BehindPc, StepBPc
  <2> QED BY <1>8, <2>1, <2>2, <2>3, BehindAfter DEF OneStep, Continue
<1>9. ASSUME NEW c \in Cpus, step_a_prev(c) PROVE Behind'
  <2>1. /\ UNCHANGED queue /\ pc'[c] \notin TakenPc
        /\ \A d \in Cpus : d # c => pc'[d] = pc[d] /\ lprev'[d] = lprev[d]
        /\ \A d \in Cpus : next[d] = NULL => next'[d] = NULL
    BY <1>9 DEF step_a_prev, Goto, nodevars, TypeOK, TakenPc
  <2>2. \A d \in Cpus : pc[d] \in BehindPc => lprev[d] \in Cpus /\ next'[lprev[d]] = NULL
    BY <2>1, Order DEF Behind
  <2>3. pc'[c] \notin BehindPc
    BY <1>9 DEF step_a_prev, Goto, nodevars, TypeOK, BehindPc, StepBPc
  <2> QED BY <1>9, <2>1, <2>2, <2>3, BehindAfter DEF OneStep, Continue
<1>10. ASSUME NEW c \in Cpus, step_b_tail(c) PROVE Behind'
  <2>1. CASE move_tail(c, encode_cpu(lprev[c])) /\ Return(c)
    <3>1. /\ lock[c] \in Locks /\ tail[lock[c]] = encode_cpu(c)
          /\ UNCHANGED next
          /\ pc'[c] \notin BehindPc
          /\ \A d \in Cpus : d # c => pc'[d] = pc[d] /\ lprev'[d] = lprev[d]
      BY <1>10, <2>1 DEF step_b_tail, Goto, nodevars, localvars, move_tail,
            Return, TypeOK, Locals, BehindPc, StepBPc
    <3>2. \A n : ~Before(queue, c, n)
      BY <3>1, LastTail, NobodyBehind
    <3>3. \A d \in Cpus : pc[d] \in BehindPc => lprev[d] # c /\ next'[lprev[d]] = NULL
      BY <3>1, <3>2 DEF Behind
    <3> QED BY <1>10, <3>1, <3>3, BehindAfter DEF OneStep, Continue
  <2>2. CASE Goto(c, "step_b_next") /\ UNCHANGED <<lprev, queue>>
    <3>1. /\ UNCHANGED <<queue, lprev, next>> /\ pc'[c] \notin TakenPc
          /\ \A d \in Cpus : d # c => pc'[d] = pc[d]
      BY <1>10, <2>2 DEF step_b_tail, Goto, nodevars, localvars, move_tail,
            Return, TypeOK, TakenPc
    <3>2. \A d \in Cpus : pc[d] \in BehindPc => next'[lprev[d]] = NULL
      BY <3>1 DEF Behind
    <3>3. pc[c] \in BehindPc
      BY <1>10 DEF step_b_tail, BehindPc, StepBPc
    <3>4. /\ Before(queue, lprev[c], c) /\ lprev[c] # c /\ lprev[c] \in Cpus
          /\ pc[lprev[c]] \notin TakenPc
      BY <3>3, Order DEF Behind
    <3> QED BY <1>10, <3>1, <3>2, <3>3, <3>4, BehindAfter DEF OneStep, Continue
  <2> QED BY <1>10, <2>1, <2>2 DEF step_b_tail, localvars
<1>11. ASSUME NEW c \in Cpus, step_b_next(c) PROVE Behind'
  <2>1. /\ UNCHANGED <<queue, lprev>> /\ next' = [next EXCEPT ![c] = NULL]
        /\ \A d \in Cpus : d # c => pc'[d] = pc[d]
        /\ next[c] = NULL => pc'[c] \notin TakenPc
    BY <1>11 DEF step_b_next, Goto, take_next, TypeOK, TakenPc
  <2>2. \A d \in Cpus : next[d] = NULL => next'[d] = NULL
    BY <2>1 DEF TypeOK
  <2>3. \A d \in Cpus : pc[d] \in BehindPc =>
          next'[lprev[d]] = NULL /\ (lprev[d] # c \/ pc'[c] \notin TakenPc)
    BY <2>1, <2>2, Order DEF Behind
  <2>4. pc[c] \in BehindPc
    BY <1>11 DEF step_b_next, BehindPc, StepBPc
  <2>5. /\ Before(queue, lprev[c], c) /\ next'[lprev[c]] = NULL /\ lprev[c] # c
        /\ lprev[c] \in Cpus /\ pc[lprev[c]] \notin TakenPc
    BY <2>3, <2>4, Order DEF Behind
  <2> QED BY <1>11, <2>1, <2>3, <2>5, BehindAfter DEF OneStep, Continue
<1>12. ASSUME NEW c \in Cpus, step_c_prev(c) PROVE Behind'
  <2>1. /\ UNCHANGED next /\ pc[c] \in TakenPc /\ pc'[c] \notin BehindPc
        /\ \A d \in Cpus : d # c => pc'[d] = pc[d] /\ lprev'[d] = lprev[d]
    BY <1>12 DEF step_c_prev, Goto, localvars, TypeOK, TakenPc, BehindPc,
          StepBPc
  <2>2. \A d \in Cpus : pc[d] \in BehindPc => lprev[d] # c /\ next'[lprev[d]] = NULL
    BY <2>1 DEF Behind
  <2> QED BY <1>12, <2>1, <2>2, BehindAfter DEF OneStep, Continue
<1>13. ASSUME NEW c \in Cpus, step_c_next(c) PROVE Behind'
  <2>1. /\ UNCHANGED queue /\ pc'[c] \notin TakenPc /\ pc'[c] \notin BehindPc
        /\ next' = [next EXCEPT ![lprev[c]] = lnext[c]]
        /\ Before(queue, lprev[c], lnext[c]) /\ pc[lnext[c]] \in WaitPc
        /\ \A d \in Cpus : d # c => pc'[d] = pc[d] /\ lprev'[d] = lprev[d]
    BY <1>13 DEF step_c_next, Goto, Return, TypeOK, Unlinking, TakenPc,
          BehindPc, StepBPc
  <2>2. ASSUME NEW d \in Cpus, pc[d] \in BehindPc PROVE next'[lprev[d]] = NULL
    <3>1. Before(queue, lprev[d], d) /\ next[lprev[d]] = NULL
      BY <2>2 DEF Behind
    <3>2. d # lnext[c]
      BY <2>1, <2>2 DEF WaitPc, BehindPc, StepBPc
    <3>3. lprev[d] # lprev[c] /\ lprev[d] \in Cpus
      BY <2>1, <3>1, <3>2, Order
    <3> QED BY <2>1, <3>1, <3>3 DEF TypeOK
  <2> QED BY <1>13, <2>1, <2>2, BehindAfter DEF OneStep, Continue
<1>14. ASSUME NEW c \in Cpus, osq_unlock(c) PROVE Behind'
  <2>1. CASE move_tail(c, OSQ_UNLOCKED_VAL) /\ Return(c)
    <3>1. /\ lock[c] \in Locks /\ tail[lock[c]] = encode_cpu(c)
          /\ UNCHANGED next
          /\ pc'[c] \notin BehindPc
          /\ \A d \in Cpus : d # c => pc'[d] = pc[d] /\ lprev'[d] = lprev[d]
      BY <1>14, <2>1 DEF osq_unlock, Goto, nodevars, localvars, move_tail,
            Return, TypeOK, Locals, BehindPc, StepBPc
    <3>2. \A n : ~Before(queue, c, n)
      BY <3>1, LastTail, NobodyBehind
    <3>3. \A d \in Cpus : pc[d] \in BehindPc => lprev[d] # c /\ next'[lprev[d]] = NULL
      BY <3>1, <3>2 DEF Behind
    <3> QED BY <1>14, <3>1, <3>3, BehindAfter DEF OneStep, Continue
  <2>2. CASE Goto(c, "xchg_next") /\ UNCHANGED <<lprev, queue>>
    <3>1. /\ UNCHANGED <<queue, lprev, next>> /\ pc'[c] \notin TakenPc
          /\ \A d \in Cpus : d # c => pc'[d] = pc[d]
      BY <1>14, <2>2 DEF osq_unlock, Goto, nodevars, localvars, move_tail,
            Return, TypeOK, TakenPc
    <3>2. \A d \in Cpus : pc[d] \in BehindPc => next'[lprev[d]] = NULL
      BY <3>1 DEF Behind
    <3>3. pc'[c] \notin BehindPc
      BY <1>14, <2>2 DEF Goto, TypeOK, BehindPc, StepBPc
    <3> QED BY <1>14, <3>1, <3>2, <3>3, BehindAfter DEF OneStep, Continue
  <2> QED BY <1>14, <2>1, <2>2 DEF osq_unlock, localvars
<1>15. ASSUME NEW c \in Cpus, xchg_next(c) PROVE Behind'
  <2>1. /\ UNCHANGED <<queue, lprev>> /\ next' = [next EXCEPT ![c] = NULL]
        /\ \A d \in Cpus : d # c => pc'[d] = pc[d]
        /\ next[c] = NULL => pc'[c] \notin TakenPc
    BY <1>15 DEF xchg_next, Goto, take_next, TypeOK, TakenPc
  <2>2. \A d \in Cpus : next[d] = NULL => next'[d] = NULL
    BY <2>1 DEF TypeOK
  <2>3. \A d \in Cpus : pc[d] \in BehindPc =>
          next'[lprev[d]] = NULL /\ (lprev[d] # c \/ pc'[c] \notin TakenPc)
    BY <2>1, <2>2, Order DEF Behind
  <2>4. pc'[c] \notin BehindPc
    BY <1>15 DEF xchg_next, Goto, take_next, TypeOK, BehindPc, StepBPc
  <2> QED BY <1>15, <2>1, <2>3, <2>4, BehindAfter DEF OneStep, Continue
<1>16. ASSUME NEW c \in Cpus, unlock_tail(c) PROVE Behind'
  <2>1. CASE move_tail(c, OSQ_UNLOCKED_VAL) /\ Return(c)
    <3>1. /\ lock[c] \in Locks /\ tail[lock[c]] = encode_cpu(c)
          /\ UNCHANGED next
          /\ pc'[c] \notin BehindPc
          /\ \A d \in Cpus : d # c => pc'[d] = pc[d] /\ lprev'[d] = lprev[d]
      BY <1>16, <2>1 DEF unlock_tail, Goto, nodevars, localvars, move_tail,
            Return, TypeOK, Locals, BehindPc, StepBPc
    <3>2. \A n : ~Before(queue, c, n)
      BY <3>1, LastTail, NobodyBehind
    <3>3. \A d \in Cpus : pc[d] \in BehindPc => lprev[d] # c /\ next'[lprev[d]] = NULL
      BY <3>1, <3>2 DEF Behind
    <3> QED BY <1>16, <3>1, <3>3, BehindAfter DEF OneStep, Continue
  <2>2. CASE Goto(c, "unlock_next") /\ UNCHANGED <<lprev, queue>>
    <3>1. /\ UNCHANGED <<queue, lprev, next>> /\ pc'[c] \notin TakenPc
          /\ \A d \in Cpus : d # c => pc'[d] = pc[d]
      BY <1>16, <2>2 DEF unlock_tail, Goto, nodevars, localvars, move_tail,
            Return, TypeOK, TakenPc
    <3>2. \A d \in Cpus : pc[d] \in BehindPc => next'[lprev[d]] = NULL
      BY <3>1 DEF Behind
    <3>3. pc'[c] \notin BehindPc
      BY <1>16, <2>2 DEF Goto, TypeOK, BehindPc, StepBPc
    <3> QED BY <1>16, <3>1, <3>2, <3>3, BehindAfter DEF OneStep, Continue
  <2> QED BY <1>16, <2>1, <2>2 DEF unlock_tail, localvars
<1>17. ASSUME NEW c \in Cpus, unlock_next(c) PROVE Behind'
  <2>1. /\ UNCHANGED <<queue, lprev>> /\ next' = [next EXCEPT ![c] = NULL]
        /\ \A d \in Cpus : d # c => pc'[d] = pc[d]
        /\ next[c] = NULL => pc'[c] \notin TakenPc
    BY <1>17 DEF unlock_next, Goto, take_next, TypeOK, TakenPc
  <2>2. \A d \in Cpus : next[d] = NULL => next'[d] = NULL
    BY <2>1 DEF TypeOK
  <2>3. \A d \in Cpus : pc[d] \in BehindPc =>
          next'[lprev[d]] = NULL /\ (lprev[d] # c \/ pc'[c] \notin TakenPc)
    BY <2>1, <2>2, Order DEF Behind
  <2>4. pc'[c] \notin BehindPc
    BY <1>17 DEF unlock_next, Goto, take_next, TypeOK, BehindPc, StepBPc
  <2> QED BY <1>17, <2>1, <2>3, <2>4, BehindAfter DEF OneStep, Continue
<1>18. ASSUME NEW c \in Cpus, unlock_grant(c) PROVE Behind'
  <2>1. /\ UNCHANGED next /\ pc[c] \in TakenPc /\ pc'[c] \notin BehindPc
        /\ \A d \in Cpus : d # c => pc'[d] = pc[d] /\ lprev'[d] = lprev[d]
    BY <1>18 DEF unlock_grant, Goto, Return, TypeOK, TakenPc, BehindPc, StepBPc
  <2>2. \A d \in Cpus : pc[d] \in BehindPc => lprev[d] # c /\ next'[lprev[d]] = NULL
    BY <2>1 DEF Behind
  <2> QED BY <1>18, <2>1, <2>2, BehindAfter DEF OneStep, Continue
<1> QED
  BY <1>0, <1>1, <1>2, <1>3, <1>4, <1>5, <1>6, <1>7, <1>8, <1>9, <1>10, <1>11,
        <1>12, <1>13, <1>14, <1>15, <1>16, <1>17, <1>18 DEF Next, Continue

\* Taken after a step of c: the CPUs that have c behind them, the others, and c.
LEMMA TakenAfter ==
  ASSUME TypeOK, Locals, Queues, Heads, Behind, Taken, NEW c \in Cpus,
         OneStep(c),
         \A d \in Cpus : d # c => pc'[d] = pc[d] /\ lnext'[d] = lnext[d],
         \A d \in Cpus : d # c /\ pc[d] \in TakenPc =>
           lnext[d] # c \/ (UNCHANGED queue /\ pc'[c] \in WaitPc),
         pc'[c] \in TakenPc =>
           /\ Before(queue', c, lnext'[c])
           /\ pc'[lnext'[c]] \in WaitPc
  PROVE  Taken'
<1>1. ASSUME NEW d \in Cpus, d # c, pc[d] \in TakenPc
      PROVE  Before(queue', d, lnext[d]) /\ pc'[lnext[d]] \in WaitPc
  <2>1. Before(queue, d, lnext[d]) /\ pc[lnext[d]] \in WaitPc
    BY <1>1 DEF Taken
  <2>2. lnext[d] \in Cpus
    BY <2>1, Order
  <2>3. CASE lnext[d] = c
    BY <1>1, <2>1, <2>3
  <2>4. CASE lnext[d] # c
    <3>1. Before(queue', d, lnext[d])
      BY <1>1, <2>1, <2>4, StayNeighbours
    <3> QED BY <2>1, <2>2, <2>4, <3>1
  <2> QED BY <2>3, <2>4
<1> QED BY <1>1 DEF Taken

\* A CPU whose next pointer was taken finds prev->next cleared in step A and
\* goes back to waiting, so it is still there to be written to.
LEMMA TakenStep ==
  ASSUME TypeOK, Locals, Queues, Tails, Heads, Nexts, Behind, Taken, Unlinking,
         [Next]_vars
  PROVE  Taken'
<1>0. UNCHANGED vars => Taken'
  BY DEF vars, Taken
<1>1. ASSUME NEW c \in Cpus, NEW l \in Locks, init_node(c, l) PROVE Taken'
  <2>1. /\ pc'[c] \notin TakenPc
        /\ \A d \in Cpus : d # c => pc'[d] = pc[d] /\ lnext'[d] = lnext[d]
    BY <1>1 DEF init_node, Goto, localvars, TypeOK, TakenPc
  <2>2. pc[c] \notin WaitPc
    BY <1>1 DEF init_node, WaitPc
  <2>3. \A d \in Cpus : pc[d] \in TakenPc => lnext[d] # c
    BY <2>2 DEF Taken
  <2> QED BY <1>1, <2>1, <2>3, TakenAfter DEF OneStep, Continue
<1>2. ASSUME NEW c \in Cpus, xchg_tail(c) PROVE Taken'
  <2>1. /\ pc'[c] \notin TakenPc
        /\ \A d \in Cpus : d # c => pc'[d] = pc[d] /\ lnext'[d] = lnext[d]
    BY <1>2 DEF xchg_tail, Goto, nodevars, TypeOK, TakenPc
  <2>2. pc[c] \notin WaitPc
    BY <1>2 DEF xchg_tail, WaitPc
  <2>3. \A d \in Cpus : pc[d] \in TakenPc => lnext[d] # c
    BY <2>2 DEF Taken
  <2> QED BY <1>2, <2>1, <2>3, TakenAfter DEF OneStep, Continue
<1>3. ASSUME NEW c \in Cpus, set_prev(c) PROVE Taken'
  <2>1. /\ pc'[c] \notin TakenPc
        /\ \A d \in Cpus : d # c => pc'[d] = pc[d] /\ lnext'[d] = lnext[d]
    BY <1>3 DEF set_prev, Goto, localvars, TypeOK, TakenPc
  <2>2. pc[c] \notin WaitPc
    BY <1>3 DEF set_prev, WaitPc
  <2>3. \A d \in Cpus : pc[d] \in TakenPc => lnext[d] # c
    BY <2>2 DEF Taken
  <2> QED BY <1>3, <2>1, <2>3, TakenAfter DEF OneStep, Continue
<1>4. ASSUME NEW c \in Cpus, link(c) PROVE Taken'
  <2>1. /\ pc'[c] \notin TakenPc
        /\ \A d \in Cpus : d # c => pc'[d] = pc[d] /\ lnext'[d] = lnext[d]
    BY <1>4 DEF link, Goto, localvars, TypeOK, TakenPc
  <2>2. pc[c] \notin WaitPc
    BY <1>4 DEF link, WaitPc
  <2>3. \A d \in Cpus : pc[d] \in TakenPc => lnext[d] # c
    BY <2>2 DEF Taken
  <2> QED BY <1>4, <2>1, <2>3, TakenAfter DEF OneStep, Continue
<1>5. ASSUME NEW c \in Cpus, wait_locked(c) PROVE Taken'
  <2>1. /\ pc'[c] \notin TakenPc
        /\ \A d \in Cpus : d # c => pc'[d] = pc[d] /\ lnext'[d] = lnext[d]
    BY <1>5 DEF wait_locked, Goto, nodevars, TypeOK, TakenPc
  <2>2. CASE locked[c]
    <3>1. \A d \in Cpus : pc[d] \in TakenPc => lnext[d] # c
      BY <2>2, Order DEF Taken
    <3> QED BY <1>5, <2>1, <3>1, TakenAfter DEF OneStep, Continue
  <2> QED BY <1>5, <2>2 DEF wait_locked
<1>6. ASSUME NEW c \in Cpus, stop_waiting(c) PROVE Taken'
  <2>1. /\ pc'[c] \notin TakenPc
        /\ \A d \in Cpus : d # c => pc'[d] = pc[d] /\ lnext'[d] = lnext[d]
    BY <1>6 DEF stop_waiting, Goto, nodevars, localvars, TypeOK, TakenPc
  <2>2. pc'[c] \in WaitPc /\ UNCHANGED queue
    BY <1>6 DEF stop_waiting, Goto, nodevars, localvars, TypeOK, WaitPc
  <2> QED BY <1>6, <2>1, <2>2, TakenAfter DEF OneStep, Continue
<1>7. ASSUME NEW c \in Cpus, step_a(c) PROVE Taken'
  <2>1. /\ pc'[c] \notin TakenPc
        /\ \A d \in Cpus : d # c => pc'[d] = pc[d] /\ lnext'[d] = lnext[d]
    BY <1>7 DEF step_a, Goto, localvars, TypeOK, TakenPc
  <2>2. CASE next[lprev[c]] = c
    <3>1. /\ lprev[c] \in Cpus /\ c # NULL
      BY <1>7, Encoding DEF step_a, Locals, TryPc, WaitPc
    <3>2. /\ Before(queue, lprev[c], c) /\ pc[lprev[c]] \notin TakenPc
      BY <2>2, <3>1 DEF Nexts
    <3>3. \A d \in Cpus : pc[d] \in TakenPc => lnext[d] # c
      BY <3>2, Order DEF Taken
    <3> QED BY <1>7, <2>1, <3>3, TakenAfter DEF OneStep, Continue
  <2>3. CASE next[lprev[c]] # c
    <3>1. pc'[c] \in WaitPc /\ UNCHANGED queue
      BY <1>7, <2>3 DEF step_a, Goto, localvars, TypeOK, WaitPc
    <3> QED BY <1>7, <2>1, <3>1, TakenAfter DEF OneStep, Continue
  <2> QED BY <2>2, <2>3
<1>8. ASSUME NEW c \in Cpus, step_a_locked(c) PROVE Taken'
  <2>1. /\ pc'[c] \notin TakenPc
        /\ \A d \in Cpus : d # c => pc'[d] = pc[d] /\ lnext'[d] = lnext[d]
    BY <1>8 DEF step_a_locked, Goto, nodevars, TypeOK, TakenPc
  <2>2. CASE locked[c]
    <3>1. \A d \in Cpus : pc[d] \in TakenPc => lnext[d] # c
      BY <2>2, Order DEF Taken
    <3> QED BY <1>8, <2>1, <3>1, TakenAfter DEF OneStep, Continue
  <2>3. CASE ~locked[c]
    <3>1. pc'[c] \in WaitPc /\ UNCHANGED queue
      BY <1>8, <2>3 DEF step_a_locked, Goto, nodevars, TypeOK, WaitPc
    <3> QED BY <1>8, <2>1, <3>1, TakenAfter DEF OneStep, Continue
  <2> QED BY <2>2, <2>3
<1>9. ASSUME NEW c \in Cpus, step_a_prev(c) PROVE Taken'
  <2>1. /\ pc'[c] \notin TakenPc
        /\ \A d \in Cpus : d # c => pc'[d] = pc[d] /\ lnext'[d] = lnext[d]
    BY <1>9 DEF step_a_prev, Goto, nodevars, TypeOK, TakenPc
  <2>2. pc'[c] \in WaitPc /\ UNCHANGED queue
    BY <1>9 DEF step_a_prev, Goto, nodevars, TypeOK, WaitPc
  <2> QED BY <1>9, <2>1, <2>2, TakenAfter DEF OneStep, Continue
<1>10. ASSUME NEW c \in Cpus, step_b_tail(c) PROVE Taken'
  <2>1. /\ pc'[c] \notin TakenPc
        /\ \A d \in Cpus : d # c => pc'[d] = pc[d] /\ lnext'[d] = lnext[d]
    BY <1>10 DEF step_b_tail, Goto, nodevars, localvars, move_tail, Return,
          TypeOK, TakenPc
  <2>2. pc[c] \notin WaitPc
    BY <1>10 DEF step_b_tail, WaitPc
  <2>3. \A d \in Cpus : pc[d] \in TakenPc => lnext[d] # c
    BY <2>2 DEF Taken
  <2> QED BY <1>10, <2>1, <2>3, TakenAfter DEF OneStep, Continue
<1>11. ASSUME NEW c \in Cpus, step_b_next(c) PROVE Taken'
  <2>1. /\ UNCHANGED queue /\ pc[c] \notin WaitPc
        /\ \A d \in Cpus : d # c => pc'[d] = pc[d] /\ lnext'[d] = lnext[d]
        /\ pc'[c] \in TakenPc => next[c] # NULL /\ lnext'[c] = next[c]
    BY <1>11 DEF step_b_next, Goto, take_next, TypeOK, TakenPc, WaitPc
  <2>2. \A d \in Cpus : pc[d] \in TakenPc => lnext[d] # c
    BY <2>1 DEF Taken
  <2>3. next[c] # NULL => /\ Before(queue, c, next[c]) /\ pc[next[c]] \in WaitPc
                          /\ next[c] \in Cpus /\ next[c] # c
    BY Order DEF Nexts
  <2> QED BY <1>11, <2>1, <2>2, <2>3, TakenAfter DEF OneStep, Continue
<1>12. ASSUME NEW c \in Cpus, step_c_prev(c) PROVE Taken'
  <2>1. /\ pc'[c] \notin TakenPc
        /\ \A d \in Cpus : d # c => pc'[d] = pc[d] /\ lnext'[d] = lnext[d]
    BY <1>12 DEF step_c_prev, Goto, localvars, TypeOK, TakenPc
  <2>2. pc[c] \notin WaitPc
    BY <1>12 DEF step_c_prev, WaitPc
  <2>3. \A d \in Cpus : pc[d] \in TakenPc => lnext[d] # c
    BY <2>2 DEF Taken
  <2> QED BY <1>12, <2>1, <2>3, TakenAfter DEF OneStep, Continue
<1>13. ASSUME NEW c \in Cpus, step_c_next(c) PROVE Taken'
  <2>1. /\ pc'[c] \notin TakenPc
        /\ \A d \in Cpus : d # c => pc'[d] = pc[d] /\ lnext'[d] = lnext[d]
    BY <1>13 DEF step_c_next, Goto, Return, TypeOK, TakenPc
  <2>2. pc[c] \notin WaitPc
    BY <1>13 DEF step_c_next, WaitPc
  <2>3. \A d \in Cpus : pc[d] \in TakenPc => lnext[d] # c
    BY <2>2 DEF Taken
  <2> QED BY <1>13, <2>1, <2>3, TakenAfter DEF OneStep, Continue
<1>14. ASSUME NEW c \in Cpus, osq_unlock(c) PROVE Taken'
  <2>1. /\ pc'[c] \notin TakenPc
        /\ \A d \in Cpus : d # c => pc'[d] = pc[d] /\ lnext'[d] = lnext[d]
    BY <1>14 DEF osq_unlock, Goto, nodevars, localvars, move_tail, Return,
          TypeOK, TakenPc
  <2>2. pc[c] \notin WaitPc
    BY <1>14 DEF osq_unlock, WaitPc
  <2>3. \A d \in Cpus : pc[d] \in TakenPc => lnext[d] # c
    BY <2>2 DEF Taken
  <2> QED BY <1>14, <2>1, <2>3, TakenAfter DEF OneStep, Continue
<1>15. ASSUME NEW c \in Cpus, xchg_next(c) PROVE Taken'
  <2>1. /\ UNCHANGED queue /\ pc[c] \notin WaitPc
        /\ \A d \in Cpus : d # c => pc'[d] = pc[d] /\ lnext'[d] = lnext[d]
        /\ pc'[c] \in TakenPc => next[c] # NULL /\ lnext'[c] = next[c]
    BY <1>15 DEF xchg_next, Goto, take_next, TypeOK, TakenPc, WaitPc
  <2>2. \A d \in Cpus : pc[d] \in TakenPc => lnext[d] # c
    BY <2>1 DEF Taken
  <2>3. next[c] # NULL => /\ Before(queue, c, next[c]) /\ pc[next[c]] \in WaitPc
                          /\ next[c] \in Cpus /\ next[c] # c
    BY Order DEF Nexts
  <2> QED BY <1>15, <2>1, <2>2, <2>3, TakenAfter DEF OneStep, Continue
<1>16. ASSUME NEW c \in Cpus, unlock_tail(c) PROVE Taken'
  <2>1. /\ pc'[c] \notin TakenPc
        /\ \A d \in Cpus : d # c => pc'[d] = pc[d] /\ lnext'[d] = lnext[d]
    BY <1>16 DEF unlock_tail, Goto, nodevars, localvars, move_tail, Return,
          TypeOK, TakenPc
  <2>2. pc[c] \notin WaitPc
    BY <1>16 DEF unlock_tail, WaitPc
  <2>3. \A d \in Cpus : pc[d] \in TakenPc => lnext[d] # c
    BY <2>2 DEF Taken
  <2> QED BY <1>16, <2>1, <2>3, TakenAfter DEF OneStep, Continue
<1>17. ASSUME NEW c \in Cpus, unlock_next(c) PROVE Taken'
  <2>1. /\ UNCHANGED queue /\ pc[c] \notin WaitPc
        /\ \A d \in Cpus : d # c => pc'[d] = pc[d] /\ lnext'[d] = lnext[d]
        /\ pc'[c] \in TakenPc => next[c] # NULL /\ lnext'[c] = next[c]
    BY <1>17 DEF unlock_next, Goto, take_next, TypeOK, TakenPc, WaitPc
  <2>2. \A d \in Cpus : pc[d] \in TakenPc => lnext[d] # c
    BY <2>1 DEF Taken
  <2>3. next[c] # NULL => /\ Before(queue, c, next[c]) /\ pc[next[c]] \in WaitPc
                          /\ next[c] \in Cpus /\ next[c] # c
    BY Order DEF Nexts
  <2> QED BY <1>17, <2>1, <2>2, <2>3, TakenAfter DEF OneStep, Continue
<1>18. ASSUME NEW c \in Cpus, unlock_grant(c) PROVE Taken'
  <2>1. /\ pc'[c] \notin TakenPc
        /\ \A d \in Cpus : d # c => pc'[d] = pc[d] /\ lnext'[d] = lnext[d]
    BY <1>18 DEF unlock_grant, Goto, Return, TypeOK, TakenPc
  <2>2. pc[c] \notin WaitPc
    BY <1>18 DEF unlock_grant, WaitPc
  <2>3. \A d \in Cpus : pc[d] \in TakenPc => lnext[d] # c
    BY <2>2 DEF Taken
  <2> QED BY <1>18, <2>1, <2>3, TakenAfter DEF OneStep, Continue
<1> QED
  BY <1>0, <1>1, <1>2, <1>3, <1>4, <1>5, <1>6, <1>7, <1>8, <1>9, <1>10, <1>11,
        <1>12, <1>13, <1>14, <1>15, <1>16, <1>17, <1>18 DEF Next, Continue

\* Unlinking after a step of c.
LEMMA UnlinkingAfter ==
  ASSUME TypeOK, Locals, Queues, Heads, Behind, Unlinking, NEW c \in Cpus,
         OneStep(c),
         \A d \in Cpus : d # c => /\ pc'[d] = pc[d] /\ lock'[d] = lock[d]
                                 /\ lprev'[d] = lprev[d]
                                 /\ lnext'[d] = lnext[d],
         \A d \in Cpus : d # c /\ pc[d] = "step_c_next" =>
           /\ next'[lprev[d]] = NULL
           /\ lprev[d] # c \/ (UNCHANGED queue /\ pc'[c] \notin TakenPc /\ lock'[c] = lock[c])
           /\ lnext[d] # c \/ (UNCHANGED queue /\ pc'[c] \in WaitPc),
         pc'[c] # "step_c_next"
  PROVE  Unlinking'
<1>1. ASSUME NEW d \in Cpus, d # c, pc[d] = "step_c_next"
      PROVE  /\ Before(queue', lprev[d], lnext[d]) /\ lock'[lprev[d]] = lock'[d]
             /\ pc'[lprev[d]] \notin TakenPc /\ pc'[lnext[d]] \in WaitPc
  <2>1. /\ Before(queue, lprev[d], lnext[d]) /\ lock[lprev[d]] = lock[d]
        /\ pc[lprev[d]] \notin TakenPc /\ pc[lnext[d]] \in WaitPc
    BY <1>1 DEF Unlinking
  <2>2. lprev[d] \in Cpus /\ lnext[d] \in Cpus
    BY <2>1, Order
  <2>3. Before(queue', lprev[d], lnext[d])
    BY <1>1, <2>1, StayNeighbours
  <2>4. lock'[lprev[d]] = lock'[d] /\ pc'[lprev[d]] \notin TakenPc
    BY <1>1, <2>1, <2>2
  <2>5. pc'[lnext[d]] \in WaitPc
    BY <1>1, <2>1, <2>2
  <2> QED BY <2>3, <2>4, <2>5
<1>2. \A d \in Cpus : pc'[d] = "step_c_next" => d # c /\ pc[d] = "step_c_next"
  OBVIOUS
<1>3. \A d, e \in Cpus :
        pc'[d] = "step_c_next" /\ pc'[e] = "step_c_next" /\ lprev'[e] = lprev'[d] => e = d
  BY <1>2 DEF Unlinking
<1> QED BY <1>1, <1>2, <1>3 DEF Unlinking

\* Between the two stores of step C, both neighbours stay and nobody else
\* writes to prev->next.
LEMMA UnlinkingStep ==
  ASSUME TypeOK, Locals, Queues, Tails, Heads, Nexts, Behind, Taken, Unlinking,
         [Next]_vars
  PROVE  Unlinking'
<1>0. UNCHANGED vars => Unlinking'
  BY DEF vars, Unlinking
<1>1. ASSUME NEW c \in Cpus, NEW l \in Locks, init_node(c, l) PROVE Unlinking'
  <2>1. /\ pc'[c] # "step_c_next"
        /\ \A d \in Cpus : d # c => /\ pc'[d] = pc[d] /\ lock'[d] = lock[d]
                                /\ lprev'[d] = lprev[d] /\ lnext'[d] = lnext[d]
    BY <1>1 DEF init_node, Goto, localvars, TypeOK
  <2>2. next' = [next EXCEPT ![c] = NULL]
    BY <1>1 DEF init_node
  <2>3. \A d \in Cpus : next[d] = NULL => next'[d] = NULL
    BY <2>2 DEF TypeOK
  <2>4. pc[c] \notin QueuedPc /\ pc[c] \notin WaitPc
    BY <1>1 DEF init_node, QueuedPc, HoldPc, UnlockPc, TryPc, WaitPc, StepBPc
  <2>5. \A d \in Cpus : pc[d] = "step_c_next" =>
          next'[lprev[d]] = NULL /\ lnext[d] # c /\ lprev[d] # c
    BY <2>3, <2>4, Order DEF Unlinking
  <2> QED BY <1>1, <2>1, <2>5, UnlinkingAfter DEF OneStep
<1>2. ASSUME NEW c \in Cpus, xchg_tail(c) PROVE Unlinking'
  <2>1. /\ pc'[c] # "step_c_next"
        /\ \A d \in Cpus : d # c => /\ pc'[d] = pc[d] /\ lock'[d] = lock[d]
                                /\ lprev'[d] = lprev[d] /\ lnext'[d] = lnext[d]
    BY <1>2 DEF xchg_tail, Goto, nodevars, TypeOK
  <2>2. \A d \in Cpus : next[d] = NULL => next'[d] = NULL
    BY <1>2 DEF xchg_tail, Goto, nodevars, TypeOK
  <2>3. \A d \in Cpus : pc[d] = "step_c_next" =>
          /\ next'[lprev[d]] = NULL /\ next[lprev[d]] = NULL
          /\ pc[lprev[d]] \in QueuedPc
          /\ pc[lprev[d]] \notin TakenPc /\ Before(queue, lprev[d], lnext[d])
          /\ pc[lnext[d]] \in WaitPc
    BY <2>2, Order DEF Unlinking
  <2>4. pc[c] \notin QueuedPc /\ pc[c] \notin WaitPc
    BY <1>2 DEF xchg_tail, QueuedPc, HoldPc, UnlockPc, TryPc, WaitPc, StepBPc
  <2> QED BY <1>2, <2>1, <2>3, <2>4, UnlinkingAfter DEF OneStep, Continue
<1>3. ASSUME NEW c \in Cpus, set_prev(c) PROVE Unlinking'
  <2>1. /\ pc'[c] # "step_c_next"
        /\ \A d \in Cpus : d # c => /\ pc'[d] = pc[d] /\ lock'[d] = lock[d]
                                /\ lprev'[d] = lprev[d] /\ lnext'[d] = lnext[d]
    BY <1>3 DEF set_prev, Goto, localvars, TypeOK
  <2>2. \A d \in Cpus : next[d] = NULL => next'[d] = NULL
    BY <1>3 DEF set_prev, Goto, localvars, TypeOK
  <2>3. \A d \in Cpus : pc[d] = "step_c_next" =>
          /\ next'[lprev[d]] = NULL /\ next[lprev[d]] = NULL
          /\ pc[lprev[d]] \in QueuedPc
          /\ pc[lprev[d]] \notin TakenPc /\ Before(queue, lprev[d], lnext[d])
          /\ pc[lnext[d]] \in WaitPc
    BY <2>2, Order DEF Unlinking
  <2>4. UNCHANGED <<queue, lock>> /\ pc'[c] \notin TakenPc /\ pc[c] \notin WaitPc
    BY <1>3 DEF set_prev, Goto, localvars, TypeOK, TakenPc, WaitPc
  <2> QED BY <1>3, <2>1, <2>3, <2>4, UnlinkingAfter DEF OneStep, Continue
<1>4. ASSUME NEW c \in Cpus, link(c) PROVE Unlinking'
  <2>1. /\ pc'[c] # "step_c_next"
        /\ \A d \in Cpus : d # c => /\ pc'[d] = pc[d] /\ lock'[d] = lock[d]
                                /\ lprev'[d] = lprev[d] /\ lnext'[d] = lnext[d]
    BY <1>4 DEF link, Goto, localvars, TypeOK
  <2>2. /\ next' = [next EXCEPT ![lprev[c]] = c] /\ Before(queue, lprev[c], c)
        /\ UNCHANGED <<queue, lock>> /\ pc'[c] \notin TakenPc
        /\ pc[c] \notin WaitPc
    BY <1>4 DEF link, Goto, localvars, TypeOK, Behind, BehindPc, TakenPc, WaitPc
  <2>3. ASSUME NEW d \in Cpus, pc[d] = "step_c_next"
        PROVE  next'[lprev[d]] = NULL /\ lnext[d] # c
    <3>1. /\ Before(queue, lprev[d], lnext[d]) /\ pc[lnext[d]] \in WaitPc
          /\ next[lprev[d]] = NULL
      BY <2>3 DEF Unlinking
    <3>2. lprev[d] \in Cpus /\ lprev[d] # lprev[c] /\ lnext[d] # c
      BY <2>2, <3>1, Order
    <3> QED BY <2>2, <3>1, <3>2 DEF TypeOK
  <2> QED BY <1>4, <2>1, <2>2, <2>3, UnlinkingAfter DEF OneStep, Continue
<1>5. ASSUME NEW c \in Cpus, wait_locked(c) PROVE Unlinking'
  <2>1. /\ pc'[c] # "step_c_next"
        /\ \A d \in Cpus : d # c => /\ pc'[d] = pc[d] /\ lock'[d] = lock[d]
                                /\ lprev'[d] = lprev[d] /\ lnext'[d] = lnext[d]
    BY <1>5 DEF wait_locked, Goto, nodevars, TypeOK
  <2>2. \A d \in Cpus : next[d] = NULL => next'[d] = NULL
    BY <1>5 DEF wait_locked, Goto, nodevars, TypeOK
  <2>3. \A d \in Cpus : pc[d] = "step_c_next" =>
          /\ next'[lprev[d]] = NULL /\ next[lprev[d]] = NULL
          /\ pc[lprev[d]] \in QueuedPc
          /\ pc[lprev[d]] \notin TakenPc /\ Before(queue, lprev[d], lnext[d])
          /\ pc[lnext[d]] \in WaitPc
    BY <2>2, Order DEF Unlinking
  <2>4. UNCHANGED <<queue, lock>> /\ pc'[c] \notin TakenPc
    BY <1>5 DEF wait_locked, Goto, nodevars, TypeOK, TakenPc, WaitPc
  <2>5. CASE locked[c]
    <3>1. \A d \in Cpus : pc[d] = "step_c_next" => lnext[d] # c
      BY <2>3, <2>5, Order
    <3> QED BY <1>5, <2>1, <2>3, <2>4, <3>1, UnlinkingAfter DEF OneStep,
          Continue
  <2> QED BY <1>5, <2>5 DEF wait_locked
<1>6. ASSUME NEW c \in Cpus, stop_waiting(c) PROVE Unlinking'
  <2>1. /\ pc'[c] # "step_c_next"
        /\ \A d \in Cpus : d # c => /\ pc'[d] = pc[d] /\ lock'[d] = lock[d]
                                /\ lprev'[d] = lprev[d] /\ lnext'[d] = lnext[d]
    BY <1>6 DEF stop_waiting, Goto, nodevars, localvars, TypeOK
  <2>2. \A d \in Cpus : next[d] = NULL => next'[d] = NULL
    BY <1>6 DEF stop_waiting, Goto, nodevars, localvars, TypeOK
  <2>3. \A d \in Cpus : pc[d] = "step_c_next" =>
          /\ next'[lprev[d]] = NULL /\ next[lprev[d]] = NULL
          /\ pc[lprev[d]] \in QueuedPc
          /\ pc[lprev[d]] \notin TakenPc /\ Before(queue, lprev[d], lnext[d])
          /\ pc[lnext[d]] \in WaitPc
    BY <2>2, Order DEF Unlinking
  <2>4. UNCHANGED <<queue, lock>> /\ pc'[c] \notin TakenPc /\ pc'[c] \in WaitPc
    BY <1>6 DEF stop_waiting, Goto, nodevars, localvars, TypeOK, TakenPc, WaitPc
  <2> QED BY <1>6, <2>1, <2>3, <2>4, UnlinkingAfter DEF OneStep, Continue
<1>7. ASSUME NEW c \in Cpus, step_a(c) PROVE Unlinking'
  <2>1. /\ pc'[c] # "step_c_next"
        /\ \A d \in Cpus : d # c => /\ pc'[d] = pc[d] /\ lock'[d] = lock[d]
                                /\ lprev'[d] = lprev[d] /\ lnext'[d] = lnext[d]
    BY <1>7 DEF step_a, Goto, localvars, TypeOK
  <2>2. \A d \in Cpus : next[d] = NULL => next'[d] = NULL
    BY <1>7 DEF step_a, Goto, localvars, TypeOK
  <2>3. \A d \in Cpus : pc[d] = "step_c_next" =>
          /\ next'[lprev[d]] = NULL /\ next[lprev[d]] = NULL
          /\ lprev[d] \in Cpus /\ Before(queue, lprev[d], lnext[d])
    BY <2>2, Order DEF Unlinking
  <2>4. UNCHANGED <<queue, lock>> /\ pc'[c] \notin TakenPc
    BY <1>7 DEF step_a, Goto, localvars, TypeOK, TakenPc
  <2>5. CASE next[lprev[c]] = c
    <3>1. /\ lprev[c] \in Cpus /\ c # NULL
      BY <1>7, Encoding DEF step_a, Locals, TryPc, WaitPc
    <3>2. Before(queue, lprev[c], c) /\ next[lprev[c]] # NULL
      BY <2>5, <3>1 DEF Nexts
    <3>3. \A d \in Cpus : pc[d] = "step_c_next" => lnext[d] # c
      BY <2>3, <3>2, Order
    <3> QED BY <1>7, <2>1, <2>3, <2>4, <3>3, UnlinkingAfter DEF OneStep,
          Continue
  <2>6. CASE next[lprev[c]] # c
    <3>1. pc'[c] \in WaitPc
      BY <1>7, <2>6 DEF step_a, Goto, localvars, TypeOK, WaitPc
    <3> QED BY <1>7, <2>1, <2>3, <2>4, <3>1, UnlinkingAfter DEF OneStep,
          Continue
  <2> QED BY <2>5, <2>6
<1>8. ASSUME NEW c \in Cpus, step_a_locked(c) PROVE Unlinking'
  <2>1. /\ pc'[c] # "step_c_next"
        /\ \A d \in Cpus : d # c => /\ pc'[d] = pc[d] /\ lock'[d] = lock[d]
                                /\ lprev'[d] = lprev[d] /\ lnext'[d] = lnext[d]
    BY <1>8 DEF step_a_locked, Goto, nodevars, TypeOK
  <2>2. \A d \in Cpus : next[d] = NULL => next'[d] = NULL
    BY <1>8 DEF step_a_locked, Goto, nodevars, TypeOK
  <2>3. \A d \in Cpus : pc[d] = "step_c_next" =>
          /\ next'[lprev[d]] = NULL /\ next[lprev[d]] = NULL
          /\ pc[lprev[d]] \in QueuedPc
          /\ pc[lprev[d]] \notin TakenPc /\ Before(queue, lprev[d], lnext[d])
          /\ pc[lnext[d]] \in WaitPc
    BY <2>2, Order DEF Unlinking
  <2>4. UNCHANGED <<queue, lock>> /\ pc'[c] \notin TakenPc
    BY <1>8 DEF step_a_locked, Goto, nodevars, TypeOK, TakenPc, WaitPc
  <2>5. CASE locked[c]
    <3>1. \A d \in Cpus : pc[d] = "step_c_next" => lnext[d] # c
      BY <2>3, <2>5, Order
    <3> QED BY <1>8, <2>1, <2>3, <2>4, <3>1, UnlinkingAfter DEF OneStep,
          Continue
  <2>6. CASE ~locked[c]
    <3>1. pc'[c] \in WaitPc
      BY <1>8, <2>6 DEF step_a_locked, Goto, nodevars, TypeOK, WaitPc
    <3> QED BY <1>8, <2>1, <2>3, <2>4, <3>1, UnlinkingAfter DEF OneStep,
          Continue
  <2> QED BY <2>5, <2>6
<1>9. ASSUME NEW c \in Cpus, step_a_prev(c) PROVE Unlinking'
  <2>1. /\ pc'[c] # "step_c_next"
        /\ \A d \in Cpus : d # c => /\ pc'[d] = pc[d] /\ lock'[d] = lock[d]
                                /\ lprev'[d] = lprev[d] /\ lnext'[d] = lnext[d]
    BY <1>9 DEF step_a_prev, Goto, nodevars, TypeOK
  <2>2. \A d \in Cpus : next[d] = NULL => next'[d] = NULL
    BY <1>9 DEF step_a_prev, Goto, nodevars, TypeOK
  <2>3. \A d \in Cpus : pc[d] = "step_c_next" =>
          /\ next'[lprev[d]] = NULL /\ next[lprev[d]] = NULL
          /\ pc[lprev[d]] \in QueuedPc
          /\ pc[lprev[d]] \notin TakenPc /\ Before(queue, lprev[d], lnext[d])
          /\ pc[lnext[d]] \in WaitPc
    BY <2>2, Order DEF Unlinking
  <2>4. UNCHANGED <<queue, lock>> /\ pc'[c] \notin TakenPc /\ pc'[c] \in WaitPc
    BY <1>9 DEF step_a_prev, Goto, nodevars, TypeOK, TakenPc, WaitPc
  <2> QED BY <1>9, <2>1, <2>3, <2>4, UnlinkingAfter DEF OneStep, Continue
<1>10. ASSUME NEW c \in Cpus, step_b_tail(c) PROVE Unlinking'
  <2>1. /\ pc'[c] # "step_c_next"
        /\ \A d \in Cpus : d # c => /\ pc'[d] = pc[d] /\ lock'[d] = lock[d]
                                /\ lprev'[d] = lprev[d] /\ lnext'[d] = lnext[d]
    BY <1>10 DEF step_b_tail, Goto, nodevars, localvars, move_tail, Return,
          TypeOK
  <2>2. UNCHANGED next /\ pc[c] \notin WaitPc
    BY <1>10 DEF step_b_tail, Goto, nodevars, localvars, move_tail, Return,
          TypeOK, WaitPc
  <2>3. \A d \in Cpus : pc[d] = "step_c_next" =>
          next'[lprev[d]] = NULL /\ lnext[d] # c /\ Before(queue, lprev[d], lnext[d])
    BY <2>2 DEF Unlinking
  <2>4. CASE move_tail(c, encode_cpu(lprev[c]))
    <3>1. lock[c] \in Locks /\ tail[lock[c]] = encode_cpu(c)
      BY <1>10, <2>4 DEF step_b_tail, move_tail, Locals
    <3>2. \A n : ~Before(queue, c, n)
      BY <3>1, LastTail, NobodyBehind
    <3>3. \A d \in Cpus : pc[d] = "step_c_next" => lprev[d] # c
      BY <2>3, <3>2
    <3> QED BY <1>10, <2>1, <2>3, <3>3, UnlinkingAfter DEF OneStep, Continue
  <2>5. CASE Goto(c, "step_b_next") /\ UNCHANGED <<lock, queue>>
    <3>1. pc'[c] \notin TakenPc
      BY <2>5 DEF Goto, TypeOK, TakenPc
    <3> QED BY <1>10, <2>1, <2>3, <2>5, <3>1, UnlinkingAfter DEF OneStep,
          Continue
  <2> QED BY <1>10, <2>4, <2>5 DEF step_b_tail
<1>11. ASSUME NEW c \in Cpus, step_b_next(c) PROVE Unlinking'
  <2>1. /\ pc'[c] # "step_c_next"
        /\ \A d \in Cpus : d # c => /\ pc'[d] = pc[d] /\ lock'[d] = lock[d]
                                /\ lprev'[d] = lprev[d] /\ lnext'[d] = lnext[d]
    BY <1>11 DEF step_b_next, Goto, take_next, TypeOK
  <2>2. /\ next' = [next EXCEPT ![c] = NULL]
        /\ (next[c] = NULL => pc'[c] \notin TakenPc)
    BY <1>11 DEF step_b_next, Goto, take_next, TypeOK, TakenPc
  <2>3. \A d \in Cpus : next[d] = NULL => next'[d] = NULL
    BY <2>2 DEF TypeOK
  <2>4. UNCHANGED <<queue, lock>> /\ pc[c] \notin WaitPc
    BY <1>11 DEF step_b_next, WaitPc
  <2>5. \A d \in Cpus : pc[d] = "step_c_next" =>
          /\ next'[lprev[d]] = NULL /\ lnext[d] # c
          /\ lprev[d] # c \/ pc'[c] \notin TakenPc
    BY <2>2, <2>3, <2>4, Order DEF Unlinking
  <2> QED BY <1>11, <2>1, <2>4, <2>5, UnlinkingAfter DEF OneStep, Continue
<1>12. ASSUME NEW c \in Cpus, step_c_prev(c) PROVE Unlinking'
  <2>1. /\ UNCHANGED <<next, lock, lprev, lnext>> /\ pc[c] = "step_c_prev"
        /\ pc'[c] = "step_c_next"
        /\ Unqueue(c) /\ \A d \in Cpus : d # c => pc'[d] = pc[d]
    BY <1>12 DEF step_c_prev, Goto, localvars, TypeOK
  <2>2. /\ Before(queue, lprev[c], c) /\ next[lprev[c]] = NULL
        /\ pc[lprev[c]] \notin TakenPc
        /\ Before(queue, c, lnext[c]) /\ pc[lnext[c]] \in WaitPc
    BY <2>1 DEF Behind, BehindPc, Taken, TakenPc
  <2>3. /\ lprev[c] \in Cpus /\ lnext[c] \in Cpus /\ lprev[c] # c
        /\ lnext[c] # c
        /\ lock[lprev[c]] = lock[c]
    BY <2>2, Order
  <2>4. Before(queue', lprev[c], lnext[c])
    BY <2>1, <2>2, GivesUp
  <2>5. pc[c] \notin WaitPc /\ pc[c] \in TakenPc
    BY <2>1 DEF WaitPc, TakenPc
  <2>6. ASSUME NEW d \in Cpus, pc[d] = "step_c_next"
        PROVE  /\ Before(queue', lprev[d], lnext[d]) /\ lock[lprev[d]] = lock[d]
               /\ next[lprev[d]] = NULL /\ pc'[lprev[d]] \notin TakenPc
               /\ pc'[lnext[d]] \in WaitPc /\ lprev[d] # lprev[c] /\ d # c
    <3>1. /\ Before(queue, lprev[d], lnext[d]) /\ lock[lprev[d]] = lock[d]
          /\ next[lprev[d]] = NULL /\ pc[lprev[d]] \notin TakenPc
          /\ pc[lnext[d]] \in WaitPc
      BY <2>6 DEF Unlinking
    <3>2. lprev[d] # c /\ lnext[d] # c /\ lprev[d] \in Cpus /\ lnext[d] \in Cpus
      BY <2>5, <3>1, Order
    <3>3. Before(queue', lprev[d], lnext[d])
      BY <1>12, <3>1, <3>2, StayNeighbours DEF OneStep, Continue
    <3>4. lprev[d] # lprev[c]
      BY <2>2, <3>1, <3>2, Order
    <3> QED BY <2>1, <2>6, <3>1, <3>2, <3>3, <3>4
  <2>7. \A d \in Cpus : pc'[d] = "step_c_next" => d = c \/ pc[d] = "step_c_next"
    BY <2>1
  <2>8. ASSUME NEW d \in Cpus, pc'[d] = "step_c_next", NEW e \in Cpus,
               pc'[e] = "step_c_next", lprev[e] = lprev[d]
        PROVE  e = d
    BY <2>6, <2>7, <2>8 DEF Unlinking
  <2>9. ASSUME NEW d \in Cpus, pc'[d] = "step_c_next"
        PROVE  /\ Before(queue', lprev[d], lnext[d]) /\ lock[lprev[d]] = lock[d]
               /\ next[lprev[d]] = NULL /\ pc'[lprev[d]] \notin TakenPc
               /\ pc'[lnext[d]] \in WaitPc
    <3>1. CASE d = c
      BY <2>1, <2>2, <2>3, <2>4, <3>1
    <3>2. CASE d # c
      BY <2>6, <2>7, <2>9, <3>2
    <3> QED BY <3>1, <3>2
  <2> QED BY <2>1, <2>8, <2>9 DEF Unlinking
<1>13. ASSUME NEW c \in Cpus, step_c_next(c) PROVE Unlinking'
  <2>1. /\ pc'[c] # "step_c_next"
        /\ \A d \in Cpus : d # c => /\ pc'[d] = pc[d] /\ lock'[d] = lock[d]
                                /\ lprev'[d] = lprev[d] /\ lnext'[d] = lnext[d]
    BY <1>13 DEF step_c_next, Goto, Return, TypeOK
  <2>2. /\ next' = [next EXCEPT ![lprev[c]] = lnext[c]] /\ pc[c] = "step_c_next"
    BY <1>13 DEF step_c_next
  <2>3. ASSUME NEW d \in Cpus, d # c, pc[d] = "step_c_next"
        PROVE  next'[lprev[d]] = NULL /\ lnext[d] # c /\ lprev[d] # c
    <3>1. /\ Before(queue, lprev[d], lnext[d]) /\ next[lprev[d]] = NULL
          /\ lprev[d] # lprev[c]
      BY <2>2, <2>3 DEF Unlinking
    <3>2. pc[c] \notin QueuedPc /\ pc[c] \notin TryPc
      BY <2>2 DEF QueuedPc, HoldPc, UnlockPc, TryPc, WaitPc, StepBPc
    <3>3. lprev[d] \in Cpus /\ lprev[d] # c /\ lnext[d] # c
      BY <3>1, <3>2, Order
    <3> QED BY <2>2, <3>1, <3>3 DEF TypeOK
  <2> QED BY <1>13, <2>1, <2>3, UnlinkingAfter DEF OneStep, Continue
<1>14. ASSUME NEW c \in Cpus, osq_unlock(c) PROVE Unlinking'
  <2>1. /\ pc'[c] # "step_c_next"
        /\ \A d \in Cpus : d # c => /\ pc'[d] = pc[d] /\ lock'[d] = lock[d]
                                /\ lprev'[d] = lprev[d] /\ lnext'[d] = lnext[d]
    BY <1>14 DEF osq_unlock, Goto, nodevars, localvars, move_tail, Return,
          TypeOK
  <2>2. UNCHANGED next /\ pc[c] \notin WaitPc
    BY <1>14 DEF osq_unlock, Goto, nodevars, localvars, move_tail, Return,
          TypeOK, WaitPc
  <2>3. \A d \in Cpus : pc[d] = "step_c_next" =>
          next'[lprev[d]] = NULL /\ lnext[d] # c /\ Before(queue, lprev[d], lnext[d])
    BY <2>2 DEF Unlinking
  <2>4. CASE move_tail(c, OSQ_UNLOCKED_VAL)
    <3>1. lock[c] \in Locks /\ tail[lock[c]] = encode_cpu(c)
      BY <1>14, <2>4 DEF osq_unlock, move_tail, Locals
    <3>2. \A n : ~Before(queue, c, n)
      BY <3>1, LastTail, NobodyBehind
    <3>3. \A d \in Cpus : pc[d] = "step_c_next" => lprev[d] # c
      BY <2>3, <3>2
    <3> QED BY <1>14, <2>1, <2>3, <3>3, UnlinkingAfter DEF OneStep, Continue
  <2>5. CASE Goto(c, "xchg_next") /\ UNCHANGED <<lock, queue>>
    <3>1. pc'[c] \notin TakenPc
      BY <2>5 DEF Goto, TypeOK, TakenPc
    <3> QED BY <1>14, <2>1, <2>3, <2>5, <3>1, UnlinkingAfter DEF OneStep,
          Continue
  <2> QED BY <1>14, <2>4, <2>5 DEF osq_unlock
<1>15. ASSUME NEW c \in Cpus, xchg_next(c) PROVE Unlinking'
  <2>1. /\ pc'[c] # "step_c_next"
        /\ \A d \in Cpus : d # c => /\ pc'[d] = pc[d] /\ lock'[d] = lock[d]
                                /\ lprev'[d] = lprev[d] /\ lnext'[d] = lnext[d]
    BY <1>15 DEF xchg_next, Goto, take_next, TypeOK
  <2>2. /\ next' = [next EXCEPT ![c] = NULL]
        /\ (next[c] = NULL => pc'[c] \notin TakenPc)
    BY <1>15 DEF xchg_next, Goto, take_next, TypeOK, TakenPc
  <2>3. \A d \in Cpus : next[d] = NULL => next'[d] = NULL
    BY <2>2 DEF TypeOK
  <2>4. UNCHANGED <<queue, lock>> /\ pc[c] \notin WaitPc
    BY <1>15 DEF xchg_next, WaitPc
  <2>5. \A d \in Cpus : pc[d] = "step_c_next" =>
          /\ next'[lprev[d]] = NULL /\ lnext[d] # c
          /\ lprev[d] # c \/ pc'[c] \notin TakenPc
    BY <2>2, <2>3, <2>4, Order DEF Unlinking
  <2> QED BY <1>15, <2>1, <2>4, <2>5, UnlinkingAfter DEF OneStep, Continue
<1>16. ASSUME NEW c \in Cpus, unlock_tail(c) PROVE Unlinking'
  <2>1. /\ pc'[c] # "step_c_next"
        /\ \A d \in Cpus : d # c => /\ pc'[d] = pc[d] /\ lock'[d] = lock[d]
                                /\ lprev'[d] = lprev[d] /\ lnext'[d] = lnext[d]
    BY <1>16 DEF unlock_tail, Goto, nodevars, localvars, move_tail, Return,
          TypeOK
  <2>2. UNCHANGED next /\ pc[c] \notin WaitPc
    BY <1>16 DEF unlock_tail, Goto, nodevars, localvars, move_tail, Return,
          TypeOK, WaitPc
  <2>3. \A d \in Cpus : pc[d] = "step_c_next" =>
          next'[lprev[d]] = NULL /\ lnext[d] # c /\ Before(queue, lprev[d], lnext[d])
    BY <2>2 DEF Unlinking
  <2>4. CASE move_tail(c, OSQ_UNLOCKED_VAL)
    <3>1. lock[c] \in Locks /\ tail[lock[c]] = encode_cpu(c)
      BY <1>16, <2>4 DEF unlock_tail, move_tail, Locals
    <3>2. \A n : ~Before(queue, c, n)
      BY <3>1, LastTail, NobodyBehind
    <3>3. \A d \in Cpus : pc[d] = "step_c_next" => lprev[d] # c
      BY <2>3, <3>2
    <3> QED BY <1>16, <2>1, <2>3, <3>3, UnlinkingAfter DEF OneStep, Continue
  <2>5. CASE Goto(c, "unlock_next") /\ UNCHANGED <<lock, queue>>
    <3>1. pc'[c] \notin TakenPc
      BY <2>5 DEF Goto, TypeOK, TakenPc
    <3> QED BY <1>16, <2>1, <2>3, <2>5, <3>1, UnlinkingAfter DEF OneStep,
          Continue
  <2> QED BY <1>16, <2>4, <2>5 DEF unlock_tail
<1>17. ASSUME NEW c \in Cpus, unlock_next(c) PROVE Unlinking'
  <2>1. /\ pc'[c] # "step_c_next"
        /\ \A d \in Cpus : d # c => /\ pc'[d] = pc[d] /\ lock'[d] = lock[d]
                                /\ lprev'[d] = lprev[d] /\ lnext'[d] = lnext[d]
    BY <1>17 DEF unlock_next, Goto, take_next, TypeOK
  <2>2. /\ next' = [next EXCEPT ![c] = NULL]
        /\ (next[c] = NULL => pc'[c] \notin TakenPc)
    BY <1>17 DEF unlock_next, Goto, take_next, TypeOK, TakenPc
  <2>3. \A d \in Cpus : next[d] = NULL => next'[d] = NULL
    BY <2>2 DEF TypeOK
  <2>4. UNCHANGED <<queue, lock>> /\ pc[c] \notin WaitPc
    BY <1>17 DEF unlock_next, WaitPc
  <2>5. \A d \in Cpus : pc[d] = "step_c_next" =>
          /\ next'[lprev[d]] = NULL /\ lnext[d] # c
          /\ lprev[d] # c \/ pc'[c] \notin TakenPc
    BY <2>2, <2>3, <2>4, Order DEF Unlinking
  <2> QED BY <1>17, <2>1, <2>4, <2>5, UnlinkingAfter DEF OneStep, Continue
<1>18. ASSUME NEW c \in Cpus, unlock_grant(c) PROVE Unlinking'
  <2>1. /\ pc'[c] # "step_c_next"
        /\ \A d \in Cpus : d # c => /\ pc'[d] = pc[d] /\ lock'[d] = lock[d]
                                /\ lprev'[d] = lprev[d] /\ lnext'[d] = lnext[d]
    BY <1>18 DEF unlock_grant, Goto, Return, TypeOK
  <2>2. UNCHANGED next /\ pc[c] \in TakenPc /\ pc[c] \notin WaitPc
    BY <1>18 DEF unlock_grant, TakenPc, WaitPc
  <2>3. \A d \in Cpus : pc[d] = "step_c_next" =>
          next'[lprev[d]] = NULL /\ lnext[d] # c /\ lprev[d] # c
    BY <2>2 DEF Unlinking
  <2> QED BY <1>18, <2>1, <2>3, UnlinkingAfter DEF OneStep, Continue
<1> QED
  BY <1>0, <1>1, <1>2, <1>3, <1>4, <1>5, <1>6, <1>7, <1>8, <1>9, <1>10, <1>11,
        <1>12, <1>13, <1>14, <1>15, <1>16, <1>17, <1>18 DEF Next, Continue

-----------------------------------------------------------------------------
(***************************************************************************)
(* The invariant holds.                                                     *)
(***************************************************************************)
\* The invariant holds at the beginning,
LEMMA InitInv == Init => Inv
<1> SUFFICES ASSUME Init PROVE Inv
  OBVIOUS
<1>1. TypeOK
  <2>1. locked \in [Cpus -> BOOLEAN]
    BY DEF Init
  <2>2. tail \in [Locks -> 0 .. NR_CPUS]
    BY Encoding DEF Init
  <2>3. queue \in [Locks -> Seq(Cpus)]
    BY DEF Init
  <2> QED BY <2>1, <2>2, <2>3 DEF Init, TypeOK, PC
<1>2. \A c \in Cpus : pc[c] \notin QueuedPc /\ pc[c] = "idle" /\ next[c] = NULL
  BY DEF Init, QueuedPc, HoldPc, UnlockPc, TryPc, WaitPc, StepBPc
<1>3. \A l \in Locks : queue[l] = <<>>
  BY DEF Init
<1>4. Locals
  BY <1>2 DEF Locals, TryPc, WaitPc, StepBPc
<1>5. Queues
  <2>1. ASSUME NEW l \in Locks PROVE Len(queue[l]) = 0 /\ Range(queue[l]) = {}
    <3>1. queue[l] \in Seq(Cpus)
      BY <1>1 DEF TypeOK
    <3>2. /\ Len(queue[l]) = 0
          /\ Range(queue[l]) = {queue[l][i] : i \in 1 .. Len(queue[l])}
      BY <1>3, <3>1, Queue
    <3> QED BY <3>2
  <2> QED BY <1>2, <2>1 DEF Queues, Distinct
<1>6. Tails
  BY <1>3 DEF Init, Tails
<1>7. Heads /\ Nexts /\ Behind /\ Taken /\ Unlinking
  BY <1>2 DEF Heads, Nexts, Behind, Taken, Unlinking, HoldPc, UnlockPc, TryPc,
        WaitPc, StepBPc, BehindPc, TakenPc
<1> QED BY <1>1, <1>4, <1>5, <1>6, <1>7 DEF Inv

\* and every step keeps it.
LEMMA NextInv == Inv /\ [Next]_vars => Inv'
<1> SUFFICES ASSUME Inv, [Next]_vars PROVE Inv'
  OBVIOUS
<1>1. /\ TypeOK /\ Locals /\ Queues /\ Tails /\ Heads
      /\ Nexts /\ Behind /\ Taken /\ Unlinking
  BY DEF Inv
<1>2. TypeOK' /\ Locals' /\ Queues' /\ Tails' /\ Heads'
  BY <1>1, TypeStep, LocalsStep, QueuesStep, TailsStep, HeadsStep
<1>3. Nexts' /\ Behind' /\ Taken' /\ Unlinking'
  BY <1>1, NextsStep, BehindStep, TakenStep, UnlinkingStep
<1> QED BY <1>2, <1>3 DEF Inv

\* The next pointers of osq_lock.c describe the queue at all times: whoever has
\* taken the pointer between two neighbours is the only one that can unlink
\* there.
THEOREM InvHolds == Spec => []Inv
  BY InitInv, NextInv, PTL DEF Spec

-----------------------------------------------------------------------------
(***************************************************************************)
(* What follows from it.                                                    *)
(***************************************************************************)
\* Every variable of osq_lock() and osq_unlock() keeps its type.
THEOREM TypeCorrect == Spec => []TypeOK
<1>1. Inv => TypeOK
  BY DEF Inv
<1> QED BY <1>1, InvHolds, PTL

\* At most one CPU holds a queue: it is the head of it.
THEOREM MutuallyExclusive == Spec => []MutualExclusion
<1>1. Inv => MutualExclusion
  BY DEF Inv, Heads, MutualExclusion
<1> QED BY <1>1, InvHolds, PTL

\* One node per CPU is enough: a store to the node of another CPU reaches it
\* in the queue for which it was meant, although nobody waits for the stores of
\* the others before it uses its node again.
THEOREM WritesStayInQueue == Spec => []WritesInQueue
<1>1. Inv => WritesInQueue
  <2> SUFFICES ASSUME Inv, NEW c \in Cpus, Target(c) # NULL
               PROVE  Target(c) \in Range(queue[lock[c]])
    BY DEF WritesInQueue
  <2>1. /\ TypeOK /\ Locals /\ Queues /\ Tails /\ Heads
        /\ Nexts /\ Behind /\ Taken /\ Unlinking
    BY DEF Inv
  <2>2. CASE pc[c] = "link"
    <3>1. Before(queue, lprev[c], c)
      BY <2>1, <2>2 DEF Behind, BehindPc
    <3>2. Target(c) = lprev[c]
      BY <2>2 DEF Target
    <3> QED BY <2>1, <3>1, <3>2, Order
  <2>3. CASE pc[c] = "step_c_next"
    <3>1. Before(queue, lprev[c], lnext[c]) /\ lock[lprev[c]] = lock[c]
      BY <2>1, <2>3 DEF Unlinking
    <3>2. Target(c) = lprev[c]
      BY <2>3 DEF Target
    <3> QED BY <2>1, <3>1, <3>2, Order
  <2>4. CASE pc[c] \in {"step_c_prev", "unlock_grant"}
    <3>1. Before(queue, c, lnext[c])
      BY <2>1, <2>4 DEF Taken, TakenPc
    <3>2. Target(c) = lnext[c]
      BY <2>4 DEF Target
    <3> QED BY <2>1, <3>1, <3>2, Order
  <2>5. CASE pc[c] = "step_a" /\ next[lprev[c]] = c
    <3>1. lprev[c] \in Cpus /\ c # NULL
      BY <2>1, <2>5, Encoding DEF Locals, TryPc, WaitPc
    <3>2. Before(queue, lprev[c], c)
      BY <2>1, <2>5, <3>1 DEF Nexts
    <3>3. Target(c) = lprev[c]
      BY <2>5 DEF Target
    <3> QED BY <2>1, <3>2, <3>3, Order
  <2> QED BY <2>2, <2>3, <2>4, <2>5 DEF Target
<1> QED BY <1>1, InvHolds, PTL

-----------------------------------------------------------------------------
(***************************************************************************)
(* The contract.                                                            *)
(***************************************************************************)
\* What the CPUs have been told, after a step of c.
LEMMA PhaseAfter ==
  ASSUME NEW c \in Cpus, \A d \in Cpus : d # c => pc'[d] = pc[d]
  PROVE  /\ Phase' = [Phase EXCEPT ![c] = PhaseOf(pc'[c])]
         /\ Phase[c] = PhaseOf(pc[c])
         /\ PhaseOf(pc'[c]) = PhaseOf(pc[c]) => Phase' = Phase
  BY DEF Phase

\* Every step is a step of OsqSpec or changes nothing that it shows.
LEMMA ContractStep ==
  ASSUME TypeOK, Locals, Queues, Tails, Heads, Behind, [Next]_vars
  PROVE  Contract!Next \/ UNCHANGED Contract!vars
<1>0. UNCHANGED vars => Contract!Next \/ UNCHANGED Contract!vars
  BY DEF vars, Contract!vars, Phase
<1>1. ASSUME NEW c \in Cpus, NEW l \in Locks, init_node(c, l)
      PROVE  Contract!Next \/ UNCHANGED Contract!vars
  <2>1. /\ PhaseOf(pc'[c]) = PhaseOf(pc[c]) /\ UNCHANGED queue
        /\ \A d \in Cpus : d # c => pc'[d] = pc[d]
    BY <1>1 DEF init_node, Goto, localvars, TypeOK, PhaseOf, QueuedPc, HoldPc,
          UnlockPc, TryPc, WaitPc, StepBPc
  <2> QED BY <2>1, PhaseAfter DEF Contract!vars
<1>2. ASSUME NEW c \in Cpus, xchg_tail(c)
      PROVE  Contract!Next \/ UNCHANGED Contract!vars
  <2>1. /\ lock[c] \in Locks /\ PhaseOf(pc[c]) = "out"
        /\ queue' = [queue EXCEPT ![lock[c]] = Append(@, c)]
        /\ \A d \in Cpus : d # c => pc'[d] = pc[d]
    BY <1>2 DEF xchg_tail, Enqueue, Goto, TypeOK, Locals, PhaseOf, QueuedPc,
          HoldPc, UnlockPc, TryPc, WaitPc, StepBPc
  <2>2. tail[lock[c]] = OSQ_UNLOCKED_VAL <=> queue[lock[c]] = <<>>
    BY <2>1, LastTail DEF Tails
  <2>3. PhaseOf(pc'[c]) = IF queue[lock[c]] = <<>> THEN "holding" ELSE "trying"
    BY <1>2, <2>2 DEF xchg_tail, Goto, TypeOK, PhaseOf, QueuedPc, HoldPc,
          UnlockPc, TryPc, WaitPc, StepBPc
  <2>4. Contract!Enter(c, lock[c])
    BY <2>1, <2>3, PhaseAfter DEF Contract!Enter
  <2> QED BY <2>1, <2>4 DEF Contract!Next
<1>3. ASSUME NEW c \in Cpus, set_prev(c)
      PROVE  Contract!Next \/ UNCHANGED Contract!vars
  <2>1. /\ PhaseOf(pc'[c]) = PhaseOf(pc[c]) /\ UNCHANGED queue
        /\ \A d \in Cpus : d # c => pc'[d] = pc[d]
    BY <1>3 DEF set_prev, Goto, localvars, TypeOK, PhaseOf, QueuedPc, HoldPc,
          UnlockPc, TryPc, WaitPc, StepBPc
  <2> QED BY <2>1, PhaseAfter DEF Contract!vars
<1>4. ASSUME NEW c \in Cpus, link(c)
      PROVE  Contract!Next \/ UNCHANGED Contract!vars
  <2>1. /\ PhaseOf(pc'[c]) = PhaseOf(pc[c]) /\ UNCHANGED queue
        /\ \A d \in Cpus : d # c => pc'[d] = pc[d]
    BY <1>4 DEF link, Goto, localvars, TypeOK, PhaseOf, QueuedPc, HoldPc,
          UnlockPc, TryPc, WaitPc, StepBPc
  <2> QED BY <2>1, PhaseAfter DEF Contract!vars
<1>5. ASSUME NEW c \in Cpus, wait_locked(c)
      PROVE  Contract!Next \/ UNCHANGED Contract!vars
  <2>1. CASE locked[c]
    <3>1. /\ lock[c] \in Locks /\ PhaseOf(pc[c]) = "trying" /\ UNCHANGED queue
          /\ PhaseOf(pc'[c]) = "holding" /\ pc[c] \in TryPc
          /\ \A d \in Cpus : d # c => pc'[d] = pc[d]
      BY <1>5, <2>1 DEF wait_locked, Goto, nodevars, TypeOK, Locals, PhaseOf,
            QueuedPc, HoldPc, UnlockPc, TryPc, WaitPc, StepBPc
    <3>2. c = Head(queue[lock[c]]) /\ queue[lock[c]] # <<>>
      BY <2>1, <3>1, InQueue DEF Heads, QueuedPc
    <3>3. Contract!Acquire(c, lock[c])
      BY <3>1, <3>2, PhaseAfter DEF Contract!Acquire
    <3> QED BY <3>1, <3>3 DEF Contract!Next
  <2> QED BY <1>5, <2>1 DEF wait_locked
<1>6. ASSUME NEW c \in Cpus, stop_waiting(c)
      PROVE  Contract!Next \/ UNCHANGED Contract!vars
  <2>1. /\ PhaseOf(pc'[c]) = PhaseOf(pc[c]) /\ UNCHANGED queue
        /\ \A d \in Cpus : d # c => pc'[d] = pc[d]
    BY <1>6 DEF stop_waiting, Goto, nodevars, localvars, TypeOK, PhaseOf,
          QueuedPc, HoldPc, UnlockPc, TryPc, WaitPc, StepBPc
  <2> QED BY <2>1, PhaseAfter DEF Contract!vars
<1>7. ASSUME NEW c \in Cpus, step_a(c)
      PROVE  Contract!Next \/ UNCHANGED Contract!vars
  <2>1. /\ PhaseOf(pc'[c]) = PhaseOf(pc[c]) /\ UNCHANGED queue
        /\ \A d \in Cpus : d # c => pc'[d] = pc[d]
    BY <1>7 DEF step_a, Goto, localvars, TypeOK, PhaseOf, QueuedPc, HoldPc,
          UnlockPc, TryPc, WaitPc, StepBPc
  <2> QED BY <2>1, PhaseAfter DEF Contract!vars
<1>8. ASSUME NEW c \in Cpus, step_a_locked(c)
      PROVE  Contract!Next \/ UNCHANGED Contract!vars
  <2>1. CASE locked[c]
    <3>1. /\ lock[c] \in Locks /\ PhaseOf(pc[c]) = "trying" /\ UNCHANGED queue
          /\ PhaseOf(pc'[c]) = "holding" /\ pc[c] \in TryPc
          /\ \A d \in Cpus : d # c => pc'[d] = pc[d]
      BY <1>8, <2>1 DEF step_a_locked, Goto, nodevars, TypeOK, Locals, PhaseOf,
            QueuedPc, HoldPc, UnlockPc, TryPc, WaitPc, StepBPc
    <3>2. c = Head(queue[lock[c]]) /\ queue[lock[c]] # <<>>
      BY <2>1, <3>1, InQueue DEF Heads, QueuedPc
    <3>3. Contract!Acquire(c, lock[c])
      BY <3>1, <3>2, PhaseAfter DEF Contract!Acquire
    <3> QED BY <3>1, <3>3 DEF Contract!Next
  <2>2. CASE ~locked[c]
    <3>1. /\ PhaseOf(pc'[c]) = PhaseOf(pc[c]) /\ UNCHANGED queue
          /\ \A d \in Cpus : d # c => pc'[d] = pc[d]
      BY <1>8, <2>2 DEF step_a_locked, Goto, nodevars, TypeOK, PhaseOf,
            QueuedPc, HoldPc, UnlockPc, TryPc, WaitPc, StepBPc
    <3> QED BY <3>1, PhaseAfter DEF Contract!vars
  <2> QED BY <2>1, <2>2
<1>9. ASSUME NEW c \in Cpus, step_a_prev(c)
      PROVE  Contract!Next \/ UNCHANGED Contract!vars
  <2>1. /\ PhaseOf(pc'[c]) = PhaseOf(pc[c]) /\ UNCHANGED queue
        /\ \A d \in Cpus : d # c => pc'[d] = pc[d]
    BY <1>9 DEF step_a_prev, Goto, nodevars, TypeOK, PhaseOf, QueuedPc, HoldPc,
          UnlockPc, TryPc, WaitPc, StepBPc
  <2> QED BY <2>1, PhaseAfter DEF Contract!vars
<1>10. ASSUME NEW c \in Cpus, step_b_tail(c)
       PROVE  Contract!Next \/ UNCHANGED Contract!vars
  <2>1. CASE Return(c) /\ Unqueue(c)
    <3>1. /\ Before(queue, lprev[c], c) /\ PhaseOf(pc[c]) = "trying"
          /\ PhaseOf(pc'[c]) = "out"
          /\ \A d \in Cpus : d # c => pc'[d] = pc[d]
      BY <1>10, <2>1 DEF step_b_tail, Return, Goto, TypeOK, Behind, BehindPc,
            PhaseOf, QueuedPc, HoldPc, UnlockPc, TryPc, WaitPc, StepBPc
    <3>2. /\ lock[c] \in Locks
          /\ \E i \in 2 .. Len(queue[lock[c]]) :
               /\ queue[lock[c]][i] = c
               /\ queue' = [queue EXCEPT ![lock[c]] = RemoveAt(queue[lock[c]], i)]
      BY <2>1, <3>1, GivesUp
    <3>3. Contract!GiveUp(c, lock[c])
      BY <3>1, <3>2, PhaseAfter DEF Contract!GiveUp, RemoveAt, Contract!RemoveAt
    <3> QED BY <3>2, <3>3 DEF Contract!Next
  <2>2. CASE Goto(c, "step_b_next") /\ UNCHANGED queue
    <3>1. /\ PhaseOf(pc'[c]) = PhaseOf(pc[c])
          /\ \A d \in Cpus : d # c => pc'[d] = pc[d]
      BY <1>10, <2>2 DEF step_b_tail, Goto, TypeOK, PhaseOf, QueuedPc, HoldPc,
            UnlockPc, TryPc, WaitPc, StepBPc
    <3> QED BY <2>2, <3>1, PhaseAfter DEF Contract!vars
  <2> QED BY <1>10, <2>1, <2>2 DEF step_b_tail
<1>11. ASSUME NEW c \in Cpus, step_b_next(c)
       PROVE  Contract!Next \/ UNCHANGED Contract!vars
  <2>1. /\ PhaseOf(pc'[c]) = PhaseOf(pc[c]) /\ UNCHANGED queue
        /\ \A d \in Cpus : d # c => pc'[d] = pc[d]
    BY <1>11 DEF step_b_next, Goto, take_next, TypeOK, PhaseOf, QueuedPc,
          HoldPc, UnlockPc, TryPc, WaitPc, StepBPc
  <2> QED BY <2>1, PhaseAfter DEF Contract!vars
<1>12. ASSUME NEW c \in Cpus, step_c_prev(c)
       PROVE  Contract!Next \/ UNCHANGED Contract!vars
  <2>1. /\ Before(queue, lprev[c], c) /\ PhaseOf(pc[c]) = "trying"
        /\ PhaseOf(pc'[c]) = "out"
        /\ Unqueue(c) /\ \A d \in Cpus : d # c => pc'[d] = pc[d]
    BY <1>12 DEF step_c_prev, Goto, TypeOK, Behind, BehindPc, PhaseOf,
          QueuedPc, HoldPc, UnlockPc, TryPc, WaitPc, StepBPc
  <2>2. /\ lock[c] \in Locks
        /\ \E i \in 2 .. Len(queue[lock[c]]) :
             /\ queue[lock[c]][i] = c
             /\ queue' = [queue EXCEPT ![lock[c]] = RemoveAt(queue[lock[c]], i)]
    BY <2>1, GivesUp
  <2>3. Contract!GiveUp(c, lock[c])
    BY <2>1, <2>2, PhaseAfter DEF Contract!GiveUp, RemoveAt, Contract!RemoveAt
  <2> QED BY <2>2, <2>3 DEF Contract!Next
<1>13. ASSUME NEW c \in Cpus, step_c_next(c)
       PROVE  Contract!Next \/ UNCHANGED Contract!vars
  <2>1. /\ PhaseOf(pc'[c]) = PhaseOf(pc[c]) /\ UNCHANGED queue
        /\ \A d \in Cpus : d # c => pc'[d] = pc[d]
    BY <1>13 DEF step_c_next, Goto, Return, TypeOK, PhaseOf, QueuedPc, HoldPc,
          UnlockPc, TryPc, WaitPc, StepBPc
  <2> QED BY <2>1, PhaseAfter DEF Contract!vars
<1>14. ASSUME NEW c \in Cpus, osq_unlock(c)
       PROVE  Contract!Next \/ UNCHANGED Contract!vars
  <2>1. CASE Return(c) /\ Dequeue(c)
    <3>1. /\ lock[c] \in Locks /\ pc[c] \in HoldPc
          /\ queue' = [queue EXCEPT ![lock[c]] = Tail(@)]
          /\ PhaseOf(pc[c]) = "holding" /\ PhaseOf(pc'[c]) = "out"
          /\ \A d \in Cpus : d # c => pc'[d] = pc[d]
      BY <1>14, <2>1 DEF osq_unlock, Dequeue, Return, Goto, TypeOK, Locals,
            PhaseOf, QueuedPc, HoldPc, UnlockPc, TryPc, WaitPc, StepBPc
    <3>2. c = Head(queue[lock[c]]) /\ queue[lock[c]] # <<>>
      BY <3>1, InQueue DEF Heads, QueuedPc
    <3>3. Contract!Release(c, lock[c])
      BY <3>1, <3>2, PhaseAfter DEF Contract!Release
    <3> QED BY <3>1, <3>3 DEF Contract!Next
  <2>2. CASE Goto(c, "xchg_next") /\ UNCHANGED queue
    <3>1. /\ PhaseOf(pc'[c]) = PhaseOf(pc[c])
          /\ \A d \in Cpus : d # c => pc'[d] = pc[d]
      BY <1>14, <2>2 DEF osq_unlock, Goto, TypeOK, PhaseOf, QueuedPc, HoldPc,
            UnlockPc, TryPc, WaitPc, StepBPc
    <3> QED BY <2>2, <3>1, PhaseAfter DEF Contract!vars
  <2> QED BY <1>14, <2>1, <2>2 DEF osq_unlock
<1>15. ASSUME NEW c \in Cpus, xchg_next(c)
       PROVE  Contract!Next \/ UNCHANGED Contract!vars
  <2>1. /\ PhaseOf(pc'[c]) = PhaseOf(pc[c]) /\ UNCHANGED queue
        /\ \A d \in Cpus : d # c => pc'[d] = pc[d]
    BY <1>15 DEF xchg_next, Goto, take_next, TypeOK, PhaseOf, QueuedPc, HoldPc,
          UnlockPc, TryPc, WaitPc, StepBPc
  <2> QED BY <2>1, PhaseAfter DEF Contract!vars
<1>16. ASSUME NEW c \in Cpus, unlock_tail(c)
       PROVE  Contract!Next \/ UNCHANGED Contract!vars
  <2>1. CASE Return(c) /\ Dequeue(c)
    <3>1. /\ lock[c] \in Locks /\ pc[c] \in HoldPc
          /\ queue' = [queue EXCEPT ![lock[c]] = Tail(@)]
          /\ PhaseOf(pc[c]) = "holding" /\ PhaseOf(pc'[c]) = "out"
          /\ \A d \in Cpus : d # c => pc'[d] = pc[d]
      BY <1>16, <2>1 DEF unlock_tail, Dequeue, Return, Goto, TypeOK, Locals,
            PhaseOf, QueuedPc, HoldPc, UnlockPc, TryPc, WaitPc, StepBPc
    <3>2. c = Head(queue[lock[c]]) /\ queue[lock[c]] # <<>>
      BY <3>1, InQueue DEF Heads, QueuedPc
    <3>3. Contract!Release(c, lock[c])
      BY <3>1, <3>2, PhaseAfter DEF Contract!Release
    <3> QED BY <3>1, <3>3 DEF Contract!Next
  <2>2. CASE Goto(c, "unlock_next") /\ UNCHANGED queue
    <3>1. /\ PhaseOf(pc'[c]) = PhaseOf(pc[c])
          /\ \A d \in Cpus : d # c => pc'[d] = pc[d]
      BY <1>16, <2>2 DEF unlock_tail, Goto, TypeOK, PhaseOf, QueuedPc, HoldPc,
            UnlockPc, TryPc, WaitPc, StepBPc
    <3> QED BY <2>2, <3>1, PhaseAfter DEF Contract!vars
  <2> QED BY <1>16, <2>1, <2>2 DEF unlock_tail
<1>17. ASSUME NEW c \in Cpus, unlock_next(c)
       PROVE  Contract!Next \/ UNCHANGED Contract!vars
  <2>1. /\ PhaseOf(pc'[c]) = PhaseOf(pc[c]) /\ UNCHANGED queue
        /\ \A d \in Cpus : d # c => pc'[d] = pc[d]
    BY <1>17 DEF unlock_next, Goto, take_next, TypeOK, PhaseOf, QueuedPc,
          HoldPc, UnlockPc, TryPc, WaitPc, StepBPc
  <2> QED BY <2>1, PhaseAfter DEF Contract!vars
<1>18. ASSUME NEW c \in Cpus, unlock_grant(c)
       PROVE  Contract!Next \/ UNCHANGED Contract!vars
  <2>1. CASE Return(c) /\ Dequeue(c)
    <3>1. /\ lock[c] \in Locks /\ pc[c] \in HoldPc
          /\ queue' = [queue EXCEPT ![lock[c]] = Tail(@)]
          /\ PhaseOf(pc[c]) = "holding" /\ PhaseOf(pc'[c]) = "out"
          /\ \A d \in Cpus : d # c => pc'[d] = pc[d]
      BY <1>18, <2>1 DEF unlock_grant, Dequeue, Return, Goto, TypeOK, Locals,
            PhaseOf, QueuedPc, HoldPc, UnlockPc, TryPc, WaitPc, StepBPc
    <3>2. c = Head(queue[lock[c]]) /\ queue[lock[c]] # <<>>
      BY <3>1, InQueue DEF Heads, QueuedPc
    <3>3. Contract!Release(c, lock[c])
      BY <3>1, <3>2, PhaseAfter DEF Contract!Release
    <3> QED BY <3>1, <3>3 DEF Contract!Next
  <2> QED BY <1>18, <2>1 DEF unlock_grant
<1> QED
  BY <1>0, <1>1, <1>2, <1>3, <1>4, <1>5, <1>6, <1>7, <1>8, <1>9, <1>10, <1>11,
        <1>12, <1>13, <1>14, <1>15, <1>16, <1>17, <1>18 DEF Next, Continue

\* osq_lock() and osq_unlock() keep the promises of OsqSpec: the CPUs get the
\* lock in the order in which they joined, only the head has it, and whoever
\* gives up was not the head.
THEOREM OsqImplemented == Spec => ImplementsOsq
<1>1. Init => Contract!Init
  BY DEF Init, Contract!Init, Phase, PhaseOf, HoldPc, UnlockPc, TryPc, WaitPc,
        StepBPc
<1>2. Inv /\ [Next]_vars => [Contract!Next]_(Contract!vars)
  <2> SUFFICES ASSUME Inv, [Next]_vars PROVE [Contract!Next]_(Contract!vars)
    OBVIOUS
  <2>1. TypeOK /\ Locals /\ Queues /\ Tails /\ Heads /\ Behind
    BY DEF Inv
  <2>2. Contract!Next \/ UNCHANGED Contract!vars
    BY <2>1, ContractStep
  <2> QED BY <2>2
<1> QED BY <1>1, <1>2, InvHolds, PTL DEF Spec, ImplementsOsq, Contract!Spec
=============================================================================
