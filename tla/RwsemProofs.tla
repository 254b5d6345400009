---------------------------- MODULE RwsemProofs ----------------------------
(***************************************************************************)
(* Proofs about Rwsem, for every set of readers and writers.                *)
(*                                                                         *)
(* The inductive invariant has three layers: what a task's place in the     *)
(* code says about its locals (Control) and about wait_lock and the list    *)
(* (Locking, Listed); what the flags of count say about the list (Flags);   *)
(* and what count and owner say about the holders (ReaderCount, Exclusion,   *)
(* Owners).                                                                 *)
(***************************************************************************)
EXTENDS Rwsem, FiniteSetTheorems, WellFoundedInduction, TLAPS

-----------------------------------------------------------------------------
(***************************************************************************)
(* The inductive invariant.                                                 *)
(***************************************************************************)
PC == ReadPc \cup WritePc \cup MarkPc \cup WaitPc \cup OtherPc

\* The calls of rwsem_mark_wake(), by their return label.
Calls ==
  {[type |-> "RWSEM_WAKE_ANY", ret |-> "r_wait"],
   [type |-> "RWSEM_WAKE_READ_OWNED", ret |-> "read"],
   [type |-> "RWSEM_WAKE_ANY", ret |-> "w_try"],
   [type |-> "RWSEM_WAKE_READERS", ret |-> "w_try"],
   [type |-> "RWSEM_WAKE_ANY", ret |-> "idle"]}

\* Between joining and leaving the list as a writer.
WriterPc ==
  {"w_try", "w_spin_owner", "w_relock", "w_asleep", "w_first", "w_count",
   "w_signal", "w_locked"}

\* On the slow path, where the task state to wait in is needed.
SlowPc ==
  {"r_slow", "r_osq", "r_spin", "r_phase", "r_phase_try", "r_add", "r_back",
   "r_queue", "r_enqueue", "w_slow", "w_spin", "w_queue"} \cup WaitPc \cup WriterPc

\* With wait_lock held.
LockedPc ==
  {"mark", "mark_back", "mark_owner", "mark_grant", "r_enqueue", "w_try", "w_locked"}

CountType == [writer : 0..1, waiters : 0..1, handoff : 0..1, readers : Int]

Types ==
  /\ count \in CountType
  /\ owner \in [task : Tasks \cup {NULL}, reader : BOOLEAN]
  /\ wait_lock \in Tasks \cup {NULL}
  /\ osq \in Tasks \cup {NULL}
  /\ wake_q \in [Tasks -> SUBSET Tasks]

TaskTypes ==
  /\ pc \in [Tasks -> PC]
  /\ mode \in [Tasks -> MODES \cup {"none"}]
  /\ state \in [Tasks -> MODES \cup {"TASK_RUNNING"}]
  /\ sig \in [Tasks -> BOOLEAN]
  /\ wstate \in [Tasks -> {"none", "WRITER_NOT_FIRST", "WRITER_FIRST", "WRITER_HANDOFF"}]
  /\ call \in [Tasks -> Calls \cup {NoCall}]

\* What the place of a task says about its locals.
Control ==
  \A t \in Tasks :
    /\ call[t] = NoCall <=> pc[t] \notin MarkPc
    /\ IsWriter(t) <=> pc[t] \in WriterPc \/ call[t].ret = "w_try"
    /\ pc[t] \in {"mark_back", "mark_owner"} => call[t].type # "RWSEM_WAKE_READ_OWNED"
    /\ pc[t] \in {"w_first", "w_count"} => wstate[t] # "WRITER_HANDOFF"
    /\ pc[t] \in SlowPc \/ call[t].ret \in {"r_wait", "w_try"} => mode[t] \in MODES

Locking == \A t \in Tasks : wait_lock = t <=> pc[t] \in LockedPc

\* No task is on the list twice.
Distinct(list) == \A i, j \in 1 .. Len(list) : list[i] = list[j] => i = j

\* A reader that waits, or is about to.
WaitsToRead(t) == pc[t] \in WaitPc \/ call[t].ret = "r_wait"

Listed ==
  /\ wait_list \in Seq(Tasks)
  /\ Distinct(wait_list)
  /\ \A t \in Queued : IsWriter(t) \/ WaitsToRead(t)
  /\ \A t \in Tasks :
       /\ IsWriter(t) => t \in Queued
       /\ wstate[t] \in {"WRITER_FIRST", "WRITER_HANDOFF"} => rwsem_first_waiter = t
       /\ pc[t] = "r_enqueue" => wait_list = <<>>
       /\ pc[t] \in {"mark", "mark_back", "mark_owner", "mark_grant"} => wait_list # <<>>
       /\ pc[t] \in {"mark_back", "mark_owner", "mark_grant"} =>
            ~IsWriter(rwsem_first_waiter)

\* WAITERS says that somebody is on the list, the writer that has just taken
\* the lock and is about to leave not included; HANDOFF is set while its writer
\* sleeps or gives up.
Flags ==
  /\ (\A t \in Tasks : pc[t] # "w_locked") => (count.waiters # 0 <=> wait_list # <<>>)
  /\ \A t \in Tasks :
       /\ pc[t] = "w_locked" => (count.waiters # 0 <=> Len(wait_list) # 1)
       /\ pc[t] \in {"w_spin_owner", "w_asleep", "w_signal"} =>
            (wstate[t] = "WRITER_HANDOFF" => count.handoff = 1)

\* The reader count counts the holders and the biases to be taken back.
ReaderCount == count.readers = Cardinality(ReadHolders) + Cardinality(Transient)

\* The writer bit is that of the only writer; it excludes the readers, those
\* about to be granted the lock included.
Exclusion ==
  /\ count.writer = 0 <=> WriteHolders = {}
  /\ \A t, u \in WriteHolders : t = u
  /\ count.writer # 0 => ReadHolders = {}
  /\ \A t \in Tasks : pc[t] \in {"mark_owner", "mark_grant"} => count.writer = 0

Owners ==
  /\ \A t \in Tasks : pc[t] = "write" => owner = [task |-> t, reader |-> FALSE]
  /\ \A t \in ReadHolders : pc[t] \notin {"r_owner", "d_owner_wake"} => owner.reader
  /\ \A t \in Tasks : pc[t] = "mark_grant" => owner.reader

Inv ==
  /\ Types /\ TaskTypes /\ Control /\ Locking /\ Listed /\ Flags
  /\ ReaderCount /\ Exclusion /\ Owners

-----------------------------------------------------------------------------
(***************************************************************************)
(* Lists.                                                                   *)
(***************************************************************************)
\* The tasks on a list.
Elements(list) == {list[i] : i \in 1 .. Len(list)}

\* A set of natural numbers has a least element.
LEMMA Least ==
  ASSUME NEW S \in SUBSET Nat, S # {}
  PROVE  \E n \in S : \A m \in S : n <= m
<1>1. PICK x \in S : \A y \in S : ~(<<y, x>> \in OpToRel(<, Nat))
  BY NatLessThanWellFounded, WFMin
<1>2. \A y \in S : ~(y < x)
  BY <1>1 DEF OpToRel
<1> QED BY <1>2

\* What holds of 0 and carries over from i - 1 to i holds up to n.
LEMMA UpTo ==
  ASSUME NEW n \in Nat, NEW S \in SUBSET (0 .. n), 0 \in S,
         \A i \in 1 .. n : i - 1 \in S => i \in S
  PROVE  S = 0 .. n
<1> SUFFICES ASSUME (0 .. n) \ S # {} PROVE FALSE
  OBVIOUS
<1>1. PICK i \in (0 .. n) \ S : \A m \in (0 .. n) \ S : i <= m
  <2>1. (0 .. n) \ S \in SUBSET Nat
    OBVIOUS
  <2> QED BY <2>1, Least
<1>2. i \in 1 .. n /\ i - 1 \in 0 .. n
  OBVIOUS
<1>3. i - 1 \in S
  BY <1>1, <1>2
<1> QED BY <1>2, <1>3

\* The recursion of Without(), up to the entry n.
Filters(kept, list, ts, n) ==
  kept = [i \in 0 .. n |->
            IF i = 0 THEN <<>>
            ELSE IF list[i] \in ts THEN kept[i - 1] ELSE Append(kept[i - 1], list[i])]

\* There is a function that satisfies it.
LEMMA FilterExists ==
  ASSUME NEW list, NEW ts, NEW n \in Nat
  PROVE  \E kept : Filters(kept, list, ts, n)
<1> DEFINE S == {m \in 0 .. n : \E kept : Filters(kept, list, ts, m)}
<1>1. 0 \in S
  <2> DEFINE k == [i \in 0 .. 0 |-> <<>>]
  <2>1. Filters(k, list, ts, 0)
    BY DEF Filters
  <2> QED BY <2>1
<1>2. ASSUME NEW m \in 1 .. n, m - 1 \in S PROVE m \in S
  <2>1. PICK k : Filters(k, list, ts, m - 1)
    BY <1>2
  <2> DEFINE last == IF list[m] \in ts THEN k[m - 1] ELSE Append(k[m - 1], list[m])
             f == [i \in 0 .. m |-> IF i = m THEN last ELSE k[i]]
             g == [i \in 0 .. m |->
                     IF i = 0 THEN <<>>
                     ELSE IF list[i] \in ts THEN f[i - 1] ELSE Append(f[i - 1], list[i])]
  <2>2. \A i \in 0 .. m - 1 : f[i] = k[i]
    OBVIOUS
  <2>3. \A i \in 0 .. m - 1 :
          k[i] = IF i = 0 THEN <<>>
                 ELSE IF list[i] \in ts THEN k[i - 1] ELSE Append(k[i - 1], list[i])
    BY <2>1 DEF Filters
  <2>4. ASSUME NEW i \in 0 .. m PROVE f[i] = g[i]
    <3>1. CASE i = m
      <4>1. f[i] = last /\ i # 0 /\ i - 1 \in 0 .. m - 1
        BY <3>1
      <4>2. f[i - 1] = k[m - 1]
        BY <2>2, <3>1, <4>1
      <4> HIDE DEF f
      <4> QED BY <3>1, <4>1, <4>2
    <3>2. CASE i # m
      <4>1. i \in 0 .. m - 1
        BY <3>2
      <4>2. f[i] = k[i] /\ (i # 0 => f[i - 1] = k[i - 1])
        BY <2>2, <4>1
      <4> HIDE DEF f
      <4> QED BY <2>3, <4>1, <4>2
    <3> QED BY <3>1, <3>2
  <2> HIDE DEF last
  <2>5. f = g
    BY <2>4
  <2>6. Filters(f, list, ts, m)
    BY <2>5 DEF Filters
  <2>7. m \in 0 .. n
    OBVIOUS
  <2> QED BY <2>6, <2>7
<1> HIDE DEF S
<1>3. S = 0 .. n
  <2>1. S \in SUBSET (0 .. n)
    BY DEF S
  <2> QED BY <1>1, <1>2, <2>1, UpTo
<1>4. n \in S
  BY <1>3
<1> QED BY <1>4 DEF S

\* Appending keeps the elements and the head.
LEMMA AppendList ==
  ASSUME NEW list \in Seq(Tasks), NEW t \in Tasks
  PROVE  /\ Append(list, t) \in Seq(Tasks)
         /\ Len(Append(list, t)) = Len(list) + 1
         /\ Append(list, t) # <<>>
         /\ Elements(Append(list, t)) = Elements(list) \cup {t}
         /\ list # <<>> => Head(Append(list, t)) = Head(list)
         /\ list = <<>> => Head(Append(list, t)) = t
         /\ Distinct(list) /\ t \notin Elements(list) => Distinct(Append(list, t))
<1> DEFINE n == Len(list)
           a == Append(list, t)
<1>1. /\ n \in Nat
      /\ a \in Seq(Tasks) /\ Len(a) = n + 1
      /\ \A i \in 1 .. n : a[i] = list[i]
      /\ a[n + 1] = t
  OBVIOUS
<1> HIDE DEF a
<1>2. Elements(a) = Elements(list) \cup {t}
  <2>1. ASSUME NEW x \in Elements(a) PROVE x \in Elements(list) \cup {t}
    <3>1. PICK i \in 1 .. n + 1 : x = a[i]
      BY <1>1, <2>1 DEF Elements
    <3>2. i \in 1 .. n \/ i = n + 1
      BY <1>1
    <3> QED BY <1>1, <3>1, <3>2 DEF Elements
  <2>2. ASSUME NEW x \in Elements(list) PROVE x \in Elements(a)
    <3>1. PICK i \in 1 .. n : x = list[i]
      BY <2>2 DEF Elements
    <3>2. i \in 1 .. n + 1 /\ a[i] = x
      BY <1>1, <3>1
    <3> QED BY <1>1, <3>2 DEF Elements
  <2>3. t \in Elements(a)
    <3>1. n + 1 \in 1 .. n + 1
      BY <1>1
    <3> QED BY <1>1, <3>1 DEF Elements
  <2> QED BY <2>1, <2>2, <2>3
<1>3. a # <<>> /\ Head(a) = a[1]
  BY <1>1
<1>4. list # <<>> => 1 \in 1 .. n /\ Head(list) = list[1]
  OBVIOUS
<1>5. list # <<>> => a[1] = list[1]
  BY <1>1, <1>4
<1>6. list = <<>> => a[1] = t
  BY <1>1
<1>7. ASSUME Distinct(list), t \notin Elements(list) PROVE Distinct(a)
  <2>1. \A i \in 1 .. n : list[i] # t
    BY <1>7 DEF Elements
  <2> QED BY <1>1, <1>7, <2>1 DEF Distinct
<1> QED BY <1>1, <1>2, <1>3, <1>4, <1>5, <1>6, <1>7 DEF a

\* What Without() keeps.
LEMMA WithoutList ==
  ASSUME NEW list \in Seq(Tasks), NEW ts
  PROVE  /\ Without(list, ts) \in Seq(Tasks)
         /\ Elements(Without(list, ts)) = Elements(list) \ ts
         /\ Distinct(list) => Distinct(Without(list, ts))
         /\ list # <<>> /\ Head(list) \notin ts => Head(Without(list, ts)) = Head(list)
<1> DEFINE n == Len(list)
           kept == CHOOSE f : Filters(f, list, ts, n)
<1>1. n \in Nat /\ \A i \in 1 .. n : list[i] \in Tasks
  OBVIOUS
<1>2. Filters(kept, list, ts, n)
  BY <1>1, FilterExists
<1>3. Without(list, ts) = kept[n]
  BY DEF Without, Filters
<1> HIDE DEF kept
<1>4. kept[0] = <<>>
  BY <1>1, <1>2 DEF Filters
<1>5. \A i \in 1 .. n :
        kept[i] = IF list[i] \in ts THEN kept[i - 1] ELSE Append(kept[i - 1], list[i])
  <2>1. \A i \in 0 .. n :
          kept[i] = IF i = 0 THEN <<>>
                    ELSE IF list[i] \in ts THEN kept[i - 1]
                                          ELSE Append(kept[i - 1], list[i])
    BY <1>2 DEF Filters
  <2>2. \A i \in 1 .. n : i \in 0 .. n /\ i # 0
    BY <1>1
  <2> HIDE DEF n
  <2> QED BY <2>1, <2>2
<1> DEFINE before(i) == {list[j] : j \in 1 .. i}
           S == {i \in 0 .. n :
                   /\ kept[i] \in Seq(Tasks)
                   /\ Elements(kept[i]) = before(i) \ ts
                   /\ Distinct(list) => Distinct(kept[i])
                   /\ i # 0 /\ Head(list) \notin ts =>
                        kept[i] # <<>> /\ Head(kept[i]) = Head(list)}
<1>6. 0 \in S
  <2>1. before(0) = {} /\ Elements(<<>>) = {}
    BY DEF Elements
  <2>2. <<>> \in Seq(Tasks) /\ Distinct(<<>>)
    BY DEF Distinct
  <2>3. 0 \in 0 .. n
    BY <1>1
  <2> HIDE DEF before
  <2> QED BY <1>4, <2>1, <2>2, <2>3
<1>7. ASSUME NEW i \in 1 .. n, i - 1 \in S PROVE i \in S
  <2>1. PICK l : l = kept[i - 1]
    OBVIOUS
  <2>2. /\ l \in Seq(Tasks) /\ Elements(l) = before(i - 1) \ ts
        /\ Distinct(list) => Distinct(l)
        /\ i - 1 # 0 /\ Head(list) \notin ts => l # <<>> /\ Head(l) = Head(list)
    BY <1>7, <2>1
  <2>3. before(i) = before(i - 1) \cup {list[i]}
    <3>1. ASSUME NEW x \in before(i) PROVE x \in before(i - 1) \cup {list[i]}
      <4>1. PICK j \in 1 .. i : x = list[j]
        BY <3>1
      <4>2. j = i \/ j \in 1 .. i - 1
        OBVIOUS
      <4> QED BY <4>1, <4>2
    <3>2. ASSUME NEW x \in before(i - 1) PROVE x \in before(i)
      <4>1. PICK j \in 1 .. i - 1 : x = list[j]
        BY <3>2
      <4>2. j \in 1 .. i
        OBVIOUS
      <4> QED BY <4>1, <4>2
    <3>3. list[i] \in before(i)
      <4>1. i \in 1 .. i
        OBVIOUS
      <4> QED BY <4>1
    <3> QED BY <3>1, <3>2, <3>3
  <2>4. i - 1 = 0 => before(i - 1) = {} /\ Head(list) = list[i]
    OBVIOUS
  <2>5. Distinct(list) => list[i] \notin before(i - 1)
    <3> SUFFICES ASSUME Distinct(list), NEW j \in 1 .. i - 1, list[i] = list[j] PROVE FALSE
      OBVIOUS
    <3>1. i \in 1 .. n /\ j \in 1 .. n /\ j # i
      BY <1>1
    <3> QED BY <3>1 DEF Distinct
  <2>6. i \in 0 .. n /\ i # 0 /\ list[i] \in Tasks
    BY <1>1
  <2> HIDE DEF before
  <2>7. CASE list[i] \in ts
    <3>1. kept[i] = l
      BY <1>5, <2>1, <2>7
    <3>2. Elements(l) = before(i) \ ts
      BY <2>2, <2>3, <2>7
    <3>3. Head(list) \notin ts => i - 1 # 0
      BY <2>4, <2>7
    <3> QED BY <2>2, <2>6, <3>1, <3>2, <3>3
  <2>8. CASE list[i] \notin ts
    <3>1. kept[i] = Append(l, list[i])
      BY <1>5, <2>1, <2>8
    <3>2. /\ kept[i] \in Seq(Tasks) /\ kept[i] # <<>>
          /\ Elements(kept[i]) = Elements(l) \cup {list[i]}
          /\ l # <<>> => Head(kept[i]) = Head(l)
          /\ l = <<>> => Head(kept[i]) = list[i]
          /\ Distinct(l) /\ list[i] \notin Elements(l) => Distinct(kept[i])
      BY <2>2, <2>6, <3>1, AppendList
    <3>3. Elements(kept[i]) = before(i) \ ts
      BY <2>2, <2>3, <2>8, <3>2
    <3>4. Distinct(list) => Distinct(kept[i])
      BY <2>2, <2>5, <3>2
    <3>5. Head(list) \notin ts => Head(kept[i]) = Head(list)
      <4>1. i - 1 = 0 => l = <<>>
        BY <1>4, <2>1
      <4> QED BY <2>2, <2>4, <3>2, <4>1
    <3> QED BY <2>6, <3>2, <3>3, <3>4, <3>5
  <2> QED BY <2>7, <2>8
<1>8. S = 0 .. n
  <2>1. S \in SUBSET (0 .. n)
    OBVIOUS
  <2> HIDE DEF S
  <2> QED BY <1>1, <1>6, <1>7, <2>1, UpTo
<1>9. n \in S
  <2>1. n \in 0 .. n
    BY <1>1
  <2> HIDE DEF S
  <2> QED BY <1>8, <2>1
<1>10. before(n) = Elements(list)
  BY DEF Elements
<1>11. list # <<>> => n # 0
  OBVIOUS
<1> HIDE DEF before
<1> QED BY <1>3, <1>9, <1>10, <1>11

\* A list is empty if it has no elements; its head is one of them.
LEMMA ListElements ==
  ASSUME NEW list \in Seq(Tasks)
  PROVE  /\ list = <<>> <=> Elements(list) = {}
         /\ list # <<>> => Head(list) \in Elements(list)
         /\ Elements(list) \subseteq Tasks
<1>1. Len(list) \in Nat /\ \A i \in 1 .. Len(list) : list[i] \in Tasks
  OBVIOUS
<1>2. list # <<>> => 1 \in 1 .. Len(list) /\ Head(list) = list[1]
  OBVIOUS
<1>3. list = <<>> => 1 .. Len(list) = {}
  OBVIOUS
<1> QED BY <1>1, <1>2, <1>3 DEF Elements

\* With one entry there is nothing left without it.
LEMMA LastElement ==
  ASSUME NEW list \in Seq(Tasks), Distinct(list), NEW t \in Elements(list)
  PROVE  Elements(list) \ {t} = {} <=> Len(list) = 1
<1>1. Len(list) \in Nat
  OBVIOUS
<1>2. PICK k \in 1 .. Len(list) : t = list[k]
  BY DEF Elements
<1>3. ASSUME Len(list) # 1 PROVE Elements(list) \ {t} # {}
  <2>1. PICK i \in 1 .. Len(list) : i # k
    <3>1. CASE k = 1
      <4>1. PICK n \in Nat : n = Len(list)
        BY <1>1
      <4>2. n # 1 /\ 1 \in 1 .. n
        BY <1>2, <1>3, <3>1, <4>1
      <4>3. 2 \in 1 .. n
        BY <4>2
      <4> QED BY <3>1, <4>1, <4>3
    <3>2. CASE k # 1
      <4>1. 1 \in 1 .. Len(list)
        BY <1>1, <1>2
      <4> QED BY <3>2, <4>1
    <3> QED BY <3>1, <3>2
  <2>2. list[i] # t
    BY <1>2, <2>1 DEF Distinct
  <2> QED BY <2>1, <2>2 DEF Elements
<1>4. ASSUME Len(list) = 1 PROVE Elements(list) \ {t} = {}
  <2>1. \A i \in 1 .. Len(list) : i = k
    BY <1>2, <1>4
  <2> QED BY <1>2, <2>1 DEF Elements
<1> QED BY <1>3, <1>4

\* Queued is the set of the elements of the list;
LEMMA QueuedElements ==
  wait_list \in Seq(Tasks) => Queued = Elements(wait_list)
<1> SUFFICES ASSUME wait_list \in Seq(Tasks) PROVE Queued = Elements(wait_list)
  OBVIOUS
<1>1. DOMAIN wait_list = 1 .. Len(wait_list)
  OBVIOUS
<1> QED BY <1>1 DEF Queued, Elements

\* it is empty if the list is, and else has the first waiter in it.
LEMMA QueuedTasks ==
  wait_list \in Seq(Tasks) =>
    /\ wait_list = <<>> <=> Queued = {}
    /\ wait_list # <<>> => rwsem_first_waiter \in Queued
    /\ Queued \subseteq Tasks
BY QueuedElements, ListElements DEF rwsem_first_waiter

\* A task joins the list.
LEMMA Joins ==
  ASSUME wait_list \in Seq(Tasks), Distinct(wait_list), NEW t \in Tasks,
         t \notin Queued,
         wait_list' = Append(wait_list, t)
  PROVE  /\ wait_list' \in Seq(Tasks) /\ Distinct(wait_list)'
         /\ wait_list' # <<>>
         /\ Queued' = Queued \cup {t}
         /\ wait_list # <<>> => rwsem_first_waiter' = rwsem_first_waiter
         /\ wait_list = <<>> => rwsem_first_waiter' = t
<1>1. wait_list' \in Seq(Tasks)
  BY AppendList
<1>2. Queued = Elements(wait_list) /\ Queued' = Elements(wait_list')
  <2>0. (wait_list \in Seq(Tasks))'
    BY <1>1
  <2>1. (Queued = Elements(wait_list))'
    BY <2>0, QueuedElements, PTL
  <2> QED BY <2>1, QueuedElements DEF Elements
<1>3. /\ Distinct(wait_list')
      /\ Elements(wait_list') = Elements(wait_list) \cup {t}
  BY <1>2, AppendList
<1> QED BY <1>1, <1>2, <1>3, AppendList DEF rwsem_first_waiter, Distinct

\* Tasks leave the list.
LEMMA Leave ==
  ASSUME wait_list \in Seq(Tasks), Distinct(wait_list), NEW ts,
         wait_list' = Without(wait_list, ts)
  PROVE  /\ wait_list' \in Seq(Tasks) /\ Distinct(wait_list)'
         /\ Queued' = Queued \ ts
         /\ wait_list' = <<>> <=> Queued \ ts = {}
         /\ wait_list # <<>> /\ rwsem_first_waiter \notin ts =>
              rwsem_first_waiter' = rwsem_first_waiter
<1>1. wait_list' \in Seq(Tasks)
  BY WithoutList
<1>2. Queued = Elements(wait_list) /\ Queued' = Elements(wait_list')
  <2>0. (wait_list \in Seq(Tasks))'
    BY <1>1
  <2>1. (Queued = Elements(wait_list))'
    BY <2>0, QueuedElements, PTL
  <2> QED BY <2>1, QueuedElements DEF Elements
<1>3. Distinct(wait_list') /\ Elements(wait_list') = Elements(wait_list) \ ts
  BY <1>2, WithoutList
<1>4. wait_list' = <<>> <=> Elements(wait_list') = {}
  BY <1>1, ListElements
<1>5. wait_list # <<>> /\ Head(wait_list) \notin ts => Head(wait_list') = Head(wait_list)
  BY WithoutList
<1> QED BY <1>1, <1>2, <1>3, <1>4, <1>5 DEF rwsem_first_waiter, Distinct

\* The only task on the list leaves it empty.
LEMMA LeavesAlone ==
  ASSUME wait_list \in Seq(Tasks), Distinct(wait_list), NEW t \in Queued
  PROVE  Queued \ {t} = {} <=> Len(wait_list) = 1
BY QueuedElements, LastElement

\* The readers that rwsem_mark_wake() wakes.
LEMMA WokenReaders ==
  ASSUME wait_list \in Seq(Tasks), Distinct(wait_list)
  PROVE  /\ Woken \subseteq Queued
         /\ \A u \in Woken : ~IsWriter(u)
         /\ IsFiniteSet(Woken) /\ Cardinality(Woken) = NrWoken
<1> DEFINE list == ReadWaiters
           n == NrWoken
<1>1. /\ list \in Seq(Tasks) /\ Distinct(list)
      /\ Elements(list) = Elements(wait_list) \ {t \in Tasks : IsWriter(t)}
  BY WithoutList DEF ReadWaiters
<1>2. /\ Len(list) \in Nat /\ n \in Nat /\ n <= Len(list)
      /\ DOMAIN list = 1 .. Len(list)
  BY <1>1, RwsemAssumption DEF NrWoken
<1>3. {j \in DOMAIN list : j <= MAX_READERS_WAKEUP} = 1 .. n
  BY <1>1, <1>2, RwsemAssumption DEF NrWoken
<1>4. Woken = {list[i] : i \in 1 .. n}
  BY <1>3 DEF Woken
<1> HIDE DEF list, n
<1>5. 1 .. n \subseteq 1 .. Len(list)
  BY <1>2
<1>6. Woken \subseteq Elements(list)
  BY <1>4, <1>5 DEF Elements
<1>7. Elements(list) \subseteq Tasks
  BY <1>1, ListElements
<1>8. Woken \subseteq Queued /\ \A u \in Woken : ~IsWriter(u)
  BY <1>1, <1>6, <1>7, QueuedElements
<1>9. IsFiniteSet(Woken) /\ Cardinality(Woken) = n
  <2> DEFINE f == [i \in 1 .. n |-> list[i]]
  <2>1. f \in Bijection(1 .. n, Woken)
    <3>1. f \in Injection(1 .. n, Woken)
      BY <1>1, <1>4, <1>5 DEF Injection, IsInjective, Distinct
    <3>2. f \in Surjection(1 .. n, Woken)
      BY <1>4 DEF Surjection
    <3> QED BY <3>1, <3>2 DEF Bijection
  <2>2. IsFiniteSet(1 .. n) /\ Cardinality(1 .. n) = n
    <3>1. 1 \in Int /\ n \in Int /\ (1 > n => n = 0)
      BY <1>2
    <3> QED BY <1>2, <3>1, FS_Interval
  <2>3. ExistsBijection(1 .. n, Woken)
    BY <2>1 DEF ExistsBijection
  <2> QED BY <2>2, <2>3, FS_Bijection
<1> QED BY <1>8, <1>9 DEF n

-----------------------------------------------------------------------------
(***************************************************************************)
(* Where the tasks are: locals, wait_lock and the list.                     *)
(***************************************************************************)

\* Every step keeps the types of what is kept for each task,
LEMMA TaskTypesStep ==
  ASSUME TaskTypes, Control, [Next]_vars
  PROVE  TaskTypes'
<1>0. UNCHANGED vars => TaskTypes'
  BY DEF vars, lockvars, listvars, taskvars, wakevars, TaskTypes, Control,
        Calls, NoCall, SlowPc, WriterPc, PC, ReadPc, WritePc, MarkPc, WaitPc,
        OtherPc
<1>1. ASSUME NEW t \in Tasks, mark_first(t) PROVE TaskTypes'
  BY <1>1 DEF mark_first, Marked, wake_q_add, Goto, set_state, add_readers,
        wakevars, TaskTypes, Control, Calls, NoCall, SlowPc, WriterPc, PC,
        ReadPc, WritePc, MarkPc, WaitPc, OtherPc
<1>2. ASSUME NEW t \in Tasks, NEW timeout \in BOOLEAN, mark_back(t, timeout)
      PROVE  TaskTypes'
  BY <1>2 DEF mark_back, Marked, Goto, set_state, TaskTypes, Control, Calls,
        NoCall, SlowPc, WriterPc, PC, ReadPc, WritePc, MarkPc, WaitPc, OtherPc
<1>3. ASSUME NEW t \in Tasks, mark_owner(t) PROVE TaskTypes'
  BY <1>3 DEF mark_owner, Jump, Goto, set_owner, listvars, taskvars, wakevars,
        TaskTypes, Control, Calls, NoCall, SlowPc, WriterPc, PC, ReadPc,
        WritePc, MarkPc, WaitPc, OtherPc
<1>4. ASSUME NEW t \in Tasks, mark_grant(t) PROVE TaskTypes'
  BY <1>4 DEF mark_grant, Marked, wake_q_add, Goto, set_state, TaskTypes,
        Control, Calls, NoCall, SlowPc, WriterPc, PC, ReadPc, WritePc, MarkPc,
        WaitPc, OtherPc
<1>5. ASSUME NEW t \in Tasks, wake_up_q(t) PROVE TaskTypes'
  BY <1>5 DEF wake_up_q, Goto, raw_spin_lock, set_state, lockvars, TaskTypes,
        Control, Calls, NoCall, SlowPc, WriterPc, PC, ReadPc, WritePc, MarkPc,
        WaitPc, OtherPc
<1>6. ASSUME NEW t \in Tasks, NEW m \in MODES, down_read(t, m) PROVE TaskTypes'
  BY <1>6 DEF down_read, add_readers, Goto, listvars, wakevars, TaskTypes,
        Control, Calls, NoCall, SlowPc, WriterPc, PC, ReadPc, WritePc, MarkPc,
        WaitPc, OtherPc
<1>7. ASSUME NEW t \in Tasks, down_read_trylock(t) PROVE TaskTypes'
  BY <1>7 DEF down_read_trylock, Jump, Goto, add_readers, listvars, taskvars,
        wakevars, TaskTypes, Control, Calls, NoCall, SlowPc, WriterPc, PC,
        ReadPc, WritePc, MarkPc, WaitPc, OtherPc
<1>8. ASSUME NEW t \in Tasks, set_reader_owned(t) PROVE TaskTypes'
  <2>1. CASE osq = t
    <3>1. /\ pc' = [pc EXCEPT ![t] = "r_spun"]
          /\ UNCHANGED <<mode, sig, state, wstate, call>>
      BY <1>8, <2>1 DEF set_reader_owned, set_owner, Goto, Return, listvars,
            wakevars
    <3>2. sig' \in [Tasks -> BOOLEAN]
      BY <3>1 DEF TaskTypes
    <3> QED BY <3>1, <3>2 DEF TaskTypes, PC, ReadPc, WritePc, MarkPc, WaitPc,
          OtherPc
  <2>2. CASE ~(osq = t)
    <3>1. /\ pc' = [pc EXCEPT ![t] = "read"]
          /\ mode' = [mode EXCEPT ![t] = "none"]
          /\ sig' = [sig EXCEPT ![t] = FALSE]
          /\ state' = state
          /\ UNCHANGED <<wstate, call>>
      BY <1>8, <2>2 DEF set_reader_owned, set_owner, Goto, Return, listvars,
            wakevars
    <3>2. sig' \in [Tasks -> BOOLEAN]
      BY <3>1 DEF TaskTypes
    <3> QED BY <3>1, <3>2 DEF TaskTypes, PC, ReadPc, WritePc, MarkPc, WaitPc,
          OtherPc
  <2> QED BY <2>1, <2>2
<1>9. ASSUME NEW t \in Tasks, read_undo(t) PROVE TaskTypes'
  BY <1>9 DEF read_undo, Jump, Goto, add_readers, listvars, taskvars, wakevars,
        TaskTypes, Control, Calls, NoCall, SlowPc, WriterPc, PC, ReadPc,
        WritePc, MarkPc, WaitPc, OtherPc
<1>10. ASSUME NEW t \in Tasks, read_osq_lock(t) PROVE TaskTypes'
  BY <1>10 DEF read_osq_lock, Jump, Goto, listvars, taskvars, wakevars,
        TaskTypes, Control, Calls, NoCall, SlowPc, WriterPc, PC, ReadPc,
        WritePc, MarkPc, WaitPc, OtherPc
<1>11. ASSUME NEW t \in Tasks, read_try(t) PROVE TaskTypes'
  BY <1>11 DEF read_try, Jump, Goto, lockvars, listvars, taskvars, wakevars,
        TaskTypes, Control, Calls, NoCall, SlowPc, WriterPc, PC, ReadPc,
        WritePc, MarkPc, WaitPc, OtherPc
<1>11a. ASSUME NEW t \in Tasks, read_phase(t) PROVE TaskTypes'
  BY <1>11a DEF read_phase, Goto, lockvars, listvars, taskvars, wakevars,
        TaskTypes, Control, Calls, NoCall, SlowPc, WriterPc, PC, ReadPc,
        WritePc, MarkPc, WaitPc, OtherPc
<1>12. ASSUME NEW t \in Tasks, read_add(t) PROVE TaskTypes'
  BY <1>12 DEF read_add, Jump, Goto, add_readers, listvars, taskvars, wakevars,
        TaskTypes, Control, Calls, NoCall, SlowPc, WriterPc, PC, ReadPc,
        WritePc, MarkPc, WaitPc, OtherPc
<1>13. ASSUME NEW t \in Tasks, read_back(t) PROVE TaskTypes'
  BY <1>13 DEF read_back, Jump, Goto, add_readers, listvars, taskvars,
        wakevars, TaskTypes, Control, Calls, NoCall, SlowPc, WriterPc, PC,
        ReadPc, WritePc, MarkPc, WaitPc, OtherPc
<1>14. ASSUME NEW t \in Tasks, read_stop_spinning(t) PROVE TaskTypes'
  BY <1>14 DEF read_stop_spinning, Jump, Goto, listvars, taskvars, wakevars,
        TaskTypes, Control, Calls, NoCall, SlowPc, WriterPc, PC, ReadPc,
        WritePc, MarkPc, WaitPc, OtherPc
<1>15. ASSUME NEW t \in Tasks, read_spun(t) PROVE TaskTypes'
  BY <1>15 DEF read_spun, Return, Goto, lockvars, TaskTypes, Control, Calls,
        NoCall, SlowPc, WriterPc, PC, ReadPc, WritePc, MarkPc, WaitPc, OtherPc
<1>16. ASSUME NEW t \in Tasks, read_spun_lock(t) PROVE TaskTypes'
  BY <1>16 DEF read_spun_lock, Goto, MarkWake, lockvars, TaskTypes, Control,
        Calls, NoCall, SlowPc, WriterPc, PC, ReadPc, WritePc, MarkPc, WaitPc,
        OtherPc
<1>17. ASSUME NEW t \in Tasks, read_queue_test(t) PROVE TaskTypes'
  BY <1>17 DEF read_queue_test, Goto, lockvars, taskvars, wakevars, TaskTypes,
        Control, Calls, NoCall, SlowPc, WriterPc, PC, ReadPc, WritePc, MarkPc,
        WaitPc, OtherPc
<1>18. ASSUME NEW t \in Tasks, read_enqueue(t) PROVE TaskTypes'
  BY <1>18 DEF read_enqueue, MarkWake, Goto, taskvars, TaskTypes, Control,
        Calls, NoCall, SlowPc, WriterPc, PC, ReadPc, WritePc, MarkPc, WaitPc,
        OtherPc
<1>19. ASSUME NEW t \in Tasks, read_set_state(t) PROVE TaskTypes'
  BY <1>19 DEF read_set_state, Jump, Goto, set_state, lockvars, listvars,
        wakevars, TaskTypes, Control, Calls, NoCall, SlowPc, WriterPc, PC,
        ReadPc, WritePc, MarkPc, WaitPc, OtherPc
<1>20. ASSUME NEW t \in Tasks, read_check(t) PROVE TaskTypes'
  <2>1. CASE t \in Queued
    <3>1. /\ pc' = [pc EXCEPT ![t] = "r_signal"] \/ pc' = [pc EXCEPT ![t] = "r_asleep"]
          /\ UNCHANGED <<mode, sig, state, wstate, call>>
      BY <1>20, <2>1 DEF read_check, Goto, Return, set_state, taskvars,
            lockvars, listvars, wakevars
    <3>2. sig' \in [Tasks -> BOOLEAN]
      BY <3>1 DEF TaskTypes
    <3> QED BY <3>1, <3>2 DEF TaskTypes, PC, ReadPc, WritePc, MarkPc, WaitPc,
          OtherPc
  <2>2. CASE ~(t \in Queued)
    <3>1. /\ pc' = [pc EXCEPT ![t] = "read"]
          /\ mode' = [mode EXCEPT ![t] = "none"]
          /\ sig' = [sig EXCEPT ![t] = FALSE]
          /\ state' = [state EXCEPT ![t] = "TASK_RUNNING"]
          /\ UNCHANGED <<wstate, call>>
      BY <1>20, <2>2 DEF read_check, Goto, Return, set_state, taskvars,
            lockvars, listvars, wakevars
    <3>2. sig' \in [Tasks -> BOOLEAN]
      BY <3>1 DEF TaskTypes
    <3> QED BY <3>1, <3>2 DEF TaskTypes, PC, ReadPc, WritePc, MarkPc, WaitPc,
          OtherPc
  <2> QED BY <2>1, <2>2
<1>21. ASSUME NEW t \in Tasks, read_schedule(t) PROVE TaskTypes'
  BY <1>21 DEF read_schedule, Jump, Goto, lockvars, listvars, taskvars,
        wakevars, TaskTypes, Control, Calls, NoCall, SlowPc, WriterPc, PC,
        ReadPc, WritePc, MarkPc, WaitPc, OtherPc
<1>22. ASSUME NEW t \in Tasks, read_signal(t) PROVE TaskTypes'
  <2>1. CASE ~(t \in Queued)
    <3>1. /\ pc' = [pc EXCEPT ![t] = "read"]
          /\ mode' = [mode EXCEPT ![t] = "none"]
          /\ sig' = [sig EXCEPT ![t] = FALSE]
          /\ state' = [state EXCEPT ![t] = "TASK_RUNNING"]
          /\ UNCHANGED <<wstate, call>>
      BY <1>22, <2>1 DEF read_signal, set_state, Return, Goto, wakevars
    <3>2. sig' \in [Tasks -> BOOLEAN]
      BY <3>1 DEF TaskTypes
    <3> QED BY <3>1, <3>2 DEF TaskTypes, PC, ReadPc, WritePc, MarkPc, WaitPc,
          OtherPc
  <2>2. CASE t \in Queued
    <3>1. /\ pc' = [pc EXCEPT ![t] = "idle"]
          /\ mode' = [mode EXCEPT ![t] = "none"]
          /\ sig' = [sig EXCEPT ![t] = FALSE]
          /\ state' = [state EXCEPT ![t] = "TASK_RUNNING"]
          /\ UNCHANGED <<wstate, call>>
      BY <1>22, <2>2 DEF read_signal, set_state, Return, Goto, wakevars
    <3>2. sig' \in [Tasks -> BOOLEAN]
      BY <3>1 DEF TaskTypes
    <3> QED BY <3>1, <3>2 DEF TaskTypes, PC, ReadPc, WritePc, MarkPc, WaitPc,
          OtherPc
  <2> QED BY <2>1, <2>2
<1>23. ASSUME NEW t \in Tasks, down_write_fast(t) PROVE TaskTypes'
  BY <1>23 DEF down_write_fast, Jump, Goto, listvars, taskvars, wakevars,
        TaskTypes, Control, Calls, NoCall, SlowPc, WriterPc, PC, ReadPc,
        WritePc, MarkPc, WaitPc, OtherPc
<1>24. ASSUME NEW t \in Tasks, NEW m \in MODES, down_write_slow(t, m)
       PROVE  TaskTypes'
  BY <1>24 DEF down_write_slow, Jump, Goto, lockvars, listvars, wakevars,
        TaskTypes, Control, Calls, NoCall, SlowPc, WriterPc, PC, ReadPc,
        WritePc, MarkPc, WaitPc, OtherPc
<1>25. ASSUME NEW t \in Tasks, set_writer_owned(t) PROVE TaskTypes'
  BY <1>25 DEF set_writer_owned, set_owner, Return, Goto, listvars, wakevars,
        TaskTypes, Control, Calls, NoCall, SlowPc, WriterPc, PC, ReadPc,
        WritePc, MarkPc, WaitPc, OtherPc
<1>26. ASSUME NEW t \in Tasks, write_osq_lock(t) PROVE TaskTypes'
  BY <1>26 DEF write_osq_lock, Jump, Goto, listvars, taskvars, wakevars,
        TaskTypes, Control, Calls, NoCall, SlowPc, WriterPc, PC, ReadPc,
        WritePc, MarkPc, WaitPc, OtherPc
<1>27. ASSUME NEW t \in Tasks, write_try_unqueued(t) PROVE TaskTypes'
  BY <1>27 DEF write_try_unqueued, Jump, Goto, listvars, taskvars, wakevars,
        TaskTypes, Control, Calls, NoCall, SlowPc, WriterPc, PC, ReadPc,
        WritePc, MarkPc, WaitPc, OtherPc
<1>28. ASSUME NEW t \in Tasks, write_stop_spinning(t) PROVE TaskTypes'
  BY <1>28 DEF write_stop_spinning, Jump, Goto, listvars, taskvars, wakevars,
        TaskTypes, Control, Calls, NoCall, SlowPc, WriterPc, PC, ReadPc,
        WritePc, MarkPc, WaitPc, OtherPc
<1>29. ASSUME NEW t \in Tasks, write_enqueue(t) PROVE TaskTypes'
  <2>1. mode[t] \in MODES
    BY <1>29 DEF write_enqueue, Control, SlowPc
  <2>2. /\ pc' \in [Tasks -> PC]
        /\ state' \in [Tasks -> MODES \cup {"TASK_RUNNING"}]
        /\ UNCHANGED <<mode, sig>>
    BY <1>29, <2>1 DEF write_enqueue, Goto, set_state, MarkWake, TaskTypes, PC,
          MarkPc, OtherPc
  <2>3. wstate' \in [Tasks -> {"none", "WRITER_NOT_FIRST", "WRITER_FIRST", "WRITER_HANDOFF"}]
    BY <1>29 DEF write_enqueue, TaskTypes
  <2>4. call' \in [Tasks -> Calls \cup {NoCall}]
    BY <1>29 DEF write_enqueue, MarkWake, TaskTypes, Calls
  <2> QED BY <2>2, <2>3, <2>4 DEF TaskTypes
<1>30. ASSUME NEW t \in Tasks, write_try(t) PROVE TaskTypes'
  BY <1>30 DEF write_try, Goto, Block, set_state, wakevars, TaskTypes, Control,
        Calls, NoCall, SlowPc, WriterPc, PC, ReadPc, WritePc, MarkPc, WaitPc,
        OtherPc
<1>31. ASSUME NEW t \in Tasks, write_locked(t) PROVE TaskTypes'
  BY <1>31 DEF write_locked, set_owner, set_state, Return, Goto, wakevars,
        TaskTypes, Control, Calls, NoCall, SlowPc, WriterPc, PC, ReadPc,
        WritePc, MarkPc, WaitPc, OtherPc
<1>32. ASSUME NEW t \in Tasks, write_spin_on_owner(t) PROVE TaskTypes'
  BY <1>32 DEF write_spin_on_owner, Goto, Block, set_state, lockvars, listvars,
        wakevars, TaskTypes, Control, Calls, NoCall, SlowPc, WriterPc, PC,
        ReadPc, WritePc, MarkPc, WaitPc, OtherPc
<1>33. ASSUME NEW t \in Tasks, write_schedule(t) PROVE TaskTypes'
  BY <1>33 DEF write_schedule, listvars, Jump, Goto, set_state, lockvars,
        wakevars, TaskTypes, Control, Calls, NoCall, SlowPc, WriterPc, PC,
        ReadPc, WritePc, MarkPc, WaitPc, OtherPc
<1>33a. ASSUME NEW t \in Tasks, write_first(t) PROVE TaskTypes'
  BY <1>33a DEF write_first, Jump, Goto, taskvars, lockvars, wakevars,
        TaskTypes, Control, Calls, NoCall, SlowPc, WriterPc, PC, ReadPc,
        WritePc, MarkPc, WaitPc, OtherPc
<1>34. ASSUME NEW t \in Tasks, NEW timeout \in BOOLEAN, write_count(t, timeout)
       PROVE  TaskTypes'
  BY <1>34 DEF write_count, Goto, Block, set_state, lockvars, wakevars,
        TaskTypes, Control, Calls, NoCall, SlowPc, WriterPc, PC, ReadPc,
        WritePc, MarkPc, WaitPc, OtherPc
<1>35. ASSUME NEW t \in Tasks, write_signal(t) PROVE TaskTypes'
  BY <1>35 DEF write_signal, Goto, MarkWake, TaskTypes, Control, Calls, NoCall,
        SlowPc, WriterPc, PC, ReadPc, WritePc, MarkPc, WaitPc, OtherPc
<1>36. ASSUME NEW t \in Tasks, up_read(t) PROVE TaskTypes'
  BY <1>36 DEF up_read, add_readers, Goto, listvars, taskvars, wakevars,
        TaskTypes, Control, Calls, NoCall, SlowPc, WriterPc, PC, ReadPc,
        WritePc, MarkPc, WaitPc, OtherPc
<1>37. ASSUME NEW t \in Tasks, clear_owner(t) PROVE TaskTypes'
  BY <1>37 DEF clear_owner, Jump, Goto, set_owner, listvars, taskvars,
        wakevars, TaskTypes, Control, Calls, NoCall, SlowPc, WriterPc, PC,
        ReadPc, WritePc, MarkPc, WaitPc, OtherPc
<1>38. ASSUME NEW t \in Tasks, up_write(t) PROVE TaskTypes'
  BY <1>38 DEF up_write, Jump, Goto, listvars, taskvars, wakevars, TaskTypes,
        Control, Calls, NoCall, SlowPc, WriterPc, PC, ReadPc, WritePc, MarkPc,
        WaitPc, OtherPc
<1>39. ASSUME NEW t \in Tasks, downgrade_write(t) PROVE TaskTypes'
  BY <1>39 DEF downgrade_write, Jump, Goto, listvars, taskvars, wakevars,
        TaskTypes, Control, Calls, NoCall, SlowPc, WriterPc, PC, ReadPc,
        WritePc, MarkPc, WaitPc, OtherPc
<1>40. ASSUME NEW t \in Tasks, downgrade_owner(t) PROVE TaskTypes'
  BY <1>40 DEF downgrade_owner, Jump, Goto, set_owner, listvars, taskvars,
        wakevars, TaskTypes, Control, Calls, NoCall, SlowPc, WriterPc, PC,
        ReadPc, WritePc, MarkPc, WaitPc, OtherPc
<1>41. ASSUME NEW t \in Tasks, rwsem_wake(t, "wake", "RWSEM_WAKE_ANY", "idle")
       PROVE  TaskTypes'
  BY <1>41 DEF rwsem_wake, Goto, MarkWake, lockvars, taskvars, TaskTypes,
        Control, Calls, NoCall, SlowPc, WriterPc, PC, ReadPc, WritePc, MarkPc,
        WaitPc, OtherPc
<1>42. ASSUME NEW t \in Tasks,
              rwsem_wake(t, "downgrade_wake", "RWSEM_WAKE_READ_OWNED", "read")
       PROVE  TaskTypes'
  BY <1>42 DEF rwsem_wake, Goto, MarkWake, lockvars, taskvars, TaskTypes,
        Control, Calls, NoCall, SlowPc, WriterPc, PC, ReadPc, WritePc, MarkPc,
        WaitPc, OtherPc
<1>43. ASSUME NEW t \in Tasks, signal_wake_up(t) PROVE TaskTypes'
  BY <1>43 DEF signal_wake_up, set_state, lockvars, listvars, wakevars,
        TaskTypes, Control, Calls, NoCall, SlowPc, WriterPc, PC, ReadPc,
        WritePc, MarkPc, WaitPc, OtherPc
<1> QED BY <1>0, <1>1, <1>2, <1>3, <1>4, <1>5, <1>6, <1>7, <1>8, <1>9, <1>10,
      <1>11, <1>11a, <1>12, <1>13, <1>14, <1>15, <1>16, <1>17, <1>18, <1>19,
      <1>20, <1>21, <1>22, <1>23, <1>24, <1>25, <1>26, <1>27, <1>28, <1>29,
      <1>30, <1>31, <1>32, <1>33, <1>33a, <1>34, <1>35, <1>36, <1>37, <1>38,
      <1>39, <1>40, <1>41, <1>42, <1>43 DEF Next, Start, Continue, mark_wake,
      read_step, write_step, unlock_step

\* and its locals fit the place it goes to.
LEMMA ControlStep ==
  ASSUME TaskTypes, Control, [Next]_vars
  PROVE  Control'
<1>0. UNCHANGED vars => Control'
  BY DEF vars, lockvars, listvars, taskvars, wakevars, TaskTypes, Control,
        IsWriter, Calls, NoCall, SlowPc, WriterPc, WaitPc, MarkPc
<1>1. ASSUME NEW t \in Tasks, mark_first(t) PROVE Control'
  BY <1>1 DEF mark_first, Marked, wake_q_add, Goto, set_state, add_readers,
        wakevars, TaskTypes, Control, IsWriter, Calls, NoCall, SlowPc,
        WriterPc, WaitPc, MarkPc
<1>2. ASSUME NEW t \in Tasks, NEW timeout \in BOOLEAN, mark_back(t, timeout)
      PROVE  Control'
  BY <1>2 DEF mark_back, Marked, Goto, set_state, TaskTypes, Control, IsWriter,
        Calls, NoCall, SlowPc, WriterPc, WaitPc, MarkPc
<1>3. ASSUME NEW t \in Tasks, mark_owner(t) PROVE Control'
  BY <1>3 DEF mark_owner, Jump, Goto, set_owner, listvars, taskvars, wakevars,
        TaskTypes, Control, IsWriter, Calls, NoCall, SlowPc, WriterPc, WaitPc,
        MarkPc
<1>4. ASSUME NEW t \in Tasks, mark_grant(t) PROVE Control'
  BY <1>4 DEF mark_grant, Marked, wake_q_add, Goto, set_state, TaskTypes,
        Control, IsWriter, Calls, NoCall, SlowPc, WriterPc, WaitPc, MarkPc
<1>5. ASSUME NEW t \in Tasks, wake_up_q(t) PROVE Control'
  BY <1>5 DEF wake_up_q, Goto, raw_spin_lock, set_state, lockvars, TaskTypes,
        Control, IsWriter, Calls, NoCall, SlowPc, WriterPc, WaitPc, MarkPc
<1>6. ASSUME NEW t \in Tasks, NEW m \in MODES, down_read(t, m) PROVE Control'
  BY <1>6 DEF down_read, add_readers, Goto, listvars, wakevars, TaskTypes,
        Control, IsWriter, Calls, NoCall, SlowPc, WriterPc, WaitPc, MarkPc
<1>7. ASSUME NEW t \in Tasks, down_read_trylock(t) PROVE Control'
  BY <1>7 DEF down_read_trylock, Jump, Goto, add_readers, listvars, taskvars,
        wakevars, TaskTypes, Control, IsWriter, Calls, NoCall, SlowPc,
        WriterPc, WaitPc, MarkPc
<1>8. ASSUME NEW t \in Tasks, set_reader_owned(t) PROVE Control'
  BY <1>8 DEF set_reader_owned, set_owner, Goto, Return, listvars, wakevars,
        TaskTypes, Control, IsWriter, Calls, NoCall, SlowPc, WriterPc, WaitPc,
        MarkPc
<1>9. ASSUME NEW t \in Tasks, read_undo(t) PROVE Control'
  BY <1>9 DEF read_undo, Jump, Goto, add_readers, listvars, taskvars, wakevars,
        TaskTypes, Control, IsWriter, Calls, NoCall, SlowPc, WriterPc, WaitPc,
        MarkPc
<1>10. ASSUME NEW t \in Tasks, read_osq_lock(t) PROVE Control'
  BY <1>10 DEF read_osq_lock, Jump, Goto, listvars, taskvars, wakevars,
        TaskTypes, Control, IsWriter, Calls, NoCall, SlowPc, WriterPc, WaitPc,
        MarkPc
<1>11. ASSUME NEW t \in Tasks, read_try(t) PROVE Control'
  BY <1>11 DEF read_try, Jump, Goto, lockvars, listvars, taskvars, wakevars,
        TaskTypes, Control, IsWriter, Calls, NoCall, SlowPc, WriterPc, WaitPc,
        MarkPc
<1>11a. ASSUME NEW t \in Tasks, read_phase(t) PROVE Control'
  BY <1>11a DEF read_phase, Goto, lockvars, listvars, taskvars, wakevars,
        TaskTypes, Control, IsWriter, Calls, NoCall, SlowPc, WriterPc, WaitPc,
        MarkPc
<1>12. ASSUME NEW t \in Tasks, read_add(t) PROVE Control'
  BY <1>12 DEF read_add, Jump, Goto, add_readers, listvars, taskvars, wakevars,
        TaskTypes, Control, IsWriter, Calls, NoCall, SlowPc, WriterPc, WaitPc,
        MarkPc
<1>13. ASSUME NEW t \in Tasks, read_back(t) PROVE Control'
  BY <1>13 DEF read_back, Jump, Goto, add_readers, listvars, taskvars,
        wakevars, TaskTypes, Control, IsWriter, Calls, NoCall, SlowPc,
        WriterPc, WaitPc, MarkPc
<1>14. ASSUME NEW t \in Tasks, read_stop_spinning(t) PROVE Control'
  BY <1>14 DEF read_stop_spinning, Jump, Goto, listvars, taskvars, wakevars,
        TaskTypes, Control, IsWriter, Calls, NoCall, SlowPc, WriterPc, WaitPc,
        MarkPc
<1>15. ASSUME NEW t \in Tasks, read_spun(t) PROVE Control'
  BY <1>15 DEF read_spun, Return, Goto, lockvars, TaskTypes, Control, IsWriter,
        Calls, NoCall, SlowPc, WriterPc, WaitPc, MarkPc
<1>16. ASSUME NEW t \in Tasks, read_spun_lock(t) PROVE Control'
  BY <1>16 DEF read_spun_lock, Goto, MarkWake, lockvars, TaskTypes, Control,
        IsWriter, Calls, NoCall, SlowPc, WriterPc, WaitPc, MarkPc
<1>17. ASSUME NEW t \in Tasks, read_queue_test(t) PROVE Control'
  BY <1>17 DEF read_queue_test, Goto, lockvars, taskvars, wakevars, TaskTypes,
        Control, IsWriter, Calls, NoCall, SlowPc, WriterPc, WaitPc, MarkPc
<1>18. ASSUME NEW t \in Tasks, read_enqueue(t) PROVE Control'
  BY <1>18 DEF read_enqueue, MarkWake, Goto, taskvars, TaskTypes, Control,
        IsWriter, Calls, NoCall, SlowPc, WriterPc, WaitPc, MarkPc
<1>19. ASSUME NEW t \in Tasks, read_set_state(t) PROVE Control'
  BY <1>19 DEF read_set_state, Jump, Goto, set_state, lockvars, listvars,
        wakevars, TaskTypes, Control, IsWriter, Calls, NoCall, SlowPc,
        WriterPc, WaitPc, MarkPc
<1>20. ASSUME NEW t \in Tasks, read_check(t) PROVE Control'
  BY <1>20 DEF read_check, Goto, Return, set_state, taskvars, lockvars,
        listvars, wakevars, TaskTypes, Control, IsWriter, Calls, NoCall,
        SlowPc, WriterPc, WaitPc, MarkPc
<1>21. ASSUME NEW t \in Tasks, read_schedule(t) PROVE Control'
  BY <1>21 DEF read_schedule, Jump, Goto, lockvars, listvars, taskvars,
        wakevars, TaskTypes, Control, IsWriter, Calls, NoCall, SlowPc,
        WriterPc, WaitPc, MarkPc
<1>22. ASSUME NEW t \in Tasks, read_signal(t) PROVE Control'
  BY <1>22 DEF read_signal, set_state, Return, Goto, wakevars, TaskTypes,
        Control, IsWriter, Calls, NoCall, SlowPc, WriterPc, WaitPc, MarkPc
<1>23. ASSUME NEW t \in Tasks, down_write_fast(t) PROVE Control'
  BY <1>23 DEF down_write_fast, Jump, Goto, listvars, taskvars, wakevars,
        TaskTypes, Control, IsWriter, Calls, NoCall, SlowPc, WriterPc, WaitPc,
        MarkPc
<1>24. ASSUME NEW t \in Tasks, NEW m \in MODES, down_write_slow(t, m)
       PROVE  Control'
  BY <1>24 DEF down_write_slow, Jump, Goto, lockvars, listvars, wakevars,
        TaskTypes, Control, IsWriter, Calls, NoCall, SlowPc, WriterPc, WaitPc,
        MarkPc
<1>25. ASSUME NEW t \in Tasks, set_writer_owned(t) PROVE Control'
  BY <1>25 DEF set_writer_owned, set_owner, Return, Goto, listvars, wakevars,
        TaskTypes, Control, IsWriter, Calls, NoCall, SlowPc, WriterPc, WaitPc,
        MarkPc
<1>26. ASSUME NEW t \in Tasks, write_osq_lock(t) PROVE Control'
  BY <1>26 DEF write_osq_lock, Jump, Goto, listvars, taskvars, wakevars,
        TaskTypes, Control, IsWriter, Calls, NoCall, SlowPc, WriterPc, WaitPc,
        MarkPc
<1>27. ASSUME NEW t \in Tasks, write_try_unqueued(t) PROVE Control'
  BY <1>27 DEF write_try_unqueued, Jump, Goto, listvars, taskvars, wakevars,
        TaskTypes, Control, IsWriter, Calls, NoCall, SlowPc, WriterPc, WaitPc,
        MarkPc
<1>28. ASSUME NEW t \in Tasks, write_stop_spinning(t) PROVE Control'
  BY <1>28 DEF write_stop_spinning, Jump, Goto, listvars, taskvars, wakevars,
        TaskTypes, Control, IsWriter, Calls, NoCall, SlowPc, WriterPc, WaitPc,
        MarkPc
<1>29. ASSUME NEW t \in Tasks, write_enqueue(t) PROVE Control'
  BY <1>29 DEF write_enqueue, raw_spin_lock, Goto, set_state, MarkWake,
        TaskTypes, Control, IsWriter, Calls, NoCall, SlowPc, WriterPc, WaitPc,
        MarkPc
<1>30. ASSUME NEW t \in Tasks, write_try(t) PROVE Control'
  BY <1>30 DEF write_try, Goto, Block, set_state, wakevars, TaskTypes, Control,
        IsWriter, Calls, NoCall, SlowPc, WriterPc, WaitPc, MarkPc
<1>31. ASSUME NEW t \in Tasks, write_locked(t) PROVE Control'
  BY <1>31 DEF write_locked, set_owner, set_state, Return, Goto, wakevars,
        TaskTypes, Control, IsWriter, Calls, NoCall, SlowPc, WriterPc, WaitPc,
        MarkPc
<1>32. ASSUME NEW t \in Tasks, write_spin_on_owner(t) PROVE Control'
  BY <1>32 DEF write_spin_on_owner, Goto, Block, set_state, lockvars, listvars,
        wakevars, TaskTypes, Control, IsWriter, Calls, NoCall, SlowPc,
        WriterPc, WaitPc, MarkPc
<1>33. ASSUME NEW t \in Tasks, write_schedule(t) PROVE Control'
  BY <1>33 DEF write_schedule, listvars, Jump, Goto, set_state, lockvars,
        wakevars, TaskTypes, Control, IsWriter, Calls, NoCall, SlowPc,
        WriterPc, WaitPc, MarkPc
<1>33a. ASSUME NEW t \in Tasks, write_first(t) PROVE Control'
  BY <1>33a DEF write_first, Jump, Goto, taskvars, lockvars, wakevars,
        TaskTypes, Control, IsWriter, Calls, NoCall, SlowPc, WriterPc, WaitPc,
        MarkPc
<1>34. ASSUME NEW t \in Tasks, NEW timeout \in BOOLEAN, write_count(t, timeout)
       PROVE  Control'
  BY <1>34 DEF write_count, Goto, Block, set_state, lockvars, wakevars,
        TaskTypes, Control, IsWriter, Calls, NoCall, SlowPc, WriterPc, WaitPc,
        MarkPc
<1>35. ASSUME NEW t \in Tasks, write_signal(t) PROVE Control'
  BY <1>35 DEF write_signal, Goto, MarkWake, TaskTypes, Control, IsWriter,
        Calls, NoCall, SlowPc, WriterPc, WaitPc, MarkPc
<1>36. ASSUME NEW t \in Tasks, up_read(t) PROVE Control'
  BY <1>36 DEF up_read, add_readers, Goto, listvars, taskvars, wakevars,
        TaskTypes, Control, IsWriter, Calls, NoCall, SlowPc, WriterPc, WaitPc,
        MarkPc
<1>37. ASSUME NEW t \in Tasks, clear_owner(t) PROVE Control'
  BY <1>37 DEF clear_owner, Jump, Goto, set_owner, listvars, taskvars,
        wakevars, TaskTypes, Control, IsWriter, Calls, NoCall, SlowPc,
        WriterPc, WaitPc, MarkPc
<1>38. ASSUME NEW t \in Tasks, up_write(t) PROVE Control'
  BY <1>38 DEF up_write, Jump, Goto, listvars, taskvars, wakevars, TaskTypes,
        Control, IsWriter, Calls, NoCall, SlowPc, WriterPc, WaitPc, MarkPc
<1>39. ASSUME NEW t \in Tasks, downgrade_write(t) PROVE Control'
  BY <1>39 DEF downgrade_write, Jump, Goto, listvars, taskvars, wakevars,
        TaskTypes, Control, IsWriter, Calls, NoCall, SlowPc, WriterPc, WaitPc,
        MarkPc
<1>40. ASSUME NEW t \in Tasks, downgrade_owner(t) PROVE Control'
  BY <1>40 DEF downgrade_owner, Jump, Goto, set_owner, listvars, taskvars,
        wakevars, TaskTypes, Control, IsWriter, Calls, NoCall, SlowPc,
        WriterPc, WaitPc, MarkPc
<1>41. ASSUME NEW t \in Tasks, rwsem_wake(t, "wake", "RWSEM_WAKE_ANY", "idle")
       PROVE  Control'
  BY <1>41 DEF rwsem_wake, Goto, MarkWake, lockvars, taskvars, TaskTypes,
        Control, IsWriter, Calls, NoCall, SlowPc, WriterPc, WaitPc, MarkPc
<1>42. ASSUME NEW t \in Tasks,
              rwsem_wake(t, "downgrade_wake", "RWSEM_WAKE_READ_OWNED", "read")
       PROVE  Control'
  BY <1>42 DEF rwsem_wake, Goto, MarkWake, lockvars, taskvars, TaskTypes,
        Control, IsWriter, Calls, NoCall, SlowPc, WriterPc, WaitPc, MarkPc
<1>43. ASSUME NEW t \in Tasks, signal_wake_up(t) PROVE Control'
  BY <1>43 DEF signal_wake_up, set_state, lockvars, listvars, wakevars,
        TaskTypes, Control, IsWriter, Calls, NoCall, SlowPc, WriterPc, WaitPc,
        MarkPc
<1> QED BY <1>0, <1>1, <1>2, <1>3, <1>4, <1>5, <1>6, <1>7, <1>8, <1>9, <1>10,
      <1>11, <1>11a, <1>12, <1>13, <1>14, <1>15, <1>16, <1>17, <1>18, <1>19,
      <1>20, <1>21, <1>22, <1>23, <1>24, <1>25, <1>26, <1>27, <1>28, <1>29,
      <1>30, <1>31, <1>32, <1>33, <1>33a, <1>34, <1>35, <1>36, <1>37, <1>38,
      <1>39, <1>40, <1>41, <1>42, <1>43 DEF Next, Start, Continue, mark_wake,
      read_step, write_step, unlock_step

\* wait_lock is held by the task that is under it.
LEMMA LockingStep ==
  ASSUME TaskTypes, Control, Locking, wait_lock \in Tasks \cup {NULL},
         [Next]_vars
  PROVE  Locking'
<1>0. UNCHANGED vars => Locking'
  BY DEF vars, lockvars, listvars, taskvars, wakevars, TaskTypes, Control,
        Locking, LockedPc, Calls, NoCall, MarkPc
<1>1. ASSUME NEW t \in Tasks, mark_first(t) PROVE Locking'
  BY <1>1, RwsemAssumption DEF mark_first, Marked, wake_q_add, Goto, set_state,
        add_readers, wakevars, TaskTypes, Control, Locking, LockedPc, Calls,
        NoCall, MarkPc
<1>2. ASSUME NEW t \in Tasks, NEW timeout \in BOOLEAN, mark_back(t, timeout)
      PROVE  Locking'
  BY <1>2, RwsemAssumption DEF mark_back, Marked, Goto, set_state, TaskTypes,
        Control, Locking, LockedPc, Calls, NoCall, MarkPc
<1>3. ASSUME NEW t \in Tasks, mark_owner(t) PROVE Locking'
  BY <1>3, RwsemAssumption DEF mark_owner, Jump, Goto, set_owner, listvars,
        taskvars, wakevars, TaskTypes, Control, Locking, LockedPc, Calls,
        NoCall, MarkPc
<1>4. ASSUME NEW t \in Tasks, mark_grant(t) PROVE Locking'
  BY <1>4, RwsemAssumption DEF mark_grant, Marked, wake_q_add, Goto, set_state,
        TaskTypes, Control, Locking, LockedPc, Calls, NoCall, MarkPc
<1>5. ASSUME NEW t \in Tasks, wake_up_q(t) PROVE Locking'
  BY <1>5, RwsemAssumption DEF wake_up_q, Goto, raw_spin_lock, set_state,
        lockvars, TaskTypes, Control, Locking, LockedPc, Calls, NoCall, MarkPc
<1>6. ASSUME NEW t \in Tasks, NEW m \in MODES, down_read(t, m) PROVE Locking'
  BY <1>6, RwsemAssumption DEF down_read, add_readers, Goto, listvars,
        wakevars, TaskTypes, Control, Locking, LockedPc, Calls, NoCall, MarkPc
<1>7. ASSUME NEW t \in Tasks, down_read_trylock(t) PROVE Locking'
  BY <1>7, RwsemAssumption DEF down_read_trylock, Jump, Goto, add_readers,
        listvars, taskvars, wakevars, TaskTypes, Control, Locking, LockedPc,
        Calls, NoCall, MarkPc
<1>8. ASSUME NEW t \in Tasks, set_reader_owned(t) PROVE Locking'
  BY <1>8, RwsemAssumption DEF set_reader_owned, set_owner, Goto, Return,
        listvars, wakevars, TaskTypes, Control, Locking, LockedPc, Calls,
        NoCall, MarkPc
<1>9. ASSUME NEW t \in Tasks, read_undo(t) PROVE Locking'
  BY <1>9, RwsemAssumption DEF read_undo, Jump, Goto, add_readers, listvars,
        taskvars, wakevars, TaskTypes, Control, Locking, LockedPc, Calls,
        NoCall, MarkPc
<1>10. ASSUME NEW t \in Tasks, read_osq_lock(t) PROVE Locking'
  BY <1>10, RwsemAssumption DEF read_osq_lock, Jump, Goto, listvars, taskvars,
        wakevars, TaskTypes, Control, Locking, LockedPc, Calls, NoCall, MarkPc
<1>11. ASSUME NEW t \in Tasks, read_try(t) PROVE Locking'
  BY <1>11, RwsemAssumption DEF read_try, Jump, Goto, lockvars, listvars,
        taskvars, wakevars, TaskTypes, Control, Locking, LockedPc, Calls,
        NoCall, MarkPc
<1>11a. ASSUME NEW t \in Tasks, read_phase(t) PROVE Locking'
  BY <1>11a, RwsemAssumption DEF read_phase, Goto, lockvars, listvars,
        taskvars, wakevars, TaskTypes, Control, Locking, LockedPc, Calls,
        NoCall, MarkPc
<1>12. ASSUME NEW t \in Tasks, read_add(t) PROVE Locking'
  BY <1>12, RwsemAssumption DEF read_add, Jump, Goto, add_readers, listvars,
        taskvars, wakevars, TaskTypes, Control, Locking, LockedPc, Calls,
        NoCall, MarkPc
<1>13. ASSUME NEW t \in Tasks, read_back(t) PROVE Locking'
  BY <1>13, RwsemAssumption DEF read_back, Jump, Goto, add_readers, listvars,
        taskvars, wakevars, TaskTypes, Control, Locking, LockedPc, Calls,
        NoCall, MarkPc
<1>14. ASSUME NEW t \in Tasks, read_stop_spinning(t) PROVE Locking'
  BY <1>14, RwsemAssumption DEF read_stop_spinning, Jump, Goto, listvars,
        taskvars, wakevars, TaskTypes, Control, Locking, LockedPc, Calls,
        NoCall, MarkPc
<1>15. ASSUME NEW t \in Tasks, read_spun(t) PROVE Locking'
  BY <1>15, RwsemAssumption DEF read_spun, Return, Goto, lockvars, TaskTypes,
        Control, Locking, LockedPc, Calls, NoCall, MarkPc
<1>16. ASSUME NEW t \in Tasks, read_spun_lock(t) PROVE Locking'
  BY <1>16, RwsemAssumption DEF read_spun_lock, Goto, MarkWake, lockvars,
        TaskTypes, Control, Locking, LockedPc, Calls, NoCall, MarkPc
<1>17. ASSUME NEW t \in Tasks, read_queue_test(t) PROVE Locking'
  BY <1>17, RwsemAssumption DEF read_queue_test, Goto, lockvars, taskvars,
        wakevars, TaskTypes, Control, Locking, LockedPc, Calls, NoCall, MarkPc
<1>18. ASSUME NEW t \in Tasks, read_enqueue(t) PROVE Locking'
  BY <1>18, RwsemAssumption DEF read_enqueue, MarkWake, Goto, taskvars,
        TaskTypes, Control, Locking, LockedPc, Calls, NoCall, MarkPc
<1>19. ASSUME NEW t \in Tasks, read_set_state(t) PROVE Locking'
  BY <1>19, RwsemAssumption DEF read_set_state, Jump, Goto, set_state,
        lockvars, listvars, wakevars, TaskTypes, Control, Locking, LockedPc,
        Calls, NoCall, MarkPc
<1>20. ASSUME NEW t \in Tasks, read_check(t) PROVE Locking'
  BY <1>20, RwsemAssumption DEF read_check, Goto, Return, set_state, taskvars,
        lockvars, listvars, wakevars, TaskTypes, Control, Locking, LockedPc,
        Calls, NoCall, MarkPc
<1>21. ASSUME NEW t \in Tasks, read_schedule(t) PROVE Locking'
  BY <1>21, RwsemAssumption DEF read_schedule, Jump, Goto, lockvars, listvars,
        taskvars, wakevars, TaskTypes, Control, Locking, LockedPc, Calls,
        NoCall, MarkPc
<1>22. ASSUME NEW t \in Tasks, read_signal(t) PROVE Locking'
  BY <1>22, RwsemAssumption DEF read_signal, set_state, Return, Goto, wakevars,
        TaskTypes, Control, Locking, LockedPc, Calls, NoCall, MarkPc
<1>23. ASSUME NEW t \in Tasks, down_write_fast(t) PROVE Locking'
  BY <1>23, RwsemAssumption DEF down_write_fast, Jump, Goto, listvars,
        taskvars, wakevars, TaskTypes, Control, Locking, LockedPc, Calls,
        NoCall, MarkPc
<1>24. ASSUME NEW t \in Tasks, NEW m \in MODES, down_write_slow(t, m)
       PROVE  Locking'
  BY <1>24, RwsemAssumption DEF down_write_slow, Jump, Goto, lockvars,
        listvars, wakevars, TaskTypes, Control, Locking, LockedPc, Calls,
        NoCall, MarkPc
<1>25. ASSUME NEW t \in Tasks, set_writer_owned(t) PROVE Locking'
  BY <1>25, RwsemAssumption DEF set_writer_owned, set_owner, Return, Goto,
        listvars, wakevars, TaskTypes, Control, Locking, LockedPc, Calls,
        NoCall, MarkPc
<1>26. ASSUME NEW t \in Tasks, write_osq_lock(t) PROVE Locking'
  BY <1>26, RwsemAssumption DEF write_osq_lock, Jump, Goto, listvars, taskvars,
        wakevars, TaskTypes, Control, Locking, LockedPc, Calls, NoCall, MarkPc
<1>27. ASSUME NEW t \in Tasks, write_try_unqueued(t) PROVE Locking'
  BY <1>27, RwsemAssumption DEF write_try_unqueued, Jump, Goto, listvars,
        taskvars, wakevars, TaskTypes, Control, Locking, LockedPc, Calls,
        NoCall, MarkPc
<1>28. ASSUME NEW t \in Tasks, write_stop_spinning(t) PROVE Locking'
  BY <1>28, RwsemAssumption DEF write_stop_spinning, Jump, Goto, listvars,
        taskvars, wakevars, TaskTypes, Control, Locking, LockedPc, Calls,
        NoCall, MarkPc
<1>29. ASSUME NEW t \in Tasks, write_enqueue(t) PROVE Locking'
  BY <1>29, RwsemAssumption DEF write_enqueue, raw_spin_lock, Goto, set_state,
        MarkWake, TaskTypes, Control, Locking, LockedPc, Calls, NoCall, MarkPc
<1>30. ASSUME NEW t \in Tasks, write_try(t) PROVE Locking'
  BY <1>30, RwsemAssumption DEF write_try, Goto, Block, set_state, wakevars,
        TaskTypes, Control, Locking, LockedPc, Calls, NoCall, MarkPc
<1>31. ASSUME NEW t \in Tasks, write_locked(t) PROVE Locking'
  BY <1>31, RwsemAssumption DEF write_locked, set_owner, set_state, Return,
        Goto, wakevars, TaskTypes, Control, Locking, LockedPc, Calls, NoCall,
        MarkPc
<1>32. ASSUME NEW t \in Tasks, write_spin_on_owner(t) PROVE Locking'
  BY <1>32, RwsemAssumption DEF write_spin_on_owner, Goto, Block, set_state,
        lockvars, listvars, wakevars, TaskTypes, Control, Locking, LockedPc,
        Calls, NoCall, MarkPc
<1>33. ASSUME NEW t \in Tasks, write_schedule(t) PROVE Locking'
  BY <1>33, RwsemAssumption DEF write_schedule, listvars, Jump, Goto,
        set_state, lockvars, wakevars, TaskTypes, Control, Locking, LockedPc,
        Calls, NoCall, MarkPc
<1>33a. ASSUME NEW t \in Tasks, write_first(t) PROVE Locking'
  BY <1>33a, RwsemAssumption DEF write_first, Jump, Goto, taskvars, lockvars,
        wakevars, TaskTypes, Control, Locking, LockedPc, Calls, NoCall, MarkPc
<1>34. ASSUME NEW t \in Tasks, NEW timeout \in BOOLEAN, write_count(t, timeout)
       PROVE  Locking'
  BY <1>34, RwsemAssumption DEF write_count, Goto, Block, set_state, lockvars,
        wakevars, TaskTypes, Control, Locking, LockedPc, Calls, NoCall, MarkPc
<1>35. ASSUME NEW t \in Tasks, write_signal(t) PROVE Locking'
  BY <1>35, RwsemAssumption DEF write_signal, Goto, MarkWake, TaskTypes,
        Control, Locking, LockedPc, Calls, NoCall, MarkPc
<1>36. ASSUME NEW t \in Tasks, up_read(t) PROVE Locking'
  BY <1>36, RwsemAssumption DEF up_read, add_readers, Goto, listvars, taskvars,
        wakevars, TaskTypes, Control, Locking, LockedPc, Calls, NoCall, MarkPc
<1>37. ASSUME NEW t \in Tasks, clear_owner(t) PROVE Locking'
  BY <1>37, RwsemAssumption DEF clear_owner, Jump, Goto, set_owner, listvars,
        taskvars, wakevars, TaskTypes, Control, Locking, LockedPc, Calls,
        NoCall, MarkPc
<1>38. ASSUME NEW t \in Tasks, up_write(t) PROVE Locking'
  BY <1>38, RwsemAssumption DEF up_write, Jump, Goto, listvars, taskvars,
        wakevars, TaskTypes, Control, Locking, LockedPc, Calls, NoCall, MarkPc
<1>39. ASSUME NEW t \in Tasks, downgrade_write(t) PROVE Locking'
  BY <1>39, RwsemAssumption DEF downgrade_write, Jump, Goto, listvars,
        taskvars, wakevars, TaskTypes, Control, Locking, LockedPc, Calls,
        NoCall, MarkPc
<1>40. ASSUME NEW t \in Tasks, downgrade_owner(t) PROVE Locking'
  BY <1>40, RwsemAssumption DEF downgrade_owner, Jump, Goto, set_owner,
        listvars, taskvars, wakevars, TaskTypes, Control, Locking, LockedPc,
        Calls, NoCall, MarkPc
<1>41. ASSUME NEW t \in Tasks, rwsem_wake(t, "wake", "RWSEM_WAKE_ANY", "idle")
       PROVE  Locking'
  BY <1>41, RwsemAssumption DEF rwsem_wake, Goto, MarkWake, lockvars, taskvars,
        TaskTypes, Control, Locking, LockedPc, Calls, NoCall, MarkPc
<1>42. ASSUME NEW t \in Tasks,
              rwsem_wake(t, "downgrade_wake", "RWSEM_WAKE_READ_OWNED", "read")
       PROVE  Locking'
  BY <1>42, RwsemAssumption DEF rwsem_wake, Goto, MarkWake, lockvars, taskvars,
        TaskTypes, Control, Locking, LockedPc, Calls, NoCall, MarkPc
<1>43. ASSUME NEW t \in Tasks, signal_wake_up(t) PROVE Locking'
  BY <1>43, RwsemAssumption DEF signal_wake_up, set_state, lockvars, listvars,
        wakevars, TaskTypes, Control, Locking, LockedPc, Calls, NoCall, MarkPc
<1> QED BY <1>0, <1>1, <1>2, <1>3, <1>4, <1>5, <1>6, <1>7, <1>8, <1>9, <1>10,
      <1>11, <1>11a, <1>12, <1>13, <1>14, <1>15, <1>16, <1>17, <1>18, <1>19,
      <1>20, <1>21, <1>22, <1>23, <1>24, <1>25, <1>26, <1>27, <1>28, <1>29,
      <1>30, <1>31, <1>32, <1>33, <1>33a, <1>34, <1>35, <1>36, <1>37, <1>38,
      <1>39, <1>40, <1>41, <1>42, <1>43 DEF Next, Start, Continue, mark_wake,
      read_step, write_step, unlock_step

\* A step that leaves the list alone keeps what is said of it, if the one task
\* that moves goes on waiting.
LEMMA ListedKept ==
  ASSUME Listed, NEW t \in Tasks, UNCHANGED <<wait_list, wstate>>,
         \A u \in Tasks \ {t} : pc'[u] = pc[u] /\ call'[u] = call[u],
         WaitsToRead(t) => WaitsToRead(t)',
         pc'[t] = "r_enqueue" => wait_list = <<>>,
         pc'[t] \in {"mark", "mark_back", "mark_owner", "mark_grant"} =>
           wait_list # <<>>,
         pc'[t] \in {"mark_back", "mark_owner", "mark_grant"} =>
           ~IsWriter(rwsem_first_waiter)
  PROVE  Listed'
<1>1. /\ Queued' = Queued /\ rwsem_first_waiter' = rwsem_first_waiter
      /\ Distinct(wait_list)' <=> Distinct(wait_list)
  BY DEF Queued, rwsem_first_waiter, Distinct
<1>2. /\ \A u : IsWriter(u)' <=> IsWriter(u)
      /\ IsWriter(rwsem_first_waiter)' <=> IsWriter(rwsem_first_waiter)
  BY <1>1 DEF IsWriter
<1>3. \A u \in Tasks : WaitsToRead(u) => WaitsToRead(u)'
  BY DEF WaitsToRead
<1>4. \A u \in Queued' : IsWriter(u)' \/ WaitsToRead(u)'
  BY <1>1, <1>2, <1>3, QueuedTasks DEF Listed
<1>5. \A u \in Tasks :
        /\ pc'[u] = "r_enqueue" => wait_list = <<>>
        /\ pc'[u] \in {"mark", "mark_back", "mark_owner", "mark_grant"} =>
             wait_list # <<>>
        /\ pc'[u] \in {"mark_back", "mark_owner", "mark_grant"} =>
             ~IsWriter(rwsem_first_waiter)
  BY DEF Listed
<1> QED BY <1>1, <1>2, <1>4, <1>5 DEF Listed

\* A task is on the list once, while it waits; only the holder of wait_lock
\* changes the list, so the head that rwsem_mark_wake() has looked at is still
\* the head when it grants, and a writer that found itself first is still first
\* when it tries.
LEMMA ListedStep ==
  ASSUME TaskTypes, Control, Locking, Listed, wait_lock \in Tasks \cup {NULL},
         [Next]_vars
  PROVE  Listed'
<1>0. UNCHANGED vars => Listed'
  BY DEF vars, lockvars, listvars, taskvars, wakevars, TaskTypes, Control,
        Locking, Listed, IsWriter, WaitsToRead, Queued, rwsem_first_waiter,
        Distinct, Calls, NoCall, WriterPc, WaitPc, LockedPc, MarkPc
<1>1. ASSUME NEW t \in Tasks, mark_first(t) PROVE Listed'
  <2>1. /\ UNCHANGED <<wait_list, wstate>>
        /\ \A u \in Tasks \ {t} : pc'[u] = pc[u] /\ call'[u] = call[u]
    BY <1>1 DEF mark_first, Marked, wake_q_add, Goto, set_state, add_readers,
          wakevars, TaskTypes
  <2>2. /\ WaitsToRead(t) => WaitsToRead(t)'
        /\ pc'[t] = "r_enqueue" => wait_list = <<>>
        /\ pc'[t] \in {"mark", "mark_back", "mark_owner", "mark_grant"} =>
             wait_list # <<>>
        /\ pc'[t] \in {"mark_back", "mark_owner", "mark_grant"} =>
             ~IsWriter(rwsem_first_waiter)
    BY <1>1 DEF mark_first, Marked, wake_q_add, Goto, set_state, add_readers,
          wakevars, TaskTypes, Control, Calls, NoCall, Listed, WaitsToRead,
          WaitPc, MarkPc
  <2> QED BY <2>1, <2>2, ListedKept
<1>2. ASSUME NEW t \in Tasks, NEW timeout \in BOOLEAN, mark_back(t, timeout)
      PROVE  Listed'
  <2>1. /\ UNCHANGED <<wait_list, wstate>>
        /\ \A u \in Tasks \ {t} : pc'[u] = pc[u] /\ call'[u] = call[u]
    BY <1>2 DEF mark_back, Marked, Goto, set_state, TaskTypes
  <2>2. /\ WaitsToRead(t) => WaitsToRead(t)'
        /\ pc'[t] = "r_enqueue" => wait_list = <<>>
        /\ pc'[t] \in {"mark", "mark_back", "mark_owner", "mark_grant"} =>
             wait_list # <<>>
        /\ pc'[t] \in {"mark_back", "mark_owner", "mark_grant"} =>
             ~IsWriter(rwsem_first_waiter)
    BY <1>2 DEF mark_back, Marked, Goto, set_state, TaskTypes, Control, Calls,
          NoCall, Listed, WaitsToRead, WaitPc, MarkPc
  <2> QED BY <2>1, <2>2, ListedKept
<1>3. ASSUME NEW t \in Tasks, mark_owner(t) PROVE Listed'
  <2>1. /\ UNCHANGED <<wait_list, wstate>>
        /\ \A u \in Tasks \ {t} : pc'[u] = pc[u] /\ call'[u] = call[u]
    BY <1>3 DEF mark_owner, Jump, Goto, set_owner, listvars, taskvars,
          wakevars, TaskTypes
  <2>2. /\ WaitsToRead(t) => WaitsToRead(t)'
        /\ pc'[t] = "r_enqueue" => wait_list = <<>>
        /\ pc'[t] \in {"mark", "mark_back", "mark_owner", "mark_grant"} =>
             wait_list # <<>>
        /\ pc'[t] \in {"mark_back", "mark_owner", "mark_grant"} =>
             ~IsWriter(rwsem_first_waiter)
    BY <1>3 DEF mark_owner, Jump, Goto, set_owner, listvars, taskvars,
          wakevars, TaskTypes, Control, Calls, NoCall, Listed, WaitsToRead,
          WaitPc, MarkPc
  <2> QED BY <2>1, <2>2, ListedKept
<1>4. ASSUME NEW t \in Tasks, mark_grant(t) PROVE Listed'
  <2>1. /\ pc[t] = "mark_grant" /\ wait_list' = Without(wait_list, Woken)
        /\ \A u \in Tasks \ {t} : pc'[u] = pc[u] /\ call'[u] = call[u]
        /\ \/ pc'[t] = "wake_up_q" /\ call'[t] = call[t]
           \/ pc'[t] = "w_try" /\ call'[t] = NoCall /\ call[t].ret = "w_try"
        /\ UNCHANGED wstate
    BY <1>4 DEF mark_grant, Marked, Goto, TaskTypes
  <2>2. /\ wait_list' \in Seq(Tasks) /\ Distinct(wait_list)'
        /\ Queued' = Queued \ Woken
        /\ wait_list' = <<>> <=> Queued \ Woken = {}
        /\ wait_list # <<>> /\ rwsem_first_waiter \notin Woken =>
             rwsem_first_waiter' = rwsem_first_waiter
    BY <2>1, Leave DEF Listed
  <2>3. Woken \subseteq Queued /\ \A u \in Woken : ~IsWriter(u)
    BY WokenReaders DEF Listed
  <2>4. wait_list # <<>>
    BY <2>1 DEF Listed
  <2>5. \A u \in Tasks : IsWriter(u) => u \in Queued'
    BY <2>2, <2>3 DEF Listed
  <2>6. \A u \in Tasks : wstate'[u] \in {"WRITER_FIRST", "WRITER_HANDOFF"} =>
                           rwsem_first_waiter' = u
    BY <2>1, <2>2, <2>3, <2>4 DEF Listed, IsWriter
  <2>7. \A u \in Queued' : IsWriter(u) \/ WaitsToRead(u)'
    <3>1. \A u \in Tasks : WaitsToRead(u) => WaitsToRead(u)'
      BY <2>1 DEF TaskTypes, Control, Locking, IsWriter, WaitsToRead, Calls,
            NoCall, WriterPc, WaitPc, LockedPc, MarkPc
    <3> QED BY <2>2, <3>1, QueuedTasks DEF Listed
  <2>8. \A u \in Tasks : pc'[u] \notin {"r_enqueue", "mark", "mark_back", "mark_owner", "mark_grant"}
    BY <2>1 DEF TaskTypes, Locking, LockedPc
  <2> QED BY <2>1, <2>2, <2>5, <2>6, <2>7, <2>8 DEF Listed, IsWriter
<1>5. ASSUME NEW t \in Tasks, wake_up_q(t) PROVE Listed'
  <2>1. /\ UNCHANGED <<wait_list, wstate>>
        /\ \A u \in Tasks \ {t} : pc'[u] = pc[u] /\ call'[u] = call[u]
    BY <1>5 DEF wake_up_q, Goto, raw_spin_lock, set_state, lockvars, TaskTypes
  <2>2. /\ WaitsToRead(t) => WaitsToRead(t)'
        /\ pc'[t] = "r_enqueue" => wait_list = <<>>
        /\ pc'[t] \in {"mark", "mark_back", "mark_owner", "mark_grant"} =>
             wait_list # <<>>
        /\ pc'[t] \in {"mark_back", "mark_owner", "mark_grant"} =>
             ~IsWriter(rwsem_first_waiter)
    BY <1>5 DEF wake_up_q, Goto, raw_spin_lock, set_state, lockvars, TaskTypes,
          Control, Calls, NoCall, Listed, WaitsToRead, WaitPc, MarkPc
  <2> QED BY <2>1, <2>2, ListedKept
<1>6. ASSUME NEW t \in Tasks, NEW m \in MODES, down_read(t, m) PROVE Listed'
  <2>1. /\ UNCHANGED <<wait_list, wstate>>
        /\ \A u \in Tasks \ {t} : pc'[u] = pc[u] /\ call'[u] = call[u]
    BY <1>6 DEF down_read, add_readers, Goto, listvars, wakevars, TaskTypes
  <2>2. /\ WaitsToRead(t) => WaitsToRead(t)'
        /\ pc'[t] = "r_enqueue" => wait_list = <<>>
        /\ pc'[t] \in {"mark", "mark_back", "mark_owner", "mark_grant"} =>
             wait_list # <<>>
        /\ pc'[t] \in {"mark_back", "mark_owner", "mark_grant"} =>
             ~IsWriter(rwsem_first_waiter)
    BY <1>6 DEF down_read, add_readers, Goto, listvars, wakevars, TaskTypes,
          Control, Calls, NoCall, Listed, WaitsToRead, WaitPc, MarkPc
  <2> QED BY <2>1, <2>2, ListedKept
<1>7. ASSUME NEW t \in Tasks, down_read_trylock(t) PROVE Listed'
  <2>1. /\ UNCHANGED <<wait_list, wstate>>
        /\ \A u \in Tasks \ {t} : pc'[u] = pc[u] /\ call'[u] = call[u]
    BY <1>7 DEF down_read_trylock, Jump, Goto, add_readers, listvars, taskvars,
          wakevars, TaskTypes
  <2>2. /\ WaitsToRead(t) => WaitsToRead(t)'
        /\ pc'[t] = "r_enqueue" => wait_list = <<>>
        /\ pc'[t] \in {"mark", "mark_back", "mark_owner", "mark_grant"} =>
             wait_list # <<>>
        /\ pc'[t] \in {"mark_back", "mark_owner", "mark_grant"} =>
             ~IsWriter(rwsem_first_waiter)
    BY <1>7 DEF down_read_trylock, Jump, Goto, add_readers, listvars, taskvars,
          wakevars, TaskTypes, Control, Calls, NoCall, Listed, WaitsToRead,
          WaitPc, MarkPc
  <2> QED BY <2>1, <2>2, ListedKept
<1>8. ASSUME NEW t \in Tasks, set_reader_owned(t) PROVE Listed'
  <2>1. /\ UNCHANGED <<wait_list, wstate>>
        /\ \A u \in Tasks \ {t} : pc'[u] = pc[u] /\ call'[u] = call[u]
    BY <1>8 DEF set_reader_owned, set_owner, Goto, Return, listvars, wakevars,
          TaskTypes
  <2>2. /\ WaitsToRead(t) => WaitsToRead(t)'
        /\ pc'[t] = "r_enqueue" => wait_list = <<>>
        /\ pc'[t] \in {"mark", "mark_back", "mark_owner", "mark_grant"} =>
             wait_list # <<>>
        /\ pc'[t] \in {"mark_back", "mark_owner", "mark_grant"} =>
             ~IsWriter(rwsem_first_waiter)
    BY <1>8 DEF set_reader_owned, set_owner, Goto, Return, listvars, wakevars,
          TaskTypes, Control, Calls, NoCall, Listed, WaitsToRead, WaitPc, MarkPc
  <2> QED BY <2>1, <2>2, ListedKept
<1>9. ASSUME NEW t \in Tasks, read_undo(t) PROVE Listed'
  <2>1. /\ UNCHANGED <<wait_list, wstate>>
        /\ \A u \in Tasks \ {t} : pc'[u] = pc[u] /\ call'[u] = call[u]
    BY <1>9 DEF read_undo, Jump, Goto, add_readers, listvars, taskvars,
          wakevars, TaskTypes
  <2>2. /\ WaitsToRead(t) => WaitsToRead(t)'
        /\ pc'[t] = "r_enqueue" => wait_list = <<>>
        /\ pc'[t] \in {"mark", "mark_back", "mark_owner", "mark_grant"} =>
             wait_list # <<>>
        /\ pc'[t] \in {"mark_back", "mark_owner", "mark_grant"} =>
             ~IsWriter(rwsem_first_waiter)
    BY <1>9 DEF read_undo, Jump, Goto, add_readers, listvars, taskvars,
          wakevars, TaskTypes, Control, Calls, NoCall, Listed, WaitsToRead,
          WaitPc, MarkPc
  <2> QED BY <2>1, <2>2, ListedKept
<1>10. ASSUME NEW t \in Tasks, read_osq_lock(t) PROVE Listed'
  <2>1. /\ UNCHANGED <<wait_list, wstate>>
        /\ \A u \in Tasks \ {t} : pc'[u] = pc[u] /\ call'[u] = call[u]
    BY <1>10 DEF read_osq_lock, Jump, Goto, listvars, taskvars, wakevars,
          TaskTypes
  <2>2. /\ WaitsToRead(t) => WaitsToRead(t)'
        /\ pc'[t] = "r_enqueue" => wait_list = <<>>
        /\ pc'[t] \in {"mark", "mark_back", "mark_owner", "mark_grant"} =>
             wait_list # <<>>
        /\ pc'[t] \in {"mark_back", "mark_owner", "mark_grant"} =>
             ~IsWriter(rwsem_first_waiter)
    BY <1>10 DEF read_osq_lock, Jump, Goto, listvars, taskvars, wakevars,
          TaskTypes, Control, Calls, NoCall, Listed, WaitsToRead, WaitPc, MarkPc
  <2> QED BY <2>1, <2>2, ListedKept
<1>11. ASSUME NEW t \in Tasks, read_try(t) PROVE Listed'
  <2>1. /\ UNCHANGED <<wait_list, wstate>>
        /\ \A u \in Tasks \ {t} : pc'[u] = pc[u] /\ call'[u] = call[u]
    BY <1>11 DEF read_try, Jump, Goto, lockvars, listvars, taskvars, wakevars,
          TaskTypes
  <2>2. /\ WaitsToRead(t) => WaitsToRead(t)'
        /\ pc'[t] = "r_enqueue" => wait_list = <<>>
        /\ pc'[t] \in {"mark", "mark_back", "mark_owner", "mark_grant"} =>
             wait_list # <<>>
        /\ pc'[t] \in {"mark_back", "mark_owner", "mark_grant"} =>
             ~IsWriter(rwsem_first_waiter)
    BY <1>11 DEF read_try, Jump, Goto, lockvars, listvars, taskvars, wakevars,
          TaskTypes, Control, Calls, NoCall, Listed, WaitsToRead, WaitPc, MarkPc
  <2> QED BY <2>1, <2>2, ListedKept
<1>11a. ASSUME NEW t \in Tasks, read_phase(t) PROVE Listed'
  <2>1. /\ UNCHANGED <<wait_list, wstate>>
        /\ \A u \in Tasks \ {t} : pc'[u] = pc[u] /\ call'[u] = call[u]
    BY <1>11a DEF read_phase, Goto, lockvars, listvars, taskvars,
          wakevars, TaskTypes
  <2>2. /\ WaitsToRead(t) => WaitsToRead(t)'
        /\ pc'[t] = "r_enqueue" => wait_list = <<>>
        /\ pc'[t] \in {"mark", "mark_back", "mark_owner", "mark_grant"} =>
             wait_list # <<>>
        /\ pc'[t] \in {"mark_back", "mark_owner", "mark_grant"} =>
             ~IsWriter(rwsem_first_waiter)
    BY <1>11a DEF read_phase, Goto, lockvars, listvars, taskvars,
          wakevars, TaskTypes, Control, Calls, NoCall, Listed, WaitsToRead,
          WaitPc, MarkPc
  <2> QED BY <2>1, <2>2, ListedKept
<1>12. ASSUME NEW t \in Tasks, read_add(t) PROVE Listed'
  <2>1. /\ UNCHANGED <<wait_list, wstate>>
        /\ \A u \in Tasks \ {t} : pc'[u] = pc[u] /\ call'[u] = call[u]
    BY <1>12 DEF read_add, Jump, Goto, add_readers, listvars, taskvars,
          wakevars, TaskTypes
  <2>2. /\ WaitsToRead(t) => WaitsToRead(t)'
        /\ pc'[t] = "r_enqueue" => wait_list = <<>>
        /\ pc'[t] \in {"mark", "mark_back", "mark_owner", "mark_grant"} =>
             wait_list # <<>>
        /\ pc'[t] \in {"mark_back", "mark_owner", "mark_grant"} =>
             ~IsWriter(rwsem_first_waiter)
    BY <1>12 DEF read_add, Jump, Goto, add_readers, listvars, taskvars,
          wakevars, TaskTypes, Control, Calls, NoCall, Listed, WaitsToRead,
          WaitPc, MarkPc
  <2> QED BY <2>1, <2>2, ListedKept
<1>13. ASSUME NEW t \in Tasks, read_back(t) PROVE Listed'
  <2>1. /\ UNCHANGED <<wait_list, wstate>>
        /\ \A u \in Tasks \ {t} : pc'[u] = pc[u] /\ call'[u] = call[u]
    BY <1>13 DEF read_back, Jump, Goto, add_readers, listvars, taskvars,
          wakevars, TaskTypes
  <2>2. /\ WaitsToRead(t) => WaitsToRead(t)'
        /\ pc'[t] = "r_enqueue" => wait_list = <<>>
        /\ pc'[t] \in {"mark", "mark_back", "mark_owner", "mark_grant"} =>
             wait_list # <<>>
        /\ pc'[t] \in {"mark_back", "mark_owner", "mark_grant"} =>
             ~IsWriter(rwsem_first_waiter)
    BY <1>13 DEF read_back, Jump, Goto, add_readers, listvars, taskvars,
          wakevars, TaskTypes, Control, Calls, NoCall, Listed, WaitsToRead,
          WaitPc, MarkPc
  <2> QED BY <2>1, <2>2, ListedKept
<1>14. ASSUME NEW t \in Tasks, read_stop_spinning(t) PROVE Listed'
  <2>1. /\ UNCHANGED <<wait_list, wstate>>
        /\ \A u \in Tasks \ {t} : pc'[u] = pc[u] /\ call'[u] = call[u]
    BY <1>14 DEF read_stop_spinning, Jump, Goto, listvars, taskvars, wakevars,
          TaskTypes
  <2>2. /\ WaitsToRead(t) => WaitsToRead(t)'
        /\ pc'[t] = "r_enqueue" => wait_list = <<>>
        /\ pc'[t] \in {"mark", "mark_back", "mark_owner", "mark_grant"} =>
             wait_list # <<>>
        /\ pc'[t] \in {"mark_back", "mark_owner", "mark_grant"} =>
             ~IsWriter(rwsem_first_waiter)
    BY <1>14 DEF read_stop_spinning, Jump, Goto, listvars, taskvars, wakevars,
          TaskTypes, Control, Calls, NoCall, Listed, WaitsToRead, WaitPc, MarkPc
  <2> QED BY <2>1, <2>2, ListedKept
<1>15. ASSUME NEW t \in Tasks, read_spun(t) PROVE Listed'
  <2>1. /\ UNCHANGED <<wait_list, wstate>>
        /\ \A u \in Tasks \ {t} : pc'[u] = pc[u] /\ call'[u] = call[u]
    BY <1>15 DEF read_spun, Return, Goto, lockvars, TaskTypes
  <2>2. /\ WaitsToRead(t) => WaitsToRead(t)'
        /\ pc'[t] = "r_enqueue" => wait_list = <<>>
        /\ pc'[t] \in {"mark", "mark_back", "mark_owner", "mark_grant"} =>
             wait_list # <<>>
        /\ pc'[t] \in {"mark_back", "mark_owner", "mark_grant"} =>
             ~IsWriter(rwsem_first_waiter)
    BY <1>15 DEF read_spun, Return, Goto, lockvars, TaskTypes, Control, Calls,
          NoCall, Listed, WaitsToRead, WaitPc, MarkPc
  <2> QED BY <2>1, <2>2, ListedKept
<1>16. ASSUME NEW t \in Tasks, read_spun_lock(t) PROVE Listed'
  <2>1. /\ UNCHANGED <<wait_list, wstate>>
        /\ \A u \in Tasks \ {t} : pc'[u] = pc[u] /\ call'[u] = call[u]
    BY <1>16 DEF read_spun_lock, Goto, MarkWake, lockvars, TaskTypes
  <2>2. /\ WaitsToRead(t) => WaitsToRead(t)'
        /\ pc'[t] = "r_enqueue" => wait_list = <<>>
        /\ pc'[t] \in {"mark", "mark_back", "mark_owner", "mark_grant"} =>
             wait_list # <<>>
        /\ pc'[t] \in {"mark_back", "mark_owner", "mark_grant"} =>
             ~IsWriter(rwsem_first_waiter)
    BY <1>16 DEF read_spun_lock, Goto, MarkWake, lockvars, TaskTypes, Control,
          Calls, NoCall, Listed, WaitsToRead, WaitPc, MarkPc
  <2> QED BY <2>1, <2>2, ListedKept
<1>17. ASSUME NEW t \in Tasks, read_queue_test(t) PROVE Listed'
  <2>1. /\ UNCHANGED <<wait_list, wstate>>
        /\ \A u \in Tasks \ {t} : pc'[u] = pc[u] /\ call'[u] = call[u]
    BY <1>17 DEF read_queue_test, Goto, lockvars, taskvars, wakevars, TaskTypes
  <2>2. /\ WaitsToRead(t) => WaitsToRead(t)'
        /\ pc'[t] = "r_enqueue" => wait_list = <<>>
        /\ pc'[t] \in {"mark", "mark_back", "mark_owner", "mark_grant"} =>
             wait_list # <<>>
        /\ pc'[t] \in {"mark_back", "mark_owner", "mark_grant"} =>
             ~IsWriter(rwsem_first_waiter)
    BY <1>17 DEF read_queue_test, Goto, lockvars, taskvars, wakevars,
          TaskTypes, Control, Calls, NoCall, Listed, WaitsToRead, WaitPc, MarkPc
  <2> QED BY <2>1, <2>2, ListedKept
<1>18. ASSUME NEW t \in Tasks, read_enqueue(t) PROVE Listed'
  <2>1. /\ pc[t] \in {"r_enqueue", "r_slow", "r_osq", "r_phase", "r_phase_try", "r_queue"}
        /\ wait_list' = Append(wait_list, t)
        /\ \A u \in Tasks \ {t} : pc'[u] = pc[u] /\ call'[u] = call[u]
        /\ \/ /\ pc'[t] = "mark"
              /\ call'[t] = [type |-> "RWSEM_WAKE_ANY", ret |-> "r_wait"]
           \/ pc'[t] = "r_wait" /\ call'[t] = call[t]
        /\ UNCHANGED wstate
        /\ pc[t] = "r_enqueue" \/ wait_lock = NULL
    BY <1>18 DEF read_enqueue, MarkWake, Goto, TaskTypes
  <2>2. ~IsWriter(t) /\ ~WaitsToRead(t) /\ WaitsToRead(t)'
    BY <2>1 DEF Control, NoCall, MarkPc, WriterPc, WaitsToRead, WaitPc
  <2>3. t \notin Queued
    BY <2>2 DEF Listed
  <2>4. /\ wait_list' \in Seq(Tasks) /\ Distinct(wait_list)'
        /\ wait_list' # <<>>
        /\ Queued' = Queued \cup {t}
        /\ wait_list # <<>> => rwsem_first_waiter' = rwsem_first_waiter
    BY <2>1, <2>3, Joins DEF Listed
  <2>5. \A u \in Tasks : IsWriter(u) => wait_list # <<>>
    BY QueuedTasks DEF Listed
  <2>6. \A u \in Queued' : IsWriter(u) \/ WaitsToRead(u)'
    <3>1. \A u \in Tasks : WaitsToRead(u) => WaitsToRead(u)'
      BY <2>1, <2>2 DEF WaitsToRead
    <3> QED BY <2>2, <2>4, <3>1, QueuedTasks DEF Listed
  <2>7. \A u \in Tasks : pc'[u] \notin {"r_enqueue", "mark_back", "mark_owner", "mark_grant"}
    BY <2>1, RwsemAssumption DEF TaskTypes, Locking, LockedPc
  <2> QED BY <2>1, <2>4, <2>5, <2>6, <2>7 DEF Listed, IsWriter
<1>19. ASSUME NEW t \in Tasks, read_set_state(t) PROVE Listed'
  <2>1. /\ UNCHANGED <<wait_list, wstate>>
        /\ \A u \in Tasks \ {t} : pc'[u] = pc[u] /\ call'[u] = call[u]
    BY <1>19 DEF read_set_state, Jump, Goto, set_state, lockvars, listvars,
          wakevars, TaskTypes
  <2>2. /\ WaitsToRead(t) => WaitsToRead(t)'
        /\ pc'[t] = "r_enqueue" => wait_list = <<>>
        /\ pc'[t] \in {"mark", "mark_back", "mark_owner", "mark_grant"} =>
             wait_list # <<>>
        /\ pc'[t] \in {"mark_back", "mark_owner", "mark_grant"} =>
             ~IsWriter(rwsem_first_waiter)
    BY <1>19 DEF read_set_state, Jump, Goto, set_state, lockvars, listvars,
          wakevars, TaskTypes, Control, Calls, NoCall, Listed, WaitsToRead,
          WaitPc, MarkPc
  <2> QED BY <2>1, <2>2, ListedKept
<1>20. ASSUME NEW t \in Tasks, read_check(t) PROVE Listed'
  <2>1. /\ UNCHANGED <<wait_list, wstate, call>> /\ pc[t] = "r_check"
        /\ \A u \in Tasks \ {t} : pc'[u] = pc[u]
        /\ pc'[t] \in {"r_signal", "r_asleep"} \/ (t \notin Queued /\ pc'[t] = "read")
    <3>1. CASE t \in Queued
      <4>1. UNCHANGED <<wait_list, wstate, call>> /\ pc[t] = "r_check"
        BY <1>20 DEF read_check, listvars, wakevars
      <4>2. PICK l \in {"r_signal", "r_asleep"} : pc' = [pc EXCEPT ![t] = l]
        BY <1>20, <3>1 DEF read_check, Goto
      <4> QED BY <4>1, <4>2 DEF TaskTypes
    <3>2. CASE t \notin Queued
      BY <1>20, <3>2 DEF read_check, Goto, Return, listvars, wakevars, TaskTypes
    <3> QED BY <3>1, <3>2
  <2>2. Queued' = Queued /\ rwsem_first_waiter' = rwsem_first_waiter
    BY <2>1 DEF Queued, rwsem_first_waiter
  <2>3. \A u \in Queued : (IsWriter(u) \/ WaitsToRead(u))'
    BY <2>1, QueuedTasks DEF Listed, IsWriter, WaitsToRead, WaitPc
  <2> QED BY <2>1, <2>2, <2>3 DEF Listed, IsWriter, Distinct
<1>21. ASSUME NEW t \in Tasks, read_schedule(t) PROVE Listed'
  <2>1. /\ UNCHANGED <<wait_list, wstate>>
        /\ \A u \in Tasks \ {t} : pc'[u] = pc[u] /\ call'[u] = call[u]
    BY <1>21 DEF read_schedule, Jump, Goto, lockvars, listvars, taskvars,
          wakevars, TaskTypes
  <2>2. /\ WaitsToRead(t) => WaitsToRead(t)'
        /\ pc'[t] = "r_enqueue" => wait_list = <<>>
        /\ pc'[t] \in {"mark", "mark_back", "mark_owner", "mark_grant"} =>
             wait_list # <<>>
        /\ pc'[t] \in {"mark_back", "mark_owner", "mark_grant"} =>
             ~IsWriter(rwsem_first_waiter)
    BY <1>21 DEF read_schedule, Jump, Goto, lockvars, listvars, taskvars,
          wakevars, TaskTypes, Control, Calls, NoCall, Listed, WaitsToRead,
          WaitPc, MarkPc
  <2> QED BY <2>1, <2>2, ListedKept
<1>22. ASSUME NEW t \in Tasks, read_signal(t) PROVE Listed'
  <2>1. CASE t \in Queued
    <3>1. /\ wait_list' = list_del(t) /\ wait_lock = NULL /\ pc[t] = "r_signal"
          /\ \A u \in Tasks \ {t} : pc'[u] = pc[u]
          /\ pc'[t] = "idle" /\ UNCHANGED <<wstate, call>>
      BY <1>22, <2>1 DEF read_signal, Return, Goto, wakevars, TaskTypes
    <3>2. /\ wait_list' \in Seq(Tasks) /\ Distinct(wait_list)'
          /\ Queued' = Queued \ {t}
          /\ wait_list' = <<>> <=> Queued \ {t} = {}
          /\ wait_list # <<>> /\ rwsem_first_waiter \notin {t} =>
               rwsem_first_waiter' = rwsem_first_waiter
      BY <3>1, Leave DEF Listed, list_del
    <3>3. /\ \A u \in Queued' : IsWriter(u)' \/ WaitsToRead(u)'
          /\ \A u \in Tasks : IsWriter(u)' => u \in Queued'
      <4>1. \A u \in Tasks : u # t => (IsWriter(u)' <=> IsWriter(u)) /\ (WaitsToRead(u) => WaitsToRead(u)')
        BY <3>1 DEF WaitsToRead, IsWriter
      <4>2. ~IsWriter(t)'
        BY <3>1 DEF IsWriter, Control, WriterPc, NoCall, MarkPc
      <4> QED BY <3>2, <4>1, <4>2, QueuedTasks DEF Listed
    <3>4. \A u \in Tasks : pc'[u] \notin {"r_enqueue", "mark_back", "mark_owner", "mark_grant"}
      BY <3>1, RwsemAssumption DEF TaskTypes, Locking, LockedPc
    <3>5. \A u \in Tasks : pc'[u] = "mark" => wait_list' # <<>>
      BY <3>1, RwsemAssumption DEF TaskTypes, Locking, LockedPc
    <3>6. \A u \in Tasks : wstate'[u] \in {"WRITER_FIRST", "WRITER_HANDOFF"} =>
                             rwsem_first_waiter' = u
      <4>1. \A u \in Tasks : wstate'[u] # "none" => u # t /\ wstate'[u] = wstate[u]
        BY <3>1 DEF Control, IsWriter, WriterPc, NoCall, MarkPc
      <4>2. \A u \in Tasks : wstate[u] # "none" => wait_list # <<>>
        BY QueuedTasks DEF Listed, IsWriter
      <4> QED BY <3>2, <4>1, <4>2 DEF Listed
    <3> QED BY <3>2, <3>3, <3>4, <3>5, <3>6 DEF Listed
  <2>2. CASE t \notin Queued
    BY <1>22, <2>2, RwsemAssumption DEF read_signal, Return, Goto, wakevars,
          TaskTypes, Control, Locking, Listed, IsWriter, WaitsToRead, Queued,
          rwsem_first_waiter, Distinct, Calls, NoCall, WriterPc, WaitPc,
          LockedPc, MarkPc
  <2> QED BY <2>1, <2>2
<1>23. ASSUME NEW t \in Tasks, down_write_fast(t) PROVE Listed'
  <2>1. /\ UNCHANGED <<wait_list, wstate>>
        /\ \A u \in Tasks \ {t} : pc'[u] = pc[u] /\ call'[u] = call[u]
    BY <1>23 DEF down_write_fast, Jump, Goto, listvars, taskvars, wakevars,
          TaskTypes
  <2>2. /\ WaitsToRead(t) => WaitsToRead(t)'
        /\ pc'[t] = "r_enqueue" => wait_list = <<>>
        /\ pc'[t] \in {"mark", "mark_back", "mark_owner", "mark_grant"} =>
             wait_list # <<>>
        /\ pc'[t] \in {"mark_back", "mark_owner", "mark_grant"} =>
             ~IsWriter(rwsem_first_waiter)
    BY <1>23 DEF down_write_fast, Jump, Goto, listvars, taskvars, wakevars,
          TaskTypes, Control, Calls, NoCall, Listed, WaitsToRead, WaitPc, MarkPc
  <2> QED BY <2>1, <2>2, ListedKept
<1>24. ASSUME NEW t \in Tasks, NEW m \in MODES, down_write_slow(t, m)
       PROVE  Listed'
  <2>1. /\ UNCHANGED <<wait_list, wstate>>
        /\ \A u \in Tasks \ {t} : pc'[u] = pc[u] /\ call'[u] = call[u]
    BY <1>24 DEF down_write_slow, Jump, Goto, lockvars, listvars, wakevars,
          TaskTypes
  <2>2. /\ WaitsToRead(t) => WaitsToRead(t)'
        /\ pc'[t] = "r_enqueue" => wait_list = <<>>
        /\ pc'[t] \in {"mark", "mark_back", "mark_owner", "mark_grant"} =>
             wait_list # <<>>
        /\ pc'[t] \in {"mark_back", "mark_owner", "mark_grant"} =>
             ~IsWriter(rwsem_first_waiter)
    BY <1>24 DEF down_write_slow, Jump, Goto, lockvars, listvars, wakevars,
          TaskTypes, Control, Calls, NoCall, Listed, WaitsToRead, WaitPc, MarkPc
  <2> QED BY <2>1, <2>2, ListedKept
<1>25. ASSUME NEW t \in Tasks, set_writer_owned(t) PROVE Listed'
  <2>1. /\ UNCHANGED <<wait_list, wstate>>
        /\ \A u \in Tasks \ {t} : pc'[u] = pc[u] /\ call'[u] = call[u]
    BY <1>25 DEF set_writer_owned, set_owner, Return, Goto, listvars, wakevars,
          TaskTypes
  <2>2. /\ WaitsToRead(t) => WaitsToRead(t)'
        /\ pc'[t] = "r_enqueue" => wait_list = <<>>
        /\ pc'[t] \in {"mark", "mark_back", "mark_owner", "mark_grant"} =>
             wait_list # <<>>
        /\ pc'[t] \in {"mark_back", "mark_owner", "mark_grant"} =>
             ~IsWriter(rwsem_first_waiter)
    BY <1>25 DEF set_writer_owned, set_owner, Return, Goto, listvars, wakevars,
          TaskTypes, Control, Calls, NoCall, Listed, WaitsToRead, WaitPc, MarkPc
  <2> QED BY <2>1, <2>2, ListedKept
<1>26. ASSUME NEW t \in Tasks, write_osq_lock(t) PROVE Listed'
  <2>1. /\ UNCHANGED <<wait_list, wstate>>
        /\ \A u \in Tasks \ {t} : pc'[u] = pc[u] /\ call'[u] = call[u]
    BY <1>26 DEF write_osq_lock, Jump, Goto, listvars, taskvars, wakevars,
          TaskTypes
  <2>2. /\ WaitsToRead(t) => WaitsToRead(t)'
        /\ pc'[t] = "r_enqueue" => wait_list = <<>>
        /\ pc'[t] \in {"mark", "mark_back", "mark_owner", "mark_grant"} =>
             wait_list # <<>>
        /\ pc'[t] \in {"mark_back", "mark_owner", "mark_grant"} =>
             ~IsWriter(rwsem_first_waiter)
    BY <1>26 DEF write_osq_lock, Jump, Goto, listvars, taskvars, wakevars,
          TaskTypes, Control, Calls, NoCall, Listed, WaitsToRead, WaitPc, MarkPc
  <2> QED BY <2>1, <2>2, ListedKept
<1>27. ASSUME NEW t \in Tasks, write_try_unqueued(t) PROVE Listed'
  <2>1. /\ UNCHANGED <<wait_list, wstate>>
        /\ \A u \in Tasks \ {t} : pc'[u] = pc[u] /\ call'[u] = call[u]
    BY <1>27 DEF write_try_unqueued, Jump, Goto, listvars, taskvars, wakevars,
          TaskTypes
  <2>2. /\ WaitsToRead(t) => WaitsToRead(t)'
        /\ pc'[t] = "r_enqueue" => wait_list = <<>>
        /\ pc'[t] \in {"mark", "mark_back", "mark_owner", "mark_grant"} =>
             wait_list # <<>>
        /\ pc'[t] \in {"mark_back", "mark_owner", "mark_grant"} =>
             ~IsWriter(rwsem_first_waiter)
    BY <1>27 DEF write_try_unqueued, Jump, Goto, listvars, taskvars, wakevars,
          TaskTypes, Control, Calls, NoCall, Listed, WaitsToRead, WaitPc, MarkPc
  <2> QED BY <2>1, <2>2, ListedKept
<1>28. ASSUME NEW t \in Tasks, write_stop_spinning(t) PROVE Listed'
  <2>1. /\ UNCHANGED <<wait_list, wstate>>
        /\ \A u \in Tasks \ {t} : pc'[u] = pc[u] /\ call'[u] = call[u]
    BY <1>28 DEF write_stop_spinning, Jump, Goto, listvars, taskvars, wakevars,
          TaskTypes
  <2>2. /\ WaitsToRead(t) => WaitsToRead(t)'
        /\ pc'[t] = "r_enqueue" => wait_list = <<>>
        /\ pc'[t] \in {"mark", "mark_back", "mark_owner", "mark_grant"} =>
             wait_list # <<>>
        /\ pc'[t] \in {"mark_back", "mark_owner", "mark_grant"} =>
             ~IsWriter(rwsem_first_waiter)
    BY <1>28 DEF write_stop_spinning, Jump, Goto, listvars, taskvars, wakevars,
          TaskTypes, Control, Calls, NoCall, Listed, WaitsToRead, WaitPc, MarkPc
  <2> QED BY <2>1, <2>2, ListedKept
<1>29. ASSUME NEW t \in Tasks, write_enqueue(t) PROVE Listed'
  <2>1. /\ pc[t] \in {"w_slow", "w_queue"} /\ wait_lock = NULL
        /\ wait_list' = Append(wait_list, t)
        /\ \A u \in Tasks \ {t} : /\ pc'[u] = pc[u] /\ call'[u] = call[u]
                                  /\ wstate'[u] = wstate[u]
        /\ pc'[t] \in {"mark", "w_try"}
        /\ wstate'[t] = IF wait_list = <<>> THEN "WRITER_FIRST" ELSE "WRITER_NOT_FIRST"
    BY <1>29 DEF write_enqueue, raw_spin_lock, MarkWake, Goto, TaskTypes
  <2>2. ~IsWriter(t) /\ ~WaitsToRead(t) /\ IsWriter(t)'
    BY <2>1 DEF Control, NoCall, MarkPc, WriterPc, WaitsToRead, WaitPc, IsWriter
  <2>3. t \notin Queued
    BY <2>2 DEF Listed
  <2>4. /\ wait_list' \in Seq(Tasks) /\ Distinct(wait_list)'
        /\ wait_list' # <<>>
        /\ Queued' = Queued \cup {t}
        /\ wait_list # <<>> => rwsem_first_waiter' = rwsem_first_waiter
        /\ wait_list = <<>> => rwsem_first_waiter' = t
    BY <2>1, <2>3, Joins DEF Listed
  <2>5. \A u \in Tasks : IsWriter(u) => wait_list # <<>>
    BY QueuedTasks DEF Listed
  <2>6. /\ \A u \in Queued' : IsWriter(u)' \/ WaitsToRead(u)'
        /\ \A u \in Tasks : IsWriter(u)' => u \in Queued'
    <3>1. \A u \in Tasks : u # t => (IsWriter(u)' <=> IsWriter(u)) /\ (WaitsToRead(u) => WaitsToRead(u)')
      BY <2>1 DEF WaitsToRead, IsWriter
    <3> QED BY <2>2, <2>4, <3>1, QueuedTasks DEF Listed
  <2>7. \A u \in Tasks : pc'[u] \notin {"r_enqueue", "mark_back", "mark_owner", "mark_grant"}
    BY <2>1, RwsemAssumption DEF TaskTypes, Locking, LockedPc
  <2>8. \A u \in Tasks : wstate'[u] \in {"WRITER_FIRST", "WRITER_HANDOFF"} =>
                           rwsem_first_waiter' = u
    BY <2>1, <2>4, <2>5 DEF Listed, IsWriter
  <2> QED BY <2>4, <2>6, <2>7, <2>8 DEF Listed
<1>30. ASSUME NEW t \in Tasks, write_try(t) PROVE Listed'
  <2>1. /\ UNCHANGED <<wait_list, wstate>>
        /\ \A u \in Tasks \ {t} : pc'[u] = pc[u] /\ call'[u] = call[u]
    BY <1>30 DEF write_try, Goto, Block, set_state, wakevars, TaskTypes
  <2>2. /\ WaitsToRead(t) => WaitsToRead(t)'
        /\ pc'[t] = "r_enqueue" => wait_list = <<>>
        /\ pc'[t] \in {"mark", "mark_back", "mark_owner", "mark_grant"} =>
             wait_list # <<>>
        /\ pc'[t] \in {"mark_back", "mark_owner", "mark_grant"} =>
             ~IsWriter(rwsem_first_waiter)
    BY <1>30 DEF write_try, Goto, Block, set_state, wakevars, TaskTypes,
          Control, Calls, NoCall, Listed, WaitsToRead, WaitPc, MarkPc
  <2> QED BY <2>1, <2>2, ListedKept
<1>31. ASSUME NEW t \in Tasks, write_locked(t) PROVE Listed'
  <2>1. /\ wait_list' = list_del(t) /\ pc[t] = "w_locked"
        /\ \A u \in Tasks \ {t} : /\ pc'[u] = pc[u] /\ call'[u] = call[u]
                                  /\ wstate'[u] = wstate[u]
        /\ pc'[t] = "write" /\ wstate'[t] = "none"
    BY <1>31 DEF write_locked, Return, Goto, wakevars, TaskTypes
  <2>2. /\ wait_list' \in Seq(Tasks) /\ Distinct(wait_list)'
        /\ Queued' = Queued \ {t}
        /\ wait_list' = <<>> <=> Queued \ {t} = {}
        /\ wait_list # <<>> /\ rwsem_first_waiter \notin {t} =>
             rwsem_first_waiter' = rwsem_first_waiter
    BY <2>1, Leave DEF Listed, list_del
  <2>3. /\ \A u \in Queued' : IsWriter(u)' \/ WaitsToRead(u)'
        /\ \A u \in Tasks : IsWriter(u)' => u \in Queued'
    <3>1. \A u \in Tasks : u # t => (IsWriter(u)' <=> IsWriter(u)) /\ (WaitsToRead(u) => WaitsToRead(u)')
      BY <2>1 DEF WaitsToRead, IsWriter
    <3>2. ~IsWriter(t)'
      BY <2>1 DEF IsWriter, Control, WriterPc, NoCall, MarkPc
    <3> QED BY <2>2, <3>1, <3>2, QueuedTasks DEF Listed
  <2>4. \A u \in Tasks : pc'[u] \notin {"r_enqueue", "mark_back", "mark_owner", "mark_grant"}
    BY <2>1, RwsemAssumption DEF TaskTypes, Locking, LockedPc
  <2>5. \A u \in Tasks : pc'[u] = "mark" => wait_list' # <<>>
    BY <2>1, RwsemAssumption DEF TaskTypes, Locking, LockedPc
  <2>6. \A u \in Tasks : wstate'[u] \in {"WRITER_FIRST", "WRITER_HANDOFF"} =>
                           rwsem_first_waiter' = u
    <3>1. \A u \in Tasks : wstate'[u] # "none" => u # t /\ wstate'[u] = wstate[u]
      BY <2>1 DEF Control, IsWriter, WriterPc, NoCall, MarkPc
    <3>2. \A u \in Tasks : wstate[u] # "none" => wait_list # <<>>
      BY QueuedTasks DEF Listed, IsWriter
    <3> QED BY <2>2, <3>1, <3>2 DEF Listed
  <2> QED BY <2>2, <2>3, <2>4, <2>5, <2>6 DEF Listed
<1>32. ASSUME NEW t \in Tasks, write_spin_on_owner(t) PROVE Listed'
  <2>1. /\ UNCHANGED <<wait_list, wstate>>
        /\ \A u \in Tasks \ {t} : pc'[u] = pc[u] /\ call'[u] = call[u]
    BY <1>32 DEF write_spin_on_owner, Goto, Block, set_state, lockvars,
          listvars, wakevars, TaskTypes
  <2>2. /\ WaitsToRead(t) => WaitsToRead(t)'
        /\ pc'[t] = "r_enqueue" => wait_list = <<>>
        /\ pc'[t] \in {"mark", "mark_back", "mark_owner", "mark_grant"} =>
             wait_list # <<>>
        /\ pc'[t] \in {"mark_back", "mark_owner", "mark_grant"} =>
             ~IsWriter(rwsem_first_waiter)
    BY <1>32 DEF write_spin_on_owner, Goto, Block, set_state, lockvars,
          listvars, wakevars, TaskTypes, Control, Calls, NoCall, Listed,
          WaitsToRead, WaitPc, MarkPc
  <2> QED BY <2>1, <2>2, ListedKept
<1>33. ASSUME NEW t \in Tasks, write_schedule(t) PROVE Listed'
  BY <1>33, RwsemAssumption DEF write_schedule, listvars, Jump, Goto,
        set_state, lockvars, wakevars, TaskTypes, Control, Locking, Listed,
        IsWriter, WaitsToRead, Queued, rwsem_first_waiter, Distinct, Calls,
        NoCall, WriterPc, WaitPc, LockedPc, MarkPc
<1>33a. ASSUME NEW t \in Tasks, write_first(t) PROVE Listed'
  BY <1>33a, RwsemAssumption DEF write_first, Jump, Goto, taskvars, lockvars,
        wakevars, TaskTypes, Control, Locking, Listed, IsWriter, WaitsToRead,
        Queued, rwsem_first_waiter, Distinct, Calls, NoCall, WriterPc, WaitPc,
        LockedPc, MarkPc
<1>34. ASSUME NEW t \in Tasks, NEW timeout \in BOOLEAN, write_count(t, timeout)
       PROVE  Listed'
  BY <1>34, RwsemAssumption DEF write_count, Goto, Block, set_state, lockvars,
        wakevars, TaskTypes, Control, Locking, Listed, IsWriter, WaitsToRead,
        Queued, rwsem_first_waiter, Distinct, Calls, NoCall, WriterPc, WaitPc,
        LockedPc, MarkPc
<1>35. ASSUME NEW t \in Tasks, write_signal(t) PROVE Listed'
  <2>1. /\ wait_list' = list_del(t) /\ wait_lock = NULL
        /\ \A u \in Tasks \ {t} : /\ pc'[u] = pc[u] /\ call'[u] = call[u]
                                  /\ wstate'[u] = wstate[u]
        /\ \/ pc'[t] = "idle"
           \/ pc'[t] = "mark" /\ wait_list' # <<>>
        /\ wstate'[t] = "none"
    BY <1>35 DEF write_signal, MarkWake, Goto, TaskTypes
  <2>2. /\ wait_list' \in Seq(Tasks) /\ Distinct(wait_list)'
        /\ Queued' = Queued \ {t}
        /\ wait_list' = <<>> <=> Queued \ {t} = {}
        /\ wait_list # <<>> /\ rwsem_first_waiter \notin {t} =>
             rwsem_first_waiter' = rwsem_first_waiter
    BY <2>1, Leave DEF Listed, list_del
  <2>3. /\ \A u \in Queued' : IsWriter(u)' \/ WaitsToRead(u)'
        /\ \A u \in Tasks : IsWriter(u)' => u \in Queued'
    <3>1. \A u \in Tasks : u # t => (IsWriter(u)' <=> IsWriter(u)) /\ (WaitsToRead(u) => WaitsToRead(u)')
      BY <2>1 DEF WaitsToRead, IsWriter
    <3>2. ~IsWriter(t)'
      BY <2>1 DEF IsWriter, Control, WriterPc, NoCall, MarkPc
    <3> QED BY <2>2, <3>1, <3>2, QueuedTasks DEF Listed
  <2>4. \A u \in Tasks : pc'[u] \notin {"r_enqueue", "mark_back", "mark_owner", "mark_grant"}
    BY <2>1, RwsemAssumption DEF TaskTypes, Locking, LockedPc
  <2>5. \A u \in Tasks : pc'[u] = "mark" => wait_list' # <<>>
    BY <2>1, RwsemAssumption DEF TaskTypes, Locking, LockedPc
  <2>6. \A u \in Tasks : wstate'[u] \in {"WRITER_FIRST", "WRITER_HANDOFF"} =>
                           rwsem_first_waiter' = u
    <3>1. \A u \in Tasks : wstate'[u] # "none" => u # t /\ wstate'[u] = wstate[u]
      BY <2>1 DEF Control, IsWriter, WriterPc, NoCall, MarkPc
    <3>2. \A u \in Tasks : wstate[u] # "none" => wait_list # <<>>
      BY QueuedTasks DEF Listed, IsWriter
    <3> QED BY <2>2, <3>1, <3>2 DEF Listed
  <2> QED BY <2>2, <2>3, <2>4, <2>5, <2>6 DEF Listed
<1>36. ASSUME NEW t \in Tasks, up_read(t) PROVE Listed'
  <2>1. /\ UNCHANGED <<wait_list, wstate>>
        /\ \A u \in Tasks \ {t} : pc'[u] = pc[u] /\ call'[u] = call[u]
    BY <1>36 DEF up_read, add_readers, Goto, listvars, taskvars, wakevars,
          TaskTypes
  <2>2. /\ WaitsToRead(t) => WaitsToRead(t)'
        /\ pc'[t] = "r_enqueue" => wait_list = <<>>
        /\ pc'[t] \in {"mark", "mark_back", "mark_owner", "mark_grant"} =>
             wait_list # <<>>
        /\ pc'[t] \in {"mark_back", "mark_owner", "mark_grant"} =>
             ~IsWriter(rwsem_first_waiter)
    BY <1>36 DEF up_read, add_readers, Goto, listvars, taskvars, wakevars,
          TaskTypes, Control, Calls, NoCall, Listed, WaitsToRead, WaitPc, MarkPc
  <2> QED BY <2>1, <2>2, ListedKept
<1>37. ASSUME NEW t \in Tasks, clear_owner(t) PROVE Listed'
  <2>1. /\ UNCHANGED <<wait_list, wstate>>
        /\ \A u \in Tasks \ {t} : pc'[u] = pc[u] /\ call'[u] = call[u]
    BY <1>37 DEF clear_owner, Jump, Goto, set_owner, listvars, taskvars,
          wakevars, TaskTypes
  <2>2. /\ WaitsToRead(t) => WaitsToRead(t)'
        /\ pc'[t] = "r_enqueue" => wait_list = <<>>
        /\ pc'[t] \in {"mark", "mark_back", "mark_owner", "mark_grant"} =>
             wait_list # <<>>
        /\ pc'[t] \in {"mark_back", "mark_owner", "mark_grant"} =>
             ~IsWriter(rwsem_first_waiter)
    BY <1>37 DEF clear_owner, Jump, Goto, set_owner, listvars, taskvars,
          wakevars, TaskTypes, Control, Calls, NoCall, Listed, WaitsToRead,
          WaitPc, MarkPc
  <2> QED BY <2>1, <2>2, ListedKept
<1>38. ASSUME NEW t \in Tasks, up_write(t) PROVE Listed'
  <2>1. /\ UNCHANGED <<wait_list, wstate>>
        /\ \A u \in Tasks \ {t} : pc'[u] = pc[u] /\ call'[u] = call[u]
    BY <1>38 DEF up_write, Jump, Goto, listvars, taskvars, wakevars, TaskTypes
  <2>2. /\ WaitsToRead(t) => WaitsToRead(t)'
        /\ pc'[t] = "r_enqueue" => wait_list = <<>>
        /\ pc'[t] \in {"mark", "mark_back", "mark_owner", "mark_grant"} =>
             wait_list # <<>>
        /\ pc'[t] \in {"mark_back", "mark_owner", "mark_grant"} =>
             ~IsWriter(rwsem_first_waiter)
    BY <1>38 DEF up_write, Jump, Goto, listvars, taskvars, wakevars, TaskTypes,
          Control, Calls, NoCall, Listed, WaitsToRead, WaitPc, MarkPc
  <2> QED BY <2>1, <2>2, ListedKept
<1>39. ASSUME NEW t \in Tasks, downgrade_write(t) PROVE Listed'
  <2>1. /\ UNCHANGED <<wait_list, wstate>>
        /\ \A u \in Tasks \ {t} : pc'[u] = pc[u] /\ call'[u] = call[u]
    BY <1>39 DEF downgrade_write, Jump, Goto, listvars, taskvars, wakevars,
          TaskTypes
  <2>2. /\ WaitsToRead(t) => WaitsToRead(t)'
        /\ pc'[t] = "r_enqueue" => wait_list = <<>>
        /\ pc'[t] \in {"mark", "mark_back", "mark_owner", "mark_grant"} =>
             wait_list # <<>>
        /\ pc'[t] \in {"mark_back", "mark_owner", "mark_grant"} =>
             ~IsWriter(rwsem_first_waiter)
    BY <1>39 DEF downgrade_write, Jump, Goto, listvars, taskvars, wakevars,
          TaskTypes, Control, Calls, NoCall, Listed, WaitsToRead, WaitPc, MarkPc
  <2> QED BY <2>1, <2>2, ListedKept
<1>40. ASSUME NEW t \in Tasks, downgrade_owner(t) PROVE Listed'
  <2>1. /\ UNCHANGED <<wait_list, wstate>>
        /\ \A u \in Tasks \ {t} : pc'[u] = pc[u] /\ call'[u] = call[u]
    BY <1>40 DEF downgrade_owner, Jump, Goto, set_owner, listvars, taskvars,
          wakevars, TaskTypes
  <2>2. /\ WaitsToRead(t) => WaitsToRead(t)'
        /\ pc'[t] = "r_enqueue" => wait_list = <<>>
        /\ pc'[t] \in {"mark", "mark_back", "mark_owner", "mark_grant"} =>
             wait_list # <<>>
        /\ pc'[t] \in {"mark_back", "mark_owner", "mark_grant"} =>
             ~IsWriter(rwsem_first_waiter)
    BY <1>40 DEF downgrade_owner, Jump, Goto, set_owner, listvars, taskvars,
          wakevars, TaskTypes, Control, Calls, NoCall, Listed, WaitsToRead,
          WaitPc, MarkPc
  <2> QED BY <2>1, <2>2, ListedKept
<1>41. ASSUME NEW t \in Tasks, rwsem_wake(t, "wake", "RWSEM_WAKE_ANY", "idle")
       PROVE  Listed'
  <2>1. /\ UNCHANGED <<wait_list, wstate>>
        /\ \A u \in Tasks \ {t} : pc'[u] = pc[u] /\ call'[u] = call[u]
    BY <1>41 DEF rwsem_wake, Goto, MarkWake, lockvars, taskvars, TaskTypes
  <2>2. /\ WaitsToRead(t) => WaitsToRead(t)'
        /\ pc'[t] = "r_enqueue" => wait_list = <<>>
        /\ pc'[t] \in {"mark", "mark_back", "mark_owner", "mark_grant"} =>
             wait_list # <<>>
        /\ pc'[t] \in {"mark_back", "mark_owner", "mark_grant"} =>
             ~IsWriter(rwsem_first_waiter)
    BY <1>41 DEF rwsem_wake, Goto, MarkWake, lockvars, taskvars, TaskTypes,
          Control, Calls, NoCall, Listed, WaitsToRead, WaitPc, MarkPc
  <2> QED BY <2>1, <2>2, ListedKept
<1>42. ASSUME NEW t \in Tasks,
              rwsem_wake(t, "downgrade_wake", "RWSEM_WAKE_READ_OWNED", "read")
       PROVE  Listed'
  <2>1. /\ UNCHANGED <<wait_list, wstate>>
        /\ \A u \in Tasks \ {t} : pc'[u] = pc[u] /\ call'[u] = call[u]
    BY <1>42 DEF rwsem_wake, Goto, MarkWake, lockvars, taskvars, TaskTypes
  <2>2. /\ WaitsToRead(t) => WaitsToRead(t)'
        /\ pc'[t] = "r_enqueue" => wait_list = <<>>
        /\ pc'[t] \in {"mark", "mark_back", "mark_owner", "mark_grant"} =>
             wait_list # <<>>
        /\ pc'[t] \in {"mark_back", "mark_owner", "mark_grant"} =>
             ~IsWriter(rwsem_first_waiter)
    BY <1>42 DEF rwsem_wake, Goto, MarkWake, lockvars, taskvars, TaskTypes,
          Control, Calls, NoCall, Listed, WaitsToRead, WaitPc, MarkPc
  <2> QED BY <2>1, <2>2, ListedKept
<1>43. ASSUME NEW t \in Tasks, signal_wake_up(t) PROVE Listed'
  <2>1. /\ UNCHANGED <<wait_list, wstate>>
        /\ \A u \in Tasks \ {t} : pc'[u] = pc[u] /\ call'[u] = call[u]
    BY <1>43 DEF signal_wake_up, set_state, lockvars, listvars, wakevars,
          TaskTypes
  <2>2. /\ WaitsToRead(t) => WaitsToRead(t)'
        /\ pc'[t] = "r_enqueue" => wait_list = <<>>
        /\ pc'[t] \in {"mark", "mark_back", "mark_owner", "mark_grant"} =>
             wait_list # <<>>
        /\ pc'[t] \in {"mark_back", "mark_owner", "mark_grant"} =>
             ~IsWriter(rwsem_first_waiter)
    BY <1>43 DEF signal_wake_up, set_state, lockvars, listvars, wakevars,
          TaskTypes, Control, Calls, NoCall, Listed, WaitsToRead, WaitPc, MarkPc
  <2> QED BY <2>1, <2>2, ListedKept
<1> QED BY <1>0, <1>1, <1>2, <1>3, <1>4, <1>5, <1>6, <1>7, <1>8, <1>9, <1>10,
      <1>11, <1>11a, <1>12, <1>13, <1>14, <1>15, <1>16, <1>17, <1>18, <1>19,
      <1>20, <1>21, <1>22, <1>23, <1>24, <1>25, <1>26, <1>27, <1>28, <1>29,
      <1>30, <1>31, <1>32, <1>33, <1>33a, <1>34, <1>35, <1>36, <1>37, <1>38,
      <1>39, <1>40, <1>41, <1>42, <1>43 DEF Next, Start, Continue, mark_wake,
      read_step, write_step, unlock_step

-----------------------------------------------------------------------------
(***************************************************************************)
(* The flags of count.                                                      *)
(***************************************************************************)

\* Every field of count keeps its type when it is given a value of it.
LEMMA CountUpdates ==
  ASSUME NEW c \in CountType
  PROVE  /\ \A w \in 0..1, r \in Int : [c EXCEPT !.writer = w, !.readers = r] \in CountType
         /\ \A w, h \in 0..1 : [c EXCEPT !.waiters = w, !.handoff = h] \in CountType
         /\ \A w, h \in 0..1 : [c EXCEPT !.handoff = h, !.waiters = w] \in CountType
         /\ \A w, h, v \in 0..1 : [c EXCEPT !.writer = w, !.handoff = h, !.waiters = v] \in CountType
         /\ \A r \in Int, h \in 0..1 : [c EXCEPT !.readers = r, !.handoff = h] \in CountType
         /\ \A r \in Int, w \in 0..1 : [c EXCEPT !.readers = r, !.waiters = w] \in CountType
         /\ \A r \in Int, w, h \in 0..1 :
              [c EXCEPT !.readers = r, !.waiters = w, !.handoff = h] \in CountType
BY DEF CountType

\* No bit of count is set twice or cleared twice: who clears WAITERS or HANDOFF
\* has seen it set under wait_lock, and the writer bit is cleared by its owner.
LEMMA TypesStep ==
  ASSUME Types, TaskTypes, Control, Locking, Listed, Flags, Exclusion,
         [Next]_vars
  PROVE  Types'
<1>0. UNCHANGED vars => Types'
  BY DEF vars, lockvars, listvars, taskvars, wakevars, Types, CountType
<1>1. ASSUME NEW t \in Tasks, mark_first(t) PROVE Types'
  <2>1. /\ pc[t] = "mark" /\ UNCHANGED <<owner, osq>>
        /\ wait_lock' \in {wait_lock, NULL}
        /\ count' \in {count, [count EXCEPT !.readers = @ + 1]}
        /\ \/ UNCHANGED wake_q
           \/ \E ts \in {{rwsem_first_waiter}, {}} : wake_q_add(t, ts)
    BY <1>1 DEF mark_first, Marked, add_readers, wakevars
  <2>2. rwsem_first_waiter \in Tasks
    BY <2>1, QueuedTasks DEF Listed
  <2>3. wake_q' \in [Tasks -> SUBSET Tasks]
    BY <2>1, <2>2 DEF Types, wake_q_add
  <2> QED BY <2>1, <2>3 DEF Types, CountType
<1>2. ASSUME NEW t \in Tasks, NEW timeout \in BOOLEAN, mark_back(t, timeout)
      PROVE  Types'
  <2>1. /\ UNCHANGED <<owner, osq, wake_q>> /\ wait_lock' \in {wait_lock, NULL}
        /\ count' = [count EXCEPT !.readers = @ - 1,
                       !.handoff = IF ~Handoff /\ timeout THEN @ + 1 ELSE @]
    BY <1>2 DEF mark_back, Marked
  <2>2. count' \in CountType
    <3>1. /\ count.readers - 1 \in Int
          /\ (IF ~Handoff /\ timeout THEN count.handoff + 1 ELSE count.handoff) \in 0..1
      BY DEF Types, CountType, Handoff
    <3> QED BY <2>1, <3>1, CountUpdates DEF Types
  <2> QED BY <2>1, <2>2 DEF Types
<1>3. ASSUME NEW t \in Tasks, mark_owner(t) PROVE Types'
  <2>1. /\ pc[t] = "mark_owner" /\ UNCHANGED <<count, osq, wake_q, wait_lock>>
        /\ owner' = [task |-> rwsem_first_waiter, reader |-> TRUE]
    BY <1>3 DEF mark_owner, Jump, set_owner, listvars, wakevars
  <2>2. rwsem_first_waiter \in Tasks
    BY <2>1, QueuedTasks DEF Listed
  <2> QED BY <2>1, <2>2 DEF Types
<1>4. ASSUME NEW t \in Tasks, mark_grant(t) PROVE Types'
  <2> DEFINE rest == Without(wait_list, Woken)
             granted == IF call[t].type = "RWSEM_WAKE_READ_OWNED" THEN 0 ELSE 1
  <2>1. /\ pc[t] = "mark_grant" /\ UNCHANGED <<owner, osq>>
        /\ wait_lock' \in {wait_lock, NULL}
        /\ count' = [count EXCEPT !.readers = @ + NrWoken - granted,
                                  !.waiters = IF rest = <<>> THEN @ - 1 ELSE @,
                                  !.handoff = IF Handoff THEN @ - 1 ELSE @]
        /\ wake_q_add(t, Woken)
    BY <1>4 DEF mark_grant, Marked
  <2>2. Woken \subseteq Tasks /\ NrWoken \in Nat
    BY WokenReaders, QueuedTasks, FS_CardinalityType DEF Listed
  <2>3. wake_q' \in [Tasks -> SUBSET Tasks]
    BY <2>1, <2>2 DEF Types, wake_q_add
  <2>4. count.waiters # 0
    BY <2>1 DEF Flags, Listed, Locking, LockedPc
  <2>5. granted \in Int
    OBVIOUS
  <2> HIDE DEF rest, granted
  <2>6. count' \in CountType
    <3>1. /\ count.readers + NrWoken - granted \in Int
          /\ (IF rest = <<>> THEN count.waiters - 1 ELSE count.waiters) \in 0..1
          /\ (IF Handoff THEN count.handoff - 1 ELSE count.handoff) \in 0..1
      BY <2>2, <2>4, <2>5 DEF Types, CountType, Handoff
    <3> QED BY <2>1, <3>1, CountUpdates DEF Types
  <2> QED BY <2>1, <2>3, <2>6 DEF Types
<1>5. ASSUME NEW t \in Tasks, wake_up_q(t) PROVE Types'
  BY <1>5 DEF wake_up_q, Goto, raw_spin_lock, set_state, lockvars, Types,
        CountType
<1>6. ASSUME NEW t \in Tasks, NEW m \in MODES, down_read(t, m) PROVE Types'
  BY <1>6 DEF down_read, add_readers, Goto, listvars, wakevars, Types, CountType
<1>7. ASSUME NEW t \in Tasks, down_read_trylock(t) PROVE Types'
  BY <1>7 DEF down_read_trylock, Jump, Goto, add_readers, listvars, taskvars,
        wakevars, Types, CountType
<1>8. ASSUME NEW t \in Tasks, set_reader_owned(t) PROVE Types'
  BY <1>8 DEF set_reader_owned, set_owner, Goto, Return, listvars, wakevars,
        Types, CountType
<1>9. ASSUME NEW t \in Tasks, read_undo(t) PROVE Types'
  BY <1>9 DEF read_undo, Jump, Goto, add_readers, listvars, taskvars, wakevars,
        Types, CountType
<1>10. ASSUME NEW t \in Tasks, read_osq_lock(t) PROVE Types'
  BY <1>10 DEF read_osq_lock, Jump, Goto, listvars, taskvars, wakevars, Types,
        CountType
<1>11. ASSUME NEW t \in Tasks, read_try(t) PROVE Types'
  BY <1>11 DEF read_try, Jump, Goto, lockvars, listvars, taskvars, wakevars,
        Types, CountType
<1>11a. ASSUME NEW t \in Tasks, read_phase(t) PROVE Types'
  BY <1>11a DEF read_phase, Goto, lockvars, listvars, taskvars, wakevars,
        Types, CountType
<1>12. ASSUME NEW t \in Tasks, read_add(t) PROVE Types'
  BY <1>12 DEF read_add, Jump, Goto, add_readers, listvars, taskvars, wakevars,
        Types, CountType
<1>13. ASSUME NEW t \in Tasks, read_back(t) PROVE Types'
  BY <1>13 DEF read_back, Jump, Goto, add_readers, listvars, taskvars,
        wakevars, Types, CountType
<1>14. ASSUME NEW t \in Tasks, read_stop_spinning(t) PROVE Types'
  BY <1>14 DEF read_stop_spinning, Jump, Goto, listvars, taskvars, wakevars,
        Types, CountType
<1>15. ASSUME NEW t \in Tasks, read_spun(t) PROVE Types'
  BY <1>15 DEF read_spun, Return, Goto, lockvars, Types, CountType
<1>16. ASSUME NEW t \in Tasks, read_spun_lock(t) PROVE Types'
  BY <1>16 DEF read_spun_lock, Goto, MarkWake, lockvars, Types, CountType
<1>17. ASSUME NEW t \in Tasks, read_queue_test(t) PROVE Types'
  BY <1>17 DEF read_queue_test, Goto, lockvars, taskvars, wakevars, Types,
        CountType
<1>18. ASSUME NEW t \in Tasks, read_enqueue(t) PROVE Types'
  <2>1. /\ UNCHANGED <<owner, osq, wake_q>> /\ wait_lock' \in {t, NULL}
        /\ count' = [count EXCEPT !.readers = IF pc[t] \in {"r_slow", "r_enqueue"}
                                                THEN @ - 1 ELSE @,
                                  !.waiters = IF wait_list = <<>> THEN @ + 1 ELSE @]
        /\ pc[t] = "r_enqueue" \/ wait_lock = NULL
    BY <1>18 DEF read_enqueue
  <2>2. wait_list = <<>> => count.waiters = 0
    <3>1. \A u \in Tasks : pc[u] # "w_locked"
      BY <2>1, RwsemAssumption DEF Locking, LockedPc
    <3> QED BY <3>1 DEF Flags
  <2>3. count' \in CountType
    <3>1. /\ (IF pc[t] \in {"r_slow", "r_enqueue"} THEN count.readers - 1
                                                    ELSE count.readers) \in Int
          /\ (IF wait_list = <<>> THEN count.waiters + 1 ELSE count.waiters) \in 0..1
      BY <2>2 DEF Types, CountType
    <3> QED BY <2>1, <3>1, CountUpdates DEF Types
  <2> QED BY <2>1, <2>3 DEF Types
<1>19. ASSUME NEW t \in Tasks, read_set_state(t) PROVE Types'
  BY <1>19 DEF read_set_state, Jump, Goto, set_state, lockvars, listvars,
        wakevars, Types, CountType
<1>20. ASSUME NEW t \in Tasks, read_check(t) PROVE Types'
  BY <1>20 DEF read_check, Goto, Return, set_state, taskvars, lockvars,
        listvars, wakevars, Types, CountType
<1>21. ASSUME NEW t \in Tasks, read_schedule(t) PROVE Types'
  BY <1>21 DEF read_schedule, Jump, Goto, lockvars, listvars, taskvars,
        wakevars, Types, CountType
<1>22. ASSUME NEW t \in Tasks, read_signal(t) PROVE Types'
  <2>1. /\ UNCHANGED <<owner, osq, wake_q, wait_lock>>
        /\ count' \in {count, [count EXCEPT !.waiters = 0, !.handoff = 0]}
    BY <1>22 DEF read_signal, wakevars
  <2>2. count' \in CountType
    <3>1. 0 \in 0..1 /\ count \in CountType
      BY DEF Types
    <3>2. [count EXCEPT !.waiters = 0, !.handoff = 0] \in CountType
      BY <3>1, CountUpdates
    <3> QED BY <2>1, <3>1, <3>2
  <2> QED BY <2>1, <2>2 DEF Types
<1>23. ASSUME NEW t \in Tasks, down_write_fast(t) PROVE Types'
  BY <1>23 DEF down_write_fast, Jump, Goto, listvars, taskvars, wakevars,
        Types, CountType
<1>24. ASSUME NEW t \in Tasks, NEW m \in MODES, down_write_slow(t, m)
       PROVE  Types'
  BY <1>24 DEF down_write_slow, Jump, Goto, lockvars, listvars, wakevars,
        Types, CountType
<1>25. ASSUME NEW t \in Tasks, set_writer_owned(t) PROVE Types'
  BY <1>25 DEF set_writer_owned, set_owner, Return, Goto, listvars, wakevars,
        Types, CountType
<1>26. ASSUME NEW t \in Tasks, write_osq_lock(t) PROVE Types'
  BY <1>26 DEF write_osq_lock, Jump, Goto, listvars, taskvars, wakevars, Types,
        CountType
<1>27. ASSUME NEW t \in Tasks, write_try_unqueued(t) PROVE Types'
  BY <1>27 DEF write_try_unqueued, Jump, Goto, listvars, taskvars, wakevars,
        Types, CountType
<1>28. ASSUME NEW t \in Tasks, write_stop_spinning(t) PROVE Types'
  BY <1>28 DEF write_stop_spinning, Jump, Goto, listvars, taskvars, wakevars,
        Types, CountType
<1>29. ASSUME NEW t \in Tasks, write_enqueue(t) PROVE Types'
  BY <1>29 DEF write_enqueue, raw_spin_lock, Goto, set_state, MarkWake, Types,
        CountType
<1>30. ASSUME NEW t \in Tasks, write_try(t) PROVE Types'
  <2>1. /\ UNCHANGED <<owner, osq, wake_q>> /\ wait_lock' \in {t, NULL}
        /\ \/ count' = [count EXCEPT !.writer = 1, !.handoff = 0,
                                    !.waiters = IF Len(wait_list) = 1 THEN 0 ELSE @]
           \/ \E b \in BOOLEAN : count' = [count EXCEPT !.handoff = IF b THEN 1 ELSE @]
    BY <1>30 DEF write_try, wakevars
  <2>2. count' \in CountType
    <3>1. /\ (IF Len(wait_list) = 1 THEN 0 ELSE count.waiters) \in 0..1
          /\ \A b \in BOOLEAN : (IF b THEN 1 ELSE count.handoff) \in 0..1
      BY DEF Types, CountType
    <3>2. \A h \in 0..1 : [count EXCEPT !.handoff = h] \in CountType
      BY DEF Types, CountType
    <3>3. 0 \in 0..1 /\ 1 \in 0..1 /\ count \in CountType
      BY DEF Types
    <3>4. [count EXCEPT !.writer = 1, !.handoff = 0,
                        !.waiters = IF Len(wait_list) = 1 THEN 0 ELSE @] \in CountType
      BY <3>1, <3>3, CountUpdates
    <3> QED BY <2>1, <3>1, <3>2, <3>4
  <2> QED BY <2>1, <2>2 DEF Types
<1>31. ASSUME NEW t \in Tasks, write_locked(t) PROVE Types'
  BY <1>31 DEF write_locked, set_owner, set_state, Return, Goto, wakevars,
        Types, CountType
<1>32. ASSUME NEW t \in Tasks, write_spin_on_owner(t) PROVE Types'
  BY <1>32 DEF write_spin_on_owner, Goto, Block, set_state, lockvars, listvars,
        wakevars, Types, CountType
<1>33. ASSUME NEW t \in Tasks, write_schedule(t) PROVE Types'
  BY <1>33 DEF write_schedule, listvars, Jump, Goto, set_state, lockvars,
        wakevars, Types, CountType
<1>33a. ASSUME NEW t \in Tasks, write_first(t) PROVE Types'
  BY <1>33a DEF write_first, Jump, Goto, taskvars, lockvars, wakevars, Types,
        CountType
<1>34. ASSUME NEW t \in Tasks, NEW timeout \in BOOLEAN, write_count(t, timeout)
       PROVE  Types'
  BY <1>34 DEF write_count, Goto, Block, set_state, lockvars, wakevars, Types,
        CountType
<1>35. ASSUME NEW t \in Tasks, write_signal(t) PROVE Types'
  <2>1. /\ UNCHANGED <<owner, osq, wake_q>> /\ wait_lock' \in {t, wait_lock}
        /\ pc[t] = "w_signal"
        /\ count' = [count EXCEPT
                 !.handoff = IF wstate[t] = "WRITER_HANDOFF" THEN @ - 1 ELSE @,
                 !.waiters = IF wait_list' = <<>> THEN 0 ELSE @]
    BY <1>35 DEF write_signal
  <2>2. wstate[t] = "WRITER_HANDOFF" => count.handoff = 1
    BY <2>1 DEF Flags
  <2>3. count' \in CountType
    <3>1. /\ (IF wstate[t] = "WRITER_HANDOFF" THEN count.handoff - 1
                                               ELSE count.handoff) \in 0..1
          /\ (IF wait_list' = <<>> THEN 0 ELSE count.waiters) \in 0..1
      BY <2>2 DEF Types, CountType
    <3> QED BY <2>1, <3>1, CountUpdates DEF Types
  <2> QED BY <2>1, <2>3 DEF Types
<1>36. ASSUME NEW t \in Tasks, up_read(t) PROVE Types'
  BY <1>36 DEF up_read, add_readers, Goto, listvars, taskvars, wakevars, Types,
        CountType
<1>37. ASSUME NEW t \in Tasks, clear_owner(t) PROVE Types'
  BY <1>37 DEF clear_owner, Jump, Goto, set_owner, listvars, taskvars,
        wakevars, Types, CountType
<1>38. ASSUME NEW t \in Tasks, up_write(t) PROVE Types'
  <2>1. /\ UNCHANGED <<owner, osq, wake_q, wait_lock>> /\ pc[t] = "up_write"
        /\ count' = [count EXCEPT !.writer = @ - 1]
    BY <1>38 DEF up_write, Jump, listvars, wakevars
  <2>2. count.writer # 0
    BY <2>1 DEF Exclusion, WriteHolders, WritePc
  <2>3. count' \in CountType
    <3>1. count.writer - 1 \in 0..1 /\ count.readers + 1 \in Int
      BY <2>2 DEF Types, CountType
    <3>2. \A w \in 0..1 : [count EXCEPT !.writer = w] \in CountType
      BY DEF Types, CountType
    <3> QED BY <2>1, <3>1, <3>2, CountUpdates DEF Types
  <2> QED BY <2>1, <2>3 DEF Types
<1>39. ASSUME NEW t \in Tasks, downgrade_write(t) PROVE Types'
  <2>1. /\ UNCHANGED <<owner, osq, wake_q, wait_lock>> /\ pc[t] = "write"
        /\ count' = [count EXCEPT !.writer = @ - 1, !.readers = @ + 1]
    BY <1>39 DEF downgrade_write, Jump, listvars, wakevars
  <2>2. count.writer # 0
    BY <2>1 DEF Exclusion, WriteHolders, WritePc
  <2>3. count' \in CountType
    <3>1. count.writer - 1 \in 0..1 /\ count.readers + 1 \in Int
      BY <2>2 DEF Types, CountType
    <3>2. \A w \in 0..1 : [count EXCEPT !.writer = w] \in CountType
      BY DEF Types, CountType
    <3> QED BY <2>1, <3>1, <3>2, CountUpdates DEF Types
  <2> QED BY <2>1, <2>3 DEF Types
<1>40. ASSUME NEW t \in Tasks, downgrade_owner(t) PROVE Types'
  BY <1>40 DEF downgrade_owner, Jump, Goto, set_owner, listvars, taskvars,
        wakevars, Types, CountType
<1>41. ASSUME NEW t \in Tasks, rwsem_wake(t, "wake", "RWSEM_WAKE_ANY", "idle")
       PROVE  Types'
  BY <1>41 DEF rwsem_wake, Goto, MarkWake, lockvars, taskvars, Types, CountType
<1>42. ASSUME NEW t \in Tasks,
              rwsem_wake(t, "downgrade_wake", "RWSEM_WAKE_READ_OWNED", "read")
       PROVE  Types'
  BY <1>42 DEF rwsem_wake, Goto, MarkWake, lockvars, taskvars, Types, CountType
<1>43. ASSUME NEW t \in Tasks, signal_wake_up(t) PROVE Types'
  BY <1>43 DEF signal_wake_up, set_state, lockvars, listvars, wakevars, Types,
        CountType
<1> QED BY <1>0, <1>1, <1>2, <1>3, <1>4, <1>5, <1>6, <1>7, <1>8, <1>9, <1>10,
      <1>11, <1>11a, <1>12, <1>13, <1>14, <1>15, <1>16, <1>17, <1>18, <1>19,
      <1>20, <1>21, <1>22, <1>23, <1>24, <1>25, <1>26, <1>27, <1>28, <1>29,
      <1>30, <1>31, <1>32, <1>33, <1>33a, <1>34, <1>35, <1>36, <1>37, <1>38,
      <1>39, <1>40, <1>41, <1>42, <1>43 DEF Next, Start, Continue, mark_wake,
      read_step, write_step, unlock_step

\* WAITERS follows the list, and HANDOFF stays for the writer that set it until
\* that writer gets the lock or gives up.
LEMMA FlagsStep ==
  ASSUME Types, TaskTypes, Control, Locking, Listed, Flags, [Next]_vars
  PROVE  Flags'
<1>0. UNCHANGED vars => Flags'
  BY DEF vars, lockvars, listvars, taskvars, wakevars, Types, CountType,
        TaskTypes, Control, Locking, Listed, Flags, IsWriter, LockMask,
        Handoff, WriterMask, LockedPc, MarkPc, NoCall, WriterPc, Calls
<1>1. ASSUME NEW t \in Tasks, mark_first(t) PROVE Flags'
  BY <1>1, RwsemAssumption DEF mark_first, Marked, wake_q_add, Goto, set_state,
        add_readers, wakevars, Types, CountType, TaskTypes, Control, Locking,
        Listed, Flags, IsWriter, LockMask, Handoff, WriterMask, LockedPc,
        MarkPc, NoCall, WriterPc, Calls
<1>2. ASSUME NEW t \in Tasks, NEW timeout \in BOOLEAN, mark_back(t, timeout)
      PROVE  Flags'
  BY <1>2, RwsemAssumption DEF mark_back, Marked, Goto, set_state, Types,
        CountType, TaskTypes, Control, Locking, Listed, Flags, IsWriter,
        LockMask, Handoff, WriterMask, LockedPc, MarkPc, NoCall, WriterPc, Calls
<1>3. ASSUME NEW t \in Tasks, mark_owner(t) PROVE Flags'
  BY <1>3, RwsemAssumption DEF mark_owner, Jump, Goto, set_owner, listvars,
        taskvars, wakevars, Types, CountType, TaskTypes, Control, Locking,
        Listed, Flags, IsWriter, LockMask, Handoff, WriterMask, LockedPc,
        MarkPc, NoCall, WriterPc, Calls
<1>4. ASSUME NEW t \in Tasks, mark_grant(t) PROVE Flags'
  BY <1>4, RwsemAssumption DEF mark_grant, Marked, wake_q_add, Goto, set_state,
        Types, CountType, TaskTypes, Control, Locking, Listed, Flags, IsWriter,
        LockMask, Handoff, WriterMask, LockedPc, MarkPc, NoCall, WriterPc, Calls
<1>5. ASSUME NEW t \in Tasks, wake_up_q(t) PROVE Flags'
  BY <1>5, RwsemAssumption DEF wake_up_q, Goto, raw_spin_lock, set_state,
        lockvars, Types, CountType, TaskTypes, Control, Locking, Listed, Flags,
        IsWriter, LockMask, Handoff, WriterMask, LockedPc, MarkPc, NoCall,
        WriterPc, Calls
<1>6. ASSUME NEW t \in Tasks, NEW m \in MODES, down_read(t, m) PROVE Flags'
  BY <1>6, RwsemAssumption DEF down_read, add_readers, Goto, listvars,
        wakevars, Types, CountType, TaskTypes, Control, Locking, Listed, Flags,
        IsWriter, LockMask, Handoff, WriterMask, LockedPc, MarkPc, NoCall,
        WriterPc, Calls
<1>7. ASSUME NEW t \in Tasks, down_read_trylock(t) PROVE Flags'
  BY <1>7, RwsemAssumption DEF down_read_trylock, Jump, Goto, add_readers,
        listvars, taskvars, wakevars, Types, CountType, TaskTypes, Control,
        Locking, Listed, Flags, IsWriter, LockMask, Handoff, WriterMask,
        LockedPc, MarkPc, NoCall, WriterPc, Calls
<1>8. ASSUME NEW t \in Tasks, set_reader_owned(t) PROVE Flags'
  BY <1>8, RwsemAssumption DEF set_reader_owned, set_owner, Goto, Return,
        listvars, wakevars, Types, CountType, TaskTypes, Control, Locking,
        Listed, Flags, IsWriter, LockMask, Handoff, WriterMask, LockedPc,
        MarkPc, NoCall, WriterPc, Calls
<1>9. ASSUME NEW t \in Tasks, read_undo(t) PROVE Flags'
  BY <1>9, RwsemAssumption DEF read_undo, Jump, Goto, add_readers, listvars,
        taskvars, wakevars, Types, CountType, TaskTypes, Control, Locking,
        Listed, Flags, IsWriter, LockMask, Handoff, WriterMask, LockedPc,
        MarkPc, NoCall, WriterPc, Calls
<1>10. ASSUME NEW t \in Tasks, read_osq_lock(t) PROVE Flags'
  BY <1>10, RwsemAssumption DEF read_osq_lock, Jump, Goto, listvars, taskvars,
        wakevars, Types, CountType, TaskTypes, Control, Locking, Listed, Flags,
        IsWriter, LockMask, Handoff, WriterMask, LockedPc, MarkPc, NoCall,
        WriterPc, Calls
<1>11. ASSUME NEW t \in Tasks, read_try(t) PROVE Flags'
  BY <1>11, RwsemAssumption DEF read_try, Jump, Goto, lockvars, listvars,
        taskvars, wakevars, Types, CountType, TaskTypes, Control, Locking,
        Listed, Flags, IsWriter, LockMask, Handoff, WriterMask, LockedPc,
        MarkPc, NoCall, WriterPc, Calls
<1>11a. ASSUME NEW t \in Tasks, read_phase(t) PROVE Flags'
  BY <1>11a, RwsemAssumption DEF read_phase, Goto, lockvars, listvars,
        taskvars, wakevars, Types, CountType, TaskTypes, Control, Locking,
        Listed, Flags, IsWriter, LockMask, Handoff, WriterMask, LockedPc,
        MarkPc, NoCall, WriterPc, Calls
<1>12. ASSUME NEW t \in Tasks, read_add(t) PROVE Flags'
  BY <1>12, RwsemAssumption DEF read_add, Jump, Goto, add_readers, listvars,
        taskvars, wakevars, Types, CountType, TaskTypes, Control, Locking,
        Listed, Flags, IsWriter, LockMask, Handoff, WriterMask, LockedPc,
        MarkPc, NoCall, WriterPc, Calls
<1>13. ASSUME NEW t \in Tasks, read_back(t) PROVE Flags'
  BY <1>13, RwsemAssumption DEF read_back, Jump, Goto, add_readers, listvars,
        taskvars, wakevars, Types, CountType, TaskTypes, Control, Locking,
        Listed, Flags, IsWriter, LockMask, Handoff, WriterMask, LockedPc,
        MarkPc, NoCall, WriterPc, Calls
<1>14. ASSUME NEW t \in Tasks, read_stop_spinning(t) PROVE Flags'
  BY <1>14, RwsemAssumption DEF read_stop_spinning, Jump, Goto, listvars,
        taskvars, wakevars, Types, CountType, TaskTypes, Control, Locking,
        Listed, Flags, IsWriter, LockMask, Handoff, WriterMask, LockedPc,
        MarkPc, NoCall, WriterPc, Calls
<1>15. ASSUME NEW t \in Tasks, read_spun(t) PROVE Flags'
  BY <1>15, RwsemAssumption DEF read_spun, Return, Goto, lockvars, Types,
        CountType, TaskTypes, Control, Locking, Listed, Flags, IsWriter,
        LockMask, Handoff, WriterMask, LockedPc, MarkPc, NoCall, WriterPc, Calls
<1>16. ASSUME NEW t \in Tasks, read_spun_lock(t) PROVE Flags'
  BY <1>16, RwsemAssumption DEF read_spun_lock, Goto, MarkWake, lockvars,
        Types, CountType, TaskTypes, Control, Locking, Listed, Flags, IsWriter,
        LockMask, Handoff, WriterMask, LockedPc, MarkPc, NoCall, WriterPc, Calls
<1>17. ASSUME NEW t \in Tasks, read_queue_test(t) PROVE Flags'
  BY <1>17, RwsemAssumption DEF read_queue_test, Goto, lockvars, taskvars,
        wakevars, Types, CountType, TaskTypes, Control, Locking, Listed, Flags,
        IsWriter, LockMask, Handoff, WriterMask, LockedPc, MarkPc, NoCall,
        WriterPc, Calls
<1>18. ASSUME NEW t \in Tasks, read_enqueue(t) PROVE Flags'
  <2>1. \A u \in Tasks : pc[u] # "w_locked"
    BY <1>18, RwsemAssumption DEF read_enqueue, Types, Locking, LockedPc
  <2>2. PICK l \in {"mark", "r_wait"} : pc' = [pc EXCEPT ![t] = l]
    BY <1>18 DEF read_enqueue, MarkWake, Goto
  <2>3. /\ wait_list' # <<>>
        /\ count'.waiters # 0
        /\ UNCHANGED <<count.handoff, wstate>>
    BY <1>18, <2>1 DEF read_enqueue, Types, CountType, Listed, Flags
  <2> QED
    BY <2>1, <2>2, <2>3 DEF TaskTypes, Flags
<1>19. ASSUME NEW t \in Tasks, read_set_state(t) PROVE Flags'
  BY <1>19, RwsemAssumption DEF read_set_state, Jump, Goto, set_state,
        lockvars, listvars, wakevars, Types, CountType, TaskTypes, Control,
        Locking, Listed, Flags, IsWriter, LockMask, Handoff, WriterMask,
        LockedPc, MarkPc, NoCall, WriterPc, Calls
<1>20. ASSUME NEW t \in Tasks, read_check(t) PROVE Flags'
  BY <1>20, RwsemAssumption DEF read_check, Goto, Return, set_state, taskvars,
        lockvars, listvars, wakevars, Types, CountType, TaskTypes, Control,
        Locking, Listed, Flags, IsWriter, LockMask, Handoff, WriterMask,
        LockedPc, MarkPc, NoCall, WriterPc, Calls
<1>21. ASSUME NEW t \in Tasks, read_schedule(t) PROVE Flags'
  BY <1>21, RwsemAssumption DEF read_schedule, Jump, Goto, lockvars, listvars,
        taskvars, wakevars, Types, CountType, TaskTypes, Control, Locking,
        Listed, Flags, IsWriter, LockMask, Handoff, WriterMask, LockedPc,
        MarkPc, NoCall, WriterPc, Calls
<1>22. ASSUME NEW t \in Tasks, read_signal(t) PROVE Flags'
  <2>1. CASE t \in Queued
    <3>1. /\ wait_list' = list_del(t) /\ wait_lock = NULL /\ pc[t] = "r_signal"
          /\ pc' = [pc EXCEPT ![t] = "idle"] /\ UNCHANGED wstate
          /\ count' = IF wait_list' = <<>>
                        THEN [count EXCEPT !.waiters = 0, !.handoff = 0] ELSE count
      BY <1>22, <2>1 DEF read_signal, Return, Goto
    <3>2. wait_list' = <<>> <=> Queued \ {t} = {}
      BY <3>1, Leave DEF Listed, list_del
    <3>3. ~IsWriter(t) /\ \A u \in Tasks : pc[u] # "w_locked"
      BY <3>1, RwsemAssumption DEF Control, WriterPc, NoCall, MarkPc, Locking,
            LockedPc
    <3>4. count.waiters # 0
      BY <2>1, <3>3, QueuedTasks DEF Listed, Flags
    <3>5. wait_list' = <<>> => \A u \in Tasks : ~IsWriter(u)
      BY <3>2, <3>3 DEF Listed
    <3> QED BY <3>1, <3>3, <3>4, <3>5 DEF Flags, Types, TaskTypes, IsWriter
  <2>2. CASE t \notin Queued
    <3>1. /\ wait_list' = wait_list /\ wstate' = wstate /\ count' = count
          /\ pc' = [pc EXCEPT ![t] = "read"] /\ pc[t] = "r_signal"
      BY <1>22, <2>2 DEF read_signal, Return, Goto
    <3> QED BY <3>1 DEF Flags, TaskTypes
  <2> QED BY <2>1, <2>2
<1>23. ASSUME NEW t \in Tasks, down_write_fast(t) PROVE Flags'
  BY <1>23, RwsemAssumption DEF down_write_fast, Jump, Goto, listvars,
        taskvars, wakevars, Types, CountType, TaskTypes, Control, Locking,
        Listed, Flags, IsWriter, LockMask, Handoff, WriterMask, LockedPc,
        MarkPc, NoCall, WriterPc, Calls
<1>24. ASSUME NEW t \in Tasks, NEW m \in MODES, down_write_slow(t, m)
       PROVE  Flags'
  BY <1>24, RwsemAssumption DEF down_write_slow, Jump, Goto, lockvars,
        listvars, wakevars, Types, CountType, TaskTypes, Control, Locking,
        Listed, Flags, IsWriter, LockMask, Handoff, WriterMask, LockedPc,
        MarkPc, NoCall, WriterPc, Calls
<1>25. ASSUME NEW t \in Tasks, set_writer_owned(t) PROVE Flags'
  BY <1>25, RwsemAssumption DEF set_writer_owned, set_owner, Return, Goto,
        listvars, wakevars, Types, CountType, TaskTypes, Control, Locking,
        Listed, Flags, IsWriter, LockMask, Handoff, WriterMask, LockedPc,
        MarkPc, NoCall, WriterPc, Calls
<1>26. ASSUME NEW t \in Tasks, write_osq_lock(t) PROVE Flags'
  BY <1>26, RwsemAssumption DEF write_osq_lock, Jump, Goto, listvars, taskvars,
        wakevars, Types, CountType, TaskTypes, Control, Locking, Listed, Flags,
        IsWriter, LockMask, Handoff, WriterMask, LockedPc, MarkPc, NoCall,
        WriterPc, Calls
<1>27. ASSUME NEW t \in Tasks, write_try_unqueued(t) PROVE Flags'
  BY <1>27, RwsemAssumption DEF write_try_unqueued, Jump, Goto, listvars,
        taskvars, wakevars, Types, CountType, TaskTypes, Control, Locking,
        Listed, Flags, IsWriter, LockMask, Handoff, WriterMask, LockedPc,
        MarkPc, NoCall, WriterPc, Calls
<1>28. ASSUME NEW t \in Tasks, write_stop_spinning(t) PROVE Flags'
  BY <1>28, RwsemAssumption DEF write_stop_spinning, Jump, Goto, listvars,
        taskvars, wakevars, Types, CountType, TaskTypes, Control, Locking,
        Listed, Flags, IsWriter, LockMask, Handoff, WriterMask, LockedPc,
        MarkPc, NoCall, WriterPc, Calls
<1>29. ASSUME NEW t \in Tasks, write_enqueue(t) PROVE Flags'
  BY <1>29, RwsemAssumption DEF write_enqueue, raw_spin_lock, Goto, set_state,
        MarkWake, Types, CountType, TaskTypes, Control, Locking, Listed, Flags,
        IsWriter, LockMask, Handoff, WriterMask, LockedPc, MarkPc, NoCall,
        WriterPc, Calls
<1>30. ASSUME NEW t \in Tasks, write_try(t) PROVE Flags'
  <2> DEFINE first == wstate[t] # "WRITER_NOT_FIRST"
             free == ~LockMask /\ (first \/ ~Handoff)
  <2>1. /\ pc[t] \in {"w_try", "w_relock"} /\ UNCHANGED <<wait_list, wstate>>
        /\ \A u \in Tasks \ {t} : pc[u] # "w_locked" /\ pc'[u] = pc[u]
    BY <1>30, RwsemAssumption DEF write_try, Goto, Block, TaskTypes, Locking,
          LockedPc
  <2>2. IsWriter(t) /\ count.waiters # 0 /\ wait_list # <<>>
    BY <2>1, QueuedTasks DEF Control, WriterPc, Listed, Flags
  <2>3. CASE free
    <3>1. /\ count' = [count EXCEPT !.writer = 1, !.handoff = 0,
                                    !.waiters = IF Len(wait_list) = 1 THEN 0 ELSE @]
          /\ pc'[t] = "w_locked"
      BY <1>30, <2>3 DEF write_try, Goto, TaskTypes
    <3>2. ASSUME NEW u \in Tasks, u # t, wstate[u] = "WRITER_HANDOFF",
                 pc[u] \in {"w_spin_owner", "w_asleep", "w_signal"}
          PROVE  FALSE
      <4>1. Handoff
        BY <3>2 DEF Flags, Handoff
      <4>2. wstate[t] \in {"WRITER_FIRST", "WRITER_HANDOFF"}
        BY <2>2, <2>3, <4>1 DEF IsWriter, TaskTypes
      <4> QED BY <3>2, <4>2 DEF Listed
    <3> HIDE DEF free
    <3> QED BY <2>1, <2>2, <3>1, <3>2 DEF Flags, Types
  <2>4. CASE ~free
    <3>1. /\ count' = [count EXCEPT !.handoff =
                          IF LockMask /\ wstate[t] = "WRITER_HANDOFF" /\ ~Handoff
                            THEN 1 ELSE @]
          /\ pc'[t] \in {"w_spin_owner", "w_signal", "w_asleep"}
      BY <1>30, <2>4 DEF write_try, Goto, Block, TaskTypes
    <3>2. wstate[t] = "WRITER_HANDOFF" => count'.handoff = 1
      BY <2>4, <3>1 DEF Types, CountType, Handoff
    <3>3. /\ count'.waiters = count.waiters
          /\ (count.handoff = 1 => count'.handoff = 1)
      BY <3>1 DEF Types
    <3> HIDE DEF free
    <3> QED BY <2>1, <2>2, <3>1, <3>2, <3>3 DEF Flags
  <2> QED BY <2>3, <2>4
<1>31. ASSUME NEW t \in Tasks, write_locked(t) PROVE Flags'
  <2>1. /\ wait_list' = list_del(t) /\ pc[t] = "w_locked" /\ UNCHANGED count
        /\ pc' = [pc EXCEPT ![t] = "write"]
        /\ wstate' = [wstate EXCEPT ![t] = "none"]
    BY <1>31 DEF write_locked, Return, Goto
  <2>2. /\ Queued' = Queued \ {t}
        /\ wait_list' = <<>> <=> Queued \ {t} = {}
    BY <2>1, Leave DEF Listed, list_del
  <2>3. t \in Queued
    BY <2>1 DEF Control, WriterPc, Listed
  <2>4. wait_list' = <<>> <=> Len(wait_list) = 1
    BY <2>2, <2>3, LeavesAlone DEF Listed
  <2>5. \A u \in Tasks : pc'[u] # "w_locked"
    BY <2>1 DEF TaskTypes, Locking, LockedPc
  <2> QED BY <2>1, <2>4, <2>5 DEF Flags, TaskTypes
<1>32. ASSUME NEW t \in Tasks, write_spin_on_owner(t) PROVE Flags'
  BY <1>32, RwsemAssumption DEF write_spin_on_owner, Goto, Block, set_state,
        lockvars, listvars, wakevars, Types, CountType, TaskTypes, Control,
        Locking, Listed, Flags, IsWriter, LockMask, Handoff, WriterMask,
        LockedPc, MarkPc, NoCall, WriterPc, Calls
<1>33. ASSUME NEW t \in Tasks, write_schedule(t) PROVE Flags'
  BY <1>33, RwsemAssumption DEF write_schedule, listvars, Jump, Goto,
        set_state, lockvars, wakevars, Types, CountType, TaskTypes, Control,
        Locking, Listed, Flags, IsWriter, LockMask, Handoff, WriterMask,
        LockedPc, MarkPc, NoCall, WriterPc, Calls
<1>33a. ASSUME NEW t \in Tasks, write_first(t) PROVE Flags'
  BY <1>33a, RwsemAssumption DEF write_first, Jump, Goto, taskvars, lockvars,
        wakevars, Types, CountType, TaskTypes, Control, Locking, Listed, Flags,
        IsWriter, LockMask, Handoff, WriterMask, LockedPc, MarkPc, NoCall,
        WriterPc, Calls
<1>34. ASSUME NEW t \in Tasks, NEW timeout \in BOOLEAN, write_count(t, timeout)
       PROVE  Flags'
  BY <1>34, RwsemAssumption DEF write_count, Goto, Block, set_state, lockvars,
        wakevars, Types, CountType, TaskTypes, Control, Locking, Listed, Flags,
        IsWriter, LockMask, Handoff, WriterMask, LockedPc, MarkPc, NoCall,
        WriterPc, Calls
<1>35. ASSUME NEW t \in Tasks, write_signal(t) PROVE Flags'
  <2>1. /\ wait_list' = list_del(t) /\ pc[t] = "w_signal" /\ wait_lock = NULL
        /\ count' = [count EXCEPT
                 !.handoff = IF wstate[t] = "WRITER_HANDOFF" THEN @ - 1 ELSE @,
                 !.waiters = IF wait_list' = <<>> THEN 0 ELSE @]
        /\ \A u \in Tasks \ {t} : pc'[u] = pc[u] /\ wstate'[u] = wstate[u]
        /\ pc'[t] \in {"idle", "mark"}
    BY <1>35 DEF write_signal, MarkWake, Goto, TaskTypes
  <2>2. \A u \in Tasks : pc[u] # "w_locked" /\ pc'[u] # "w_locked"
    BY <2>1, RwsemAssumption DEF Locking, LockedPc
  <2>3. count.waiters # 0
    BY <2>1, <2>2, QueuedTasks DEF Control, WriterPc, Listed, Flags
  <2>4. \A u \in Tasks \ {t} : wstate[u] = "WRITER_HANDOFF" => wstate[t] # "WRITER_HANDOFF"
    BY DEF Listed
  <2>5. /\ count'.waiters # 0 <=> wait_list' # <<>>
        /\ wstate[t] # "WRITER_HANDOFF" => count'.handoff = count.handoff
    BY <2>1, <2>3 DEF Types
  <2> QED BY <2>1, <2>2, <2>4, <2>5 DEF Flags
<1>36. ASSUME NEW t \in Tasks, up_read(t) PROVE Flags'
  BY <1>36, RwsemAssumption DEF up_read, add_readers, Goto, listvars, taskvars,
        wakevars, Types, CountType, TaskTypes, Control, Locking, Listed, Flags,
        IsWriter, LockMask, Handoff, WriterMask, LockedPc, MarkPc, NoCall,
        WriterPc, Calls
<1>37. ASSUME NEW t \in Tasks, clear_owner(t) PROVE Flags'
  BY <1>37, RwsemAssumption DEF clear_owner, Jump, Goto, set_owner, listvars,
        taskvars, wakevars, Types, CountType, TaskTypes, Control, Locking,
        Listed, Flags, IsWriter, LockMask, Handoff, WriterMask, LockedPc,
        MarkPc, NoCall, WriterPc, Calls
<1>38. ASSUME NEW t \in Tasks, up_write(t) PROVE Flags'
  BY <1>38, RwsemAssumption DEF up_write, Jump, Goto, listvars, taskvars,
        wakevars, Types, CountType, TaskTypes, Control, Locking, Listed, Flags,
        IsWriter, LockMask, Handoff, WriterMask, LockedPc, MarkPc, NoCall,
        WriterPc, Calls
<1>39. ASSUME NEW t \in Tasks, downgrade_write(t) PROVE Flags'
  BY <1>39, RwsemAssumption DEF downgrade_write, Jump, Goto, listvars,
        taskvars, wakevars, Types, CountType, TaskTypes, Control, Locking,
        Listed, Flags, IsWriter, LockMask, Handoff, WriterMask, LockedPc,
        MarkPc, NoCall, WriterPc, Calls
<1>40. ASSUME NEW t \in Tasks, downgrade_owner(t) PROVE Flags'
  BY <1>40, RwsemAssumption DEF downgrade_owner, Jump, Goto, set_owner,
        listvars, taskvars, wakevars, Types, CountType, TaskTypes, Control,
        Locking, Listed, Flags, IsWriter, LockMask, Handoff, WriterMask,
        LockedPc, MarkPc, NoCall, WriterPc, Calls
<1>41. ASSUME NEW t \in Tasks, rwsem_wake(t, "wake", "RWSEM_WAKE_ANY", "idle")
       PROVE  Flags'
  BY <1>41, RwsemAssumption DEF rwsem_wake, Goto, MarkWake, lockvars, taskvars,
        Types, CountType, TaskTypes, Control, Locking, Listed, Flags, IsWriter,
        LockMask, Handoff, WriterMask, LockedPc, MarkPc, NoCall, WriterPc, Calls
<1>42. ASSUME NEW t \in Tasks,
              rwsem_wake(t, "downgrade_wake", "RWSEM_WAKE_READ_OWNED", "read")
       PROVE  Flags'
  BY <1>42, RwsemAssumption DEF rwsem_wake, Goto, MarkWake, lockvars, taskvars,
        Types, CountType, TaskTypes, Control, Locking, Listed, Flags, IsWriter,
        LockMask, Handoff, WriterMask, LockedPc, MarkPc, NoCall, WriterPc, Calls
<1>43. ASSUME NEW t \in Tasks, signal_wake_up(t) PROVE Flags'
  BY <1>43, RwsemAssumption DEF signal_wake_up, set_state, lockvars, listvars,
        wakevars, Types, CountType, TaskTypes, Control, Locking, Listed, Flags,
        IsWriter, LockMask, Handoff, WriterMask, LockedPc, MarkPc, NoCall,
        WriterPc, Calls
<1> QED BY <1>0, <1>1, <1>2, <1>3, <1>4, <1>5, <1>6, <1>7, <1>8, <1>9, <1>10,
      <1>11, <1>11a, <1>12, <1>13, <1>14, <1>15, <1>16, <1>17, <1>18, <1>19,
      <1>20, <1>21, <1>22, <1>23, <1>24, <1>25, <1>26, <1>27, <1>28, <1>29,
      <1>30, <1>31, <1>32, <1>33, <1>33a, <1>34, <1>35, <1>36, <1>37, <1>38,
      <1>39, <1>40, <1>41, <1>42, <1>43 DEF Next, Start, Continue, mark_wake,
      read_step, write_step, unlock_step

-----------------------------------------------------------------------------
(***************************************************************************)
(* The holders.                                                             *)
(***************************************************************************)
\* What t adds to the number of elements of S.
In(t, S) == IF t \in S THEN 1 ELSE 0

\* Any tasks can be counted.
LEMMA SubsetFinite ==
  ASSUME NEW S \in SUBSET Tasks
  PROVE  IsFiniteSet(S) /\ Cardinality(S) \in Nat
<1>1. IsFiniteSet(S)
  BY RwsemAssumption, FS_Subset
<1> QED BY <1>1, FS_CardinalityType

\* One task comes or goes.
LEMMA OneChanges ==
  ASSUME NEW S \in SUBSET Tasks, NEW R \in SUBSET Tasks, NEW t \in Tasks,
         \A u \in Tasks \ {t} : u \in R <=> u \in S
  PROVE  Cardinality(R) = Cardinality(S) + In(t, R) - In(t, S)
<1>0. IsFiniteSet(S) /\ Cardinality(S) \in Nat
  BY SubsetFinite
<1>1. CASE t \in R /\ t \notin S
  <2>1. R = S \cup {t}
    BY <1>1
  <2> QED BY <1>0, <1>1, <2>1, FS_AddElement DEF In
<1>2. CASE t \notin R /\ t \in S
  <2>1. R = S \ {t}
    BY <1>2
  <2> QED BY <1>0, <1>2, <2>1, FS_RemoveElement DEF In
<1>3. CASE t \in R <=> t \in S
  <2>1. R = S
    BY <1>3
  <2> QED BY <1>0, <1>3, <2>1 DEF In
<1> QED BY <1>1, <1>2, <1>3

\* The sets of holders are sets of tasks.
LEMMA HoldersAreTasks ==
  /\ ReadHolders \in SUBSET Tasks /\ Transient \in SUBSET Tasks
  /\ ReadHolders' \in SUBSET Tasks /\ Transient' \in SUBSET Tasks
BY DEF ReadHolders, Transient

\* A step of t leaves the other tasks where they are.
Others(t) ==
  \A u \in Tasks \ {t} :
    pc'[u] = pc[u] /\ call'[u] = call[u] /\ (u \in Queued' <=> u \in Queued)

\* So what the others hold does not change.
LEMMA OthersStay ==
  ASSUME NEW t, Others(t)
  PROVE  \A u \in Tasks \ {t} : /\ u \in ReadHolders' <=> u \in ReadHolders
                                /\ u \in Transient' <=> u \in Transient
                                /\ u \in WriteHolders' <=> u \in WriteHolders
<1> SUFFICES ASSUME NEW u \in Tasks \ {t}
             PROVE  /\ u \in ReadHolders' <=> u \in ReadHolders
                    /\ u \in Transient' <=> u \in Transient
                    /\ u \in WriteHolders' <=> u \in WriteHolders
  OBVIOUS
<1>1. pc'[u] = pc[u] /\ call'[u] = call[u] /\ (u \in Queued' <=> u \in Queued)
  BY DEF Others
<1> QED BY <1>1 DEF ReadHolders, Transient, WriteHolders, Granted

\* The reader count follows the one task that moves.
LEMMA Recount ==
  ASSUME ReaderCount, count \in CountType, NEW t \in Tasks,
         Others(t),
         count'.readers = count.readers + In(t, ReadHolders') - In(t, ReadHolders)
                                        + In(t, Transient') - In(t, Transient)
  PROVE  ReaderCount'
<1>1. Cardinality(ReadHolders') =
        Cardinality(ReadHolders) + In(t, ReadHolders') - In(t, ReadHolders)
  BY OneChanges, OthersStay, HoldersAreTasks
<1>2. Cardinality(Transient') =
        Cardinality(Transient) + In(t, Transient') - In(t, Transient)
  BY OneChanges, OthersStay, HoldersAreTasks
<1>3. Cardinality(ReadHolders) \in Nat /\ Cardinality(Transient) \in Nat
  BY SubsetFinite, HoldersAreTasks
<1>4. /\ In(t, ReadHolders) \in Int /\ In(t, ReadHolders') \in Int
      /\ In(t, Transient) \in Int /\ In(t, Transient') \in Int
  BY DEF In
<1>5. PICK r \in Int, s \in Int, a \in Int, b \in Int, c \in Int, d \in Int :
        /\ r = Cardinality(ReadHolders) /\ s = Cardinality(Transient)
        /\ a = In(t, ReadHolders') /\ b = In(t, ReadHolders)
        /\ c = In(t, Transient') /\ d = In(t, Transient)
  BY <1>3, <1>4
<1>6. count'.readers = (r + s) + a - b + c - d
  BY <1>5 DEF ReaderCount
<1>7. Cardinality(ReadHolders') + Cardinality(Transient') = (r + a - b) + (s + c - d)
  BY <1>1, <1>2, <1>5
<1> HIDE DEF ReadHolders, Transient
<1>8. count'.readers = Cardinality(ReadHolders') + Cardinality(Transient')
  BY <1>6, <1>7
<1> QED BY <1>8 DEF ReaderCount

\* Without readers in the count there are none.
LEMMA NoReaders ==
  ASSUME ReaderCount, count.readers = 0
  PROVE  ReadHolders = {} /\ Transient = {}
<1>1. /\ IsFiniteSet(ReadHolders) /\ Cardinality(ReadHolders) \in Nat
      /\ IsFiniteSet(Transient) /\ Cardinality(Transient) \in Nat
  BY SubsetFinite, HoldersAreTasks
<1>2. Cardinality(ReadHolders) = 0 /\ Cardinality(Transient) = 0
  BY <1>1 DEF ReaderCount
<1> QED BY <1>1, <1>2, FS_EmptySet

\* The steps that move one task alone: all but the grant to a batch of readers.
OneMoves(t) ==
  \/ mark_first(t) \/ mark_owner(t) \/ wake_up_q(t)
  \/ \E timeout \in BOOLEAN : mark_back(t, timeout)
  \/ down_read_trylock(t) \/ down_write_fast(t)
  \/ \E m \in MODES : down_read(t, m) \/ down_write_slow(t, m)
  \/ read_step(t) \/ write_step(t) \/ unlock_step(t)
  \/ downgrade_write(t) \/ signal_wake_up(t)

\* Such a step leaves the others alone.
LEMMA OthersKept ==
  ASSUME TaskTypes, Control, Listed, NEW t \in Tasks, OneMoves(t)
  PROVE  Others(t)
<1>1. CASE mark_first(t)
  BY <1>1 DEF mark_first, Marked, wake_q_add, Goto, set_state, add_readers,
        wakevars, Others, Queued, TaskTypes
<1>2. ASSUME NEW timeout \in BOOLEAN, mark_back(t, timeout) PROVE Others(t)
  BY <1>2 DEF mark_back, Marked, Goto, set_state, Others, Queued, TaskTypes
<1>3. CASE mark_owner(t)
  BY <1>3 DEF mark_owner, Jump, Goto, set_owner, listvars, taskvars, wakevars,
        Others, Queued, TaskTypes
<1>4. CASE wake_up_q(t)
  BY <1>4 DEF wake_up_q, Goto, raw_spin_lock, set_state, lockvars, Others,
        Queued, TaskTypes
<1>5. ASSUME NEW m \in MODES, down_read(t, m) PROVE Others(t)
  BY <1>5 DEF down_read, add_readers, Goto, listvars, wakevars, Others, Queued,
        TaskTypes
<1>6. CASE down_read_trylock(t)
  BY <1>6 DEF down_read_trylock, Jump, Goto, add_readers, listvars, taskvars,
        wakevars, Others, Queued, TaskTypes
<1>7. CASE set_reader_owned(t)
  BY <1>7 DEF set_reader_owned, set_owner, Goto, Return, listvars, wakevars,
        Others, Queued, TaskTypes
<1>8. CASE read_undo(t)
  BY <1>8 DEF read_undo, Jump, Goto, add_readers, listvars, taskvars, wakevars,
        Others, Queued, TaskTypes
<1>9. CASE read_osq_lock(t)
  BY <1>9 DEF read_osq_lock, Jump, Goto, listvars, taskvars, wakevars, Others,
        Queued, TaskTypes
<1>10. CASE read_try(t)
  BY <1>10 DEF read_try, Jump, Goto, lockvars, listvars, taskvars, wakevars,
        Others, Queued, TaskTypes
<1>10a. CASE read_phase(t)
  BY <1>10a DEF read_phase, Goto, lockvars, listvars, taskvars, wakevars,
        Others, Queued, TaskTypes
<1>11. CASE read_add(t)
  BY <1>11 DEF read_add, Jump, Goto, add_readers, listvars, taskvars, wakevars,
        Others, Queued, TaskTypes
<1>12. CASE read_back(t)
  BY <1>12 DEF read_back, Jump, Goto, add_readers, listvars, taskvars,
        wakevars, Others, Queued, TaskTypes
<1>13. CASE read_stop_spinning(t)
  BY <1>13 DEF read_stop_spinning, Jump, Goto, listvars, taskvars, wakevars,
        Others, Queued, TaskTypes
<1>14. CASE read_spun(t)
  BY <1>14 DEF read_spun, Return, Goto, lockvars, Others, Queued, TaskTypes
<1>15. CASE read_spun_lock(t)
  BY <1>15 DEF read_spun_lock, Goto, MarkWake, lockvars, Others, Queued,
        TaskTypes
<1>16. CASE read_queue_test(t)
  BY <1>16 DEF read_queue_test, Goto, lockvars, taskvars, wakevars, Others,
        Queued, TaskTypes
<1>17. CASE read_enqueue(t)
  BY <1>17 DEF read_enqueue, MarkWake, Goto, taskvars, Others, Queued, TaskTypes
<1>18. CASE read_set_state(t)
  BY <1>18 DEF read_set_state, Jump, Goto, set_state, lockvars, listvars,
        wakevars, Others, Queued, TaskTypes
<1>19. CASE read_check(t)
  BY <1>19 DEF read_check, Goto, Return, set_state, taskvars, lockvars,
        listvars, wakevars, Others, Queued, TaskTypes
<1>20. CASE read_schedule(t)
  BY <1>20 DEF read_schedule, Jump, Goto, lockvars, listvars, taskvars,
        wakevars, Others, Queued, TaskTypes
<1>21. CASE read_signal(t)
  <2>1. CASE t \in Queued
    <3>1. /\ wait_list' = list_del(t)
          /\ \A u \in Tasks \ {t} : pc'[u] = pc[u] /\ call'[u] = call[u]
      BY <1>21, <2>1 DEF read_signal, set_state, Return, Goto, wakevars,
            TaskTypes
    <3>2. Queued' = Queued \ {t}
      BY <3>1, Leave DEF Listed, list_del
    <3> QED BY <3>1, <3>2 DEF Others
  <2>2. CASE t \notin Queued
    BY <1>21, <2>2 DEF read_signal, set_state, Return, Goto, wakevars, Others,
          Queued, TaskTypes
  <2> QED BY <2>1, <2>2
<1>22. CASE down_write_fast(t)
  BY <1>22 DEF down_write_fast, Jump, Goto, listvars, taskvars, wakevars,
        Others, Queued, TaskTypes
<1>23. ASSUME NEW m \in MODES, down_write_slow(t, m) PROVE Others(t)
  BY <1>23 DEF down_write_slow, Jump, Goto, lockvars, listvars, wakevars,
        Others, Queued, TaskTypes
<1>24. CASE set_writer_owned(t)
  BY <1>24 DEF set_writer_owned, set_owner, Return, Goto, listvars, wakevars,
        Others, Queued, TaskTypes
<1>25. CASE write_osq_lock(t)
  BY <1>25 DEF write_osq_lock, Jump, Goto, listvars, taskvars, wakevars,
        Others, Queued, TaskTypes
<1>26. CASE write_try_unqueued(t)
  BY <1>26 DEF write_try_unqueued, Jump, Goto, listvars, taskvars, wakevars,
        Others, Queued, TaskTypes
<1>27. CASE write_stop_spinning(t)
  BY <1>27 DEF write_stop_spinning, Jump, Goto, listvars, taskvars, wakevars,
        Others, Queued, TaskTypes
<1>28. CASE write_enqueue(t)
  <2>1. /\ wait_list' = Append(wait_list, t)
        /\ \A u \in Tasks \ {t} : pc'[u] = pc[u] /\ call'[u] = call[u]
        /\ pc[t] \in {"w_slow", "w_queue"}
    BY <1>28 DEF write_enqueue, MarkWake, Goto, TaskTypes
  <2>2. t \notin Queued
    BY <2>1 DEF Control, WriterPc, NoCall, MarkPc, Listed, WaitsToRead, WaitPc
  <2>3. Queued' = Queued \cup {t}
    BY <2>1, <2>2, Joins DEF Listed
  <2> QED BY <2>1, <2>3 DEF Others
<1>29. CASE write_try(t)
  BY <1>29 DEF write_try, Goto, Block, set_state, wakevars, Others, Queued,
        TaskTypes
<1>30. CASE write_locked(t)
  <2>1. /\ wait_list' = list_del(t)
        /\ \A u \in Tasks \ {t} : pc'[u] = pc[u] /\ call'[u] = call[u]
    BY <1>30 DEF write_locked, set_owner, set_state, Return, Goto, wakevars,
          TaskTypes
  <2>2. Queued' = Queued \ {t}
    BY <2>1, Leave DEF Listed, list_del
  <2> QED BY <2>1, <2>2 DEF Others
<1>31. CASE write_spin_on_owner(t)
  BY <1>31 DEF write_spin_on_owner, Goto, Block, set_state, lockvars, listvars,
        wakevars, Others, Queued, TaskTypes
<1>32. CASE write_schedule(t)
  BY <1>32 DEF write_schedule, listvars, Jump, Goto, set_state, lockvars,
        wakevars, Others, Queued, TaskTypes
<1>32a. CASE write_first(t)
  BY <1>32a DEF write_first, Jump, Goto, taskvars, lockvars, wakevars, Others,
        Queued, TaskTypes
<1>33. ASSUME NEW timeout \in BOOLEAN, write_count(t, timeout) PROVE Others(t)
  BY <1>33 DEF write_count, Goto, Block, set_state, lockvars, wakevars, Others,
        Queued, TaskTypes
<1>34. CASE write_signal(t)
  <2>1. /\ wait_list' = list_del(t)
        /\ \A u \in Tasks \ {t} : pc'[u] = pc[u] /\ call'[u] = call[u]
    BY <1>34 DEF write_signal, Goto, MarkWake, TaskTypes
  <2>2. Queued' = Queued \ {t}
    BY <2>1, Leave DEF Listed, list_del
  <2> QED BY <2>1, <2>2 DEF Others
<1>35. CASE up_read(t)
  BY <1>35 DEF up_read, add_readers, Goto, listvars, taskvars, wakevars,
        Others, Queued, TaskTypes
<1>36. CASE clear_owner(t)
  BY <1>36 DEF clear_owner, Jump, Goto, set_owner, listvars, taskvars,
        wakevars, Others, Queued, TaskTypes
<1>37. CASE up_write(t)
  BY <1>37 DEF up_write, Jump, Goto, listvars, taskvars, wakevars, Others,
        Queued, TaskTypes
<1>38. CASE downgrade_write(t)
  BY <1>38 DEF downgrade_write, Jump, Goto, listvars, taskvars, wakevars,
        Others, Queued, TaskTypes
<1>39. CASE downgrade_owner(t)
  BY <1>39 DEF downgrade_owner, Jump, Goto, set_owner, listvars, taskvars,
        wakevars, Others, Queued, TaskTypes
<1>40. CASE rwsem_wake(t, "wake", "RWSEM_WAKE_ANY", "idle")
  BY <1>40 DEF rwsem_wake, Goto, MarkWake, lockvars, taskvars, Others, Queued,
        TaskTypes
<1>41. CASE rwsem_wake(t, "downgrade_wake", "RWSEM_WAKE_READ_OWNED", "read")
  BY <1>41 DEF rwsem_wake, Goto, MarkWake, lockvars, taskvars, Others, Queued,
        TaskTypes
<1>42. CASE signal_wake_up(t)
  BY <1>42 DEF signal_wake_up, set_state, lockvars, listvars, wakevars, Others,
        Queued, TaskTypes
<1> QED BY <1>1, <1>2, <1>3, <1>4, <1>5, <1>6, <1>7, <1>8, <1>9, <1>10, <1>10a,
      <1>11, <1>12, <1>13, <1>14, <1>15, <1>16, <1>17, <1>18, <1>19, <1>20,
      <1>21, <1>22, <1>23, <1>24, <1>25, <1>26, <1>27, <1>28, <1>29, <1>30,
      <1>31, <1>32, <1>32a, <1>33, <1>34, <1>35, <1>36, <1>37, <1>38, <1>39,
      <1>40, <1>41, <1>42 DEF OneMoves, read_step, write_step, unlock_step

\* rwsem_mark_wake() makes holders of the readers it wakes, for whom it has
\* one bias already unless the caller holds the lock.
LEMMA BatchGranted ==
  ASSUME TaskTypes, Control, Listed, NEW t \in Tasks, mark_grant(t)
  PROVE  /\ ReadHolders' = ReadHolders \cup Woken
         /\ \A u \in Woken : u \notin ReadHolders
         /\ \A u \in Tasks \ {t} : u \in Transient' <=> u \in Transient
         /\ t \in Transient <=> call[t].type # "RWSEM_WAKE_READ_OWNED"
         /\ t \notin Transient'
         /\ WriteHolders' = WriteHolders
<1>1. /\ pc[t] = "mark_grant" /\ wait_list' = Without(wait_list, Woken)
      /\ \A u \in Tasks \ {t} : pc'[u] = pc[u] /\ call'[u] = call[u]
      /\ \/ pc'[t] = "wake_up_q" /\ call'[t] = call[t]
         \/ pc'[t] = "w_try" /\ call'[t] = NoCall /\ call[t].ret = "w_try"
  BY DEF mark_grant, Marked, Goto, TaskTypes
<1>2. Queued' = Queued \ Woken
  BY <1>1, Leave DEF Listed
<1>3. Woken \subseteq Queued /\ \A u \in Woken : ~IsWriter(u)
  BY WokenReaders DEF Listed
<1>4. Woken \subseteq Tasks /\ \A u \in Woken : WaitsToRead(u)
  BY <1>3, QueuedTasks DEF Listed
<1>5. \A u \in Tasks : WaitsToRead(u)' <=> WaitsToRead(u)
  BY <1>1 DEF WaitsToRead, WaitPc, NoCall
<1>6. \A u \in Woken : u \notin ReadHolders
  <2> SUFFICES ASSUME NEW u \in Woken PROVE u \notin ReadHolders
    OBVIOUS
  <2>1. u \in Tasks /\ u \in Queued /\ WaitsToRead(u)
    BY <1>3, <1>4
  <2>2. pc[u] \notin ReadPc /\ call[u].ret # "read"
    BY <2>1 DEF WaitsToRead, WaitPc, ReadPc, Control, NoCall, MarkPc
  <2> QED BY <2>1, <2>2 DEF ReadHolders, Granted
<1>7. ReadHolders' = ReadHolders \cup Woken
  <2> SUFFICES ASSUME NEW u \in Tasks
               PROVE  u \in ReadHolders' <=> u \in ReadHolders \cup Woken
    BY <1>4, HoldersAreTasks
  <2>1. /\ pc'[u] \in ReadPc <=> pc[u] \in ReadPc
        /\ call'[u].ret = "read" <=> call[u].ret = "read"
    BY <1>1 DEF ReadPc, NoCall
  <2>2. WaitsToRead(u)' <=> WaitsToRead(u)
    BY <1>5
  <2>3. u \in Queued' <=> u \in Queued /\ u \notin Woken
    BY <1>2
  <2>4. u \in Woken => WaitsToRead(u)
    BY <1>4
  <2>5. /\ u \in ReadHolders <=>
             \/ pc[u] \in ReadPc \/ call[u].ret = "read"
             \/ u \notin Queued /\ WaitsToRead(u)
        /\ u \in ReadHolders' <=>
             \/ pc'[u] \in ReadPc \/ call'[u].ret = "read"
             \/ u \notin Queued' /\ WaitsToRead(u)'
    BY DEF ReadHolders, Granted, WaitsToRead
  <2> QED BY <2>1, <2>2, <2>3, <2>4, <2>5
<1>8. \A u \in Tasks \ {t} : u \in Transient' <=> u \in Transient
  BY <1>1 DEF Transient
<1>9. /\ t \in Transient <=> call[t].type # "RWSEM_WAKE_READ_OWNED"
      /\ t \notin Transient'
  BY <1>1 DEF Transient
<1>10. WriteHolders' = WriteHolders
  BY <1>1 DEF WriteHolders, WritePc
<1> QED BY <1>6, <1>7, <1>8, <1>9, <1>10

\* The reader count follows the holders and the biases, whether a reader takes
\* the lock itself, backs out, is granted the lock with others, or becomes a
\* reader by downgrading.
LEMMA ReaderCountStep ==
  ASSUME Types, TaskTypes, Control, Locking, Listed, ReaderCount, [Next]_vars
  PROVE  ReaderCount'
<1>0. UNCHANGED vars => ReaderCount'
  BY DEF vars, lockvars, listvars, taskvars, wakevars, ReaderCount,
        ReadHolders, Transient, Granted, Queued
<1>1. ASSUME NEW t \in Tasks, mark_first(t) PROVE ReaderCount'
  <2>1. Others(t)
    BY <1>1, OthersKept DEF OneMoves, read_step, write_step, unlock_step
  <2>2. count'.readers = count.readers + In(t, ReadHolders') - In(t, ReadHolders)
                                       + In(t, Transient') - In(t, Transient)
    BY <1>1 DEF mark_first, Marked, wake_q_add, Goto, set_state, add_readers,
          wakevars, ReadHolders, Transient, Granted, Queued, TaskTypes, Control,
          Calls, NoCall, ReadPc, MarkPc, WaitPc, Types, CountType, In
  <2> QED BY <2>1, <2>2, Recount DEF Types
<1>2. ASSUME NEW t \in Tasks, NEW timeout \in BOOLEAN, mark_back(t, timeout)
      PROVE  ReaderCount'
  <2>1. Others(t)
    BY <1>2, OthersKept DEF OneMoves, read_step, write_step, unlock_step
  <2>2. count'.readers = count.readers + In(t, ReadHolders') - In(t, ReadHolders)
                                       + In(t, Transient') - In(t, Transient)
    BY <1>2 DEF mark_back, Marked, Goto, set_state, ReadHolders, Transient,
          Granted, Queued, TaskTypes, Control,
          Calls, NoCall, ReadPc, MarkPc, WaitPc, Types, CountType, In
  <2> QED BY <2>1, <2>2, Recount DEF Types
<1>3. ASSUME NEW t \in Tasks, mark_owner(t) PROVE ReaderCount'
  <2>1. Others(t)
    BY <1>3, OthersKept DEF OneMoves, read_step, write_step, unlock_step
  <2>2. count'.readers = count.readers + In(t, ReadHolders') - In(t, ReadHolders)
                                       + In(t, Transient') - In(t, Transient)
    BY <1>3 DEF mark_owner, Jump, Goto, set_owner, listvars, taskvars,
          wakevars, ReadHolders, Transient, Granted, Queued, TaskTypes, Control,
          Calls, NoCall, ReadPc, MarkPc, WaitPc, Types, CountType, In
  <2> QED BY <2>1, <2>2, Recount DEF Types
<1>4. ASSUME NEW t \in Tasks, mark_grant(t) PROVE ReaderCount'
  <2> DEFINE granted == IF call[t].type = "RWSEM_WAKE_READ_OWNED" THEN 0 ELSE 1
  <2>1. count'.readers = count.readers + NrWoken - granted
    BY <1>4 DEF mark_grant, Types, CountType
  <2>2. IsFiniteSet(Woken) /\ Cardinality(Woken) = NrWoken
    BY WokenReaders DEF Listed
  <2>3. Cardinality(ReadHolders') = Cardinality(ReadHolders) + NrWoken
    <3>1. ReadHolders \cap Woken = {} /\ ReadHolders' = ReadHolders \cup Woken
      BY <1>4, BatchGranted
    <3>2. Cardinality(ReadHolders \cup Woken) = Cardinality(ReadHolders) + Cardinality(Woken)
                                                - Cardinality(ReadHolders \cap Woken)
      BY <2>2, SubsetFinite, HoldersAreTasks, FS_Union
    <3>3. /\ Cardinality(ReadHolders \cap Woken) = 0
          /\ Cardinality(ReadHolders) \in Nat /\ Cardinality(Woken) \in Nat
      BY <2>2, <3>1, SubsetFinite, HoldersAreTasks, FS_EmptySet,
            FS_CardinalityType
    <3> QED BY <2>2, <3>1, <3>2, <3>3
  <2>4. Cardinality(Transient') = Cardinality(Transient) - granted
    <3>1. /\ \A u \in Tasks \ {t} : u \in Transient' <=> u \in Transient
          /\ t \in Transient <=> call[t].type # "RWSEM_WAKE_READ_OWNED"
          /\ t \notin Transient'
      BY <1>4, BatchGranted
    <3>2. Cardinality(Transient') = Cardinality(Transient) + In(t, Transient') - In(t, Transient)
      BY <3>1, OneChanges, HoldersAreTasks
    <3>3. Cardinality(Transient) \in Nat
      BY SubsetFinite, HoldersAreTasks
    <3>4. In(t, Transient') = 0 /\ In(t, Transient) = granted
      BY <3>1 DEF In
    <3> QED BY <3>2, <3>3, <3>4
  <2>5. /\ Cardinality(ReadHolders) \in Nat /\ Cardinality(Transient) \in Nat
        /\ NrWoken \in Nat /\ granted \in Int
    BY <2>2, SubsetFinite, HoldersAreTasks, FS_CardinalityType
  <2> HIDE DEF granted
  <2>6. count'.readers = Cardinality(ReadHolders') + Cardinality(Transient')
    BY <2>1, <2>3, <2>4, <2>5 DEF ReaderCount
  <2> QED BY <2>6 DEF ReaderCount
<1>5. ASSUME NEW t \in Tasks, wake_up_q(t) PROVE ReaderCount'
  <2>1. Others(t)
    BY <1>5, OthersKept DEF OneMoves, read_step, write_step, unlock_step
  <2>2. count'.readers = count.readers + In(t, ReadHolders') - In(t, ReadHolders)
                                       + In(t, Transient') - In(t, Transient)
    BY <1>5 DEF wake_up_q, Goto, raw_spin_lock, set_state, lockvars,
          ReadHolders, Transient, Granted, Queued, TaskTypes, Control,
          Calls, NoCall, ReadPc, MarkPc, WaitPc, Types, CountType, In
  <2> QED BY <2>1, <2>2, Recount DEF Types
<1>6. ASSUME NEW t \in Tasks, NEW m \in MODES, down_read(t, m)
      PROVE  ReaderCount'
  <2>1. Others(t)
    BY <1>6, OthersKept DEF OneMoves, read_step, write_step, unlock_step
  <2>2. count'.readers = count.readers + In(t, ReadHolders') - In(t, ReadHolders)
                                       + In(t, Transient') - In(t, Transient)
    BY <1>6 DEF down_read, add_readers, Goto, listvars, wakevars, ReadHolders,
          Transient, Granted, Queued, TaskTypes, Control,
          Calls, NoCall, ReadPc, MarkPc, WaitPc, Types, CountType, In
  <2> QED BY <2>1, <2>2, Recount DEF Types
<1>7. ASSUME NEW t \in Tasks, down_read_trylock(t) PROVE ReaderCount'
  <2>1. Others(t)
    BY <1>7, OthersKept DEF OneMoves, read_step, write_step, unlock_step
  <2>2. count'.readers = count.readers + In(t, ReadHolders') - In(t, ReadHolders)
                                       + In(t, Transient') - In(t, Transient)
    BY <1>7 DEF down_read_trylock, Jump, Goto, add_readers, listvars, taskvars,
          wakevars, ReadHolders, Transient, Granted, Queued, TaskTypes, Control,
          Calls, NoCall, ReadPc, MarkPc, WaitPc, Types, CountType, In
  <2> QED BY <2>1, <2>2, Recount DEF Types
<1>8. ASSUME NEW t \in Tasks, set_reader_owned(t) PROVE ReaderCount'
  <2>1. Others(t)
    BY <1>8, OthersKept DEF OneMoves, read_step, write_step, unlock_step
  <2>2. count'.readers = count.readers + In(t, ReadHolders') - In(t, ReadHolders)
                                       + In(t, Transient') - In(t, Transient)
    BY <1>8 DEF set_reader_owned, set_owner, Goto, Return, listvars, wakevars,
          ReadHolders, Transient, Granted, Queued, TaskTypes, Control,
          Calls, NoCall, ReadPc, MarkPc, WaitPc, Types, CountType, In
  <2> QED BY <2>1, <2>2, Recount DEF Types
<1>9. ASSUME NEW t \in Tasks, read_undo(t) PROVE ReaderCount'
  <2>1. Others(t)
    BY <1>9, OthersKept DEF OneMoves, read_step, write_step, unlock_step
  <2>2. count'.readers = count.readers + In(t, ReadHolders') - In(t, ReadHolders)
                                       + In(t, Transient') - In(t, Transient)
    BY <1>9 DEF read_undo, Jump, Goto, add_readers, listvars, taskvars,
          wakevars, ReadHolders, Transient, Granted, Queued, TaskTypes, Control,
          Calls, NoCall, ReadPc, MarkPc, WaitPc, Types, CountType, In
  <2> QED BY <2>1, <2>2, Recount DEF Types
<1>10. ASSUME NEW t \in Tasks, read_osq_lock(t) PROVE ReaderCount'
  <2>1. Others(t)
    BY <1>10, OthersKept DEF OneMoves, read_step, write_step, unlock_step
  <2>2. count'.readers = count.readers + In(t, ReadHolders') - In(t, ReadHolders)
                                       + In(t, Transient') - In(t, Transient)
    BY <1>10 DEF read_osq_lock, Jump, Goto, listvars, taskvars, wakevars,
          ReadHolders, Transient, Granted, Queued, TaskTypes, Control,
          Calls, NoCall, ReadPc, MarkPc, WaitPc, Types, CountType, In
  <2> QED BY <2>1, <2>2, Recount DEF Types
<1>11. ASSUME NEW t \in Tasks, read_try(t) PROVE ReaderCount'
  <2>1. Others(t)
    BY <1>11, OthersKept DEF OneMoves, read_step, write_step, unlock_step
  <2>2. count'.readers = count.readers + In(t, ReadHolders') - In(t, ReadHolders)
                                       + In(t, Transient') - In(t, Transient)
    BY <1>11 DEF read_try, Jump, Goto, lockvars, listvars, taskvars, wakevars,
          ReadHolders, Transient, Granted, Queued, TaskTypes, Control,
          Calls, NoCall, ReadPc, MarkPc, WaitPc, Types, CountType, In
  <2> QED BY <2>1, <2>2, Recount DEF Types
<1>11a. ASSUME NEW t \in Tasks, read_phase(t) PROVE ReaderCount'
  <2>1. Others(t)
    BY <1>11a, OthersKept DEF OneMoves, read_step, write_step, unlock_step
  <2>2. count'.readers = count.readers + In(t, ReadHolders') - In(t, ReadHolders)
                                       + In(t, Transient') - In(t, Transient)
    BY <1>11a DEF read_phase, Goto, lockvars, listvars, taskvars,
          wakevars, ReadHolders, Transient, Granted, Queued, TaskTypes,
          Control, Calls, NoCall, ReadPc, MarkPc, WaitPc, Types, CountType, In
  <2> QED BY <2>1, <2>2, Recount DEF Types
<1>12. ASSUME NEW t \in Tasks, read_add(t) PROVE ReaderCount'
  <2>1. Others(t)
    BY <1>12, OthersKept DEF OneMoves, read_step, write_step, unlock_step
  <2>2. count'.readers = count.readers + In(t, ReadHolders') - In(t, ReadHolders)
                                       + In(t, Transient') - In(t, Transient)
    BY <1>12 DEF read_add, Jump, Goto, add_readers, listvars, taskvars,
          wakevars, ReadHolders, Transient, Granted, Queued, TaskTypes, Control,
          Calls, NoCall, ReadPc, MarkPc, WaitPc, Types, CountType, In
  <2> QED BY <2>1, <2>2, Recount DEF Types
<1>13. ASSUME NEW t \in Tasks, read_back(t) PROVE ReaderCount'
  <2>1. Others(t)
    BY <1>13, OthersKept DEF OneMoves, read_step, write_step, unlock_step
  <2>2. count'.readers = count.readers + In(t, ReadHolders') - In(t, ReadHolders)
                                       + In(t, Transient') - In(t, Transient)
    BY <1>13 DEF read_back, Jump, Goto, add_readers, listvars, taskvars,
          wakevars, ReadHolders, Transient, Granted, Queued, TaskTypes, Control,
          Calls, NoCall, ReadPc, MarkPc, WaitPc, Types, CountType, In
  <2> QED BY <2>1, <2>2, Recount DEF Types
<1>14. ASSUME NEW t \in Tasks, read_stop_spinning(t) PROVE ReaderCount'
  <2>1. Others(t)
    BY <1>14, OthersKept DEF OneMoves, read_step, write_step, unlock_step
  <2>2. count'.readers = count.readers + In(t, ReadHolders') - In(t, ReadHolders)
                                       + In(t, Transient') - In(t, Transient)
    BY <1>14 DEF read_stop_spinning, Jump, Goto, listvars, taskvars, wakevars,
          ReadHolders, Transient, Granted, Queued, TaskTypes, Control,
          Calls, NoCall, ReadPc, MarkPc, WaitPc, Types, CountType, In
  <2> QED BY <2>1, <2>2, Recount DEF Types
<1>15. ASSUME NEW t \in Tasks, read_spun(t) PROVE ReaderCount'
  <2>1. Others(t)
    BY <1>15, OthersKept DEF OneMoves, read_step, write_step, unlock_step
  <2>2. count'.readers = count.readers + In(t, ReadHolders') - In(t, ReadHolders)
                                       + In(t, Transient') - In(t, Transient)
    BY <1>15 DEF read_spun, Return, Goto, lockvars, ReadHolders, Transient,
          Granted, Queued, TaskTypes, Control,
          Calls, NoCall, ReadPc, MarkPc, WaitPc, Types, CountType, In
  <2> QED BY <2>1, <2>2, Recount DEF Types
<1>16. ASSUME NEW t \in Tasks, read_spun_lock(t) PROVE ReaderCount'
  <2>1. Others(t)
    BY <1>16, OthersKept DEF OneMoves, read_step, write_step, unlock_step
  <2>2. count'.readers = count.readers + In(t, ReadHolders') - In(t, ReadHolders)
                                       + In(t, Transient') - In(t, Transient)
    BY <1>16 DEF read_spun_lock, Goto, MarkWake, lockvars, ReadHolders,
          Transient, Granted, Queued, TaskTypes, Control,
          Calls, NoCall, ReadPc, MarkPc, WaitPc, Types, CountType, In
  <2> QED BY <2>1, <2>2, Recount DEF Types
<1>17. ASSUME NEW t \in Tasks, read_queue_test(t) PROVE ReaderCount'
  <2>1. Others(t)
    BY <1>17, OthersKept DEF OneMoves, read_step, write_step, unlock_step
  <2>2. count'.readers = count.readers + In(t, ReadHolders') - In(t, ReadHolders)
                                       + In(t, Transient') - In(t, Transient)
    BY <1>17 DEF read_queue_test, Goto, lockvars, taskvars, wakevars,
          ReadHolders, Transient, Granted, Queued, TaskTypes, Control,
          Calls, NoCall, ReadPc, MarkPc, WaitPc, Types, CountType, In
  <2> QED BY <2>1, <2>2, Recount DEF Types
<1>18. ASSUME NEW t \in Tasks, read_enqueue(t) PROVE ReaderCount'
  <2>1. /\ wait_list' = Append(wait_list, t)
        /\ pc[t] \in {"r_enqueue", "r_slow", "r_osq", "r_phase", "r_phase_try", "r_queue"}
        /\ \/ /\ pc'[t] = "mark"
              /\ call'[t] = [type |-> "RWSEM_WAKE_ANY", ret |-> "r_wait"]
           \/ pc'[t] = "r_wait" /\ call'[t] = call[t]
        /\ count'.readers = IF pc[t] \in {"r_slow", "r_enqueue"} THEN count.readers - 1
                                                                ELSE count.readers
    BY <1>18 DEF read_enqueue, MarkWake, Goto, TaskTypes, Types, CountType
  <2>2. call[t] = NoCall /\ t \notin Queued
    BY <2>1 DEF Control, WriterPc, NoCall, MarkPc, Listed, WaitsToRead, WaitPc
  <2>3. Queued' = Queued \cup {t}
    BY <2>1, <2>2, Joins DEF Listed
  <2>4. Others(t)
    BY <1>18, OthersKept DEF OneMoves, read_step, write_step, unlock_step
  <2>5. t \notin ReadHolders /\ t \notin ReadHolders' /\ t \notin Transient'
    BY <2>1, <2>2, <2>3 DEF ReadHolders, Transient, Granted, NoCall, ReadPc,
          WaitPc
  <2>6. t \in Transient <=> pc[t] \in {"r_slow", "r_enqueue"}
    BY <2>1 DEF Transient
  <2>7. count'.readers = count.readers + In(t, ReadHolders') - In(t, ReadHolders)
                                       + In(t, Transient') - In(t, Transient)
    BY <2>1, <2>5, <2>6 DEF In, Types, CountType
  <2> QED BY <2>4, <2>7, Recount DEF Types
<1>19. ASSUME NEW t \in Tasks, read_set_state(t) PROVE ReaderCount'
  <2>1. Others(t)
    BY <1>19, OthersKept DEF OneMoves, read_step, write_step, unlock_step
  <2>2. count'.readers = count.readers + In(t, ReadHolders') - In(t, ReadHolders)
                                       + In(t, Transient') - In(t, Transient)
    BY <1>19 DEF read_set_state, Jump, Goto, set_state, lockvars, listvars,
          wakevars, ReadHolders, Transient, Granted, Queued, TaskTypes, Control,
          Calls, NoCall, ReadPc, MarkPc, WaitPc, Types, CountType, In
  <2> QED BY <2>1, <2>2, Recount DEF Types
<1>20. ASSUME NEW t \in Tasks, read_check(t) PROVE ReaderCount'
  <2>1. Others(t)
    BY <1>20, OthersKept DEF OneMoves, read_step, write_step, unlock_step
  <2>2. count'.readers = count.readers + In(t, ReadHolders') - In(t, ReadHolders)
                                       + In(t, Transient') - In(t, Transient)
    BY <1>20 DEF read_check, Goto, Return, set_state, taskvars, lockvars,
          listvars, wakevars, ReadHolders, Transient, Granted, Queued,
          TaskTypes, Control,
          Calls, NoCall, ReadPc, MarkPc, WaitPc, Types, CountType, In
  <2> QED BY <2>1, <2>2, Recount DEF Types
<1>21. ASSUME NEW t \in Tasks, read_schedule(t) PROVE ReaderCount'
  <2>1. Others(t)
    BY <1>21, OthersKept DEF OneMoves, read_step, write_step, unlock_step
  <2>2. count'.readers = count.readers + In(t, ReadHolders') - In(t, ReadHolders)
                                       + In(t, Transient') - In(t, Transient)
    BY <1>21 DEF read_schedule, Jump, Goto, lockvars, listvars, taskvars,
          wakevars, ReadHolders, Transient, Granted, Queued, TaskTypes, Control,
          Calls, NoCall, ReadPc, MarkPc, WaitPc, Types, CountType, In
  <2> QED BY <2>1, <2>2, Recount DEF Types
<1>22. ASSUME NEW t \in Tasks, read_signal(t) PROVE ReaderCount'
  <2>0. Others(t)
    BY <1>22, OthersKept DEF OneMoves, read_step, write_step, unlock_step
  <2>1. CASE t \in Queued
    <3>1. /\ pc[t] = "r_signal" /\ UNCHANGED call
          /\ pc' = [pc EXCEPT ![t] = "idle"] /\ count'.readers = count.readers
      BY <1>22, <2>1 DEF read_signal, Return, Goto, wakevars, Types, CountType
    <3>2. call[t] = NoCall /\ pc'[t] = "idle"
      BY <3>1 DEF Control, MarkPc, TaskTypes
    <3>3. /\ t \notin ReadHolders /\ t \notin ReadHolders'
          /\ t \notin Transient /\ t \notin Transient'
      BY <2>1, <3>1, <3>2 DEF ReadHolders, Transient, Granted, NoCall, ReadPc,
            WaitPc
    <3>4. count'.readers = count.readers + In(t, ReadHolders') - In(t, ReadHolders)
                                         + In(t, Transient') - In(t, Transient)
      BY <3>1, <3>3 DEF In, Types, CountType
    <3> QED BY <2>0, <3>4, Recount DEF Types
  <2>2. CASE t \notin Queued
    <3>1. /\ pc[t] = "r_signal" /\ UNCHANGED <<wait_list, call, count>>
          /\ pc' = [pc EXCEPT ![t] = "read"]
      BY <1>22, <2>2 DEF read_signal, Return, Goto, wakevars
    <3>2. /\ t \in ReadHolders /\ t \in ReadHolders'
          /\ t \notin Transient /\ t \notin Transient'
      BY <2>2, <3>1 DEF ReadHolders, Transient, Granted, ReadPc, WaitPc,
            TaskTypes
    <3>3. count'.readers = count.readers + In(t, ReadHolders') - In(t, ReadHolders)
                                         + In(t, Transient') - In(t, Transient)
      BY <3>1, <3>2 DEF In, Types, CountType
    <3> QED BY <2>0, <3>3, Recount DEF Types
  <2> QED BY <2>1, <2>2
<1>23. ASSUME NEW t \in Tasks, down_write_fast(t) PROVE ReaderCount'
  <2>1. Others(t)
    BY <1>23, OthersKept DEF OneMoves, read_step, write_step, unlock_step
  <2>2. count'.readers = count.readers + In(t, ReadHolders') - In(t, ReadHolders)
                                       + In(t, Transient') - In(t, Transient)
    BY <1>23 DEF down_write_fast, Jump, Goto, listvars, taskvars, wakevars,
          ReadHolders, Transient, Granted, Queued, TaskTypes, Control,
          Calls, NoCall, ReadPc, MarkPc, WaitPc, Types, CountType, In
  <2> QED BY <2>1, <2>2, Recount DEF Types
<1>24. ASSUME NEW t \in Tasks, NEW m \in MODES, down_write_slow(t, m)
       PROVE  ReaderCount'
  <2>1. Others(t)
    BY <1>24, OthersKept DEF OneMoves, read_step, write_step, unlock_step
  <2>2. count'.readers = count.readers + In(t, ReadHolders') - In(t, ReadHolders)
                                       + In(t, Transient') - In(t, Transient)
    BY <1>24 DEF down_write_slow, Jump, Goto, lockvars, listvars, wakevars,
          ReadHolders, Transient, Granted, Queued, TaskTypes, Control,
          Calls, NoCall, ReadPc, MarkPc, WaitPc, Types, CountType, In
  <2> QED BY <2>1, <2>2, Recount DEF Types
<1>25. ASSUME NEW t \in Tasks, set_writer_owned(t) PROVE ReaderCount'
  <2>1. Others(t)
    BY <1>25, OthersKept DEF OneMoves, read_step, write_step, unlock_step
  <2>2. count'.readers = count.readers + In(t, ReadHolders') - In(t, ReadHolders)
                                       + In(t, Transient') - In(t, Transient)
    BY <1>25 DEF set_writer_owned, set_owner, Return, Goto, listvars, wakevars,
          ReadHolders, Transient, Granted, Queued, TaskTypes, Control,
          Calls, NoCall, ReadPc, MarkPc, WaitPc, Types, CountType, In
  <2> QED BY <2>1, <2>2, Recount DEF Types
<1>26. ASSUME NEW t \in Tasks, write_osq_lock(t) PROVE ReaderCount'
  <2>1. Others(t)
    BY <1>26, OthersKept DEF OneMoves, read_step, write_step, unlock_step
  <2>2. count'.readers = count.readers + In(t, ReadHolders') - In(t, ReadHolders)
                                       + In(t, Transient') - In(t, Transient)
    BY <1>26 DEF write_osq_lock, Jump, Goto, listvars, taskvars, wakevars,
          ReadHolders, Transient, Granted, Queued, TaskTypes, Control,
          Calls, NoCall, ReadPc, MarkPc, WaitPc, Types, CountType, In
  <2> QED BY <2>1, <2>2, Recount DEF Types
<1>27. ASSUME NEW t \in Tasks, write_try_unqueued(t) PROVE ReaderCount'
  <2>1. Others(t)
    BY <1>27, OthersKept DEF OneMoves, read_step, write_step, unlock_step
  <2>2. count'.readers = count.readers + In(t, ReadHolders') - In(t, ReadHolders)
                                       + In(t, Transient') - In(t, Transient)
    BY <1>27 DEF write_try_unqueued, Jump, Goto, listvars, taskvars, wakevars,
          ReadHolders, Transient, Granted, Queued, TaskTypes, Control,
          Calls, NoCall, ReadPc, MarkPc, WaitPc, Types, CountType, In
  <2> QED BY <2>1, <2>2, Recount DEF Types
<1>28. ASSUME NEW t \in Tasks, write_stop_spinning(t) PROVE ReaderCount'
  <2>1. Others(t)
    BY <1>28, OthersKept DEF OneMoves, read_step, write_step, unlock_step
  <2>2. count'.readers = count.readers + In(t, ReadHolders') - In(t, ReadHolders)
                                       + In(t, Transient') - In(t, Transient)
    BY <1>28 DEF write_stop_spinning, Jump, Goto, listvars, taskvars, wakevars,
          ReadHolders, Transient, Granted, Queued, TaskTypes, Control,
          Calls, NoCall, ReadPc, MarkPc, WaitPc, Types, CountType, In
  <2> QED BY <2>1, <2>2, Recount DEF Types
<1>29. ASSUME NEW t \in Tasks, write_enqueue(t) PROVE ReaderCount'
  <2>1. Others(t)
    BY <1>29, OthersKept DEF OneMoves, read_step, write_step, unlock_step
  <2>2. count'.readers = count.readers + In(t, ReadHolders') - In(t, ReadHolders)
                                       + In(t, Transient') - In(t, Transient)
    BY <1>29 DEF write_enqueue, raw_spin_lock, Goto, set_state, MarkWake,
          ReadHolders, Transient, Granted, Queued, TaskTypes, Control,
          Calls, NoCall, ReadPc, MarkPc, WaitPc, Types, CountType, In
  <2> QED BY <2>1, <2>2, Recount DEF Types
<1>30. ASSUME NEW t \in Tasks, write_try(t) PROVE ReaderCount'
  <2>1. Others(t)
    BY <1>30, OthersKept DEF OneMoves, read_step, write_step, unlock_step
  <2>2. /\ pc[t] \in {"w_try", "w_relock"} /\ UNCHANGED call
        /\ pc'[t] \in {"w_locked", "w_spin_owner", "w_signal", "w_asleep"}
        /\ count'.readers = count.readers
    BY <1>30 DEF write_try, Goto, Block, wakevars, TaskTypes, Types, CountType
  <2>3. count'.readers = count.readers + In(t, ReadHolders') - In(t, ReadHolders)
                                       + In(t, Transient') - In(t, Transient)
    BY <2>2 DEF ReadHolders, Transient, Granted, Control, NoCall, ReadPc,
          MarkPc, WaitPc, In, Types, CountType
  <2> QED BY <2>1, <2>3, Recount DEF Types
<1>31. ASSUME NEW t \in Tasks, write_locked(t) PROVE ReaderCount'
  <2>1. Others(t)
    BY <1>31, OthersKept DEF OneMoves, read_step, write_step, unlock_step
  <2>2. /\ pc[t] = "w_locked"
        /\ pc'[t] \in {"write"} /\ call'[t].ret \in {call[t].ret, "idle"}
        /\ count'.readers = count.readers
    BY <1>31 DEF write_locked, Return, Goto, wakevars, TaskTypes, Types,
          CountType
  <2>3. count'.readers = count.readers + In(t, ReadHolders') - In(t, ReadHolders)
                                       + In(t, Transient') - In(t, Transient)
    BY <2>2 DEF ReadHolders, Transient, Granted, Control, NoCall, ReadPc,
          MarkPc, WaitPc, In, Types, CountType
  <2> QED BY <2>1, <2>3, Recount DEF Types
<1>32. ASSUME NEW t \in Tasks, write_spin_on_owner(t) PROVE ReaderCount'
  <2>1. Others(t)
    BY <1>32, OthersKept DEF OneMoves, read_step, write_step, unlock_step
  <2>2. count'.readers = count.readers + In(t, ReadHolders') - In(t, ReadHolders)
                                       + In(t, Transient') - In(t, Transient)
    BY <1>32 DEF write_spin_on_owner, Goto, Block, set_state, lockvars,
          listvars, wakevars, ReadHolders, Transient, Granted, Queued,
          TaskTypes, Control,
          Calls, NoCall, ReadPc, MarkPc, WaitPc, Types, CountType, In
  <2> QED BY <2>1, <2>2, Recount DEF Types
<1>33. ASSUME NEW t \in Tasks, write_schedule(t) PROVE ReaderCount'
  <2>1. Others(t)
    BY <1>33, OthersKept DEF OneMoves, read_step, write_step, unlock_step
  <2>2. count'.readers = count.readers + In(t, ReadHolders') - In(t, ReadHolders)
                                       + In(t, Transient') - In(t, Transient)
    BY <1>33 DEF write_schedule, listvars, Jump, Goto, set_state, lockvars,
          wakevars, ReadHolders, Transient, Granted, Queued, TaskTypes,
          Control, Calls, NoCall, ReadPc, MarkPc, WaitPc, Types, CountType, In
  <2> QED BY <2>1, <2>2, Recount DEF Types
<1>33a. ASSUME NEW t \in Tasks, write_first(t) PROVE ReaderCount'
  <2>1. Others(t)
    BY <1>33a, OthersKept DEF OneMoves, read_step, write_step, unlock_step
  <2>2. count'.readers = count.readers + In(t, ReadHolders') - In(t, ReadHolders)
                                       + In(t, Transient') - In(t, Transient)
    BY <1>33a DEF write_first, Jump, Goto, taskvars, lockvars, wakevars,
          ReadHolders, Transient, Granted, Queued, TaskTypes, Control, Calls,
          NoCall, ReadPc, MarkPc, WaitPc, Types, CountType, In
  <2> QED BY <2>1, <2>2, Recount DEF Types
<1>34. ASSUME NEW t \in Tasks, NEW timeout \in BOOLEAN, write_count(t, timeout)
       PROVE  ReaderCount'
  <2>1. Others(t)
    BY <1>34, OthersKept DEF OneMoves, read_step, write_step, unlock_step
  <2>2. count'.readers = count.readers + In(t, ReadHolders') - In(t, ReadHolders)
                                       + In(t, Transient') - In(t, Transient)
    BY <1>34 DEF write_count, Goto, Block, set_state, lockvars, wakevars,
          ReadHolders, Transient, Granted, Queued, TaskTypes, Control,
          Calls, NoCall, ReadPc, MarkPc, WaitPc, Types, CountType, In
  <2> QED BY <2>1, <2>2, Recount DEF Types
<1>35. ASSUME NEW t \in Tasks, write_signal(t) PROVE ReaderCount'
  <2>1. Others(t)
    BY <1>35, OthersKept DEF OneMoves, read_step, write_step, unlock_step
  <2>2. /\ pc[t] = "w_signal"
        /\ pc'[t] \in {"idle", "mark"} /\ call'[t].ret \in {call[t].ret, "idle"}
        /\ count'.readers = count.readers
    BY <1>35 DEF write_signal, MarkWake, Goto, TaskTypes, Types, CountType
  <2>3. count'.readers = count.readers + In(t, ReadHolders') - In(t, ReadHolders)
                                       + In(t, Transient') - In(t, Transient)
    BY <2>2 DEF ReadHolders, Transient, Granted, Control, NoCall, ReadPc,
          MarkPc, WaitPc, In, Types, CountType
  <2> QED BY <2>1, <2>3, Recount DEF Types
<1>36. ASSUME NEW t \in Tasks, up_read(t) PROVE ReaderCount'
  <2>1. Others(t)
    BY <1>36, OthersKept DEF OneMoves, read_step, write_step, unlock_step
  <2>2. count'.readers = count.readers + In(t, ReadHolders') - In(t, ReadHolders)
                                       + In(t, Transient') - In(t, Transient)
    BY <1>36 DEF up_read, add_readers, Goto, listvars, taskvars, wakevars,
          ReadHolders, Transient, Granted, Queued, TaskTypes, Control,
          Calls, NoCall, ReadPc, MarkPc, WaitPc, Types, CountType, In
  <2> QED BY <2>1, <2>2, Recount DEF Types
<1>37. ASSUME NEW t \in Tasks, clear_owner(t) PROVE ReaderCount'
  <2>1. Others(t)
    BY <1>37, OthersKept DEF OneMoves, read_step, write_step, unlock_step
  <2>2. count'.readers = count.readers + In(t, ReadHolders') - In(t, ReadHolders)
                                       + In(t, Transient') - In(t, Transient)
    BY <1>37 DEF clear_owner, Jump, Goto, set_owner, listvars, taskvars,
          wakevars, ReadHolders, Transient, Granted, Queued, TaskTypes, Control,
          Calls, NoCall, ReadPc, MarkPc, WaitPc, Types, CountType, In
  <2> QED BY <2>1, <2>2, Recount DEF Types
<1>38. ASSUME NEW t \in Tasks, up_write(t) PROVE ReaderCount'
  <2>1. Others(t)
    BY <1>38, OthersKept DEF OneMoves, read_step, write_step, unlock_step
  <2>2. count'.readers = count.readers + In(t, ReadHolders') - In(t, ReadHolders)
                                       + In(t, Transient') - In(t, Transient)
    BY <1>38 DEF up_write, Jump, Goto, listvars, taskvars, wakevars,
          ReadHolders, Transient, Granted, Queued, TaskTypes, Control,
          Calls, NoCall, ReadPc, MarkPc, WaitPc, Types, CountType, In
  <2> QED BY <2>1, <2>2, Recount DEF Types
<1>39. ASSUME NEW t \in Tasks, downgrade_write(t) PROVE ReaderCount'
  <2>1. Others(t)
    BY <1>39, OthersKept DEF OneMoves, read_step, write_step, unlock_step
  <2>2. count'.readers = count.readers + In(t, ReadHolders') - In(t, ReadHolders)
                                       + In(t, Transient') - In(t, Transient)
    BY <1>39 DEF downgrade_write, Jump, Goto, listvars, taskvars, wakevars,
          ReadHolders, Transient, Granted, Queued, TaskTypes, Control,
          Calls, NoCall, ReadPc, MarkPc, WaitPc, Types, CountType, In
  <2> QED BY <2>1, <2>2, Recount DEF Types
<1>40. ASSUME NEW t \in Tasks, downgrade_owner(t) PROVE ReaderCount'
  <2>1. Others(t)
    BY <1>40, OthersKept DEF OneMoves, read_step, write_step, unlock_step
  <2>2. count'.readers = count.readers + In(t, ReadHolders') - In(t, ReadHolders)
                                       + In(t, Transient') - In(t, Transient)
    BY <1>40 DEF downgrade_owner, Jump, Goto, set_owner, listvars, taskvars,
          wakevars, ReadHolders, Transient, Granted, Queued, TaskTypes, Control,
          Calls, NoCall, ReadPc, MarkPc, WaitPc, Types, CountType, In
  <2> QED BY <2>1, <2>2, Recount DEF Types
<1>41. ASSUME NEW t \in Tasks, rwsem_wake(t, "wake", "RWSEM_WAKE_ANY", "idle")
       PROVE  ReaderCount'
  <2>1. Others(t)
    BY <1>41, OthersKept DEF OneMoves, read_step, write_step, unlock_step
  <2>2. count'.readers = count.readers + In(t, ReadHolders') - In(t, ReadHolders)
                                       + In(t, Transient') - In(t, Transient)
    BY <1>41 DEF rwsem_wake, Goto, MarkWake, lockvars, taskvars, ReadHolders,
          Transient, Granted, Queued, TaskTypes, Control,
          Calls, NoCall, ReadPc, MarkPc, WaitPc, Types, CountType, In
  <2> QED BY <2>1, <2>2, Recount DEF Types
<1>42. ASSUME NEW t \in Tasks,
              rwsem_wake(t, "downgrade_wake", "RWSEM_WAKE_READ_OWNED", "read")
       PROVE  ReaderCount'
  <2>1. Others(t)
    BY <1>42, OthersKept DEF OneMoves, read_step, write_step, unlock_step
  <2>2. count'.readers = count.readers + In(t, ReadHolders') - In(t, ReadHolders)
                                       + In(t, Transient') - In(t, Transient)
    BY <1>42 DEF rwsem_wake, Goto, MarkWake, lockvars, taskvars, ReadHolders,
          Transient, Granted, Queued, TaskTypes, Control,
          Calls, NoCall, ReadPc, MarkPc, WaitPc, Types, CountType, In
  <2> QED BY <2>1, <2>2, Recount DEF Types
<1>43. ASSUME NEW t \in Tasks, signal_wake_up(t) PROVE ReaderCount'
  <2>1. Others(t)
    BY <1>43, OthersKept DEF OneMoves, read_step, write_step, unlock_step
  <2>2. count'.readers = count.readers + In(t, ReadHolders') - In(t, ReadHolders)
                                       + In(t, Transient') - In(t, Transient)
    BY <1>43 DEF signal_wake_up, set_state, lockvars, listvars, wakevars,
          ReadHolders, Transient, Granted, Queued, TaskTypes, Control,
          Calls, NoCall, ReadPc, MarkPc, WaitPc, Types, CountType, In
  <2> QED BY <2>1, <2>2, Recount DEF Types
<1> QED BY <1>0, <1>1, <1>2, <1>3, <1>4, <1>5, <1>6, <1>7, <1>8, <1>9, <1>10,
      <1>11, <1>11a, <1>12, <1>13, <1>14, <1>15, <1>16, <1>17, <1>18, <1>19,
      <1>20, <1>21, <1>22, <1>23, <1>24, <1>25, <1>26, <1>27, <1>28, <1>29,
      <1>30, <1>31, <1>32, <1>33, <1>33a, <1>34, <1>35, <1>36, <1>37, <1>38,
      <1>39, <1>40, <1>41, <1>42, <1>43 DEF Next, Start, Continue, mark_wake,
      read_step, write_step, unlock_step

\* A step that moves no writer, and makes holders only without one.
LEMMA ExclusionKept ==
  ASSUME Exclusion, NEW t \in Tasks, Others(t), count'.writer = count.writer,
         t \in WriteHolders' <=> t \in WriteHolders,
         t \in ReadHolders' => t \in ReadHolders \/ count.writer = 0,
         pc'[t] \in {"mark_owner", "mark_grant"} =>
           pc[t] \in {"mark_owner", "mark_grant"} \/ count.writer = 0
  PROVE  Exclusion'
<1>1. WriteHolders' = WriteHolders
  BY OthersStay DEF WriteHolders
<1>2. ASSUME count.writer # 0 PROVE ReadHolders' = {}
  <2>1. \A u \in Tasks : u \in ReadHolders' => u \in ReadHolders
    BY <1>2, OthersStay
  <2> QED BY <1>2, <2>1, HoldersAreTasks DEF Exclusion
<1>3. \A u \in Tasks : pc'[u] \in {"mark_owner", "mark_grant"} => count.writer = 0
  BY DEF Exclusion, Others
<1> QED BY <1>1, <1>2, <1>3 DEF Exclusion

\* A writer gets a lock that nobody has.
LEMMA ExclusionTaken ==
  ASSUME TaskTypes, Control, ReaderCount, Exclusion, count \in CountType,
         NEW t \in Tasks, Others(t), ~LockMask, count'.writer = 1,
         t \in WriteHolders', t \notin ReadHolders',
         pc'[t] \notin {"mark_owner", "mark_grant"}
  PROVE  Exclusion' /\ ReadHolders = {} /\ WriteHolders = {} /\ WriteHolders' = {t}
<1>1. ReadHolders = {} /\ Transient = {} /\ WriteHolders = {}
  BY NoReaders DEF LockMask, CountType, Exclusion
<1>2. WriteHolders' = {t}
  BY <1>1, OthersStay DEF WriteHolders
<1>3. ReadHolders' = {}
  BY <1>1, OthersStay, HoldersAreTasks
<1>4. \A u \in Tasks : pc[u] \notin {"mark_owner", "mark_grant"}
  BY <1>1 DEF Transient, ReadHolders, TaskTypes, Control, Calls, NoCall, MarkPc
<1>5. \A u \in Tasks : pc'[u] \notin {"mark_owner", "mark_grant"}
  BY <1>4 DEF Others
<1> QED BY <1>1, <1>2, <1>3, <1>5 DEF Exclusion

\* The writer leaves, or stays as a reader.
LEMMA ExclusionLeft ==
  ASSUME Exclusion, count \in CountType, NEW t \in WriteHolders, Others(t),
         count'.writer = count.writer - 1, t \notin WriteHolders'
  PROVE  Exclusion' /\ ReadHolders = {} /\ WriteHolders = {t} /\ WriteHolders' = {}
<1>1. t \in Tasks
  BY DEF WriteHolders
<1>2. count.writer = 1
  BY DEF Exclusion, CountType
<1>3. ReadHolders = {} /\ WriteHolders = {t}
  BY <1>2 DEF Exclusion
<1>4. WriteHolders' = {}
  BY <1>1, <1>3, OthersStay DEF WriteHolders
<1> QED BY <1>2, <1>3, <1>4 DEF Exclusion

\* A writer takes the lock only if count says that there is no reader, and then
\* there is none, nor any that is about to be granted the lock:
\* rwsem_mark_wake() adds its bias before it looks for a writer.
LEMMA ExclusionStep ==
  ASSUME Types, TaskTypes, Control, Locking, Listed, ReaderCount, Exclusion,
         [Next]_vars
  PROVE  Exclusion'
<1>0. UNCHANGED vars => Exclusion'
  BY DEF vars, lockvars, listvars, taskvars, wakevars, Exclusion, WriteHolders,
        ReadHolders, Granted, Queued
<1>1. ASSUME NEW t \in Tasks, mark_first(t) PROVE Exclusion'
  <2>1. Others(t)
    BY <1>1, OthersKept DEF OneMoves, read_step, write_step, unlock_step
  <2>2. /\ pc[t] = "mark" /\ UNCHANGED wait_list /\ count'.writer = count.writer
        /\ \/ pc'[t] = "wake_up_q" /\ call'[t] = call[t]
           \/ pc'[t] = "w_try" /\ call'[t] = NoCall /\ call[t].ret = "w_try"
           \/ pc'[t] = "mark_back" /\ call'[t] = call[t]
           \/ pc'[t] = "mark_owner" /\ call'[t] = call[t] /\ count.writer = 0
           \/ /\ pc'[t] = "mark_grant" /\ call'[t] = call[t]
              /\ call[t].type = "RWSEM_WAKE_READ_OWNED"
    BY <1>1 DEF mark_first, Marked, Goto, add_readers, wakevars, WriterMask,
          TaskTypes, Types, CountType
  <2>3. call[t].type = "RWSEM_WAKE_READ_OWNED" => count.writer = 0
    BY DEF TaskTypes, Calls, NoCall, ReadHolders, Exclusion
  <2>4. t \in ReadHolders' => t \in ReadHolders
    BY <2>2 DEF ReadHolders, Granted, Queued, ReadPc, WaitPc, NoCall
  <2>5. t \notin WriteHolders /\ t \notin WriteHolders'
    BY <2>2 DEF WriteHolders, WritePc
  <2> QED BY <2>1, <2>2, <2>3, <2>4, <2>5, ExclusionKept
<1>2. ASSUME NEW t \in Tasks, NEW timeout \in BOOLEAN, mark_back(t, timeout)
      PROVE  Exclusion'
  <2>1. Others(t)
    BY <1>2, OthersKept DEF OneMoves, read_step, write_step, unlock_step
  <2>2. /\ count'.writer = count.writer
        /\ t \in WriteHolders' <=> t \in WriteHolders
        /\ t \in ReadHolders' => t \in ReadHolders \/ count.writer = 0
        /\ pc'[t] \in {"mark_owner", "mark_grant"} =>
             pc[t] \in {"mark_owner", "mark_grant"} \/ count.writer = 0
    BY <1>2 DEF mark_back, Marked, Goto, set_state, WriteHolders, ReadHolders,
          Granted, Queued, TaskTypes,
          Control, Calls, NoCall, ReadPc, WritePc, MarkPc, WaitPc, Types, CountType
  <2> QED BY <2>1, <2>2, ExclusionKept
<1>3. ASSUME NEW t \in Tasks, mark_owner(t) PROVE Exclusion'
  <2>1. Others(t)
    BY <1>3, OthersKept DEF OneMoves, read_step, write_step, unlock_step
  <2>2. /\ count'.writer = count.writer
        /\ t \in WriteHolders' <=> t \in WriteHolders
        /\ t \in ReadHolders' => t \in ReadHolders \/ count.writer = 0
        /\ pc'[t] \in {"mark_owner", "mark_grant"} =>
             pc[t] \in {"mark_owner", "mark_grant"} \/ count.writer = 0
    BY <1>3 DEF mark_owner, Jump, Goto, set_owner, listvars, taskvars,
          wakevars, WriteHolders, ReadHolders, Granted, Queued, TaskTypes,
          Control, Calls, NoCall, ReadPc, WritePc, MarkPc, WaitPc, Types, CountType
  <2> QED BY <2>1, <2>2, ExclusionKept
<1>4. ASSUME NEW t \in Tasks, mark_grant(t) PROVE Exclusion'
  <2>1. /\ ReadHolders' = ReadHolders \cup Woken /\ WriteHolders' = WriteHolders
        /\ count'.writer = count.writer /\ pc[t] = "mark_grant"
    BY <1>4, BatchGranted DEF mark_grant, Types, CountType
  <2>2. count.writer = 0
    BY <2>1 DEF Exclusion
  <2> QED BY <2>1, <2>2 DEF Exclusion
<1>5. ASSUME NEW t \in Tasks, wake_up_q(t) PROVE Exclusion'
  <2>1. Others(t)
    BY <1>5, OthersKept DEF OneMoves, read_step, write_step, unlock_step
  <2>2. /\ count'.writer = count.writer
        /\ t \in WriteHolders' <=> t \in WriteHolders
        /\ t \in ReadHolders' => t \in ReadHolders \/ count.writer = 0
        /\ pc'[t] \in {"mark_owner", "mark_grant"} =>
             pc[t] \in {"mark_owner", "mark_grant"} \/ count.writer = 0
    BY <1>5 DEF wake_up_q, Goto, raw_spin_lock, set_state, lockvars,
          WriteHolders, ReadHolders, Granted, Queued, TaskTypes,
          Control, Calls, NoCall, ReadPc, WritePc, MarkPc, WaitPc, Types, CountType
  <2> QED BY <2>1, <2>2, ExclusionKept
<1>6. ASSUME NEW t \in Tasks, NEW m \in MODES, down_read(t, m) PROVE Exclusion'
  <2>1. Others(t)
    BY <1>6, OthersKept DEF OneMoves, read_step, write_step, unlock_step
  <2>2. /\ count'.writer = count.writer
        /\ t \in WriteHolders' <=> t \in WriteHolders
        /\ t \in ReadHolders' => t \in ReadHolders \/ count.writer = 0
        /\ pc'[t] \in {"mark_owner", "mark_grant"} =>
             pc[t] \in {"mark_owner", "mark_grant"} \/ count.writer = 0
    BY <1>6 DEF down_read, add_readers, Goto, listvars, wakevars, WriteHolders,
          ReadHolders, Granted, Queued, TaskTypes,
          Control, Calls, NoCall, ReadPc, WritePc, MarkPc, WaitPc, Types, CountType,
          WriterMask, ReadFailedMask
  <2> QED BY <2>1, <2>2, ExclusionKept
<1>7. ASSUME NEW t \in Tasks, down_read_trylock(t) PROVE Exclusion'
  <2>1. Others(t)
    BY <1>7, OthersKept DEF OneMoves, read_step, write_step, unlock_step
  <2>2. /\ count'.writer = count.writer
        /\ t \in WriteHolders' <=> t \in WriteHolders
        /\ t \in ReadHolders' => t \in ReadHolders \/ count.writer = 0
        /\ pc'[t] \in {"mark_owner", "mark_grant"} =>
             pc[t] \in {"mark_owner", "mark_grant"} \/ count.writer = 0
    BY <1>7 DEF down_read_trylock, Jump, Goto, add_readers, listvars, taskvars,
          wakevars, WriteHolders, ReadHolders, Granted, Queued, TaskTypes,
          Control, Calls, NoCall, ReadPc, WritePc, MarkPc, WaitPc, Types, CountType,
          WriterMask, ReadFailedMask
  <2> QED BY <2>1, <2>2, ExclusionKept
<1>8. ASSUME NEW t \in Tasks, set_reader_owned(t) PROVE Exclusion'
  <2>1. Others(t)
    BY <1>8, OthersKept DEF OneMoves, read_step, write_step, unlock_step
  <2>2. /\ count'.writer = count.writer
        /\ t \in WriteHolders' <=> t \in WriteHolders
        /\ t \in ReadHolders' => t \in ReadHolders \/ count.writer = 0
        /\ pc'[t] \in {"mark_owner", "mark_grant"} =>
             pc[t] \in {"mark_owner", "mark_grant"} \/ count.writer = 0
    BY <1>8 DEF set_reader_owned, set_owner, Goto, Return, listvars, wakevars,
          WriteHolders, ReadHolders, Granted, Queued, TaskTypes,
          Control, Calls, NoCall, ReadPc, WritePc, MarkPc, WaitPc, Types, CountType
  <2> QED BY <2>1, <2>2, ExclusionKept
<1>9. ASSUME NEW t \in Tasks, read_undo(t) PROVE Exclusion'
  <2>1. Others(t)
    BY <1>9, OthersKept DEF OneMoves, read_step, write_step, unlock_step
  <2>2. /\ count'.writer = count.writer
        /\ t \in WriteHolders' <=> t \in WriteHolders
        /\ t \in ReadHolders' => t \in ReadHolders \/ count.writer = 0
        /\ pc'[t] \in {"mark_owner", "mark_grant"} =>
             pc[t] \in {"mark_owner", "mark_grant"} \/ count.writer = 0
    BY <1>9 DEF read_undo, Jump, Goto, add_readers, listvars, taskvars,
          wakevars, WriteHolders, ReadHolders, Granted, Queued, TaskTypes,
          Control, Calls, NoCall, ReadPc, WritePc, MarkPc, WaitPc, Types, CountType
  <2> QED BY <2>1, <2>2, ExclusionKept
<1>10. ASSUME NEW t \in Tasks, read_osq_lock(t) PROVE Exclusion'
  <2>1. Others(t)
    BY <1>10, OthersKept DEF OneMoves, read_step, write_step, unlock_step
  <2>2. /\ count'.writer = count.writer
        /\ t \in WriteHolders' <=> t \in WriteHolders
        /\ t \in ReadHolders' => t \in ReadHolders \/ count.writer = 0
        /\ pc'[t] \in {"mark_owner", "mark_grant"} =>
             pc[t] \in {"mark_owner", "mark_grant"} \/ count.writer = 0
    BY <1>10 DEF read_osq_lock, Jump, Goto, listvars, taskvars, wakevars,
          WriteHolders, ReadHolders, Granted, Queued, TaskTypes,
          Control, Calls, NoCall, ReadPc, WritePc, MarkPc, WaitPc, Types, CountType
  <2> QED BY <2>1, <2>2, ExclusionKept
<1>11. ASSUME NEW t \in Tasks, read_try(t) PROVE Exclusion'
  <2>1. Others(t)
    BY <1>11, OthersKept DEF OneMoves, read_step, write_step, unlock_step
  <2>2. /\ count'.writer = count.writer
        /\ t \in WriteHolders' <=> t \in WriteHolders
        /\ t \in ReadHolders' => t \in ReadHolders \/ count.writer = 0
        /\ pc'[t] \in {"mark_owner", "mark_grant"} =>
             pc[t] \in {"mark_owner", "mark_grant"} \/ count.writer = 0
    BY <1>11 DEF read_try, Jump, Goto, lockvars, listvars, taskvars, wakevars,
          WriteHolders, ReadHolders, Granted, Queued, TaskTypes,
          Control, Calls, NoCall, ReadPc, WritePc, MarkPc, WaitPc, Types, CountType
  <2> QED BY <2>1, <2>2, ExclusionKept
<1>11a. ASSUME NEW t \in Tasks, read_phase(t) PROVE Exclusion'
  <2>1. Others(t)
    BY <1>11a, OthersKept DEF OneMoves, read_step, write_step, unlock_step
  <2>2. /\ count'.writer = count.writer
        /\ t \in WriteHolders' <=> t \in WriteHolders
        /\ t \in ReadHolders' => t \in ReadHolders \/ count.writer = 0
        /\ pc'[t] \in {"mark_owner", "mark_grant"} =>
             pc[t] \in {"mark_owner", "mark_grant"} \/ count.writer = 0
    BY <1>11a DEF read_phase, Goto, lockvars, listvars, taskvars,
          wakevars, WriteHolders, ReadHolders, Granted, Queued, TaskTypes,
          Control, Calls, NoCall, ReadPc, WritePc, MarkPc, WaitPc, Types,
          CountType
  <2> QED BY <2>1, <2>2, ExclusionKept
<1>12. ASSUME NEW t \in Tasks, read_add(t) PROVE Exclusion'
  <2>1. Others(t)
    BY <1>12, OthersKept DEF OneMoves, read_step, write_step, unlock_step
  <2>2. /\ count'.writer = count.writer
        /\ t \in WriteHolders' <=> t \in WriteHolders
        /\ t \in ReadHolders' => t \in ReadHolders \/ count.writer = 0
        /\ pc'[t] \in {"mark_owner", "mark_grant"} =>
             pc[t] \in {"mark_owner", "mark_grant"} \/ count.writer = 0
    BY <1>12 DEF read_add, Jump, Goto, add_readers, listvars, taskvars,
          wakevars, WriteHolders, ReadHolders, Granted, Queued, TaskTypes,
          Control, Calls, NoCall, ReadPc, WritePc, MarkPc, WaitPc, Types, CountType,
          WriterMask, ReadFailedMask
  <2> QED BY <2>1, <2>2, ExclusionKept
<1>13. ASSUME NEW t \in Tasks, read_back(t) PROVE Exclusion'
  <2>1. Others(t)
    BY <1>13, OthersKept DEF OneMoves, read_step, write_step, unlock_step
  <2>2. /\ count'.writer = count.writer
        /\ t \in WriteHolders' <=> t \in WriteHolders
        /\ t \in ReadHolders' => t \in ReadHolders \/ count.writer = 0
        /\ pc'[t] \in {"mark_owner", "mark_grant"} =>
             pc[t] \in {"mark_owner", "mark_grant"} \/ count.writer = 0
    BY <1>13 DEF read_back, Jump, Goto, add_readers, listvars, taskvars,
          wakevars, WriteHolders, ReadHolders, Granted, Queued, TaskTypes,
          Control, Calls, NoCall, ReadPc, WritePc, MarkPc, WaitPc, Types, CountType
  <2> QED BY <2>1, <2>2, ExclusionKept
<1>14. ASSUME NEW t \in Tasks, read_stop_spinning(t) PROVE Exclusion'
  <2>1. Others(t)
    BY <1>14, OthersKept DEF OneMoves, read_step, write_step, unlock_step
  <2>2. /\ count'.writer = count.writer
        /\ t \in WriteHolders' <=> t \in WriteHolders
        /\ t \in ReadHolders' => t \in ReadHolders \/ count.writer = 0
        /\ pc'[t] \in {"mark_owner", "mark_grant"} =>
             pc[t] \in {"mark_owner", "mark_grant"} \/ count.writer = 0
    BY <1>14 DEF read_stop_spinning, Jump, Goto, listvars, taskvars, wakevars,
          WriteHolders, ReadHolders, Granted, Queued, TaskTypes,
          Control, Calls, NoCall, ReadPc, WritePc, MarkPc, WaitPc, Types, CountType
  <2> QED BY <2>1, <2>2, ExclusionKept
<1>15. ASSUME NEW t \in Tasks, read_spun(t) PROVE Exclusion'
  <2>1. Others(t)
    BY <1>15, OthersKept DEF OneMoves, read_step, write_step, unlock_step
  <2>2. /\ count'.writer = count.writer
        /\ t \in WriteHolders' <=> t \in WriteHolders
        /\ t \in ReadHolders' => t \in ReadHolders \/ count.writer = 0
        /\ pc'[t] \in {"mark_owner", "mark_grant"} =>
             pc[t] \in {"mark_owner", "mark_grant"} \/ count.writer = 0
    BY <1>15 DEF read_spun, Return, Goto, lockvars, WriteHolders, ReadHolders,
          Granted, Queued, TaskTypes,
          Control, Calls, NoCall, ReadPc, WritePc, MarkPc, WaitPc, Types, CountType
  <2> QED BY <2>1, <2>2, ExclusionKept
<1>16. ASSUME NEW t \in Tasks, read_spun_lock(t) PROVE Exclusion'
  <2>1. Others(t)
    BY <1>16, OthersKept DEF OneMoves, read_step, write_step, unlock_step
  <2>2. /\ count'.writer = count.writer
        /\ t \in WriteHolders' <=> t \in WriteHolders
        /\ t \in ReadHolders' => t \in ReadHolders \/ count.writer = 0
        /\ pc'[t] \in {"mark_owner", "mark_grant"} =>
             pc[t] \in {"mark_owner", "mark_grant"} \/ count.writer = 0
    BY <1>16 DEF read_spun_lock, Goto, MarkWake, lockvars, WriteHolders,
          ReadHolders, Granted, Queued, TaskTypes,
          Control, Calls, NoCall, ReadPc, WritePc, MarkPc, WaitPc, Types, CountType
  <2> QED BY <2>1, <2>2, ExclusionKept
<1>17. ASSUME NEW t \in Tasks, read_queue_test(t) PROVE Exclusion'
  <2>1. Others(t)
    BY <1>17, OthersKept DEF OneMoves, read_step, write_step, unlock_step
  <2>2. /\ count'.writer = count.writer
        /\ t \in WriteHolders' <=> t \in WriteHolders
        /\ t \in ReadHolders' => t \in ReadHolders \/ count.writer = 0
        /\ pc'[t] \in {"mark_owner", "mark_grant"} =>
             pc[t] \in {"mark_owner", "mark_grant"} \/ count.writer = 0
    BY <1>17 DEF read_queue_test, Goto, lockvars, taskvars, wakevars,
          WriteHolders, ReadHolders, Granted, Queued, TaskTypes,
          Control, Calls, NoCall, ReadPc, WritePc, MarkPc, WaitPc, Types, CountType,
          WriterMask, ReadFailedMask
  <2> QED BY <2>1, <2>2, ExclusionKept
<1>18. ASSUME NEW t \in Tasks, read_enqueue(t) PROVE Exclusion'
  <2>1. Others(t)
    BY <1>18, OthersKept DEF OneMoves, read_step, write_step, unlock_step
  <2>2. /\ wait_list' = Append(wait_list, t) /\ count'.writer = count.writer
        /\ pc[t] \in {"r_enqueue", "r_slow", "r_osq", "r_phase", "r_phase_try", "r_queue"}
        /\ \/ pc'[t] = "mark" /\ call'[t].ret = "r_wait"
           \/ pc'[t] = "r_wait" /\ call'[t] = call[t]
    BY <1>18 DEF read_enqueue, MarkWake, Goto, TaskTypes, Types, CountType
  <2>3. call[t] = NoCall /\ t \notin Queued
    BY <2>2 DEF Control, WriterPc, NoCall, MarkPc, Listed, WaitsToRead, WaitPc
  <2>4. t \in Queued'
    BY <2>2, <2>3, Joins DEF Listed
  <2>5. t \notin ReadHolders' /\ t \notin WriteHolders /\ t \notin WriteHolders'
    BY <2>2, <2>3, <2>4 DEF ReadHolders, Granted, NoCall, ReadPc, WriteHolders,
          WritePc
  <2> QED BY <2>1, <2>2, <2>5, ExclusionKept
<1>19. ASSUME NEW t \in Tasks, read_set_state(t) PROVE Exclusion'
  <2>1. Others(t)
    BY <1>19, OthersKept DEF OneMoves, read_step, write_step, unlock_step
  <2>2. /\ count'.writer = count.writer
        /\ t \in WriteHolders' <=> t \in WriteHolders
        /\ t \in ReadHolders' => t \in ReadHolders \/ count.writer = 0
        /\ pc'[t] \in {"mark_owner", "mark_grant"} =>
             pc[t] \in {"mark_owner", "mark_grant"} \/ count.writer = 0
    BY <1>19 DEF read_set_state, Jump, Goto, set_state, lockvars, listvars,
          wakevars, WriteHolders, ReadHolders, Granted, Queued, TaskTypes,
          Control, Calls, NoCall, ReadPc, WritePc, MarkPc, WaitPc, Types, CountType
  <2> QED BY <2>1, <2>2, ExclusionKept
<1>20. ASSUME NEW t \in Tasks, read_check(t) PROVE Exclusion'
  <2>1. Others(t)
    BY <1>20, OthersKept DEF OneMoves, read_step, write_step, unlock_step
  <2>2. /\ count'.writer = count.writer
        /\ t \in WriteHolders' <=> t \in WriteHolders
        /\ t \in ReadHolders' => t \in ReadHolders \/ count.writer = 0
        /\ pc'[t] \in {"mark_owner", "mark_grant"} =>
             pc[t] \in {"mark_owner", "mark_grant"} \/ count.writer = 0
    BY <1>20 DEF read_check, Goto, Return, set_state, taskvars, lockvars,
          listvars, wakevars, WriteHolders, ReadHolders, Granted, Queued,
          TaskTypes,
          Control, Calls, NoCall, ReadPc, WritePc, MarkPc, WaitPc, Types, CountType
  <2> QED BY <2>1, <2>2, ExclusionKept
<1>21. ASSUME NEW t \in Tasks, read_schedule(t) PROVE Exclusion'
  <2>1. Others(t)
    BY <1>21, OthersKept DEF OneMoves, read_step, write_step, unlock_step
  <2>2. /\ count'.writer = count.writer
        /\ t \in WriteHolders' <=> t \in WriteHolders
        /\ t \in ReadHolders' => t \in ReadHolders \/ count.writer = 0
        /\ pc'[t] \in {"mark_owner", "mark_grant"} =>
             pc[t] \in {"mark_owner", "mark_grant"} \/ count.writer = 0
    BY <1>21 DEF read_schedule, Jump, Goto, lockvars, listvars, taskvars,
          wakevars, WriteHolders, ReadHolders, Granted, Queued, TaskTypes,
          Control, Calls, NoCall, ReadPc, WritePc, MarkPc, WaitPc, Types, CountType
  <2> QED BY <2>1, <2>2, ExclusionKept
<1>22. ASSUME NEW t \in Tasks, read_signal(t) PROVE Exclusion'
  <2>1. Others(t)
    BY <1>22, OthersKept DEF OneMoves, read_step, write_step, unlock_step
  <2>2. /\ pc[t] = "r_signal" /\ UNCHANGED call /\ count'.writer = count.writer
        /\ pc'[t] = IF t \in Queued THEN "idle" ELSE "read"
    BY <1>22 DEF read_signal, Return, Goto, wakevars, TaskTypes, Types,
          CountType
  <2>3. t \in ReadHolders' => t \in ReadHolders
    BY <2>2 DEF ReadHolders, Granted, ReadPc, WaitPc, Control, NoCall, MarkPc
  <2>4. t \notin WriteHolders /\ t \notin WriteHolders'
    BY <2>2 DEF WriteHolders, WritePc
  <2> QED BY <2>1, <2>2, <2>3, <2>4, ExclusionKept
<1>23. ASSUME NEW t \in Tasks, down_write_fast(t) PROVE Exclusion'
  <2>1. Others(t)
    BY <1>23, OthersKept DEF OneMoves, read_step, write_step, unlock_step
  <2>2. /\ ~LockMask /\ count'.writer = 1 /\ pc[t] = "idle"
        /\ pc'[t] = "w_owner"
        /\ UNCHANGED call
    BY <1>23 DEF down_write_fast, Jump, Goto, UNLOCKED, LockMask, wakevars,
          TaskTypes, Types, CountType
  <2>3. t \in WriteHolders' /\ t \notin ReadHolders'
    BY <2>2 DEF WriteHolders, WritePc, ReadHolders, ReadPc, Granted, WaitPc,
          Control,
          NoCall, MarkPc
  <2> QED BY <2>1, <2>2, <2>3, ExclusionTaken DEF Types
<1>24. ASSUME NEW t \in Tasks, NEW m \in MODES, down_write_slow(t, m)
       PROVE  Exclusion'
  <2>1. Others(t)
    BY <1>24, OthersKept DEF OneMoves, read_step, write_step, unlock_step
  <2>2. /\ count'.writer = count.writer
        /\ t \in WriteHolders' <=> t \in WriteHolders
        /\ t \in ReadHolders' => t \in ReadHolders \/ count.writer = 0
        /\ pc'[t] \in {"mark_owner", "mark_grant"} =>
             pc[t] \in {"mark_owner", "mark_grant"} \/ count.writer = 0
    BY <1>24 DEF down_write_slow, Jump, Goto, lockvars, listvars, wakevars,
          WriteHolders, ReadHolders, Granted, Queued, TaskTypes,
          Control, Calls, NoCall, ReadPc, WritePc, MarkPc, WaitPc, Types, CountType
  <2> QED BY <2>1, <2>2, ExclusionKept
<1>25. ASSUME NEW t \in Tasks, set_writer_owned(t) PROVE Exclusion'
  <2>1. Others(t)
    BY <1>25, OthersKept DEF OneMoves, read_step, write_step, unlock_step
  <2>2. /\ count'.writer = count.writer
        /\ t \in WriteHolders' <=> t \in WriteHolders
        /\ t \in ReadHolders' => t \in ReadHolders \/ count.writer = 0
        /\ pc'[t] \in {"mark_owner", "mark_grant"} =>
             pc[t] \in {"mark_owner", "mark_grant"} \/ count.writer = 0
    BY <1>25 DEF set_writer_owned, set_owner, Return, Goto, listvars, wakevars,
          WriteHolders, ReadHolders, Granted, Queued, TaskTypes,
          Control, Calls, NoCall, ReadPc, WritePc, MarkPc, WaitPc, Types, CountType
  <2> QED BY <2>1, <2>2, ExclusionKept
<1>26. ASSUME NEW t \in Tasks, write_osq_lock(t) PROVE Exclusion'
  <2>1. Others(t)
    BY <1>26, OthersKept DEF OneMoves, read_step, write_step, unlock_step
  <2>2. /\ count'.writer = count.writer
        /\ t \in WriteHolders' <=> t \in WriteHolders
        /\ t \in ReadHolders' => t \in ReadHolders \/ count.writer = 0
        /\ pc'[t] \in {"mark_owner", "mark_grant"} =>
             pc[t] \in {"mark_owner", "mark_grant"} \/ count.writer = 0
    BY <1>26 DEF write_osq_lock, Jump, Goto, listvars, taskvars, wakevars,
          WriteHolders, ReadHolders, Granted, Queued, TaskTypes,
          Control, Calls, NoCall, ReadPc, WritePc, MarkPc, WaitPc, Types, CountType
  <2> QED BY <2>1, <2>2, ExclusionKept
<1>27. ASSUME NEW t \in Tasks, write_try_unqueued(t) PROVE Exclusion'
  <2>1. Others(t)
    BY <1>27, OthersKept DEF OneMoves, read_step, write_step, unlock_step
  <2>2. /\ ~LockMask /\ count'.writer = 1 /\ pc[t] = "w_spin"
        /\ pc'[t] = "w_owner"
        /\ UNCHANGED call
    BY <1>27 DEF write_try_unqueued, Jump, Goto, LockMask, wakevars, TaskTypes,
          Types, CountType
  <2>3. t \in WriteHolders' /\ t \notin ReadHolders'
    BY <2>2 DEF WriteHolders, WritePc, ReadHolders, ReadPc, Granted, WaitPc,
          Control,
          NoCall, MarkPc
  <2> QED BY <2>1, <2>2, <2>3, ExclusionTaken DEF Types
<1>28. ASSUME NEW t \in Tasks, write_stop_spinning(t) PROVE Exclusion'
  <2>1. Others(t)
    BY <1>28, OthersKept DEF OneMoves, read_step, write_step, unlock_step
  <2>2. /\ count'.writer = count.writer
        /\ t \in WriteHolders' <=> t \in WriteHolders
        /\ t \in ReadHolders' => t \in ReadHolders \/ count.writer = 0
        /\ pc'[t] \in {"mark_owner", "mark_grant"} =>
             pc[t] \in {"mark_owner", "mark_grant"} \/ count.writer = 0
    BY <1>28 DEF write_stop_spinning, Jump, Goto, listvars, taskvars, wakevars,
          WriteHolders, ReadHolders, Granted, Queued, TaskTypes,
          Control, Calls, NoCall, ReadPc, WritePc, MarkPc, WaitPc, Types, CountType
  <2> QED BY <2>1, <2>2, ExclusionKept
<1>29. ASSUME NEW t \in Tasks, write_enqueue(t) PROVE Exclusion'
  <2>1. Others(t)
    BY <1>29, OthersKept DEF OneMoves, read_step, write_step, unlock_step
  <2>2. /\ count'.writer = count.writer
        /\ t \in WriteHolders' <=> t \in WriteHolders
        /\ t \in ReadHolders' => t \in ReadHolders \/ count.writer = 0
        /\ pc'[t] \in {"mark_owner", "mark_grant"} =>
             pc[t] \in {"mark_owner", "mark_grant"} \/ count.writer = 0
    BY <1>29 DEF write_enqueue, raw_spin_lock, Goto, set_state, MarkWake,
          WriteHolders, ReadHolders, Granted, Queued, TaskTypes,
          Control, Calls, NoCall, ReadPc, WritePc, MarkPc, WaitPc, Types, CountType
  <2> QED BY <2>1, <2>2, ExclusionKept
<1>30. ASSUME NEW t \in Tasks, write_try(t) PROVE Exclusion'
  <2>1. Others(t)
    BY <1>30, OthersKept DEF OneMoves, read_step, write_step, unlock_step
  <2>2. /\ pc[t] \in {"w_try", "w_relock"} /\ UNCHANGED call
        /\ \/ ~LockMask /\ count'.writer = 1 /\ pc'[t] = "w_locked"
           \/ /\ count'.writer = count.writer
              /\ pc'[t] \in {"w_spin_owner", "w_signal", "w_asleep"}
    BY <1>30 DEF write_try, Goto, Block, wakevars, TaskTypes, Types, CountType
  <2>3. t \notin ReadHolders' /\ t \notin WriteHolders
    BY <2>2 DEF ReadHolders, ReadPc, Granted, WaitPc, Control, NoCall, MarkPc,
          WriteHolders, WritePc
  <2>4. CASE ~LockMask /\ count'.writer = 1 /\ pc'[t] = "w_locked"
    <3>1. t \in WriteHolders'
      BY <2>4 DEF WriteHolders, WritePc
    <3> QED BY <2>1, <2>3, <2>4, <3>1, ExclusionTaken DEF Types
  <2>5. CASE /\ count'.writer = count.writer
             /\ pc'[t] \in {"w_spin_owner", "w_signal", "w_asleep"}
    <3>1. t \notin WriteHolders'
      BY <2>5 DEF WriteHolders, WritePc
    <3> QED BY <2>1, <2>3, <2>5, <3>1, ExclusionKept
  <2> QED BY <2>2, <2>4, <2>5
<1>31. ASSUME NEW t \in Tasks, write_locked(t) PROVE Exclusion'
  <2>1. Others(t)
    BY <1>31, OthersKept DEF OneMoves, read_step, write_step, unlock_step
  <2>2. /\ count'.writer = count.writer
        /\ t \in WriteHolders' <=> t \in WriteHolders
        /\ t \in ReadHolders' => t \in ReadHolders \/ count.writer = 0
        /\ pc'[t] \in {"mark_owner", "mark_grant"} =>
             pc[t] \in {"mark_owner", "mark_grant"} \/ count.writer = 0
    BY <1>31 DEF write_locked, set_owner, set_state, Return, Goto, wakevars,
          WriteHolders, ReadHolders, Granted, Queued, TaskTypes,
          Control, Calls, NoCall, ReadPc, WritePc, MarkPc, WaitPc, Types, CountType
  <2> QED BY <2>1, <2>2, ExclusionKept
<1>32. ASSUME NEW t \in Tasks, write_spin_on_owner(t) PROVE Exclusion'
  <2>1. Others(t)
    BY <1>32, OthersKept DEF OneMoves, read_step, write_step, unlock_step
  <2>2. /\ count'.writer = count.writer
        /\ t \in WriteHolders' <=> t \in WriteHolders
        /\ t \in ReadHolders' => t \in ReadHolders \/ count.writer = 0
        /\ pc'[t] \in {"mark_owner", "mark_grant"} =>
             pc[t] \in {"mark_owner", "mark_grant"} \/ count.writer = 0
    BY <1>32 DEF write_spin_on_owner, Goto, Block, set_state, lockvars,
          listvars, wakevars, WriteHolders, ReadHolders, Granted, Queued,
          TaskTypes,
          Control, Calls, NoCall, ReadPc, WritePc, MarkPc, WaitPc, Types, CountType
  <2> QED BY <2>1, <2>2, ExclusionKept
<1>33. ASSUME NEW t \in Tasks, write_schedule(t) PROVE Exclusion'
  <2>1. Others(t)
    BY <1>33, OthersKept DEF OneMoves, read_step, write_step, unlock_step
  <2>2. /\ count'.writer = count.writer
        /\ t \in WriteHolders' <=> t \in WriteHolders
        /\ t \in ReadHolders' => t \in ReadHolders \/ count.writer = 0
        /\ pc'[t] \in {"mark_owner", "mark_grant"} =>
             pc[t] \in {"mark_owner", "mark_grant"} \/ count.writer = 0
    BY <1>33 DEF write_schedule, listvars, Jump, Goto, set_state, lockvars,
          wakevars, WriteHolders, ReadHolders, Granted, Queued, TaskTypes,
          Control, Calls, NoCall, ReadPc, WritePc, MarkPc, WaitPc, Types,
          CountType
  <2> QED BY <2>1, <2>2, ExclusionKept
<1>33a. ASSUME NEW t \in Tasks, write_first(t) PROVE Exclusion'
  <2>1. Others(t)
    BY <1>33a, OthersKept DEF OneMoves, read_step, write_step, unlock_step
  <2>2. /\ count'.writer = count.writer
        /\ t \in WriteHolders' <=> t \in WriteHolders
        /\ t \in ReadHolders' => t \in ReadHolders \/ count.writer = 0
        /\ pc'[t] \in {"mark_owner", "mark_grant"} =>
             pc[t] \in {"mark_owner", "mark_grant"} \/ count.writer = 0
    BY <1>33a DEF write_first, Jump, Goto, taskvars, lockvars, wakevars,
          WriteHolders, ReadHolders, Granted, Queued, TaskTypes, Control,
          Calls, NoCall, ReadPc, WritePc, MarkPc, WaitPc, Types, CountType
  <2> QED BY <2>1, <2>2, ExclusionKept
<1>34. ASSUME NEW t \in Tasks, NEW timeout \in BOOLEAN, write_count(t, timeout)
       PROVE  Exclusion'
  <2>1. Others(t)
    BY <1>34, OthersKept DEF OneMoves, read_step, write_step, unlock_step
  <2>2. /\ count'.writer = count.writer
        /\ t \in WriteHolders' <=> t \in WriteHolders
        /\ t \in ReadHolders' => t \in ReadHolders \/ count.writer = 0
        /\ pc'[t] \in {"mark_owner", "mark_grant"} =>
             pc[t] \in {"mark_owner", "mark_grant"} \/ count.writer = 0
    BY <1>34 DEF write_count, Goto, Block, set_state, lockvars, wakevars,
          WriteHolders, ReadHolders, Granted, Queued, TaskTypes,
          Control, Calls, NoCall, ReadPc, WritePc, MarkPc, WaitPc, Types, CountType
  <2> QED BY <2>1, <2>2, ExclusionKept
<1>35. ASSUME NEW t \in Tasks, write_signal(t) PROVE Exclusion'
  <2>1. Others(t)
    BY <1>35, OthersKept DEF OneMoves, read_step, write_step, unlock_step
  <2>2. /\ count'.writer = count.writer
        /\ t \in WriteHolders' <=> t \in WriteHolders
        /\ t \in ReadHolders' => t \in ReadHolders \/ count.writer = 0
        /\ pc'[t] \in {"mark_owner", "mark_grant"} =>
             pc[t] \in {"mark_owner", "mark_grant"} \/ count.writer = 0
    BY <1>35 DEF write_signal, Goto, MarkWake, WriteHolders, ReadHolders,
          Granted, Queued, TaskTypes,
          Control, Calls, NoCall, ReadPc, WritePc, MarkPc, WaitPc, Types, CountType
  <2> QED BY <2>1, <2>2, ExclusionKept
<1>36. ASSUME NEW t \in Tasks, up_read(t) PROVE Exclusion'
  <2>1. Others(t)
    BY <1>36, OthersKept DEF OneMoves, read_step, write_step, unlock_step
  <2>2. /\ count'.writer = count.writer
        /\ t \in WriteHolders' <=> t \in WriteHolders
        /\ t \in ReadHolders' => t \in ReadHolders \/ count.writer = 0
        /\ pc'[t] \in {"mark_owner", "mark_grant"} =>
             pc[t] \in {"mark_owner", "mark_grant"} \/ count.writer = 0
    BY <1>36 DEF up_read, add_readers, Goto, listvars, taskvars, wakevars,
          WriteHolders, ReadHolders, Granted, Queued, TaskTypes,
          Control, Calls, NoCall, ReadPc, WritePc, MarkPc, WaitPc, Types, CountType
  <2> QED BY <2>1, <2>2, ExclusionKept
<1>37. ASSUME NEW t \in Tasks, clear_owner(t) PROVE Exclusion'
  <2>1. Others(t)
    BY <1>37, OthersKept DEF OneMoves, read_step, write_step, unlock_step
  <2>2. /\ count'.writer = count.writer
        /\ t \in WriteHolders' <=> t \in WriteHolders
        /\ t \in ReadHolders' => t \in ReadHolders \/ count.writer = 0
        /\ pc'[t] \in {"mark_owner", "mark_grant"} =>
             pc[t] \in {"mark_owner", "mark_grant"} \/ count.writer = 0
    BY <1>37 DEF clear_owner, Jump, Goto, set_owner, listvars, taskvars,
          wakevars, WriteHolders, ReadHolders, Granted, Queued, TaskTypes,
          Control, Calls, NoCall, ReadPc, WritePc, MarkPc, WaitPc, Types, CountType
  <2> QED BY <2>1, <2>2, ExclusionKept
<1>38. ASSUME NEW t \in Tasks, up_write(t) PROVE Exclusion'
  <2>1. Others(t)
    BY <1>38, OthersKept DEF OneMoves, read_step, write_step, unlock_step
  <2>2. /\ count'.writer = count.writer - 1 /\ pc[t] = "up_write"
        /\ pc'[t] \in {"wake", "idle"}
    BY <1>38 DEF up_write, Jump, Goto, TaskTypes, Types, CountType
  <2>3. t \in WriteHolders /\ t \notin WriteHolders'
    BY <2>2 DEF WriteHolders, WritePc
  <2> QED BY <2>1, <2>2, <2>3, ExclusionLeft DEF Types
<1>39. ASSUME NEW t \in Tasks, downgrade_write(t) PROVE Exclusion'
  <2>1. Others(t)
    BY <1>39, OthersKept DEF OneMoves, read_step, write_step, unlock_step
  <2>2. /\ count'.writer = count.writer - 1 /\ pc[t] = "write"
        /\ pc'[t] \in {"d_owner_wake", "r_owner"}
    BY <1>39 DEF downgrade_write, Jump, Goto, TaskTypes, Types, CountType
  <2>3. t \in WriteHolders /\ t \notin WriteHolders'
    BY <2>2 DEF WriteHolders, WritePc
  <2> QED BY <2>1, <2>2, <2>3, ExclusionLeft DEF Types
<1>40. ASSUME NEW t \in Tasks, downgrade_owner(t) PROVE Exclusion'
  <2>1. Others(t)
    BY <1>40, OthersKept DEF OneMoves, read_step, write_step, unlock_step
  <2>2. /\ count'.writer = count.writer
        /\ t \in WriteHolders' <=> t \in WriteHolders
        /\ t \in ReadHolders' => t \in ReadHolders \/ count.writer = 0
        /\ pc'[t] \in {"mark_owner", "mark_grant"} =>
             pc[t] \in {"mark_owner", "mark_grant"} \/ count.writer = 0
    BY <1>40 DEF downgrade_owner, Jump, Goto, set_owner, listvars, taskvars,
          wakevars, WriteHolders, ReadHolders, Granted, Queued, TaskTypes,
          Control, Calls, NoCall, ReadPc, WritePc, MarkPc, WaitPc, Types, CountType
  <2> QED BY <2>1, <2>2, ExclusionKept
<1>41. ASSUME NEW t \in Tasks, rwsem_wake(t, "wake", "RWSEM_WAKE_ANY", "idle")
       PROVE  Exclusion'
  <2>1. Others(t)
    BY <1>41, OthersKept DEF OneMoves, read_step, write_step, unlock_step
  <2>2. /\ count'.writer = count.writer
        /\ t \in WriteHolders' <=> t \in WriteHolders
        /\ t \in ReadHolders' => t \in ReadHolders \/ count.writer = 0
        /\ pc'[t] \in {"mark_owner", "mark_grant"} =>
             pc[t] \in {"mark_owner", "mark_grant"} \/ count.writer = 0
    BY <1>41 DEF rwsem_wake, Goto, MarkWake, lockvars, taskvars, WriteHolders,
          ReadHolders, Granted, Queued, TaskTypes,
          Control, Calls, NoCall, ReadPc, WritePc, MarkPc, WaitPc, Types, CountType
  <2> QED BY <2>1, <2>2, ExclusionKept
<1>42. ASSUME NEW t \in Tasks,
              rwsem_wake(t, "downgrade_wake", "RWSEM_WAKE_READ_OWNED", "read")
       PROVE  Exclusion'
  <2>1. Others(t)
    BY <1>42, OthersKept DEF OneMoves, read_step, write_step, unlock_step
  <2>2. /\ count'.writer = count.writer
        /\ t \in WriteHolders' <=> t \in WriteHolders
        /\ t \in ReadHolders' => t \in ReadHolders \/ count.writer = 0
        /\ pc'[t] \in {"mark_owner", "mark_grant"} =>
             pc[t] \in {"mark_owner", "mark_grant"} \/ count.writer = 0
    BY <1>42 DEF rwsem_wake, Goto, MarkWake, lockvars, taskvars, WriteHolders,
          ReadHolders, Granted, Queued, TaskTypes,
          Control, Calls, NoCall, ReadPc, WritePc, MarkPc, WaitPc, Types, CountType
  <2> QED BY <2>1, <2>2, ExclusionKept
<1>43. ASSUME NEW t \in Tasks, signal_wake_up(t) PROVE Exclusion'
  <2>1. Others(t)
    BY <1>43, OthersKept DEF OneMoves, read_step, write_step, unlock_step
  <2>2. /\ count'.writer = count.writer
        /\ t \in WriteHolders' <=> t \in WriteHolders
        /\ t \in ReadHolders' => t \in ReadHolders \/ count.writer = 0
        /\ pc'[t] \in {"mark_owner", "mark_grant"} =>
             pc[t] \in {"mark_owner", "mark_grant"} \/ count.writer = 0
    BY <1>43 DEF signal_wake_up, set_state, lockvars, listvars, wakevars,
          WriteHolders, ReadHolders, Granted, Queued, TaskTypes,
          Control, Calls, NoCall, ReadPc, WritePc, MarkPc, WaitPc, Types, CountType
  <2> QED BY <2>1, <2>2, ExclusionKept
<1> QED BY <1>0, <1>1, <1>2, <1>3, <1>4, <1>5, <1>6, <1>7, <1>8, <1>9, <1>10,
      <1>11, <1>11a, <1>12, <1>13, <1>14, <1>15, <1>16, <1>17, <1>18, <1>19,
      <1>20, <1>21, <1>22, <1>23, <1>24, <1>25, <1>26, <1>27, <1>28, <1>29,
      <1>30, <1>31, <1>32, <1>33, <1>33a, <1>34, <1>35, <1>36, <1>37, <1>38,
      <1>39, <1>40, <1>41, <1>42, <1>43 DEF Next, Start, Continue, mark_wake,
      read_step, write_step, unlock_step

\* sem->owner stays, and no holder relies on it that did not before.
LEMMA OwnersKept ==
  ASSUME Owners, NEW t \in Tasks, Others(t), owner' = owner,
         pc'[t] = "write" => pc[t] = "write",
         t \in ReadHolders' /\ pc'[t] \notin {"r_owner", "d_owner_wake"} =>
           t \in ReadHolders /\ pc[t] \notin {"r_owner", "d_owner_wake"},
         pc'[t] = "mark_grant" => owner.reader
  PROVE  Owners'
<1>1. ASSUME NEW u \in Tasks \ {t}
      PROVE  (u \in ReadHolders' <=> u \in ReadHolders) /\ pc'[u] = pc[u]
  BY OthersStay DEF Others
<1>2. \A u \in ReadHolders' : pc'[u] \notin {"r_owner", "d_owner_wake"} => owner.reader
  BY <1>1, HoldersAreTasks DEF Owners
<1>3. \A u \in Tasks : pc'[u] = "write" => owner = [task |-> u, reader |-> FALSE]
  BY <1>1 DEF Owners
<1>4. \A u \in Tasks : pc'[u] = "mark_grant" => owner.reader
  BY <1>1 DEF Owners
<1> QED BY <1>2, <1>3, <1>4 DEF Owners

\* It is set for a reader, while no writer has the lock.
LEMMA OwnersReader ==
  ASSUME NEW t \in Tasks, Others(t), WriteHolders = {}, owner'.reader,
         pc'[t] # "write"
  PROVE  Owners'
<1>1. \A u \in Tasks : pc'[u] # "write"
  BY DEF Others, WriteHolders, WritePc
<1> QED BY <1>1 DEF Owners

\* It is set or cleared by the writer.
LEMMA OwnersWriter ==
  ASSUME Exclusion, NEW t \in WriteHolders, Others(t), t \in WriteHolders',
         t \notin ReadHolders', pc'[t] # "mark_grant",
         pc'[t] = "write" => owner' = [task |-> t, reader |-> FALSE]
  PROVE  Owners'
<1>1. t \in Tasks
  BY DEF WriteHolders
<1>2. count.writer # 0 /\ ReadHolders = {}
  BY DEF Exclusion
<1>3. \A u \in Tasks \ {t} : pc'[u] \notin {"write", "mark_grant"}
  BY <1>2 DEF Exclusion, Others, WriteHolders, WritePc
<1>4. ReadHolders' = {}
  BY <1>1, <1>2, OthersStay, HoldersAreTasks
<1> QED BY <1>3, <1>4 DEF Owners

\* Readers and a writer are not there together.
LEMMA ReaderAlone ==
  ASSUME Exclusion, NEW t \in ReadHolders
  PROVE  count.writer = 0 /\ WriteHolders = {}
BY DEF Exclusion

\* sem->owner is right wherever it is relied on, although it is set after
\* count.
LEMMA OwnersStep ==
  ASSUME TaskTypes, Control, Listed, Exclusion, Owners, [Next]_vars
  PROVE  Owners'
<1>0. UNCHANGED vars => Owners'
  BY DEF vars, lockvars, listvars, taskvars, wakevars, Owners, ReadHolders,
        Granted, Queued
<1>1. ASSUME NEW t \in Tasks, mark_first(t) PROVE Owners'
  <2>1. Others(t)
    BY <1>1, OthersKept DEF OneMoves, read_step, write_step, unlock_step
  <2>2. /\ pc[t] = "mark" /\ UNCHANGED <<wait_list, owner>>
        /\ \/ pc'[t] \in {"wake_up_q", "mark_back", "mark_owner"} /\ call'[t] = call[t]
           \/ pc'[t] = "w_try" /\ call'[t] = NoCall /\ call[t].ret = "w_try"
           \/ /\ pc'[t] = "mark_grant" /\ call'[t] = call[t]
              /\ call[t].type = "RWSEM_WAKE_READ_OWNED"
    BY <1>1 DEF mark_first, Marked, Goto, wakevars, TaskTypes
  <2>3. call[t].type = "RWSEM_WAKE_READ_OWNED" => owner.reader
    BY <2>2 DEF TaskTypes, Calls, NoCall, ReadHolders, Owners
  <2>4. t \in ReadHolders' => t \in ReadHolders
    BY <2>2 DEF ReadHolders, Granted, Queued, ReadPc, WaitPc, NoCall
  <2> QED BY <2>1, <2>2, <2>3, <2>4, OwnersKept
<1>2. ASSUME NEW t \in Tasks, NEW timeout \in BOOLEAN, mark_back(t, timeout)
      PROVE  Owners'
  <2>1. Others(t)
    BY <1>2, OthersKept DEF OneMoves, read_step, write_step, unlock_step
  <2>2. /\ owner' = owner
        /\ pc'[t] = "write" => pc[t] = "write"
        /\ t \in ReadHolders' /\ pc'[t] \notin {"r_owner", "d_owner_wake"} =>
             t \in ReadHolders /\ pc[t] \notin {"r_owner", "d_owner_wake"}
        /\ pc'[t] = "mark_grant" => owner.reader
    BY <1>2 DEF mark_back, Marked, Goto, set_state, ReadHolders, Granted,
          Queued, TaskTypes,
          Control, Calls, NoCall, ReadPc, MarkPc, WaitPc
  <2> QED BY <2>1, <2>2, OwnersKept
<1>3. ASSUME NEW t \in Tasks, mark_owner(t) PROVE Owners'
  <2>1. Others(t)
    BY <1>3, OthersKept DEF OneMoves, read_step, write_step, unlock_step
  <2>2. owner'.reader /\ pc[t] = "mark_owner" /\ pc'[t] = "mark_grant"
    BY <1>3 DEF mark_owner, set_owner, Jump, Goto, TaskTypes
  <2>3. WriteHolders = {}
    BY <2>2 DEF Exclusion
  <2> QED BY <2>1, <2>2, <2>3, OwnersReader
<1>4. ASSUME NEW t \in Tasks, mark_grant(t) PROVE Owners'
  <2>1. /\ pc[t] = "mark_grant" /\ owner' = owner
        /\ pc'[t] \in {"w_try", "wake_up_q"}
        /\ \A u \in Tasks \ {t} : pc'[u] = pc[u]
    BY <1>4 DEF mark_grant, Marked, Goto, TaskTypes
  <2>2. owner.reader
    BY <2>1 DEF Owners
  <2> QED BY <2>1, <2>2 DEF Owners
<1>5. ASSUME NEW t \in Tasks, wake_up_q(t) PROVE Owners'
  <2>1. Others(t)
    BY <1>5, OthersKept DEF OneMoves, read_step, write_step, unlock_step
  <2>2. /\ owner' = owner
        /\ pc'[t] = "write" => pc[t] = "write"
        /\ t \in ReadHolders' /\ pc'[t] \notin {"r_owner", "d_owner_wake"} =>
             t \in ReadHolders /\ pc[t] \notin {"r_owner", "d_owner_wake"}
        /\ pc'[t] = "mark_grant" => owner.reader
    BY <1>5 DEF wake_up_q, Goto, raw_spin_lock, set_state, lockvars,
          ReadHolders, Granted, Queued, TaskTypes,
          Control, Calls, NoCall, ReadPc, MarkPc, WaitPc
  <2> QED BY <2>1, <2>2, OwnersKept
<1>6. ASSUME NEW t \in Tasks, NEW m \in MODES, down_read(t, m) PROVE Owners'
  <2>1. Others(t)
    BY <1>6, OthersKept DEF OneMoves, read_step, write_step, unlock_step
  <2>2. /\ owner' = owner
        /\ pc'[t] = "write" => pc[t] = "write"
        /\ t \in ReadHolders' /\ pc'[t] \notin {"r_owner", "d_owner_wake"} =>
             t \in ReadHolders /\ pc[t] \notin {"r_owner", "d_owner_wake"}
        /\ pc'[t] = "mark_grant" => owner.reader
    BY <1>6 DEF down_read, add_readers, Goto, listvars, wakevars, ReadHolders,
          Granted, Queued, TaskTypes,
          Control, Calls, NoCall, ReadPc, MarkPc, WaitPc
  <2> QED BY <2>1, <2>2, OwnersKept
<1>7. ASSUME NEW t \in Tasks, down_read_trylock(t) PROVE Owners'
  <2>1. Others(t)
    BY <1>7, OthersKept DEF OneMoves, read_step, write_step, unlock_step
  <2>2. /\ owner' = owner
        /\ pc'[t] = "write" => pc[t] = "write"
        /\ t \in ReadHolders' /\ pc'[t] \notin {"r_owner", "d_owner_wake"} =>
             t \in ReadHolders /\ pc[t] \notin {"r_owner", "d_owner_wake"}
        /\ pc'[t] = "mark_grant" => owner.reader
    BY <1>7 DEF down_read_trylock, Jump, Goto, add_readers, listvars, taskvars,
          wakevars, ReadHolders, Granted, Queued, TaskTypes,
          Control, Calls, NoCall, ReadPc, MarkPc, WaitPc
  <2> QED BY <2>1, <2>2, OwnersKept
<1>8. ASSUME NEW t \in Tasks, set_reader_owned(t) PROVE Owners'
  <2>1. Others(t)
    BY <1>8, OthersKept DEF OneMoves, read_step, write_step, unlock_step
  <2>2. owner'.reader /\ pc[t] = "r_owner" /\ pc'[t] \in {"r_spun", "read"}
    BY <1>8 DEF set_reader_owned, set_owner, Jump, Return, Goto, TaskTypes
  <2>3. t \in ReadHolders
    BY <2>2 DEF ReadHolders, ReadPc
  <2> QED BY <2>1, <2>2, <2>3, ReaderAlone, OwnersReader
<1>9. ASSUME NEW t \in Tasks, read_undo(t) PROVE Owners'
  <2>1. Others(t)
    BY <1>9, OthersKept DEF OneMoves, read_step, write_step, unlock_step
  <2>2. /\ owner' = owner
        /\ pc'[t] = "write" => pc[t] = "write"
        /\ t \in ReadHolders' /\ pc'[t] \notin {"r_owner", "d_owner_wake"} =>
             t \in ReadHolders /\ pc[t] \notin {"r_owner", "d_owner_wake"}
        /\ pc'[t] = "mark_grant" => owner.reader
    BY <1>9 DEF read_undo, Jump, Goto, add_readers, listvars, taskvars,
          wakevars, ReadHolders, Granted, Queued, TaskTypes,
          Control, Calls, NoCall, ReadPc, MarkPc, WaitPc
  <2> QED BY <2>1, <2>2, OwnersKept
<1>10. ASSUME NEW t \in Tasks, read_osq_lock(t) PROVE Owners'
  <2>1. Others(t)
    BY <1>10, OthersKept DEF OneMoves, read_step, write_step, unlock_step
  <2>2. /\ owner' = owner
        /\ pc'[t] = "write" => pc[t] = "write"
        /\ t \in ReadHolders' /\ pc'[t] \notin {"r_owner", "d_owner_wake"} =>
             t \in ReadHolders /\ pc[t] \notin {"r_owner", "d_owner_wake"}
        /\ pc'[t] = "mark_grant" => owner.reader
    BY <1>10 DEF read_osq_lock, Jump, Goto, listvars, taskvars, wakevars,
          ReadHolders, Granted, Queued, TaskTypes,
          Control, Calls, NoCall, ReadPc, MarkPc, WaitPc
  <2> QED BY <2>1, <2>2, OwnersKept
<1>11. ASSUME NEW t \in Tasks, read_try(t) PROVE Owners'
  <2>1. Others(t)
    BY <1>11, OthersKept DEF OneMoves, read_step, write_step, unlock_step
  <2>2. /\ owner' = owner
        /\ pc'[t] = "write" => pc[t] = "write"
        /\ t \in ReadHolders' /\ pc'[t] \notin {"r_owner", "d_owner_wake"} =>
             t \in ReadHolders /\ pc[t] \notin {"r_owner", "d_owner_wake"}
        /\ pc'[t] = "mark_grant" => owner.reader
    BY <1>11 DEF read_try, Jump, Goto, lockvars, listvars, taskvars, wakevars,
          ReadHolders, Granted, Queued, TaskTypes,
          Control, Calls, NoCall, ReadPc, MarkPc, WaitPc
  <2> QED BY <2>1, <2>2, OwnersKept
<1>11a. ASSUME NEW t \in Tasks, read_phase(t) PROVE Owners'
  <2>1. Others(t)
    BY <1>11a, OthersKept DEF OneMoves, read_step, write_step, unlock_step
  <2>2. /\ owner' = owner
        /\ pc'[t] = "write" => pc[t] = "write"
        /\ t \in ReadHolders' /\ pc'[t] \notin {"r_owner", "d_owner_wake"} =>
             t \in ReadHolders /\ pc[t] \notin {"r_owner", "d_owner_wake"}
        /\ pc'[t] = "mark_grant" => owner.reader
    BY <1>11a DEF read_phase, Goto, lockvars, listvars, taskvars,
          wakevars, ReadHolders, Granted, Queued, TaskTypes, Control, Calls,
          NoCall, ReadPc, MarkPc, WaitPc
  <2> QED BY <2>1, <2>2, OwnersKept
<1>12. ASSUME NEW t \in Tasks, read_add(t) PROVE Owners'
  <2>1. Others(t)
    BY <1>12, OthersKept DEF OneMoves, read_step, write_step, unlock_step
  <2>2. /\ owner' = owner
        /\ pc'[t] = "write" => pc[t] = "write"
        /\ t \in ReadHolders' /\ pc'[t] \notin {"r_owner", "d_owner_wake"} =>
             t \in ReadHolders /\ pc[t] \notin {"r_owner", "d_owner_wake"}
        /\ pc'[t] = "mark_grant" => owner.reader
    BY <1>12 DEF read_add, Jump, Goto, add_readers, listvars, taskvars,
          wakevars, ReadHolders, Granted, Queued, TaskTypes,
          Control, Calls, NoCall, ReadPc, MarkPc, WaitPc
  <2> QED BY <2>1, <2>2, OwnersKept
<1>13. ASSUME NEW t \in Tasks, read_back(t) PROVE Owners'
  <2>1. Others(t)
    BY <1>13, OthersKept DEF OneMoves, read_step, write_step, unlock_step
  <2>2. /\ owner' = owner
        /\ pc'[t] = "write" => pc[t] = "write"
        /\ t \in ReadHolders' /\ pc'[t] \notin {"r_owner", "d_owner_wake"} =>
             t \in ReadHolders /\ pc[t] \notin {"r_owner", "d_owner_wake"}
        /\ pc'[t] = "mark_grant" => owner.reader
    BY <1>13 DEF read_back, Jump, Goto, add_readers, listvars, taskvars,
          wakevars, ReadHolders, Granted, Queued, TaskTypes,
          Control, Calls, NoCall, ReadPc, MarkPc, WaitPc
  <2> QED BY <2>1, <2>2, OwnersKept
<1>14. ASSUME NEW t \in Tasks, read_stop_spinning(t) PROVE Owners'
  <2>1. Others(t)
    BY <1>14, OthersKept DEF OneMoves, read_step, write_step, unlock_step
  <2>2. /\ owner' = owner
        /\ pc'[t] = "write" => pc[t] = "write"
        /\ t \in ReadHolders' /\ pc'[t] \notin {"r_owner", "d_owner_wake"} =>
             t \in ReadHolders /\ pc[t] \notin {"r_owner", "d_owner_wake"}
        /\ pc'[t] = "mark_grant" => owner.reader
    BY <1>14 DEF read_stop_spinning, Jump, Goto, listvars, taskvars, wakevars,
          ReadHolders, Granted, Queued, TaskTypes,
          Control, Calls, NoCall, ReadPc, MarkPc, WaitPc
  <2> QED BY <2>1, <2>2, OwnersKept
<1>15. ASSUME NEW t \in Tasks, read_spun(t) PROVE Owners'
  <2>1. Others(t)
    BY <1>15, OthersKept DEF OneMoves, read_step, write_step, unlock_step
  <2>2. /\ owner' = owner
        /\ pc'[t] = "write" => pc[t] = "write"
        /\ t \in ReadHolders' /\ pc'[t] \notin {"r_owner", "d_owner_wake"} =>
             t \in ReadHolders /\ pc[t] \notin {"r_owner", "d_owner_wake"}
        /\ pc'[t] = "mark_grant" => owner.reader
    BY <1>15 DEF read_spun, Return, Goto, lockvars, ReadHolders, Granted,
          Queued, TaskTypes,
          Control, Calls, NoCall, ReadPc, MarkPc, WaitPc
  <2> QED BY <2>1, <2>2, OwnersKept
<1>16. ASSUME NEW t \in Tasks, read_spun_lock(t) PROVE Owners'
  <2>1. Others(t)
    BY <1>16, OthersKept DEF OneMoves, read_step, write_step, unlock_step
  <2>2. /\ owner' = owner
        /\ pc'[t] = "write" => pc[t] = "write"
        /\ t \in ReadHolders' /\ pc'[t] \notin {"r_owner", "d_owner_wake"} =>
             t \in ReadHolders /\ pc[t] \notin {"r_owner", "d_owner_wake"}
        /\ pc'[t] = "mark_grant" => owner.reader
    BY <1>16 DEF read_spun_lock, Goto, MarkWake, lockvars, ReadHolders,
          Granted, Queued, TaskTypes,
          Control, Calls, NoCall, ReadPc, MarkPc, WaitPc
  <2> QED BY <2>1, <2>2, OwnersKept
<1>17. ASSUME NEW t \in Tasks, read_queue_test(t) PROVE Owners'
  <2>1. Others(t)
    BY <1>17, OthersKept DEF OneMoves, read_step, write_step, unlock_step
  <2>2. /\ owner' = owner
        /\ pc'[t] = "write" => pc[t] = "write"
        /\ t \in ReadHolders' /\ pc'[t] \notin {"r_owner", "d_owner_wake"} =>
             t \in ReadHolders /\ pc[t] \notin {"r_owner", "d_owner_wake"}
        /\ pc'[t] = "mark_grant" => owner.reader
    BY <1>17 DEF read_queue_test, Goto, lockvars, taskvars, wakevars,
          ReadHolders, Granted, Queued, TaskTypes,
          Control, Calls, NoCall, ReadPc, MarkPc, WaitPc
  <2> QED BY <2>1, <2>2, OwnersKept
<1>18. ASSUME NEW t \in Tasks, read_enqueue(t) PROVE Owners'
  <2>1. Others(t)
    BY <1>18, OthersKept DEF OneMoves, read_step, write_step, unlock_step
  <2>2. /\ wait_list' = Append(wait_list, t) /\ owner' = owner
        /\ pc[t] \in {"r_enqueue", "r_slow", "r_osq", "r_phase", "r_phase_try", "r_queue"}
        /\ \/ pc'[t] = "mark" /\ call'[t].ret = "r_wait"
           \/ pc'[t] = "r_wait" /\ call'[t] = call[t]
    BY <1>18 DEF read_enqueue, MarkWake, Goto, TaskTypes
  <2>3. call[t] = NoCall /\ t \notin Queued
    BY <2>2 DEF Control, WriterPc, NoCall, MarkPc, Listed, WaitsToRead, WaitPc
  <2>4. t \in Queued'
    BY <2>2, <2>3, Joins DEF Listed
  <2>5. t \notin ReadHolders'
    BY <2>2, <2>3, <2>4 DEF ReadHolders, Granted, NoCall, ReadPc
  <2> QED BY <2>1, <2>2, <2>5, OwnersKept
<1>19. ASSUME NEW t \in Tasks, read_set_state(t) PROVE Owners'
  <2>1. Others(t)
    BY <1>19, OthersKept DEF OneMoves, read_step, write_step, unlock_step
  <2>2. /\ owner' = owner
        /\ pc'[t] = "write" => pc[t] = "write"
        /\ t \in ReadHolders' /\ pc'[t] \notin {"r_owner", "d_owner_wake"} =>
             t \in ReadHolders /\ pc[t] \notin {"r_owner", "d_owner_wake"}
        /\ pc'[t] = "mark_grant" => owner.reader
    BY <1>19 DEF read_set_state, Jump, Goto, set_state, lockvars, listvars,
          wakevars, ReadHolders, Granted, Queued, TaskTypes,
          Control, Calls, NoCall, ReadPc, MarkPc, WaitPc
  <2> QED BY <2>1, <2>2, OwnersKept
<1>20. ASSUME NEW t \in Tasks, read_check(t) PROVE Owners'
  <2>1. Others(t)
    BY <1>20, OthersKept DEF OneMoves, read_step, write_step, unlock_step
  <2>2. /\ owner' = owner
        /\ pc'[t] = "write" => pc[t] = "write"
        /\ t \in ReadHolders' /\ pc'[t] \notin {"r_owner", "d_owner_wake"} =>
             t \in ReadHolders /\ pc[t] \notin {"r_owner", "d_owner_wake"}
        /\ pc'[t] = "mark_grant" => owner.reader
    BY <1>20 DEF read_check, Goto, Return, set_state, taskvars, lockvars,
          listvars, wakevars, ReadHolders, Granted, Queued, TaskTypes,
          Control, Calls, NoCall, ReadPc, MarkPc, WaitPc
  <2> QED BY <2>1, <2>2, OwnersKept
<1>21. ASSUME NEW t \in Tasks, read_schedule(t) PROVE Owners'
  <2>1. Others(t)
    BY <1>21, OthersKept DEF OneMoves, read_step, write_step, unlock_step
  <2>2. /\ owner' = owner
        /\ pc'[t] = "write" => pc[t] = "write"
        /\ t \in ReadHolders' /\ pc'[t] \notin {"r_owner", "d_owner_wake"} =>
             t \in ReadHolders /\ pc[t] \notin {"r_owner", "d_owner_wake"}
        /\ pc'[t] = "mark_grant" => owner.reader
    BY <1>21 DEF read_schedule, Jump, Goto, lockvars, listvars, taskvars,
          wakevars, ReadHolders, Granted, Queued, TaskTypes,
          Control, Calls, NoCall, ReadPc, MarkPc, WaitPc
  <2> QED BY <2>1, <2>2, OwnersKept
<1>22. ASSUME NEW t \in Tasks, read_signal(t) PROVE Owners'
  <2>1. Others(t)
    BY <1>22, OthersKept DEF OneMoves, read_step, write_step, unlock_step
  <2>2. /\ pc[t] = "r_signal" /\ UNCHANGED <<call, owner>>
        /\ pc'[t] = IF t \in Queued THEN "idle" ELSE "read"
    BY <1>22 DEF read_signal, Return, Goto, wakevars, TaskTypes
  <2>3. t \in ReadHolders' => t \in ReadHolders
    BY <2>2 DEF ReadHolders, Granted, ReadPc, WaitPc, Control, NoCall, MarkPc
  <2> QED BY <2>1, <2>2, <2>3, OwnersKept
<1>23. ASSUME NEW t \in Tasks, down_write_fast(t) PROVE Owners'
  <2>1. Others(t)
    BY <1>23, OthersKept DEF OneMoves, read_step, write_step, unlock_step
  <2>2. /\ owner' = owner
        /\ pc'[t] = "write" => pc[t] = "write"
        /\ t \in ReadHolders' /\ pc'[t] \notin {"r_owner", "d_owner_wake"} =>
             t \in ReadHolders /\ pc[t] \notin {"r_owner", "d_owner_wake"}
        /\ pc'[t] = "mark_grant" => owner.reader
    BY <1>23 DEF down_write_fast, Jump, Goto, listvars, taskvars, wakevars,
          ReadHolders, Granted, Queued, TaskTypes,
          Control, Calls, NoCall, ReadPc, MarkPc, WaitPc
  <2> QED BY <2>1, <2>2, OwnersKept
<1>24. ASSUME NEW t \in Tasks, NEW m \in MODES, down_write_slow(t, m)
       PROVE  Owners'
  <2>1. Others(t)
    BY <1>24, OthersKept DEF OneMoves, read_step, write_step, unlock_step
  <2>2. /\ owner' = owner
        /\ pc'[t] = "write" => pc[t] = "write"
        /\ t \in ReadHolders' /\ pc'[t] \notin {"r_owner", "d_owner_wake"} =>
             t \in ReadHolders /\ pc[t] \notin {"r_owner", "d_owner_wake"}
        /\ pc'[t] = "mark_grant" => owner.reader
    BY <1>24 DEF down_write_slow, Jump, Goto, lockvars, listvars, wakevars,
          ReadHolders, Granted, Queued, TaskTypes,
          Control, Calls, NoCall, ReadPc, MarkPc, WaitPc
  <2> QED BY <2>1, <2>2, OwnersKept
<1>25. ASSUME NEW t \in Tasks, set_writer_owned(t) PROVE Owners'
  <2>1. Others(t)
    BY <1>25, OthersKept DEF OneMoves, read_step, write_step, unlock_step
  <2>2. /\ pc[t] = "w_owner" /\ pc'[t] = "write" /\ UNCHANGED call
        /\ pc'[t] = "write" => owner' = [task |-> t, reader |-> FALSE]
    BY <1>25 DEF set_writer_owned, set_owner, Return, wakevars, Goto, TaskTypes
  <2>3. t \in WriteHolders /\ t \in WriteHolders' /\ t \notin ReadHolders'
    BY <2>2 DEF WriteHolders, WritePc, ReadHolders, ReadPc, Granted, WaitPc,
          Control,
          NoCall, MarkPc
  <2> QED BY <2>1, <2>2, <2>3, OwnersWriter
<1>26. ASSUME NEW t \in Tasks, write_osq_lock(t) PROVE Owners'
  <2>1. Others(t)
    BY <1>26, OthersKept DEF OneMoves, read_step, write_step, unlock_step
  <2>2. /\ owner' = owner
        /\ pc'[t] = "write" => pc[t] = "write"
        /\ t \in ReadHolders' /\ pc'[t] \notin {"r_owner", "d_owner_wake"} =>
             t \in ReadHolders /\ pc[t] \notin {"r_owner", "d_owner_wake"}
        /\ pc'[t] = "mark_grant" => owner.reader
    BY <1>26 DEF write_osq_lock, Jump, Goto, listvars, taskvars, wakevars,
          ReadHolders, Granted, Queued, TaskTypes,
          Control, Calls, NoCall, ReadPc, MarkPc, WaitPc
  <2> QED BY <2>1, <2>2, OwnersKept
<1>27. ASSUME NEW t \in Tasks, write_try_unqueued(t) PROVE Owners'
  <2>1. Others(t)
    BY <1>27, OthersKept DEF OneMoves, read_step, write_step, unlock_step
  <2>2. /\ owner' = owner
        /\ pc'[t] = "write" => pc[t] = "write"
        /\ t \in ReadHolders' /\ pc'[t] \notin {"r_owner", "d_owner_wake"} =>
             t \in ReadHolders /\ pc[t] \notin {"r_owner", "d_owner_wake"}
        /\ pc'[t] = "mark_grant" => owner.reader
    BY <1>27 DEF write_try_unqueued, Jump, Goto, listvars, taskvars, wakevars,
          ReadHolders, Granted, Queued, TaskTypes,
          Control, Calls, NoCall, ReadPc, MarkPc, WaitPc
  <2> QED BY <2>1, <2>2, OwnersKept
<1>28. ASSUME NEW t \in Tasks, write_stop_spinning(t) PROVE Owners'
  <2>1. Others(t)
    BY <1>28, OthersKept DEF OneMoves, read_step, write_step, unlock_step
  <2>2. /\ owner' = owner
        /\ pc'[t] = "write" => pc[t] = "write"
        /\ t \in ReadHolders' /\ pc'[t] \notin {"r_owner", "d_owner_wake"} =>
             t \in ReadHolders /\ pc[t] \notin {"r_owner", "d_owner_wake"}
        /\ pc'[t] = "mark_grant" => owner.reader
    BY <1>28 DEF write_stop_spinning, Jump, Goto, listvars, taskvars, wakevars,
          ReadHolders, Granted, Queued, TaskTypes,
          Control, Calls, NoCall, ReadPc, MarkPc, WaitPc
  <2> QED BY <2>1, <2>2, OwnersKept
<1>29. ASSUME NEW t \in Tasks, write_enqueue(t) PROVE Owners'
  <2>1. Others(t)
    BY <1>29, OthersKept DEF OneMoves, read_step, write_step, unlock_step
  <2>2. /\ owner' = owner
        /\ pc'[t] = "write" => pc[t] = "write"
        /\ t \in ReadHolders' /\ pc'[t] \notin {"r_owner", "d_owner_wake"} =>
             t \in ReadHolders /\ pc[t] \notin {"r_owner", "d_owner_wake"}
        /\ pc'[t] = "mark_grant" => owner.reader
    BY <1>29 DEF write_enqueue, raw_spin_lock, Goto, set_state, MarkWake,
          ReadHolders, Granted, Queued, TaskTypes,
          Control, Calls, NoCall, ReadPc, MarkPc, WaitPc
  <2> QED BY <2>1, <2>2, OwnersKept
<1>30. ASSUME NEW t \in Tasks, write_try(t) PROVE Owners'
  <2>1. Others(t)
    BY <1>30, OthersKept DEF OneMoves, read_step, write_step, unlock_step
  <2>2. /\ owner' = owner
        /\ pc'[t] = "write" => pc[t] = "write"
        /\ t \in ReadHolders' /\ pc'[t] \notin {"r_owner", "d_owner_wake"} =>
             t \in ReadHolders /\ pc[t] \notin {"r_owner", "d_owner_wake"}
        /\ pc'[t] = "mark_grant" => owner.reader
    BY <1>30 DEF write_try, Goto, Block, set_state, wakevars, ReadHolders,
          Granted, Queued, TaskTypes,
          Control, Calls, NoCall, ReadPc, MarkPc, WaitPc
  <2> QED BY <2>1, <2>2, OwnersKept
<1>31. ASSUME NEW t \in Tasks, write_locked(t) PROVE Owners'
  <2>1. Others(t)
    BY <1>31, OthersKept DEF OneMoves, read_step, write_step, unlock_step
  <2>2. /\ pc[t] = "w_locked" /\ pc'[t] = "write" /\ UNCHANGED call
        /\ pc'[t] = "write" => owner' = [task |-> t, reader |-> FALSE]
    BY <1>31 DEF write_locked, set_owner, Return, wakevars, Goto, TaskTypes
  <2>3. t \in WriteHolders /\ t \in WriteHolders' /\ t \notin ReadHolders'
    BY <2>2 DEF WriteHolders, WritePc, ReadHolders, ReadPc, Granted, WaitPc,
          Control,
          NoCall, MarkPc
  <2> QED BY <2>1, <2>2, <2>3, OwnersWriter
<1>32. ASSUME NEW t \in Tasks, write_spin_on_owner(t) PROVE Owners'
  <2>1. Others(t)
    BY <1>32, OthersKept DEF OneMoves, read_step, write_step, unlock_step
  <2>2. /\ owner' = owner
        /\ pc'[t] = "write" => pc[t] = "write"
        /\ t \in ReadHolders' /\ pc'[t] \notin {"r_owner", "d_owner_wake"} =>
             t \in ReadHolders /\ pc[t] \notin {"r_owner", "d_owner_wake"}
        /\ pc'[t] = "mark_grant" => owner.reader
    BY <1>32 DEF write_spin_on_owner, Goto, Block, set_state, lockvars,
          listvars, wakevars, ReadHolders, Granted, Queued, TaskTypes,
          Control, Calls, NoCall, ReadPc, MarkPc, WaitPc
  <2> QED BY <2>1, <2>2, OwnersKept
<1>33. ASSUME NEW t \in Tasks, write_schedule(t) PROVE Owners'
  <2>1. Others(t)
    BY <1>33, OthersKept DEF OneMoves, read_step, write_step, unlock_step
  <2>2. /\ owner' = owner
        /\ pc'[t] = "write" => pc[t] = "write"
        /\ t \in ReadHolders' /\ pc'[t] \notin {"r_owner", "d_owner_wake"} =>
             t \in ReadHolders /\ pc[t] \notin {"r_owner", "d_owner_wake"}
        /\ pc'[t] = "mark_grant" => owner.reader
    BY <1>33 DEF write_schedule, listvars, Jump, Goto, set_state, lockvars,
          wakevars, ReadHolders, Granted, Queued, TaskTypes, Control, Calls,
          NoCall, ReadPc, MarkPc, WaitPc
  <2> QED BY <2>1, <2>2, OwnersKept
<1>33a. ASSUME NEW t \in Tasks, write_first(t) PROVE Owners'
  <2>1. Others(t)
    BY <1>33a, OthersKept DEF OneMoves, read_step, write_step, unlock_step
  <2>2. /\ owner' = owner
        /\ pc'[t] = "write" => pc[t] = "write"
        /\ t \in ReadHolders' /\ pc'[t] \notin {"r_owner", "d_owner_wake"} =>
             t \in ReadHolders /\ pc[t] \notin {"r_owner", "d_owner_wake"}
        /\ pc'[t] = "mark_grant" => owner.reader
    BY <1>33a DEF write_first, Jump, Goto, taskvars, lockvars, wakevars,
          ReadHolders, Granted, Queued, TaskTypes, Control, Calls, NoCall,
          ReadPc, MarkPc, WaitPc
  <2> QED BY <2>1, <2>2, OwnersKept
<1>34. ASSUME NEW t \in Tasks, NEW timeout \in BOOLEAN, write_count(t, timeout)
       PROVE  Owners'
  <2>1. Others(t)
    BY <1>34, OthersKept DEF OneMoves, read_step, write_step, unlock_step
  <2>2. /\ owner' = owner
        /\ pc'[t] = "write" => pc[t] = "write"
        /\ t \in ReadHolders' /\ pc'[t] \notin {"r_owner", "d_owner_wake"} =>
             t \in ReadHolders /\ pc[t] \notin {"r_owner", "d_owner_wake"}
        /\ pc'[t] = "mark_grant" => owner.reader
    BY <1>34 DEF write_count, Goto, Block, set_state, lockvars, wakevars,
          ReadHolders, Granted, Queued, TaskTypes,
          Control, Calls, NoCall, ReadPc, MarkPc, WaitPc
  <2> QED BY <2>1, <2>2, OwnersKept
<1>35. ASSUME NEW t \in Tasks, write_signal(t) PROVE Owners'
  <2>1. Others(t)
    BY <1>35, OthersKept DEF OneMoves, read_step, write_step, unlock_step
  <2>2. /\ owner' = owner
        /\ pc'[t] = "write" => pc[t] = "write"
        /\ t \in ReadHolders' /\ pc'[t] \notin {"r_owner", "d_owner_wake"} =>
             t \in ReadHolders /\ pc[t] \notin {"r_owner", "d_owner_wake"}
        /\ pc'[t] = "mark_grant" => owner.reader
    BY <1>35 DEF write_signal, Goto, MarkWake, ReadHolders, Granted, Queued,
          TaskTypes,
          Control, Calls, NoCall, ReadPc, MarkPc, WaitPc
  <2> QED BY <2>1, <2>2, OwnersKept
<1>36. ASSUME NEW t \in Tasks, up_read(t) PROVE Owners'
  <2>1. Others(t)
    BY <1>36, OthersKept DEF OneMoves, read_step, write_step, unlock_step
  <2>2. /\ owner' = owner
        /\ pc'[t] = "write" => pc[t] = "write"
        /\ t \in ReadHolders' /\ pc'[t] \notin {"r_owner", "d_owner_wake"} =>
             t \in ReadHolders /\ pc[t] \notin {"r_owner", "d_owner_wake"}
        /\ pc'[t] = "mark_grant" => owner.reader
    BY <1>36 DEF up_read, add_readers, Goto, listvars, taskvars, wakevars,
          ReadHolders, Granted, Queued, TaskTypes,
          Control, Calls, NoCall, ReadPc, MarkPc, WaitPc
  <2> QED BY <2>1, <2>2, OwnersKept
<1>37. ASSUME NEW t \in Tasks, clear_owner(t) PROVE Owners'
  <2>1. Others(t)
    BY <1>37, OthersKept DEF OneMoves, read_step, write_step, unlock_step
  <2>2. /\ pc[t] = "write" /\ pc'[t] = "up_write" /\ UNCHANGED call
        /\ pc'[t] = "write" => owner' = [task |-> t, reader |-> FALSE]
    BY <1>37 DEF clear_owner, set_owner, Jump, wakevars, Goto, TaskTypes
  <2>3. t \in WriteHolders /\ t \in WriteHolders' /\ t \notin ReadHolders'
    BY <2>2 DEF WriteHolders, WritePc, ReadHolders, ReadPc, Granted, WaitPc,
          Control,
          NoCall, MarkPc
  <2> QED BY <2>1, <2>2, <2>3, OwnersWriter
<1>38. ASSUME NEW t \in Tasks, up_write(t) PROVE Owners'
  <2>1. Others(t)
    BY <1>38, OthersKept DEF OneMoves, read_step, write_step, unlock_step
  <2>2. /\ owner' = owner
        /\ pc'[t] = "write" => pc[t] = "write"
        /\ t \in ReadHolders' /\ pc'[t] \notin {"r_owner", "d_owner_wake"} =>
             t \in ReadHolders /\ pc[t] \notin {"r_owner", "d_owner_wake"}
        /\ pc'[t] = "mark_grant" => owner.reader
    BY <1>38 DEF up_write, Jump, Goto, listvars, taskvars, wakevars,
          ReadHolders, Granted, Queued, TaskTypes,
          Control, Calls, NoCall, ReadPc, MarkPc, WaitPc
  <2> QED BY <2>1, <2>2, OwnersKept
<1>39. ASSUME NEW t \in Tasks, downgrade_write(t) PROVE Owners'
  <2>1. Others(t)
    BY <1>39, OthersKept DEF OneMoves, read_step, write_step, unlock_step
  <2>2. /\ owner' = owner
        /\ pc'[t] = "write" => pc[t] = "write"
        /\ t \in ReadHolders' /\ pc'[t] \notin {"r_owner", "d_owner_wake"} =>
             t \in ReadHolders /\ pc[t] \notin {"r_owner", "d_owner_wake"}
        /\ pc'[t] = "mark_grant" => owner.reader
    BY <1>39 DEF downgrade_write, Jump, Goto, listvars, taskvars, wakevars,
          ReadHolders, Granted, Queued, TaskTypes,
          Control, Calls, NoCall, ReadPc, MarkPc, WaitPc
  <2> QED BY <2>1, <2>2, OwnersKept
<1>40. ASSUME NEW t \in Tasks, downgrade_owner(t) PROVE Owners'
  <2>1. Others(t)
    BY <1>40, OthersKept DEF OneMoves, read_step, write_step, unlock_step
  <2>2. owner'.reader /\ pc[t] = "d_owner_wake" /\ pc'[t] \in {"downgrade_wake"}
    BY <1>40 DEF downgrade_owner, set_owner, Jump, Return, Goto, TaskTypes
  <2>3. t \in ReadHolders
    BY <2>2 DEF ReadHolders, ReadPc
  <2> QED BY <2>1, <2>2, <2>3, ReaderAlone, OwnersReader
<1>41. ASSUME NEW t \in Tasks, rwsem_wake(t, "wake", "RWSEM_WAKE_ANY", "idle")
       PROVE  Owners'
  <2>1. Others(t)
    BY <1>41, OthersKept DEF OneMoves, read_step, write_step, unlock_step
  <2>2. /\ owner' = owner
        /\ pc'[t] = "write" => pc[t] = "write"
        /\ t \in ReadHolders' /\ pc'[t] \notin {"r_owner", "d_owner_wake"} =>
             t \in ReadHolders /\ pc[t] \notin {"r_owner", "d_owner_wake"}
        /\ pc'[t] = "mark_grant" => owner.reader
    BY <1>41 DEF rwsem_wake, Goto, MarkWake, lockvars, taskvars, ReadHolders,
          Granted, Queued, TaskTypes,
          Control, Calls, NoCall, ReadPc, MarkPc, WaitPc
  <2> QED BY <2>1, <2>2, OwnersKept
<1>42. ASSUME NEW t \in Tasks,
              rwsem_wake(t, "downgrade_wake", "RWSEM_WAKE_READ_OWNED", "read")
       PROVE  Owners'
  <2>1. Others(t)
    BY <1>42, OthersKept DEF OneMoves, read_step, write_step, unlock_step
  <2>2. /\ owner' = owner
        /\ pc'[t] = "write" => pc[t] = "write"
        /\ t \in ReadHolders' /\ pc'[t] \notin {"r_owner", "d_owner_wake"} =>
             t \in ReadHolders /\ pc[t] \notin {"r_owner", "d_owner_wake"}
        /\ pc'[t] = "mark_grant" => owner.reader
    BY <1>42 DEF rwsem_wake, Goto, MarkWake, lockvars, taskvars, ReadHolders,
          Granted, Queued, TaskTypes,
          Control, Calls, NoCall, ReadPc, MarkPc, WaitPc
  <2> QED BY <2>1, <2>2, OwnersKept
<1>43. ASSUME NEW t \in Tasks, signal_wake_up(t) PROVE Owners'
  <2>1. Others(t)
    BY <1>43, OthersKept DEF OneMoves, read_step, write_step, unlock_step
  <2>2. /\ owner' = owner
        /\ pc'[t] = "write" => pc[t] = "write"
        /\ t \in ReadHolders' /\ pc'[t] \notin {"r_owner", "d_owner_wake"} =>
             t \in ReadHolders /\ pc[t] \notin {"r_owner", "d_owner_wake"}
        /\ pc'[t] = "mark_grant" => owner.reader
    BY <1>43 DEF signal_wake_up, set_state, lockvars, listvars, wakevars,
          ReadHolders, Granted, Queued, TaskTypes,
          Control, Calls, NoCall, ReadPc, MarkPc, WaitPc
  <2> QED BY <2>1, <2>2, OwnersKept
<1> QED BY <1>0, <1>1, <1>2, <1>3, <1>4, <1>5, <1>6, <1>7, <1>8, <1>9, <1>10,
      <1>11, <1>11a, <1>12, <1>13, <1>14, <1>15, <1>16, <1>17, <1>18, <1>19,
      <1>20, <1>21, <1>22, <1>23, <1>24, <1>25, <1>26, <1>27, <1>28, <1>29,
      <1>30, <1>31, <1>32, <1>33, <1>33a, <1>34, <1>35, <1>36, <1>37, <1>38,
      <1>39, <1>40, <1>41, <1>42, <1>43 DEF Next, Start, Continue, mark_wake,
      read_step, write_step, unlock_step

-----------------------------------------------------------------------------
(***************************************************************************)
(* The invariant holds.                                                     *)
(***************************************************************************)
\* It holds at the beginning,
LEMMA InitInv == Init => Inv
<1> SUFFICES ASSUME Init PROVE Inv
  OBVIOUS
<1>1. Types /\ TaskTypes
  BY DEF Init, Types, TaskTypes, CountType, UNLOCKED, PC, OtherPc, Calls
<1>2. Control
  BY DEF Init, Control, NoCall, MarkPc, IsWriter, WriterPc, SlowPc, WaitPc
<1>3. Locking
  BY RwsemAssumption DEF Init, Locking, LockedPc
<1>4. Listed
  <2>1. wait_list \in Seq(Tasks) /\ Len(wait_list) = 0
    BY DEF Init
  <2>2. Distinct(wait_list)
    BY <2>1 DEF Distinct
  <2>3. Queued = {}
    BY <2>1, QueuedTasks DEF Init
  <2> QED BY <2>1, <2>2, <2>3 DEF Init, Listed, IsWriter
<1>5. Flags
  BY DEF Init, Flags, UNLOCKED
<1>6. ReadHolders = {} /\ WriteHolders = {} /\ Transient = {}
  BY DEF Init, ReadHolders, WriteHolders, Transient, Granted, ReadPc, WritePc,
        WaitPc, NoCall
<1>7. ReaderCount
  BY <1>6, FS_EmptySet DEF ReaderCount, Init, UNLOCKED
<1>8. Exclusion
  BY <1>6 DEF Exclusion, Init, UNLOCKED
<1>9. Owners
  BY <1>6 DEF Owners, Init
<1> QED BY <1>1, <1>2, <1>3, <1>4, <1>5, <1>7, <1>8, <1>9 DEF Inv

\* and every step keeps it.
LEMMA InvStep == Inv /\ [Next]_vars => Inv'
<1> SUFFICES ASSUME Inv, [Next]_vars PROVE Inv'
  OBVIOUS
<1>1. /\ Types /\ TaskTypes /\ Control /\ Locking /\ Listed /\ Flags
      /\ ReaderCount /\ Exclusion /\ Owners
  BY DEF Inv
<1>2. wait_lock \in Tasks \cup {NULL}
  BY <1>1 DEF Types
<1>3. Types'
  BY <1>1, TypesStep
<1>4. TaskTypes' /\ Control'
  BY <1>1, TaskTypesStep, ControlStep
<1>5. Locking' /\ Listed'
  BY <1>1, <1>2, LockingStep, ListedStep
<1>6. Flags'
  BY <1>1, FlagsStep
<1>7. ReaderCount' /\ Exclusion'
  BY <1>1, ReaderCountStep, ExclusionStep
<1>8. Owners'
  BY <1>1, OwnersStep
<1> QED BY <1>3, <1>4, <1>5, <1>6, <1>7, <1>8 DEF Inv

\* The inductive invariant holds, for every number of readers and writers and
\* every MAX_READERS_WAKEUP.
THEOREM InvHolds == Spec => []Inv
BY InitInv, InvStep, PTL DEF Spec

-----------------------------------------------------------------------------
(***************************************************************************)
(* What the invariant says.                                                 *)
(***************************************************************************)

\* No variable leaves its type. No bit of sem->count is set when it is set or
\* cleared when it is clear, so no addition or subtraction of the slow paths
\* carries into the next field; the reader count does not become negative, and
\* no task is on the list twice.
THEOREM TypeCorrect == Spec => []TypeOK
<1>1. Inv => TypeOK
  <2> SUFFICES ASSUME Inv PROVE TypeOK
    OBVIOUS
  <2>1. /\ Types /\ TaskTypes /\ Control /\ Listed /\ ReaderCount
    BY DEF Inv
  <2>2. count \in [writer : 0..1, waiters : 0..1, handoff : 0..1, readers : Nat]
    <3>1. /\ Cardinality(ReadHolders) \in Nat /\ Cardinality(Transient) \in Nat
      BY SubsetFinite, HoldersAreTasks
    <3>2. count.readers \in Nat
      BY <2>1, <3>1 DEF ReaderCount
    <3> QED BY <2>1, <3>2 DEF Types, CountType
  <2>3. Cardinality(Queued) = Len(wait_list)
    <3> DEFINE n == Len(wait_list)
    <3>1. wait_list \in Seq(Tasks) /\ Distinct(wait_list)
      BY <2>1 DEF Listed
    <3>2. n \in Nat /\ wait_list \in [1 .. n -> Tasks]
      BY <3>1
    <3>3. Queued = {wait_list[i] : i \in 1 .. n}
      BY <3>1, QueuedElements DEF Elements
    <3>4. \A i, j \in 1 .. n : wait_list[i] = wait_list[j] => i = j
      BY <3>1 DEF Distinct
    <3> HIDE DEF n
    <3> DEFINE f == [i \in 1 .. n |-> wait_list[i]]
    <3>5. f \in Injection(1 .. n, Queued)
      BY <3>3, <3>4 DEF Injection, IsInjective
    <3>6. f \in Surjection(1 .. n, Queued)
      BY <3>3 DEF Surjection
    <3>7. ExistsBijection(1 .. n, Queued)
      BY <3>5, <3>6 DEF ExistsBijection, Bijection
    <3>8. IsFiniteSet(1 .. n) /\ Cardinality(1 .. n) = n
      <4>1. 1 \in Int /\ n \in Int /\ (1 > n => n = 0)
        BY <3>2
      <4> QED BY <3>2, <4>1, FS_Interval
    <3>9. Cardinality(Queued) = n
      BY <3>7, <3>8, FS_Bijection
    <3> QED BY <3>9 DEF n
  <2>4. \A t \in Tasks : call[t] # NoCall <=> pc[t] \in MarkPc
    BY <2>1 DEF Control
  <2> QED BY <2>1, <2>2, <2>3, <2>4 DEF Types, TaskTypes, Listed, PC, TypeOK
<1> QED BY <1>1, InvHolds, PTL

\* sem->count tells the truth in every state: the reader count is that of the
\* readers that hold the lock and of the biases to be taken back, the writer
\* bit is set exactly while a writer holds it, and WAITERS, when wait_lock is
\* free, while somebody waits.
THEOREM CountAlwaysMatches == Spec => []CountMatches
<1>1. Inv => CountMatches
  <2> SUFFICES ASSUME Inv PROVE CountMatches
    OBVIOUS
  <2>1. count.writer = Cardinality(WriteHolders)
    <3>1. CASE WriteHolders = {}
      BY <3>1, FS_EmptySet DEF Inv, Exclusion
    <3>2. CASE WriteHolders # {}
      <4>1. PICK t \in WriteHolders : WriteHolders = {t}
        BY <3>2 DEF Inv, Exclusion
      <4>2. count.writer = 1
        BY <3>2 DEF Inv, Exclusion, Types, CountType
      <4> QED BY <4>1, <4>2, FS_Singleton
    <3> QED BY <3>1, <3>2
  <2>2. wait_lock = NULL => (count.waiters # 0 <=> wait_list # <<>>)
    <3>1. wait_lock = NULL => \A t \in Tasks : pc[t] # "w_locked"
      BY RwsemAssumption DEF Inv, Locking, LockedPc
    <3> QED BY <3>1 DEF Inv, Flags
  <2> QED BY <2>1, <2>2 DEF Inv, ReaderCount, CountMatches
<1> QED BY <1>1, InvHolds, PTL

\* The DEBUG_RWSEMS_WARN_ON() of up_read(), up_write() and downgrade_write()
\* never fire: a writer finds itself in sem->owner and a reader
\* RWSEM_READER_OWNED.
THEOREM OwnerAlwaysMatches == Spec => []OwnerMatches
<1>1. Inv => OwnerMatches
  <2> SUFFICES ASSUME Inv, NEW t \in Tasks
               PROVE  /\ pc[t] = "write" => owner = [task |-> t, reader |-> FALSE]
                      /\ pc[t] = "read" => owner.reader /\ ~WriterMask
    BY DEF OwnerMatches
  <2>1. pc[t] = "read" => t \in ReadHolders
    BY DEF ReadHolders, ReadPc
  <2>2. pc[t] = "read" => owner.reader
    BY <2>1 DEF Inv, Owners
  <2>3. pc[t] = "read" => ~WriterMask
    BY <2>1, ReaderAlone DEF Inv, WriterMask
  <2> QED BY <2>2, <2>3 DEF Inv, Owners
<1> QED BY <1>1, InvHolds, PTL

-----------------------------------------------------------------------------
(***************************************************************************)
(* How the lock changes hands.                                              *)
(***************************************************************************)
\* Under HANDOFF, t may get the lock.
MayTake(t) ==
  Handoff => /\ t \in Queued
             /\ \/ t = rwsem_first_waiter
                \/ ~IsWriter(t) /\ ~IsWriter(rwsem_first_waiter)

\* Nobody gets the lock and nobody gives it up;
Stays == ReadHolders' = ReadHolders /\ WriteHolders' = WriteHolders

\* readers get it, one by itself or a batch from the list;
ReadersGet ==
  \E ts \in SUBSET Tasks :
    /\ WriteHolders = {} /\ WriteHolders' = {}
    /\ ReadHolders' = ReadHolders \cup ts
    /\ \A t \in ts : MayTake(t)

\* a reader gives it up;
ReaderLeaves ==
  /\ WriteHolders' = WriteHolders
  /\ \E t \in ReadHolders : ReadHolders' = ReadHolders \ {t}

\* a writer gets it;
WriterGets ==
  /\ ReadHolders = {} /\ ReadHolders' = {} /\ WriteHolders = {}
  /\ \E t \in Tasks : WriteHolders' = {t} /\ MayTake(t)

\* the writer gives it up, or goes on as a reader.
WriterLeaves ==
  /\ ReadHolders = {} /\ WriteHolders' = {}
  /\ \E t \in WriteHolders :
       WriteHolders = {t} /\ (ReadHolders' = {} \/ ReadHolders' = {t})

Moves == Stays \/ ReadersGet \/ ReaderLeaves \/ WriterGets \/ WriterLeaves

\* The task that moves neither gets the lock nor gives it up.
LEMMA OneStays ==
  ASSUME NEW t \in Tasks, Others(t), t \in ReadHolders' <=> t \in ReadHolders,
         t \in WriteHolders' <=> t \in WriteHolders
  PROVE  Moves
<1>1. WriteHolders' = WriteHolders
  BY OthersStay DEF WriteHolders
<1>2. ReadHolders' = ReadHolders
  BY OthersStay, HoldersAreTasks
<1> QED BY <1>1, <1>2 DEF Moves, Stays

\* A reader gets the lock, with no writer and no HANDOFF in the way.
LEMMA OneReads ==
  ASSUME Exclusion, NEW t \in Tasks, Others(t), count.writer = 0, ~Handoff,
         t \in ReadHolders', t \notin WriteHolders'
  PROVE  Moves
<1>1. WriteHolders = {}
  BY DEF Exclusion
<1>2. WriteHolders' = {}
  BY <1>1, OthersStay DEF WriteHolders
<1>3. ReadHolders' = ReadHolders \cup {t}
  BY OthersStay, HoldersAreTasks
<1>4. \A u \in {t} : MayTake(u)
  BY DEF MayTake
<1>5. {t} \in SUBSET Tasks
  OBVIOUS
<1>6. ReadersGet
  BY <1>1, <1>2, <1>3, <1>4, <1>5 DEF ReadersGet
<1> QED BY <1>6 DEF Moves

\* A writer gets it.
LEMMA OneWrites ==
  ASSUME TaskTypes, Control, ReaderCount, Exclusion, count \in CountType,
         NEW t \in Tasks, Others(t), ~LockMask, count'.writer = 1,
         t \in WriteHolders', t \notin ReadHolders',
         pc'[t] \notin {"mark_owner", "mark_grant"}, MayTake(t)
  PROVE  Moves
<1>1. ReadHolders = {} /\ WriteHolders = {} /\ WriteHolders' = {t}
  BY ExclusionTaken
<1>2. ReadHolders' = {}
  BY <1>1, OthersStay, HoldersAreTasks
<1>3. WriterGets
  BY <1>1, <1>2 DEF WriterGets
<1> QED BY <1>3 DEF Moves

\* The writer gives it up, or downgrades.
LEMMA OneLeaves ==
  ASSUME Exclusion, count \in CountType, NEW t \in WriteHolders, Others(t),
         count'.writer = count.writer - 1, t \notin WriteHolders'
  PROVE  Moves
<1>1. ReadHolders = {} /\ WriteHolders = {t} /\ WriteHolders' = {}
  BY ExclusionLeft
<1>2. ReadHolders' = {} \/ ReadHolders' = {t}
  BY <1>1, OthersStay, HoldersAreTasks
<1>3. WriterLeaves
  BY <1>1, <1>2 DEF WriterLeaves
<1> QED BY <1>3 DEF Moves

\* Every step is one of these.
LEMMA HolderMoves ==
  ASSUME Types, TaskTypes, Control, Listed, ReaderCount, Exclusion, [Next]_vars
  PROVE  Moves
<1>0. UNCHANGED vars => Moves
  BY DEF vars, lockvars, listvars, taskvars, wakevars, Moves, Stays,
        WriteHolders, ReadHolders, Granted, Queued
<1>1. ASSUME NEW t \in Tasks, mark_first(t) PROVE Moves
  <2>1. Others(t)
    BY <1>1, OthersKept DEF OneMoves, read_step, write_step, unlock_step
  <2>2. /\ pc[t] = "mark" /\ UNCHANGED wait_list
        /\ \/ pc'[t] = "w_try" /\ call'[t] = NoCall /\ call[t].ret = "w_try"
           \/
                /\ pc'[t] \in {"wake_up_q", "mark_back", "mark_owner", "mark_grant"}
              /\ call'[t] = call[t]
    BY <1>1 DEF mark_first, Marked, Goto, wakevars, TaskTypes
  <2>3. t \in ReadHolders' <=> t \in ReadHolders
    BY <2>2 DEF ReadHolders, Granted, Queued, ReadPc, WaitPc, NoCall
  <2>4. t \notin WriteHolders /\ t \notin WriteHolders'
    BY <2>2 DEF WriteHolders, WritePc
  <2> QED BY <2>1, <2>3, <2>4, OneStays
<1>2. ASSUME NEW t \in Tasks, NEW timeout \in BOOLEAN, mark_back(t, timeout)
      PROVE  Moves
  <2>1. Others(t)
    BY <1>2, OthersKept DEF OneMoves, read_step, write_step, unlock_step
  <2>2. /\ t \in ReadHolders' <=> t \in ReadHolders
        /\ t \in WriteHolders' <=> t \in WriteHolders
    BY <1>2 DEF mark_back, Marked, Goto, set_state, WriteHolders, ReadHolders,
          Granted, Queued, TaskTypes,
          Control, Calls, NoCall, ReadPc, WritePc, MarkPc, WaitPc
  <2> QED BY <2>1, <2>2, OneStays
<1>3. ASSUME NEW t \in Tasks, mark_owner(t) PROVE Moves
  <2>1. Others(t)
    BY <1>3, OthersKept DEF OneMoves, read_step, write_step, unlock_step
  <2>2. /\ t \in ReadHolders' <=> t \in ReadHolders
        /\ t \in WriteHolders' <=> t \in WriteHolders
    BY <1>3 DEF mark_owner, Jump, Goto, set_owner, listvars, taskvars,
          wakevars, WriteHolders, ReadHolders, Granted, Queued, TaskTypes,
          Control, Calls, NoCall, ReadPc, WritePc, MarkPc, WaitPc
  <2> QED BY <2>1, <2>2, OneStays
<1>4. ASSUME NEW t \in Tasks, mark_grant(t) PROVE Moves
  <2>1. /\ ReadHolders' = ReadHolders \cup Woken /\ WriteHolders' = WriteHolders
        /\ pc[t] = "mark_grant"
    BY <1>4, BatchGranted DEF mark_grant
  <2>2. WriteHolders = {}
    BY <2>1 DEF Exclusion
  <2>3. Woken \subseteq Queued /\ \A u \in Woken : ~IsWriter(u)
    BY WokenReaders DEF Listed
  <2>4. Woken \in SUBSET Tasks
    BY <2>3, QueuedTasks DEF Listed
  <2>5. ~IsWriter(rwsem_first_waiter)
    BY <2>1 DEF Listed
  <2>6. \A u \in Woken : MayTake(u)
    BY <2>3, <2>5 DEF MayTake
  <2>7. ReadersGet
    BY <2>1, <2>2, <2>4, <2>6 DEF ReadersGet
  <2> QED BY <2>7 DEF Moves
<1>5. ASSUME NEW t \in Tasks, wake_up_q(t) PROVE Moves
  <2>1. Others(t)
    BY <1>5, OthersKept DEF OneMoves, read_step, write_step, unlock_step
  <2>2. /\ t \in ReadHolders' <=> t \in ReadHolders
        /\ t \in WriteHolders' <=> t \in WriteHolders
    BY <1>5 DEF wake_up_q, Goto, raw_spin_lock, set_state, lockvars,
          WriteHolders, ReadHolders, Granted, Queued, TaskTypes,
          Control, Calls, NoCall, ReadPc, WritePc, MarkPc, WaitPc
  <2> QED BY <2>1, <2>2, OneStays
<1>6. ASSUME NEW t \in Tasks, NEW m \in MODES, down_read(t, m) PROVE Moves
  <2>1. Others(t)
    BY <1>6, OthersKept DEF OneMoves, read_step, write_step, unlock_step
  <2>2. /\ pc[t] = "idle" /\ UNCHANGED <<wait_list, call>>
        /\ \/ count.writer = 0 /\ ~Handoff /\ pc'[t] = "r_owner"
           \/ pc'[t] = "r_slow"
    BY <1>6 DEF down_read, add_readers, Goto, listvars, wakevars,
          ReadFailedMask, WriterMask, TaskTypes
  <2>3. call[t] = NoCall
    BY <2>2 DEF Control, MarkPc
  <2>4. CASE pc'[t] = "r_owner" /\ count.writer = 0 /\ ~Handoff
    <3>1. t \in ReadHolders' /\ t \notin WriteHolders'
      BY <2>4 DEF ReadHolders, ReadPc, WriteHolders, WritePc
    <3> QED BY <2>1, <2>4, <3>1, OneReads
  <2>5. CASE pc'[t] = "r_slow"
    <3>1. /\ t \notin ReadHolders /\ t \notin ReadHolders'
          /\ t \notin WriteHolders /\ t \notin WriteHolders'
      BY <2>2, <2>3, <2>5 DEF ReadHolders, ReadPc, Granted, WaitPc, NoCall,
            WriteHolders, WritePc
    <3> QED BY <2>1, <3>1, OneStays
  <2> QED BY <2>2, <2>4, <2>5
<1>7. ASSUME NEW t \in Tasks, down_read_trylock(t) PROVE Moves
  <2>1. Others(t)
    BY <1>7, OthersKept DEF OneMoves, read_step, write_step, unlock_step
  <2>2. /\ pc[t] = "idle" /\ UNCHANGED <<wait_list, call>>
        /\ \/ count.writer = 0 /\ ~Handoff /\ pc'[t] = "r_owner"
           \/ pc'[t] = "r_slow"
    BY <1>7 DEF down_read_trylock, Jump, Goto, add_readers, listvars, taskvars,
          wakevars, ReadFailedMask, WriterMask, TaskTypes
  <2>3. call[t] = NoCall
    BY <2>2 DEF Control, MarkPc
  <2>4. CASE pc'[t] = "r_owner" /\ count.writer = 0 /\ ~Handoff
    <3>1. t \in ReadHolders' /\ t \notin WriteHolders'
      BY <2>4 DEF ReadHolders, ReadPc, WriteHolders, WritePc
    <3> QED BY <2>1, <2>4, <3>1, OneReads
  <2>5. CASE pc'[t] = "r_slow"
    <3>1. /\ t \notin ReadHolders /\ t \notin ReadHolders'
          /\ t \notin WriteHolders /\ t \notin WriteHolders'
      BY <2>2, <2>3, <2>5 DEF ReadHolders, ReadPc, Granted, WaitPc, NoCall,
            WriteHolders, WritePc
    <3> QED BY <2>1, <3>1, OneStays
  <2> QED BY <2>2, <2>4, <2>5
<1>8. ASSUME NEW t \in Tasks, set_reader_owned(t) PROVE Moves
  <2>1. Others(t)
    BY <1>8, OthersKept DEF OneMoves, read_step, write_step, unlock_step
  <2>2. /\ t \in ReadHolders' <=> t \in ReadHolders
        /\ t \in WriteHolders' <=> t \in WriteHolders
    BY <1>8 DEF set_reader_owned, set_owner, Goto, Return, listvars, wakevars,
          WriteHolders, ReadHolders, Granted, Queued, TaskTypes,
          Control, Calls, NoCall, ReadPc, WritePc, MarkPc, WaitPc
  <2> QED BY <2>1, <2>2, OneStays
<1>9. ASSUME NEW t \in Tasks, read_undo(t) PROVE Moves
  <2>1. Others(t)
    BY <1>9, OthersKept DEF OneMoves, read_step, write_step, unlock_step
  <2>2. /\ t \in ReadHolders' <=> t \in ReadHolders
        /\ t \in WriteHolders' <=> t \in WriteHolders
    BY <1>9 DEF read_undo, Jump, Goto, add_readers, listvars, taskvars,
          wakevars, WriteHolders, ReadHolders, Granted, Queued, TaskTypes,
          Control, Calls, NoCall, ReadPc, WritePc, MarkPc, WaitPc
  <2> QED BY <2>1, <2>2, OneStays
<1>10. ASSUME NEW t \in Tasks, read_osq_lock(t) PROVE Moves
  <2>1. Others(t)
    BY <1>10, OthersKept DEF OneMoves, read_step, write_step, unlock_step
  <2>2. /\ t \in ReadHolders' <=> t \in ReadHolders
        /\ t \in WriteHolders' <=> t \in WriteHolders
    BY <1>10 DEF read_osq_lock, Jump, Goto, listvars, taskvars, wakevars,
          WriteHolders, ReadHolders, Granted, Queued, TaskTypes,
          Control, Calls, NoCall, ReadPc, WritePc, MarkPc, WaitPc
  <2> QED BY <2>1, <2>2, OneStays
<1>11. ASSUME NEW t \in Tasks, read_try(t) PROVE Moves
  <2>1. Others(t)
    BY <1>11, OthersKept DEF OneMoves, read_step, write_step, unlock_step
  <2>2. /\ t \in ReadHolders' <=> t \in ReadHolders
        /\ t \in WriteHolders' <=> t \in WriteHolders
    BY <1>11 DEF read_try, Jump, Goto, lockvars, listvars, taskvars, wakevars,
          WriteHolders, ReadHolders, Granted, Queued, TaskTypes,
          Control, Calls, NoCall, ReadPc, WritePc, MarkPc, WaitPc
  <2> QED BY <2>1, <2>2, OneStays
<1>11a. ASSUME NEW t \in Tasks, read_phase(t) PROVE Moves
  <2>1. Others(t)
    BY <1>11a, OthersKept DEF OneMoves, read_step, write_step, unlock_step
  <2>2. /\ t \in ReadHolders' <=> t \in ReadHolders
        /\ t \in WriteHolders' <=> t \in WriteHolders
    BY <1>11a DEF read_phase, Goto, lockvars, listvars, taskvars,
          wakevars, WriteHolders, ReadHolders, Granted, Queued, TaskTypes,
          Control, Calls, NoCall, ReadPc, WritePc, MarkPc, WaitPc
  <2> QED BY <2>1, <2>2, OneStays
<1>12. ASSUME NEW t \in Tasks, read_add(t) PROVE Moves
  <2>1. Others(t)
    BY <1>12, OthersKept DEF OneMoves, read_step, write_step, unlock_step
  <2>2. /\ pc[t] = "r_add" /\ UNCHANGED <<wait_list, call>>
        /\ \/ count.writer = 0 /\ ~Handoff /\ pc'[t] = "r_owner"
           \/ pc'[t] = "r_back"
    BY <1>12 DEF read_add, Jump, Goto, add_readers, listvars, taskvars,
          wakevars, WriterMask, TaskTypes
  <2>3. call[t] = NoCall
    BY <2>2 DEF Control, MarkPc
  <2>4. CASE pc'[t] = "r_owner" /\ count.writer = 0 /\ ~Handoff
    <3>1. t \in ReadHolders' /\ t \notin WriteHolders'
      BY <2>4 DEF ReadHolders, ReadPc, WriteHolders, WritePc
    <3> QED BY <2>1, <2>4, <3>1, OneReads
  <2>5. CASE pc'[t] = "r_back"
    <3>1. /\ t \notin ReadHolders /\ t \notin ReadHolders'
          /\ t \notin WriteHolders /\ t \notin WriteHolders'
      BY <2>2, <2>3, <2>5 DEF ReadHolders, ReadPc, Granted, WaitPc, NoCall,
            WriteHolders, WritePc
    <3> QED BY <2>1, <3>1, OneStays
  <2> QED BY <2>2, <2>4, <2>5
<1>13. ASSUME NEW t \in Tasks, read_back(t) PROVE Moves
  <2>1. Others(t)
    BY <1>13, OthersKept DEF OneMoves, read_step, write_step, unlock_step
  <2>2. /\ t \in ReadHolders' <=> t \in ReadHolders
        /\ t \in WriteHolders' <=> t \in WriteHolders
    BY <1>13 DEF read_back, Jump, Goto, add_readers, listvars, taskvars,
          wakevars, WriteHolders, ReadHolders, Granted, Queued, TaskTypes,
          Control, Calls, NoCall, ReadPc, WritePc, MarkPc, WaitPc
  <2> QED BY <2>1, <2>2, OneStays
<1>14. ASSUME NEW t \in Tasks, read_stop_spinning(t) PROVE Moves
  <2>1. Others(t)
    BY <1>14, OthersKept DEF OneMoves, read_step, write_step, unlock_step
  <2>2. /\ t \in ReadHolders' <=> t \in ReadHolders
        /\ t \in WriteHolders' <=> t \in WriteHolders
    BY <1>14 DEF read_stop_spinning, Jump, Goto, listvars, taskvars, wakevars,
          WriteHolders, ReadHolders, Granted, Queued, TaskTypes,
          Control, Calls, NoCall, ReadPc, WritePc, MarkPc, WaitPc
  <2> QED BY <2>1, <2>2, OneStays
<1>15. ASSUME NEW t \in Tasks, read_spun(t) PROVE Moves
  <2>1. Others(t)
    BY <1>15, OthersKept DEF OneMoves, read_step, write_step, unlock_step
  <2>2. /\ t \in ReadHolders' <=> t \in ReadHolders
        /\ t \in WriteHolders' <=> t \in WriteHolders
    BY <1>15 DEF read_spun, Return, Goto, lockvars, WriteHolders, ReadHolders,
          Granted, Queued, TaskTypes,
          Control, Calls, NoCall, ReadPc, WritePc, MarkPc, WaitPc
  <2> QED BY <2>1, <2>2, OneStays
<1>16. ASSUME NEW t \in Tasks, read_spun_lock(t) PROVE Moves
  <2>1. Others(t)
    BY <1>16, OthersKept DEF OneMoves, read_step, write_step, unlock_step
  <2>2. /\ t \in ReadHolders' <=> t \in ReadHolders
        /\ t \in WriteHolders' <=> t \in WriteHolders
    BY <1>16 DEF read_spun_lock, Goto, MarkWake, lockvars, WriteHolders,
          ReadHolders, Granted, Queued, TaskTypes,
          Control, Calls, NoCall, ReadPc, WritePc, MarkPc, WaitPc
  <2> QED BY <2>1, <2>2, OneStays
<1>17. ASSUME NEW t \in Tasks, read_queue_test(t) PROVE Moves
  <2>1. Others(t)
    BY <1>17, OthersKept DEF OneMoves, read_step, write_step, unlock_step
  <2>2. /\ pc[t] = "r_slow" /\ UNCHANGED <<wait_list, call>>
        /\ \/ count.writer = 0 /\ ~Handoff /\ pc'[t] = "r_owner"
           \/ pc'[t] = "r_enqueue"
    BY <1>17 DEF read_queue_test, Goto, lockvars, taskvars, wakevars,
          WriterMask, TaskTypes
  <2>3. call[t] = NoCall
    BY <2>2 DEF Control, MarkPc
  <2>4. CASE pc'[t] = "r_owner" /\ count.writer = 0 /\ ~Handoff
    <3>1. t \in ReadHolders' /\ t \notin WriteHolders'
      BY <2>4 DEF ReadHolders, ReadPc, WriteHolders, WritePc
    <3> QED BY <2>1, <2>4, <3>1, OneReads
  <2>5. CASE pc'[t] = "r_enqueue"
    <3>1. /\ t \notin ReadHolders /\ t \notin ReadHolders'
          /\ t \notin WriteHolders /\ t \notin WriteHolders'
      BY <2>2, <2>3, <2>5 DEF ReadHolders, ReadPc, Granted, WaitPc, NoCall,
            WriteHolders, WritePc
    <3> QED BY <2>1, <3>1, OneStays
  <2> QED BY <2>2, <2>4, <2>5
<1>18. ASSUME NEW t \in Tasks, read_enqueue(t) PROVE Moves
  <2>1. Others(t)
    BY <1>18, OthersKept DEF OneMoves, read_step, write_step, unlock_step
  <2>2. /\ wait_list' = Append(wait_list, t)
        /\ pc[t] \in {"r_enqueue", "r_slow", "r_osq", "r_phase", "r_phase_try", "r_queue"}
        /\ \/ pc'[t] = "mark" /\ call'[t].ret = "r_wait"
           \/ pc'[t] = "r_wait" /\ call'[t] = call[t]
    BY <1>18 DEF read_enqueue, MarkWake, Goto, TaskTypes
  <2>3. call[t] = NoCall /\ t \notin Queued
    BY <2>2 DEF Control, WriterPc, NoCall, MarkPc, Listed, WaitsToRead, WaitPc
  <2>4. t \in Queued'
    BY <2>2, <2>3, Joins DEF Listed
  <2>5. /\ t \notin ReadHolders /\ t \notin ReadHolders'
        /\ t \notin WriteHolders /\ t \notin WriteHolders'
    BY <2>2, <2>3, <2>4 DEF ReadHolders, Granted, NoCall, ReadPc, WaitPc,
          WriteHolders, WritePc
  <2> QED BY <2>1, <2>5, OneStays
<1>19. ASSUME NEW t \in Tasks, read_set_state(t) PROVE Moves
  <2>1. Others(t)
    BY <1>19, OthersKept DEF OneMoves, read_step, write_step, unlock_step
  <2>2. /\ t \in ReadHolders' <=> t \in ReadHolders
        /\ t \in WriteHolders' <=> t \in WriteHolders
    BY <1>19 DEF read_set_state, Jump, Goto, set_state, lockvars, listvars,
          wakevars, WriteHolders, ReadHolders, Granted, Queued, TaskTypes,
          Control, Calls, NoCall, ReadPc, WritePc, MarkPc, WaitPc
  <2> QED BY <2>1, <2>2, OneStays
<1>20. ASSUME NEW t \in Tasks, read_check(t) PROVE Moves
  <2>1. Others(t)
    BY <1>20, OthersKept DEF OneMoves, read_step, write_step, unlock_step
  <2>2. /\ t \in ReadHolders' <=> t \in ReadHolders
        /\ t \in WriteHolders' <=> t \in WriteHolders
    BY <1>20 DEF read_check, Goto, Return, set_state, taskvars, lockvars,
          listvars, wakevars, WriteHolders, ReadHolders, Granted, Queued,
          TaskTypes,
          Control, Calls, NoCall, ReadPc, WritePc, MarkPc, WaitPc
  <2> QED BY <2>1, <2>2, OneStays
<1>21. ASSUME NEW t \in Tasks, read_schedule(t) PROVE Moves
  <2>1. Others(t)
    BY <1>21, OthersKept DEF OneMoves, read_step, write_step, unlock_step
  <2>2. /\ t \in ReadHolders' <=> t \in ReadHolders
        /\ t \in WriteHolders' <=> t \in WriteHolders
    BY <1>21 DEF read_schedule, Jump, Goto, lockvars, listvars, taskvars,
          wakevars, WriteHolders, ReadHolders, Granted, Queued, TaskTypes,
          Control, Calls, NoCall, ReadPc, WritePc, MarkPc, WaitPc
  <2> QED BY <2>1, <2>2, OneStays
<1>22. ASSUME NEW t \in Tasks, read_signal(t) PROVE Moves
  <2>1. Others(t)
    BY <1>22, OthersKept DEF OneMoves, read_step, write_step, unlock_step
  <2>2. /\ pc[t] = "r_signal" /\ UNCHANGED call
        /\ pc'[t] = IF t \in Queued THEN "idle" ELSE "read"
    BY <1>22 DEF read_signal, Return, Goto, wakevars, TaskTypes
  <2>3. t \in ReadHolders' <=> t \in ReadHolders
    BY <2>2 DEF ReadHolders, Granted, ReadPc, WaitPc, Control, NoCall, MarkPc
  <2>4. t \notin WriteHolders /\ t \notin WriteHolders'
    BY <2>2 DEF WriteHolders, WritePc
  <2> QED BY <2>1, <2>3, <2>4, OneStays
<1>23. ASSUME NEW t \in Tasks, down_write_fast(t) PROVE Moves
  <2>1. Others(t)
    BY <1>23, OthersKept DEF OneMoves, read_step, write_step, unlock_step
  <2>2. /\ ~LockMask /\ count'.writer = 1 /\ pc[t] = "idle"
        /\ pc'[t] = "w_owner"
        /\ UNCHANGED call /\ ~Handoff
    BY <1>23 DEF down_write_fast, Jump, Goto, UNLOCKED, LockMask, Handoff,
          wakevars, TaskTypes, Types, CountType
  <2>3. t \in WriteHolders' /\ t \notin ReadHolders'
    BY <2>2 DEF WriteHolders, WritePc, ReadHolders, ReadPc, Granted, WaitPc,
          Control,
          NoCall, MarkPc
  <2>4. MayTake(t)
    BY <2>2 DEF MayTake
  <2> QED BY <2>1, <2>2, <2>3, <2>4, OneWrites DEF Types
<1>24. ASSUME NEW t \in Tasks, NEW m \in MODES, down_write_slow(t, m)
       PROVE  Moves
  <2>1. Others(t)
    BY <1>24, OthersKept DEF OneMoves, read_step, write_step, unlock_step
  <2>2. /\ t \in ReadHolders' <=> t \in ReadHolders
        /\ t \in WriteHolders' <=> t \in WriteHolders
    BY <1>24 DEF down_write_slow, Jump, Goto, lockvars, listvars, wakevars,
          WriteHolders, ReadHolders, Granted, Queued, TaskTypes,
          Control, Calls, NoCall, ReadPc, WritePc, MarkPc, WaitPc
  <2> QED BY <2>1, <2>2, OneStays
<1>25. ASSUME NEW t \in Tasks, set_writer_owned(t) PROVE Moves
  <2>1. Others(t)
    BY <1>25, OthersKept DEF OneMoves, read_step, write_step, unlock_step
  <2>2. /\ t \in ReadHolders' <=> t \in ReadHolders
        /\ t \in WriteHolders' <=> t \in WriteHolders
    BY <1>25 DEF set_writer_owned, set_owner, Return, Goto, listvars, wakevars,
          WriteHolders, ReadHolders, Granted, Queued, TaskTypes,
          Control, Calls, NoCall, ReadPc, WritePc, MarkPc, WaitPc
  <2> QED BY <2>1, <2>2, OneStays
<1>26. ASSUME NEW t \in Tasks, write_osq_lock(t) PROVE Moves
  <2>1. Others(t)
    BY <1>26, OthersKept DEF OneMoves, read_step, write_step, unlock_step
  <2>2. /\ t \in ReadHolders' <=> t \in ReadHolders
        /\ t \in WriteHolders' <=> t \in WriteHolders
    BY <1>26 DEF write_osq_lock, Jump, Goto, listvars, taskvars, wakevars,
          WriteHolders, ReadHolders, Granted, Queued, TaskTypes,
          Control, Calls, NoCall, ReadPc, WritePc, MarkPc, WaitPc
  <2> QED BY <2>1, <2>2, OneStays
<1>27. ASSUME NEW t \in Tasks, write_try_unqueued(t) PROVE Moves
  <2>1. Others(t)
    BY <1>27, OthersKept DEF OneMoves, read_step, write_step, unlock_step
  <2>2. /\ ~LockMask /\ count'.writer = 1 /\ pc[t] = "w_spin"
        /\ pc'[t] = "w_owner"
        /\ UNCHANGED call /\ ~Handoff
    BY <1>27 DEF write_try_unqueued, Jump, Goto, LockMask, wakevars, TaskTypes,
          Types, CountType
  <2>3. t \in WriteHolders' /\ t \notin ReadHolders'
    BY <2>2 DEF WriteHolders, WritePc, ReadHolders, ReadPc, Granted, WaitPc,
          Control,
          NoCall, MarkPc
  <2>4. MayTake(t)
    BY <2>2 DEF MayTake
  <2> QED BY <2>1, <2>2, <2>3, <2>4, OneWrites DEF Types
<1>28. ASSUME NEW t \in Tasks, write_stop_spinning(t) PROVE Moves
  <2>1. Others(t)
    BY <1>28, OthersKept DEF OneMoves, read_step, write_step, unlock_step
  <2>2. /\ t \in ReadHolders' <=> t \in ReadHolders
        /\ t \in WriteHolders' <=> t \in WriteHolders
    BY <1>28 DEF write_stop_spinning, Jump, Goto, listvars, taskvars, wakevars,
          WriteHolders, ReadHolders, Granted, Queued, TaskTypes,
          Control, Calls, NoCall, ReadPc, WritePc, MarkPc, WaitPc
  <2> QED BY <2>1, <2>2, OneStays
<1>29. ASSUME NEW t \in Tasks, write_enqueue(t) PROVE Moves
  <2>1. Others(t)
    BY <1>29, OthersKept DEF OneMoves, read_step, write_step, unlock_step
  <2>2. /\ t \in ReadHolders' <=> t \in ReadHolders
        /\ t \in WriteHolders' <=> t \in WriteHolders
    BY <1>29 DEF write_enqueue, raw_spin_lock, Goto, set_state, MarkWake,
          WriteHolders, ReadHolders, Granted, Queued, TaskTypes,
          Control, Calls, NoCall, ReadPc, WritePc, MarkPc, WaitPc
  <2> QED BY <2>1, <2>2, OneStays
<1>30. ASSUME NEW t \in Tasks, write_try(t) PROVE Moves
  <2>1. Others(t)
    BY <1>30, OthersKept DEF OneMoves, read_step, write_step, unlock_step
  <2>2. /\ pc[t] \in {"w_try", "w_relock"} /\ UNCHANGED call
        /\ \/ /\ ~LockMask /\ count'.writer = 1 /\ pc'[t] = "w_locked"
              /\ wstate[t] # "WRITER_NOT_FIRST" \/ ~Handoff
           \/ pc'[t] \in {"w_spin_owner", "w_signal", "w_asleep"}
    BY <1>30 DEF write_try, Goto, Block, wakevars, TaskTypes, Types, CountType
  <2>3. /\ t \notin ReadHolders /\ t \notin ReadHolders'
        /\ t \notin WriteHolders
        /\ call[t] = NoCall
    BY <2>2 DEF ReadHolders, ReadPc, Granted, WaitPc, Control, NoCall, MarkPc,
          WriteHolders, WritePc
  <2>4. CASE /\ ~LockMask /\ count'.writer = 1 /\ pc'[t] = "w_locked"
             /\ wstate[t] # "WRITER_NOT_FIRST" \/ ~Handoff
    <3>1. t \in WriteHolders'
      BY <2>4 DEF WriteHolders, WritePc
    <3>2. IsWriter(t)
      BY <2>2 DEF Control, WriterPc
    <3>3. wstate[t] # "WRITER_NOT_FIRST" => t \in Queued /\ t = rwsem_first_waiter
      BY <3>2 DEF IsWriter, TaskTypes, Listed
    <3>4. MayTake(t)
      BY <2>4, <3>3 DEF MayTake
    <3> QED BY <2>1, <2>3, <2>4, <3>1, <3>4, OneWrites DEF Types
  <2>5. CASE pc'[t] \in {"w_spin_owner", "w_signal", "w_asleep"}
    <3>1. t \notin WriteHolders'
      BY <2>5 DEF WriteHolders, WritePc
    <3> QED BY <2>1, <2>3, <3>1, OneStays
  <2> QED BY <2>2, <2>4, <2>5
<1>31. ASSUME NEW t \in Tasks, write_locked(t) PROVE Moves
  <2>1. Others(t)
    BY <1>31, OthersKept DEF OneMoves, read_step, write_step, unlock_step
  <2>2. /\ t \in ReadHolders' <=> t \in ReadHolders
        /\ t \in WriteHolders' <=> t \in WriteHolders
    BY <1>31 DEF write_locked, set_owner, set_state, Return, Goto, wakevars,
          WriteHolders, ReadHolders, Granted, Queued, TaskTypes,
          Control, Calls, NoCall, ReadPc, WritePc, MarkPc, WaitPc
  <2> QED BY <2>1, <2>2, OneStays
<1>32. ASSUME NEW t \in Tasks, write_spin_on_owner(t) PROVE Moves
  <2>1. Others(t)
    BY <1>32, OthersKept DEF OneMoves, read_step, write_step, unlock_step
  <2>2. /\ t \in ReadHolders' <=> t \in ReadHolders
        /\ t \in WriteHolders' <=> t \in WriteHolders
    BY <1>32 DEF write_spin_on_owner, Goto, Block, set_state, lockvars,
          listvars, wakevars, WriteHolders, ReadHolders, Granted, Queued,
          TaskTypes,
          Control, Calls, NoCall, ReadPc, WritePc, MarkPc, WaitPc
  <2> QED BY <2>1, <2>2, OneStays
<1>33. ASSUME NEW t \in Tasks, write_schedule(t) PROVE Moves
  <2>1. Others(t)
    BY <1>33, OthersKept DEF OneMoves, read_step, write_step, unlock_step
  <2>2. /\ t \in ReadHolders' <=> t \in ReadHolders
        /\ t \in WriteHolders' <=> t \in WriteHolders
    BY <1>33 DEF write_schedule, listvars, Jump, Goto, set_state, lockvars,
          wakevars, WriteHolders, ReadHolders, Granted, Queued, TaskTypes,
          Control, Calls, NoCall, ReadPc, WritePc, MarkPc, WaitPc
  <2> QED BY <2>1, <2>2, OneStays
<1>33a. ASSUME NEW t \in Tasks, write_first(t) PROVE Moves
  <2>1. Others(t)
    BY <1>33a, OthersKept DEF OneMoves, read_step, write_step, unlock_step
  <2>2. /\ t \in ReadHolders' <=> t \in ReadHolders
        /\ t \in WriteHolders' <=> t \in WriteHolders
    BY <1>33a DEF write_first, Jump, Goto, taskvars, lockvars, wakevars,
          WriteHolders, ReadHolders, Granted, Queued, TaskTypes, Control,
          Calls, NoCall, ReadPc, WritePc, MarkPc, WaitPc
  <2> QED BY <2>1, <2>2, OneStays
<1>34. ASSUME NEW t \in Tasks, NEW timeout \in BOOLEAN, write_count(t, timeout)
       PROVE  Moves
  <2>1. Others(t)
    BY <1>34, OthersKept DEF OneMoves, read_step, write_step, unlock_step
  <2>2. /\ t \in ReadHolders' <=> t \in ReadHolders
        /\ t \in WriteHolders' <=> t \in WriteHolders
    BY <1>34 DEF write_count, Goto, Block, set_state, lockvars, wakevars,
          WriteHolders, ReadHolders, Granted, Queued, TaskTypes,
          Control, Calls, NoCall, ReadPc, WritePc, MarkPc, WaitPc
  <2> QED BY <2>1, <2>2, OneStays
<1>35. ASSUME NEW t \in Tasks, write_signal(t) PROVE Moves
  <2>1. Others(t)
    BY <1>35, OthersKept DEF OneMoves, read_step, write_step, unlock_step
  <2>2. /\ t \in ReadHolders' <=> t \in ReadHolders
        /\ t \in WriteHolders' <=> t \in WriteHolders
    BY <1>35 DEF write_signal, Goto, MarkWake, WriteHolders, ReadHolders,
          Granted, Queued, TaskTypes,
          Control, Calls, NoCall, ReadPc, WritePc, MarkPc, WaitPc
  <2> QED BY <2>1, <2>2, OneStays
<1>36. ASSUME NEW t \in Tasks, up_read(t) PROVE Moves
  <2>1. Others(t)
    BY <1>36, OthersKept DEF OneMoves, read_step, write_step, unlock_step
  <2>2. pc[t] = "read" /\ pc'[t] \in {"wake", "idle"} /\ UNCHANGED call
    BY <1>36 DEF up_read, Goto, wakevars, TaskTypes
  <2>3. /\ t \in ReadHolders /\ t \notin ReadHolders'
        /\ t \notin WriteHolders /\ t \notin WriteHolders'
    BY <2>2 DEF ReadHolders, ReadPc, Granted, WaitPc, Control, NoCall, MarkPc,
          WriteHolders, WritePc
  <2>4. WriteHolders' = WriteHolders
    BY <2>1, <2>3, OthersStay DEF WriteHolders
  <2>5. ReadHolders' = ReadHolders \ {t}
    BY <2>1, <2>3, OthersStay, HoldersAreTasks
  <2>6. ReaderLeaves
    BY <2>3, <2>4, <2>5 DEF ReaderLeaves
  <2> QED BY <2>6 DEF Moves
<1>37. ASSUME NEW t \in Tasks, clear_owner(t) PROVE Moves
  <2>1. Others(t)
    BY <1>37, OthersKept DEF OneMoves, read_step, write_step, unlock_step
  <2>2. /\ t \in ReadHolders' <=> t \in ReadHolders
        /\ t \in WriteHolders' <=> t \in WriteHolders
    BY <1>37 DEF clear_owner, Jump, Goto, set_owner, listvars, taskvars,
          wakevars, WriteHolders, ReadHolders, Granted, Queued, TaskTypes,
          Control, Calls, NoCall, ReadPc, WritePc, MarkPc, WaitPc
  <2> QED BY <2>1, <2>2, OneStays
<1>38. ASSUME NEW t \in Tasks, up_write(t) PROVE Moves
  <2>1. Others(t)
    BY <1>38, OthersKept DEF OneMoves, read_step, write_step, unlock_step
  <2>2. /\ count'.writer = count.writer - 1 /\ pc[t] = "up_write"
        /\ pc'[t] \in {"wake", "idle"}
    BY <1>38 DEF up_write, Jump, Goto, TaskTypes, Types, CountType
  <2>3. t \in WriteHolders /\ t \notin WriteHolders'
    BY <2>2 DEF WriteHolders, WritePc
  <2> QED BY <2>1, <2>2, <2>3, OneLeaves DEF Types
<1>39. ASSUME NEW t \in Tasks, downgrade_write(t) PROVE Moves
  <2>1. Others(t)
    BY <1>39, OthersKept DEF OneMoves, read_step, write_step, unlock_step
  <2>2. /\ count'.writer = count.writer - 1 /\ pc[t] = "write"
        /\ pc'[t] \in {"d_owner_wake", "r_owner"}
    BY <1>39 DEF downgrade_write, Jump, Goto, TaskTypes, Types, CountType
  <2>3. t \in WriteHolders /\ t \notin WriteHolders'
    BY <2>2 DEF WriteHolders, WritePc
  <2> QED BY <2>1, <2>2, <2>3, OneLeaves DEF Types
<1>40. ASSUME NEW t \in Tasks, downgrade_owner(t) PROVE Moves
  <2>1. Others(t)
    BY <1>40, OthersKept DEF OneMoves, read_step, write_step, unlock_step
  <2>2. /\ t \in ReadHolders' <=> t \in ReadHolders
        /\ t \in WriteHolders' <=> t \in WriteHolders
    BY <1>40 DEF downgrade_owner, Jump, Goto, set_owner, listvars, taskvars,
          wakevars, WriteHolders, ReadHolders, Granted, Queued, TaskTypes,
          Control, Calls, NoCall, ReadPc, WritePc, MarkPc, WaitPc
  <2> QED BY <2>1, <2>2, OneStays
<1>41. ASSUME NEW t \in Tasks, rwsem_wake(t, "wake", "RWSEM_WAKE_ANY", "idle")
       PROVE  Moves
  <2>1. Others(t)
    BY <1>41, OthersKept DEF OneMoves, read_step, write_step, unlock_step
  <2>2. /\ t \in ReadHolders' <=> t \in ReadHolders
        /\ t \in WriteHolders' <=> t \in WriteHolders
    BY <1>41 DEF rwsem_wake, Goto, MarkWake, lockvars, taskvars, WriteHolders,
          ReadHolders, Granted, Queued, TaskTypes,
          Control, Calls, NoCall, ReadPc, WritePc, MarkPc, WaitPc
  <2> QED BY <2>1, <2>2, OneStays
<1>42. ASSUME NEW t \in Tasks,
              rwsem_wake(t, "downgrade_wake", "RWSEM_WAKE_READ_OWNED", "read")
       PROVE  Moves
  <2>1. Others(t)
    BY <1>42, OthersKept DEF OneMoves, read_step, write_step, unlock_step
  <2>2. /\ t \in ReadHolders' <=> t \in ReadHolders
        /\ t \in WriteHolders' <=> t \in WriteHolders
    BY <1>42 DEF rwsem_wake, Goto, MarkWake, lockvars, taskvars, WriteHolders,
          ReadHolders, Granted, Queued, TaskTypes,
          Control, Calls, NoCall, ReadPc, WritePc, MarkPc, WaitPc
  <2> QED BY <2>1, <2>2, OneStays
<1>43. ASSUME NEW t \in Tasks, signal_wake_up(t) PROVE Moves
  <2>1. Others(t)
    BY <1>43, OthersKept DEF OneMoves, read_step, write_step, unlock_step
  <2>2. /\ t \in ReadHolders' <=> t \in ReadHolders
        /\ t \in WriteHolders' <=> t \in WriteHolders
    BY <1>43 DEF signal_wake_up, set_state, lockvars, listvars, wakevars,
          WriteHolders, ReadHolders, Granted, Queued, TaskTypes,
          Control, Calls, NoCall, ReadPc, WritePc, MarkPc, WaitPc
  <2> QED BY <2>1, <2>2, OneStays
<1> QED BY <1>0, <1>1, <1>2, <1>3, <1>4, <1>5, <1>6, <1>7, <1>8, <1>9, <1>10,
      <1>11, <1>11a, <1>12, <1>13, <1>14, <1>15, <1>16, <1>17, <1>18, <1>19,
      <1>20, <1>21, <1>22, <1>23, <1>24, <1>25, <1>26, <1>27, <1>28, <1>29,
      <1>30, <1>31, <1>32, <1>33, <1>33a, <1>34, <1>35, <1>36, <1>37, <1>38,
      <1>39, <1>40, <1>41, <1>42, <1>43 DEF Next, Start, Continue, mark_wake,
      read_step, write_step, unlock_step

\* With the invariant, every step moves the lock in one of the five ways.
LEMMA MovesInv == Inv /\ [Next]_vars => Moves
<1> SUFFICES ASSUME Inv, [Next]_vars PROVE Moves
  OBVIOUS
<1>1. Types /\ TaskTypes /\ Control /\ Listed /\ ReaderCount /\ Exclusion
  BY DEF Inv
<1> QED BY <1>1, HolderMoves

\* While HANDOFF is set the lock goes to the first waiter, or to waiting
\* readers if a reader is first: no fast path, no optimistic spinner and no
\* other waiter takes it.
THEOREM HandoffAlwaysRespected == Spec => HandoffRespected
<1> DEFINE Reserved == Handoff => \A t \in Holders' \ Holders :
                         /\ t \in Queued
                         /\ \/ t = rwsem_first_waiter
                            \/ ~IsWriter(t) /\ ~IsWriter(rwsem_first_waiter)
<1>1. Moves => Reserved
  <2> SUFFICES ASSUME Moves, NEW t \in Holders' \ Holders PROVE MayTake(t)
    BY DEF MayTake
  <2>1. /\ t \in ReadHolders' \cup WriteHolders'
        /\ t \notin ReadHolders \cup WriteHolders
    BY DEF Holders
  <2>2. CASE Stays
    BY <2>1, <2>2 DEF Stays
  <2>3. CASE ReadersGet
    BY <2>1, <2>3 DEF ReadersGet
  <2>4. CASE ReaderLeaves
    BY <2>1, <2>4 DEF ReaderLeaves
  <2>5. CASE WriterGets
    BY <2>1, <2>5 DEF WriterGets
  <2>6. CASE WriterLeaves
    BY <2>1, <2>6 DEF WriterLeaves
  <2> QED BY <2>2, <2>3, <2>4, <2>5, <2>6 DEF Moves
<1>2. Inv /\ [Next]_vars => [Reserved]_vars
  BY <1>1, MovesInv
<1> QED BY <1>2, InvHolds, PTL DEF Spec, HandoffRespected

\* rw_semaphore is a reader/writer lock: every step of it is a step of
\* RwLockSpec or changes nothing that the users of the lock can see.
THEOREM RwLockImplemented == Spec => ImplementsRwLock
<1>1. Init => Contract!Init
  <2> SUFFICES ASSUME Init PROVE Contract!Init
    OBVIOUS
  <2>1. ReadHolders = {} /\ WriteHolders = {}
    BY DEF Init, ReadHolders, WriteHolders, Granted, ReadPc, WritePc, WaitPc,
          NoCall
  <2> QED BY <2>1 DEF Contract!Init
<1>2. Moves => [Contract!Next]_(Contract!vars)
  <2>1. CASE Stays
    BY <2>1 DEF Stays, Contract!vars
  <2>2. CASE ReadersGet
    BY <2>2 DEF ReadersGet, Contract!Next, Contract!read_lock
  <2>3. CASE ReaderLeaves
    BY <2>3, HoldersAreTasks DEF ReaderLeaves, Contract!Next,
          Contract!read_unlock
  <2>4. CASE WriterGets
    BY <2>4 DEF WriterGets, Contract!Next, Contract!write_lock
  <2>5. CASE WriterLeaves
    <3>1. PICK t \in WriteHolders : /\ ReadHolders = {} /\ WriteHolders' = {}
                                    /\ ReadHolders' = {} \/ ReadHolders' = {t}
      BY <2>5 DEF WriterLeaves
    <3>2. t \in Tasks
      BY DEF WriteHolders
    <3>3. CASE ReadHolders' = {}
      BY <3>1, <3>2, <3>3 DEF Contract!Next, Contract!write_unlock
    <3>4. CASE ReadHolders' = {t}
      BY <3>1, <3>2, <3>4 DEF Contract!Next, Contract!downgrade
    <3> QED BY <3>1, <3>3, <3>4
  <2> QED BY <2>1, <2>2, <2>3, <2>4, <2>5 DEF Moves
<1>3. Inv /\ [Next]_vars => [Contract!Next]_(Contract!vars)
  BY <1>2, MovesInv
<1> QED BY <1>1, <1>3, InvHolds, PTL DEF Spec, ImplementsRwLock, Contract!Spec
=============================================================================
