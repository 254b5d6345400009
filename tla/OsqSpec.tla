------------------------------ MODULE OsqSpec ------------------------------
(***************************************************************************)
(* What osq_lock() and osq_unlock() promise: every lock has a queue of the  *)
(* CPUs that want it, served in the order of arrival; the CPU at its head   *)
(* has the lock, and any CPU behind the head may give up.                   *)
(***************************************************************************)
EXTENDS Integers, Sequences, SequencesExt

CONSTANTS Cpus, Locks

VARIABLES
  queue,      \* the CPUs queued on each lock, the holder first
  phase       \* what each CPU has been told: "out", "trying" or "holding"

vars == <<queue, phase>>

Init ==
  /\ queue = [l \in Locks |-> <<>>]
  /\ phase = [c \in Cpus |-> "out"]

\* c joins the queue of l; it has the lock at once if nobody else wants it.
Enter(c, l) ==
  /\ phase[c] = "out"
  /\ queue' = [queue EXCEPT ![l] = Append(@, c)]
  /\ phase' = [phase EXCEPT ![c] = IF queue[l] = <<>> THEN "holding" ELSE "trying"]

\* The CPU at the head learns that it has the lock.
Acquire(c, l) ==
  /\ phase[c] = "trying"
  /\ queue[l] # <<>> /\ Head(queue[l]) = c
  /\ phase' = [phase EXCEPT ![c] = "holding"]
  /\ UNCHANGED queue

\* A CPU leaves the queue from anywhere but its head.
GiveUp(c, l) ==
  /\ phase[c] = "trying"
  /\ \E i \in 2 .. Len(queue[l]) :
       /\ queue[l][i] = c
       /\ queue' = [queue EXCEPT ![l] = RemoveAt(@, i)]
  /\ phase' = [phase EXCEPT ![c] = "out"]

Release(c, l) ==
  /\ phase[c] = "holding"
  /\ queue[l] # <<>> /\ Head(queue[l]) = c
  /\ queue' = [queue EXCEPT ![l] = Tail(@)]
  /\ phase' = [phase EXCEPT ![c] = "out"]

Next ==
  \E c \in Cpus, l \in Locks :
    Enter(c, l) \/ Acquire(c, l) \/ GiveUp(c, l) \/ Release(c, l)

Spec == Init /\ [][Next]_vars
=============================================================================
