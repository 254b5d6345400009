----------------------------- MODULE RwLockSpec -----------------------------
(***************************************************************************)
(* What a sleeping reader/writer lock promises its users: any number of     *)
(* tasks read at the same time, a task that writes is alone.  The contract  *)
(* behind down_read(), down_write() and their siblings, which both          *)
(* rw_semaphore (kernel/locking/rwsem.c) and percpu_rw_semaphore            *)
(* (kernel/locking/percpu-rwsem.c) implement; only the first one can        *)
(* downgrade.                                                               *)
(***************************************************************************)
CONSTANT Tasks

VARIABLES
  readers,    \* the tasks that hold the lock for reading
  writers     \* the tasks that hold it for writing

vars == <<readers, writers>>

Init == readers = {} /\ writers = {}

\* The lock may be granted to several readers at once.
read_lock(ts) ==
  /\ writers = {}
  /\ readers' = readers \cup ts
  /\ UNCHANGED writers

read_unlock(t) ==
  /\ t \in readers
  /\ readers' = readers \ {t}
  /\ UNCHANGED writers

write_lock(t) ==
  /\ readers = {}
  /\ writers = {}
  /\ writers' = {t}
  /\ UNCHANGED readers

write_unlock(t) ==
  /\ t \in writers
  /\ writers' = {}
  /\ UNCHANGED readers

downgrade(t) ==
  /\ t \in writers
  /\ writers' = {}
  /\ readers' = {t}

Next ==
  \/ \E ts \in SUBSET Tasks : read_lock(ts)
  \/ \E t \in Tasks :
       \/ read_unlock(t) \/ write_lock(t) \/ write_unlock(t) \/ downgrade(t)

Spec == Init /\ [][Next]_vars
=============================================================================
