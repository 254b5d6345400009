---------------------------- MODULE SpinLockSpec ----------------------------
(***************************************************************************)
(* What a kernel spinlock promises its users, whatever algorithm implements *)
(* it: between the acquisition of a lock by one execution context and its   *)
(* release, no other context acquires that lock; a context that asked for   *)
(* a lock either waits for it or holds it.  This is the contract behind     *)
(* arch_spin_lock(), arch_spin_trylock() and arch_spin_unlock()             *)
(* (include/asm-generic/qspinlock.h, lines 111-119), and the abstraction    *)
(* that the sleeping locks of this project use for their wait_lock.         *)
(***************************************************************************)
CONSTANTS
  Ctx,      \* the execution contexts that use spinlocks
  LOCKS,    \* the spinlocks
  NoLock    \* lock of a context that has asked for none

VARIABLES
  phase,    \* phase[c]: "idle", "waiting" for wanted[c], or "holding" it
  wanted    \* wanted[c]: the lock context c waits for or holds

vars == <<phase, wanted>>

Phases == {"idle", "waiting", "holding"}

Holders(l) == {c \in Ctx : phase[c] = "holding" /\ wanted[c] = l}

Init ==
  /\ phase = [c \in Ctx |-> "idle"]
  /\ wanted = [c \in Ctx |-> NoLock]

\* arch_spin_lock() begins.
Request(c, l) ==
  /\ phase[c] = "idle"
  /\ phase' = [phase EXCEPT ![c] = "waiting"]
  /\ wanted' = [wanted EXCEPT ![c] = l]

\* A waiting context is granted the lock.
Grant(c) ==
  /\ phase[c] = "waiting"
  /\ Holders(wanted[c]) = {}
  /\ phase' = [phase EXCEPT ![c] = "holding"]
  /\ UNCHANGED wanted

\* The uncontended arch_spin_lock(), and a successful arch_spin_trylock().
Take(c, l) ==
  /\ phase[c] = "idle"
  /\ Holders(l) = {}
  /\ phase' = [phase EXCEPT ![c] = "holding"]
  /\ wanted' = [wanted EXCEPT ![c] = l]

\* arch_spin_unlock().
Release(c) ==
  /\ phase[c] = "holding"
  /\ phase' = [phase EXCEPT ![c] = "idle"]
  /\ wanted' = [wanted EXCEPT ![c] = NoLock]

Next ==
  \E c \in Ctx :
    \/ Grant(c)
    \/ Release(c)
    \/ \E l \in LOCKS : Request(c, l) \/ Take(c, l)

Spec == Init /\ [][Next]_vars
=============================================================================
