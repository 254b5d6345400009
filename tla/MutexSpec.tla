------------------------------ MODULE MutexSpec ------------------------------
(***************************************************************************)
(* What a kernel mutex promises its users: one task at a time holds it; a   *)
(* task that asked for it waits until it holds it, and gives up waiting     *)
(* only in a mode that signals may interrupt and only when such a signal is *)
(* pending (mutex_lock(), mutex_lock_interruptible(),                       *)
(* mutex_lock_killable(), mutex_trylock() and mutex_unlock() of             *)
(* kernel/locking/mutex.c).                                                 *)
(***************************************************************************)
CONSTANTS
  Tasks,                \* the tasks that use the mutex
  Modes,                \* the task states they may wait in
  Interrupts(_, _)      \* Interrupts(m, s): signal s ends a wait in mode m

VARIABLES
  phase,    \* phase[t]: "idle", "waiting" or "holding"
  mode,     \* mode[t]: the task state t waits in, "none" if it does not wait
  sig       \* sig[t]: the strongest signal pending for t

vars == <<phase, mode, sig>>

Holders == {t \in Tasks : phase[t] = "holding"}

Init ==
  /\ phase = [t \in Tasks |-> "idle"]
  /\ mode = [t \in Tasks |-> "none"]
  /\ sig = [t \in Tasks |-> "none"]

\* A lock operation finds the mutex contended.
Request(t, m) ==
  /\ phase[t] = "idle"
  /\ phase' = [phase EXCEPT ![t] = "waiting"]
  /\ mode' = [mode EXCEPT ![t] = m]
  /\ UNCHANGED sig

\* A waiting task becomes the holder; it returns 0 to its caller.
Grant(t) ==
  /\ phase[t] = "waiting"
  /\ Holders = {}
  /\ phase' = [phase EXCEPT ![t] = "holding"]
  /\ mode' = [mode EXCEPT ![t] = "none"]
  /\ sig' = [sig EXCEPT ![t] = "none"]

\* The uncontended lock operation, and a successful mutex_trylock().
Take(t) ==
  /\ phase[t] = "idle"
  /\ Holders = {}
  /\ phase' = [phase EXCEPT ![t] = "holding"]
  /\ UNCHANGED <<mode, sig>>

\* The wait is interrupted: -EINTR.
GiveUp(t) ==
  /\ phase[t] = "waiting"
  /\ Interrupts(mode[t], sig[t])
  /\ phase' = [phase EXCEPT ![t] = "idle"]
  /\ mode' = [mode EXCEPT ![t] = "none"]
  /\ sig' = [sig EXCEPT ![t] = "none"]

Release(t) ==
  /\ phase[t] = "holding"
  /\ phase' = [phase EXCEPT ![t] = "idle"]
  /\ UNCHANGED <<mode, sig>>

\* A signal arrives while t waits.
Signal(t, s) ==
  /\ phase[t] = "waiting"
  /\ sig' = [sig EXCEPT ![t] = s]
  /\ UNCHANGED <<phase, mode>>

Next ==
  \E t \in Tasks :
    \/ Grant(t) \/ Take(t) \/ GiveUp(t) \/ Release(t)
    \/ \E m \in Modes : Request(t, m)
    \/ \E s \in {"signal", "fatal"} : Signal(t, s)

Spec == Init /\ [][Next]_vars
=============================================================================
