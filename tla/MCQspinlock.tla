--------------------------- MODULE MCQspinlock ---------------------------
(***************************************************************************)
(* Instances of Qspinlock: a lock A that only tasks take, and a lock B that *)
(* an interrupt takes too, so that an interrupt can queue for B on a CPU    *)
(* whose task is queued for A.                                              *)
(***************************************************************************)
EXTENDS Qspinlock

CONSTANTS A, B

LocksA == {A}
LevelA == [l \in LocksA |-> 1]
Tasks == CPUS \X {1}

LocksAB == {A, B}
LevelAB == [l \in LocksAB |-> IF l = A THEN 1 ELSE 2]
TasksAndIrqs == CPUS \X {1, 2}
TasksAndOneIrq == Tasks \cup {<<0, 2>>}
===========================================================================
