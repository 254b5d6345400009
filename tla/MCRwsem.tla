------------------------------ MODULE MCRwsem ------------------------------
(***************************************************************************)
(* Instances of Rwsem.                                                      *)
(***************************************************************************)
EXTENDS Rwsem, TLC

Symmetric == Permutations(Readers) \cup Permutations(Writers)
=============================================================================
