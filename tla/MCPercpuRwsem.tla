--------------------------- MODULE MCPercpuRwsem ---------------------------
(***************************************************************************)
(* Instances of PercpuRwsem.                                                *)
(***************************************************************************)
EXTENDS PercpuRwsem, TLC

Symmetric == Permutations(Readers)
=============================================================================
