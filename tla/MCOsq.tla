------------------------------- MODULE MCOsq -------------------------------
(***************************************************************************)
(* Instances of Osq.                                                        *)
(***************************************************************************)
EXTENDS Osq
============================================================================
