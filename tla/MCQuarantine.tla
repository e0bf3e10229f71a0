----------------------------- MODULE MCQuarantine -----------------------------
(***************************************************************************)
(* TLC instance of Quarantine.  Volumes, operations and contents are used  *)
(* only through equality, so permuting them is a symmetry of Spec and of   *)
(* the (safety) properties checked.                                        *)
(***************************************************************************)
EXTENDS Quarantine, TLC

Symmetry == Permutations(Volume) \cup Permutations(Content) \cup Permutations(Op)
===============================================================================
