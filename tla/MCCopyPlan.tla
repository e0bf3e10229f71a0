------------------------------ MODULE MCCopyPlan ------------------------------
(***************************************************************************)
(* TLC instance of CopyPlan.  Paths, contents and operations are used only *)
(* through equality.                                                       *)
(***************************************************************************)
EXTENDS CopyPlan, TLC

Symmetry == Permutations(RelPath) \cup Permutations(Content) \cup Permutations(Op)
===============================================================================
