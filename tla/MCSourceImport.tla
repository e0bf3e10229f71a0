---------------------------- MODULE MCSourceImport ----------------------------
(***************************************************************************)
(* TLC instances of SourceImport.                                          *)
(***************************************************************************)
EXTENDS SourceImport, TLC

CONSTANTS v1, v2

\* Two chunks, so that a partial can be empty, half and full; the second
\* version is the longer one.
Sizes == (v1 :> 1) @@ (v2 :> 2)

\* Versions that only their content tells apart.
SameSizes == (v1 :> 2) @@ (v2 :> 2)

Symmetry == Permutations(Item)
===============================================================================
