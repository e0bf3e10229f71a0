------------------------------ MODULE MCCatalogue ------------------------------
(***************************************************************************)
(* TLC instance of Catalogue: four files on three volumes, two of them on  *)
(* the primary one, and apart from them three entries read a page each.    *)
(* Their times are two moments of one day, one written with a "T", one     *)
(* moved forward by its source, and a text that is no date.                *)
(***************************************************************************)
EXTENDS Catalogue, TLC

CONSTANTS v1, v2, v3, p1, p2

UsedPlaces == {<<v1, p1>>, <<v1, p2>>, <<v2, p1>>, <<v3, p1>>}

OddPlaces == {<<v1, p1>>}

\* p2 lies in another folder, whose name the pattern of p1's folder matches.
LikeNames == [p \in {p1, p2} |-> IF p = p1 THEN {p2} ELSE {}]

CaptureTimes ==
  {[at |-> 3, t |-> FALSE, shift |-> 0], [at |-> 4, t |-> FALSE, shift |-> 0],
   [at |-> 4, t |-> TRUE, shift |-> 0], [at |-> 0, t |-> TRUE, shift |-> 0],
   [at |-> 3, t |-> FALSE, shift |-> 1]}

Symmetry == {p @@ q : p \in Permutations(Content), q \in Permutations({v2, v3})}
===============================================================================
