------------------------------- MODULE MCServices -------------------------------
(***************************************************************************)
(* TLC instance of Services.  The two photos of the library are two days   *)
(* apart, so that they make one suggestion; users give a shorter range.    *)
(***************************************************************************)
EXTENDS Services

Days == [a \in {1, 2} |-> IF a = 1 THEN 1 ELSE 3]
UserRanges == {<<2, 3>>}
===============================================================================
