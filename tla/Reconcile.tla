------------------------------- MODULE Reconcile -------------------------------
(***************************************************************************)
(* The classification of photovault/backup/reconcile.py: two volumes are   *)
(* compared path by path, then the files that are left are matched by      *)
(* content, one to one.                                                    *)
(*                                                                         *)
(* A side is a function from relative paths to the content catalogued      *)
(* there as active, or Absent.                                             *)
(***************************************************************************)
EXTENDS Integers, FiniteSets

CONSTANTS
  RelPath,       \* relative paths in the scope of the backup set
  Content,       \* file contents, identified with their SHA-256
  Absent         \* nothing at a path

ASSUME ReconcileConstants == Absent \notin Content

Side == [RelPath -> Content \cup {Absent}]

Present(side) == {r \in RelPath : side[r] # Absent}

\* Same path on both sides: VERIFIED when the hashes agree, else CONFLICT.
SamePath(main, back) == Present(main) \cap Present(back)
PathVerified(main, back) == {r \in SamePath(main, back) : main[r] = back[r]}
PathConflict(main, back) == SamePath(main, back) \ PathVerified(main, back)

\* The paths of one content that the path comparison left over.
Left(side, other, c) == {r \in Present(side) \ Present(other) : side[r] = c}

\* Each left-over backup row is consumed by one main row of the same content.
Matched(main, back, c) ==
  LET m == Cardinality(Left(main, back, c))
      b == Cardinality(Left(back, main, c))
  IN  IF m <= b THEN m ELSE b

\* Which rows are consumed depends on the order SQLite returns them in, how
\* many does not: a possible MAIN_ONLY answer leaves out Matched rows of each
\* content.
IsMainOnly(S, main, back) ==
  /\ S \subseteq Present(main) \ Present(back)
  /\ \A c \in Content :
       Cardinality(S \cap Left(main, back, c))
         = Cardinality(Left(main, back, c)) - Matched(main, back, c)
===============================================================================
