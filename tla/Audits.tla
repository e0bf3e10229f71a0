-------------------------------- MODULE Audits --------------------------------
(***************************************************************************)
(* The two audits a user consults before removing files, over the          *)
(* committed catalog that scans, copies and imports leave:                 *)
(* audit_backup_set of photovault/backup/audit.py and audit_folder of      *)
(* photovault/backup/folder_audit.py.  They read; the properties compare   *)
(* what they answer with what is on the disks.                             *)
(*                                                                         *)
(* Abstractions.  What is in the scope of the backup set and below the     *)
(* relative_root of its volume's member (the roots of two backup members   *)
(* differ) is a set of places; the folder is a set of paths of one volume. *)
(***************************************************************************)
EXTENDS Scanner

CONSTANTS
  Member,        \* the volumes of the backup set
  Primary,       \* its PRIMARY member
  InScope,       \* the places it has in scope
  Alike,         \* for each path of a folder, the paths of other folders that the
                 \* LIKE pattern of the audited folder takes for it: "_" and "%" in
                 \* its name are wildcards, and letters match in both cases
  Required       \* backup_sets.required_copies

ASSUME AuditsConstants ==
  /\ IsFiniteSet(Member) /\ Member \subseteq Volume /\ Primary \in Member
  /\ InScope \subseteq Place
  /\ Alike \in [Path -> SUBSET Path]
  /\ Required \in Nat \ {0}

Asset(pl, s) == saved.rows[pl][s].asset

\* Active locations, as pairs of a place and a source.
Locations == {l \in Place \X Source : l[2] \in Active(saved, l[1])}
LocationsOf(c) == {l \in Locations : Asset(l[1], l[2]) = c}

-------------------------------------------------------------------------------
(***************************************************************************)
(* audit_folder: the folder F of volume v.                                 *)
(***************************************************************************)
ActualPaths(v, F) == {p \in F : v \in mounted /\ Readable(<<v, p>>)}

\* The rows that may stand for a path of the folder: the pattern selects those of
\* folders with a like name too, and what follows the folder's name is the key.
Standing(v, p) == {l \in Locations : l[1][1] = v /\ l[1][2] \in {p} \cup Alike[p]}
Catalogued(v, F) == {p \in F : Standing(v, p) # {}}

\* Mutant: a row vouches for itself.
OthersAndItself(l) == LocationsOf(Asset(l[1], l[2]))

Others(l) == LocationsOf(Asset(l[1], l[2])) \ {l}
SameNameConflict(v, p, l) ==
  \E k \in Locations : k[1][1] # v /\ k[1][2] = p /\ Asset(k[1], k[2]) # Asset(l[1], l[2])

FolderStatus(v, p, l) ==
  CASE SameNameConflict(v, p, l) -> "CONFLICT"
    [] ~SameNameConflict(v, p, l) /\ \E k \in Others(l) : k[1][1] \in online
         -> "VERIFIED_ELSEWHERE"
    [] ~SameNameConflict(v, p, l) /\ \A k \in Others(l) : k[1][1] \notin online
         -> IF Others(l) = {} THEN "UNIQUE" ELSE "UNKNOWN_OFFLINE"

\* Of several rows for one path the last one read stands for it.
SafeCandidate(v, F) ==
  /\ ActualPaths(v, F) # {}
  /\ ActualPaths(v, F) \subseteq Catalogued(v, F)
  /\ \A p \in Catalogued(v, F) :
       \E l \in Standing(v, p) : FolderStatus(v, p, l) = "VERIFIED_ELSEWHERE"

-------------------------------------------------------------------------------
(***************************************************************************)
(* audit_backup_set.                                                       *)
(***************************************************************************)
\* The active locations of the members that are in scope.
Observed == {l \in Locations : l[1][1] \in Member /\ l[1] \in InScope}
Observations(c) == {l \in Observed : Asset(l[1], l[2]) = c}
Audited == {Asset(l[1], l[2]) : l \in Observed}

\* One relative path with one content on the primary volume and another elsewhere.
Conflicting(l, m) ==
  /\ l[1][1] = Primary /\ m[1][1] # Primary
  /\ l[1][2] = m[1][2] /\ Asset(l[1], l[2]) # Asset(m[1], m[2])

ConflictAssets ==
  {Asset(l[1], l[2]) : l \in {k \in Observed :
                                \E m \in Observed : Conflicting(k, m) \/ Conflicting(m, k)}}

\* Mutant: copies on one volume are counted apart.
KnownCopies(c) == {l \in Observations(c) : l[1][1] \in online}

KnownVolumes(c) == {l[1][1] : l \in Observations(c)} \cap online

AuditStatus(c) ==
  LET copies == Cardinality(KnownVolumes(c))
  IN  IF c \in ConflictAssets THEN "CONFLICT"
      ELSE IF ~(Member \subseteq online) THEN "OFFLINE_UNKNOWN"
      ELSE IF \A l \in Observations(c) : l[1][1] # Primary THEN "BACKUP_ONLY"
      ELSE IF copies >= 3 THEN "MULTI_COPY"
      ELSE IF copies >= Required THEN "VERIFIED_REDUNDANT"
      ELSE IF Member # {Primary} THEN "MISSING_BACKUP"
      ELSE "UNPROTECTED"

Protected(c) == AuditStatus(c) \in {"VERIFIED_REDUNDANT", "MULTI_COPY"}

-------------------------------------------------------------------------------
(***************************************************************************)
(* Properties.  The audits speak for the last scans: what they say is true *)
(* of volumes that have not changed since, and of statuses that are true.  *)
(***************************************************************************)
UpToDate(V) == V \subseteq settled /\ V \subseteq mounted /\ silent = {}

\* A folder that audit_folder calls a safe candidate can go: every file of it that
\* the program may read is somewhere outside it too.  The code excepts two kinds of
\* files, each in whatever company: one with the same content as another one of the
\* folder, since each vouches for the other; and one for which the row of another
\* folder may stand, since the folder's name is used as a LIKE pattern.
SafeFolderLosesNothing ==
  \A v \in Volume, F \in SUBSET Path :
    /\ \A p \in F : <<v, p>> \in Place
    /\ UpToDate(online \cup {v})
    /\ SafeCandidate(v, F)
    => \A p \in ActualPaths(v, F) :
         \/ \E q \in ActualPaths(v, F) \ {p} : file[<<v, q>>] = file[<<v, p>>]
         \/ \E l \in Standing(v, p) : l[1][2] # p
         \/ \E pl \in Place : /\ pl[1] \in mounted /\ file[pl] = file[<<v, p>>]
                              /\ ~(pl[1] = v /\ pl[2] \in F)

\* The members that hold a content in scope where the program may read it.
Disks(c) == {v \in Member : \E pl \in InScope : pl[1] = v /\ Readable(pl) /\ file[pl] = c}

\* What audit_backup_set calls protected is on the primary disk; what it calls
\* VERIFIED_REDUNDANT is on as many different disks as are required, what it
\* calls MULTI_COPY on three, and what it calls MISSING_BACKUP on too few.
AuditTellsTheTruth ==
  UpToDate(Member) =>
    \A c \in Audited :
      /\ Protected(c) => Primary \in Disks(c)
      /\ AuditStatus(c) = "VERIFIED_REDUNDANT" => Cardinality(Disks(c)) >= Required
      /\ AuditStatus(c) = "MULTI_COPY" => Cardinality(Disks(c)) >= 3
      /\ AuditStatus(c) = "MISSING_BACKUP" => Cardinality(Disks(c)) < Required
===============================================================================
