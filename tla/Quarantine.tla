------------------------------ MODULE Quarantine ------------------------------
(***************************************************************************)
(* Reversible quarantine: build_quarantine_plan, execute_quarantine_plan   *)
(* and undo_quarantine of photovault/backup/quarantine.py, run by the      *)
(* OperationWorker thread of the GUI or by the CLI.                        *)
(*                                                                         *)
(* Two stores change in separate steps: the file system, where every step  *)
(* is durable at once, and the SQLite catalog, whose changes are durable   *)
(* only when the run commits.  Between the two the process may stop        *)
(* (a crash, or a database error that leaves the loop), and the user may   *)
(* edit the files.                                                         *)
(*                                                                         *)
(* Abstractions.  An asset is identified with the SHA-256 of its content   *)
(* (exact_hashes is unique per asset), so Content stands for both.  A      *)
(* catalogued path is a <<volume, relative path>> pair, its quarantine     *)
(* path an <<operation, relative path>> pair: the destination directory is *)
(* named after the operation and does not mention the volume.              *)
(***************************************************************************)
EXTENDS Integers, Sequences, FiniteSets

CONSTANTS
  Volume,        \* registered volumes
  RelPath,       \* relative paths of media files on them
  Content,       \* file contents, and so assets
  Op,            \* ids of QUARANTINE operations
  Undo,          \* ids of UNDO_QUARANTINE operations
  Absent,        \* no file at a path, no catalog row for it
  Torn,          \* a partly written file: it has the hash of no asset
  None,          \* no plan under review
  MaxItems,      \* bound: paths listed in one plan
  MaxTouched,    \* bound: places the user edits behind the program's back
  MaxUnread,     \* bound: files in quarantine that cannot be read back
  MaxCrashes     \* bound: process deaths

ASSUME QuarantineConstants ==
  /\ Volume \cap Op = {}
  /\ Op \cap Undo = {}
  /\ None \notin Op \cup Undo
  /\ Absent \notin Content /\ Torn \notin Content /\ Absent # Torn
  /\ MaxItems \in Nat /\ MaxTouched \in Nat /\ MaxUnread \in Nat /\ MaxCrashes \in Nat

Loc   == Volume \X RelPath     \* original paths
QLoc  == Op \X RelPath         \* paths inside .PhotoVaultQuarantine
Place == Loc \cup QLoc
AnyOp == Op \cup Undo
FileState == Content \cup {Absent, Torn}

Result == {"PLANNED", "QUARANTINED", "SOURCE_CHANGED", "CONFLICT", "FAILED",
           "QUARANTINE_FAILED_VERIFICATION", "RESTORED", "ALREADY_RESTORED",
           "UNDO_FAILED_VERIFICATION"}
Status == {"NONE", "PLANNED", "RUNNING", "COMPLETED", "PARTIAL", "FAILED"}
Item == [asset: Content, loc: Loc, place: QLoc, result: Result]

VARIABLES
  file,      \* the file system: what is at every place
  catalog,   \* asset_locations: the asset catalogued at a path, and missing_since
  items,     \* operation_items of every operation, in id order
  status,    \* operations.status
  saved,     \* the committed version of catalog, items and status
  reviewed,  \* the plan object held in memory for execution
  run,       \* the run in progress: the locals of the loop
  late,      \* history: places edited since the current item was checked
  touched,   \* history: places the user ever edited
  unread,    \* history: files in quarantine whose rehash raised an error
  crashes    \* history: process deaths so far

vars == <<file, catalog, items, status, saved, reviewed, run, late, touched, unread, crashes>>
db == <<catalog, items, status>>

NotRunning == [kind |-> "idle", op |-> None, target |-> None, todo |-> {}, cur |-> 0,
               row |-> 0, phase |-> "idle", verified |-> 0, failed |-> 0, conflicts |-> 0]

InMemory == [catalog |-> catalog, items |-> items, status |-> status]

(***************************************************************************)
(* A freshly scanned catalog: every file on disk has an active row.        *)
(***************************************************************************)
Init ==
  /\ file \in {f \in [Place -> FileState] :
                 /\ \A l \in Loc : f[l] # Torn
                 /\ \A q \in QLoc : f[q] = Absent}
  /\ catalog = [l \in Loc |-> [asset |-> file[l], missing |-> FALSE]]
  /\ items = [o \in AnyOp |-> <<>>]
  /\ status = [o \in AnyOp |-> "NONE"]
  /\ saved = InMemory
  /\ reviewed = None
  /\ run = NotRunning
  /\ late = {}
  /\ touched = {}
  /\ unread = {}
  /\ crashes = 0

-------------------------------------------------------------------------------
(***************************************************************************)
(* Planning.  The plan lists the paths in the order, and as often, as the  *)
(* user gave them; the rows are committed before anything moves.  SQLite   *)
(* admits one writer, so planning waits while a run has uncommitted rows.  *)
(***************************************************************************)
Catalogued(l) == catalog[l].asset # Absent /\ ~catalog[l].missing

PlanRow(o, l) == [asset |-> catalog[l].asset, loc |-> l, place |-> <<o, l[2]>>,
                  result |-> "PLANNED"]

Listings == UNION {[1..n -> Loc] : n \in 1..MaxItems}

NoWriter == saved = InMemory

\* Faulty variant: the rows are inserted but not committed.
BuildPlanUncommitted(o, paths) ==
  /\ NoWriter
  /\ status[o] = "NONE"
  /\ \A i \in DOMAIN paths : Catalogued(paths[i])
  /\ items' = [items EXCEPT ![o] = [i \in DOMAIN paths |-> PlanRow(o, paths[i])]]
  /\ status' = [status EXCEPT ![o] = "PLANNED"]
  /\ reviewed' = o
  /\ UNCHANGED <<file, catalog, saved, run, late, touched, unread, crashes>>

BuildPlan(o, paths) ==
  /\ NoWriter
  /\ status[o] = "NONE"
  /\ \A i \in DOMAIN paths : Catalogued(paths[i])
  /\ items' = [items EXCEPT ![o] = [i \in DOMAIN paths |-> PlanRow(o, paths[i])]]
  /\ status' = [status EXCEPT ![o] = "PLANNED"]
  /\ saved' = [saved EXCEPT !.items = items', !.status = status']
  /\ reviewed' = o
  /\ UNCHANGED <<file, catalog, run, late, touched, unread, crashes>>

\* A path that is not an active catalogued asset refuses the whole plan, and so
\* does the write lock of a run ("database is locked").
RefusePlan(paths) ==
  /\ ~NoWriter \/ \E i \in DOMAIN paths : ~Catalogued(paths[i])
  /\ reviewed # None
  /\ reviewed' = None
  /\ UNCHANGED <<file, db, saved, run, late, touched, unread, crashes>>

-------------------------------------------------------------------------------
(***************************************************************************)
(* Starting a run.  The execute button is disabled once its plan is        *)
(* started, so a plan runs at most once; execution commits RUNNING before  *)
(* the first item, undo commits nothing before its end.                    *)
(***************************************************************************)
StartExecute ==
  /\ run.kind = "idle"
  /\ reviewed # None
  /\ status' = [status EXCEPT ![reviewed] = "RUNNING"]
  /\ saved' = [saved EXCEPT !.status = status']
  /\ run' = [NotRunning EXCEPT !.kind = "quarantine", !.op = reviewed, !.target = reviewed,
               !.todo = DOMAIN items[reviewed], !.phase = "next"]
  /\ reviewed' = None
  /\ UNCHANGED <<file, catalog, items, late, touched, unread, crashes>>

StartUndo(o, u) ==
  /\ run.kind = "idle"
  /\ status[o] # "NONE"
  /\ status[u] = "NONE"
  /\ status' = [status EXCEPT ![u] = "RUNNING"]
  /\ run' = [NotRunning EXCEPT !.kind = "undo", !.op = o, !.target = u,
               !.todo = {i \in DOMAIN items[o] : items[o][i].result = "QUARANTINED"},
               !.phase = "next"]
  /\ UNCHANGED <<file, catalog, items, saved, reviewed, late, touched, unread, crashes>>

-------------------------------------------------------------------------------
(***************************************************************************)
(* One item of a run.                                                      *)
(***************************************************************************)
Current == items[run.op][run.cur]
From == IF run.kind = "undo" THEN Current.place ELSE Current.loc
To   == IF run.kind = "undo" THEN Current.loc ELSE Current.place

SameRow(o, i, j) ==
  /\ items[o][i].asset = items[o][j].asset
  /\ items[o][i].place = items[o][j].place

\* The row an item of plan o reports to: the first with its asset and destination.
FirstRow(o, i, r) ==
  /\ SameRow(o, i, r)
  /\ \A j \in DOMAIN items[o] : SameRow(o, i, j) => r <= j

\* Rows are taken in id order; undo inserts a row of its own for each.
NextItem ==
  /\ run.phase = "next"
  /\ \E i \in run.todo :
       /\ \A j \in run.todo : i <= j
       /\ IF run.kind = "undo"
          THEN /\ items' = [items EXCEPT ![run.target] =
                              Append(@, [items[run.op][i] EXCEPT !.result = "PLANNED"])]
               /\ run' = [run EXCEPT !.todo = @ \ {i}, !.cur = i, !.phase = "check",
                                     !.row = Len(items[run.target]) + 1]
          ELSE /\ items' = items
               /\ \E r \in DOMAIN items[run.op] :
                    /\ FirstRow(run.op, i, r)
                    /\ run' = [run EXCEPT !.todo = @ \ {i}, !.cur = i, !.phase = "check",
                                          !.row = r]
  /\ late' = {}
  /\ UNCHANGED <<file, catalog, status, saved, reviewed, touched, unread, crashes>>

\* UPDATE operation_items SET result=... WHERE id=...
WithResult(journal, o, r, result) == [journal EXCEPT ![o][r].result = result]

\* Write the result, count it, and go on to the next item.
Settle(result) ==
  /\ items' = WithResult(items, run.target, run.row, result)
  /\ run' = [run EXCEPT
       !.phase = "next",
       !.verified = @ + (IF result \in {"QUARANTINED", "RESTORED", "ALREADY_RESTORED"} THEN 1 ELSE 0),
       !.conflicts = @ + (IF result = "CONFLICT" THEN 1 ELSE 0),
       !.failed = @ + (IF result \in {"SOURCE_CHANGED", "FAILED", "QUARANTINE_FAILED_VERIFICATION",
                                      "UNDO_FAILED_VERIFICATION"} THEN 1 ELSE 0)]

\* Faulty variant: the catalog forgets that the file was moved away.
SetMissingNever(flag) == catalog' = catalog

\* Faulty variant: undo leaves the row marked missing.
SetMissingOneWay(flag) ==
  catalog' = [catalog EXCEPT ![Current.loc].missing = @ \/ flag]

SetMissing(flag) ==
  catalog' = [catalog EXCEPT ![Current.loc].missing = flag]

Advance(phase) ==
  /\ run' = [run EXCEPT !.phase = phase]
  /\ UNCHANGED db

Others == UNCHANGED <<status, saved, reviewed, touched, crashes>>

\* Faulty variant: the destination is not looked at.
CheckSourceOnly ==
  /\ run.phase = "check"
  /\ \/ /\ file[From] # Current.asset
        /\ Settle("SOURCE_CHANGED") /\ UNCHANGED catalog
     \/ /\ file[From] = Current.asset
        /\ Advance("move")
  /\ late' = {}
  /\ UNCHANGED <<file, unread>> /\ Others

\* Rehash the source, look at the destination; a file that is not there or
\* cannot be read raises an error.
CheckItem ==
  /\ run.phase = "check"
  /\ \/ Settle("FAILED") /\ UNCHANGED catalog
     \/ /\ file[From] \notin {Absent, Current.asset}
        /\ Settle("SOURCE_CHANGED") /\ UNCHANGED catalog
     \/ /\ file[From] = Current.asset
        /\ file[To] # Absent
        /\ IF run.kind = "undo" /\ file[To] = Current.asset
           THEN Settle("ALREADY_RESTORED") /\ SetMissing(FALSE)
           ELSE Settle("CONFLICT") /\ UNCHANGED catalog
     \/ /\ file[From] = Current.asset
        /\ file[To] = Absent
        /\ Advance("move")
  /\ late' = {}
  /\ UNCHANGED <<file, unread>> /\ Others

\* shutil.move on one file system: a rename, which replaces what is at To.
Rename ==
  /\ run.phase = "move"
  /\ file[From] # Absent
  /\ file' = [file EXCEPT ![To] = file[From], ![From] = Absent]
  /\ Advance("verify")
  /\ UNCHANGED <<late, unread>> /\ Others

\* Across file systems: copy2, then unlink.
CopyBegin ==
  /\ run.phase = "move"
  /\ file[From] # Absent
  /\ file' = [file EXCEPT ![To] = Torn]
  /\ Advance("copying")
  /\ UNCHANGED <<late, unread>> /\ Others

\* A source rewritten under the copy may come out as anything.
CopyEnd ==
  /\ run.phase = "copying"
  /\ \E c \in IF From \in late THEN Content \cup {Torn} ELSE {file[From]} :
       file' = [file EXCEPT ![To] = c]
  /\ Advance("unlink")
  /\ UNCHANGED <<late, unread>> /\ Others

Unlink ==
  /\ run.phase = "unlink"
  /\ file[From] # Absent
  /\ file' = [file EXCEPT ![From] = Absent]
  /\ Advance("verify")
  /\ UNCHANGED <<late, unread>> /\ Others

\* An OSError anywhere in the move: whatever is on disk stays as it is.
MoveFails ==
  /\ run.phase \in {"move", "copying", "unlink"}
  /\ Settle("FAILED")
  /\ UNCHANGED <<file, catalog, late, unread>> /\ Others

\* Faulty variant: the path that is rehashed after the move is the source.
VerifySource ==
  /\ run.phase = "verify"
  /\ Settle(IF file[From] = Current.asset THEN "QUARANTINED" ELSE "FAILED")
  /\ UNCHANGED <<file, catalog, late, unread>> /\ Others

\* Rehash the destination and record the outcome.  The rehash is inside the
\* try: an error reading the file just moved is FAILED too, and leaves the file
\* where it was moved and its catalog row as it was.
Unreadable ==
  \/ file[To] = Absent /\ UNCHANGED unread
  \/ run.kind = "undo" /\ UNCHANGED unread
  \/ /\ run.kind = "quarantine"
     /\ To \in unread \/ Cardinality(unread) < MaxUnread
     /\ unread' = unread \cup {To}

VerifyItem ==
  /\ run.phase = "verify"
  /\ \/ /\ Unreadable
        /\ Settle("FAILED") /\ UNCHANGED catalog
     \/ /\ file[To] \notin {Absent, Current.asset}
        /\ Settle(IF run.kind = "undo" THEN "UNDO_FAILED_VERIFICATION"
                                       ELSE "QUARANTINE_FAILED_VERIFICATION")
        /\ UNCHANGED <<catalog, unread>>
     \/ /\ file[To] = Current.asset
        /\ Settle(IF run.kind = "undo" THEN "RESTORED" ELSE "QUARANTINED")
        /\ SetMissing(run.kind = "quarantine")
        /\ UNCHANGED unread
  /\ UNCHANGED <<file, late>> /\ Others

\* Faulty variant: a status the schema does not know.
FinalStatusUnknown ==
  IF run.failed = 0 /\ run.conflicts = 0 THEN "COMPLETED" ELSE "CONFLICT"

FinalStatus ==
  IF run.failed = 0 /\ run.conflicts = 0 THEN "COMPLETED"
  ELSE IF run.verified = 0 THEN "FAILED" ELSE "PARTIAL"

\* The one commit that makes the results of the run durable.
Finish ==
  /\ run.phase = "next"
  /\ run.todo = {}
  /\ status' = [status EXCEPT ![run.target] = FinalStatus]
  /\ saved' = [catalog |-> catalog, items |-> items, status |-> status']
  /\ run' = NotRunning
  /\ late' = {}
  /\ UNCHANGED <<file, catalog, items, reviewed, touched, unread, crashes>>

-------------------------------------------------------------------------------
(***************************************************************************)
(* The environment.                                                        *)
(***************************************************************************)
\* The process dies, or a database error leaves the loop: the transaction is
\* rolled back, the files stay where the last step left them.
Crash ==
  /\ crashes < MaxCrashes
  /\ crashes' = crashes + 1
  /\ catalog' = saved.catalog
  /\ items' = saved.items
  /\ status' = saved.status
  /\ run' = NotRunning
  /\ reviewed' = None
  /\ late' = {}
  /\ UNCHANGED <<file, saved, touched, unread>>

\* The user saves or deletes a file, quarantined or not.
UserEdit(p, c) ==
  /\ file[p] # c
  /\ p \in touched \/ Cardinality(touched) < MaxTouched
  /\ file' = [file EXCEPT ![p] = c]
  /\ touched' = touched \cup {p}
  /\ late' = IF run.phase \in {"move", "copying", "unlink", "verify"} THEN late \cup {p} ELSE late
  /\ UNCHANGED <<db, saved, reviewed, run, unread, crashes>>

Worker == NextItem \/ CheckItem \/ Rename \/ CopyBegin \/ CopyEnd \/ Unlink \/ MoveFails
            \/ VerifyItem \/ Finish

Next ==
  \/ \E o \in Op, paths \in Listings : BuildPlan(o, paths)
  \/ \E paths \in Listings : RefusePlan(paths)
  \/ StartExecute
  \/ \E o \in Op, u \in Undo : StartUndo(o, u)
  \/ Worker
  \/ Crash
  \/ \E p \in Place, c \in Content \cup {Absent} : UserEdit(p, c)

Spec == Init /\ [][Next]_vars

-------------------------------------------------------------------------------
(***************************************************************************)
(* Properties.                                                             *)
(***************************************************************************)
Run == [kind: {"idle", "quarantine", "undo"}, op: Op \cup {None}, target: AnyOp \cup {None},
        todo: SUBSET Nat, cur: Nat, row: Nat,
        phase: {"idle", "next", "check", "move", "copying", "unlink", "verify"},
        verified: Nat, failed: Nat, conflicts: Nat]
Catalog == [Loc -> [asset: Content \cup {Absent}, missing: BOOLEAN]]
Journal == [AnyOp -> Seq(Item)]

\* The variables have their types; the committed database has the type of
\* the one the connection sees.
TypeOK ==
  /\ file \in [Place -> FileState]
  /\ catalog \in Catalog
  /\ items \in Journal
  /\ status \in [AnyOp -> Status]
  /\ saved \in [catalog: Catalog, items: Journal, status: [AnyOp -> Status]]
  /\ reviewed \in Op \cup {None}
  /\ run \in Run
  /\ late \subseteq Place
  /\ touched \subseteq Place
  /\ unread \subseteq QLoc
  /\ crashes \in Nat

\* No step of a run, in either direction and over either kind of move, makes
\* the last copy of a content disappear, unless somebody edited a file between
\* the item's checks and its move (the rehash and the exists() of
\* execute_quarantine_plan and undo_quarantine are not atomic with the move).
NothingLost ==
  [][run' # run /\ late = {} =>
       \A p \in Place : file[p] \in Content => \E q \in Place : file'[q] = file[p]]_vars

\* Write-ahead: whatever the program left in the quarantine directory, before
\* or after a crash, is named by a committed row of an operation that the
\* journal no longer shows as merely PLANNED.
VaultIsJournalled ==
  \A q \in QLoc \ touched : file[q] # Absent =>
    /\ \E i \in DOMAIN saved.items[q[1]] : saved.items[q[1]][i].place = q
    /\ saved.status[q[1]] \notin {"NONE", "PLANNED"}

\* Nobody edited a file that row i of operation o, or a row that shares its
\* destination, is about.
Untouched(o, i) ==
  \A j \in DOMAIN items[o] : items[o][j].place = items[o][i].place =>
    {items[o][j].loc, items[o][j].place} \cap touched = {}
Finished(o) == status[o] \in {"COMPLETED", "PARTIAL", "FAILED"}

\* No two rows of the operation have the same asset and destination.
Unambiguous(o) ==
  \A i, j \in DOMAIN items[o] : SameRow(o, i, j) => i = j

\* Row i is about a file that now exists only in quarantine.
OnlyInQuarantine(o, i) ==
  LET it == items[o][i] IN
  Untouched(o, i) /\ file[it.place] = it.asset /\ file[it.loc] # it.asset

\* undo_quarantine takes up the rows with the result QUARANTINED.
TakenByUndo(o, i) ==
  \E j \in DOMAIN items[o] : /\ items[o][j].place = items[o][i].place
                            /\ items[o][j].result = "QUARANTINED"

Undoable(o) ==
  \A i \in DOMAIN items[o] : OnlyInQuarantine(o, i) => TakenByUndo(o, i)

\* When an operation whose rows are distinguishable finishes, every file it
\* moved and did not leave behind is recorded so that undo takes it up.  The
\* one exception is a file that could not be read back: undo will not take it
\* up, and its row says FAILED, never PLANNED or that nothing was moved.
FinishedIsUndoable ==
  [][\A o \in Op : ~Finished(o) /\ Finished(o)' /\ Unambiguous(o) =>
       \A i \in DOMAIN items[o] : OnlyInQuarantine(o, i) =>
         \/ TakenByUndo(o, i)
         \/ items[o][i].place \in unread /\ items[o][i].result = "FAILED"]_vars

\* Between runs an active catalog row names a file that is there, unless an
\* operation interrupted on that path is still shown as RUNNING, or an operation
\* moved the file away and could not read it back: such a row stays active.
ActiveRowsExist ==
  run.kind = "idle" =>
    \A l \in Loc :
      \/ ~Catalogued(l)
      \/ file[l] = catalog[l].asset
      \/ l \in touched
      \/ \E o \in Op : \E i \in DOMAIN items[o] :
           /\ items[o][i].loc = l
           /\ status[o] = "RUNNING" \/ items[o][i].place \in touched \cup unread

\* An undo that reports COMPLETED has put every quarantined file of the
\* operation back at its original path and made its catalog row active.
UndoRestores ==
  [][\A u \in Undo : status'[u] = "COMPLETED" /\ status[u] = "RUNNING" =>
       \A i \in DOMAIN items[run.op] :
         LET it == items[run.op][i] IN
         it.result = "QUARANTINED" /\ Untouched(run.op, i) =>
           file[it.loc] = it.asset /\ ~saved'.catalog[it.loc].missing]_vars

\* "This is reversible with undo-quarantine" (the confirmation dialog), for
\* every finished operation.
QuarantineIsReversible ==
  \A o \in Op : Finished(o) => Undoable(o)

\* "Interrupted or partial operations remain in the operation journal with
\* per-item results": after an interruption no file has moved without a result.
InterruptedHasResults ==
  run.kind = "idle" =>
    \A o \in Op : status[o] = "RUNNING" =>
      \A i \in DOMAIN items[o] :
        LET it == items[o][i] IN
        Untouched(o, i) /\ file[it.place] = it.asset /\ file[it.loc] = Absent
          => it.result # "PLANNED"
===============================================================================
