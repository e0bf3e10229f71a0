------------------------------- MODULE CopyPlan -------------------------------
(***************************************************************************)
(* Verified copy to a backup volume: build_copy_plan, _record_destination  *)
(* and execute_copy_plan of photovault/backup/copy.py.                     *)
(*                                                                         *)
(* The run interleaves with the user, who edits files on both volumes and  *)
(* unplugs them, and may die at any step.  Unlike a quarantine run it      *)
(* commits in the middle: register_source, called for every verified       *)
(* destination, commits whatever the connection has pending.               *)
(*                                                                         *)
(* Nothing in the run asks whether the backup volume is there: under the   *)
(* mount point of an unplugged one, mkdir and copy2 make directories and   *)
(* files of the disk below, which a plugged-in volume hides.               *)
(*                                                                         *)
(* Abstractions.  An asset is identified with the SHA-256 of its content.  *)
(* Every path has one catalog row per volume (the source_id column is left *)
(* out).  The two volumes are "main" (PRIMARY) and "back" (BACKUP).        *)
(***************************************************************************)
EXTENDS Reconcile

CONSTANTS
  Op,            \* ids of COPY operations
  Torn,          \* a partly written file: it has the hash of no asset
  None,          \* no plan under review, no item in hand
  MaxTouched,    \* bound: places the user edits
  MaxUnplugs,    \* bound: times a volume is unplugged
  MaxCrashes     \* bound: process deaths

ASSUME CopyPlanConstants ==
  /\ Torn \notin Content /\ Torn # Absent
  /\ None \notin Op /\ None \notin RelPath
  /\ MaxTouched \in Nat /\ MaxUnplugs \in Nat /\ MaxCrashes \in Nat

Vol   == {"main", "back"}
Place == Vol \X RelPath
FileState == Content \cup {Absent, Torn}

Verified == {"COPIED", "ALREADY_PRESENT"}
Result == Verified \cup {"PLANNED", "SOURCE_CHANGED", "CONFLICT", "FAILED",
                         "COPY_FAILED_VERIFICATION"}
Status == {"NONE", "PLANNED", "RUNNING", "COMPLETED", "PARTIAL", "FAILED"}
Row  == [asset: Content, result: Result]
Rows == UNION {[S -> Row] : S \in SUBSET RelPath}

VARIABLES
  file,      \* the files on both volumes
  shadow,    \* the files below the mount point of the backup volume
  mounted,   \* the volumes that are really there
  online,    \* the volumes whose catalog status is CONNECTED
  catalog,   \* asset_locations of both volumes
  rows,      \* operation_items: one row per planned path
  status,    \* operations.status
  history,   \* verification_history: the last entry for a planned path
  saved,     \* the committed catalog, rows, status and history
  reviewed,  \* the plan object held in memory for execution
  run,       \* the locals of execute_copy_plan
  late,      \* history: places edited since the item's destination was looked at
  touched,   \* history: places ever edited.  A destination whose volume comes
             \* back between look and copy counts as edited, in both.
  below,     \* history: destinations verified while their volume was unplugged
  unplugs,   \* history: times a volume was unplugged
  crashes    \* history: process deaths so far

db == <<catalog, rows, status, history>>
env == <<mounted, online, touched, unplugs, crashes>>
vars == <<file, shadow, db, saved, reviewed, run, late, below, env>>

NotRunning == [op |-> None, todo |-> {}, cur |-> None, phase |-> "idle", outcome |-> "PLANNED",
               verified |-> 0, failed |-> 0, conflicts |-> 0]

InMemory == [catalog |-> catalog, rows |-> rows, status |-> status, history |-> history]

(***************************************************************************)
(* Both volumes have been scanned.  A backup path without a file may have  *)
(* a row left over from a file that was there once.                        *)
(***************************************************************************)
Init ==
  /\ file \in [Place -> Content \cup {Absent}]
  /\ catalog \in {cat \in [Place -> [asset: Content \cup {Absent}, missing: BOOLEAN]] :
        \A p \in Place :
          IF file[p] # Absent THEN cat[p] = [asset |-> file[p], missing |-> FALSE]
          ELSE cat[p].missing /\ (p[1] = "main" => cat[p].asset = Absent)}
  /\ shadow = [r \in RelPath |-> Absent]
  /\ mounted = Vol
  /\ online = Vol
  /\ rows = [o \in Op |-> [r \in {} |-> None]]
  /\ status = [o \in Op |-> "NONE"]
  /\ history = [o \in Op |-> [r \in RelPath |-> "none"]]
  /\ saved = InMemory
  /\ reviewed = None
  /\ run = NotRunning
  /\ late = {}
  /\ touched = {}
  /\ below = {}
  /\ unplugs = 0
  /\ crashes = 0

-------------------------------------------------------------------------------
(***************************************************************************)
(* Planning: reconcile, and list the MAIN_ONLY rows.                       *)
(***************************************************************************)
ActiveSide(v) ==
  [r \in RelPath |-> IF catalog[<<v, r>>].missing THEN Absent ELSE catalog[<<v, r>>].asset]

NoWriter == saved = InMemory

BuildPlan(o, S) ==
  /\ NoWriter
  /\ status[o] = "NONE"
  /\ online = Vol
  /\ IsMainOnly(S, ActiveSide("main"), ActiveSide("back"))
  /\ rows' = [rows EXCEPT ![o] =
                [r \in S |-> [asset |-> catalog[<<"main", r>>].asset, result |-> "PLANNED"]]]
  /\ status' = [status EXCEPT ![o] = "PLANNED"]
  /\ saved' = [saved EXCEPT !.rows = rows', !.status = status']
  /\ reviewed' = o
  /\ UNCHANGED <<file, shadow, catalog, history, run, late, below, env>>

\* A volume that is not CONNECTED, or a locked catalog, refuses the plan.
RefusePlan ==
  /\ online # Vol \/ ~NoWriter
  /\ reviewed # None
  /\ reviewed' = None
  /\ UNCHANGED <<file, shadow, db, saved, run, late, below, env>>

\* The execute button is enabled for a plan with items and disabled once used.
StartExecute ==
  /\ run.phase = "idle"
  /\ reviewed # None
  /\ DOMAIN rows[reviewed] # {}
  /\ status' = [status EXCEPT ![reviewed] = "RUNNING"]
  /\ saved' = [saved EXCEPT !.status = status']
  /\ run' = [NotRunning EXCEPT !.op = reviewed, !.todo = DOMAIN rows[reviewed], !.phase = "next"]
  /\ reviewed' = None
  /\ UNCHANGED <<file, shadow, catalog, rows, history, late, below, env>>

-------------------------------------------------------------------------------
(***************************************************************************)
(* One item of a run.                                                      *)
(***************************************************************************)
Src == <<"main", run.cur>>
Dst == <<"back", run.cur>>
Expected == rows[run.op][run.cur].asset

\* What the program finds at a place.  Below the mount point of an unplugged
\* primary volume there is nothing; below that of the backup there may be what
\* a run has left there.
Seen(p) == IF p[1] \in mounted THEN file[p]
           ELSE IF p[1] = "back" THEN shadow[p[2]] ELSE Absent

Others == UNCHANGED <<reviewed, env>>

NextItem ==
  /\ run.phase = "next"
  /\ \E r \in run.todo :
       run' = [run EXCEPT !.todo = @ \ {r}, !.cur = r, !.phase = "source"]
  /\ late' = {}
  /\ UNCHANGED <<file, shadow, db, saved, below>> /\ Others

WithResult(table, o, r, result) == [table EXCEPT ![o][r].result = result]

\* An item that is not verified: write its result, count it, go on.
Reject(result) ==
  /\ rows' = WithResult(rows, run.op, run.cur, result)
  /\ run' = [run EXCEPT !.phase = "next",
               !.conflicts = IF result = "CONFLICT" THEN @ + 1 ELSE @,
               !.failed = IF result = "CONFLICT" THEN @ ELSE @ + 1]
  /\ UNCHANGED <<catalog, status, saved, below>>

Advance(phase) ==
  /\ run' = [run EXCEPT !.phase = phase]
  /\ UNCHANGED <<db, saved, below>>

\* A destination with the expected hash is counted before it is recorded.
Accept(outcome) ==
  /\ run' = [run EXCEPT !.phase = "stat", !.outcome = outcome, !.verified = @ + 1]
  /\ below' = IF "back" \in mounted THEN below ELSE below \cup {Dst}
  /\ UNCHANGED <<db, saved>>

\* A file that is there may still fail to open or to read, here and below.
HashSource ==
  /\ run.phase = "source"
  /\ \/ Reject("FAILED") /\ UNCHANGED history
     \/ Seen(Src) \notin {Absent, Expected} /\ Reject("SOURCE_CHANGED") /\ UNCHANGED history
     \/ Seen(Src) = Expected /\ Advance("destination")
  /\ UNCHANGED <<file, shadow, late>> /\ Others

\* Faulty variant: only an identical destination stops the copy.
LookForIdentical ==
  /\ run.phase = "destination"
  /\ IF Seen(Dst) = Expected THEN Accept("ALREADY_PRESENT") ELSE Advance("copy")
  /\ late' = {}
  /\ UNCHANGED <<file, shadow>> /\ Others

LookAtDestination ==
  /\ run.phase = "destination"
  /\ \/ Seen(Dst) = Expected /\ Accept("ALREADY_PRESENT")
     \/ Seen(Dst) \notin {Absent, Expected} /\ Reject("CONFLICT") /\ UNCHANGED history
     \/ Seen(Dst) # Absent /\ Reject("FAILED") /\ UNCHANGED history
     \/ Seen(Dst) = Absent /\ Advance("copy")
  /\ late' = {}
  /\ UNCHANGED <<file, shadow>> /\ Others

\* mkdir(parents) and copy2 open the destination for writing, whatever is there
\* now, on the volume or below its mount point.
CopyBegin ==
  /\ run.phase = "copy"
  /\ Seen(Src) # Absent
  /\ IF "back" \in mounted
     THEN file' = [file EXCEPT ![Dst] = Torn] /\ Advance("copying") /\ UNCHANGED shadow
     ELSE shadow' = [shadow EXCEPT ![run.cur] = Torn] /\ Advance("shadowing") /\ UNCHANGED file
  /\ UNCHANGED late /\ Others

\* A source rewritten under the copy may come out as anything.
Copied == IF Src \in late THEN Content \cup {Torn} ELSE {file[Src]}

\* The open destination stays where it was opened.
CopyEnd ==
  /\ run.phase \in {"copying", "shadowing"}
  /\ "main" \in mounted
  /\ \/ /\ run.phase = "copying" /\ "back" \in mounted
        /\ \E c \in Copied : file' = [file EXCEPT ![Dst] = c]
        /\ UNCHANGED shadow
     \/ /\ run.phase = "shadowing"
        /\ \E c \in Copied : shadow' = [shadow EXCEPT ![run.cur] = c]
        /\ UNCHANGED file
  /\ Advance("verify")
  /\ UNCHANGED late /\ Others

\* An OSError in mkdir or in the copy: a partial destination stays behind.
CopyFails ==
  /\ run.phase \in {"copy", "copying", "shadowing"}
  /\ Reject("FAILED")
  /\ UNCHANGED <<file, shadow, history, late>> /\ Others

Recorded(verdict) == history' = [history EXCEPT ![run.op][run.cur] = verdict]

\* Faulty variant: the destination is there, so the copy is good.
VerifyExists ==
  /\ run.phase = "verify"
  /\ \/ Reject("FAILED") /\ UNCHANGED history
     \/ Seen(Dst) # Absent /\ Accept("COPIED")
  /\ UNCHANGED <<file, shadow, late>> /\ Others

VerifyDestination ==
  /\ run.phase = "verify"
  /\ \/ Reject("FAILED") /\ UNCHANGED history
     \/ /\ Seen(Dst) \notin {Absent, Expected}
        /\ Reject("COPY_FAILED_VERIFICATION") /\ Recorded("FAILED")
     \/ Seen(Dst) = Expected /\ Accept("COPIED")
  /\ UNCHANGED <<file, shadow, late>> /\ Others

\* Faulty variant: the result is written before register_source commits.
StatAfterResult ==
  /\ run.phase = "stat"
  /\ Seen(Dst) # Absent
  /\ rows' = WithResult(rows, run.op, run.cur, run.outcome)
  /\ saved' = [InMemory EXCEPT !.rows = rows']
  /\ run' = [run EXCEPT !.phase = "record"]
  /\ UNCHANGED <<file, shadow, catalog, status, history, late, below>> /\ Others

\* _record_destination: stat the file, then register_source, which commits
\* the results of the items before this one.
StatAndRegister ==
  /\ run.phase = "stat"
  /\ \/ Reject("FAILED") /\ UNCHANGED history
     \/ /\ Seen(Dst) # Absent
        /\ saved' = InMemory
        /\ run' = [run EXCEPT !.phase = "record"]
        /\ UNCHANGED <<db, below>>
  /\ UNCHANGED <<file, shadow, late>> /\ Others

\* Faulty variant: the upsert leaves missing_since as it is.
RecordStillMissing ==
  /\ run.phase = "record"
  /\ catalog' = [catalog EXCEPT ![Dst].asset = Expected]
  /\ rows' = WithResult(rows, run.op, run.cur, run.outcome)
  /\ Recorded("VERIFIED")
  /\ run' = [run EXCEPT !.phase = "next"]
  /\ UNCHANGED <<file, shadow, status, saved, late, below>> /\ Others

\* The location, the result and the history entry are written together.
RecordDestination ==
  /\ run.phase = "record"
  /\ catalog' = [catalog EXCEPT ![Dst] = [asset |-> Expected, missing |-> FALSE]]
  /\ rows' = WithResult(rows, run.op, run.cur, run.outcome)
  /\ Recorded("VERIFIED")
  /\ run' = [run EXCEPT !.phase = "next"]
  /\ UNCHANGED <<file, shadow, status, saved, late, below>> /\ Others

\* Faulty variant: a status the schema does not know.
FinalStatusUnknown ==
  IF run.failed = 0 /\ run.conflicts = 0 THEN "COMPLETED" ELSE "CONFLICT"

FinalStatus ==
  IF run.failed = 0 /\ run.conflicts = 0 THEN "COMPLETED"
  ELSE IF run.verified = 0 THEN "FAILED" ELSE "PARTIAL"

Finish ==
  /\ run.phase = "next"
  /\ run.todo = {}
  /\ status' = [status EXCEPT ![run.op] = FinalStatus]
  /\ saved' = [InMemory EXCEPT !.status = status']
  /\ run' = NotRunning
  /\ late' = {}
  /\ UNCHANGED <<file, shadow, catalog, rows, history, below>> /\ Others

-------------------------------------------------------------------------------
(***************************************************************************)
(* The environment.                                                        *)
(***************************************************************************)
\* The process dies, or a database error leaves the loop.
Crash ==
  /\ crashes < MaxCrashes
  /\ crashes' = crashes + 1
  /\ catalog' = saved.catalog
  /\ rows' = saved.rows
  /\ status' = saved.status
  /\ history' = saved.history
  /\ run' = NotRunning
  /\ reviewed' = None
  /\ late' = {}
  /\ UNCHANGED <<file, shadow, saved, mounted, online, touched, below, unplugs>>

UserEdit(p, c) ==
  /\ p[1] \in mounted
  /\ file[p] # c
  /\ p \in touched \/ Cardinality(touched) < MaxTouched
  /\ file' = [file EXCEPT ![p] = c]
  /\ touched' = touched \cup {p}
  /\ late' = IF run.phase \in {"copy", "copying", "shadowing"} THEN late \cup {p} ELSE late
  /\ UNCHANGED <<shadow, db, saved, reviewed, run, mounted, online, below, unplugs, crashes>>

Unplug(v) ==
  /\ v \in mounted
  /\ unplugs < MaxUnplugs
  /\ unplugs' = unplugs + 1
  /\ mounted' = mounted \ {v}
  /\ UNCHANGED <<file, shadow, db, saved, reviewed, run, late, below, online, touched, crashes>>

PlugIn(v) ==
  /\ v \notin mounted
  /\ mounted' = mounted \cup {v}
  /\ LET unseen == IF run.phase = "copy" /\ v = "back" THEN {Dst} ELSE {} IN
       /\ late' = late \cup unseen
       /\ touched' = touched \cup unseen
  /\ UNCHANGED <<file, shadow, db, saved, reviewed, run, below, online, unplugs, crashes>>

\* refresh_volume_statuses: the catalog learns which volumes are there.
RefreshVolumes ==
  /\ NoWriter
  /\ online # mounted
  /\ online' = mounted
  /\ UNCHANGED <<file, shadow, db, saved, reviewed, run, late, below, mounted, touched, unplugs,
                 crashes>>

Worker == NextItem \/ HashSource \/ LookAtDestination \/ CopyBegin \/ CopyEnd \/ CopyFails
            \/ VerifyDestination \/ StatAndRegister \/ RecordDestination \/ Finish

Next ==
  \/ \E o \in Op, S \in SUBSET RelPath : BuildPlan(o, S)
  \/ RefusePlan
  \/ StartExecute
  \/ Worker
  \/ Crash
  \/ \E p \in Place, c \in Content \cup {Absent} : UserEdit(p, c)
  \/ \E v \in Vol : Unplug(v) \/ PlugIn(v)
  \/ RefreshVolumes

Spec == Init /\ [][Next]_vars

-------------------------------------------------------------------------------
(***************************************************************************)
(* Properties.                                                             *)
(***************************************************************************)
Run == [op: Op \cup {None}, todo: SUBSET RelPath, cur: RelPath \cup {None},
        phase: {"idle", "next", "source", "destination", "copy", "copying", "shadowing",
                "verify", "stat", "record"},
        outcome: Verified \cup {"PLANNED"}, verified: Nat, failed: Nat, conflicts: Nat]
Catalog == [Place -> [asset: Content \cup {Absent}, missing: BOOLEAN]]
History == [Op -> [RelPath -> {"none", "VERIFIED", "FAILED"}]]

\* The variables have their types; the committed database has the type of
\* the one the connection sees.
TypeOK ==
  /\ file \in [Place -> FileState]
  /\ shadow \in [RelPath -> FileState]
  /\ mounted \subseteq Vol /\ online \subseteq Vol
  /\ catalog \in Catalog
  /\ rows \in [Op -> Rows]
  /\ status \in [Op -> Status]
  /\ history \in History
  /\ saved \in [catalog: Catalog, rows: [Op -> Rows], status: [Op -> Status], history: History]
  /\ reviewed \in Op \cup {None}
  /\ run \in Run
  /\ late \subseteq Place /\ touched \subseteq Place /\ below \subseteq Place
  /\ unplugs \in Nat /\ crashes \in Nat

\* "Never overwrite a conflicting destination": no step of a run changes or
\* removes a file that has a content, source or destination, unless it came
\* into being, or its disk came back, after the run looked at the destination
\* and found nothing (the exists() of execute_copy_plan is not atomic with
\* copy2).
NothingOverwritten ==
  [][run' # run =>
       \A p \in Place \ late : file[p] \in Content => file'[p] = file[p]]_vars

\* "Never mark a copy verified from filename, path or size alone": a backup
\* path the catalog shows as active is on the backup volume and holds the asset
\* it is catalogued with, through failed copies, unreadable files, crashes and
\* disks unplugged at any step.  Two paths are excepted: one the user edited,
\* and one that was hashed while the backup was unplugged.  Nothing asks for the
\* volume, so the latter was copied, or found, below its mount point, and is
\* recorded as verified on a disk that lacks it.
BackupRowsAreReal ==
  \A r \in RelPath :
    LET p == <<"back", r>> IN
    p \notin touched \cup below /\ ~catalog[p].missing => file[p] = catalog[p].asset

\* A commit that makes a verified result durable makes its VERIFIED history
\* entry and the active location of the copy durable with it, although
\* register_source commits in the middle of an item: a crash at any step
\* leaves all three or none.
VerifiedIsAllOrNothing ==
  [][\A o \in Op : \A r \in DOMAIN saved'.rows[o] :
       /\ saved'.rows[o][r].result \in Verified
       /\ ~(r \in DOMAIN saved.rows[o] /\ saved.rows[o][r].result \in Verified)
       => /\ saved'.history[o][r] = "VERIFIED"
          /\ saved'.catalog[<<"back", r>>]
               = [asset |-> saved'.rows[o][r].asset, missing |-> FALSE]]_vars

\* What a COMPLETED plan copied, reconciliation does not list again.
CompletedIsReconciled ==
  \A o \in Op : status[o] = "COMPLETED" =>
    \A S \in SUBSET RelPath :
      IsMainOnly(S, ActiveSide("main"), ActiveSide("back")) => S \cap DOMAIN rows[o] = {}
===============================================================================
