-------------------------------- MODULE Scanner --------------------------------
(***************************************************************************)
(* The scanner of photovault/catalog/scanner.py: it walks a volume, takes  *)
(* the hash of every file (or the one the catalog has, while size and      *)
(* modification time agree), moves rows to the asset of that hash, deletes *)
(* assets nobody refers to, and marks the rows it did not see as missing.  *)
(*                                                                         *)
(* A scan is one transaction, from the row of its session to its last      *)
(* commit: other writers of the catalog wait for it, the user's programs   *)
(* and the disks do not.                                                   *)
(*                                                                         *)
(* Abstractions.  An asset is identified with the SHA-256 of its content,  *)
(* size and time of a file with a stamp that every change of the file      *)
(* renews, except the ones of SilentEdit.  "scan_session_id is the current *)
(* session" is membership in run.seen.  A row has one of three sources:    *)
(* the folder itself, a phone it was imported from, or none ("null", rows  *)
(* older than the column).  Assets that were never hashed (catalogs of     *)
(* schema version 1) and thumbnails are left out.  A copy or an import is  *)
(* the hash it takes of a file and, later, the row it writes of it.        *)
(***************************************************************************)
EXTENDS Integers, FiniteSets

CONSTANTS
  Volume,        \* registered volumes
  Path,          \* relative paths of media files; the filename is the path
  Place,         \* the paths in use, as pairs of a volume and a path
  Content,       \* file contents, identified with their SHA-256
  Absent,        \* no file
  None,          \* no row, no path in hand
  Busy,          \* bound: the volumes that are scanned, written to and edited
  MaxRuns,       \* bound: scans, copies and imports started
  MaxEvents,     \* bound: edits, unpluggings, changes of access
  Odd            \* bound: the places that may start with a row that no scan of theirs
                 \* wrote, or with the row of a file that is gone

Source == {"folder", "phone", "null"}
\* The stamp of a file that is not on the volume: it was copied to, and found,
\* below the mount point of a volume that was away.
Elsewhere == -1

Row  == [asset: Content, stamp: Nat \cup {Elsewhere}, missing: BOOLEAN]
Hash == [place: Place, source: {"folder", "phone"}, asset: Content, below: BOOLEAN]

ASSUME ScannerConstants ==
  /\ Place \subseteq Volume \X Path
  /\ Absent \notin Content
  /\ None \notin Path \cup Content \cup Volume \cup Source \cup Row \cup Hash
  /\ {MaxRuns, MaxEvents} \subseteq Nat
  /\ Busy \subseteq Volume /\ Odd \subseteq Place

VARIABLES
  file,      \* the files on the volumes
  stamp,     \* size and modification time of each place
  mounted,   \* the volumes that are really there
  barred,    \* the places below a directory that the program may not read
  online,    \* the volumes whose catalog status is CONNECTED
  catalog,   \* asset_locations (rows), assets with their exact_hashes, and the
             \* assets that verification_history and the user's notes refer to
  saved,     \* the committed catalog
  run,       \* the locals of scan_volume
  held,      \* a hash that a copy or an import has taken and not yet recorded
  outcome,   \* scan_sessions.status of the last scan of each volume
  settled,   \* history: volumes unchanged since the start of a scan without errors
  silent,    \* history: places changed under the same size and time, or between
             \* the hash and the look at size and time of a copy or an import
  used       \* counters of the bounds

vars == <<file, stamp, mounted, barred, online, catalog, saved, run, held, outcome, settled,
          silent, used>>

NotRunning == [phase |-> "idle", vol |-> None, todo |-> {}, cur |-> None, stat |-> 0,
               seen |-> {}, errors |-> 0, calm |-> TRUE]

Rows(cat, pl)   == {s \in Source : cat.rows[pl][s] # None}
Active(cat, pl) == {s \in Rows(cat, pl) : ~cat.rows[pl][s].missing}
RowAssets(rows) == UNION {{rows[pl][s].asset : s \in {t \in Source : rows[pl][t] # None}} :
                            pl \in Place}

(***************************************************************************)
(* A catalog that agrees with the volumes, with one row per file, of any   *)
(* source; rows of files that are gone may remain.  Some assets have been  *)
(* verified by a copy or an import, some carry notes of the user.          *)
(***************************************************************************)
Init ==
  /\ file \in [Place -> Content \cup {Absent}]
  /\ stamp = [pl \in Place |-> 0]
  /\ \E src \in [Place -> Source], old \in [Place -> Content \cup {None}] :
       LET RowOf(pl) == IF file[pl] # Absent
                          THEN [asset |-> file[pl], stamp |-> 0, missing |-> FALSE]
                          ELSE IF old[pl] = None THEN None
                               ELSE [asset |-> old[pl], stamp |-> 0, missing |-> TRUE]
           rows == [pl \in Place |-> [s \in Source |-> IF s = src[pl] THEN RowOf(pl) ELSE None]]
       IN  /\ \A pl \in Place : file[pl] # Absent => old[pl] = None
           /\ \A pl \in Place : RowOf(pl) = None => src[pl] = "folder"
           /\ \A pl \in Place \ Odd : src[pl] = "folder" /\ old[pl] = None
           /\ \E history \in {{}, RowAssets(rows)} :
                catalog = [rows |-> rows, assets |-> RowAssets(rows),
                           history |-> history, noted |-> RowAssets(rows)]
  /\ mounted = Volume
  /\ barred = {}
  /\ online = Volume
  /\ saved = catalog
  /\ run = NotRunning
  /\ held = None
  /\ outcome = [v \in Volume |-> "COMPLETED"]
  /\ settled = Volume
  /\ silent = {}
  /\ used = [runs |-> 0, events |-> 0]

-------------------------------------------------------------------------------
(***************************************************************************)
(* scan_volume.                                                            *)
(***************************************************************************)
\* register_source commits; the insertion of the session opens the transaction.
StartScan(v) ==
  /\ v \in Busy
  /\ run.phase = "idle"
  /\ used.runs < MaxRuns
  /\ run' = [NotRunning EXCEPT !.phase = "walk", !.vol = v,
                               !.todo = {p \in Path : <<v, p>> \in Place},
                               !.calm = (v \in mounted)]
  /\ used' = [used EXCEPT !.runs = @ + 1]
  /\ UNCHANGED <<file, stamp, mounted, barred, online, catalog, saved, held, outcome, settled,
                 silent>>

Here(p) == <<run.vol, p>>
Readable(pl) == file[pl] # Absent /\ pl \notin barred
Visible(p) == run.vol \in mounted /\ Readable(Here(p))

Scanning == UNCHANGED <<file, stamp, mounted, barred, held, silent, used>>

\* iter_media does not yield what is not there (any more) when it gets to it, and
\* passes over a directory it may not read without a word.
SkipPath ==
  /\ run.phase = "walk"
  /\ \E p \in run.todo :
       /\ ~Visible(p)
       /\ run' = [run EXCEPT !.todo = @ \ {p}]
  /\ UNCHANGED <<online, catalog, saved, outcome, settled>> /\ Scanning

StatFile ==
  /\ run.phase = "walk"
  /\ \E p \in run.todo :
       /\ Visible(p)
       /\ run' = [run EXCEPT !.todo = @ \ {p}, !.cur = p, !.stat = stamp[Here(p)],
                             !.phase = "hash"]
  /\ UNCHANGED <<online, catalog, saved, outcome, settled>> /\ Scanning

\* The row the scanner continues: one of a phone before the folder's own.
ExistingRow(pl) ==
  IF catalog.rows[pl]["phone"] # None THEN {"phone"} ELSE Rows(catalog, pl)

\* Mutant: the cached hash is taken whatever size and time say.
CachedAlways(pl, s) == s # None

\* The hash of the file, or the cached one while size and time agree.
Cached(pl, s) == s # None /\ catalog.rows[pl][s].stamp = run.stat
Digest(pl, s) == IF Cached(pl, s) THEN catalog.rows[pl][s].asset ELSE file[pl]

\* A row without a source is given the folder's; any other keeps its own.
KeptSource(s) == IF s \in {None, "null"} THEN "folder" ELSE s

Upserted(pl, s, digest) ==
  LET upgraded == IF s = "null" THEN [catalog.rows[pl] EXCEPT !["null"] = None]
                  ELSE catalog.rows[pl]
      row == [asset |-> digest, stamp |-> run.stat, missing |-> FALSE]
  IN  [catalog.rows EXCEPT ![pl] = [upgraded EXCEPT ![KeptSource(s)] = row]]

\* Mutant: other locations of the asset are not looked for.
ObsoleteAnyway(pl, s, rows) ==
  IF s = None THEN {} ELSE {catalog.rows[pl][s].asset} \ {rows[pl][KeptSource(s)].asset}

\* The asset the row leaves behind, when no location is left for it.
Obsolete(pl, s, rows) ==
  IF s = None THEN {} ELSE {catalog.rows[pl][s].asset} \ RowAssets(rows)

\* Mutant: the notes are not deleted with their asset.
WithoutCascade(cat, gone) == [cat EXCEPT !.assets = @ \ gone]

\* Deleting an asset cascades to the user's notes, not to the history.
Without(cat, gone) ==
  [cat EXCEPT !.assets = @ \ gone, !.noted = @ \ gone]

Fail(cat) ==
  /\ catalog' = cat
  /\ saved' = cat
  /\ outcome' = [outcome EXCEPT ![run.vol] = "FAILED"]
  /\ run' = NotRunning
  /\ settled' = settled \ {run.vol}
  /\ UNCHANGED online

(***************************************************************************)
(* Hash one file and record it.  A file that is gone is an error of that   *)
(* file only, and leaves its rows as they are; a history entry that refers *)
(* to the obsolete asset stops the scan, and what was done is committed.   *)
(***************************************************************************)
CatalogueFile(s) ==
  LET pl == Here(run.cur)
      digest == Digest(pl, s)
      rows == Upserted(pl, s, digest)
      gone == Obsolete(pl, s, rows)
      cat == [catalog EXCEPT !.rows = rows, !.assets = @ \cup {digest}]
  IN  IF gone \cap catalog.history # {} THEN Fail(cat)
      ELSE /\ catalog' = Without(cat, gone)
           /\ run' = [run EXCEPT !.phase = "walk", !.cur = None,
                                 !.seen = @ \cup {<<pl, KeptSource(s)>>}]
           /\ UNCHANGED <<online, saved, outcome, settled>>

FileError ==
  /\ run' = [run EXCEPT !.phase = "walk", !.cur = None, !.errors = @ + 1]
  /\ UNCHANGED <<online, catalog, saved, outcome, settled>>

HashFile ==
  /\ run.phase = "hash"
  /\ LET pl == Here(run.cur)
     IN  \E s \in IF ExistingRow(pl) = {} THEN {None} ELSE ExistingRow(pl) :
           IF Cached(pl, s) \/ Visible(run.cur) THEN CatalogueFile(s) ELSE FileError
  /\ Scanning

\* A file that cannot be read at all.
ReadError == run.phase = "hash" /\ FileError /\ Scanning

\* Mutant: only rows of folder scans are ever marked.
MarkFolderRows(cat) ==
  [cat EXCEPT !.rows = [pl \in Place |->
     IF pl[1] = run.vol /\ cat.rows[pl]["folder"] # None /\ <<pl, "folder">> \notin run.seen
       THEN [cat.rows[pl] EXCEPT !["folder"] = [@ EXCEPT !.missing = TRUE]]
       ELSE cat.rows[pl]]]

\* Rows of the volume that this session has not written are missing.
MarkMissing(cat) ==
  [cat EXCEPT !.rows = [pl \in Place |-> [s \in Source |->
     IF pl[1] = run.vol /\ cat.rows[pl][s] # None /\ <<pl, s>> \notin run.seen
       THEN [cat.rows[pl][s] EXCEPT !.missing = TRUE]
       ELSE cat.rows[pl][s]]]]

\* Mutant: a failed scan marks what it has not seen, like a completed one.
WalkFailsMarking ==
  /\ run.phase = "walk"
  /\ run.vol \notin mounted
  /\ Fail(MarkMissing(catalog))
  /\ Scanning

\* A directory that vanishes under the walk raises out of it.
WalkFails ==
  /\ run.phase = "walk"
  /\ run.vol \notin mounted
  /\ Fail(catalog)
  /\ Scanning

FinishScan ==
  /\ run.phase = "walk"
  /\ run.todo = {}
  /\ catalog' = MarkMissing(catalog)
  /\ saved' = catalog'
  /\ online' = online \cup {run.vol}
  /\ outcome' = [outcome EXCEPT ![run.vol] = "COMPLETED"]
  /\ settled' = IF run.calm /\ run.errors = 0 THEN settled \cup {run.vol}
                ELSE settled \ {run.vol}
  /\ run' = NotRunning
  /\ Scanning

\* The process dies: the whole transaction is rolled back.
Crash ==
  /\ run.phase # "idle"
  /\ catalog' = saved
  /\ run' = NotRunning
  /\ UNCHANGED <<online, saved, outcome, settled>> /\ Scanning

-------------------------------------------------------------------------------
(***************************************************************************)
(* The other writers of the catalog, which cannot write during a scan.     *)
(* They hash a file first, wait for their turn, look at its size and time, *)
(* and record the hash with these.                                         *)
(***************************************************************************)
\* A verified copy to a path without an active row, or the file that an import
\* from a phone has just published.  Nobody asks whether the volume is there: if
\* it is not, the file is written and hashed below its mount point.
TakeHash(pl, s, c) ==
  /\ held = None /\ pl[1] \in Busy
  /\ used.runs < MaxRuns
  /\ s = "folder" => Active(saved, pl) = {}
  /\ s = "phone" => saved.rows[pl]["phone"] = None
  /\ pl[1] \in mounted => Readable(pl) /\ c = file[pl]
  /\ held' = [place |-> pl, source |-> s, asset |-> c, below |-> pl[1] \notin mounted]
  /\ used' = [used EXCEPT !.runs = @ + 1]
  /\ UNCHANGED <<file, stamp, mounted, barred, online, catalog, saved, run, outcome, settled,
                 silent>>

Verified(cat, c) == [cat EXCEPT !.assets = @ \cup {c}, !.history = @ \cup {c}]

\* The look at size and time, and the commit.
Record(rows) ==
  LET pl == held.place
  IN  /\ run.phase = "idle"
      /\ IF pl[1] \in mounted THEN Readable(pl) ELSE held.below
      /\ catalog' = [Verified(catalog, held.asset) EXCEPT !.rows[pl] = rows]
      /\ saved' = catalog'
      /\ held' = None
      /\ settled' = settled \ {pl[1]}
      /\ silent' = IF pl[1] \in mounted /\ file[pl] # held.asset
                     THEN silent \cup {pl} ELSE silent
      /\ UNCHANGED <<file, stamp, mounted, barred, online, run, outcome, used>>

HeldRow == [asset |-> held.asset, missing |-> FALSE,
            stamp |-> IF held.place[1] \in mounted THEN stamp[held.place] ELSE Elsewhere]

\* _record_destination of a verified copy: the folder's row, and no other without
\* a source.
RecordCopy ==
  /\ held # None /\ held.source = "folder"
  /\ Record([catalog.rows[held.place] EXCEPT !["folder"] = HeldRow, !["null"] = None])

\* The location of an imported file.  A scan may have found the file since it was
\* published, and then one file has two active rows.
RecordImport ==
  /\ held # None /\ held.source = "phone"
  /\ Record([catalog.rows[held.place] EXCEPT !["phone"] = HeldRow])

\* The file is gone, the catalog stays locked, or the process dies.
RecordFails ==
  /\ held # None
  /\ held' = None
  /\ UNCHANGED <<file, stamp, mounted, barred, online, catalog, saved, run, outcome, settled,
                 silent, used>>

\* refresh_volume_statuses: CONNECTED is what has its mount path.
RefreshStatuses ==
  /\ run.phase = "idle"
  /\ online' = mounted
  /\ UNCHANGED <<file, stamp, mounted, barred, catalog, saved, run, held, outcome, settled,
                 silent, used>>

\* register_volume of a disk that is known.
RegisterVolume(v) ==
  /\ run.phase = "idle"
  /\ v \in mounted
  /\ online' = online \cup {v}
  /\ UNCHANGED <<file, stamp, mounted, barred, catalog, saved, run, held, outcome, settled,
                 silent, used>>

-------------------------------------------------------------------------------
(***************************************************************************)
(* The user and the disks.                                                 *)
(***************************************************************************)
Disturb(v) ==
  /\ settled' = settled \ {v}
  /\ run' = IF run.vol = v THEN [run EXCEPT !.calm = FALSE] ELSE run

Edit(pl, c) ==
  /\ pl[1] \in Busy
  /\ file[pl] # Absent \/ c # Absent
  /\ used.events < MaxEvents
  /\ pl[1] \in mounted
  /\ used' = [used EXCEPT !.events = @ + 1]
  /\ file' = [file EXCEPT ![pl] = c]
  /\ Disturb(pl[1])
  /\ UNCHANGED <<mounted, barred, online, catalog, saved, held, outcome>>

\* Any change, the creation and the removal of a file included.
UserEdit(pl, c) ==
  /\ Edit(pl, c)
  /\ stamp' = [stamp EXCEPT ![pl] = used.events + 1]
  /\ UNCHANGED silent

\* Other bytes of the same size, with the old modification time put back.
SilentEdit(pl, c) ==
  /\ file[pl] # Absent /\ c \in Content \ {file[pl]}
  /\ Edit(pl, c)
  /\ silent' = silent \cup {pl}
  /\ UNCHANGED stamp

Unplug(v) ==
  /\ used.events < MaxEvents
  /\ v \in mounted
  /\ mounted' = mounted \ {v}
  /\ used' = [used EXCEPT !.events = @ + 1]
  /\ Disturb(v)
  /\ UNCHANGED <<file, stamp, barred, online, catalog, saved, held, outcome, silent>>

\* The permissions of a directory change.
Permit(pl) ==
  /\ pl[1] \in Busy
  /\ used.events < MaxEvents
  /\ pl[1] \in mounted
  /\ barred' = IF pl \in barred THEN barred \ {pl} ELSE barred \cup {pl}
  /\ used' = [used EXCEPT !.events = @ + 1]
  /\ Disturb(pl[1])
  /\ UNCHANGED <<file, stamp, mounted, online, catalog, saved, held, outcome, silent>>

Plug(v) ==
  /\ v \notin mounted
  /\ mounted' = mounted \cup {v}
  /\ UNCHANGED <<file, stamp, barred, online, catalog, saved, run, held, outcome, settled,
                 silent, used>>

Next ==
  \/ \E v \in Volume : StartScan(v) \/ Unplug(v) \/ Plug(v) \/ RegisterVolume(v)
  \/ SkipPath \/ StatFile \/ HashFile \/ ReadError \/ WalkFails \/ FinishScan \/ Crash
  \/ RefreshStatuses \/ RecordCopy \/ RecordImport \/ RecordFails
  \/ \E pl \in Place :
       \/ Permit(pl)
       \/ \E s \in {"folder", "phone"}, c \in Content : TakeHash(pl, s, c)
       \/ \E c \in Content \cup {Absent} : UserEdit(pl, c)
       \/ \E c \in Content : SilentEdit(pl, c)

Spec == Init /\ [][Next]_vars

-------------------------------------------------------------------------------
(***************************************************************************)
(* Properties.                                                             *)
(***************************************************************************)
CatalogOK(cat) ==
  /\ cat \in [rows: [Place -> [Source -> Row \cup {None}]], assets: SUBSET Content,
              history: SUBSET Content, noted: SUBSET Content]
  /\ cat.history \cup cat.noted \subseteq cat.assets

TypeOK ==
  /\ file \in [Place -> Content \cup {Absent}]
  /\ stamp \in [Place -> Nat]
  /\ mounted \subseteq Volume /\ online \subseteq Volume /\ settled \subseteq Volume
  /\ barred \subseteq Place /\ held \in Hash \cup {None}
  /\ CatalogOK(catalog) /\ CatalogOK(saved)
  /\ run \in [phase: {"idle", "walk", "hash"}, vol: Volume \cup {None}, todo: SUBSET Path,
              cur: Path \cup {None}, stat: Nat, seen: SUBSET (Place \X Source),
              errors: Nat, calm: BOOLEAN]
  /\ outcome \in [Volume -> {"COMPLETED", "FAILED"}]
  /\ silent \subseteq Place
  /\ used \in [runs: Nat, events: Nat]

\* A cached hash that the next scan would trust is the hash of the file, whatever
\* happened between stat, hashing and recording, in failed scans too.  A scan stats
\* before it hashes; a copy and an import hash first and stat later (copy.py:181
\* and 99, source_import.py:368), so that a file edited in between gets its old
\* hash with its new size and time.  That, and a file replaced under its old size
\* and time, are the exceptions.
CachedHashIsTrue ==
  \A cat \in {catalog, saved}, pl \in Place \ silent :
    \A s \in Rows(cat, pl) :
      file[pl] # Absent /\ cat.rows[pl][s].stamp = stamp[pl] => cat.rows[pl][s].asset = file[pl]

\* After a scan without errors that nothing disturbed, each file of the volume that
\* the program may read has exactly one active row, with its content, and nothing
\* else has any, whatever sources, missing rows and older rows the paths had
\* before.  Of a place whose hash the catalog trusts wrongly only the content may
\* be wrong, not the number of its rows.
ActiveViewIsExact ==
  \A pl \in Place :
    pl[1] \in settled =>
      IF ~Readable(pl) THEN Active(saved, pl) = {}
      ELSE /\ Cardinality(Active(saved, pl)) = 1
           /\ pl \in silent \/ \A s \in Active(saved, pl) : saved.rows[pl][s].asset = file[pl]

\* A path leaves the committed view only when a scan of its volume completes, and
\* if that scan had no error and nothing disturbed it, the file is gone, or below a
\* directory that the program may not read: rglob passes over it and reports no
\* error, so that its files, though there, are marked missing.
\* ("a failed session ... does not erase the previous catalog view", SAFETY_MODEL.)
PresentFilesStayInView ==
  [][\A pl \in Place :
       Active(saved, pl) # {} /\ Active(saved', pl) = {} =>
         /\ run.vol = pl[1] /\ run.phase = "walk" /\ run.todo = {}
         /\ outcome'[pl[1]] = "COMPLETED"
         /\ run.errors > 0 \/ ~run.calm \/ ~Readable(pl)]_vars

\* An asset is deleted, and the user's notes with it, only when no location, not
\* even a missing one, and no verification refers to it (the obsolete asset of a
\* replaced file).  It may be found again later in the same scan, without notes.
DeletedAssetsAreUnused ==
  [][\A c \in (catalog.assets \ catalog'.assets) \cup (catalog.noted \ catalog'.noted) :
       c \notin RowAssets(catalog'.rows) \cup catalog'.history]_vars
===============================================================================
