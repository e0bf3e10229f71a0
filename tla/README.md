# A TLA+ verification project for the Photo Manager

The Photo Manager catalogues photos on disks and phones in SQLite, copies them
to backup volumes, imports them from an Android phone, and moves unwanted ones
to a reversible quarantine. It promises never to lose or overwrite an original.
What makes the promise hard is that every such operation changes two stores in
separate steps: the file system, where each step is durable at once, and the
catalog, whose changes are durable at a commit. This project models those
operations with what can come between two steps (a crash, another program, a
disk that goes away, a connection that drops, a second thread), model-checks
them with TLC, and proves the most important properties with TLAPS.

## The system and its parts

| Component (under `src/photovault`) | State | Operations | What is hard | Status |
|---|---|---|---|---|
| Reversible quarantine, `backup/quarantine.py` | files, `asset_locations`, `operations`, `operation_items` | plan, execute, undo | crash between move and commit, edits between check and move, moves across file systems, rows shared by two paths | `Quarantine`, proved |
| Reconciliation, `backup/reconcile.py` | reads the catalog | classify two volumes | one-to-one matching by content, in row order | `Reconcile` |
| Verified copy, `backup/copy.py` | the same, and `verification_history` | plan, execute | commits in the middle of an item, stale plans, torn destinations, unplugged volumes | `CopyPlan`, proved |
| Phone import, `backup/source_import.py`, `sources/android_wifi.py`, `MainActivity.java` | partial and final files, `source_imports`, `operations`, `import_batches`, worker threads | plan, stream, retry, resume, publish, record, flush, cancel | resumed partials, retries, threads that finish in any order, power failure | `SourceImport`, proved |
| Backup jobs, profiles and snapshots, `backup/jobs.py`, `backup/android_profiles.py` | job status and cancel event per job, snapshot and profile rows | create, start, cancel, run | start, cancel and runner race; several tasks on one file | `BackupJobs`, implements `BackupHistory`, proved |
| Scanner, `catalog/scanner.py` | `assets`, `exact_hashes`, `asset_locations`, `scan_sessions` | register, scan | replaced files, stale cached hashes, a scan that fails halfway | `Scanner`, proved |
| Audits, `backup/audit.py`, `backup/folder_audit.py` | read the catalog | audit a set, audit a folder | what counts as a copy elsewhere, statuses that are old | `Audits`, proved |
| Library pages, `catalog/library.py`, `web/static/app.js`, the window's library, `sources/android_wifi.py` | the page's cursor, filters and listing; the place in a folder | first page, more, filter, review, list a folder | the cursor against an order it does not quite follow, photos that go between pages | `Browse`, proved |
| Pairing, `pairing/trusted.py`, `web/server.py`, `NoisePairingResponder.java`, `MainActivity.java`, `SharingService.java` | sessions on both sides, session rows, trusted devices, transfer sessions, the phone's list of desktops | start, messages, confirm, expire, forget, revoke, reconnect | two-sided confirmation against lost answers, timers and deaths | `Pairing`, proved |
| Schema, `database/migrations.py` | tables, version rows | open and upgrade | deaths between statements, two programs at once | `Schema`, proved |
| Consolidation, `catalog/consolidation.py` | files | plan and move | interrupted and repeated runs, colliding targets | `Consolidation`, proved |
| Organisation, `catalog/organization.py`, `favourites.py`, `collections.py`, `people.py` | events, tags, places, people, albums, reviews; the window's one connection | create, change, assign, delete, suggest, approve, dismiss | transactions left open, repeated suggestions | `Organisation`, proved |
| Culling, `web/culling.py`, `culling.js` | decisions on the server and on each page, a queue | choose, send, ask again | lost requests, topics that change | `Culling`, proved |
| Desktop window, `ui/main_window.py` | a worker and a thread per lane, buttons, queued signals | start, cancel, finish, show | clicks between the end of a thread and its handler | `Desktop`, proved, and the guards of the others |
| Web server, command line | threads and processes that start the operations above | | what may run at the same time | actions of the models |
| Catalog backup, thumbnails, similarity, collage, discovery, TLS, MTP bridge, platform providers | | | see "Not modelled" | not modelled |

The desktop window builds a plan on its own connection, shows it, and hands it
to one `OperationWorker` thread at a time, with a connection of its own; the
button is disabled once the plan is started. The command line plans and
executes in one call. Imports run in an `AndroidCompanionTransferWorker` thread
or in a runner thread of the job manager of the web server. They all meet in
the SQLite file (one writer at a time, five seconds of patience, then an error)
and in the folders on disk, which the user's other programs change freely.

`PROJECT.json` lists the components file by file, and under `hazards` every
place where the code is hard to test, with the properties that watch it.

### What makes each part correct

* quarantine: no content is ever lost; whatever is in the quarantine directory
  is named by the committed journal; what finished can be undone, and an undo
  that reports success has restored everything;
* copy: nothing is overwritten; an active backup row is a file with that hash;
  result, history entry and location become durable together; what was
  completed is not missing any more;
* import: what is recorded is what is in the file; only whole files get a final
  name, never over another file; a closed batch has recorded what it published,
  or says of it that it failed, and a completed one has flushed it; an import ends;
* jobs: the snapshots are an honest history (opened once, closed at most once,
  completed only when every item is kept); a completed run counts its own items,
  which with those already there are all that was planned; what a job shows agrees
  with its snapshot; a
  cancelled run opens and writes nothing more; a backup ends;
* scanner: a hash the next scan would trust is the file's, unless the file was
  edited between a copy's or an import's hash and its look at size and time; after
  a scan that nothing disturbed the active rows are the files that may be read; a
  path leaves the view only when its file is gone or out of reach; a note goes only
  with an unused asset;
* audits: a safe candidate folder can be deleted without losing a content, but of
  twins inside it and of files for which the row of a folder of a similar name
  stands; what is called protected is on the primary disk and on others, redundant
  on as many as are required, and what is called missing a backup is on too few;
* pages: put together they show every photo once, but those that the comparison
  with the cursor passes over, or that move while a folder is listed by offset;
* pairing: each side trusts only what both users confirmed, and together, but
  for what the phone forgets, has not written yet or confirmed between its looks;
* desktop: one worker of a lane at a time, its result shown, its button back;
* schema: a recorded version is there in full, and no row is lost;
* consolidation: no file is lost;
* organisation: the catalog's lock is kept only after a failure that was shown;
  a dismissed suggestion stays away;
* culling: a page that has nothing pending shows of each photo what the server
  has, or is known to be wrong on it until it asks again.

## The modules

Each component has one module, with its constants, their assumptions and the
bounds that TLC needs in the guards; an `MC` module adds symmetry and constant
values; proofs are in a `Proofs` module.

**`Quarantine`**. `file` is the file system (original paths and quarantine
paths), `catalog` the location rows, `items` and `status` the journal of every
operation as the running connection sees it, `saved` what of them is committed,
`reviewed` the plan in the window, `run` the locals of the loop. Planning
commits; executing commits RUNNING, then nothing before `Finish`; undo commits
nothing before `Finish`. An item goes through `NextItem`, `CheckItem`, one of
`Rename` or `CopyBegin`/`CopyEnd`/`Unlink` (`shutil.move` inside one file
system or across two), `MoveFails` at any point of it, and `VerifyItem`, whose
read of the moved file may fail (`Unreadable`, remembered in `unread`): the code
records FAILED and leaves the file in quarantine and its row active. `Crash`
returns `items`, `catalog` and `status` to `saved` and leaves `file`; it also
stands for an error other than OSError and ValueError, which leaves the loop.
`UserEdit` changes a file at any time. An asset is identified with the hash of
its content. The `FirstRow` helper is the lookup of a row by asset and
destination, which may find the row of another listed path.

**`Reconcile`** is the classification as operators over two functions from paths
to contents. `IsMainOnly` is the set of answers the matching may give: which
rows of one content are consumed depends on SQLite's row order, how many does
not.

**`CopyPlan`** extends it. `rows`, `status`, `history`, `catalog` are the tables
the connection sees, `saved` the committed ones. `StatAndRegister` is the first
half of `_record_destination`, whose `register_source` commits whatever is
pending; `RecordDestination` writes location, result and history entry. A volume
may be unplugged and come back (`mounted`), and the catalog learns of it when it
refreshes (`online`). Nothing in a run asks whether the backup volume is there:
`shadow` is what it leaves below the mount point of one that is not, and `below`
the paths it has hashed there and will record as verified. A path has one row per
volume: rows of several sources for one path are left out.

**`SourceImport`** has one `thread` per object for `stream_with_retry` around
`stream_source_to_file`, and the calling thread, which records results one at a
time (`BeginRecord`, then `AcceptResult` or `RefuseResult`), or failures.
`RecordFails` is a catalog that stays locked for longer than five seconds while
a result is recorded: with several workers the item is recorded as FAILED with
its published file in place, with one the import is left with its batch open. A
lock that outlasts the record of that failure too ends the import there, as a
death of the process does. `final`
and `partial` are the files, `synced` the final files whose content was flushed.
A file is a sequence of chunks, each identified with the version of the photo
it comes from; a hash is that sequence. `Drop` is a connection that fails before
or during the response, by an exception or by an early end; a photo deleted on
the phone and an HTTP error look the same to the program. `Request` is the range
answer of the phone. One import at a time; `import-one` of the command line is
the case of one item and one worker without a batch row.

**`BackupHistory`** is the abstract specification of what a profile's history
promises: three variables, `Open`, `Keep` and `Close`. **`BackupJobs`** is the
detailed one: `Task`s are jobs of the web server, desktop windows and command
lines, each with its runner (`pc`: inventory, plan, profile, snapshot, import,
copy, close, end), its pool of `stream`s, and one set of files and catalog
tables for all of them. `SetEvent` and `NoteCancel` are the two halves of
`cancel`, with anything in between. A stream hashes what it has counted itself
and writes to the file its handle is open on, whatever has been renamed or
removed meanwhile (`Moved`): the one that made the file at its own offset, one
that resumes it at the end (`Written`). A partial that is empty or already whole
is refused (`RefuseStream`: open(.., "xb") fails, and so does a request for what
follows the last byte). `tally` is a history of what a job had counted before an
attempt and what the attempt recorded. `CloseFails` is a catalog that stays locked for
longer than five seconds. The refinement mapping reads the state of a run from
its snapshot row, what is kept from `source_imports`, and the last completed run
from the profile; every other step is a stutter.

**`Scanner`**: `StatFile` and `HashFile` are two steps, because size and time
are read before the hash; `catalog` is what the scan's transaction sees and
`saved` what is committed. A path has up to three rows, of the folder, of a
phone, or without a source. A copy and an import work the other way round: they
take the hash first (`TakeHash`) and look at size and time when they write the row
(`RecordCopy`, `RecordImport`), possibly below the mount point of a volume that was
away. `barred` are the places below a directory the program may not read, which the
walk passes over without an error (`SkipPath`). `settled` (volumes that nothing has
disturbed since a clean scan) and `silent` (files replaced under their old size and
time, or edited between hash and look) say under which conditions a statement is
made. **`Audits`** adds the two audits as operators over the committed rows:
`Member`, `Primary` and `Required` are a backup set, and `InScope` the places that
are below its scope and the root of their volume's member (`Observed` are their
active rows, `Disks` where their files are). A folder's rows are selected with LIKE:
`Alike` are the paths of other folders that its name matches as a pattern, and
`Standing` the rows that may stand for a file. **`Browse`** is the reading of pages,
and **`Catalogue`** puts them together.

**`Browse`**: `taken` gives an entry the moment it was taken, whether its text
is written with a "T", and the offset of its source, so that the text stored
(`Raw`) and the text shown (`Display`) differ as they do in the code; `Precedes`
sorts by the second and `Follows` compares the first with the cursor. The two
differ, so that some photos are never shown, and `PagesShowEachOnce` says of every
reading how much that is. `Straddled` are the photos that a cursor passes over: at
the end of a page (`PageEnds`), one whose stored text compares behind it though the
text it is sorted by does not (a "T" on the same day, an offset), one without a
readable date, one that is another location of the asset the page ends with. Of
all other photos that matched throughout (`stay`) the web lacks none, whatever the
times of the others are. An offset that moves times forward may show photos twice;
so does the Topics tab, which clears the cursor of the photos that are still
listed, so that "Load more" appends the first page again (`again`). The window
shows its first page only: Next and Previous are invisible and connected to
nothing. A backup lists a folder of the phone by offset (`IterFolder`): each photo
deleted before the place it has reached can make it skip one (`skipped` counts
them), one taken there makes it list one twice (`again`).

**`Pairing`** has the phone (server object, window, timers, sessions, list of
desktops in memory and on disk, transfer sessions) and the desktop (the step of
each pairing, the server's dictionary, the rows of both tables). A request that
reaches the phone is one action with two outcomes: its answer arrives or is
lost. The desktop's confirmation is four: the request (`Confirm`), and the three
looks the phone's thread takes at the session without a lock, for its list of
desktops (`RememberDesktop`), for a transfer session (`OpenTransfer`) and for
its answer (`AnswerConfirm`); the user's confirmation on the phone, the timer
and a new server object may come between them. **`Desktop`** has one `lane` of
background work: a click (`Start`), the thread, its signals in `inbox`, and the
handlers that show a result and forget the worker. A thread that ends and the
handler that hears of it are two steps. A click in between overtakes the handler
(`overtaken`), which then forgets the new worker; the lane has recovered when
the next worker is started with nothing at work and nothing queued.
**`Schema`** has the scripts as sequences of statements, each durable at once,
and the version row, which is durable at the next commit. **`Consolidation`**
has one stem with its kinds of files, a plan made from one look, and moves one
after the other by `os.replace`.

**`Organisation`** is written around the window's connection. `sqlite3` opens a
transaction before a first write, also one that changes no row or fails, and no
handler rolls back: `tx` is "writing" after a handler raised, with the write
lock held between handlers. A handler that waited in vain for another program's
lock leaves a transaction ("open") in which the next query fixes what the window
sees ("reading"); when somebody commits after that (`stale`), its writes fail
until the window is closed. A web request has a connection of its own and is
one step. `Now` is what the handler sees. Of an event's dates only the range of
a suggestion is kept, since nothing else is read again. **`Culling`** has pages
that show a choice at once and send it later, one request at a time. A request
is lost (`Lose`), answered in vain (`LoseAnswer`), or given up by the page while
the server's thread still waits for the lock (`GiveUp`): that one stays in
`strays` and is kept later, after the page has asked. `astray` has the photos on
which a page may be wrong since it last asked, and nothing else.

**`Services`** composes these six. They share no state in the code (the tables
they write are disjoint), so a behaviour of all is one of each, and `focus` says
whose steps are looked at; the others rest in one initial state. The modules are
extended, with a prefix in the names that would clash. `Catalogue` does the same
for scans and pages: reading changes nothing, and what a scan does to a reader
between two pages is what a rejected or restored photo does.

`QuarantineProofs`, `CopyPlanProofs`, `SourceImportProofs` and `BackupJobsProofs`
hold the theorems of their components, `CatalogueProofs` those of `Scanner`,
`Audits` and `Browse`, `OrganisationProofs` and `SchemaProofs` the inductive invariants of
these two, and `ServicesProofs`, which extends both, the theorems of all six
parts of `Services`.

## What the runs check

Safety runs state `CHECK_DEADLOCK FALSE`: with all operations used and the
bounds exhausted the system rests, as it may.

* `quarantine` (about 200 thousand states). Two volumes, one relative path, two
  contents, one plan of up to two paths (also one path twice, and the same path
  on both volumes), two undos, one edited place, one file that cannot be read
  back, one crash. Two paths are what
  it takes to share a destination; two undos to undo again after a partial one.
  A variant with two plans (2.35 million states) passed too.
  `VaultIsJournalled`, `ActiveRowsExist`, `NothingLost`, `FinishedIsUndoable`,
  `UndoRestores`. The exceptions the statements make are
  the code's: edits between check and move (not atomic), operations shown as
  RUNNING after a crash, rows that share asset and destination, and a moved file
  whose rehash fails with a read error: it is recorded as FAILED, its row stays
  active, and no undo takes it up.
* `copy_plan` (2.3 million states). Two paths, two contents, any initial mix of
  files, conflicts and stale backup rows, one plan, one edit, one unplugging,
  one crash. Two paths let a commit made for the second item save the first,
  and contents match across paths. A variant with two plans and two edits over
  one path passed too. `BackupRowsAreReal`, `NothingOverwritten`,
  `VerifiedIsAllOrNothing`, `CompletedIsReconciled`. The code's exception to the
  first is a disk unplugged before the hash: the copy is made, verified and
  recorded below its mount point, on another disk.
* `source_import` (2.9 million states). Two objects of one and two chunks, so
  that a partial can be empty, half and full; one or two workers, both flush
  modes, one retry, two imports, three events of any kind. Two objects let one
  stream fail or be cancelled while the other goes on; the second import meets
  what the first left behind. `RecordedIsFile`, `PublishedIsRecorded`,
  `PublishedIsWhole`, `NothingOverwritten`, `CompletedIsDurable`. The exception
  to the second is the code's: a published file whose record failed stays
  without one, and the item is FAILED.
* `source_import_ends`: `ImportEnds` under weak fairness of `Program`, the steps
  of the calling thread and the workers together. They are threads the
  operating system schedules while the process lives, no lock is held across
  them, every read from the phone is bounded by the socket timeout of 30
  seconds, and retries are counted. No fairness is assumed of the phone, the
  user or the disks. Two events, one import, no symmetry.
* `backup_jobs` (no symmetry, because of liveness). A job with two workers and a
  desktop window with one, two photos of one chunk, of one of which a partial
  of a longer version may be left, two attempts in all and one fault (failed
  request, locked catalog, death of a process, a file removed or put by the
  user). Two attempts are what it takes to restart a job or to have two tasks
  side by side, with cancellation at every step. 440 000 states; with photos of two
  chunks, whose partials can be resumed, it is 1.1 million and holds too, which is
  where the run `backup_shared_partial` begins. `ImplementsHistory` is the
  refinement; `BackupEnds`, `CancelSticks`, `StatusTellsHistory`; and
  `SnapshotAddsUp`, which says whose the numbers of a snapshot are: a job's
  counters outlive its runs, so the items of a run that was cancelled or failed,
  and the bytes of every run, are those of all runs of the job so far. Fairness: weak, of the disjunction of all runners' steps
  ("some runner goes on"), which the operating system's scheduler gives; none of
  requests, users or faults.
* `scans_and_audits` (1.2 million states). Four files, two of them on the
  primary of three volumes, two contents, two scans, copies or imports, one event
  of any kind (an edit, an unplugging, a directory that cannot be read), one
  path whose row comes from elsewhere or whose file is gone, two folders of which
  one's name matches the other's as a pattern. Four places let content be shared
  inside a folder, across volumes, and on three disks, which MULTI_COPY takes; two
  scans, a failed one be followed by a whole one. `CachedHashIsTrue`, `ActiveViewIsExact`,
  `PresentFilesStayInView`, `DeletedAssetsAreUnused`, `SafeFolderLosesNothing`,
  `AuditTellsTheTruth`; and for the pages three entries of five kinds of time,
  one photo a page, one review, read by the web page, the window or a backup that
  lists the phone: `PagesShowEachOnce`. The exceptions are the
  code's: files changed under their old size and time or between the hash a copy
  or an import took and its look at them, files in directories that may not be
  read, two files of one content inside an audited folder (each vouches for the
  other), files for which the row of a look-alike folder stands, statuses that are
  old; and of the pages those that the section on `Browse` lists.
* `services` (1.25 million states), each part with its bounds: two pairings,
  two windows, one trouble (`TrustIsMutual`); every lane, three starts, the
  third of which finds a lane quiet after an overtaken one (`LaneIsSound`); two processes on a new catalog, one at version 21 and one at
  25, one mishap (`SchemaIsWhole`); two folders, two dates and sizes, two files
  at first and one that appears, two runs (`ConsolidationKeepsFiles`); two
  things of seven kinds over two assets two days apart (`LockIsAFailures`,
  `DismissedStaysAway`); one page, two photos, three choices, one request
  lost or given up, one change of the topic (`PicksAreServerBacked`). Two of everything is what the
  hazards take: a timer of the window before, a click over a handler, a process
  in the middle of another's upgrade, a second video of one stem. The exceptions
  are again the code's, each held in a history variable: a phone that forgot its
  desktops, died before it wrote them, or was confirmed between its looks at the
  session (`parted`, until the desktop is entered again); a click that overtakes
  a handler in a lane of several buttons, after which two workers may be at work
  and an operation's result be shown as another's, while the lane still comes
  back (`overtaken`); a second process that begins version 22 after a first has
  done it (`raced`); two videos of one stem with one destination, a file that
  appears at a destination after the look (`met`); and for a page the photos of
  `astray`: changed by others, chosen while an earlier request failed (the answer
  to the query replaces the choice), kept although both the answer and the query
  after it were lost, kept after the page had given the request up.

Five runs show disagreements between the code and what it says of itself, each
quoted in `PROJECT.json` under `findings`, and each reproduced by running the
Python code:

* `quarantine_shared`: two files of one plan with the same content and relative
  path on two volumes (or one path listed twice) share a row; the second result
  replaces QUARANTINED and undo leaves the file where it is.
* `quarantine_interrupted`: results are not in the journal after a crash.
* `source_import_version`: a photo that was edited on the phone between two
  attempts is published half old and half new, and recorded as verified.
* `source_import_retry`: a connection refused before the first byte leaves an
  empty partial on which every retry and later import fails.
* `backup_shared_partial`: two tasks that import one photo at the same time write
  into one partial, and the second goes on writing into the file that the first
  has published and recorded as verified (`RecordedIsPhoto`).

Others are written into the properties as exceptions and have no run of their
own; the first two were reproduced by running the Python code:

* `met` in `ConsolidationKeepsFiles`: two videos of one stem and date in two
  source folders are both planned as MOVE, and the second replaces the first
  (`os.replace`), though "ambiguous or conflicting destinations abort a move
  before any file is changed" (`catalog/consolidation.py:5`) and "No overwrite is
  allowed." (`:158`).
* `AuditTellsTheTruth` asks of MULTI_COPY three disks, not the required number:
  an asset on three volumes of a backup set that requires four copies is counted
  as protected (`backup/audit.py:107`), though assets with "fewer than the
  configured required copies" are to be MISSING_BACKUP (`docs/BACKUP_MODEL.md:26`).
* `SafeFolderLosesNothing`: the name of the folder under audit is used as a LIKE
  pattern without an escape (`backup/folder_audit.py:67-70`), so that a row of
  `AxB` can stand for a file of `A_B` that is in no catalog.
* `silent`: `backup/copy.py:99` and `backup/source_import.py:368` read size and time
  after the hash; an edit in between is recorded as the old hash under the new
  time, and every later scan trusts it (`catalog/scanner.py:170`).
* `barred`: `rglob` (`catalog/scanner.py:39-45`) passes over a directory that may not
  be read; its files are marked missing by a scan that reports no error.

Every property of a passing run has a mutant (`mutants`): a faulty variant of one
definition, next to it in the module, that breaks the property under the same
configuration.

## What is proved

For every value of the constants (all numbers of volumes, paths, contents,
operations, photos, jobs, pages and processes, all plan lengths, any number of
edits and crashes), from the named assumptions of the modules only. They are
`QuarantineConstants`, `CopyPlanConstants` and so on, in the module that declares
the constants, and say that bounds are natural numbers, that the sets the code
counts are finite, and that a value standing for "nothing" is no member of the
others. Every
property of the passing runs is a theorem too, except two of liveness.

Each component has one inductive invariant. `TypeOK` is a part of all of them
and never enough, since the properties relate a store to a committed copy of it,
or a file to what a thread found a few steps ago.

* **Quarantine**. `QuarantineTypeOK` and `QuarantineLosesNothing` follow from
  `IInv == TypeOK /\ RunInv /\ MoveInv`. `RunInv` says that the item in hand is
  a row of the operation; `MoveInv` that, unless somebody touched a file since
  the checks, the destination is empty before the move, torn during a copy, and
  equal to the source before the unlink. Without it a rename might replace a
  file, and an unlink remove the last copy. `QuarantineIsJournalled` needs
  `JInv`: the running journal and the committed one list the same rows for the
  operation that is running, and its committed status is past PLANNED; results
  may lag, rows may not. `QuarantineActiveRows` needs `ActiveInv`, which says
  of the seen catalog and of the committed one, because a crash returns there,
  that every active row but that of the item in hand (or of a file that could
  not be read back) has its file, and of the rows of an operation at which end of their move the file is, unless somebody
  touched it. `QuarantineFinishedIsUndoable` follows from `TakenUpInv`: where
  rows can be told apart, an item finds its own row, without a result, when its
  turn comes, and what was moved is recorded or is about to be.
  `QuarantineUndoRestores` follows from `PutBackInv`: until its end an undo
  exists in memory only, and one without a failure has put back all it took up.
* **Copy**. `CopyTypeOK` and `CopyOverwritesNothing` from `IInv` of
  `CopyPlanProofs`, whose `DestinationInv` says what is at the destination in
  each phase, on the volume or below its mount point. `CopyBackupRowsAreReal`
  from `RealInv`, again of both catalogs.
  `CopyVerifiedIsAllOrNothing` from `TruthInv`: in both versions of the tables a
  verified row has its history entry. `CopyCompletedIsReconciled` adds `DoneInv`:
  as long as a run has counted neither failure nor conflict, every row it has
  dealt with is verified, and a COMPLETED operation has only verified rows, in
  the seen tables and in the committed ones; by `TruthInv` these have their
  location.
* **Phone import**. `ImportTypeOK`, `ImportRecordedIsFile`,
  `ImportPublishedIsRecorded`, `ImportPublishedIsWhole`,
  `ImportNothingOverwritten` and `ImportCompletedIsDurable` from
  `RunInv` (an import has its batch open, without one no thread is left) and
  `ItemInv`, three statements about each object, phase by phase: `PartialOf` (the
  digest of a stream is what is in its partial, also of a resumed one), `FinalOf`
  (nothing is at a destination before the publication, and after it what the
  digest says) and `DurableOf` (what is recorded is flushed, or waits for the
  flush).
* **Backup jobs**. `BackupTypeOK`, `BackupSnapshotAddsUp`,
  `BackupStatusTellsHistory`, `BackupCancelSticks` and the refinement
  `BackupImplementsHistory` from `IInv == TypeOK /\ ControlInv /\ ImportInv /\
  NumbersInv`. `ControlInv` says which attempt, snapshot and status go with each
  step of a runner, and what a verdict of COMPLETED is a verdict of; `ImportInv`
  that an import without a failure has each item waiting, in one stream, or in
  `source_imports`, and what its counters then add up to; `NumbersInv` that a
  runner's counters are what `tally` has of its attempt, and that a closed
  snapshot has these numbers. The refinement goes action by action: `Close` is
  the step that needs the invariant, since it may complete a snapshot only when
  all of its items are kept.
* **Scanner**. `ScannerTypeOK`, `ScannerCachedHashIsTrue`,
  `ScannerActiveViewIsExact`, `ScannerPresentFilesStay` and
  `ScannerDeletedAssetsAreUnused` from stamps that only grow (`StampInv`), `CatInv` of the
  seen and of the committed catalog (rows refer to assets, no stamp is from the
  future, a row with the file's stamp has its hash), `SeenInv` and `CalmInv` (what a
  scan has written of a path it has passed, and that it is right where nothing
  disturbed it), and `ExactAt` for settled volumes. The stamps are why a file that
  changes between `StatFile` and `HashFile` does no harm: the row gets the old
  stamp, which the next scan does not trust.
* **Audits**. `AuditSafeFolderLosesNothing` and `AuditIsTrue` from the scanner's
  invariant and a lemma on settled volumes (`LocationsAreFiles`), for any member
  set, scope, folder names and number of copies.
* **Pages**. `PagesAreComplete` (`PagesShowEachOnce`) and `CatalogueTyped` from
  `BrowseInv`: a cursor is always that of the last photo listed, which is the end of
  a page while there is more (`WebInv`), so that every photo is listed, follows it
  or was passed over, in whatever order reviews, filters, failures and requests
  come; the window's page is the first one (`WindowInv`); and of the photos before
  the place that a backup has reached, as the folder is now, it lacks no more than
  were deleted there (`PhoneInv`; `RankWithout` says how a deletion moves the
  others). `InOrder` gives each photo the place of its number of predecessors,
  so that a listing is sorted and complete because a one-to-one function between
  finite sets of one size is onto; no induction is needed. `BehindEnd` is where
  `Straddled` comes from, `FollowsPrecedes` where times moved forward are excepted.
* **Services**. Each part has its own invariant and `ServicesTypeOK` follows from
  all six. `ServicesConsolidation` (`MovesInv`: unless two videos met or a
  file came into the way, the destinations of the moves to come are free and
  pairwise different). `ServicesTrust` (`ConfirmedInv`: what each side keeps of a
  session, in memory and in rows, against what both users have confirmed, since
  a phone restarts from its disk; and how far each thread that answers a
  confirmation has come). `ServicesPicks` (`PhotoInv`: on a photo that has not
  gone astray a page shows the last choice queued for it, or what the server has;
  each choice falls back to the one before it; and at each step of a request,
  what the server has of the choice under way). `ServicesLanes` (`LaneInv` and
  `WorkersInv`: what the signals in the inbox say of the thread and of the
  window's reference to it, while nothing is overtaken; `SurvivesInv`: what is
  true overtaken or not, that the window's reference is at work, or has its end
  in the inbox, and that results are told as they were). `ServicesLock` (`ConnectionInv`: what the state of
  the window's transaction says of the lock and of the last handler) and
  `ServicesDismissed` (`NotesInv`: what was refused is in the rows of dismissed
  ranges, and everything that is there has been made with the days noted). `ServicesSchema` (`UpgradeInv`):
  who has run the first statement of a version owns it, since the next program
  fails there (`OwnerInv`); recorded versions are whole (`RecordedInv`); and the
  stages of the rebuild of version 22 keep all rows in one table or the other
  (`RebuildInv`). Where an induction over versions would be natural,
  `SchemaProofs` takes the least version that goes wrong.

Only model-checked: liveness (`ImportEnds`, `BackupEnds`), which rests on fairness and
ENABLED and is out of the prover's reach; and the violations of the five runs
that show one, which are facts about single behaviours.

## Not modelled

* Catalog backup and restore: one call of SQLite's backup into a file that must
  not exist, with one actor and no state kept.
* Thumbnails: decoding of images. The batch loop of `thumbnail_jobs.py` is one
  thread over one query; called with `retry_failed` and without a limit, as the
  web server does, it selects a file that keeps failing again and again.
* Similarity, classification, embeddings, places, collage: arithmetic on images,
  coordinates and layouts, which TLC cannot evaluate at a meaningful size.
* TLS, mDNS, the MTP bridge, volume identity: input and output around libraries
  and system commands. The noise handshake is external to `Pairing`.
* `PairingSession`, `PairingSessionStore` and `pairing/v2.py`: only tests call
  them.
* Dashboard, timeline, gallery and the agent: single read-only queries, and a
  facade over operations that are modelled.
* Of modelled parts: sections of topics, event imports of older catalogs, ranges
  refused as invalid; sort orders of the library other than the default one
  (the one by what was added last ignores the cursor); reading of metadata; the
  columns that only describe a row.

## Plan

1. The safety half of the two liveness properties: a measure that every step of
   `Program` decreases, in `SourceImport` and in `BackupJobs`, so that only the
   fairness argument stays with TLC.
2. That `CopyPlan`'s plan is one of `Reconcile`'s answers for every catalog: the
   matching is one-to-one and as large as it can be.
3. Where components meet: the audit over a catalog that imports and copies write.
4. Sections of topics and the other sort orders of the library.
