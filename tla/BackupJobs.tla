------------------------------- MODULE BackupJobs -------------------------------
(***************************************************************************)
(* Backups of the phone's folders: the Web/MCP jobs of backup/jobs.py, the *)
(* desktop's AndroidCompanionTransferWorker and the command line's         *)
(* android-wifi copy, over the profiles and snapshots of                   *)
(* backup/android_profiles.py and the pool of import_source_items.         *)
(*                                                                         *)
(* Each task reads the phone, plans, opens a snapshot, imports the new     *)
(* items into one destination, closes the batch and then the snapshot.     *)
(* Tasks of several processes (and several jobs of one) may run over the   *)
(* same items at the same time; nothing in the code keeps them apart.      *)
(*                                                                         *)
(* Abstractions.  All tasks select the same folders, so they share one     *)
(* profile and Item is the inventory of each.  A photo is the sequence of  *)
(* its chunks and a hash is the sequence that was hashed; photos are not   *)
(* edited (SourceImport has versions, retries, flushes and power failures, *)
(* and sizes that disagree).  The attempt number of a task stands for the  *)
(* ids of its snapshot and of its batch.                                   *)
(***************************************************************************)
EXTENDS Integers, Sequences, FiniteSets

CONSTANTS
  Job,         \* jobs of the web server's BackupJobManager
  Desk,        \* desktop windows
  Cli,         \* command line processes
  Item,        \* items selected on the phone
  Leftover,    \* items of which a partial of a longer version may have been left
  Chunks,      \* chunks of an item
  Pool,        \* the workers of each task
  MaxAttempts, \* bound: started backups
  MaxFaults,   \* bound: failures, crashes and user's changes in all
  None         \* no file, no stream, no record

Task == Job \cup Desk \cup Cli
Attempt == 1..MaxAttempts
Whole == [k \in 1..Chunks |-> k]
Foreign == <<0>>   \* what the user puts at a destination
Hash == Seq(0..Chunks)
\* A stream: what it has hashed, where its handle is, and whether it made the file
\* it writes to: then it writes at its own offset, otherwise at the end.
Stream == [sum : Hash, on : {"part", "file", "gone", "done"}, own : BOOLEAN]

ASSUME BackupJobsConstants ==
  /\ Chunks \in Nat \ {0}
  /\ Pool \in [Task -> 1..8]
  /\ MaxAttempts \in Nat /\ MaxFaults \in Nat
  /\ IsFiniteSet(Item)
  /\ None \notin Hash \cup Stream
  /\ Job \cap (Desk \cup Cli) = {} /\ Desk \cap Cli = {}

VARIABLES
  status,    \* what the task shows; "NONE": there is no such job or worker
  cancel,    \* the cancel event of each task
  asking,    \* cancel requests that have set the event and not taken the lock
  asked,     \* history: the running attempt has been asked to stop
  pc,        \* where the runner is; "off": no runner, "dead": it raised while closing
  verdict,   \* how the attempt ends, as far as the runner knows
  attempt,   \* the attempt of each task, 0 before the first
  counted,   \* imported_items of the job or worker
  already,   \* already_imported, as planned
  again,     \* already_imported of the plan that is carried out
  todo,      \* decisions no thread has taken
  stream,    \* the streams of each task: what they hashed and where they write; "done":
             \* published, and waiting for the runner to record it
  done,      \* len(imported)
  failures,  \* how items of the import failed
  snapshot,  \* android_backup_snapshots
  batch,     \* import_batches
  profile,   \* android_backup_profiles: there is one, and its last completed run
  sha,       \* source_imports: the recorded hash of each item
  file,      \* the files at the destinations
  part,      \* the .photomanager-partial files
  begun,     \* history: attempts so far
  tally,     \* history: what the job had counted before each attempt, and what the
             \* attempt has recorded
  faults     \* history: faults so far

control == <<status, cancel, asking, asked, pc, verdict, attempt, begun>>
counters == <<counted, already, again, done, tally>>
import == <<todo, stream, failures>>
catalog == <<snapshot, batch, profile, sha>>
disk == <<file, part>>
vars == <<control, counters, import, catalog, disk, faults>>

\* The bytes are counted in photos, which are of one size.
NoSnapshot == [state |-> "none", planned |-> 0, imported |-> 0, already |-> 0, bytes |-> 0]
Terminal == {"COMPLETED", "CANCELLED", "FAILED"}

Init ==
  /\ status = [t \in Task |-> "NONE"]
  /\ cancel = [t \in Task |-> FALSE]
  /\ asking = {}
  /\ asked = {}
  /\ pc = [t \in Task |-> "off"]
  /\ verdict = [t \in Task |-> "none"]
  /\ attempt = [t \in Task |-> 0]
  /\ counted = [t \in Task |-> 0]
  /\ already = [t \in Task |-> 0]
  /\ again = [t \in Task |-> 0]
  /\ done = [t \in Task |-> 0]
  /\ todo = [t \in Task |-> {}]
  /\ stream = [t \in Task |-> [i \in Item |-> None]]
  /\ failures = [t \in Task |-> {}]
  /\ snapshot = [n \in Attempt |-> NoSnapshot]
  /\ batch = [n \in Attempt |-> "none"]
  /\ profile = [saved |-> FALSE, last |-> {}]
  /\ sha = [i \in Item |-> None]
  /\ file = [i \in Item |-> None]
  /\ part \in {[i \in Item |-> None], [i \in Item |-> IF i \in Leftover THEN Append(Whole, Chunks) ELSE None]}
  /\ begun = 0
  /\ tally = [n \in Attempt |-> [before |-> 0, got |-> 0]]
  /\ faults = 0

\* A fault of the environment.
Fault ==
  /\ faults < MaxFaults
  /\ faults' = faults + 1

Goto(t, label) == pc' = [pc EXCEPT ![t] = label]

-------------------------------------------------------------------------------
(***************************************************************************)
(* Jobs and workers: create, start, cancel.                                *)
(***************************************************************************)
\* POST /api/backup/jobs: a job that was not there.
Create(j) ==
  /\ j \in Job /\ status[j] = "NONE"
  /\ status' = [status EXCEPT ![j] = "PLANNED"]
  /\ cancel' = [cancel EXCEPT ![j] = FALSE]
  /\ counted' = [counted EXCEPT ![j] = 0]
  /\ already' = [already EXCEPT ![j] = 0]
  /\ UNCHANGED <<asking, asked, pc, verdict, attempt, begun, again, done, tally, import, catalog,
                 disk, faults>>

\* A runner begins, with a fresh snapshot id and batch id to come.
Begin(t) ==
  /\ begun < MaxAttempts
  /\ begun' = begun + 1
  /\ attempt' = [attempt EXCEPT ![t] = begun + 1]
  /\ status' = [status EXCEPT ![t] = "RUNNING"]
  /\ cancel' = [cancel EXCEPT ![t] = FALSE]
  /\ asked' = asked \ {t}
  /\ verdict' = [verdict EXCEPT ![t] = "none"]
  /\ tally' = [tally EXCEPT ![begun + 1].before = counted[t]]
  /\ Goto(t, "inventory")
  /\ UNCHANGED <<asking, counted, already, again, done, import, catalog, disk, faults>>

\* start: the event is cleared under the lock, the counters stay.
StartJob(j) ==
  /\ j \in Job /\ status[j] \in {"PLANNED", "CANCELLED", "FAILED"}
  /\ Begin(j)

\* The desktop makes a new worker while its thread is not running; the command
\* line is a new process.
StartWorker(t) ==
  /\ t \in Desk \cup Cli /\ pc[t] = "off"
  /\ Begin(t)

SetEvent(t) ==
  /\ cancel' = [cancel EXCEPT ![t] = TRUE]
  /\ asked' = IF status[t] = "RUNNING" THEN asked \cup {t} ELSE asked
  /\ UNCHANGED <<status, pc, verdict, attempt, begun, counters, import, catalog, disk, faults>>

\* cancel of a job: the event is set before the lock is taken.
CancelJob(j) ==
  /\ j \in Job \ asking /\ status[j] # "NONE"
  /\ asking' = asking \cup {j}
  /\ SetEvent(j)

NoteCancel(j) ==
  /\ j \in asking
  /\ asking' = asking \ {j}
  /\ status' = IF status[j] = "PLANNED" THEN [status EXCEPT ![j] = "CANCELLED"] ELSE status
  /\ UNCHANGED <<cancel, asked, pc, verdict, attempt, begun, counters, import, catalog, disk, faults>>

\* The desktop's cancel button, enabled while the worker is there.
CancelWorker(d) ==
  /\ d \in Desk /\ pc[d] \notin {"off", "dead"}
  /\ SetEvent(d)
  /\ UNCHANGED asking

-------------------------------------------------------------------------------
(***************************************************************************)
(* The runner up to the import.                                            *)
(***************************************************************************)
Recorded == {i \in Item : sha[i] # None}
AlreadyImported(i) == sha[i] # None /\ file[i] = sha[i]
Conflict(i) == file[i] # None /\ ~AlreadyImported(i)
Conflicts == {i \in Item : Conflict(i)}
Known == {i \in Item : AlreadyImported(i)}

HasSnapshot(t) == attempt[t] # 0 /\ snapshot[attempt[t]].state # "none"

\* An exception in the runner: with a snapshot, it is closed next.
Raise(t, how) ==
  /\ verdict' = [verdict EXCEPT ![t] = how]
  /\ Goto(t, IF HasSnapshot(t) THEN "close" ELSE "end")

\* Mutant of Inventory: start leaves it to the runner to clear the event.
InventoryClears(t) ==
  /\ pc[t] = "inventory"
  /\ cancel' = [cancel EXCEPT ![t] = FALSE]
  /\ Goto(t, "plan")
  /\ UNCHANGED <<status, asking, asked, verdict, attempt, begun, counters, import, catalog, disk, faults>>

\* The folders are listed; the desktop looks at its cancel event here.
Inventory(t) ==
  /\ pc[t] = "inventory"
  /\ IF t \in Desk /\ cancel[t] THEN Raise(t, "CANCELLED")
     ELSE Goto(t, "plan") /\ UNCHANGED verdict
  /\ UNCHANGED <<status, cancel, asking, asked, attempt, begun, counters, import, catalog, disk, faults>>

InventoryFails(t) ==
  /\ pc[t] = "inventory"
  /\ Fault
  /\ Raise(t, "FAILED")
  /\ UNCHANGED <<status, cancel, asking, asked, attempt, begun, counters, import, catalog, disk>>

\* A conflict stops a job and a command before anything is written; the
\* desktop goes on to its snapshot and fails there.
Plan(t) ==
  /\ pc[t] = "plan"
  /\ IF Conflicts = {}
     THEN /\ Goto(t, IF t \in Cli THEN "import" ELSE "profile")
          /\ already' = [already EXCEPT ![t] = Cardinality(Known)]
          /\ UNCHANGED verdict
     ELSE /\ Goto(t, IF t \in Desk THEN "profile" ELSE "end")
          /\ verdict' = [verdict EXCEPT ![t] = "FAILED"]
          /\ UNCHANGED already
  /\ UNCHANGED <<status, cancel, asking, asked, attempt, begun, counted, again, done, tally,
                 import, catalog, disk, faults>>

\* upsert: the name and settings are those of the last task that ran it.
UpsertProfile(t) ==
  /\ pc[t] = "profile"
  /\ profile' = [profile EXCEPT !.saved = TRUE]
  /\ Goto(t, "snapshot")
  /\ UNCHANGED <<status, cancel, asking, asked, verdict, attempt, begun, counters, import,
                 snapshot, batch, sha, disk, faults>>

OpenSnapshot(t) ==
  /\ pc[t] = "snapshot"
  /\ snapshot' = [snapshot EXCEPT ![attempt[t]] =
                    [NoSnapshot EXCEPT !.state = "RUNNING", !.planned = Cardinality(Item)]]
  /\ Goto(t, IF verdict[t] = "FAILED" THEN "close" ELSE "import")
  /\ UNCHANGED <<status, cancel, asking, asked, verdict, attempt, begun, counters, import,
                 batch, profile, sha, disk, faults>>

\* import_source_items looks at the event, plans again and opens a batch.
OpenBatch(t) ==
  /\ pc[t] = "import"
  /\ IF cancel[t] THEN Raise(t, "CANCELLED") /\ UNCHANGED <<todo, failures, done, again, batch>>
     ELSE IF Conflicts # {} THEN Raise(t, "FAILED") /\ UNCHANGED <<todo, failures, done, again, batch>>
     ELSE /\ batch' = [batch EXCEPT ![attempt[t]] = "RUNNING"]
          /\ todo' = [todo EXCEPT ![t] = Item \ Known]
          /\ failures' = [failures EXCEPT ![t] = {}]
          /\ done' = [done EXCEPT ![t] = 0]
          /\ again' = [again EXCEPT ![t] = Cardinality(Known)]
          /\ Goto(t, "copy")
          /\ UNCHANGED verdict
  /\ UNCHANGED <<status, cancel, asking, asked, attempt, begun, counted, already, tally, stream,
                 snapshot, profile, sha, disk, faults>>

-------------------------------------------------------------------------------
(***************************************************************************)
(* The pool.  With one worker the items are streamed by the runner itself, *)
(* and the first failure ends the import; otherwise each decision has a    *)
(* future and the runner records the results as they come.                 *)
(***************************************************************************)
Sequential(t) == Pool[t] = 1
Open(t) == {i \in Item : stream[t][i] # None /\ stream[t][i].on # "done"}
Won(t) == {i \in Item : stream[t][i] # None /\ stream[t][i].on = "done"}

Fails(t, how) == failures' = [failures EXCEPT ![t] = @ \cup {how}]
Stopped(t, i) == [stream EXCEPT ![t][i] = None]

\* The handles that were open on one file of the item are open on another.
Moved(s, i, from, to) ==
  [t \in Task |-> [s[t] EXCEPT ![i] =
     IF @ # None /\ @.on = from THEN [@ EXCEPT !.on = to] ELSE @]]

\* A thread takes an item.
Take(t, i) ==
  /\ pc[t] = "copy" /\ i \in todo[t]
  /\ IF Sequential(t) THEN failures[t] = {} /\ Open(t) \cup Won(t) = {}
     ELSE Cardinality(Open(t)) < Pool[t]
  /\ todo' = [todo EXCEPT ![t] = @ \ {i}]
  /\ UNCHANGED <<control, counters, catalog, file, faults>>

TooLong(i) == part[i] # None /\ Len(part[i]) > Chunks
Full(i) == part[i] # None /\ Len(part[i]) = Chunks

\* The destination is there; or the stream before left an empty partial, which
\* open(.., "xb") refuses; or it left all of it, and the phone refuses a request
\* for what comes after its end, in each retry.
RefuseStream(t, i) ==
  /\ Take(t, i)
  /\ file[i] # None \/ (~cancel[t] /\ (part[i] = <<>> \/ Full(i)))
  /\ Fails(t, "error")
  /\ UNCHANGED <<part, stream>>

\* A partial of more than the listed size is removed and the item fails.
RemovePartial(t, i) ==
  /\ Take(t, i)
  /\ file[i] = None /\ TooLong(i)
  /\ part' = [part EXCEPT ![i] = None]
  /\ stream' = Moved(stream, i, "part", "gone")
  /\ Fails(t, "error")

CancelStream(t, i) ==
  /\ Take(t, i)
  /\ file[i] = None /\ ~TooLong(i) /\ cancel[t]
  /\ Fails(t, "cancelled")
  /\ UNCHANGED <<part, stream>>

\* The partial is made, or hashed and opened for append, whoever else has it open.
OpenStream(t, i) ==
  /\ Take(t, i)
  /\ file[i] = None /\ ~TooLong(i) /\ ~Full(i) /\ ~cancel[t] /\ part[i] # <<>>
  /\ part' = IF part[i] = None THEN [part EXCEPT ![i] = <<>>] ELSE part
  /\ stream' = [stream EXCEPT ![t][i] =
                  [sum |-> part'[i], on |-> "part", own |-> part[i] = None]]
  /\ UNCHANGED failures

Received(t, i) == i \in Open(t) /\ Len(stream[t][i].sum) = Chunks

\* What a file is after a stream has written a chunk to it.
Written(s, own, sum, chunk) ==
  IF own /\ Len(sum) < Len(s) THEN [s EXCEPT ![Len(sum) + 1] = chunk] ELSE Append(s, chunk)

\* HashingSink.write: the chunk after what the stream has counted goes to
\* whatever file its handle is open on.
Write(t, i) ==
  /\ i \in Open(t) /\ ~Received(t, i)
  /\ IF cancel[t] THEN stream' = Stopped(t, i) /\ Fails(t, "cancelled") /\ UNCHANGED disk
     ELSE LET own == stream[t][i].own
              sum == stream[t][i].sum
              next == Len(sum) + 1
              on == stream[t][i].on IN
          /\ stream' = [stream EXCEPT ![t][i].sum = Append(@, next)]
          /\ part' = IF on = "part" THEN [part EXCEPT ![i] = Written(@, own, sum, next)] ELSE part
          /\ file' = IF on = "file" THEN [file EXCEPT ![i] = Written(@, own, sum, next)] ELSE file
          /\ UNCHANGED failures
  /\ UNCHANGED <<control, counters, todo, catalog, faults>>

\* The request fails until its retries are used up; the partial stays.
GiveUp(t, i) ==
  /\ i \in Open(t) /\ ~Received(t, i)
  /\ Fault
  /\ stream' = Stopped(t, i) /\ Fails(t, "error")
  /\ UNCHANGED <<control, counters, todo, catalog, disk>>

\* The end of stream_source_to_file: the destination is looked at again, and
\* the partial of that name is renamed to it.
Publish(t, i) ==
  /\ Received(t, i) /\ file[i] = None /\ part[i] # None
  /\ file' = [file EXCEPT ![i] = part[i]]
  /\ part' = [part EXCEPT ![i] = None]
  /\ stream' = Moved([stream EXCEPT ![t][i].on = "done"], i, "part", "file")
  /\ UNCHANGED <<control, counters, todo, failures, catalog, faults>>

\* A destination that appeared is an error; a partial that is gone is a
\* transport failure, tried again.
PublishFails(t, i) ==
  /\ Received(t, i)
  /\ \/ file[i] # None /\ Fails(t, "error") /\ UNCHANGED todo
     \/ file[i] = None /\ part[i] = None /\ todo' = [todo EXCEPT ![t] = @ \cup {i}] /\ UNCHANGED failures
  /\ stream' = Stopped(t, i)
  /\ UNCHANGED <<control, counters, catalog, disk, faults>>

\* The runner records a published item, once: the location row of its path is
\* unique, and a file the user has deleted meanwhile cannot be examined.
Accept(t, i) ==
  /\ i \in Won(t) /\ sha[i] = None /\ file[i] # None
  /\ sha' = [sha EXCEPT ![i] = stream[t][i].sum]
  /\ stream' = Stopped(t, i)
  /\ done' = [done EXCEPT ![t] = @ + 1]
  /\ counted' = [counted EXCEPT ![t] = @ + 1]
  /\ tally' = [tally EXCEPT ![attempt[t]].got = @ + 1]
  /\ UNCHANGED <<control, already, again, todo, failures, snapshot, batch, profile, disk, faults>>

\* Otherwise the item fails; with one worker the exception leaves
\* import_source_items past finish_batch, and the batch stays open.
AcceptFails(t, i) ==
  /\ i \in Won(t) /\ (sha[i] # None \/ file[i] = None)
  /\ stream' = Stopped(t, i)
  /\ Fails(t, "error")
  /\ IF Sequential(t)
     THEN /\ todo' = [todo EXCEPT ![t] = {}]
          /\ Raise(t, "FAILED")
     ELSE UNCHANGED <<todo, pc, verdict>>
  /\ UNCHANGED <<status, cancel, asking, asked, attempt, begun, counters, catalog, disk, faults>>

\* Mutants of Outcome: a status the snapshots do not know; failed items are
\* left to be found in their own rows.
OutcomePartial(t) == IF failures[t] # {} THEN "PARTIAL" ELSE "COMPLETED"
OutcomeIgnoresErrors(t) == IF "cancelled" \in failures[t] THEN "CANCELLED" ELSE "COMPLETED"

\* How an import ends: a cancelled item outweighs the failed ones.
Outcome(t) ==
  IF "cancelled" \in failures[t] THEN "CANCELLED"
  ELSE IF failures[t] # {} THEN "FAILED"
  ELSE "COMPLETED"

\* Mutant of CloseBatch: the loop goes on after a failure of the only worker.
CloseBatchEmpty(t) ==
  /\ pc[t] = "copy" /\ Open(t) \cup Won(t) = {} /\ todo[t] = {}
  /\ batch' = [batch EXCEPT ![attempt[t]] = Outcome(t)]
  /\ Raise(t, Outcome(t))
  /\ UNCHANGED <<status, cancel, asking, asked, attempt, begun, counters, stream, todo, failures,
                 snapshot, profile, sha, disk, faults>>

CloseBatch(t) ==
  /\ pc[t] = "copy" /\ Open(t) \cup Won(t) = {}
  /\ todo[t] = {} \/ (Sequential(t) /\ failures[t] # {})
  /\ batch' = [batch EXCEPT ![attempt[t]] = Outcome(t)]
  /\ todo' = [todo EXCEPT ![t] = {}]
  /\ already' = IF Outcome(t) = "COMPLETED" THEN [already EXCEPT ![t] = again[t]] ELSE already
  /\ Raise(t, Outcome(t))
  /\ UNCHANGED <<status, cancel, asking, asked, attempt, begun, counted, again, done, tally, stream,
                 failures, snapshot, profile, sha, disk, faults>>

-------------------------------------------------------------------------------
(***************************************************************************)
(* The end of an attempt.                                                  *)
(***************************************************************************)
\* Mutant of Imported: a completed job reports its counter as well.
ImportedInAll(t) == counted[t]

\* A completed job reports what the import returned, otherwise the counter its
\* progress callback has kept since the job was created; the desktop's worker
\* has a counter of its own.
Imported(t) == IF t \in Job /\ verdict[t] = "COMPLETED" THEN done[t] ELSE counted[t]

Already(t) == IF t \in Job \/ verdict[t] = "COMPLETED" THEN already[t] ELSE 0

\* The bytes are those the callback has added up, also of a completed run.
CloseSnapshot(t) ==
  /\ pc[t] = "close"
  /\ snapshot' = [snapshot EXCEPT ![attempt[t]] =
       [@ EXCEPT !.state = verdict[t], !.imported = Imported(t), !.already = Already(t),
                 !.bytes = counted[t]]]
  /\ profile' = IF verdict[t] = "COMPLETED" THEN [profile EXCEPT !.last = {attempt[t]}] ELSE profile
  /\ Goto(t, "end")
  /\ UNCHANGED <<status, cancel, asking, asked, verdict, attempt, begun, counters, import,
                 batch, sha, disk, faults>>

\* Mutant of CloseFails: the exception handler does not try to close it again.
CloseFailsQuietly(t) ==
  /\ pc[t] = "close"
  /\ Fault
  /\ verdict' = [verdict EXCEPT ![t] = "FAILED"]
  /\ Goto(t, "end")
  /\ UNCHANGED <<status, cancel, asking, asked, attempt, begun, counters, import, catalog, disk>>

\* The catalog is locked for too long: a completed run is then closed as
\* failed, and an exception while that is written ends the thread.
CloseFails(t) ==
  /\ pc[t] = "close"
  /\ Fault
  /\ IF verdict[t] = "COMPLETED"
     THEN verdict' = [verdict EXCEPT ![t] = "FAILED"] /\ UNCHANGED pc
     ELSE Goto(t, "dead") /\ UNCHANGED verdict
  /\ UNCHANGED <<status, cancel, asking, asked, attempt, begun, counters, import, catalog, disk>>

\* The locals of runners that are gone; the object of a job outlives its runner,
\* a worker does not.
Forget(tasks) ==
  LET Reset(f, v) == [t \in Task |-> IF t \in tasks THEN v ELSE f[t]]
      ResetWorker(f, v) == [t \in Task |-> IF t \in tasks \ Job THEN v ELSE f[t]] IN
  /\ pc' = Reset(pc, "off")
  /\ verdict' = Reset(verdict, "none")
  /\ done' = Reset(done, 0) /\ again' = Reset(again, 0)
  /\ failures' = Reset(failures, {}) /\ todo' = Reset(todo, {})
  /\ stream' = Reset(stream, [i \in Item |-> None])
  /\ asked' = asked \ tasks
  /\ cancel' = ResetWorker(cancel, FALSE)
  /\ counted' = ResetWorker(counted, 0) /\ already' = ResetWorker(already, 0)

\* The status of the job, the signal of the worker, the exit of the command.
ShowEnd(t) ==
  /\ pc[t] = "end"
  /\ status' = [status EXCEPT ![t] = verdict[t]]
  /\ Forget({t})
  /\ UNCHANGED <<asking, attempt, begun, tally, catalog, disk, faults>>

-------------------------------------------------------------------------------
(***************************************************************************)
(* The environment.                                                        *)
(***************************************************************************)
\* A process dies, and every task in it.
Crash(tasks) ==
  /\ \E t \in tasks : pc[t] # "off"
  /\ Fault
  /\ Forget(tasks)
  /\ status' = [t \in Task |-> IF t \in tasks THEN "NONE" ELSE status[t]]
  /\ attempt' = [t \in Task |-> IF t \in tasks THEN 0 ELSE attempt[t]]
  /\ asking' = asking \ tasks
  /\ UNCHANGED <<begun, tally, catalog, disk>>

UserDeletes(i) ==
  /\ file[i] # None
  /\ Fault
  /\ file' = [file EXCEPT ![i] = None]
  /\ stream' = Moved(stream, i, "file", "gone")
  /\ UNCHANGED <<control, counters, todo, failures, catalog, part>>

UserPuts(i) ==
  /\ file[i] = None
  /\ Fault
  /\ file' = [file EXCEPT ![i] = Foreign]
  /\ UNCHANGED <<control, counters, import, catalog, part>>

Runner(t) ==
  \/ Inventory(t) \/ Plan(t) \/ UpsertProfile(t) \/ OpenSnapshot(t) \/ OpenBatch(t)
  \/ \E i \in Item :
       \/ RefuseStream(t, i) \/ RemovePartial(t, i) \/ CancelStream(t, i) \/ OpenStream(t, i)
       \/ Write(t, i) \/ Publish(t, i) \/ PublishFails(t, i) \/ Accept(t, i) \/ AcceptFails(t, i)
  \/ CloseBatch(t) \/ CloseSnapshot(t) \/ ShowEnd(t)

User ==
  \/ \E t \in Task : Create(t) \/ StartJob(t) \/ StartWorker(t)
  \/ \E t \in Task : CancelJob(t) \/ NoteCancel(t) \/ CancelWorker(t)
  \/ \E i \in Item : UserDeletes(i) \/ UserPuts(i)

Faults ==
  \/ \E t \in Task : InventoryFails(t) \/ CloseFails(t) \/ \E i \in Item : GiveUp(t, i)
  \/ Crash(Job) \/ \E t \in Desk \cup Cli : Crash({t})

Next == User \/ Faults \/ \E t \in Task : Runner(t)

Spec == Init /\ [][Next]_vars

\* The scheduler lets some runner go on.
FairSpec == Spec /\ WF_vars(\E t \in Task : Runner(t))

-------------------------------------------------------------------------------
(***************************************************************************)
(* Properties.                                                             *)
(***************************************************************************)
States == {"none", "RUNNING"} \cup Terminal
Count == 0..Cardinality(Item)
Phases == {"off", "inventory", "plan", "profile", "snapshot", "import", "copy", "close", "end", "dead"}

\* The types of the state; what is counted never exceeds the number of items,
\* however often a job is started, and no stream counts more than its chunks.
TypeOK ==
  /\ status \in [Task -> {"NONE", "PLANNED", "RUNNING"} \cup Terminal]
  /\ cancel \in [Task -> BOOLEAN] /\ asking \subseteq Job /\ asked \subseteq Task
  /\ pc \in [Task -> Phases] /\ verdict \in [Task -> {"none"} \cup Terminal]
  /\ attempt \in [Task -> 0..MaxAttempts] /\ begun \in 0..MaxAttempts
  /\ {counted, already, again, done} \subseteq [Task -> Count]
  /\ todo \in [Task -> SUBSET Item] /\ failures \in [Task -> SUBSET {"error", "cancelled"}]
  /\ stream \in [Task -> [Item -> Stream \cup {None}]]
  /\ \A t \in Task, i \in Item : stream[t][i] # None => Len(stream[t][i].sum) <= Chunks
  /\ snapshot \in [Attempt -> [state : States, planned : Count, imported : Count, already : Count,
                           bytes : Count]]
  /\ tally \in [Attempt -> [before : Count, got : Count]]
  /\ batch \in [Attempt -> States]
  /\ profile \in [saved : BOOLEAN, last : SUBSET Attempt]
  /\ {sha, file, part} \subseteq [Item -> Hash \cup {None}]
  /\ faults \in 0..MaxFaults

\* The snapshots are the history BackupHistory promises: a run is closed once,
\* is COMPLETED only when every selected item has a verified import, and
\* last_completed_at is a completed run's, whatever tasks run side by side.
History == INSTANCE BackupHistory WITH
  Run <- Attempt,
  state <- [n \in Attempt |-> snapshot[n].state],
  kept <- Recorded,
  last <- profile.last

ImplementsHistory == History!Spec

\* Whatever its streams, its plan and its user do, a backup ends: in the bounded
\* number of attempts, nothing is left RUNNING but a task whose runner raised
\* while it closed the snapshot.
BackupEnds ==
  []<>(\A t \in Task : status[t] = "RUNNING" => pc[t] = "dead")

\* From the moment a running attempt is asked to stop, it opens no stream and
\* writes no chunk, though the request takes no lock and start clears the event.
CancelSticks ==
  [][\A t \in asked, i \in Item :
       stream'[t][i] # None => stream[t][i] # None /\ stream'[t][i].sum = stream[t][i].sum]_vars

\* The numbers of a closed snapshot.  What a completed run imported is its own, and
\* with what was there it adds up to what was planned.  A job's counters outlive a
\* run: its items in a run that was cancelled or failed, and its bytes in every run,
\* are those of all runs so far, each item once; of a first run, and of a desktop's
\* transfer, they are its own.
SnapshotAddsUp ==
  \A n \in Attempt : snapshot[n].state \in Terminal =>
    LET all == tally[n].before + tally[n].got
        completed == snapshot[n].state = "COMPLETED" IN
    /\ snapshot[n].imported = IF completed THEN tally[n].got ELSE all
    /\ snapshot[n].bytes = all
    /\ completed => snapshot[n].imported + snapshot[n].already = snapshot[n].planned

\* What a task shows at the end is what its snapshot says, and a completed
\* snapshot stands for a completed batch.
StatusTellsHistory ==
  /\ \A t \in Job \cup Desk :
       pc[t] = "off" /\ HasSnapshot(t) /\ status[t] \in Terminal =>
         snapshot[attempt[t]].state = status[t]
  /\ \A n \in Attempt : snapshot[n].state = "COMPLETED" => batch[n] = "COMPLETED"

\* A file with a verified import on record is the photo, unless the user has
\* removed it or put another in its place.
RecordedIsPhoto == \A i \in Recorded : file[i] \in {None, Foreign, Whole}
===============================================================================
