----------------------------- MODULE SourceImport -----------------------------
(***************************************************************************)
(* Import from a phone: plan_source_import, stream_source_to_file and      *)
(* import_source_items of photovault/backup/source_import.py.              *)
(*                                                                         *)
(* An import lists the phone, plans, and streams the new items on a pool   *)
(* of worker threads, each into "<name>.photomanager-partial", which is    *)
(* renamed to its final name when the size agrees.  The calling thread     *)
(* records the finished streams in the catalog.  Meanwhile the connection  *)
(* drops, photos are edited on the phone, the user cancels or touches the  *)
(* destination folder, the process dies or the power fails.                *)
(*                                                                         *)
(* Abstractions.  An object is a sequence of chunks; a chunk is identified *)
(* with the version of the object it belongs to (its index is its place),  *)
(* so that a hash is the sequence itself.  The size and modification time  *)
(* of a listing are its version.  No caller in src/ gives an item an       *)
(* expected_sha256, so that check is left out.  A source_imports row and   *)
(* the asset_locations row of its path are written in one transaction and  *)
(* stand for each other.                                                   *)
(***************************************************************************)
EXTENDS Integers, Sequences, FiniteSets

CONSTANTS
  Item,            \* objects selected on the phone, with distinct destinations
  Version,         \* versions of an object
  SizeOf,          \* chunks of each version
  RetryAttempts,   \* retry_attempts
  BatchFiles,      \* batch_files
  MaxWorkers,      \* bound: workers
  MaxEvents,       \* bound: dropped connections, cancels, edits and crashes in all
  MaxImports,      \* bound: imports
  Absent,          \* no file
  Torn,            \* a file that lost its blocks in a power failure
  None             \* no record

File == Seq(Version)
Recorded == [listed : Version, sha : File]

ASSUME SourceImportConstants ==
  /\ SizeOf \in [Version -> Nat \ {0}]
  /\ RetryAttempts \in Nat
  /\ BatchFiles \in Nat \ {0}
  /\ MaxWorkers \in Nat \ {0}
  /\ MaxEvents \in Nat /\ MaxImports \in Nat
  /\ Absent \notin File /\ Torn \notin File /\ Absent # Torn
  /\ None \notin Version /\ None \notin Recorded

VARIABLES
  phone,     \* the version of each object on the phone
  ranged,    \* the source has the range_read capability
  final,     \* the files at their final names
  partial,   \* the .photomanager-partial files
  synced,    \* the final files whose content was flushed to the disk
  recorded,  \* source_imports: listed version and hash of the last import
  journal,   \* operations: the status of the newest operation of each item
  batch,     \* import_batches: the newest row
  imp,       \* the locals of import_source_items
  thread,    \* the locals of stream_with_retry for each item
  cancelled, \* the cancel event
  touched,   \* history: destinations the user has touched
  late,      \* history: files that appeared after the last look at their name
  count      \* history: events and imports so far

disk == <<final, partial, synced>>
catalog == <<recorded, journal, batch>>
history == <<touched, late, count>>
vars == <<phone, ranged, disk, catalog, imp, thread, cancelled, history>>

Whole(v) == [k \in 1..SizeOf[v] |-> v]

NoThread == [phase |-> "off", tries |-> 0, sent |-> None, digest |-> <<>>]
NoImport == [running |-> FALSE, workers |-> 1, mode |-> "batch",
             listed |-> [i \in Item |-> None], pending |-> {}]

Init ==
  /\ phone \in [Item -> Version]
  /\ ranged \in BOOLEAN
  /\ final = [i \in Item |-> Absent]
  /\ partial = [i \in Item |-> Absent]
  /\ synced = {}
  /\ recorded = [i \in Item |-> None]
  /\ journal = [i \in Item |-> "none"]
  /\ batch = "none"
  /\ imp = NoImport
  /\ thread = [i \in Item |-> NoThread]
  /\ cancelled = FALSE
  /\ touched = {}
  /\ late = {}
  /\ count = [events |-> 0, imports |-> 0]

\* An event of the environment.
Event ==
  /\ count.events < MaxEvents
  /\ count' = [count EXCEPT !.events = @ + 1]

In(phases) == {i \in Item : thread[i].phase \in phases}
Streaming == {"retry", "request", "stream", "check", "publish"}
Goto(i, phase) == thread' = [thread EXCEPT ![i].phase = phase]

-------------------------------------------------------------------------------
(***************************************************************************)
(* Planning.                                                               *)
(***************************************************************************)
\* The newest import of the item has the listed size and time, and the file
\* has the recorded hash.
AlreadyImported(i) ==
  /\ recorded[i] # None
  /\ recorded[i].listed = phone[i]
  /\ recorded[i].sha = final[i]

Conflict(i) == final[i] # Absent /\ ~AlreadyImported(i)

\* List the phone, plan, and open a batch; a plan with a conflict is refused.
StartImport(workers, mode) ==
  /\ ~imp.running
  /\ count.imports < MaxImports
  /\ \A i \in Item : ~Conflict(i)
  /\ count' = [count EXCEPT !.imports = @ + 1]
  /\ imp' = [running |-> TRUE, workers |-> workers, mode |-> mode,
             listed |-> phone, pending |-> {}]
  /\ thread' = [i \in Item |-> IF AlreadyImported(i) THEN NoThread
                               ELSE [NoThread EXCEPT !.phase = "queued"]]
  /\ batch' = "RUNNING"
  /\ cancelled' = FALSE
  /\ late' = {}
  /\ UNCHANGED <<phone, ranged, disk, recorded, journal, touched>>

-------------------------------------------------------------------------------
(***************************************************************************)
(* A worker thread: stream_with_retry around stream_source_to_file.        *)
(***************************************************************************)
WorkerOthers == UNCHANGED <<phone, ranged, catalog, imp, cancelled, touched>>

Remove(i) == partial' = [partial EXCEPT ![i] = Absent]

\* Faulty variant: one retry too many.
TransportOnceMore(i) ==
  IF thread[i].tries <= RetryAttempts
  THEN thread' = [thread EXCEPT ![i].phase = "retry", ![i].tries = @ + 1]
  ELSE Goto(i, "failed")

\* Any other exception than ImportCancelled, ValueError, FileExistsError and
\* PermissionError is retried.
Transport(i) ==
  IF thread[i].tries < RetryAttempts
  THEN thread' = [thread EXCEPT ![i].phase = "retry", ![i].tries = @ + 1]
  ELSE Goto(i, "failed")

\* workers = 1 goes on to the next item only when the one before is recorded.
MayBegin(i) ==
  \/ thread[i].phase = "retry"
  \/ /\ thread[i].phase = "queued"
     /\ imp.running
     /\ IF imp.workers = 1 THEN In({"off", "queued", "recorded"}) = Item
        ELSE Cardinality(In(Streaming)) < imp.workers

Fresh(i) == [thread EXCEPT ![i].phase = "request", ![i].digest = <<>>]

\* Faulty variant: a partial is appended to without being hashed again.
OpenUnhashed(i) ==
  /\ ~cancelled
  /\ \/ /\ partial[i] = Absent
        /\ partial' = [partial EXCEPT ![i] = <<>>]
     \/ /\ partial[i] # Absent
        /\ UNCHANGED partial
  /\ thread' = Fresh(i)

\* "xb" creates the file and refuses one that is there, even an empty one.
OpenPartial(i) ==
  /\ ~cancelled
  /\ \/ /\ partial[i] = Absent
        /\ partial' = [partial EXCEPT ![i] = <<>>]
        /\ thread' = Fresh(i)
     \/ /\ partial[i] = <<>>
        /\ Goto(i, "failed")
        /\ UNCHANGED partial
     \/ /\ partial[i] \notin {Absent, <<>>}
        /\ thread' = [thread EXCEPT ![i].phase = "request", ![i].digest = partial[i]]
        /\ UNCHANGED partial

\* A partial left by an earlier attempt that this one may go on with.
TooLong(i) == partial[i] # Absent /\ Len(partial[i]) > SizeOf[imp.listed[i]]
Usable(i) == partial[i] = Absent \/ (ranged /\ ~TooLong(i))

Open(i) ==
  /\ MayBegin(i)
  /\ \/ final[i] # Absent /\ Goto(i, "failed") /\ UNCHANGED partial
     \/ /\ final[i] = Absent /\ partial[i] # Absent /\ ~ranged
        /\ Transport(i) /\ UNCHANGED partial
     \/ /\ final[i] = Absent /\ ranged /\ TooLong(i)
        /\ Remove(i) /\ Goto(i, "failed")
     \/ final[i] = Absent /\ Usable(i) /\ cancelled /\ Goto(i, "cancelled") /\ UNCHANGED partial
     \/ final[i] = Absent /\ Usable(i) /\ OpenPartial(i)
  /\ UNCHANGED <<final, synced, late, count>> /\ WorkerOthers

\* The phone answers a range that starts at or after the end with 416.
Request(i) ==
  /\ thread[i].phase = "request"
  /\ IF thread[i].digest # <<>> /\ Len(thread[i].digest) >= SizeOf[phone[i]]
     THEN Transport(i)
     ELSE thread' = [thread EXCEPT ![i].phase = "stream", ![i].sent = phone[i]]
  /\ UNCHANGED <<disk, late, count>> /\ WorkerOthers

Chunk(i) ==
  /\ thread[i].phase = "stream"
  /\ Len(thread[i].digest) < SizeOf[thread[i].sent]
  /\ \/ cancelled /\ Goto(i, "cancelled") /\ UNCHANGED partial
     \/ /\ ~cancelled
        /\ partial' = [partial EXCEPT ![i] = Append(@, thread[i].sent)]
        /\ thread' = [thread EXCEPT ![i].digest = Append(@, thread[i].sent)]
  /\ UNCHANGED <<final, synced, late, count>> /\ WorkerOthers

EndOfStream(i) ==
  /\ thread[i].phase = "stream"
  /\ Len(thread[i].digest) = SizeOf[thread[i].sent]
  /\ Goto(i, "check")
  /\ UNCHANGED <<disk, late, count>> /\ WorkerOthers

\* The connection drops: an exception, or an early end of the response.
Drop(i) ==
  /\ thread[i].phase \in {"request", "stream"}
  /\ Event
  /\ \/ Transport(i)
     \/ thread[i].phase = "stream" /\ Goto(i, "check")
  /\ UNCHANGED <<disk, late>> /\ WorkerOthers

\* Faulty variant: the size is not compared.
CheckName(i) ==
  /\ thread[i].phase = "check"
  /\ Goto(i, IF final[i] # Absent THEN "failed" ELSE "publish")
  /\ UNCHANGED partial
  /\ late' = late \ {i}
  /\ UNCHANGED <<final, synced, count>> /\ WorkerOthers

\* Faulty variant: the name was looked at before the stream, that is enough.
CheckSize(i) ==
  /\ thread[i].phase = "check"
  /\ \/ Len(thread[i].digest) # SizeOf[imp.listed[i]] /\ Remove(i) /\ Goto(i, "failed")
     \/ /\ Len(thread[i].digest) = SizeOf[imp.listed[i]]
        /\ Goto(i, "publish")
        /\ UNCHANGED partial
  /\ late' = late \ {i}
  /\ UNCHANGED <<final, synced, count>> /\ WorkerOthers

\* A payload of the wrong size is removed, an appeared destination stops it.
CheckPartial(i) ==
  /\ thread[i].phase = "check"
  /\ \/ Len(thread[i].digest) # SizeOf[imp.listed[i]] /\ Remove(i) /\ Goto(i, "failed")
     \/ /\ Len(thread[i].digest) = SizeOf[imp.listed[i]]
        /\ Goto(i, IF final[i] # Absent THEN "failed" ELSE "publish")
        /\ UNCHANGED partial
  /\ late' = late \ {i}
  /\ UNCHANGED <<final, synced, count>> /\ WorkerOthers

\* os.replace
Publish(i) ==
  /\ thread[i].phase = "publish"
  /\ final' = [final EXCEPT ![i] = partial[i]]
  /\ Remove(i)
  /\ synced' = IF imp.mode = "per-file" THEN synced \cup {i} ELSE synced \ {i}
  /\ Goto(i, "done")
  /\ UNCHANGED <<late, count>> /\ WorkerOthers

Worker(i) == Open(i) \/ Request(i) \/ Chunk(i) \/ EndOfStream(i) \/ CheckPartial(i) \/ Publish(i)

-------------------------------------------------------------------------------
(***************************************************************************)
(* The calling thread: one finished stream at a time, in any order.        *)
(***************************************************************************)
MainOthers == UNCHANGED <<phone, ranged, final, partial, cancelled, history>>

\* _record_successful_import commits a RUNNING operation first.
BeginRecord(i) ==
  /\ thread[i].phase = "done"
  /\ In({"recording"}) = {}
  /\ journal' = [journal EXCEPT ![i] = "RUNNING"]
  /\ Goto(i, "recording")
  /\ UNCHANGED <<synced, recorded, batch, imp>> /\ MainOthers

\* fsync of every file of a batch; a file that is gone raises OSError.
Flushed(files) == \A i \in files : final[i] # Absent

\* The import leaves its loop by an exception; what it had no handler for
\* leaves the batch as it is.
Leave(status) ==
  /\ batch' = status
  /\ imp' = NoImport
  /\ thread' = [i \in Item |-> NoThread]

FailItem(i) ==
  /\ journal' = [journal EXCEPT ![i] = "FAILED"]
  /\ IF imp.workers = 1 THEN Leave("FAILED") ELSE (Goto(i, "bad") /\ UNCHANGED <<batch, imp>>)

\* The rest of accept_result.  A path that already has a location row
\* refuses the insert, a file that is gone cannot be stat'ed; only the
\* parallel loop handles that.
Recordable(i) == recorded[i] = None /\ final[i] # Absent

Record(i) == recorded' = [recorded EXCEPT ![i] = [listed |-> imp.listed[i], sha |-> thread[i].digest]]

AcceptResult(i) ==
  /\ thread[i].phase = "recording"
  /\ Recordable(i)
  /\ Record(i)
  /\ LET pending == IF imp.mode = "batch" THEN imp.pending \cup {i} ELSE imp.pending
         flush == Cardinality(pending) >= BatchFiles
     IN  \/ /\ flush => Flushed(pending)
            /\ synced' = IF flush THEN synced \cup pending ELSE synced
            /\ journal' = [journal EXCEPT ![i] = "COMPLETED"]
            /\ imp' = [imp EXCEPT !.pending = IF flush THEN {} ELSE pending]
            /\ Goto(i, "recorded")
            /\ UNCHANGED batch
         \/ /\ flush /\ ~Flushed(pending)
            /\ IF imp.workers = 1
               THEN Leave(batch) /\ journal' = [journal EXCEPT ![i] = "COMPLETED"]
               ELSE /\ journal' = [journal EXCEPT ![i] = "FAILED"]
                    /\ imp' = [imp EXCEPT !.pending = pending]
                    /\ Goto(i, "bad")
                    /\ UNCHANGED batch
            /\ UNCHANGED synced
  /\ MainOthers

Unrecorded(i) == IF imp.workers = 1 THEN Leave(batch) /\ UNCHANGED journal ELSE FailItem(i)

RefuseResult(i) ==
  /\ thread[i].phase = "recording"
  /\ ~Recordable(i)
  /\ Unrecorded(i)
  /\ UNCHANGED <<synced, recorded>> /\ MainOthers

\* _record_failed_import
RecordFailure(i) ==
  /\ thread[i].phase = "failed"
  /\ In({"recording"}) = {}
  /\ FailItem(i)
  /\ UNCHANGED <<synced, recorded>> /\ MainOthers

\* Faulty variant: the first cancelled stream closes the batch.
LeaveCancelled(i) ==
  /\ thread[i].phase = "cancelled"
  /\ In({"recording"}) = {}
  /\ Leave("CANCELLED")
  /\ UNCHANGED <<synced, recorded, journal>> /\ MainOthers

NoteCancelled(i) ==
  /\ thread[i].phase = "cancelled"
  /\ In({"recording"}) = {}
  /\ IF imp.workers = 1 THEN Leave("CANCELLED") ELSE (Goto(i, "halted") /\ UNCHANGED <<batch, imp>>)
  /\ UNCHANGED <<synced, recorded, journal>> /\ MainOthers

\* Faulty variant: what is left of the last batch is not flushed.
FinishUnflushed ==
  /\ imp.running
  /\ In({"off", "recorded", "bad", "halted"}) = Item
  /\ \/ In({"halted"}) # {} /\ Leave("CANCELLED")
     \/ In({"halted"}) = {} /\ In({"bad"}) # {} /\ Leave("FAILED")
     \/ In({"halted", "bad"}) = {} /\ Leave("COMPLETED")
  /\ UNCHANGED <<synced, recorded, journal>> /\ MainOthers

\* Faulty variant: waits for every stream to succeed or be cancelled.
FinishGood ==
  /\ imp.running
  /\ In({"off", "recorded", "halted"}) = Item
  /\ \/ In({"halted"}) # {} /\ Leave("CANCELLED") /\ UNCHANGED synced
     \/ In({"halted"}) = {} /\ synced' = synced \cup imp.pending /\ Leave("COMPLETED")
  /\ UNCHANGED <<recorded, journal>> /\ MainOthers

\* Every stream is over: close the batch.
Finish ==
  /\ imp.running
  /\ In({"off", "recorded", "bad", "halted"}) = Item
  /\ \/ In({"halted"}) # {} /\ Leave("CANCELLED") /\ UNCHANGED synced
     \/ In({"halted"}) = {} /\ In({"bad"}) # {} /\ Leave("FAILED") /\ UNCHANGED synced
     \/ /\ In({"halted", "bad"}) = {}
        /\ \/ Flushed(imp.pending) /\ synced' = synced \cup imp.pending /\ Leave("COMPLETED")
           \/ ~Flushed(imp.pending) /\ Leave(batch) /\ UNCHANGED synced
  /\ UNCHANGED <<recorded, journal>> /\ MainOthers

Caller(i) == BeginRecord(i) \/ AcceptResult(i) \/ RefuseResult(i) \/ RecordFailure(i)
               \/ NoteCancelled(i)

-------------------------------------------------------------------------------
(***************************************************************************)
(* The environment.                                                        *)
(***************************************************************************)
\* Another program holds the catalog's lock for longer than the connection
\* waits: accept_result raises, and the published file stays unrecorded.
RecordFails(i) ==
  /\ \/ thread[i].phase = "done" /\ In({"recording"}) = {}
     \/ thread[i].phase = "recording"
  /\ Event
  /\ Unrecorded(i)
  /\ UNCHANGED <<phone, ranged, disk, recorded, cancelled, touched, late>>

Cancel ==
  /\ imp.running /\ ~cancelled
  /\ Event
  /\ cancelled' = TRUE
  /\ UNCHANGED <<phone, ranged, disk, catalog, imp, thread, touched, late>>

\* A photo is edited on the phone.
PhoneEdit(i, v) ==
  /\ phone[i] # v
  /\ Event
  /\ phone' = [phone EXCEPT ![i] = v]
  /\ UNCHANGED <<ranged, disk, catalog, imp, thread, cancelled, touched, late>>

\* The user puts a file at a destination, or takes one away.
UserTouch(i, f) ==
  /\ final[i] # f
  /\ Event
  /\ final' = [final EXCEPT ![i] = f]
  /\ touched' = touched \cup {i}
  /\ late' = late \cup {i}
  /\ UNCHANGED <<phone, ranged, partial, synced, catalog, imp, thread, cancelled>>

\* The process dies: chunks still in a buffer are lost.  In a power failure
\* so is the content of final files that were not flushed (renames survive).
Crash(lost, kept) ==
  /\ Event
  /\ final' = [i \in Item |-> IF i \in lost /\ final[i] # Absent THEN Torn ELSE final[i]]
  /\ partial' = [i \in Item |-> IF thread[i].phase = "stream" /\ Len(partial[i]) > kept
                                THEN SubSeq(partial[i], 1, kept) ELSE partial[i]]
  /\ imp' = NoImport
  /\ thread' = [i \in Item |-> NoThread]
  /\ UNCHANGED <<phone, ranged, synced, catalog, cancelled, touched, late>>

Next ==
  \/ \E w \in 1..MaxWorkers, m \in {"per-file", "batch"} : StartImport(w, m)
  \/ \E i \in Item : Worker(i) \/ Caller(i) \/ Drop(i) \/ RecordFails(i)
  \/ Finish
  \/ Cancel
  \/ \E i \in Item, v \in Version : PhoneEdit(i, v) \/ UserTouch(i, Whole(v))
  \/ \E i \in Item : UserTouch(i, Absent)
  \/ \E lost \in SUBSET (Item \ synced), kept \in UNION {0..SizeOf[v] : v \in Version} :
       Crash(lost, kept)

\* The threads run on while the process lives.
Program == Finish \/ \E i \in Item : Worker(i) \/ Caller(i)

Spec == Init /\ [][Next]_vars
FairSpec == Spec /\ WF_vars(Program)

-------------------------------------------------------------------------------
(***************************************************************************)
(* Properties.                                                             *)
(***************************************************************************)
Phase == {"off", "queued", "retry", "request", "stream", "check", "publish", "done", "recording",
          "recorded", "failed", "bad", "cancelled", "halted"}

\* The variables have their types.
TypeOK ==
  /\ phone \in [Item -> Version] /\ ranged \in BOOLEAN
  /\ final \in [Item -> {Absent, Torn} \cup File]
  /\ partial \in [Item -> {Absent} \cup File]
  /\ synced \subseteq Item
  /\ recorded \in [Item -> {None} \cup Recorded]
  /\ journal \in [Item -> {"none", "RUNNING", "COMPLETED", "FAILED"}]
  /\ batch \in {"none", "RUNNING", "COMPLETED", "CANCELLED", "FAILED"}
  /\ imp \in [running: BOOLEAN, workers: 1..MaxWorkers, mode: {"per-file", "batch"},
              listed: [Item -> Version \cup {None}], pending: SUBSET Item]
  /\ thread \in [Item -> [phase: Phase, tries: 0..RetryAttempts, sent: Version \cup {None},
                         digest: File]]
  /\ cancelled \in BOOLEAN
  /\ touched \subseteq Item /\ late \subseteq Item
  /\ count \in [events: Nat, imports: Nat]

\* A verified import is the file that has the recorded hash: the digest that
\* was computed from the stream and a re-read prefix is the hash of what was
\* published, through drops, retries, cancels and restarts.
RecordedIsFile ==
  \A i \in Item \ touched :
    recorded[i] # None /\ final[i] # Torn => final[i] = recorded[i].sha

\* "Batch mode never exposes a partial filename": a step of the import that
\* puts a file at a final name puts one of the listed size there.
PublishedIsWhole ==
  [][\A i \in Item : thread' # thread /\ final'[i] \notin {final[i], Torn} =>
       Len(final'[i]) = SizeOf[imp.listed[i]]]_vars

\* "No destination overwrite is allowed": no step of the import changes a file
\* at a final name, except one that appeared after the last look.
NothingOverwritten ==
  [][\A i \in Item \ late : thread' # thread /\ final[i] \notin {Absent, Torn} =>
       final'[i] \in {final[i], Torn}]_vars

\* An import that has closed its batch accounts for every file it published,
\* also those of the streams that went on after another one failed or was
\* cancelled: the file is recorded, or its record failed (a locked catalog),
\* the newest operation of the item is FAILED, and the batch is not COMPLETED.
PublishedIsRecorded ==
  ~imp.running /\ batch # "RUNNING" =>
    \A i \in Item \ touched : final[i] \notin {Absent, Torn} =>
      recorded[i] # None \/ (journal[i] = "FAILED" /\ batch # "COMPLETED")

\* A batch that ends COMPLETED has recorded all it planned, and flushed the
\* content of every file it published.
CompletedIsDurable ==
  [][batch # "COMPLETED" /\ batch' = "COMPLETED" =>
       \A i \in Item : thread[i].phase # "off" =>
         journal[i] = "COMPLETED" /\ recorded[i].sha = thread[i].digest /\ i \in synced']_vars

\* An import ends, whatever its streams run into.
ImportEnds == imp.running ~> ~imp.running

\* Said of stream_source_to_file: "A Companion source that advertises
\* range_read resumes a retained partial file after a transport interruption."
\* The retry of a stream nobody interfered with gets to ask the phone again.
RetryResumes ==
  [][\A i \in Item :
       /\ thread[i].phase = "retry" /\ thread'[i].phase \notin {"retry", "off"}
       /\ ranged /\ ~cancelled /\ i \notin touched
       => thread'[i].phase = "request"]_vars

\* Said of the same partial: "it is never trusted merely because its filename
\* matches."  A verified import is one version of the photo.
ImportIsOneVersion ==
  \A i \in Item : recorded[i] # None => \E v \in Version : recorded[i].sha = Whole(v)
===============================================================================
