-------------------------- MODULE SourceImportProofs --------------------------
(***************************************************************************)
(* Proofs about SourceImport, for every set of photos and versions, any    *)
(* number of workers, retries, imports, drops, edits and crashes: what an  *)
(* import publishes is whole, recorded and durable, and overwrites nothing.*)
(***************************************************************************)
EXTENDS SourceImport, SequenceTheorems, TLAPS

Idle == {"off", "queued", "recorded"}

\* Before the file of the item is published, or without it.
Before == Streaming \cup {"queued", "failed", "cancelled", "halted"}

\* An import has its batch open; without one no thread is left; one worker
\* has one item in hand.
RunInv ==
  /\ imp.running => batch = "RUNNING" /\ imp.listed \in [Item -> Version]
  /\ ~imp.running => \A i \in Item : thread[i].phase = "off"
  /\ imp.workers = 1 =>
       \A i, j \in Item : thread[i].phase \notin Idle /\ thread[j].phase \notin Idle => i = j

\* What a stream has hashed is what is in its partial.
PartialOf(i) ==
  /\ thread[i].phase \in {"request", "stream", "check", "publish"} => partial[i] = thread[i].digest
  /\ thread[i].phase = "stream" => thread[i].sent \in Version
  /\ thread[i].phase = "publish" =>
       /\ Len(thread[i].digest) = SizeOf[imp.listed[i]]
       /\ i \notin late => final[i] = Absent

\* What is at a destination nobody touched, phase by phase.
FinalOf(i) ==
  i \notin touched =>
    /\ thread[i].phase \in Before => final[i] = Absent
    /\ thread[i].phase \in {"done", "recording"} => final[i] = thread[i].digest
    /\ thread[i].phase \in Streaming \cup {"queued", "done", "recording"} => recorded[i] = None
    /\ recorded[i] # None /\ final[i] # Torn => final[i] = recorded[i].sha
    /\ final[i] \notin {Absent, Torn} /\ recorded[i] = None =>
         /\ imp.running => \/ thread[i].phase \in {"done", "recording"}
                           \/ thread[i].phase = "bad" /\ journal[i] = "FAILED"
         /\ ~imp.running /\ batch # "RUNNING" => journal[i] = "FAILED" /\ batch # "COMPLETED"

\* What is recorded is flushed, or waits for it.
DurableOf(i) ==
  /\ thread[i].phase \in {"done", "recording", "recorded"} /\ imp.mode = "per-file" => i \in synced
  /\ thread[i].phase = "recorded" =>
       /\ journal[i] = "COMPLETED"
       /\ recorded[i] # None /\ recorded[i].sha = thread[i].digest
       /\ i \in synced \cup imp.pending

ItemInv == \A i \in Item : PartialOf(i) /\ FinalOf(i) /\ DurableOf(i)

IInv == TypeOK /\ RunInv /\ ItemInv

Locals == [phase: Phase, tries: 0..RetryAttempts, sent: Version \cup {None}, digest: File]
Run == [running: BOOLEAN, workers: 1..MaxWorkers, mode: {"per-file", "batch"},
        listed: [Item -> Version \cup {None}], pending: SUBSET Item]

-------------------------------------------------------------------------------
(***************************************************************************)
(* Sequences of chunks, and the parts of the state one step writes.        *)
(***************************************************************************)
\* A version as a file, a file with one more chunk, and a file cut short.
LEMMA Chunks ==
  /\ \A v \in Version : Whole(v) \in File
  /\ <<>> \in File
  /\ \A f \in File, v \in Version : Append(f, v) \in File
  /\ \A f \in File, k \in Nat : Len(f) > k => SubSeq(f, 1, k) \in File
  /\ \A f \in File : Len(f) \in Nat
<1>1. ASSUME NEW v \in Version PROVE Whole(v) \in File
  <2>1. SizeOf[v] \in Nat
    BY SourceImportConstants
  <2>2. \A k \in 1..SizeOf[v] : v \in Version
    OBVIOUS
  <2> QED BY <2>1, <2>2, SeqDef DEF Whole, File
<1>2. ASSUME NEW f \in File, NEW k \in Nat, Len(f) > k PROVE SubSeq(f, 1, k) \in File
  <2>1. \A n \in 1..k : f[n] \in Version
    BY <1>2, ElementOfSeq DEF File
  <2> QED BY <2>1, SubSeqProperties DEF File
<1> QED BY <1>1, <1>2 DEF File

\* The fields of the locals.
LEMMA ThreadTyped ==
  ASSUME TypeOK, NEW i \in Item
  PROVE  /\ thread[i] \in Locals
         /\ thread[i].phase \in Phase /\ thread[i].digest \in File
         /\ thread[i].tries \in 0..RetryAttempts /\ thread[i].sent \in Version \cup {None}
         /\ imp \in Run
         /\ imp.pending \subseteq Item /\ imp.listed \in [Item -> Version \cup {None}]
         /\ imp.workers \in 1..MaxWorkers /\ imp.running \in BOOLEAN
         /\ imp.mode \in {"per-file", "batch"}
  BY DEF TypeOK, Locals, Run

\* The other threads keep their locals.
Moved(i) == thread' \in [Item -> Locals] /\ \A j \in Item \ {i} : thread'[j] = thread[j]

LEMMA GotoStep ==
  ASSUME TypeOK, NEW i \in Item, NEW p \in Phase, Goto(i, p)
  PROVE  /\ Moved(i)
         /\ thread'[i].phase = p /\ thread'[i].digest = thread[i].digest
         /\ thread'[i].sent = thread[i].sent
<1>1. thread \in [Item -> Locals]
  BY DEF TypeOK, Locals
<1> QED BY <1>1 DEF Goto, Moved, Locals

LEMMA RequestWith ==
  ASSUME TypeOK, NEW i \in Item, NEW f \in File,
         thread' = [thread EXCEPT ![i].phase = "request", ![i].digest = f]
  PROVE  Moved(i) /\ thread'[i].phase = "request" /\ thread'[i].digest = f
<1>1. thread \in [Item -> Locals]
  BY DEF TypeOK, Locals
<1> QED BY <1>1 DEF Moved, Locals, Phase

LEMMA TransportStep ==
  ASSUME TypeOK, NEW i \in Item, Transport(i)
  PROVE  /\ Moved(i)
         /\ thread'[i].phase \in {"retry", "failed"} /\ thread'[i].digest = thread[i].digest
<1>1. thread \in [Item -> Locals]
  BY DEF TypeOK, Locals
<1>2. thread[i].tries < RetryAttempts => thread[i].tries + 1 \in 0..RetryAttempts
  BY ThreadTyped, SourceImportConstants
<1>3. CASE thread[i].tries < RetryAttempts
  <2>1. thread' = [thread EXCEPT ![i].phase = "retry", ![i].tries = @ + 1]
    BY <1>3 DEF Transport
  <2> QED BY <1>1, <1>2, <1>3, <2>1 DEF Moved, Locals, Phase
<1>4. CASE ~(thread[i].tries < RetryAttempts)
  BY <1>4, GotoStep DEF Transport, Phase
<1> QED BY <1>3, <1>4

\* A step of one item: what the others have stays, what is flushed or waits
\* for it too, and one worker still has one item in hand.
OthersKeep(i) ==
  /\ Moved(i)
  /\ imp.running /\ imp'.running /\ batch' = batch
  /\ imp'.workers = imp.workers /\ imp'.mode = imp.mode /\ imp'.listed = imp.listed
  /\ touched' = touched
  /\ \A j \in Item \ {i} :
       /\ partial'[j] = partial[j] /\ final'[j] = final[j]
       /\ recorded'[j] = recorded[j] /\ journal'[j] = journal[j]
       /\ j \in late' <=> j \in late
       /\ j \in synced => j \in synced'
       /\ j \in imp.pending => j \in synced' \cup imp'.pending
  /\ imp.workers = 1 /\ thread'[i].phase \notin Idle =>
       \A j \in Item \ {i} : thread[j].phase \in Idle

LEMMA OneItem ==
  ASSUME IInv, NEW i \in Item, OthersKeep(i), TypeOK', (PartialOf(i) /\ FinalOf(i) /\ DurableOf(i))'
  PROVE  IInv'
<1>1. RunInv'
  BY DEF IInv, RunInv, OthersKeep, Moved
<1>2. ASSUME NEW j \in Item PROVE (PartialOf(j) /\ FinalOf(j) /\ DurableOf(j))'
  <2>1. CASE j = i
    BY <2>1
  <2>2. CASE j # i
    <3>1. PartialOf(j) /\ FinalOf(j) /\ DurableOf(j)
      BY DEF IInv, ItemInv
    <3> USE <2>2 DEF OthersKeep, Moved
    <3>2. PartialOf(j)'
      BY <3>1 DEF PartialOf
    <3>3. FinalOf(j)'
      BY <3>1 DEF FinalOf
    <3>4. DurableOf(j)'
      BY <3>1 DEF DurableOf
    <3> QED BY <3>2, <3>3, <3>4
  <2> QED BY <2>1, <2>2
<1> QED BY <1>1, <1>2 DEF IInv, ItemInv

\* What a worker's step leaves alone, when it has an item in hand.
LEMMA WorkerKeeps ==
  ASSUME IInv, NEW i \in Item, WorkerOthers, Moved(i),
         thread[i].phase \notin {"off"},
         partial' \in [Item -> {Absent} \cup File], final' \in [Item -> {Absent, Torn} \cup File],
         synced' \subseteq Item, late' \subseteq Item, count' \in [events: Nat, imports: Nat],
         \A j \in Item \ {i} : partial'[j] = partial[j] /\ final'[j] = final[j],
         \A j \in Item \ {i} : (j \in late' <=> j \in late) /\ (j \in synced => j \in synced'),
         imp.workers = 1 /\ thread[i].phase \in Idle => \A j \in Item \ {i} : thread[j].phase \in Idle
  PROVE  TypeOK' /\ OthersKeep(i)
<1>1. TypeOK'
  BY DEF IInv, TypeOK, WorkerOthers, catalog, Moved, Locals
<1>2. imp.running
  BY ThreadTyped DEF IInv, RunInv
<1>3. imp.workers = 1 => \A j \in Item \ {i} : thread[j].phase \in Idle
  BY DEF IInv, RunInv
<1> QED BY <1>1, <1>2, <1>3 DEF OthersKeep, WorkerOthers, catalog

-------------------------------------------------------------------------------
(***************************************************************************)
(* The worker threads keep the invariant.                                  *)
(***************************************************************************)
\* The invariant of one item, with its parts.
LEMMA ItemParts ==
  ASSUME IInv, NEW i \in Item
  PROVE  /\ TypeOK /\ PartialOf(i) /\ FinalOf(i) /\ DurableOf(i)
         /\ thread[i].phase # "off" => imp.running /\ batch = "RUNNING" /\ imp.listed \in [Item -> Version]
         /\ partial[i] \in {Absent} \cup File /\ final[i] \in {Absent, Torn} \cup File
         /\ recorded[i] \in {None} \cup Recorded
  BY DEF IInv, ItemInv, RunInv, TypeOK

LEMMA OpenStep ==
  ASSUME IInv, NEW i \in Item, Open(i)
  PROVE  IInv'
<1> USE ItemParts, ThreadTyped, Chunks
<1>1. /\ WorkerOthers /\ final' = final /\ synced' = synced /\ late' = late /\ count' = count
      /\ thread[i].phase \in {"retry", "queued"}
  BY DEF Open, MayBegin
<1>2. imp.workers = 1 /\ thread[i].phase \in Idle => \A j \in Item \ {i} : thread[j].phase \in Idle
  BY DEF Open, MayBegin, Idle, In
<1>3. /\ Moved(i)
      /\ \/ thread'[i].phase \in {"failed", "retry", "cancelled"}
         \/ thread'[i].phase = "request" /\ partial'[i] = thread'[i].digest
      /\ thread'[i].phase # "failed" => final[i] = Absent
      /\ partial' \in [Item -> {Absent} \cup File]
      /\ \A j \in Item \ {i} : partial'[j] = partial[j]
  <2>0. thread \in [Item -> Locals] /\ partial \in [Item -> {Absent} \cup File]
    BY DEF TypeOK, Locals
  <2>1. CASE final[i] # Absent /\ Goto(i, "failed") /\ UNCHANGED partial
    BY <2>0, <2>1, GotoStep DEF Phase
  <2>2. CASE final[i] = Absent /\ Transport(i) /\ UNCHANGED partial
    BY <2>0, <2>2, TransportStep
  <2>3. CASE Remove(i) /\ Goto(i, "failed")
    BY <2>0, <2>3, GotoStep DEF Remove, Phase
  <2>4. CASE final[i] = Absent /\ Goto(i, "cancelled") /\ UNCHANGED partial
    BY <2>0, <2>4, GotoStep DEF Phase
  <2>5. CASE final[i] = Absent /\ OpenPartial(i)
    <3>1. CASE partial[i] = Absent /\ partial' = [partial EXCEPT ![i] = <<>>] /\ thread' = Fresh(i)
      <4>1. Moved(i) /\ thread'[i].phase = "request" /\ thread'[i].digest = <<>>
        BY <3>1, RequestWith DEF Fresh
      <4>2. /\ partial' \in [Item -> {Absent} \cup File] /\ partial'[i] = <<>>
            /\ \A j \in Item \ {i} : partial'[j] = partial[j]
        BY <2>0, <3>1
      <4> QED BY <2>5, <4>1, <4>2
    <3>2. CASE Goto(i, "failed") /\ UNCHANGED partial
      BY <2>0, <3>2, GotoStep DEF Phase
    <3>3. CASE /\ partial[i] \notin {Absent, <<>>}
               /\ thread' = [thread EXCEPT ![i].phase = "request", ![i].digest = partial[i]]
               /\ UNCHANGED partial
      BY <2>0, <2>5, <3>3, RequestWith
    <3> QED BY <2>5, <3>1, <3>2, <3>3 DEF OpenPartial
  <2> QED BY <2>1, <2>2, <2>3, <2>4, <2>5 DEF Open
<1>4. TypeOK' /\ OthersKeep(i)
  BY <1>1, <1>2, <1>3, WorkerKeeps DEF TypeOK
<1>5. recorded' = recorded /\ touched' = touched /\ imp' = imp /\ batch' = batch
  BY <1>1 DEF WorkerOthers, catalog
<1>6. PartialOf(i)'
  BY <1>3 DEF PartialOf
<1>7. FinalOf(i)'
  <2>1. i \notin touched => final[i] = Absent /\ recorded[i] = None
    BY <1>1 DEF FinalOf, Before, Streaming
  <2>2. thread'[i].phase \notin {"done", "recording"}
    BY <1>3
  <2> QED BY <1>1, <1>5, <2>1, <2>2 DEF FinalOf
<1>8. DurableOf(i)'
  BY <1>3 DEF DurableOf
<1> QED BY <1>4, <1>6, <1>7, <1>8, OneItem

LEMMA RequestStep ==
  ASSUME IInv, NEW i \in Item, Request(i)
  PROVE  IInv'
<1> USE ItemParts, ThreadTyped, Chunks
<1>1. /\ WorkerOthers /\ final' = final /\ partial' = partial /\ synced' = synced
      /\ late' = late /\ count' = count /\ thread[i].phase = "request"
  BY DEF Request, disk
<1>2. /\ Moved(i) /\ thread'[i].phase \in {"retry", "failed", "stream"}
      /\ thread'[i].phase = "stream" =>
           thread'[i].sent \in Version /\ thread'[i].digest = thread[i].digest
  <2>0. thread \in [Item -> Locals] /\ phone[i] \in Version
    BY DEF TypeOK, Locals
  <2>1. CASE Transport(i)
    BY <2>1, TransportStep
  <2>2. CASE thread' = [thread EXCEPT ![i].phase = "stream", ![i].sent = phone[i]]
    BY <2>0, <2>2 DEF Locals, Phase, Moved
  <2> QED BY <2>1, <2>2 DEF Request
<1>3. TypeOK' /\ OthersKeep(i)
  BY <1>1, <1>2, WorkerKeeps DEF TypeOK, Idle
<1>4. recorded' = recorded /\ touched' = touched /\ imp' = imp /\ batch' = batch
  BY <1>1 DEF WorkerOthers, catalog
<1>5. PartialOf(i)'
  BY <1>1, <1>2 DEF PartialOf
<1>6. FinalOf(i)'
  BY <1>1, <1>2, <1>4 DEF FinalOf, Before, Streaming
<1>7. DurableOf(i)'
  BY <1>2 DEF DurableOf
<1> QED BY <1>3, <1>5, <1>6, <1>7, OneItem

LEMMA ChunkStep ==
  ASSUME IInv, NEW i \in Item, Chunk(i)
  PROVE  IInv'
<1> USE ItemParts, ThreadTyped, Chunks
<1>1. /\ WorkerOthers /\ final' = final /\ synced' = synced
      /\ late' = late /\ count' = count /\ thread[i].phase = "stream"
      /\ thread[i].sent \in Version /\ partial[i] = thread[i].digest
  BY DEF Chunk, PartialOf
<1>2. /\ Moved(i) /\ thread'[i].phase \in {"stream", "cancelled"}
      /\ thread'[i].phase = "stream" =>
           thread'[i].sent \in Version /\ thread'[i].digest = partial'[i]
      /\ partial' \in [Item -> {Absent} \cup File]
      /\ \A j \in Item \ {i} : partial'[j] = partial[j]
  <2>0. thread \in [Item -> Locals] /\ partial \in [Item -> {Absent} \cup File]
    BY DEF TypeOK, Locals
  <2>1. CASE Goto(i, "cancelled") /\ UNCHANGED partial
    BY <2>0, <2>1, GotoStep DEF Phase
  <2>2. CASE /\ partial' = [partial EXCEPT ![i] = Append(@, thread[i].sent)]
             /\ thread' = [thread EXCEPT ![i].digest = Append(@, thread[i].sent)]
    <3> DEFINE f == Append(thread[i].digest, thread[i].sent)
    <3>1. f \in File
      BY <1>1
    <3>2. partial' = [partial EXCEPT ![i] = f] /\ thread' = [thread EXCEPT ![i].digest = f]
      BY <1>1, <2>0, <2>2
    <3> HIDE DEF f
    <3> QED BY <1>1, <2>0, <3>1, <3>2 DEF Locals, Moved
  <2> QED BY <2>1, <2>2 DEF Chunk
<1>3. TypeOK' /\ OthersKeep(i)
  BY <1>1, <1>2, WorkerKeeps DEF TypeOK, Idle
<1>4. recorded' = recorded /\ touched' = touched /\ imp' = imp /\ batch' = batch
  BY <1>1 DEF WorkerOthers, catalog
<1>5. PartialOf(i)'
  BY <1>1, <1>2 DEF PartialOf
<1>6. FinalOf(i)'
  BY <1>1, <1>2, <1>4 DEF FinalOf, Before, Streaming
<1>7. DurableOf(i)'
  BY <1>2 DEF DurableOf
<1> QED BY <1>3, <1>5, <1>6, <1>7, OneItem

LEMMA EndOfStreamStep ==
  ASSUME IInv, NEW i \in Item, EndOfStream(i)
  PROVE  IInv'
<1> USE ItemParts, ThreadTyped
<1>1. /\ WorkerOthers /\ final' = final /\ partial' = partial /\ synced' = synced
      /\ late' = late /\ count' = count /\ thread[i].phase = "stream"
  BY DEF EndOfStream, disk
<1>2. Moved(i) /\ thread'[i].phase = "check" /\ thread'[i].digest = thread[i].digest
  BY GotoStep DEF EndOfStream, Phase
<1>3. TypeOK' /\ OthersKeep(i)
  BY <1>1, <1>2, WorkerKeeps DEF TypeOK, Idle
<1>4. recorded' = recorded /\ touched' = touched /\ imp' = imp /\ batch' = batch
  BY <1>1 DEF WorkerOthers, catalog
<1>5. PartialOf(i)'
  BY <1>1, <1>2 DEF PartialOf
<1>6. FinalOf(i)'
  BY <1>1, <1>2, <1>4 DEF FinalOf, Before, Streaming
<1>7. DurableOf(i)'
  BY <1>2 DEF DurableOf
<1> QED BY <1>3, <1>5, <1>6, <1>7, OneItem

LEMMA DropStep ==
  ASSUME IInv, NEW i \in Item, Drop(i)
  PROVE  IInv'
<1> USE ItemParts, ThreadTyped
<1>1. /\ WorkerOthers /\ final' = final /\ partial' = partial /\ synced' = synced
      /\ late' = late /\ thread[i].phase \in {"request", "stream"} /\ Event
  BY DEF Drop, disk
<1>2. /\ Moved(i) /\ thread'[i].phase \in {"retry", "failed", "check"}
      /\ thread'[i].digest = thread[i].digest
  BY GotoStep, TransportStep DEF Drop, Phase
<1>3. count' \in [events: Nat, imports: Nat]
  BY <1>1 DEF Event, TypeOK
<1>4. TypeOK' /\ OthersKeep(i)
  BY <1>1, <1>2, <1>3, WorkerKeeps DEF TypeOK, Idle
<1>5. recorded' = recorded /\ touched' = touched /\ imp' = imp /\ batch' = batch
  BY <1>1 DEF WorkerOthers, catalog
<1>6. PartialOf(i)'
  BY <1>1, <1>2 DEF PartialOf
<1>7. FinalOf(i)'
  BY <1>1, <1>2, <1>5 DEF FinalOf, Before, Streaming
<1>8. DurableOf(i)'
  BY <1>2 DEF DurableOf
<1> QED BY <1>4, <1>6, <1>7, <1>8, OneItem

LEMMA CheckPartialStep ==
  ASSUME IInv, NEW i \in Item, CheckPartial(i)
  PROVE  IInv'
<1> USE ItemParts, ThreadTyped
<1>1. /\ WorkerOthers /\ final' = final /\ synced' = synced /\ count' = count
      /\ late' = late \ {i} /\ thread[i].phase = "check"
  BY DEF CheckPartial
<1>2. /\ Moved(i) /\ thread'[i].phase \in {"failed", "publish"}
      /\ thread'[i].phase = "publish" =>
           /\ thread'[i].digest = thread[i].digest /\ partial'[i] = partial[i]
           /\ Len(thread[i].digest) = SizeOf[imp.listed[i]]
           /\ final[i] = Absent
      /\ partial' \in [Item -> {Absent} \cup File]
      /\ \A j \in Item \ {i} : partial'[j] = partial[j]
  <2>0. partial \in [Item -> {Absent} \cup File]
    BY DEF TypeOK
  <2>1. CASE Remove(i) /\ Goto(i, "failed")
    BY <2>0, <2>1, GotoStep DEF Remove, Phase
  <2>2. CASE /\ Len(thread[i].digest) = SizeOf[imp.listed[i]]
             /\ Goto(i, IF final[i] # Absent THEN "failed" ELSE "publish")
             /\ UNCHANGED partial
    BY <2>0, <2>2, GotoStep DEF Phase
  <2> QED BY <2>1, <2>2 DEF CheckPartial
<1>3. TypeOK' /\ OthersKeep(i)
  BY <1>1, <1>2, WorkerKeeps DEF TypeOK, Idle
<1>4. recorded' = recorded /\ touched' = touched /\ imp' = imp /\ batch' = batch
  BY <1>1 DEF WorkerOthers, catalog
<1>5. PartialOf(i)'
  BY <1>1, <1>2, <1>4 DEF PartialOf
<1>6. FinalOf(i)'
  BY <1>1, <1>2, <1>4 DEF FinalOf, Before, Streaming
<1>7. DurableOf(i)'
  BY <1>2 DEF DurableOf
<1> QED BY <1>3, <1>5, <1>6, <1>7, OneItem

LEMMA PublishStep ==
  ASSUME IInv, NEW i \in Item, Publish(i)
  PROVE  IInv'
<1> USE ItemParts, ThreadTyped, Chunks
<1>1. /\ WorkerOthers /\ count' = count /\ late' = late /\ thread[i].phase = "publish"
      /\ final' = [final EXCEPT ![i] = partial[i]] /\ partial' = [partial EXCEPT ![i] = Absent]
      /\ synced' = IF imp.mode = "per-file" THEN synced \cup {i} ELSE synced \ {i}
  BY DEF Publish, Remove
<1>2. Moved(i) /\ thread'[i].phase = "done" /\ thread'[i].digest = thread[i].digest
  BY GotoStep DEF Publish, Phase
<1>3. partial[i] = thread[i].digest /\ partial[i] \in File
  BY <1>1 DEF PartialOf
<1>4. /\ final' \in [Item -> {Absent, Torn} \cup File] /\ partial' \in [Item -> {Absent} \cup File]
      /\ synced' \subseteq Item
      /\ \A j \in Item \ {i} : partial'[j] = partial[j] /\ final'[j] = final[j]
      /\ final'[i] = partial[i]
  BY <1>1, <1>3 DEF TypeOK
<1>5. TypeOK' /\ OthersKeep(i)
  BY <1>1, <1>2, <1>4, WorkerKeeps DEF TypeOK, Idle
<1>6. recorded' = recorded /\ touched' = touched /\ imp' = imp /\ batch' = batch
  BY <1>1 DEF WorkerOthers, catalog
<1>7. PartialOf(i)'
  BY <1>2 DEF PartialOf
<1>8. FinalOf(i)'
  BY <1>1, <1>2, <1>3, <1>4, <1>6 DEF FinalOf, Before, Streaming
<1>9. DurableOf(i)'
  BY <1>1, <1>2, <1>6 DEF DurableOf
<1> QED BY <1>5, <1>7, <1>8, <1>9, OneItem

-------------------------------------------------------------------------------
(***************************************************************************)
(* The calling thread keeps the invariant.                                 *)
(***************************************************************************)
Journal == {"none", "RUNNING", "COMPLETED", "FAILED"}

\* What the recording of a stream, or its failure, leaves alone.
Quiet ==
  /\ UNCHANGED <<phone, ranged, final, partial, cancelled, touched, late>>
  /\ count' \in [events: Nat, imports: Nat]

LEMMA MainIsQuiet == IInv /\ MainOthers => Quiet
  BY DEF IInv, TypeOK, MainOthers, history, Quiet

\* What the calling thread leaves alone, when its import goes on.
LEMMA CallerKeeps ==
  ASSUME IInv, NEW i \in Item, Quiet, Moved(i), thread[i].phase \notin Idle,
         batch' = batch, imp' \in Run, imp'.running = imp.running,
         imp'.workers = imp.workers, imp'.mode = imp.mode, imp'.listed = imp.listed,
         journal' \in [Item -> Journal], recorded' \in [Item -> {None} \cup Recorded],
         synced' \subseteq Item,
         \A j \in Item \ {i} : /\ recorded'[j] = recorded[j] /\ journal'[j] = journal[j]
                               /\ j \in synced => j \in synced'
                               /\ j \in imp.pending => j \in synced' \cup imp'.pending
  PROVE  TypeOK' /\ OthersKeep(i)
<1>1. TypeOK'
  BY DEF IInv, TypeOK, Quiet, Moved, Locals, Run, Journal
<1>2. imp.running
  BY ThreadTyped DEF IInv, RunInv, Idle
<1>3. imp.workers = 1 => \A j \in Item \ {i} : thread[j].phase \in Idle
  BY DEF IInv, RunInv
<1> QED BY <1>1, <1>2, <1>3 DEF OthersKeep, Quiet

\* The import ends: a batch that is closed leaves no published file behind.
LEMMA LeaveStep ==
  ASSUME IInv, NEW status, Quiet, Leave(status), imp.running,
         status \in {"RUNNING", "COMPLETED", "CANCELLED", "FAILED"},
         status # "RUNNING" => \A j \in Item : thread[j].phase \notin {"done", "recording"},
         status = "COMPLETED" => \A j \in Item : thread[j].phase # "bad",
         \A j \in Item : thread[j].phase = "bad" => journal'[j] = journal[j],
         journal' \in [Item -> Journal], recorded' \in [Item -> {None} \cup Recorded],
         synced' \subseteq Item,
         \A j \in Item : \/ recorded'[j] = recorded[j]
                         \/ /\ thread[j].phase = "recording" /\ recorded'[j] # None
                            /\ recorded'[j].sha = thread[j].digest
  PROVE  IInv'
<1>1. imp' = NoImport /\ thread' = [j \in Item |-> NoThread] /\ batch' = status
  BY DEF Leave
<1>2. NoImport \in Run /\ ~NoImport.running /\ NoImport.workers = 1
  BY SourceImportConstants DEF NoImport, Run
<1>3. NoThread \in Locals /\ NoThread.phase = "off"
  BY SourceImportConstants, Chunks DEF NoThread, Locals, Phase
<1>4. thread' \in [Item -> Locals] /\ \A j \in Item : thread'[j].phase = "off"
  BY <1>1, <1>3
<1>5. imp' \in Run /\ ~imp'.running /\ imp'.workers = 1
  BY <1>1, <1>2
<1>6. final' = final /\ partial' = partial /\ touched' = touched /\ late' = late
  BY DEF Quiet
<1>7. TypeOK'
  BY <1>1, <1>4, <1>5 DEF IInv, TypeOK, Quiet, Locals, Run, Journal
<1>8. RunInv'
  BY <1>4, <1>5 DEF RunInv, Idle
<1>9. ASSUME NEW j \in Item PROVE (PartialOf(j) /\ FinalOf(j) /\ DurableOf(j))'
  <2>1. PartialOf(j)' /\ DurableOf(j)'
    BY <1>4 DEF PartialOf, DurableOf
  <2>2. FinalOf(j)'
    BY <1>1, <1>4, <1>5, <1>6, ItemParts DEF FinalOf, Before, Streaming
  <2> QED BY <2>1, <2>2
<1> QED BY <1>7, <1>8, <1>9 DEF IInv, ItemInv

LEMMA BeginRecordStep ==
  ASSUME IInv, NEW i \in Item, BeginRecord(i)
  PROVE  IInv'
<1> USE ItemParts, ThreadTyped, MainIsQuiet
<1>1. /\ MainOthers /\ synced' = synced /\ recorded' = recorded /\ batch' = batch /\ imp' = imp
      /\ thread[i].phase = "done" /\ journal' = [journal EXCEPT ![i] = "RUNNING"]
  BY DEF BeginRecord
<1>2. Moved(i) /\ thread'[i].phase = "recording" /\ thread'[i].digest = thread[i].digest
  BY GotoStep DEF BeginRecord, Phase
<1>3. TypeOK' /\ OthersKeep(i)
  BY <1>1, <1>2, CallerKeeps DEF TypeOK, Idle, Journal, Run
<1>4. final' = final /\ partial' = partial /\ touched' = touched
  BY <1>1 DEF MainOthers, history
<1>5. PartialOf(i)'
  BY <1>2 DEF PartialOf
<1>6. FinalOf(i)'
  BY <1>1, <1>2, <1>4 DEF FinalOf, Before, Streaming
<1>7. DurableOf(i)'
  BY <1>1, <1>2 DEF DurableOf
<1> QED BY <1>3, <1>5, <1>6, <1>7, OneItem

\* A failed item ends a sequential import; another goes on with the rest.
LEMMA FailItemStep ==
  ASSUME IInv, NEW i \in Item, FailItem(i), Quiet, synced' = synced, recorded' = recorded,
         \/ thread[i].phase = "failed"
         \/ thread[i].phase \in {"done", "recording"} /\ imp.workers # 1
  PROVE  IInv'
<1> USE ItemParts, ThreadTyped
<1>1. journal' \in [Item -> Journal] /\ journal'[i] = "FAILED" /\ \A j \in Item \ {i} : journal'[j] = journal[j]
  BY DEF FailItem, TypeOK, Journal
<1>2. CASE imp.workers = 1
  <2>1. \A j \in Item : thread[j].phase \notin {"done", "recording"}
    BY <1>2 DEF IInv, RunInv, Idle
  <2> QED BY <1>1, <1>2, <2>1, LeaveStep DEF FailItem, TypeOK
<1>3. CASE imp.workers # 1
  <2>1. Goto(i, "bad") /\ batch' = batch /\ imp' = imp
    BY <1>3 DEF FailItem
  <2>2. Moved(i) /\ thread'[i].phase = "bad" /\ thread'[i].digest = thread[i].digest
    BY <2>1, GotoStep DEF Phase
  <2>3. TypeOK' /\ OthersKeep(i)
    BY <1>1, <2>1, <2>2, CallerKeeps DEF TypeOK, Idle, Run
  <2>4. final' = final /\ partial' = partial /\ touched' = touched
    BY DEF Quiet
  <2>5. PartialOf(i)'
    BY <2>2 DEF PartialOf
  <2>6. FinalOf(i)'
    BY <1>1, <2>1, <2>2, <2>4 DEF FinalOf, Before, Streaming
  <2>7. DurableOf(i)'
    BY <2>2 DEF DurableOf
  <2> QED BY <2>3, <2>5, <2>6, <2>7, OneItem
<1> QED BY <1>2, <1>3

LEMMA RecordFailureStep ==
  ASSUME IInv, NEW i \in Item, RecordFailure(i)
  PROVE  IInv'
  BY FailItemStep, MainIsQuiet DEF RecordFailure

\* A published file without a record: the sequential import leaves its batch
\* open, the parallel one notes the failure.
LEMMA UnrecordedStep ==
  ASSUME IInv, NEW i \in Item, Unrecorded(i), Quiet, synced' = synced, recorded' = recorded,
         thread[i].phase \in {"done", "recording"}
  PROVE  IInv'
<1>1. CASE imp.workers = 1
  BY <1>1, ItemParts, LeaveStep DEF Unrecorded, TypeOK, Journal
<1>2. CASE imp.workers # 1
  BY <1>2, FailItemStep DEF Unrecorded
<1> QED BY <1>1, <1>2

LEMMA RefuseResultStep ==
  ASSUME IInv, NEW i \in Item, RefuseResult(i)
  PROVE  IInv'
  BY UnrecordedStep, MainIsQuiet DEF RefuseResult

LEMMA RecordFailsStep ==
  ASSUME IInv, NEW i \in Item, RecordFails(i)
  PROVE  IInv'
<1>1. Quiet /\ synced' = synced /\ recorded' = recorded
  BY DEF RecordFails, Event, disk, Quiet, IInv, TypeOK
<1> QED BY <1>1, UnrecordedStep DEF RecordFails

LEMMA NoteCancelledStep ==
  ASSUME IInv, NEW i \in Item, NoteCancelled(i)
  PROVE  IInv'
<1> USE ItemParts, ThreadTyped, MainIsQuiet
<1>1. /\ MainOthers /\ synced' = synced /\ recorded' = recorded /\ journal' = journal
      /\ thread[i].phase = "cancelled"
  BY DEF NoteCancelled
<1>2. CASE imp.workers = 1
  <2>1. \A j \in Item : thread[j].phase \notin {"done", "recording"}
    BY <1>1, <1>2 DEF IInv, RunInv, Idle
  <2> QED BY <1>1, <1>2, <2>1, LeaveStep DEF NoteCancelled, TypeOK, Journal
<1>3. CASE imp.workers # 1
  <2>1. Goto(i, "halted") /\ batch' = batch /\ imp' = imp
    BY <1>3 DEF NoteCancelled
  <2>2. Moved(i) /\ thread'[i].phase = "halted"
    BY <2>1, GotoStep DEF Phase
  <2>3. TypeOK' /\ OthersKeep(i)
    BY <1>1, <2>1, <2>2, CallerKeeps DEF TypeOK, Idle, Run, Journal
  <2>4. final' = final /\ partial' = partial /\ touched' = touched
    BY <1>1 DEF MainOthers, history
  <2>5. PartialOf(i)' /\ DurableOf(i)'
    BY <2>2 DEF PartialOf, DurableOf
  <2>6. FinalOf(i)'
    BY <1>1, <2>1, <2>2, <2>4 DEF FinalOf, Before, Streaming
  <2> QED BY <2>3, <2>5, <2>6, OneItem
<1> QED BY <1>2, <1>3

LEMMA AcceptResultStep ==
  ASSUME IInv, NEW i \in Item, AcceptResult(i)
  PROVE  IInv'
<1> DEFINE pending == IF imp.mode = "batch" THEN imp.pending \cup {i} ELSE imp.pending
           flush == Cardinality(pending) >= BatchFiles
<1>0. pending \subseteq Item
  BY ItemParts, ThreadTyped
<1>1. MainOthers /\ Quiet /\ thread[i].phase = "recording" /\ Recordable(i) /\ Record(i)
  BY MainIsQuiet DEF AcceptResult
<1>2. /\ recorded' \in [Item -> {None} \cup Recorded] /\ recorded'[i] # None
      /\ recorded'[i].sha = thread[i].digest
      /\ \A j \in Item \ {i} : recorded'[j] = recorded[j]
  <2> DEFINE r == [listed |-> imp.listed[i], sha |-> thread[i].digest]
  <2>1. r \in Recorded /\ r.sha = thread[i].digest /\ recorded' = [recorded EXCEPT ![i] = r]
    BY <1>1, ItemParts, ThreadTyped DEF Recorded, Record
  <2>2. r # None /\ recorded \in [Item -> {None} \cup Recorded]
    BY <2>1, ItemParts, SourceImportConstants DEF TypeOK
  <2> HIDE DEF r
  <2> QED BY <2>1, <2>2
<1>3. final' = final /\ partial' = partial /\ touched' = touched
  BY <1>1 DEF MainOthers, history
<1>4. imp \in Run /\ imp.running /\ batch = "RUNNING" /\ synced \subseteq Item
      /\ journal \in [Item -> Journal]
  BY <1>1, ItemParts, ThreadTyped DEF TypeOK, Journal
<1>5. CASE /\ flush => Flushed(pending)
           /\ synced' = IF flush THEN synced \cup pending ELSE synced
           /\ journal' = [journal EXCEPT ![i] = "COMPLETED"]
           /\ imp' = [imp EXCEPT !.pending = IF flush THEN {} ELSE pending]
           /\ Goto(i, "recorded")
           /\ UNCHANGED batch
  <2>1. Moved(i) /\ thread'[i].phase = "recorded" /\ thread'[i].digest = thread[i].digest
    BY <1>5, ItemParts, GotoStep DEF Phase
  <2>2. /\ imp' \in Run /\ imp'.running = imp.running /\ imp'.workers = imp.workers
        /\ imp'.mode = imp.mode /\ imp'.listed = imp.listed
        /\ imp'.pending = IF flush THEN {} ELSE pending
    BY <1>0, <1>4, <1>5 DEF Run
  <2>3. \A j \in Item : (j \in synced => j \in synced') /\ (j \in pending => j \in synced' \cup imp'.pending)
    BY <1>5, <2>2
  <2>4. imp.pending \subseteq pending /\ (imp.mode = "batch" => i \in pending)
    OBVIOUS
  <2>5. /\ journal' \in [Item -> Journal] /\ journal'[i] = "COMPLETED"
        /\ \A j \in Item \ {i} : journal'[j] = journal[j]
    BY <1>4, <1>5 DEF Journal
  <2>6. synced' \subseteq Item
    BY <1>0, <1>4, <1>5
  <2> HIDE DEF pending
  <2>7. TypeOK' /\ OthersKeep(i)
    BY <1>1, <1>2, <1>5, <2>1, <2>2, <2>3, <2>4, <2>5, <2>6, CallerKeeps DEF Idle
  <2>8. PartialOf(i)'
    BY <2>1 DEF PartialOf
  <2>9. FinalOf(i)'
    BY <1>1, <1>2, <1>3, <1>5, <2>1, <2>2, ItemParts DEF FinalOf, Before, Streaming
  <2>10. DurableOf(i)'
    <3>1. imp.mode = "per-file" => i \in synced
      BY <1>1, ItemParts DEF DurableOf
    <3> QED BY <1>2, <2>1, <2>2, <2>3, <2>4, <2>5, <3>1, ItemParts, ThreadTyped DEF DurableOf
  <2> QED BY <2>7, <2>8, <2>9, <2>10, OneItem
<1>6. CASE /\ flush /\ ~Flushed(pending)
           /\ IF imp.workers = 1
              THEN Leave(batch) /\ journal' = [journal EXCEPT ![i] = "COMPLETED"]
              ELSE /\ journal' = [journal EXCEPT ![i] = "FAILED"]
                   /\ imp' = [imp EXCEPT !.pending = pending]
                   /\ Goto(i, "bad")
                   /\ UNCHANGED batch
           /\ UNCHANGED synced
  <2>1. CASE imp.workers = 1
    <3>1. Leave(batch) /\ journal' \in [Item -> Journal]
          /\ \A j \in Item : thread[j].phase = "bad" => journal'[j] = journal[j]
      BY <1>1, <1>4, <1>6, <2>1 DEF Journal
    <3> QED BY <1>1, <1>2, <1>4, <1>6, <3>1, LeaveStep
  <2>2. CASE imp.workers # 1
    <3>1. Moved(i) /\ thread'[i].phase = "bad"
      BY <1>6, <2>2, ItemParts, GotoStep DEF Phase
    <3>2. /\ imp' \in Run /\ imp'.running = imp.running /\ imp'.workers = imp.workers
          /\ imp'.mode = imp.mode /\ imp'.listed = imp.listed /\ imp'.pending = pending
      BY <1>0, <1>4, <1>6, <2>2 DEF Run
    <3>3. imp.pending \subseteq pending
      OBVIOUS
    <3>4. /\ journal' \in [Item -> Journal] /\ journal'[i] = "FAILED" /\ \A j \in Item \ {i} : journal'[j] = journal[j]
          /\ batch' = batch /\ synced' = synced
      BY <1>4, <1>6, <2>2 DEF Journal
    <3> HIDE DEF pending
    <3>5. TypeOK' /\ OthersKeep(i)
      BY <1>1, <1>2, <1>4, <3>1, <3>2, <3>3, <3>4, CallerKeeps DEF Idle
    <3>6. PartialOf(i)' /\ DurableOf(i)'
      BY <3>1 DEF PartialOf, DurableOf
    <3>7. FinalOf(i)'
      BY <1>1, <1>2, <1>3, <3>1, <3>2, <3>4, ItemParts DEF FinalOf, Before, Streaming
    <3> QED BY <3>5, <3>6, <3>7, OneItem
  <2> QED BY <2>1, <2>2
<1> QED BY <1>5, <1>6 DEF AcceptResult

LEMMA FinishStep ==
  ASSUME IInv, Finish
  PROVE  IInv'
<1>1. /\ MainOthers /\ imp.running /\ recorded' = recorded /\ journal' = journal
      /\ In({"off", "recorded", "bad", "halted"}) = Item
  BY DEF Finish
<1>2. \A j \in Item : thread[j].phase \notin {"done", "recording"}
  BY <1>1 DEF In
<1>3. batch = "RUNNING" /\ imp.pending \subseteq Item
  BY <1>1 DEF IInv, RunInv, TypeOK
<1>4. synced' \subseteq Item
  BY <1>3 DEF Finish, IInv, TypeOK
<1>5. PICK status \in {"RUNNING", "COMPLETED", "CANCELLED", "FAILED"} :
        Leave(status) /\ (status = "COMPLETED" => In({"halted", "bad"}) = {})
  BY <1>3 DEF Finish
<1>6. status = "COMPLETED" => \A j \in Item : thread[j].phase # "bad"
  BY <1>5 DEF In
<1> QED BY <1>1, <1>2, <1>4, <1>5, <1>6, LeaveStep, MainIsQuiet DEF IInv, TypeOK, Journal

-------------------------------------------------------------------------------
(***************************************************************************)
(* Planning and the environment keep the invariant.                        *)
(***************************************************************************)
LEMMA InitInv == Init => IInv
<1> SUFFICES ASSUME Init PROVE IInv
  OBVIOUS
<1> USE SourceImportConstants, Chunks DEF Init
<1>1. NoThread \in Locals /\ NoThread.phase = "off" /\ NoImport \in Run /\ ~NoImport.running
      /\ NoImport.workers = 1
  BY DEF NoThread, Locals, Phase, NoImport, Run
<1>2. thread \in [Item -> Locals] /\ \A i \in Item : thread[i].phase = "off"
  BY <1>1
<1>3. TypeOK
  <2>1. final \in [Item -> {Absent, Torn} \cup File] /\ partial \in [Item -> {Absent} \cup File]
        /\ recorded \in [Item -> {None} \cup Recorded] /\ journal \in [Item -> Journal]
    BY DEF Journal
  <2> QED BY <1>1, <1>2, <2>1 DEF TypeOK, Locals, Run, Journal
<1>4. RunInv
  BY <1>1, <1>2 DEF RunInv, Idle
<1>5. ItemInv
  BY <1>2 DEF ItemInv, PartialOf, FinalOf, DurableOf, Before, Streaming
<1> QED BY <1>3, <1>4, <1>5 DEF IInv

\* A plan starts where every destination is free, or holds what is recorded.
LEMMA StartImportStep ==
  ASSUME IInv, NEW workers \in 1..MaxWorkers, NEW mode \in {"per-file", "batch"},
         StartImport(workers, mode)
  PROVE  IInv'
<1>1. /\ imp' = [running |-> TRUE, workers |-> workers, mode |-> mode,
                 listed |-> phone, pending |-> {}]
      /\ batch' = "RUNNING" /\ cancelled' = FALSE /\ late' = {}
      /\ UNCHANGED <<phone, ranged, final, partial, synced, recorded, journal, touched>>
      /\ \A i \in Item : final[i] = Absent \/ AlreadyImported(i)
  BY DEF StartImport, Conflict, disk
<1>2. ~imp.running /\ \A i \in Item : thread[i].phase = "off"
  BY DEF StartImport, IInv, RunInv
<1>3. /\ imp' \in Run /\ imp'.running /\ imp'.pending = {} /\ imp'.mode = mode
      /\ imp'.listed \in [Item -> Version]
  <2>1. phone \in [Item -> Version]
    BY DEF IInv, TypeOK
  <2> QED BY <1>1, <2>1 DEF Run
<1>4. /\ thread' \in [Item -> Locals]
      /\ \A i \in Item : /\ AlreadyImported(i) => thread'[i].phase = "off"
                         /\ ~AlreadyImported(i) => thread'[i].phase = "queued"
  <2> DEFINE q == [NoThread EXCEPT !.phase = "queued"]
  <2>0. NoThread \in Locals /\ NoThread.phase = "off"
    BY SourceImportConstants, Chunks DEF NoThread, Locals, Phase
  <2>1. NoThread \in Locals /\ q \in Locals /\ NoThread.phase = "off" /\ q.phase = "queued"
    BY <2>0 DEF Locals, Phase
  <2>2. thread' = [i \in Item |-> IF AlreadyImported(i) THEN NoThread ELSE q]
    BY DEF StartImport
  <2> HIDE DEF q
  <2> QED BY <2>1, <2>2
<1>5. TypeOK'
  <2>1. count' \in [events: Nat, imports: Nat]
    BY DEF StartImport, IInv, TypeOK
  <2> QED BY <1>1, <1>3, <1>4, <2>1 DEF IInv, TypeOK, Locals, Run
<1>6. RunInv'
  BY <1>1, <1>3, <1>4 DEF RunInv, Idle
<1>7. ASSUME NEW i \in Item PROVE (PartialOf(i) /\ FinalOf(i) /\ DurableOf(i))'
  <2>1. PartialOf(i)' /\ DurableOf(i)'
    BY <1>4 DEF PartialOf, DurableOf
  <2>2. CASE AlreadyImported(i)
    <3>1. thread'[i].phase = "off" /\ recorded'[i] # None /\ recorded'[i].sha = final'[i]
      BY <1>1, <1>4, <2>2 DEF AlreadyImported
    <3> QED BY <2>1, <3>1 DEF FinalOf, Before, Streaming
  <2>3. CASE ~AlreadyImported(i)
    <3>1. final[i] = Absent /\ thread'[i].phase = "queued"
      BY <1>1, <1>4, <2>3
    <3>2. i \notin touched => recorded[i] = None
      <4>1. recorded[i] # None => recorded[i].sha \in File
        BY ItemParts DEF Recorded
      <4> QED BY <3>1, <4>1, ItemParts, SourceImportConstants DEF FinalOf
    <3> QED BY <1>1, <2>1, <3>1, <3>2 DEF FinalOf, Before, Streaming
  <2> QED BY <2>1, <2>2, <2>3
<1> QED BY <1>5, <1>6, <1>7 DEF IInv, ItemInv

LEMMA CrashStep ==
  ASSUME IInv, NEW lost \in SUBSET (Item \ synced),
         NEW kept \in UNION {0..SizeOf[v] : v \in Version}, Crash(lost, kept)
  PROVE  IInv'
<1>1. /\ imp' = NoImport /\ thread' = [i \in Item |-> NoThread]
      /\ UNCHANGED <<phone, ranged, synced, recorded, journal, batch, cancelled, touched, late>>
      /\ Event
  BY DEF Crash, catalog
<1>2. NoImport \in Run /\ ~NoImport.running /\ NoImport.workers = 1
  BY SourceImportConstants DEF NoImport, Run
<1>3. NoThread \in Locals /\ NoThread.phase = "off"
  BY SourceImportConstants, Chunks DEF NoThread, Locals, Phase
<1>4. /\ thread' \in [Item -> Locals] /\ \A i \in Item : thread'[i].phase = "off"
      /\ imp' \in Run /\ ~imp'.running /\ imp'.workers = 1
  BY <1>1, <1>2, <1>3
<1>5. /\ final' \in [Item -> {Absent, Torn} \cup File]
      /\ \A i \in Item : final'[i] = final[i] \/ final'[i] = Torn
      /\ \A i \in Item : final[i] = Absent => final'[i] = Absent
  BY ItemParts DEF Crash
<1>6. partial' \in [Item -> {Absent} \cup File]
  <2>1. kept \in Nat
    BY SourceImportConstants
  <2>2. ASSUME NEW i \in Item, thread[i].phase = "stream", Len(partial[i]) > kept
        PROVE  SubSeq(partial[i], 1, kept) \in File
    <3>1. partial[i] \in File
      BY <2>2, ItemParts, ThreadTyped DEF PartialOf
    <3> QED BY <2>1, <2>2, <3>1, Chunks
  <2>3. partial \in [Item -> {Absent} \cup File]
    BY DEF IInv, TypeOK
  <2> QED BY <2>2, <2>3 DEF Crash
<1>7. TypeOK'
  <2>1. count' \in [events: Nat, imports: Nat]
    BY <1>1 DEF Event, IInv, TypeOK
  <2> QED BY <1>1, <1>4, <1>5, <1>6, <2>1 DEF IInv, TypeOK, Locals, Run
<1>8. RunInv'
  BY <1>4 DEF RunInv, Idle
<1>9. ASSUME NEW i \in Item PROVE (PartialOf(i) /\ FinalOf(i) /\ DurableOf(i))'
  <2>1. PartialOf(i)' /\ DurableOf(i)'
    BY <1>4 DEF PartialOf, DurableOf
  <2>2. FinalOf(i)'
    <3> USE ItemParts
    <3>1. i \notin touched /\ recorded[i] # None /\ final'[i] # Torn => final'[i] = recorded[i].sha
      BY <1>5 DEF FinalOf
    <3>2. batch # "RUNNING" => thread[i].phase = "off"
      BY DEF IInv
    <3>3. i \notin touched /\ batch # "RUNNING" /\ final'[i] \notin {Absent, Torn} =>
            recorded[i] # None \/ (journal[i] = "FAILED" /\ batch # "COMPLETED")
      BY <1>5, <3>2 DEF FinalOf, IInv, RunInv
    <3> QED BY <1>1, <1>4, <3>1, <3>3 DEF FinalOf, Before, Streaming
  <2> QED BY <2>1, <2>2
<1> QED BY <1>7, <1>8, <1>9 DEF IInv, ItemInv

LEMMA UserTouchStep ==
  ASSUME IInv, NEW i \in Item, NEW f \in {Absent} \cup File, UserTouch(i, f)
  PROVE  IInv'
<1>1. /\ final' = [final EXCEPT ![i] = f] /\ touched' = touched \cup {i} /\ late' = late \cup {i}
      /\ UNCHANGED <<phone, ranged, partial, synced, recorded, journal, batch, imp, thread, cancelled>>
      /\ Event
  BY DEF UserTouch, catalog
<1>2. TypeOK'
  <2>1. count' \in [events: Nat, imports: Nat] /\ final' \in [Item -> {Absent, Torn} \cup File]
    BY <1>1 DEF Event, IInv, TypeOK
  <2> QED BY <1>1, <2>1 DEF IInv, TypeOK
<1>3. RunInv'
  BY <1>1 DEF IInv, RunInv
<1>4. ASSUME NEW j \in Item PROVE (PartialOf(j) /\ FinalOf(j) /\ DurableOf(j))'
  <2> USE ItemParts
  <2>1. j \notin touched' => final'[j] = final[j] /\ j \notin touched
    BY <1>1
  <2>2. j \notin late' => final'[j] = final[j] /\ j \notin late
    BY <1>1
  <2>3. PartialOf(j)'
    BY <1>1, <2>2 DEF PartialOf
  <2>4. FinalOf(j)'
    BY <1>1, <2>1 DEF FinalOf
  <2>5. DurableOf(j)'
    BY <1>1 DEF DurableOf
  <2> QED BY <2>3, <2>4, <2>5
<1> QED BY <1>2, <1>3, <1>4 DEF IInv, ItemInv

\* Steps that touch neither the disk, nor the catalog, nor a thread.
LEMMA FrameStep ==
  ASSUME IInv, UNCHANGED <<ranged, disk, catalog, imp, thread, touched, late>>,
         phone' \in [Item -> Version], cancelled' \in BOOLEAN, count' \in [events: Nat, imports: Nat]
  PROVE  IInv'
<1> USE DEF disk, catalog
<1>1. TypeOK'
  BY DEF IInv, TypeOK
<1>2. RunInv'
  BY DEF IInv, RunInv
<1>3. ItemInv'
  BY DEF IInv, ItemInv, PartialOf, FinalOf, DurableOf
<1> QED BY <1>1, <1>2, <1>3 DEF IInv

LEMMA StepInv == IInv /\ [Next]_vars => IInv'
<1> SUFFICES ASSUME IInv, [Next]_vars PROVE IInv'
  OBVIOUS
<1>1. ASSUME NEW w \in 1..MaxWorkers, NEW m \in {"per-file", "batch"}, StartImport(w, m) PROVE IInv'
  BY <1>1, StartImportStep
<1>2. ASSUME NEW i \in Item, Worker(i) PROVE IInv'
  BY <1>2, OpenStep, RequestStep, ChunkStep, EndOfStreamStep, CheckPartialStep, PublishStep DEF Worker
<1>3. ASSUME NEW i \in Item, Caller(i) PROVE IInv'
  BY <1>3, BeginRecordStep, AcceptResultStep, RefuseResultStep, RecordFailureStep,
     NoteCancelledStep DEF Caller
<1>4. ASSUME NEW i \in Item, Drop(i) \/ RecordFails(i) PROVE IInv'
  BY <1>4, DropStep, RecordFailsStep
<1>5. CASE Finish
  BY <1>5, FinishStep
<1>6. CASE Cancel
  BY <1>6, FrameStep DEF Cancel, Event, IInv, TypeOK
<1>7. ASSUME NEW i \in Item, NEW v \in Version, PhoneEdit(i, v) PROVE IInv'
  BY <1>7, FrameStep DEF PhoneEdit, Event, IInv, TypeOK
<1>8. ASSUME NEW i \in Item, NEW v \in Version, UserTouch(i, Whole(v)) PROVE IInv'
  BY <1>8, UserTouchStep, Chunks
<1>9. ASSUME NEW i \in Item, UserTouch(i, Absent) PROVE IInv'
  BY <1>9, UserTouchStep
<1>10. ASSUME NEW lost \in SUBSET (Item \ synced),
              NEW kept \in UNION {0..SizeOf[v] : v \in Version}, Crash(lost, kept)
       PROVE  IInv'
  BY <1>10, CrashStep
<1>11. CASE UNCHANGED vars
  BY <1>11, FrameStep DEF vars, disk, history, IInv, TypeOK
<1> QED BY <1>1, <1>2, <1>3, <1>4, <1>5, <1>6, <1>7, <1>8, <1>9, <1>10, <1>11 DEF Next

LEMMA Invariant == Spec => []IInv
  BY InitInv, StepInv, PTL DEF Spec

-------------------------------------------------------------------------------
(***************************************************************************)
(* What is promised of an import.                                          *)
(***************************************************************************)
\* Which steps write the destinations, and how.
LEMMA WhoWritesFinal ==
  ASSUME IInv, [Next]_vars, thread' # thread
  PROVE  \/ \E i \in Item : Publish(i)
         \/ \A i \in Item : final'[i] \in {final[i], Torn}
<1>1. ASSUME NEW w \in 1..MaxWorkers, NEW m \in {"per-file", "batch"}, StartImport(w, m)
      PROVE  final' = final
  BY <1>1 DEF StartImport, disk
<1>2. ASSUME NEW i \in Item, Worker(i) PROVE final' = final \/ Publish(i)
  BY <1>2 DEF Worker, Open, Request, Chunk, EndOfStream, CheckPartial, disk
<1>3. ASSUME NEW i \in Item, Caller(i) PROVE final' = final
  BY <1>3 DEF Caller, BeginRecord, AcceptResult, RefuseResult, RecordFailure, NoteCancelled, MainOthers
<1>4. ASSUME NEW i \in Item, Drop(i) \/ RecordFails(i) PROVE final' = final
  BY <1>4 DEF Drop, RecordFails, disk
<1>5. ASSUME Finish PROVE final' = final
  BY <1>5 DEF Finish, MainOthers
<1>6. ASSUME NEW lost \in SUBSET (Item \ synced), NEW kept, Crash(lost, kept)
      PROVE  \A i \in Item : final'[i] \in {final[i], Torn}
  BY <1>6 DEF Crash
<1>7. ASSUME \/ Cancel
             \/ \E i \in Item, v \in Version : PhoneEdit(i, v) \/ UserTouch(i, Whole(v))
             \/ \E i \in Item : UserTouch(i, Absent)
      PROVE  FALSE
  BY <1>7 DEF Cancel, PhoneEdit, UserTouch
<1> QED BY <1>1, <1>2, <1>3, <1>4, <1>5, <1>6, <1>7 DEF Next, vars

\* The variables have their types, in every reachable state.
THEOREM ImportTypeOK == Spec => []TypeOK
<1>1. IInv => TypeOK
  BY DEF IInv
<1> QED BY <1>1, Invariant, PTL

\* The recorded hash is the hash of the file that was published.
THEOREM ImportRecordedIsFile == Spec => []RecordedIsFile
<1>1. IInv => RecordedIsFile
  BY DEF IInv, ItemInv, FinalOf, RecordedIsFile
<1> QED BY <1>1, Invariant, PTL

\* An import that has closed its batch has recorded what it published, or noted
\* that the record failed, and then it is not COMPLETED.
THEOREM ImportPublishedIsRecorded == Spec => []PublishedIsRecorded
<1>1. ASSUME IInv PROVE PublishedIsRecorded
  BY <1>1 DEF IInv, RunInv, ItemInv, FinalOf, PublishedIsRecorded
<1> QED BY <1>1, Invariant, PTL

\* What the import puts at a final name has the listed size.
THEOREM ImportPublishedIsWhole == Spec => PublishedIsWhole
<1> DEFINE Puts == \A i \in Item : thread' # thread /\ final'[i] \notin {final[i], Torn} =>
                     Len(final'[i]) = SizeOf[imp.listed[i]]
<1>1. ASSUME IInv, [Next]_vars PROVE Puts
  <2> SUFFICES ASSUME NEW i \in Item, thread' # thread, final'[i] \notin {final[i], Torn}
               PROVE  Len(final'[i]) = SizeOf[imp.listed[i]]
    OBVIOUS
  <2>1. PICK j \in Item : Publish(j)
    BY <1>1, WhoWritesFinal
  <2>2. final' = [final EXCEPT ![j] = partial[j]] /\ final \in [Item -> {Absent, Torn} \cup File]
    BY <1>1, <2>1 DEF Publish, IInv, TypeOK
  <2>3. j = i /\ final'[i] = partial[i]
    BY <2>2
  <2> QED BY <1>1, <2>1, <2>3, ItemParts DEF Publish, PartialOf
<1>2. IInv /\ [Next]_vars => [Puts]_vars
  BY <1>1
<1> HIDE DEF Puts
<1>3. Spec => [][Puts]_vars
  BY <1>2, Invariant, PTL DEF Spec
<1> QED BY <1>3 DEF PublishedIsWhole, Puts

\* The import changes no file at a final name that was there at the last look.
THEOREM ImportNothingOverwritten == Spec => NothingOverwritten
<1> DEFINE Keeps == \A i \in Item \ late : thread' # thread /\ final[i] \notin {Absent, Torn} =>
                      final'[i] \in {final[i], Torn}
<1>1. ASSUME IInv, [Next]_vars PROVE Keeps
  <2> SUFFICES ASSUME NEW i \in Item \ late, thread' # thread, final[i] \notin {Absent, Torn}
               PROVE  final'[i] \in {final[i], Torn}
    OBVIOUS
  <2>1. ASSUME NEW j \in Item, Publish(j) PROVE final'[i] = final[i]
    <3>1. final' = [final EXCEPT ![j] = partial[j]] /\ final \in [Item -> {Absent, Torn} \cup File]
      BY <1>1, <2>1 DEF Publish, IInv, TypeOK
    <3>2. j # i
      BY <1>1, <2>1, ItemParts DEF Publish, PartialOf
    <3> QED BY <3>1, <3>2
  <2> QED BY <1>1, <2>1, WhoWritesFinal
<1>2. IInv /\ [Next]_vars => [Keeps]_vars
  BY <1>1
<1> HIDE DEF Keeps
<1>3. Spec => [][Keeps]_vars
  BY <1>2, Invariant, PTL DEF Spec
<1> QED BY <1>3 DEF NothingOverwritten, Keeps

\* A batch that ends COMPLETED has recorded and flushed all it planned.
THEOREM ImportCompletedIsDurable == Spec => CompletedIsDurable
<1> DEFINE Durable == batch # "COMPLETED" /\ batch' = "COMPLETED" =>
                        \A i \in Item : thread[i].phase # "off" =>
                          journal[i] = "COMPLETED" /\ recorded[i].sha = thread[i].digest /\ i \in synced'
<1>1. ASSUME IInv, [Next]_vars PROVE Durable
  <2> SUFFICES ASSUME batch # "COMPLETED", batch' = "COMPLETED", NEW i \in Item,
                      thread[i].phase # "off"
               PROVE  journal[i] = "COMPLETED" /\ recorded[i].sha = thread[i].digest /\ i \in synced'
    OBVIOUS
  <2>1. Finish
    <3>1. ASSUME NEW w \in 1..MaxWorkers, NEW m \in {"per-file", "batch"}, StartImport(w, m) PROVE FALSE
      BY <3>1 DEF StartImport
    <3>2. ASSUME NEW j \in Item, Worker(j) \/ Drop(j) PROVE batch' = batch
      BY <3>2 DEF Worker, Open, Request, Chunk, EndOfStream, CheckPartial, Publish, Drop,
                  WorkerOthers, catalog
    <3>3. ASSUME NEW j \in Item, Caller(j) \/ RecordFails(j) PROVE FALSE
      BY <3>3 DEF Caller, RecordFails, BeginRecord, AcceptResult, RefuseResult, RecordFailure, NoteCancelled,
                  Unrecorded, FailItem, Leave
    <3>4. ASSUME NEW lost, NEW kept, Crash(lost, kept) PROVE batch' = batch
      BY <3>4 DEF Crash, catalog
    <3>5. ASSUME \/ Cancel \/ UNCHANGED vars
                 \/ \E j \in Item, v \in Version : PhoneEdit(j, v) \/ UserTouch(j, Whole(v))
                 \/ \E j \in Item : UserTouch(j, Absent)
          PROVE  batch' = batch
      BY <3>5 DEF Cancel, PhoneEdit, UserTouch, vars, catalog
    <3> QED BY <1>1, <3>1, <3>2, <3>3, <3>4, <3>5 DEF Next
  <2>2. /\ In({"halted", "bad"}) = {} /\ In({"off", "recorded", "bad", "halted"}) = Item
        /\ synced' = synced \cup imp.pending
    BY <2>1 DEF Finish, Leave, In
  <2>3. thread[i].phase = "recorded"
    BY <2>2 DEF In
  <2> QED BY <1>1, <2>2, <2>3, ItemParts DEF DurableOf
<1>2. IInv /\ [Next]_vars => [Durable]_vars
  BY <1>1
<1> HIDE DEF Durable
<1>3. Spec => [][Durable]_vars
  BY <1>2, Invariant, PTL DEF Spec
<1> QED BY <1>3 DEF CompletedIsDurable, Durable
===============================================================================
