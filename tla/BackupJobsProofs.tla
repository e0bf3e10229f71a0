--------------------------- MODULE BackupJobsProofs ---------------------------
(***************************************************************************)
(* Proofs about BackupJobs, for every set of jobs, windows, commands and   *)
(* photos, any sizes of the pools and any number of attempts and faults:   *)
(* that it implements BackupHistory, that what a task shows and what its   *)
(* snapshot counts are so, and that a cancelled attempt writes nothing.    *)
(***************************************************************************)
EXTENDS BackupJobs, FiniteSetTheorems, SequenceTheorems, TLAPS

Busy(t) == {i \in Item : stream[t][i] # None}

\* The items of an import that have not failed and are not recorded.
Left(t) == todo[t] \cup Busy(t)

\* An attempt has one task, and nothing is on record of attempts to come.
AttemptInv ==
  /\ \A t \in Task : attempt[t] <= begun
  /\ \A t, u \in Task : attempt[t] # 0 /\ attempt[t] = attempt[u] => t = u
  /\ \A n \in Attempt : n > begun => snapshot[n].state = "none" /\ batch[n] = "none"

\* What a task shows goes with its runner; a runner that was asked to stop
\* finds its event set.
StatusInv ==
  \A t \in Task :
    /\ status[t] = "RUNNING" <=> pc[t] # "off"
    /\ pc[t] # "off" => attempt[t] # 0
    /\ status[t] \in {"NONE", "PLANNED"} => attempt[t] = 0
    /\ t \in asked => pc[t] # "off" /\ cancel[t]

\* What the runner knows of the end of its attempt.
VerdictOf(t) ==
  /\ pc[t] \in {"inventory", "plan", "import", "copy"} => verdict[t] = "none"
  /\ pc[t] \in {"profile", "snapshot"} => verdict[t] \in {"none", "FAILED"}
  /\ pc[t] \in {"close", "end"} => verdict[t] \in Terminal
  /\ t \in Cli => pc[t] \notin {"profile", "snapshot", "close", "dead"}
VerdictInv == \A t \in Task : VerdictOf(t)

\* The rows of the attempt in hand, phase by phase.
RowsOf(t) ==
  LET state == snapshot[attempt[t]].state
      rows == batch[attempt[t]] IN
  /\ pc[t] \in {"inventory", "plan", "profile", "snapshot"} => state = "none"
  /\ pc[t] \in {"inventory", "plan", "profile", "snapshot", "import"} => rows = "none"
  /\ pc[t] \in {"import", "copy"} => state = (IF t \in Cli THEN "none" ELSE "RUNNING")
  /\ pc[t] = "close" => state = "RUNNING"
  /\ pc[t] = "end" => state \in {"none", verdict[t]}
  /\ pc[t] = "close" /\ verdict[t] = "COMPLETED" => rows = "COMPLETED"
RowsInv == \A t \in Task : pc[t] # "off" => RowsOf(t)

ControlInv == AttemptInv /\ StatusInv /\ VerdictInv /\ RowsInv /\ StatusTellsHistory

\* Only an import has streams; each item waits or is streamed, not both; the
\* file a stream writes to is there.
StreamInv ==
  \A t \in Task :
    /\ pc[t] # "copy" => todo[t] = {} /\ Busy(t) = {}
    /\ todo[t] \cap Busy(t) = {}
    /\ Sequential(t) => \A i, j \in Busy(t) : i = j
    /\ \A i \in Busy(t) :
         /\ stream[t][i].on = "part" => part[i] # None
         /\ stream[t][i].on = "file" => file[i] # None

\* An import without a failure loses no item on its way to the record.
KeptInv ==
  \A t \in Task :
    /\ pc[t] = "copy" /\ failures[t] = {} => Item \subseteq Left(t) \cup Recorded
    /\ pc[t] = "close" /\ verdict[t] = "COMPLETED" => Recorded = Item

\* The counters, phase by phase.
CountersOf(t) ==
  /\ counted[t] <= Cardinality(Recorded) /\ done[t] <= Cardinality(Recorded)
  /\ t \notin Job => counted[t] = done[t]
  /\ pc[t] \in {"off", "inventory", "plan", "profile", "snapshot", "import"} => done[t] = 0
  /\ pc[t] = "copy" /\ failures[t] = {} =>
       done[t] + again[t] + Cardinality(Left(t)) = Cardinality(Item)
  /\ pc[t] = "close" /\ verdict[t] = "COMPLETED" =>
       done[t] + already[t] = Cardinality(Item)
CountInv == \A t \in Task : CountersOf(t)

\* What a running attempt has recorded is what its runner has counted in it.
TallyInv ==
  /\ \A n \in Attempt : n > begun => tally[n].got = 0
  /\ \A t \in Task : pc[t] # "off" =>
       LET mine == tally[attempt[t]] IN
       /\ done[t] = mine.got
       /\ counted[t] = mine.before + mine.got

\* The numbers of the snapshots.
NumbersInv ==
  /\ \A n \in Attempt : snapshot[n].state # "none" => snapshot[n].planned = Cardinality(Item)
  /\ TallyInv
  /\ SnapshotAddsUp

ImportInv == StreamInv /\ KeptInv /\ CountInv
IInv == TypeOK /\ ControlInv /\ ImportInv /\ NumbersInv

-------------------------------------------------------------------------------
\* What of the types the control needs.
LEMMA ControlTypes ==
  ASSUME TypeOK
  PROVE  /\ status \in [Task -> {"NONE", "PLANNED", "RUNNING"} \cup Terminal]
         /\ cancel \in [Task -> BOOLEAN] /\ asking \subseteq Job /\ asked \subseteq Task
         /\ pc \in [Task -> Phases] /\ verdict \in [Task -> {"none"} \cup Terminal]
         /\ attempt \in [Task -> 0..MaxAttempts] /\ begun \in 0..MaxAttempts
         /\ snapshot \in [Attempt -> [state : States, planned : Count, imported : Count, already : Count, bytes : Count]]
         /\ batch \in [Attempt -> States]
         /\ MaxAttempts \in Nat /\ Job \cap (Desk \cup Cli) = {} /\ Desk \cap Cli = {}
BY BackupJobsConstants DEF TypeOK

\* What ControlInv speaks of, and what leaves it alone.
held == <<status, cancel, asked, pc, verdict, attempt, begun, snapshot, batch>>

LEMMA ControlFrame ==
  ASSUME ControlInv, UNCHANGED held
  PROVE  ControlInv'
BY DEF ControlInv, AttemptInv, StatusInv, VerdictInv, VerdictOf, RowsInv, RowsOf,
       StatusTellsHistory, HasSnapshot, held

LEMMA ControlCreate ==
  ASSUME TypeOK, ControlInv, NEW j \in Task, Create(j)
  PROVE  ControlInv'
<1> USE ControlTypes DEF Create, control, counters, import, catalog, disk
<1>1. AttemptInv'
  BY DEF ControlInv, AttemptInv
<1>2. StatusInv'
  BY DEF ControlInv, StatusInv
<1>3. VerdictInv'
  BY DEF ControlInv, VerdictInv, VerdictOf
<1>4. RowsInv'
  BY DEF ControlInv, RowsInv, RowsOf
<1>5. StatusTellsHistory'
  BY DEF ControlInv, StatusTellsHistory, HasSnapshot, Terminal
<1> QED
  BY <1>1, <1>2, <1>3, <1>4, <1>5 DEF ControlInv

LEMMA ControlBegin ==
  ASSUME TypeOK, ControlInv, NEW t \in Task, Begin(t), pc[t] = "off"
  PROVE  ControlInv'
<1> USE ControlTypes DEF Begin, Goto, counters, import, catalog, disk
<1>1. AttemptInv'
  BY DEF ControlInv, AttemptInv, Attempt
<1>2. StatusInv'
  BY DEF ControlInv, StatusInv
<1>3. VerdictInv'
  BY DEF ControlInv, VerdictInv, VerdictOf
<1>4. RowsInv'
  BY DEF ControlInv, RowsInv, RowsOf, AttemptInv, Attempt
<1>5. StatusTellsHistory'
  BY DEF ControlInv, StatusTellsHistory, HasSnapshot, Terminal
<1> QED
  BY <1>1, <1>2, <1>3, <1>4, <1>5 DEF ControlInv

LEMMA ControlEvent ==
  ASSUME TypeOK, ControlInv, NEW t \in Task, SetEvent(t)
  PROVE  ControlInv'
<1> USE ControlTypes DEF SetEvent, counters, import, catalog, disk
<1>1. StatusInv'
  BY DEF ControlInv, StatusInv
<1>2. AttemptInv' /\ VerdictInv' /\ RowsInv' /\ StatusTellsHistory'
  BY DEF ControlInv, AttemptInv, VerdictInv, VerdictOf, RowsInv, RowsOf, StatusTellsHistory, HasSnapshot
<1> QED
  BY <1>1, <1>2 DEF ControlInv

LEMMA ControlNote ==
  ASSUME TypeOK, ControlInv, NEW j \in Task, NoteCancel(j)
  PROVE  ControlInv'
<1> USE ControlTypes DEF NoteCancel, counters, import, catalog, disk
<1>1. StatusInv'
  BY DEF ControlInv, StatusInv
<1>2. AttemptInv' /\ VerdictInv' /\ RowsInv'
  BY DEF ControlInv, AttemptInv, VerdictInv, VerdictOf, RowsInv, RowsOf
<1>3. StatusTellsHistory'
  BY DEF ControlInv, StatusInv, StatusTellsHistory, HasSnapshot, Terminal
<1> QED
  BY <1>1, <1>2, <1>3 DEF ControlInv

\* A runner goes on, and touches no rows but its own.
LEMMA Proceeds ==
  ASSUME TypeOK, ControlInv, NEW t \in Task,
         pc[t] # "off", pc' \in [Task -> Phases], pc'[t] # "off",
         \A u \in Task \ {t} : pc'[u] = pc[u] /\ verdict'[u] = verdict[u],
         \A n \in Attempt \ {attempt[t]} : snapshot'[n] = snapshot[n] /\ batch'[n] = batch[n],
         UNCHANGED <<status, cancel, asked, attempt, begun>>,
         VerdictOf(t)', RowsOf(t)',
         snapshot'[attempt[t]].state = "COMPLETED" => batch'[attempt[t]] = "COMPLETED"
  PROVE  ControlInv'
<1> USE ControlTypes
<1>1. attempt[t] \in Attempt /\ \A u \in Task \ {t} : attempt[u] # attempt[t]
  BY DEF ControlInv, AttemptInv, StatusInv, Attempt
<1>2. AttemptInv'
  BY <1>1 DEF ControlInv, AttemptInv, Attempt
<1>3. StatusInv'
  BY DEF ControlInv, StatusInv
<1>4. VerdictInv'
  BY DEF ControlInv, VerdictInv, VerdictOf
<1>5. RowsInv'
  <2> SUFFICES ASSUME NEW u \in Task, u # t, pc[u] # "off"
               PROVE  RowsOf(u)'
    BY DEF RowsInv
  <2>1. attempt[u] \in Attempt \ {attempt[t]}
    BY <1>1 DEF ControlInv, StatusInv, Attempt
  <2> QED
    BY <2>1 DEF ControlInv, RowsInv, RowsOf
<1>6. StatusTellsHistory'
  <2>1. ASSUME NEW u \in Job \cup Desk, pc'[u] = "off", HasSnapshot(u)', status'[u] \in Terminal
        PROVE  snapshot'[attempt'[u]].state = status'[u]
    <3>1. u \in Task /\ u # t /\ pc[u] = "off" /\ attempt[u] # 0
      BY <2>1 DEF Task, HasSnapshot
    <3>2. attempt[u] \in Attempt \ {attempt[t]}
      BY <1>1, <3>1 DEF Attempt
    <3> QED
      BY <2>1, <3>1, <3>2 DEF ControlInv, StatusTellsHistory, HasSnapshot
  <2>2. ASSUME NEW n \in Attempt, snapshot'[n].state = "COMPLETED"
        PROVE  batch'[n] = "COMPLETED"
    BY <2>2 DEF ControlInv, StatusTellsHistory
  <2> QED
    BY <2>1, <2>2 DEF StatusTellsHistory
<1> QED
  BY <1>2, <1>3, <1>4, <1>5, <1>6 DEF ControlInv

\* An exception, wherever the runner is, with an outcome to show.
LEMMA ControlRaise ==
  ASSUME TypeOK, ControlInv, NEW t \in Task, NEW how \in Terminal, Raise(t, how),
         pc[t] \in {"inventory", "import", "copy"},
         UNCHANGED <<status, cancel, asked, attempt, begun, snapshot>>,
         \A n \in Attempt \ {attempt[t]} : batch'[n] = batch[n],
         how = "COMPLETED" => batch'[attempt[t]] = "COMPLETED"
  PROVE  ControlInv'
<1> USE ControlTypes DEF Raise, Goto, Phases
<1>1. attempt[t] \in Attempt /\ RowsOf(t)
  BY DEF ControlInv, RowsInv, AttemptInv, StatusInv, Attempt
<1>2. pc'[t] = IF HasSnapshot(t) THEN "close" ELSE "end"
  OBVIOUS
<1>3. verdict'[t] = how
  OBVIOUS
<1>4. VerdictOf(t)'
  BY <1>1, <1>2, <1>3 DEF VerdictOf, RowsOf, HasSnapshot, Task
<1>5. RowsOf(t)'
  BY <1>1, <1>2, <1>3 DEF RowsOf, HasSnapshot, Attempt
<1>6. snapshot'[attempt[t]].state # "COMPLETED"
  BY <1>1 DEF RowsOf
<1> QED
  BY <1>2, <1>4, <1>5, <1>6, Proceeds

LEMMA ControlInventory ==
  ASSUME TypeOK, ControlInv, NEW t \in Task, Inventory(t) \/ InventoryFails(t)
  PROVE  ControlInv'
<1> USE ControlTypes DEF Inventory, InventoryFails, counters, import, catalog, disk
<1>1. CASE Raise(t, "CANCELLED") \/ Raise(t, "FAILED")
  BY <1>1, ControlRaise DEF Terminal
<1>2. CASE pc' = [pc EXCEPT ![t] = "plan"] /\ Inventory(t) /\ UNCHANGED verdict
  <2>1. VerdictOf(t)' /\ RowsOf(t)'
    BY <1>2 DEF ControlInv, VerdictInv, VerdictOf, RowsInv, RowsOf
  <2>2. snapshot'[attempt[t]].state # "COMPLETED"
    BY <1>2 DEF ControlInv, RowsInv, RowsOf
  <2> QED
    BY <1>2, <2>1, <2>2, Proceeds DEF Phases
<1> QED
  BY <1>1, <1>2 DEF Goto

LEMMA ControlPlan ==
  ASSUME TypeOK, ControlInv, NEW t \in Task, Plan(t)
  PROVE  ControlInv'
<1> USE ControlTypes DEF Plan, Goto, import, catalog, disk, Phases
<1>1. VerdictOf(t)' /\ RowsOf(t)'
  BY DEF ControlInv, VerdictInv, VerdictOf, RowsInv, RowsOf, Terminal, Task
<1>2. snapshot'[attempt[t]].state # "COMPLETED"
  BY DEF ControlInv, RowsInv, RowsOf
<1> QED
  BY <1>1, <1>2, Proceeds

LEMMA ControlProfile ==
  ASSUME TypeOK, ControlInv, NEW t \in Task, UpsertProfile(t)
  PROVE  ControlInv'
<1> USE ControlTypes DEF UpsertProfile, Goto, counters, import, disk, Phases
<1>1. VerdictOf(t)' /\ RowsOf(t)'
  BY DEF ControlInv, VerdictInv, VerdictOf, RowsInv, RowsOf
<1>2. snapshot'[attempt[t]].state # "COMPLETED"
  BY DEF ControlInv, RowsInv, RowsOf
<1> QED
  BY <1>1, <1>2, Proceeds

LEMMA ControlOpenSnapshot ==
  ASSUME TypeOK, ControlInv, NEW t \in Task, OpenSnapshot(t)
  PROVE  ControlInv'
<1> USE ControlTypes DEF OpenSnapshot, Goto, counters, import, disk, Phases
<1>1. attempt[t] \in Attempt
  BY DEF ControlInv, StatusInv, Attempt
<1>2. snapshot'[attempt[t]].state = "RUNNING"
  BY <1>1 DEF NoSnapshot
<1>3. VerdictOf(t)' /\ RowsOf(t)'
  BY <1>2 DEF ControlInv, VerdictInv, VerdictOf, RowsInv, RowsOf, Terminal
<1> QED
  BY <1>2, <1>3, Proceeds

LEMMA ControlOpenBatch ==
  ASSUME TypeOK, ControlInv, NEW t \in Task, OpenBatch(t)
  PROVE  ControlInv'
<1> USE ControlTypes DEF OpenBatch, disk, Phases
<1>1. CASE Raise(t, "CANCELLED") /\ UNCHANGED batch
  BY <1>1, ControlRaise DEF Terminal
<1>2. CASE Raise(t, "FAILED") /\ UNCHANGED batch
  BY <1>2, ControlRaise DEF Terminal
<1>3. CASE /\ pc' = [pc EXCEPT ![t] = "copy"] /\ UNCHANGED verdict
           /\ batch' = [batch EXCEPT ![attempt[t]] = "RUNNING"]
  <2>1. VerdictOf(t)' /\ RowsOf(t)'
    BY <1>3 DEF ControlInv, VerdictInv, VerdictOf, RowsInv, RowsOf
  <2>2. snapshot'[attempt[t]].state # "COMPLETED"
    BY <1>3 DEF ControlInv, RowsInv, RowsOf
  <2> QED
    BY <1>3, <2>1, <2>2, Proceeds
<1> QED
  BY <1>1, <1>2, <1>3 DEF Goto

LEMMA ControlCloseBatch ==
  ASSUME TypeOK, ControlInv, NEW t \in Task, CloseBatch(t)
  PROVE  ControlInv'
<1>1. Outcome(t) \in Terminal
  BY DEF Outcome, Terminal
<1>2. attempt[t] \in Attempt
  BY ControlTypes DEF CloseBatch, ControlInv, StatusInv, Attempt
<1>3. batch'[attempt[t]] = Outcome(t) /\ \A n \in Attempt \ {attempt[t]} : batch'[n] = batch[n]
  BY <1>2, ControlTypes DEF CloseBatch
<1> QED
  BY <1>1, <1>3, ControlRaise DEF CloseBatch

LEMMA ControlCloseSnapshot ==
  ASSUME TypeOK, ControlInv, NEW t \in Task, CloseSnapshot(t)
  PROVE  ControlInv'
<1> USE ControlTypes DEF CloseSnapshot, Goto, counters, import, disk, Phases
<1>1. attempt[t] \in Attempt
  BY DEF ControlInv, StatusInv, Attempt
<1>2. snapshot'[attempt[t]].state = verdict[t]
  BY <1>1
<1>3. VerdictOf(t)' /\ RowsOf(t)'
  BY <1>2 DEF ControlInv, VerdictInv, VerdictOf, RowsInv, RowsOf, Terminal
<1>4. verdict[t] = "COMPLETED" => batch'[attempt[t]] = "COMPLETED"
  BY DEF ControlInv, RowsInv, RowsOf
<1> QED
  BY <1>2, <1>3, <1>4, Proceeds

LEMMA ControlCloseFails ==
  ASSUME TypeOK, ControlInv, NEW t \in Task, CloseFails(t)
  PROVE  ControlInv'
<1> USE ControlTypes DEF CloseFails, Goto, counters, import, catalog, disk, Phases
<1>1. VerdictOf(t)' /\ RowsOf(t)'
  BY DEF ControlInv, VerdictInv, VerdictOf, RowsInv, RowsOf, Terminal
<1>2. snapshot'[attempt[t]].state # "COMPLETED"
  BY DEF ControlInv, RowsInv, RowsOf
<1> QED
  BY <1>1, <1>2, Proceeds

\* Runners go, their statuses are what they found or "NONE".
LEMMA ControlForget ==
  ASSUME TypeOK, ControlInv, NEW tasks \in SUBSET Task, Forget(tasks),
         status' \in [Task -> {"NONE", "PLANNED", "RUNNING"} \cup Terminal],
         \A u \in Task \ tasks : status'[u] = status[u] /\ attempt'[u] = attempt[u],
         \A u \in tasks : \/ status'[u] = "NONE" /\ attempt'[u] = 0
                          \/ /\ pc[u] = "end" /\ status'[u] = verdict[u]
                             /\ attempt'[u] = attempt[u],
         UNCHANGED <<begun, snapshot, batch>>
  PROVE  ControlInv'
<1> USE ControlTypes DEF Forget
<1>1. AttemptInv'
  BY DEF ControlInv, AttemptInv
<1>2. StatusInv'
  BY DEF ControlInv, StatusInv, VerdictInv, VerdictOf, Terminal
<1>3. VerdictInv'
  BY DEF ControlInv, VerdictInv, VerdictOf
<1>4. RowsInv'
  BY DEF ControlInv, RowsInv, RowsOf
<1>5. StatusTellsHistory'
  <2>1. ASSUME NEW u \in Job \cup Desk, pc'[u] = "off", HasSnapshot(u)', status'[u] \in Terminal
        PROVE  snapshot'[attempt'[u]].state = status'[u]
    <3>1. CASE u \notin tasks
      BY <2>1, <3>1 DEF ControlInv, StatusTellsHistory, HasSnapshot, Task
    <3>2. CASE u \in tasks
      BY <2>1, <3>2 DEF ControlInv, RowsInv, RowsOf, HasSnapshot, Task, Terminal
    <3> QED
      BY <3>1, <3>2
  <2> QED
    BY <2>1 DEF ControlInv, StatusTellsHistory
<1> QED
  BY <1>1, <1>2, <1>3, <1>4, <1>5 DEF ControlInv

LEMMA ControlShowEnd ==
  ASSUME TypeOK, ControlInv, NEW t \in Task, ShowEnd(t)
  PROVE  ControlInv'
<1>1. verdict[t] \in Terminal
  BY DEF ShowEnd, ControlInv, VerdictInv, VerdictOf
<1> QED
  BY <1>1, ControlTypes, ControlForget DEF ShowEnd, catalog

LEMMA ControlCrash ==
  ASSUME TypeOK, ControlInv, NEW tasks \in SUBSET Task, Crash(tasks)
  PROVE  ControlInv'
BY ControlTypes, ControlForget DEF Crash, catalog

\* A runner that records an item which is already recorded, or gone.
LEMMA ControlAcceptFails ==
  ASSUME TypeOK, ControlInv, StreamInv, NEW t \in Task, NEW i \in Item, AcceptFails(t, i)
  PROVE  ControlInv'
<1> USE ControlTypes DEF AcceptFails, counters, catalog
<1>1. CASE Raise(t, "FAILED")
  <2>1. i \in Busy(t)
    BY DEF Won, Busy
  <2>2. pc[t] = "copy"
    BY <2>1 DEF StreamInv
  <2> QED
    BY <1>1, <2>2, ControlRaise DEF Terminal
<1>2. CASE UNCHANGED <<pc, verdict>>
  BY <1>2, ControlFrame DEF held
<1> QED
  BY <1>1, <1>2

\* The steps of streams that leave the runner, the snapshots and batches alone.
Streaming(t, i) ==
  \/ RefuseStream(t, i) \/ RemovePartial(t, i) \/ CancelStream(t, i) \/ OpenStream(t, i)
  \/ Write(t, i) \/ GiveUp(t, i) \/ Publish(t, i) \/ PublishFails(t, i) \/ Accept(t, i)

LEMMA ControlStep ==
  ASSUME TypeOK, ControlInv, StreamInv, [Next]_vars
  PROVE  ControlInv'
<1>1. ASSUME NEW t \in Task, Create(t)
      PROVE  ControlInv'
  BY <1>1, ControlCreate
<1>2. ASSUME NEW t \in Task, StartJob(t) \/ StartWorker(t)
      PROVE  ControlInv'
  BY <1>2, ControlBegin DEF StartJob, StartWorker, ControlInv, StatusInv
<1>3. ASSUME NEW t \in Task, CancelJob(t) \/ NoteCancel(t) \/ CancelWorker(t)
      PROVE  ControlInv'
  BY <1>3, ControlEvent, ControlNote DEF CancelJob, CancelWorker
<1>4. ASSUME NEW i \in Item, UserDeletes(i) \/ UserPuts(i)
      PROVE  ControlInv'
  BY <1>4, ControlFrame DEF UserDeletes, UserPuts, held, control, catalog
<1>5. ASSUME NEW t \in Task, Inventory(t) \/ InventoryFails(t) \/ Plan(t) \/ UpsertProfile(t)
      PROVE  ControlInv'
  BY <1>5, ControlInventory, ControlPlan, ControlProfile
<1>6. ASSUME NEW t \in Task, OpenSnapshot(t) \/ OpenBatch(t) \/ CloseBatch(t)
      PROVE  ControlInv'
  BY <1>6, ControlOpenSnapshot, ControlOpenBatch, ControlCloseBatch
<1>7. ASSUME NEW t \in Task, CloseSnapshot(t) \/ CloseFails(t) \/ ShowEnd(t)
      PROVE  ControlInv'
  BY <1>7, ControlCloseSnapshot, ControlCloseFails, ControlShowEnd
<1>8. ASSUME NEW t \in Task, NEW i \in Item, Streaming(t, i)
      PROVE  ControlInv'
  BY <1>8, ControlFrame
  DEF Streaming, RefuseStream, RemovePartial, CancelStream, OpenStream, Take, Write, GiveUp,
      Publish, PublishFails, Accept, held, control, catalog
<1>9. ASSUME NEW t \in Task, NEW i \in Item, AcceptFails(t, i)
      PROVE  ControlInv'
  BY <1>9, ControlAcceptFails
<1>10. ASSUME NEW tasks \in SUBSET Task, Crash(tasks)
       PROVE  ControlInv'
  BY <1>10, ControlCrash
<1>11. CASE UNCHANGED vars
  BY <1>11, ControlFrame DEF vars, held, control, catalog
<1> QED
  BY <1>1, <1>2, <1>3, <1>4, <1>5, <1>6, <1>7, <1>8, <1>9, <1>10, <1>11
  DEF Next, User, Faults, Runner, Streaming, Task

-------------------------------------------------------------------------------
LEMMA DataTypes ==
  ASSUME TypeOK
  PROVE  /\ counted \in [Task -> Count] /\ already \in [Task -> Count]
         /\ again \in [Task -> Count] /\ done \in [Task -> Count]
         /\ todo \in [Task -> SUBSET Item]
         /\ failures \in [Task -> SUBSET {"error", "cancelled"}]
         /\ stream \in [Task -> [Item -> Stream \cup {None}]]
         /\ sha \in [Item -> Hash \cup {None}] /\ file \in [Item -> Hash \cup {None}]
         /\ part \in [Item -> Hash \cup {None}]
         /\ None \notin Hash /\ None \notin Stream
         /\ IsFiniteSet(Item) /\ Cardinality(Item) \in Nat
BY BackupJobsConstants, FS_CardinalityType DEF TypeOK

\* Handles of one item move from one file to another, nothing else of a stream does.
LEMMA MovedStreams ==
  ASSUME NEW s \in [Task -> [Item -> Stream \cup {None}]], NEW i \in Item,
         NEW from, NEW to \in {"part", "file", "gone", "done"}
  PROVE  LET m == Moved(s, i, from, to) IN
         /\ m \in [Task -> [Item -> Stream \cup {None}]]
         /\ \A t \in Task, j \in Item :
              /\ m[t][j] # None <=> s[t][j] # None
              /\ s[t][j] # None =>
                   /\ m[t][j].sum = s[t][j].sum
                   /\ m[t][j].on = IF j = i /\ s[t][j].on = from THEN to ELSE s[t][j].on
<1> DEFINE m == Moved(s, i, from, to)
           moved(t) == IF s[t][i] # None /\ s[t][i].on = from THEN [s[t][i] EXCEPT !.on = to]
                       ELSE s[t][i]
<1>1. ASSUME NEW t \in Task
      PROVE  m[t] = [s[t] EXCEPT ![i] = moved(t)]
  BY DEF Moved
<1>2. ASSUME NEW t \in Task
      PROVE  /\ moved(t) \in Stream \cup {None}
             /\ moved(t) # None <=> s[t][i] # None
             /\ s[t][i] # None =>
                  /\ moved(t).sum = s[t][i].sum
                  /\ moved(t).on = IF s[t][i].on = from THEN to ELSE s[t][i].on
  BY BackupJobsConstants DEF Stream
<1>3. m = [t \in Task |-> m[t]]
  BY DEF Moved
<1> HIDE DEF m, moved
<1>4. ASSUME NEW t \in Task
      PROVE  /\ m[t] \in [Item -> Stream \cup {None}]
             /\ m[t][i] = moved(t)
             /\ \A j \in Item \ {i} : m[t][j] = s[t][j]
  <2>1. s[t] \in [Item -> Stream \cup {None}]
    OBVIOUS
  <2> QED
    BY <1>1, <1>2, <2>1
<1>5. m \in [Task -> [Item -> Stream \cup {None}]]
  BY <1>3, <1>4
<1>6. ASSUME NEW t \in Task, NEW j \in Item
      PROVE  /\ m[t][j] # None <=> s[t][j] # None
             /\ s[t][j] # None =>
                  /\ m[t][j].sum = s[t][j].sum
                  /\ m[t][j].on = IF j = i /\ s[t][j].on = from THEN to ELSE s[t][j].on
  BY <1>2, <1>4
<1> QED
  BY <1>5, <1>6 DEF m

\* One stream is replaced by another, or by none.
LEMMA StreamSet ==
  ASSUME NEW s \in [Task -> [Item -> Stream \cup {None}]], NEW t \in Task, NEW i \in Item,
         NEW x \in Stream \cup {None}
  PROVE  LET m == [s EXCEPT ![t][i] = x] IN
         /\ m \in [Task -> [Item -> Stream \cup {None}]]
         /\ \A u \in Task, j \in Item : m[u][j] = IF u = t /\ j = i THEN x ELSE s[u][j]
OBVIOUS

-------------------------------------------------------------------------------
\* The types of what an import works on.
DataOK ==
  /\ todo \in [Task -> SUBSET Item] /\ failures \in [Task -> SUBSET {"error", "cancelled"}]
  /\ stream \in [Task -> [Item -> Stream \cup {None}]]
  /\ \A t \in Task, i \in Item : stream[t][i] # None => Len(stream[t][i].sum) <= Chunks
  /\ sha \in [Item -> Hash \cup {None}] /\ file \in [Item -> Hash \cup {None}]
  /\ part \in [Item -> Hash \cup {None}]

\* An import that has not failed still has the same items before it.
LeftIsKept == \A u \in Task : failures'[u] = {} => failures[u] = {} /\ Left(u)' = Left(u)

\* The step of CancelSticks.
Sticks ==
  \A t \in asked, i \in Item :
    stream'[t][i] # None => stream[t][i] # None /\ stream'[t][i].sum = stream[t][i].sum

\* The steps of one stream but for its record.
Effect == DataOK' /\ StreamInv' /\ LeftIsKept /\ Sticks

LEMMA DataTypeOK == TypeOK => DataOK
BY DataTypes DEF DataOK, TypeOK

LEMMA TallyTypes == TypeOK => tally \in [Attempt -> [before : Count, got : Count]]
BY DEF TypeOK

LEMMA FailsGrow ==
  ASSUME TypeOK, NEW t \in Task, NEW how \in {"error", "cancelled"}, Fails(t, how)
  PROVE  /\ failures' \in [Task -> SUBSET {"error", "cancelled"}]
         /\ failures'[t] # {}
         /\ \A u \in Task \ {t} : failures'[u] = failures[u]
BY DataTypes DEF Fails

LEMMA RefuseEffect ==
  ASSUME TypeOK, StreamInv, NEW t \in Task, NEW i \in Item, RefuseStream(t, i)
  PROVE  Effect
<1> USE DataTypes, ControlTypes DEF RefuseStream, Take, control, catalog
<1>1. DataOK'
  BY FailsGrow, DataTypeOK DEF DataOK
<1>2. \A u \in Task : Busy(u)' = Busy(u)
  BY DEF Busy
<1>3. StreamInv'
  BY <1>2 DEF StreamInv, Sequential
<1>4. LeftIsKept
  BY <1>2, FailsGrow DEF LeftIsKept, Left
<1>5. Sticks
  BY DEF Sticks
<1> QED
  BY <1>1, <1>3, <1>4, <1>5 DEF Effect

LEMMA CancelEffect ==
  ASSUME TypeOK, StreamInv, NEW t \in Task, NEW i \in Item, CancelStream(t, i)
  PROVE  Effect
<1> USE DataTypes, ControlTypes DEF CancelStream, Take, control, catalog
<1>1. DataOK'
  BY FailsGrow, DataTypeOK DEF DataOK
<1>2. \A u \in Task : Busy(u)' = Busy(u)
  BY DEF Busy
<1>3. StreamInv'
  BY <1>2 DEF StreamInv, Sequential
<1>4. LeftIsKept
  BY <1>2, FailsGrow DEF LeftIsKept, Left
<1>5. Sticks
  BY DEF Sticks
<1> QED
  BY <1>1, <1>3, <1>4, <1>5 DEF Effect

\* Handles of one item have moved: who streams what is as before.
LEMMA MovedBusy ==
  ASSUME TypeOK, StreamInv, NEW i \in Item,
         NEW from, NEW to \in {"part", "file", "gone", "done"},
         stream' = Moved(stream, i, from, to)
  PROVE  /\ stream' \in [Task -> [Item -> Stream \cup {None}]]
         /\ \A t \in Task, j \in Item : stream'[t][j] # None => Len(stream'[t][j].sum) <= Chunks
         /\ \A t \in Task : Busy(t)' = Busy(t)
         /\ \A t \in Task, j \in Item : stream[t][j] # None =>
              stream'[t][j].on = IF j = i /\ stream[t][j].on = from THEN to ELSE stream[t][j].on
         /\ Sticks
<1>1. stream \in [Task -> [Item -> Stream \cup {None}]]
  BY DataTypes
<1>2. asked \subseteq Task
  BY ControlTypes
<1> USE <1>1, MovedStreams
<1>3. \A t \in Task, j \in Item : stream'[t][j] # None => Len(stream'[t][j].sum) <= Chunks
  <2>1. \A t \in Task, j \in Item : stream[t][j] # None => Len(stream[t][j].sum) <= Chunks
    BY DataTypeOK DEF DataOK
  <2> QED
    BY <2>1
<1>4. \A t \in Task : Busy(t)' = Busy(t)
  BY DEF Busy
<1>5. Sticks
  BY <1>2 DEF Sticks
<1> QED
  BY <1>3, <1>4, <1>5

LEMMA RemoveEffect ==
  ASSUME TypeOK, StreamInv, NEW t \in Task, NEW i \in Item, RemovePartial(t, i)
  PROVE  Effect
<1> USE DataTypes, ControlTypes DEF RemovePartial, Take, control, catalog
<1>1. DataOK'
  BY FailsGrow, MovedBusy DEF DataOK
<1>2. \A u \in Task : Busy(u)' = Busy(u)
  BY MovedBusy
<1>3. ASSUME NEW u \in Task, NEW j \in Busy(u)'
      PROVE  /\ stream'[u][j].on = "part" => part'[j] # None
             /\ stream'[u][j].on = "file" => file'[j] # None
  <2>1. j \in Busy(u) /\ j \in Item /\ stream[u][j] # None
    BY <1>2 DEF Busy
  <2>2. stream'[u][j].on = IF j = i /\ stream[u][j].on = "part" THEN "gone" ELSE stream[u][j].on
    BY <2>1, MovedBusy
  <2>3. /\ stream[u][j].on = "part" => part[j] # None
        /\ stream[u][j].on = "file" => file[j] # None
    BY <2>1 DEF StreamInv
  <2> QED
    BY <2>1, <2>2, <2>3
<1>4. StreamInv'
  BY <1>2, <1>3 DEF StreamInv, Sequential
<1>5. LeftIsKept
  BY <1>2, FailsGrow DEF LeftIsKept, Left
<1> QED
  BY <1>1, <1>4, <1>5, MovedBusy DEF Effect

LEMMA OpenEffect ==
  ASSUME TypeOK, StatusInv, StreamInv, NEW t \in Task, NEW i \in Item, OpenStream(t, i)
  PROVE  Effect
<1> USE DataTypes, ControlTypes DEF OpenStream, Take, control, catalog
<1> DEFINE x == [sum |-> part'[i], on |-> "part", own |-> part[i] = None]
<1>1. part' \in [Item -> Hash \cup {None}] /\ part'[i] \in Hash /\ Len(part'[i]) <= Chunks
      /\ \A j \in Item : part[j] # None => part'[j] # None
  <2>1. <<>> \in Hash /\ Len(<<>>) = 0 /\ Chunks \in Nat
    BY BackupJobsConstants DEF Hash
  <2>2. part[i] # None => part[i] \in Hash /\ Len(part[i]) <= Chunks
    BY <2>1 DEF Hash, TooLong
  <2> QED
    BY <2>1, <2>2
<1>2. x \in Stream
  BY <1>1 DEF Stream
<1>3. stream' = [stream EXCEPT ![t][i] = x]
  OBVIOUS
<1> HIDE DEF x
<1>4. /\ stream' \in [Task -> [Item -> Stream \cup {None}]]
      /\ \A u \in Task, j \in Item : stream'[u][j] = IF u = t /\ j = i THEN x ELSE stream[u][j]
  BY <1>2, <1>3, StreamSet
<1>5. x # None /\ x.sum = part'[i] /\ x.on = "part"
  BY <1>2 DEF x
<1>6. DataOK'
  BY <1>1, <1>4, <1>5 DEF DataOK, TypeOK
<1>7. \A u \in Task : Busy(u)' = IF u = t THEN Busy(u) \cup {i} ELSE Busy(u)
  BY <1>4, <1>5 DEF Busy
<1>8. ASSUME NEW u \in Task, NEW j \in Busy(u)'
      PROVE  /\ stream'[u][j].on = "part" => part'[j] # None
             /\ stream'[u][j].on = "file" => file'[j] # None
  BY <1>1, <1>4, <1>5, <1>7 DEF StreamInv, Busy
<1>9. Sequential(t) => Busy(t) = {}
  BY DEF Open, Won, Busy
<1>10. \A u \in Task : /\ pc'[u] # "copy" => todo'[u] = {} /\ Busy(u)' = {}
                       /\ todo'[u] \cap Busy(u)' = {}
  BY <1>7 DEF StreamInv
<1>11. StreamInv'
  <2>1. ASSUME NEW u \in Task, Sequential(u)
        PROVE  \A j, k \in Busy(u)' : j = k
    <3>1. CASE u = t
      BY <1>7, <1>9, <2>1, <3>1
    <3>2. CASE u # t
      BY <1>7, <2>1, <3>2 DEF StreamInv
    <3> QED
      BY <3>1, <3>2
  <2> QED
    BY <1>8, <1>10, <2>1 DEF StreamInv, Sequential
<1>12. LeftIsKept
  BY <1>7 DEF LeftIsKept, Left
<1>13. Sticks
  BY <1>4 DEF Sticks, StatusInv
<1> QED
  BY <1>6, <1>11, <1>12, <1>13 DEF Effect

\* A stream is given up: its item is no longer under way.
LEMMA StoppedStream ==
  ASSUME TypeOK, StreamInv, NEW t \in Task, NEW i \in Item, stream' = Stopped(t, i)
  PROVE  /\ stream' \in [Task -> [Item -> Stream \cup {None}]]
         /\ \A u \in Task, j \in Item :
              stream'[u][j] = IF u = t /\ j = i THEN None ELSE stream[u][j]
         /\ \A u \in Task, j \in Item : stream'[u][j] # None => Len(stream'[u][j].sum) <= Chunks
         /\ \A u \in Task : Busy(u)' = IF u = t THEN Busy(u) \ {i} ELSE Busy(u)
         /\ Sticks
<1>1. /\ stream' \in [Task -> [Item -> Stream \cup {None}]]
      /\ \A u \in Task, j \in Item :
           stream'[u][j] = IF u = t /\ j = i THEN None ELSE stream[u][j]
  BY StreamSet, DataTypes DEF Stopped
<1>2. \A u \in Task, j \in Item : stream'[u][j] # None => Len(stream'[u][j].sum) <= Chunks
  BY <1>1, DataTypeOK DEF DataOK
<1>3. \A u \in Task : Busy(u)' = IF u = t THEN Busy(u) \ {i} ELSE Busy(u)
  BY <1>1 DEF Busy
<1>4. Sticks
  BY <1>1, ControlTypes DEF Sticks
<1> QED
  BY <1>1, <1>2, <1>3, <1>4

\* A stream that ends where it may keeps StreamInv.
LEMMA StoppedInv ==
  ASSUME TypeOK, StreamInv, NEW t \in Task, NEW i \in Item, stream' = Stopped(t, i),
         UNCHANGED <<pc, file, part>>,
         \A u \in Task \ {t} : todo'[u] = todo[u],
         todo'[t] \subseteq todo[t] \cup {i},
         pc[t] = "copy"
  PROVE  StreamInv'
<1>1. \A u \in Task : Busy(u)' = IF u = t THEN Busy(u) \ {i} ELSE Busy(u)
  BY StoppedStream
<1>2. ASSUME NEW u \in Task, pc'[u] # "copy"
      PROVE  todo'[u] = {} /\ Busy(u)' = {}
  BY <1>1, <1>2 DEF StreamInv
<1>3. ASSUME NEW u \in Task
      PROVE  todo'[u] \cap Busy(u)' = {}
  BY <1>1 DEF StreamInv
<1>4. ASSUME NEW u \in Task, NEW j \in Busy(u)'
      PROVE  /\ stream'[u][j].on = "part" => part'[j] # None
             /\ stream'[u][j].on = "file" => file'[j] # None
  <2>1. j \in Busy(u) /\ j \in Item /\ ~(u = t /\ j = i)
    BY <1>1 DEF Busy
  <2>2. stream'[u][j] = stream[u][j]
    BY <2>1, StoppedStream
  <2> QED
    BY <2>1, <2>2 DEF StreamInv
<1>5. ASSUME NEW u \in Task, Sequential(u)
      PROVE  \A j, k \in Busy(u)' : j = k
  <2>1. Busy(u)' \subseteq Busy(u)
    BY <1>1
  <2> QED
    BY <1>5, <2>1 DEF StreamInv
<1> QED
  BY <1>2, <1>3, <1>4, <1>5 DEF StreamInv, Sequential

\* A stream that fails.
LEMMA StopEffect ==
  ASSUME TypeOK, StreamInv, NEW t \in Task, NEW i \in Item,
         stream' = Stopped(t, i), NEW how \in {"error", "cancelled"}, Fails(t, how),
         i \in Busy(t), UNCHANGED <<pc, todo, sha, file, part>>
  PROVE  Effect
<1>1. pc[t] = "copy"
  BY DEF StreamInv
<1>2. StreamInv'
  BY <1>1, StoppedInv, DataTypes
<1>3. DataOK'
  BY StoppedStream, FailsGrow, DataTypeOK DEF DataOK
<1>4. LeftIsKept
  BY StoppedStream, FailsGrow DEF LeftIsKept, Left
<1> QED
  BY <1>2, <1>3, <1>4, StoppedStream DEF Effect

LEMMA GiveUpEffect ==
  ASSUME TypeOK, StreamInv, NEW t \in Task, NEW i \in Item, GiveUp(t, i)
  PROVE  Effect
BY StopEffect DEF GiveUp, Open, Busy, control, catalog, disk

LEMMA PublishFailsEffect ==
  ASSUME TypeOK, StreamInv, NEW t \in Task, NEW i \in Item, PublishFails(t, i)
  PROVE  Effect
<1> USE DEF PublishFails, control, catalog, disk
<1>1. i \in Busy(t)
  BY DEF Received, Open, Busy
<1>2. CASE Fails(t, "error") /\ UNCHANGED todo
  BY <1>1, <1>2, StopEffect
<1>3. CASE todo' = [todo EXCEPT ![t] = @ \cup {i}] /\ UNCHANGED failures
  <2>1. pc[t] = "copy"
    BY <1>1 DEF StreamInv
  <2>2. /\ todo' \in [Task -> SUBSET Item]
        /\ \A u \in Task : todo'[u] = IF u = t THEN todo[u] \cup {i} ELSE todo[u]
    BY <1>3, DataTypes
  <2>3. StreamInv'
    BY <2>1, <2>2, StoppedInv
  <2>4. DataOK'
    BY <1>3, <2>2, StoppedStream, DataTypeOK DEF DataOK
  <2>5. LeftIsKept
    BY <1>1, <1>3, <2>2, StoppedStream DEF LeftIsKept, Left
  <2> QED
    BY <2>3, <2>4, <2>5, StoppedStream DEF Effect
<1> QED
  BY <1>2, <1>3

\* One more chunk at the end of what has been hashed, or of a file.
LEMMA Appended ==
  ASSUME NEW h \in Hash, NEW k \in 0..Chunks
  PROVE  Append(h, k) \in Hash /\ Len(Append(h, k)) = Len(h) + 1
BY DEF Hash

\* A chunk written to a file, wherever the handle is, leaves a file of chunks.
LEMMA WrittenFile ==
  ASSUME NEW s \in Hash, NEW own \in BOOLEAN, NEW sum \in Hash, NEW k \in 0..Chunks
  PROVE  Written(s, own, sum, k) \in Hash
<1>1. CASE own /\ Len(sum) < Len(s)
  <2>1. s \in Seq(0..Chunks) /\ Len(sum) \in Nat /\ Len(s) \in Nat
    BY LenProperties DEF Hash
  <2>2. Len(sum) + 1 \in 1..Len(s)
    BY <1>1, <2>1
  <2>3. [s EXCEPT ![Len(sum) + 1] = k] \in Seq(0..Chunks)
    BY <2>1, <2>2, ExceptSeq
  <2> QED
    BY <1>1, <2>3 DEF Written, Hash
<1>2. CASE ~(own /\ Len(sum) < Len(s))
  BY <1>2, Appended DEF Written
<1> QED
  BY <1>1, <1>2

LEMMA WriteEffect ==
  ASSUME TypeOK, StatusInv, StreamInv, NEW t \in Task, NEW i \in Item, Write(t, i)
  PROVE  Effect
<1> USE DEF Write, control, catalog
<1>1. i \in Busy(t) /\ stream[t][i] # None
  BY DEF Open, Busy
<1>2. CASE cancel[t]
  BY <1>1, <1>2, StopEffect DEF disk
<1>3. CASE ~cancel[t]
  <2> DEFINE next == Len(stream[t][i].sum) + 1
             x == [stream[t][i] EXCEPT !.sum = Append(@, next)]
  <2>1. stream[t][i] \in Stream /\ stream[t][i].sum \in Hash /\ Len(stream[t][i].sum) \in Nat
        /\ Len(stream[t][i].sum) <= Chunks
    <3>1. stream[t][i] \in Stream
      BY <1>1, DataTypes
    <3> QED
      BY <1>1, <3>1, DataTypeOK DEF DataOK, Stream, Hash
  <2>2. next \in 0..Chunks
    BY <2>1, BackupJobsConstants DEF Received
  <2>3. x \in Stream /\ x # None /\ x.on = stream[t][i].on /\ Len(x.sum) <= Chunks
    <3>1. Append(stream[t][i].sum, next) \in Hash
          /\ Len(Append(stream[t][i].sum, next)) = next
      BY <2>1, <2>2, Appended
    <3>2. x \in Stream /\ x.sum = Append(stream[t][i].sum, next) /\ x.on = stream[t][i].on
      BY <2>1, <3>1 DEF Stream
    <3>3. next <= Chunks
      BY <2>2, BackupJobsConstants
    <3>4. x # None
      BY <3>2, DataTypes
    <3> HIDE DEF x, next
    <3> QED
      BY <3>1, <3>2, <3>3, <3>4
  <2>4. stream' = [stream EXCEPT ![t][i] = x]
    BY <1>3
  <2> DEFINE W(h) == Written(h, stream[t][i].own, stream[t][i].sum, next)
  <2>5. /\ part' = IF stream[t][i].on = "part" THEN [part EXCEPT ![i] = W(part[i])] ELSE part
        /\ file' = IF stream[t][i].on = "file" THEN [file EXCEPT ![i] = W(file[i])] ELSE file
        /\ UNCHANGED failures
    BY <1>3
  <2>15. \A h \in Hash : W(h) \in Hash
    BY <2>1, <2>2, WrittenFile DEF Stream
  <2> HIDE DEF x, next, W
  <2>6. /\ stream' \in [Task -> [Item -> Stream \cup {None}]]
        /\ \A u \in Task, j \in Item : stream'[u][j] = IF u = t /\ j = i THEN x ELSE stream[u][j]
    BY <2>3, <2>4, StreamSet, DataTypes
  <2>7. \A u \in Task : Busy(u)' = Busy(u)
    BY <1>1, <2>3, <2>6 DEF Busy
  <2>8. /\ stream[t][i].on = "part" => part[i] \in Hash
        /\ stream[t][i].on = "file" => file[i] \in Hash
    BY <1>1, DataTypes DEF StreamInv
  <2>9. /\ part' \in [Item -> Hash \cup {None}] /\ file' \in [Item -> Hash \cup {None}]
        /\ \A j \in Item : (part'[j] = None <=> part[j] = None) /\ (file'[j] = None <=> file[j] = None)
    <3>2. part' \in [Item -> Hash \cup {None}] /\ \A j \in Item : part'[j] = None <=> part[j] = None
      BY <2>5, <2>8, <2>15, DataTypes
    <3>3. file' \in [Item -> Hash \cup {None}] /\ \A j \in Item : file'[j] = None <=> file[j] = None
      BY <2>5, <2>8, <2>15, DataTypes
    <3> QED
      BY <3>2, <3>3
  <2>10. DataOK'
    <3>1. \A u \in Task, j \in Item : stream'[u][j] # None => Len(stream'[u][j].sum) <= Chunks
      BY <2>3, <2>6, DataTypeOK DEF DataOK
    <3> QED
      BY <2>5, <2>6, <2>9, <3>1, DataTypeOK DEF DataOK
  <2>11. ASSUME NEW u \in Task, NEW j \in Busy(u)'
         PROVE  /\ stream'[u][j].on = "part" => part'[j] # None
                /\ stream'[u][j].on = "file" => file'[j] # None
    <3>1. j \in Busy(u) /\ j \in Item /\ stream'[u][j].on = stream[u][j].on
      BY <2>3, <2>6, <2>7 DEF Busy
    <3> QED
      BY <2>9, <3>1 DEF StreamInv
  <2>12. StreamInv'
    BY <2>7, <2>11 DEF StreamInv, Sequential
  <2>13. LeftIsKept
    BY <2>5, <2>7 DEF LeftIsKept, Left
  <2>14. Sticks
    BY <1>3, <2>6, ControlTypes DEF Sticks, StatusInv
  <2> QED
    BY <2>10, <2>12, <2>13, <2>14 DEF Effect
<1> QED
  BY <1>2, <1>3

LEMMA PublishEffect ==
  ASSUME TypeOK, StreamInv, NEW t \in Task, NEW i \in Item, Publish(t, i)
  PROVE  Effect
<1> DEFINE x == [stream[t][i] EXCEPT !.on = "done"]
           s == [stream EXCEPT ![t][i] = x]
<1>1. i \in Busy(t) /\ stream[t][i] # None /\ stream[t][i] \in Stream
  BY DataTypes DEF Publish, Received, Open, Busy
<1>2. x \in Stream /\ x # None /\ x.sum = stream[t][i].sum /\ x.on = "done"
  BY <1>1, DataTypes DEF Stream
<1>3. stream' = Moved(s, i, "part", "file")
  BY DEF Publish
<1> HIDE DEF x
<1>4. /\ s \in [Task -> [Item -> Stream \cup {None}]]
      /\ \A u \in Task, j \in Item : s[u][j] = IF u = t /\ j = i THEN x ELSE stream[u][j]
  BY <1>2, StreamSet, DataTypes
<1> HIDE DEF s
<1>5. /\ stream' \in [Task -> [Item -> Stream \cup {None}]]
      /\ \A u \in Task, j \in Item :
           /\ stream'[u][j] # None <=> s[u][j] # None
           /\ s[u][j] # None =>
                /\ stream'[u][j].sum = s[u][j].sum
                /\ stream'[u][j].on = IF j = i /\ s[u][j].on = "part" THEN "file" ELSE s[u][j].on
  BY <1>3, <1>4, MovedStreams
<1>6. \A u \in Task, j \in Item :
        /\ stream'[u][j] # None <=> stream[u][j] # None
        /\ stream[u][j] # None => stream'[u][j].sum = stream[u][j].sum
  BY <1>1, <1>2, <1>4, <1>5
<1>7. \A u \in Task : Busy(u)' = Busy(u)
  BY <1>6 DEF Busy
<1>8. /\ part' = [part EXCEPT ![i] = None] /\ file' = [file EXCEPT ![i] = part[i]]
      /\ part[i] # None /\ UNCHANGED <<pc, todo, failures, sha>>
  BY DEF Publish, control, catalog
<1>9. DataOK'
  <2>1. \A u \in Task, j \in Item : stream'[u][j] # None => Len(stream'[u][j].sum) <= Chunks
    BY <1>6, DataTypeOK DEF DataOK
  <2>2. part' \in [Item -> Hash \cup {None}] /\ file' \in [Item -> Hash \cup {None}]
    BY <1>8, DataTypes
  <2> QED
    BY <1>5, <1>8, <2>1, <2>2, DataTypeOK DEF DataOK
<1>10. ASSUME NEW u \in Task, NEW j \in Busy(u)'
       PROVE  /\ stream'[u][j].on = "part" => part'[j] # None
              /\ stream'[u][j].on = "file" => file'[j] # None
  <2>1. j \in Busy(u) /\ j \in Item /\ s[u][j] # None /\ stream[u][j] # None
    BY <1>2, <1>4, <1>7 DEF Busy
  <2>2. stream'[u][j].on = IF j = i /\ s[u][j].on = "part" THEN "file" ELSE s[u][j].on
    BY <1>5, <2>1
  <2>3. s[u][j].on = IF u = t /\ j = i THEN "done" ELSE stream[u][j].on
    BY <1>2, <1>4, <2>1
  <2>4. /\ part'[j] = IF j = i THEN None ELSE part[j]
        /\ file'[j] = IF j = i THEN part[i] ELSE file[j]
    BY <1>8, <2>1, DataTypes
  <2>5. /\ stream[u][j].on = "part" => part[j] # None
        /\ stream[u][j].on = "file" => file[j] # None
    BY <2>1 DEF StreamInv
  <2> QED
    BY <1>8, <2>2, <2>3, <2>4, <2>5
<1>11. StreamInv'
  BY <1>7, <1>8, <1>10 DEF StreamInv, Sequential
<1>12. LeftIsKept
  BY <1>7, <1>8 DEF LeftIsKept, Left
<1>13. Sticks
  BY <1>6, ControlTypes DEF Sticks
<1> QED
  BY <1>9, <1>11, <1>12, <1>13 DEF Effect

\* A recorded item is no longer before the import.
LEMMA AcceptEffect ==
  ASSUME TypeOK, StreamInv, NEW t \in Task, NEW i \in Item, Accept(t, i)
  PROVE  /\ DataOK' /\ StreamInv' /\ Sticks
         /\ pc[t] = "copy" /\ i \in Left(t) /\ i \notin Recorded
         /\ Recorded' = Recorded \cup {i} /\ failures' = failures
         /\ \A u \in Task : Left(u)' = IF u = t THEN Left(u) \ {i} ELSE Left(u)
<1> USE DEF Accept, control, disk
<1>1. i \in Busy(t) /\ stream[t][i] # None /\ stream[t][i] \in Stream
  BY DataTypes DEF Won, Busy
<1>2. pc[t] = "copy" /\ i \notin todo[t]
  BY <1>1 DEF StreamInv
<1>3. stream[t][i].sum \in Hash
  BY <1>1 DEF Stream
<1>4. /\ sha' \in [Item -> Hash \cup {None}]
      /\ \A j \in Item : sha'[j] = IF j = i THEN stream[t][i].sum ELSE sha[j]
  BY <1>3, DataTypes
<1>5. StreamInv'
  BY <1>2, StoppedInv
<1>6. DataOK'
  BY <1>4, StoppedStream, DataTypeOK DEF DataOK
<1>7. Recorded' = Recorded \cup {i} /\ i \notin Recorded
  BY <1>3, <1>4, DataTypes DEF Recorded
<1>8. \A u \in Task : Left(u)' = IF u = t THEN Left(u) \ {i} ELSE Left(u)
  <2>1. ASSUME NEW u \in Task
        PROVE  Busy(u)' = IF u = t THEN Busy(u) \ {i} ELSE Busy(u)
    BY StoppedStream
  <2> QED
    BY <1>2, <2>1 DEF Left
<1> QED
  BY <1>1, <1>2, <1>5, <1>6, <1>7, <1>8, StoppedStream DEF Left

\* With one worker, nothing is under way but the item that was refused.
LEMMA AcceptFailsEffect ==
  ASSUME TypeOK, StreamInv, NEW t \in Task, NEW i \in Item, AcceptFails(t, i)
  PROVE  Effect /\ pc[t] = "copy"
<1> USE DEF AcceptFails, catalog, disk
<1>1. i \in Busy(t) /\ i \in Item
  BY DEF Won, Busy
<1>2. pc[t] = "copy"
  BY <1>1 DEF StreamInv
<1>3. CASE UNCHANGED <<todo, pc>>
  BY <1>1, <1>2, <1>3, StopEffect
<1>4. CASE Sequential(t) /\ todo' = [todo EXCEPT ![t] = {}] /\ Raise(t, "FAILED")
  <2>1. /\ todo' \in [Task -> SUBSET Item] /\ todo'[t] = {}
        /\ \A u \in Task \ {t} : todo'[u] = todo[u] /\ pc'[u] = pc[u]
    BY <1>4, DataTypes, ControlTypes DEF Raise, Goto
  <2>2. \A u \in Task : Busy(u)' = IF u = t THEN Busy(u) \ {i} ELSE Busy(u)
    BY StoppedStream
  <2>3. Busy(t)' = {}
    BY <1>1, <1>4, <2>2 DEF StreamInv
  <2>4. DataOK'
    BY <2>1, StoppedStream, FailsGrow, DataTypeOK DEF DataOK
  <2>5. ASSUME NEW u \in Task, NEW j \in Busy(u)'
        PROVE  /\ stream'[u][j].on = "part" => part'[j] # None
               /\ stream'[u][j].on = "file" => file'[j] # None
    <3>1. j \in Busy(u) /\ j \in Item /\ u # t
      BY <2>2, <2>3, <2>5 DEF Busy
    <3>2. stream'[u][j] = stream[u][j]
      BY <3>1, StoppedStream
    <3> QED
      BY <3>1, <3>2 DEF StreamInv
  <2>6. \A u \in Task : /\ pc'[u] # "copy" => todo'[u] = {} /\ Busy(u)' = {}
                        /\ todo'[u] \cap Busy(u)' = {}
                        /\ Sequential(u) => \A j, k \in Busy(u)' : j = k
    BY <2>1, <2>2, <2>3 DEF StreamInv
  <2>7. StreamInv'
    BY <2>5, <2>6 DEF StreamInv, Sequential
  <2>8. LeftIsKept
    BY <2>1, <2>2, FailsGrow DEF LeftIsKept, Left
  <2> QED
    BY <1>2, <2>4, <2>7, <2>8, StoppedStream DEF Effect
<1> QED
  BY <1>2, <1>3, <1>4

LEMMA UserEffect ==
  ASSUME TypeOK, StreamInv, NEW i \in Item, UserDeletes(i) \/ UserPuts(i)
  PROVE  Effect
<1>1. CASE UserDeletes(i)
  <2> USE <1>1, DataTypes DEF UserDeletes, control, catalog
  <2>1. DataOK'
    BY MovedBusy, DataTypeOK DEF DataOK
  <2>2. \A u \in Task : Busy(u)' = Busy(u)
    BY MovedBusy
  <2>3. ASSUME NEW u \in Task, NEW j \in Busy(u)'
        PROVE  /\ stream'[u][j].on = "part" => part'[j] # None
               /\ stream'[u][j].on = "file" => file'[j] # None
    <3>1. j \in Busy(u) /\ j \in Item /\ stream[u][j] # None
      BY <2>2 DEF Busy
    <3>2. stream'[u][j].on = IF j = i /\ stream[u][j].on = "file" THEN "gone" ELSE stream[u][j].on
      BY <3>1, MovedBusy
    <3>3. /\ stream[u][j].on = "part" => part[j] # None
          /\ stream[u][j].on = "file" => file[j] # None
      BY <3>1 DEF StreamInv
    <3> QED
      BY <3>1, <3>2, <3>3
  <2>4. StreamInv'
    BY <2>2, <2>3 DEF StreamInv, Sequential
  <2>5. LeftIsKept
    BY <2>2 DEF LeftIsKept, Left
  <2> QED
    BY <2>1, <2>4, <2>5, MovedBusy DEF Effect
<1>2. CASE UserPuts(i)
  <2> USE <1>2, DataTypes DEF UserPuts, control, import, catalog
  <2>1. Foreign \in Hash /\ Foreign # None
    <3>1. 0 \in 0..Chunks
      BY BackupJobsConstants
    <3>2. <<0>> \in Seq(0..Chunks)
      BY <3>1
    <3> QED
      BY <3>2, BackupJobsConstants DEF Foreign, Hash
  <2>2. DataOK'
    BY <2>1, DataTypeOK DEF DataOK
  <2>3. \A u \in Task : Busy(u)' = Busy(u)
    BY DEF Busy
  <2>4. StreamInv'
    BY <2>1, <2>3 DEF StreamInv, Sequential, Busy
  <2>5. LeftIsKept
    BY <2>3 DEF LeftIsKept, Left
  <2>6. Sticks
    BY DEF Sticks
  <2> QED
    BY <2>2, <2>4, <2>5, <2>6 DEF Effect
<1> QED
  BY <1>1, <1>2

-------------------------------------------------------------------------------
(***************************************************************************)
(* What an import keeps: the steps outside of it, the steps of its streams *)
(* and records, and its beginning and end.                                 *)
(***************************************************************************)
LEMMA Sets ==
  ASSUME TypeOK
  PROVE  /\ IsFiniteSet(Recorded) /\ Cardinality(Recorded) \in Nat
         /\ Cardinality(Recorded) <= Cardinality(Item)
         /\ IsFiniteSet(Known) /\ Cardinality(Known) \in Nat
         /\ Cardinality(Known) <= Cardinality(Item)
         /\ \A t \in Task : Left(t) \subseteq Item /\ IsFiniteSet(Left(t)) /\ Cardinality(Left(t)) \in Nat
<1> USE BackupJobsConstants
<1>1. Recorded \in SUBSET Item /\ Known \in SUBSET Item
  BY DEF Recorded, Known
<1>2. \A t \in Task : Left(t) \in SUBSET Item
  BY DataTypes DEF Left, Busy
<1>3. \A S \in SUBSET Item : IsFiniteSet(S) /\ Cardinality(S) \in Nat /\ Cardinality(S) <= Cardinality(Item)
  BY FS_Subset, FS_CardinalityType
<1> QED
  BY <1>1, <1>2, <1>3

Early == {"off", "inventory", "plan", "profile", "snapshot", "import"}

\* Steps that leave imports alone.
Calm ==
  /\ UNCHANGED <<todo, stream, failures, sha, file, part, done, again>>
  /\ \A u \in Task :
       /\ pc'[u] = "copy" <=> pc[u] = "copy"
       /\ pc'[u] = "close" /\ verdict'[u] = "COMPLETED" =>
            pc[u] = "close" /\ verdict[u] = "COMPLETED" /\ already'[u] = already[u]
       /\ pc'[u] \in Early => pc[u] \in Early
       /\ counted'[u] = counted[u] \/ (u \in Job /\ counted'[u] = 0)

LEMMA CalmKeeps ==
  ASSUME TypeOK, ImportInv, Calm
  PROVE  DataOK' /\ ImportInv' /\ Sticks
<1> USE DEF Calm
<1>1. \A u \in Task : Busy(u)' = Busy(u) /\ Left(u)' = Left(u)
  BY DEF Busy, Left
<1>2. Recorded' = Recorded
  BY DEF Recorded
<1>3. DataOK'
  BY DataTypeOK DEF DataOK
<1>4. StreamInv'
  BY <1>1 DEF ImportInv, StreamInv, Sequential, Busy
<1>5. KeptInv'
  BY <1>1, <1>2 DEF ImportInv, KeptInv
<1>6. ASSUME NEW u \in Task
      PROVE  CountersOf(u)'
  <2>1. CountersOf(u)
    BY DEF ImportInv, CountInv
  <2>2. counted'[u] <= Cardinality(Recorded')
    BY <1>2, <2>1, Sets DEF CountersOf
  <2>3. u \notin Job => counted'[u] = done'[u]
    BY <2>1 DEF CountersOf
  <2>4. pc'[u] \in Early => done'[u] = 0
    BY <2>1 DEF CountersOf, Early
  <2> QED
    BY <1>1, <1>2, <2>1, <2>2, <2>3, <2>4 DEF CountersOf, Early
<1>7. Sticks
  BY ControlTypes DEF Sticks
<1> QED
  BY <1>3, <1>4, <1>5, <1>6, <1>7 DEF ImportInv, CountInv

LEMMA EffectKeeps ==
  ASSUME TypeOK, ImportInv, Effect, UNCHANGED <<sha, counters>>,
         \A u \in Task :
           \/ pc'[u] = pc[u] /\ verdict'[u] = verdict[u]
           \/ pc[u] = "copy" /\ pc'[u] \in {"close", "end"} /\ verdict'[u] = "FAILED"
  PROVE  DataOK' /\ ImportInv' /\ Sticks
<1> USE DEF counters
<1>1. Recorded' = Recorded
  BY DEF Recorded
<1>2. ASSUME NEW u \in Task, failures'[u] = {}
      PROVE  failures[u] = {} /\ Left(u)' = Left(u)
  BY <1>2 DEF Effect, LeftIsKept
<1>3. KeptInv'
  BY <1>1, <1>2 DEF ImportInv, KeptInv
<1>4. ASSUME NEW u \in Task
      PROVE  CountersOf(u)'
  <2>1. CountersOf(u)
    BY DEF ImportInv, CountInv
  <2> QED
    BY <1>1, <1>2, <2>1 DEF CountersOf
<1> QED
  BY <1>3, <1>4 DEF ImportInv, CountInv, Effect

LEMMA AcceptKeeps ==
  ASSUME TypeOK, ImportInv, NEW t \in Task, NEW i \in Item, Accept(t, i)
  PROVE  DataOK' /\ ImportInv' /\ Sticks /\ counted' \in [Task -> Count] /\ done' \in [Task -> Count]
<1>1. /\ DataOK' /\ StreamInv' /\ Sticks
      /\ pc[t] = "copy" /\ i \in Left(t) /\ i \notin Recorded
      /\ Recorded' = Recorded \cup {i} /\ failures' = failures
      /\ \A u \in Task : Left(u)' = IF u = t THEN Left(u) \ {i} ELSE Left(u)
  BY AcceptEffect DEF ImportInv
<1>2. KeptInv'
  <2>1. UNCHANGED <<pc, verdict>>
    BY DEF Accept, control
  <2> QED
    BY <1>1, <2>1 DEF ImportInv, KeptInv, Recorded
<1>3. Cardinality(Recorded') = Cardinality(Recorded) + 1
  BY <1>1, Sets, FS_AddElement
<1>4. Cardinality(Left(t) \ {i}) = Cardinality(Left(t)) - 1
  BY <1>1, Sets, FS_RemoveElement
<1>5. /\ \A u \in Task : /\ done'[u] = IF u = t THEN done[u] + 1 ELSE done[u]
                         /\ counted'[u] = IF u = t THEN counted[u] + 1 ELSE counted[u]
      /\ UNCHANGED <<pc, verdict, again, already>>
  BY DataTypes DEF Accept, control
<1>6. Cardinality(Item) \in Nat /\ Cardinality(Recorded) \in Nat /\ Cardinality(Left(t)) \in Nat
  BY Sets, DataTypes
<1>7. ASSUME NEW u \in Task
      PROVE  CountersOf(u)'
  <2>1. CountersOf(u)
    BY DEF ImportInv, CountInv
  <2>2. done[u] \in Nat /\ counted[u] \in Nat /\ again[u] \in Nat
    BY DataTypes DEF Count
  <2>3. counted'[u] <= Cardinality(Recorded') /\ done'[u] <= Cardinality(Recorded')
    BY <1>3, <1>5, <1>6, <2>1, <2>2 DEF CountersOf
  <2>4. (u \notin Job => counted'[u] = done'[u])
        /\ (pc'[u] \in Early => done'[u] = 0)
    BY <1>1, <1>5, <2>1 DEF CountersOf, Early
  <2>5. pc'[u] = "copy" /\ failures'[u] = {} =>
          done'[u] + again'[u] + Cardinality(Left(u)') = Cardinality(Item)
    <3>1. CASE u = t
      <4>1. Cardinality(Left(t)') = Cardinality(Left(t)) - 1
        BY <1>1, <1>4
      <4>2. failures[t] = {} => done[t] + again[t] + Cardinality(Left(t)) = Cardinality(Item)
        BY <1>1, <2>1, <3>1 DEF CountersOf
      <4> QED
        BY <1>1, <1>5, <1>6, <2>2, <3>1, <4>1, <4>2
    <3>2. CASE u # t
      <4>1. Left(u)' = Left(u)
        BY <1>1, <3>2
      <4> QED
        BY <1>1, <1>5, <2>1, <3>2, <4>1 DEF CountersOf
    <3> QED
      BY <3>1, <3>2
  <2>6. pc'[u] = "close" /\ verdict'[u] = "COMPLETED" => done'[u] + already'[u] = Cardinality(Item)
    BY <1>1, <1>5, <2>1 DEF CountersOf
  <2> QED
    BY <2>3, <2>4, <2>5, <2>6 DEF CountersOf, Early
<1>8. Cardinality(Recorded') <= Cardinality(Item)
  BY <1>1, FS_Subset, BackupJobsConstants DEF Recorded
<1>9. counted' \in [Task -> Count] /\ done' \in [Task -> Count]
  <2>1. \A u \in Task : counted'[u] \in Count /\ done'[u] \in Count
    BY <1>3, <1>5, <1>6, <1>7, <1>8, DataTypes DEF CountersOf, Count
  <2> QED
    BY <2>1, DataTypes DEF Accept
<1> QED
  BY <1>1, <1>2, <1>7, <1>9 DEF ImportInv, CountInv

\* An import begins with what is not recorded yet.
LEMMA OpenBatchKeeps ==
  ASSUME TypeOK, ImportInv, NEW t \in Task, OpenBatch(t), pc'[t] = "copy"
  PROVE  DataOK' /\ ImportInv' /\ Sticks /\ again' \in [Task -> Count] /\ done' \in [Task -> Count]
<1> USE DEF OpenBatch, disk
<1>1. /\ todo' = [todo EXCEPT ![t] = Item \ Known]
      /\ failures' = [failures EXCEPT ![t] = {}]
      /\ done' = [done EXCEPT ![t] = 0]
      /\ again' = [again EXCEPT ![t] = Cardinality(Known)]
      /\ pc' = [pc EXCEPT ![t] = "copy"]
      /\ UNCHANGED <<verdict, counted, already, stream, sha, file, part>>
  BY ControlTypes DEF Raise, Goto
<1>2. pc[t] = "import" /\ Busy(t) = {}
  BY DEF ImportInv, StreamInv
<1>3. \A u \in Task : Busy(u)' = Busy(u)
  BY <1>1 DEF Busy
<1>4. Recorded' = Recorded /\ Known \subseteq Recorded /\ Known \subseteq Item
  BY <1>1 DEF Recorded, Known, AlreadyImported
<1>5. Left(t)' = Item \ Known /\ \A u \in Task \ {t} : Left(u)' = Left(u)
  BY <1>1, <1>2, <1>3, DataTypes DEF Left
<1>6. Cardinality(Item) \in Nat /\ Cardinality(Known) \in Nat /\ Cardinality(Known) <= Cardinality(Item)
      /\ Cardinality(Item \ Known) = Cardinality(Item) - Cardinality(Known)
  <2>1. Item \cap Known = Known
    BY <1>4
  <2> QED
    <3>1. Cardinality(Item \ Known) = Cardinality(Item) - Cardinality(Item \cap Known)
      BY FS_Difference, BackupJobsConstants
    <3> QED
      BY <2>1, <3>1, Sets, DataTypes
<1>7. DataOK'
  BY <1>1, DataTypeOK DEF DataOK
<1>8. StreamInv'
  BY <1>1, <1>2, <1>3, DataTypes, ControlTypes DEF ImportInv, StreamInv, Sequential, Busy
<1>9. KeptInv'
  <2>1. ASSUME NEW u \in Task, u # t
        PROVE  pc'[u] = pc[u] /\ verdict'[u] = verdict[u] /\ failures'[u] = failures[u]
               /\ Left(u)' = Left(u)
    BY <1>1, <1>5, <2>1, ControlTypes, DataTypes
  <2>2. pc'[t] = "copy" /\ Item \subseteq Left(t)' \cup Recorded'
    BY <1>4, <1>5
  <2> QED
    BY <1>4, <2>1, <2>2 DEF ImportInv, KeptInv
<1>10. ASSUME NEW u \in Task
       PROVE  CountersOf(u)'
  <2>1. CountersOf(u)
    BY DEF ImportInv, CountInv
  <2>2. CASE u = t
    <3>1. done'[t] = 0 /\ done[t] = 0 /\ again'[t] = Cardinality(Known) /\ counted'[t] = counted[t]
      BY <1>1, <1>2, <2>1, <2>2, DataTypes DEF CountersOf
    <3>2. done'[t] + again'[t] + Cardinality(Left(t)') = Cardinality(Item)
      BY <1>5, <1>6, <3>1
    <3> QED
      BY <1>4, <2>1, <2>2, <3>1, <3>2, Sets DEF CountersOf
  <2>3. CASE u # t
    <3>1. /\ pc'[u] = pc[u] /\ failures'[u] = failures[u] /\ done'[u] = done[u]
          /\ again'[u] = again[u] /\ Left(u)' = Left(u)
      BY <1>1, <1>5, <2>3, ControlTypes, DataTypes
    <3> QED
      BY <1>1, <1>4, <2>1, <3>1 DEF CountersOf
  <2> QED
    BY <2>2, <2>3
<1>11. Sticks
  BY <1>1, ControlTypes DEF Sticks
<1>12. again' \in [Task -> Count] /\ done' \in [Task -> Count]
  BY <1>1, <1>6, DataTypes DEF Count
<1> QED
  BY <1>7, <1>8, <1>9, <1>10, <1>11, <1>12 DEF ImportInv, CountInv

\* An import that completes has recorded every item it did not find.
LEMMA CloseBatchKeeps ==
  ASSUME TypeOK, ImportInv, NEW t \in Task, CloseBatch(t)
  PROVE  DataOK' /\ ImportInv' /\ Sticks
<1> USE DEF CloseBatch, disk
<1>1. Busy(t) = {} /\ pc[t] = "copy"
  BY DEF Open, Won, Busy
<1>2. /\ pc' = [pc EXCEPT ![t] = IF HasSnapshot(t) THEN "close" ELSE "end"]
      /\ verdict' = [verdict EXCEPT ![t] = Outcome(t)]
      /\ todo' = [todo EXCEPT ![t] = {}]
      /\ UNCHANGED <<counted, done, again, stream, failures, sha, file, part>>
  BY DEF Raise, Goto
<1>3. \A u \in Task : Busy(u)' = Busy(u)
  BY <1>2 DEF Busy
<1>4. Recorded' = Recorded
  BY <1>2 DEF Recorded
<1>5. ASSUME NEW u \in Task, u # t
      PROVE  /\ pc'[u] = pc[u] /\ verdict'[u] = verdict[u] /\ todo'[u] = todo[u]
             /\ already'[u] = already[u] /\ Left(u)' = Left(u)
  BY <1>2, <1>3, <1>5, ControlTypes, DataTypes DEF Left
<1>6. /\ pc'[t] \in {"close", "end"} /\ verdict'[t] = Outcome(t) /\ todo'[t] = {}
      /\ Outcome(t) = "COMPLETED" => already'[t] = again[t]
  BY <1>2, ControlTypes, DataTypes
<1>7. Outcome(t) = "COMPLETED" => failures[t] = {} /\ Left(t) = {}
  BY <1>1 DEF Outcome, Left
<1>8. DataOK'
  BY <1>2, DataTypeOK DEF DataOK
<1>9. StreamInv'
  BY <1>1, <1>2, <1>3, <1>5, <1>6 DEF ImportInv, StreamInv, Sequential, Busy
<1>10. KeptInv'
  <2>1. Outcome(t) = "COMPLETED" => Recorded = Item
    BY <1>1, <1>7 DEF ImportInv, KeptInv, Recorded
  <2> QED
    BY <1>2, <1>4, <1>5, <1>6, <2>1 DEF ImportInv, KeptInv
<1>11. ASSUME NEW u \in Task
       PROVE  CountersOf(u)'
  <2>1. CountersOf(u)
    BY DEF ImportInv, CountInv
  <2>2. CASE u = t
    <3>1. Outcome(t) = "COMPLETED" => done[t] + again[t] = Cardinality(Item)
      <4>1. Cardinality({}) = 0
        BY FS_EmptySet
      <4>2. done[t] \in Nat /\ again[t] \in Nat
        BY DataTypes DEF Count
      <4> QED
        <5> SUFFICES ASSUME Outcome(t) = "COMPLETED"
                     PROVE  done[t] + again[t] = Cardinality(Item)
          OBVIOUS
        <5>1. failures[t] = {} /\ Cardinality(Left(t)) = 0
          BY <1>7, <4>1
        <5>2. done[t] + again[t] + Cardinality(Left(t)) = Cardinality(Item)
          BY <1>1, <2>1, <2>2, <5>1 DEF CountersOf
        <5> QED
          BY <4>2, <5>1, <5>2
    <3> QED
      BY <1>2, <1>4, <1>6, <2>1, <2>2, <3>1 DEF CountersOf
  <2>3. CASE u # t
    BY <1>2, <1>4, <1>5, <2>1, <2>3 DEF CountersOf
  <2> QED
    BY <2>2, <2>3
<1>12. Sticks
  BY <1>2, ControlTypes DEF Sticks
<1> QED
  BY <1>8, <1>9, <1>10, <1>11, <1>12 DEF ImportInv, CountInv

\* Runners that are gone leave nothing to do behind.
LEMMA ForgetKeeps ==
  ASSUME TypeOK, ImportInv, NEW tasks \in SUBSET Task, Forget(tasks), UNCHANGED <<sha, file, part>>
  PROVE  DataOK' /\ ImportInv' /\ Sticks
<1> USE DEF Forget
<1>1. ASSUME NEW u \in Task, u \in tasks
      PROVE  /\ pc'[u] = "off" /\ done'[u] = 0 /\ failures'[u] = {} /\ todo'[u] = {}
             /\ Busy(u)' = {} /\ counted'[u] = IF u \in Job THEN counted[u] ELSE 0
  BY <1>1 DEF Busy
<1>2. ASSUME NEW u \in Task, u \notin tasks
      PROVE  /\ pc'[u] = pc[u] /\ verdict'[u] = verdict[u] /\ done'[u] = done[u] /\ again'[u] = again[u]
             /\ failures'[u] = failures[u] /\ todo'[u] = todo[u] /\ stream'[u] = stream[u]
             /\ counted'[u] = counted[u] /\ already'[u] = already[u]
             /\ Busy(u)' = Busy(u) /\ Left(u)' = Left(u)
  BY <1>2 DEF Busy, Left
<1>3. Recorded' = Recorded
  BY DEF Recorded
<1>4. \A u \in Task, j \in Item : stream'[u][j] # None => u \notin tasks /\ stream'[u][j] = stream[u][j]
  OBVIOUS
<1>5. DataOK'
  <2>1. stream' \in [Task -> [Item -> Stream \cup {None}]]
    BY DataTypes
  <2>2. todo' \in [Task -> SUBSET Item] /\ failures' \in [Task -> SUBSET {"error", "cancelled"}]
    BY DataTypes
  <2> QED
    BY <1>4, <2>1, <2>2, DataTypeOK DEF DataOK
<1>6. StreamInv'
  BY <1>1, <1>2 DEF ImportInv, StreamInv, Sequential, Busy
<1>7. KeptInv'
  BY <1>1, <1>2, <1>3 DEF ImportInv, KeptInv
<1>8. ASSUME NEW u \in Task
      PROVE  CountersOf(u)'
  <2>1. CountersOf(u)
    BY DEF ImportInv, CountInv
  <2>2. CASE u \in tasks
    BY <1>1, <1>3, <2>1, <2>2, Sets DEF CountersOf
  <2>3. CASE u \notin tasks
    BY <1>2, <1>3, <2>1, <2>3 DEF CountersOf
  <2> QED
    BY <2>2, <2>3
<1>9. Sticks
  BY <1>4, ControlTypes DEF Sticks
<1> QED
  BY <1>5, <1>6, <1>7, <1>8, <1>9 DEF ImportInv, CountInv

LEMMA CalmUser ==
  ASSUME TypeOK, ControlInv, ImportInv, NEW t \in Task,
         \/ Create(t) \/ StartJob(t) \/ StartWorker(t)
         \/ CancelJob(t) \/ NoteCancel(t) \/ CancelWorker(t)
  PROVE  Calm
<1> USE ControlTypes, DataTypes DEF Calm, counters, import, catalog, disk
<1>1. CASE Create(t)
  BY <1>1 DEF Create, Early, ControlInv, StatusInv
<1>2. CASE StartJob(t) \/ StartWorker(t)
  <2>1. pc[t] = "off" /\ Begin(t)
    BY <1>2 DEF StartJob, StartWorker, ControlInv, StatusInv
  <2> QED
    BY <2>1 DEF Begin, Goto, Early
<1>3. CASE CancelJob(t) \/ NoteCancel(t) \/ CancelWorker(t)
  BY <1>3 DEF CancelJob, CancelWorker, NoteCancel, SetEvent
<1> QED
  BY <1>1, <1>2, <1>3

LEMMA CalmRunner ==
  ASSUME TypeOK, ControlInv, ImportInv, NEW t \in Task,
         \/ Inventory(t) \/ InventoryFails(t) \/ Plan(t) \/ UpsertProfile(t) \/ OpenSnapshot(t)
         \/ CloseSnapshot(t) \/ CloseFails(t) \/ (OpenBatch(t) /\ pc'[t] # "copy")
  PROVE  Calm
<1> USE ControlTypes, DataTypes DEF Calm, counters, import, catalog, disk, Goto, Raise, Early
<1>1. CASE Inventory(t) \/ InventoryFails(t)
  BY <1>1 DEF Inventory, InventoryFails
<1>2. CASE Plan(t) \/ UpsertProfile(t)
  BY <1>2 DEF Plan, UpsertProfile
<1>3. CASE OpenSnapshot(t)
  BY <1>3 DEF OpenSnapshot
<1>4. CASE CloseSnapshot(t) \/ CloseFails(t)
  BY <1>4 DEF CloseSnapshot, CloseFails
<1>5. CASE OpenBatch(t) /\ pc'[t] # "copy"
  BY <1>5 DEF OpenBatch
<1> QED
  BY <1>1, <1>2, <1>3, <1>4, <1>5

LEMMA ImportStep ==
  ASSUME TypeOK, ControlInv, ImportInv, [Next]_vars
  PROVE  DataOK' /\ ImportInv' /\ Sticks
<1>1. CASE UNCHANGED vars
  <2>1. Calm
    BY <1>1 DEF Calm, vars, control, counters, import, catalog, disk
  <2> QED
    BY <2>1, CalmKeeps
<1>2. ASSUME NEW t \in Task,
             \/ Create(t) \/ StartJob(t) \/ StartWorker(t)
             \/ CancelJob(t) \/ NoteCancel(t) \/ CancelWorker(t)
      PROVE  DataOK' /\ ImportInv' /\ Sticks
  BY <1>2, CalmUser, CalmKeeps
<1>3. ASSUME NEW t \in Task,
             \/ Inventory(t) \/ InventoryFails(t) \/ Plan(t) \/ UpsertProfile(t) \/ OpenSnapshot(t)
             \/ CloseSnapshot(t) \/ CloseFails(t) \/ OpenBatch(t)
      PROVE  DataOK' /\ ImportInv' /\ Sticks
  BY <1>3, CalmRunner, CalmKeeps, OpenBatchKeeps
<1>4. ASSUME NEW t \in Task, CloseBatch(t)
      PROVE  DataOK' /\ ImportInv' /\ Sticks
  BY <1>4, CloseBatchKeeps
<1>5. ASSUME NEW t \in Task, ShowEnd(t)
      PROVE  DataOK' /\ ImportInv' /\ Sticks
  BY <1>5, ForgetKeeps DEF ShowEnd, catalog, disk
<1>6. ASSUME NEW tasks \in SUBSET Task, Crash(tasks)
      PROVE  DataOK' /\ ImportInv' /\ Sticks
  BY <1>6, ForgetKeeps DEF Crash, catalog, disk
<1>7. ASSUME NEW i \in Item, UserDeletes(i) \/ UserPuts(i)
      PROVE  DataOK' /\ ImportInv' /\ Sticks
  <2>1. Effect /\ UNCHANGED <<sha, counters, pc, verdict>>
    BY <1>7, UserEffect DEF ImportInv, UserDeletes, UserPuts, control, catalog
  <2> QED
    BY <2>1, EffectKeeps
<1>8. ASSUME NEW t \in Task, NEW i \in Item, Streaming(t, i)
      PROVE  DataOK' /\ ImportInv' /\ Sticks
  <2>1. CASE Accept(t, i)
    BY <2>1, AcceptKeeps
  <2>2. CASE ~Accept(t, i)
    <3>1. StatusInv /\ StreamInv
      BY DEF ControlInv, ImportInv
    <3>2. Effect
      BY <1>8, <2>2, <3>1, RefuseEffect, RemoveEffect, CancelEffect, OpenEffect, WriteEffect,
         GiveUpEffect, PublishEffect, PublishFailsEffect DEF Streaming
    <3>3. UNCHANGED <<sha, counters, pc, verdict>>
      BY <1>8, <2>2
      DEF Streaming, RefuseStream, RemovePartial, CancelStream, OpenStream, Take, Write, GiveUp,
          Publish, PublishFails, control, catalog
    <3> QED
      BY <3>2, <3>3, EffectKeeps
  <2> QED
    BY <2>1, <2>2
<1>9. ASSUME NEW t \in Task, NEW i \in Item, AcceptFails(t, i)
      PROVE  DataOK' /\ ImportInv' /\ Sticks
  <2>1. Effect /\ pc[t] = "copy"
    BY <1>9, AcceptFailsEffect DEF ImportInv
  <2>2. UNCHANGED <<sha, counters>>
    BY <1>9 DEF AcceptFails, catalog
  <2>3. \A u \in Task :
          \/ pc'[u] = pc[u] /\ verdict'[u] = verdict[u]
          \/ pc[u] = "copy" /\ pc'[u] \in {"close", "end"} /\ verdict'[u] = "FAILED"
    BY <1>9, <2>1, ControlTypes DEF AcceptFails, Raise, Goto
  <2> QED
    BY <2>1, <2>2, <2>3, EffectKeeps
<1> QED
  BY <1>1, <1>2, <1>3, <1>4, <1>5, <1>6, <1>7, <1>8, <1>9
  DEF Next, User, Faults, Runner, Streaming, Task

-------------------------------------------------------------------------------
(***************************************************************************)
(* The numbers of the snapshots.                                           *)
(***************************************************************************)
\* A step that counts nothing of a running attempt.
LEMMA TallyFrame ==
  ASSUME TallyInv, begun' = begun, tally' = tally,
         \A u \in Task : pc'[u] # "off" =>
           /\ pc[u] # "off" /\ attempt'[u] = attempt[u]
           /\ counted'[u] = counted[u] /\ done'[u] = done[u]
  PROVE  TallyInv'
BY DEF TallyInv

\* A step that closes no snapshot, and counts nothing of an attempt that has a closed one.
LEMMA NumbersFrame ==
  ASSUME NumbersInv, TallyInv', UNCHANGED snapshot,
         \A n \in Attempt : snapshot[n].state \in Terminal => tally'[n] = tally[n]
  PROVE  NumbersInv'
BY DEF NumbersInv, SnapshotAddsUp

LEMMA NumbersBegin ==
  ASSUME TypeOK, ControlInv, ImportInv, NumbersInv, NEW t \in Task, Begin(t), pc[t] = "off"
  PROVE  NumbersInv'
<1> USE ControlTypes, DataTypes, TallyTypes DEF Begin, catalog
<1>1. /\ begun + 1 \in Attempt /\ begun \in Nat
      /\ \A n \in Attempt \ {begun + 1} : tally'[n] = tally[n]
      /\ tally'[begun + 1].before = counted[t] /\ tally'[begun + 1].got = 0
      /\ attempt' = [attempt EXCEPT ![t] = begun + 1]
  BY DEF Attempt, NumbersInv, TallyInv
<1>2. ASSUME NEW u \in Task, pc'[u] # "off"
      PROVE  LET mine == tally'[attempt'[u]] IN
             done'[u] = mine.got /\ counted'[u] = mine.before + mine.got
  <2>1. CASE u = t
    <3>1. done[t] = 0 /\ counted[t] \in Nat
      BY DEF ImportInv, CountInv, CountersOf, Count
    <3> QED
      BY <1>1, <2>1, <3>1
  <2>2. CASE u # t
    <3>1. pc[u] # "off" /\ attempt[u] \in Attempt \ {begun + 1} /\ attempt'[u] = attempt[u]
      BY <1>1, <1>2, <2>2 DEF Goto, ControlInv, AttemptInv, StatusInv, Attempt
    <3> QED
      BY <1>1, <3>1 DEF NumbersInv, TallyInv
  <2> QED
    BY <2>1, <2>2
<1>3. ASSUME NEW n \in Attempt, n > begun'
      PROVE  tally'[n].got = 0
  BY <1>1, <1>3 DEF NumbersInv, TallyInv, Attempt
<1>4. TallyInv'
  BY <1>2, <1>3 DEF TallyInv
<1>5. snapshot[begun + 1].state \notin Terminal
  <2>1. snapshot[begun + 1].state = "none"
    BY <1>1 DEF ControlInv, AttemptInv
  <2> QED
    BY <2>1 DEF Terminal
<1>6. UNCHANGED snapshot
  OBVIOUS
<1> QED
  BY <1>1, <1>4, <1>5, <1>6, NumbersFrame

LEMMA NumbersAccept ==
  ASSUME TypeOK, ControlInv, ImportInv, NumbersInv, NEW t \in Task, NEW i \in Item, Accept(t, i)
  PROVE  NumbersInv'
<1> USE ControlTypes, DataTypes, TallyTypes DEF Accept, control
<1>1. pc[t] = "copy"
  BY DEF Won, Busy, ImportInv, StreamInv
<1>2. attempt[t] \in Attempt /\ \A u \in Task \ {t} : pc[u] # "off" => attempt[u] # attempt[t]
  BY <1>1 DEF ControlInv, AttemptInv, StatusInv, Attempt
<1>3. /\ tally'[attempt[t]].got = tally[attempt[t]].got + 1
      /\ tally'[attempt[t]].before = tally[attempt[t]].before
      /\ \A n \in Attempt \ {attempt[t]} : tally'[n] = tally[n]
  BY <1>2
<1>4. ASSUME NEW u \in Task, pc'[u] # "off"
      PROVE  LET mine == tally'[attempt'[u]] IN
             done'[u] = mine.got /\ counted'[u] = mine.before + mine.got
  <2>1. CASE u = t
    <3>1. /\ done[t] = tally[attempt[t]].got
          /\ counted[t] = tally[attempt[t]].before + tally[attempt[t]].got
      BY <1>1 DEF NumbersInv, TallyInv
    <3>2. tally[attempt[t]].before \in Nat /\ tally[attempt[t]].got \in Nat
      BY <1>2 DEF Count
    <3>3. done'[t] = done[t] + 1 /\ counted'[t] = counted[t] + 1
      OBVIOUS
    <3> QED
      BY <1>3, <2>1, <3>1, <3>2, <3>3
  <2>2. CASE u # t
    <3>1. pc[u] # "off" /\ attempt[u] \in Attempt \ {attempt[t]}
      BY <1>2, <1>4, <2>2 DEF ControlInv, StatusInv, Attempt
    <3>2. done'[u] = done[u] /\ counted'[u] = counted[u] /\ tally'[attempt[u]] = tally[attempt[u]]
      BY <1>3, <2>2, <3>1
    <3> QED
      BY <3>1, <3>2 DEF NumbersInv, TallyInv
  <2> QED
    BY <2>1, <2>2
<1>5. ASSUME NEW n \in Attempt, n > begun'
      PROVE  tally'[n].got = 0
  <2>1. n # attempt[t]
    BY <1>2, <1>5 DEF ControlInv, AttemptInv, Attempt
  <2> QED
    BY <1>3, <1>5, <2>1 DEF NumbersInv, TallyInv
<1>6. TallyInv'
  BY <1>4, <1>5 DEF TallyInv
<1>7. snapshot[attempt[t]].state \notin Terminal
  BY <1>1 DEF ControlInv, RowsInv, RowsOf, Terminal
<1> QED
  BY <1>3, <1>6, <1>7, NumbersFrame

LEMMA NumbersOpen ==
  ASSUME TypeOK, ControlInv, NumbersInv, NEW t \in Task, OpenSnapshot(t)
  PROVE  NumbersInv'
<1> USE ControlTypes DEF OpenSnapshot, Goto, counters
<1>1. attempt[t] \in Attempt
  BY DEF ControlInv, StatusInv, Attempt
<1>2. /\ snapshot'[attempt[t]].state = "RUNNING"
      /\ snapshot'[attempt[t]].planned = Cardinality(Item)
      /\ \A n \in Attempt \ {attempt[t]} : snapshot'[n] = snapshot[n]
  BY <1>1 DEF NoSnapshot
<1>3. TallyInv'
  BY TallyFrame DEF NumbersInv
<1> QED
  BY <1>2, <1>3 DEF NumbersInv, SnapshotAddsUp, Terminal

LEMMA NumbersClose ==
  ASSUME TypeOK, ControlInv, ImportInv, NumbersInv, NEW t \in Task, CloseSnapshot(t)
  PROVE  NumbersInv'
<1> USE ControlTypes, DataTypes DEF CloseSnapshot
<1>1. attempt[t] \in Attempt
  BY DEF ControlInv, StatusInv, Attempt
<1>2. /\ snapshot'[attempt[t]].state = verdict[t]
      /\ snapshot'[attempt[t]].planned = snapshot[attempt[t]].planned
      /\ snapshot'[attempt[t]].imported = Imported(t)
      /\ snapshot'[attempt[t]].already = Already(t)
      /\ snapshot'[attempt[t]].bytes = counted[t]
      /\ \A n \in Attempt \ {attempt[t]} : snapshot'[n] = snapshot[n]
  BY <1>1
<1>3. snapshot[attempt[t]].planned = Cardinality(Item)
  BY <1>1 DEF ControlInv, RowsInv, RowsOf, NumbersInv
<1>4. verdict[t] = "COMPLETED" => Imported(t) + Already(t) = Cardinality(Item)
  BY DEF Imported, Already, ImportInv, CountInv, CountersOf
<1>5. /\ done[t] = tally[attempt[t]].got
      /\ counted[t] = tally[attempt[t]].before + tally[attempt[t]].got
  BY DEF NumbersInv, TallyInv
<1>6. Imported(t) = IF verdict[t] = "COMPLETED" THEN done[t] ELSE counted[t]
  BY DEF Imported, ImportInv, CountInv, CountersOf
<1>7. TallyInv'
  BY TallyFrame DEF NumbersInv, Goto, counters
<1>8. tally' = tally
  BY DEF counters
<1> QED
  BY <1>2, <1>3, <1>4, <1>5, <1>6, <1>7, <1>8 DEF NumbersInv, SnapshotAddsUp

\* Runners that are gone count nothing.
LEMMA NumbersForget ==
  ASSUME TypeOK, NumbersInv, NEW tasks \in SUBSET Task, Forget(tasks),
         UNCHANGED <<begun, tally, snapshot>>,
         \A u \in Task \ tasks : attempt'[u] = attempt[u]
  PROVE  NumbersInv'
<1>1. ASSUME NEW u \in Task, pc'[u] # "off"
      PROVE  /\ pc[u] # "off" /\ attempt'[u] = attempt[u]
             /\ counted'[u] = counted[u] /\ done'[u] = done[u]
  BY <1>1 DEF Forget
<1>2. TallyInv'
  BY <1>1, TallyFrame DEF NumbersInv
<1> QED
  BY <1>2, NumbersFrame

\* The runner goes on, and counts nothing.
LEMMA NumbersRuns ==
  ASSUME TypeOK, NumbersInv, NEW t \in Task, pc[t] # "off",
         UNCHANGED <<begun, tally, snapshot, attempt, counted>>,
         \A u \in Task \ {t} : pc'[u] = pc[u],
         \A u \in Task : done'[u] = done[u]
  PROVE  NumbersInv'
<1>1. TallyInv'
  BY TallyFrame DEF NumbersInv
<1> QED
  BY <1>1, NumbersFrame

LEMMA NumbersStep ==
  ASSUME TypeOK, ControlInv, ImportInv, NumbersInv, [Next]_vars
  PROVE  NumbersInv'
<1>1. CASE UNCHANGED <<snapshot, begun, tally, pc, attempt, counted, done>>
  BY <1>1, NumbersFrame, TallyFrame DEF NumbersInv
<1>2. ASSUME NEW t \in Task, OpenSnapshot(t) \/ CloseSnapshot(t)
      PROVE  NumbersInv'
  BY <1>2, NumbersOpen, NumbersClose
<1>3. ASSUME NEW t \in Task, Create(t)
      PROVE  NumbersInv'
  <2>1. pc[t] = "off"
    BY <1>3 DEF Create, ControlInv, StatusInv
  <2>2. TallyInv'
    BY <1>3, <2>1, TallyFrame, DataTypes DEF Create, NumbersInv
  <2> QED
    BY <1>3, <2>2, NumbersFrame DEF Create, catalog
<1>4. ASSUME NEW t \in Task, StartJob(t) \/ StartWorker(t)
      PROVE  NumbersInv'
  <2>1. pc[t] = "off"
    BY <1>4 DEF StartJob, StartWorker, ControlInv, StatusInv
  <2> QED
    BY <1>4, <2>1, NumbersBegin DEF StartJob, StartWorker
<1>5. ASSUME NEW t \in Task, CancelJob(t) \/ NoteCancel(t) \/ CancelWorker(t)
      PROVE  NumbersInv'
  BY <1>1, <1>5 DEF CancelJob, NoteCancel, CancelWorker, SetEvent, counters, catalog
<1>6. ASSUME NEW i \in Item, UserDeletes(i) \/ UserPuts(i)
      PROVE  NumbersInv'
  BY <1>1, <1>6 DEF UserDeletes, UserPuts, control, counters, catalog
<1>7. ASSUME NEW t \in Task,
             \/ Inventory(t) \/ InventoryFails(t) \/ Plan(t) \/ UpsertProfile(t) \/ CloseBatch(t)
             \/ CloseFails(t)
      PROVE  NumbersInv'
  BY <1>7, NumbersRuns, ControlTypes
  DEF Inventory, InventoryFails, Plan, UpsertProfile, CloseBatch, CloseFails, Raise, Goto,
      counters, catalog
<1>8. ASSUME NEW t \in Task, OpenBatch(t)
      PROVE  NumbersInv'
  <2>1. pc[t] = "import" /\ done[t] = 0
    BY <1>8 DEF OpenBatch, ImportInv, CountInv, CountersOf
  <2>2. /\ \A u \in Task : done'[u] = done[u]
        /\ \A u \in Task \ {t} : pc'[u] = pc[u]
    BY <1>8, <2>1, ControlTypes, DataTypes DEF OpenBatch, Raise, Goto
  <2> QED
    BY <1>8, <2>1, <2>2, NumbersRuns DEF OpenBatch
<1>9. ASSUME NEW t \in Task, ShowEnd(t)
      PROVE  NumbersInv'
  BY <1>9, NumbersForget DEF ShowEnd, catalog
<1>10. ASSUME NEW tasks \in SUBSET Task, Crash(tasks)
       PROVE  NumbersInv'
  BY <1>10, NumbersForget DEF Crash, catalog
<1>11. ASSUME NEW t \in Task, NEW i \in Item, Streaming(t, i)
       PROVE  NumbersInv'
  <2>1. CASE Accept(t, i)
    BY <2>1, NumbersAccept
  <2>2. CASE ~Accept(t, i)
    BY <1>1, <1>11, <2>2
    DEF Streaming, RefuseStream, RemovePartial, CancelStream, OpenStream, Take, Write, GiveUp,
        Publish, PublishFails, control, counters, catalog
  <2> QED
    BY <2>1, <2>2
<1>12. ASSUME NEW t \in Task, NEW i \in Item, AcceptFails(t, i)
       PROVE  NumbersInv'
  <2>1. pc[t] = "copy"
    BY <1>12 DEF AcceptFails, Won, Busy, ImportInv, StreamInv
  <2>2. \A u \in Task \ {t} : pc'[u] = pc[u]
    BY <1>12, ControlTypes DEF AcceptFails, Raise, Goto
  <2> QED
    BY <1>12, <2>1, <2>2, NumbersRuns DEF AcceptFails, counters, catalog
<1>13. CASE UNCHANGED vars
  BY <1>1, <1>13 DEF vars, control, counters, catalog
<1> QED
  BY <1>2, <1>3, <1>4, <1>5, <1>6, <1>7, <1>8, <1>9, <1>10, <1>11, <1>12, <1>13
  DEF Next, User, Faults, Runner, Streaming, Task

-------------------------------------------------------------------------------
(***************************************************************************)
(* The types of what is not part of an import.                             *)
(***************************************************************************)
RunnerTypes ==
  /\ status \in [Task -> {"NONE", "PLANNED", "RUNNING"} \cup Terminal]
  /\ cancel \in [Task -> BOOLEAN] /\ asking \subseteq Job /\ asked \subseteq Task
  /\ pc \in [Task -> Phases] /\ verdict \in [Task -> {"none"} \cup Terminal]
  /\ attempt \in [Task -> 0..MaxAttempts] /\ begun \in 0..MaxAttempts
  /\ faults \in 0..MaxFaults
CounterTypes ==
  /\ counted \in [Task -> Count] /\ already \in [Task -> Count]
  /\ again \in [Task -> Count] /\ done \in [Task -> Count]
TableTypes ==
  /\ snapshot \in [Attempt -> [state : States, planned : Count, imported : Count, already : Count, bytes : Count]]
  /\ batch \in [Attempt -> States]
  /\ profile \in [saved : BOOLEAN, last : SUBSET Attempt]
TallyType == tally \in [Attempt -> [before : Count, got : Count]]

LEMMA TypeParts == TypeOK <=> RunnerTypes /\ CounterTypes /\ TableTypes /\ TallyType /\ DataOK
BY DEF TypeOK, RunnerTypes, CounterTypes, TableTypes, TallyType, DataOK

LEMMA TypePartsNext == RunnerTypes' /\ CounterTypes' /\ TableTypes' /\ TallyType' /\ DataOK' => TypeOK'
BY DEF TypeOK, RunnerTypes, CounterTypes, TableTypes, TallyType, DataOK

LEMMA RaiseTypes ==
  ASSUME RunnerTypes, NEW t \in Task, NEW how \in Terminal, Raise(t, how)
  PROVE  pc' \in [Task -> Phases] /\ verdict' \in [Task -> {"none"} \cup Terminal]
<1>1. \E label \in Phases : pc' = [pc EXCEPT ![t] = label]
  BY DEF Raise, Goto, Phases
<1> QED
  BY <1>1 DEF Raise, RunnerTypes

LEMMA GotoTypes ==
  ASSUME RunnerTypes, NEW t \in Task, NEW label \in Phases, Goto(t, label)
  PROVE  pc' \in [Task -> Phases]
BY DEF Goto, RunnerTypes

LEMMA FaultTypes ==
  ASSUME RunnerTypes, Fault
  PROVE  faults' \in 0..MaxFaults
BY BackupJobsConstants DEF Fault, RunnerTypes

LEMMA TypeUser ==
  ASSUME TypeOK, NEW t \in Task,
         \/ Create(t) \/ StartJob(t) \/ StartWorker(t)
         \/ CancelJob(t) \/ NoteCancel(t) \/ CancelWorker(t)
  PROVE  RunnerTypes' /\ CounterTypes' /\ TableTypes'
<1> USE TypeParts, DataTypes, BackupJobsConstants DEF RunnerTypes, CounterTypes, TableTypes
<1>1. CASE Create(t)
  BY <1>1 DEF Create, catalog, Count
<1>2. CASE Begin(t)
  BY <1>2 DEF Begin, Goto, Phases, counters, catalog
<1>3. CASE CancelJob(t) \/ CancelWorker(t)
  BY <1>3 DEF CancelJob, CancelWorker, SetEvent, counters, catalog
<1>4. CASE NoteCancel(t)
  BY <1>4 DEF NoteCancel, counters, catalog, Terminal
<1> QED
  BY <1>1, <1>2, <1>3, <1>4 DEF StartJob, StartWorker

LEMMA TypeRunner ==
  ASSUME TypeOK, NEW t \in Task,
         Inventory(t) \/ InventoryFails(t) \/ Plan(t) \/ UpsertProfile(t) \/ OpenBatch(t)
  PROVE  RunnerTypes' /\ CounterTypes' /\ TableTypes'
<1>1. RunnerTypes /\ CounterTypes /\ TableTypes /\ {"CANCELLED", "FAILED"} \subseteq Terminal
  BY TypeParts DEF Terminal
<1>2. CASE Inventory(t) \/ InventoryFails(t)
  <2>1. pc' \in [Task -> Phases] /\ verdict' \in [Task -> {"none"} \cup Terminal]
    <3>1. CASE Raise(t, "CANCELLED") \/ Raise(t, "FAILED")
      BY <1>1, <3>1, RaiseTypes
    <3>2. CASE Goto(t, "plan") /\ UNCHANGED verdict
      BY <1>1, <3>2, GotoTypes DEF RunnerTypes, Phases
    <3> QED
      BY <1>2, <3>1, <3>2 DEF Inventory, InventoryFails
  <2>2. faults' \in 0..MaxFaults
    BY <1>1, <1>2, FaultTypes DEF Inventory, InventoryFails, RunnerTypes
  <2>3. CounterTypes' /\ TableTypes'
    BY <1>1, <1>2 DEF Inventory, InventoryFails, counters, catalog, CounterTypes, TableTypes
  <2> QED
    BY <1>1, <1>2, <2>1, <2>2, <2>3 DEF Inventory, InventoryFails, RunnerTypes
<1>3. CASE Plan(t)
  <2>1. Cardinality(Known) \in Count
    BY Sets, DataTypes DEF Count
  <2>2. CounterTypes'
    BY <1>1, <1>3, <2>1 DEF Plan, CounterTypes
  <2>3. pc' \in [Task -> Phases]
    BY <1>1, <1>3, GotoTypes DEF Plan, Phases
  <2>4. verdict' \in [Task -> {"none"} \cup Terminal]
    BY <1>1, <1>3 DEF Plan, RunnerTypes
  <2> QED
    BY <1>1, <1>3, <2>2, <2>3, <2>4 DEF Plan, catalog, RunnerTypes, TableTypes
<1>4. CASE UpsertProfile(t)
  <2>1. pc' \in [Task -> Phases]
    BY <1>1, <1>4, GotoTypes DEF UpsertProfile, Phases
  <2> QED
    BY <1>1, <1>4, <2>1 DEF UpsertProfile, counters, RunnerTypes, CounterTypes, TableTypes
<1>5. CASE OpenBatch(t)
  <2>1. Cardinality(Known) \in Count /\ 0 \in Count
    BY Sets, DataTypes DEF Count
  <2>2. CounterTypes'
    BY <1>1, <1>5, <2>1 DEF OpenBatch, CounterTypes
  <2>3. pc' \in [Task -> Phases] /\ verdict' \in [Task -> {"none"} \cup Terminal]
    <3>1. CASE Raise(t, "CANCELLED") \/ Raise(t, "FAILED")
      BY <1>1, <3>1, RaiseTypes
    <3>2. CASE Goto(t, "copy") /\ UNCHANGED verdict
      BY <1>1, <3>2, GotoTypes DEF RunnerTypes, Phases
    <3> QED
      BY <1>5, <3>1, <3>2 DEF OpenBatch
  <2>4. batch' \in [Attempt -> States]
    BY <1>1, <1>5 DEF OpenBatch, TableTypes, States
  <2> QED
    BY <1>1, <1>5, <2>2, <2>3, <2>4 DEF OpenBatch, RunnerTypes, TableTypes
<1> QED
  BY <1>2, <1>3, <1>4, <1>5

LEMMA TypeSnapshot ==
  ASSUME TypeOK, ControlInv, NEW t \in Task,
         OpenSnapshot(t) \/ CloseBatch(t) \/ CloseSnapshot(t) \/ CloseFails(t)
  PROVE  RunnerTypes' /\ CounterTypes' /\ TableTypes'
<1> USE TypeParts, DataTypes, BackupJobsConstants
    DEF RunnerTypes, CounterTypes, TableTypes, Terminal
<1>1. CASE OpenSnapshot(t)
  <2>1. pc' \in [Task -> Phases]
    BY <1>1, GotoTypes DEF OpenSnapshot, Phases
  <2>2. [NoSnapshot EXCEPT !.state = "RUNNING", !.planned = Cardinality(Item)]
          \in [state : States, planned : Count, imported : Count, already : Count, bytes : Count]
    <3>1. Cardinality(Item) \in Count /\ 0 \in Count
      BY DEF Count
    <3>2. NoSnapshot \in [state : States, planned : Count, imported : Count, already : Count, bytes : Count]
      BY <3>1 DEF NoSnapshot, States
    <3> HIDE DEF Count
    <3> QED
      BY <3>1, <3>2 DEF States
  <2>3. snapshot' \in [Attempt -> [state : States, planned : Count, imported : Count, already : Count, bytes : Count]]
    BY <1>1, <2>2 DEF OpenSnapshot
  <2> QED
    BY <1>1, <2>1, <2>3 DEF OpenSnapshot, counters
<1>2. CASE CloseBatch(t)
  <2>1. Outcome(t) \in Terminal /\ Outcome(t) \in States
    BY DEF Outcome, States
  <2>2. pc' \in [Task -> Phases] /\ verdict' \in [Task -> {"none"} \cup Terminal]
    BY <1>2, <2>1, RaiseTypes DEF CloseBatch
  <2>3. already' \in [Task -> Count]
    BY <1>2 DEF CloseBatch
  <2>4. batch' \in [Attempt -> States]
    BY <1>2, <2>1 DEF CloseBatch
  <2> QED
    BY <1>2, <2>2, <2>3, <2>4 DEF CloseBatch
<1>3. CASE CloseSnapshot(t)
  <2>1. /\ verdict[t] \in States /\ Imported(t) \in Count /\ Already(t) \in Count /\ counted[t] \in Count
        /\ attempt[t] \in Attempt
    BY <1>3 DEF CloseSnapshot, ControlInv, VerdictInv, VerdictOf, StatusInv, Attempt, States,
                Imported, Already, Count
  <2> HIDE DEF Count
  <2>2. snapshot' \in [Attempt -> [state : States, planned : Count, imported : Count, already : Count, bytes : Count]]
    <3>1. snapshot[attempt[t]] \in [state : States, planned : Count, imported : Count, already : Count, bytes : Count]
      BY <2>1
    <3>2. [snapshot[attempt[t]] EXCEPT !.state = verdict[t], !.imported = Imported(t), !.already = Already(t),
                                       !.bytes = counted[t]]
            \in [state : States, planned : Count, imported : Count, already : Count, bytes : Count]
      BY <2>1, <3>1
    <3> QED
      BY <1>3, <3>2 DEF CloseSnapshot
  <2>3. profile' \in [saved : BOOLEAN, last : SUBSET Attempt]
    BY <1>3, <2>1 DEF CloseSnapshot
  <2> QED
    BY <1>3, <2>2, <2>3, GotoTypes DEF CloseSnapshot, counters, Phases
<1>4. CASE CloseFails(t)
  <2>1. pc' \in [Task -> Phases] /\ verdict' \in [Task -> {"none"} \cup Terminal]
    BY <1>4, GotoTypes DEF CloseFails, Phases
  <2> QED
    BY <1>4, <2>1, FaultTypes DEF CloseFails, counters, catalog
<1> QED
  BY <1>1, <1>2, <1>3, <1>4

LEMMA TypeForget ==
  ASSUME TypeOK, ControlInv, NEW tasks \in SUBSET Task,
         Crash(tasks) \/ \E t \in tasks : tasks = {t} /\ ShowEnd(t)
  PROVE  RunnerTypes' /\ CounterTypes' /\ TableTypes'
<1> USE TypeParts, DataTypes, BackupJobsConstants DEF RunnerTypes, TableTypes
<1>1. Forget(tasks) /\ UNCHANGED <<snapshot, batch, profile>>
  BY DEF Crash, ShowEnd, catalog
<1>2. CounterTypes'
  BY <1>1 DEF Forget, CounterTypes, Count
<1>3. /\ pc' \in [Task -> Phases] /\ verdict' \in [Task -> {"none"} \cup Terminal]
      /\ cancel' \in [Task -> BOOLEAN] /\ asked' \subseteq Task
  BY <1>1 DEF Forget, Phases
<1>4. CASE Crash(tasks)
  BY <1>1, <1>2, <1>3, <1>4 DEF Crash, Fault
<1>5. ASSUME NEW t \in tasks, ShowEnd(t)
      PROVE  RunnerTypes'
  <2>1. verdict[t] \in Terminal
    BY <1>5 DEF ShowEnd, ControlInv, VerdictInv, VerdictOf
  <2> QED
    BY <1>3, <1>5, <2>1 DEF ShowEnd
<1> QED
  BY <1>1, <1>2, <1>4, <1>5

LEMMA TypeTally ==
  ASSUME TypeOK, ControlInv, ImportInv, NumbersInv, [Next]_vars
  PROVE  TallyType'
<1> USE TallyTypes DEF TallyType
<1>1. CASE UNCHANGED tally
  BY <1>1
<1>2. ASSUME NEW t \in Task, Begin(t)
      PROVE  TallyType'
  <2>1. counted[t] \in Count
    BY DataTypes
  <2> QED
    BY <1>2, <2>1 DEF Begin
<1>3. ASSUME NEW t \in Task, NEW i \in Item, Accept(t, i)
      PROVE  TallyType'
  <2>1. pc[t] = "copy"
    BY <1>3 DEF Accept, Won, Busy, ImportInv, StreamInv
  <2>2. done[t] = tally[attempt[t]].got
    BY <2>1 DEF NumbersInv, TallyInv
  <2>3. done'[t] = done[t] + 1 /\ done'[t] \in Count
    BY <1>3, AcceptKeeps, DataTypes DEF Accept
  <2>4. tally[attempt[t]].got + 1 \in Count
    BY <2>2, <2>3
  <2> HIDE DEF Count
  <2> QED
    BY <1>3, <2>4 DEF Accept
<1>4. CASE User \/ UNCHANGED vars
  BY <1>1, <1>2, <1>4
  DEF User, Create, StartJob, StartWorker, CancelJob, CancelWorker, NoteCancel, SetEvent,
      UserDeletes, UserPuts, vars, counters
<1>5. CASE Faults
  BY <1>1, <1>5 DEF Faults, InventoryFails, CloseFails, GiveUp, Crash, counters
<1>6. ASSUME NEW t \in Task,
             \/ Inventory(t) \/ Plan(t) \/ UpsertProfile(t) \/ OpenSnapshot(t) \/ OpenBatch(t)
             \/ CloseBatch(t) \/ CloseSnapshot(t) \/ ShowEnd(t)
      PROVE  TallyType'
  BY <1>1, <1>6 DEF Inventory, Plan, UpsertProfile, OpenSnapshot, OpenBatch, CloseBatch,
                    CloseSnapshot, ShowEnd, counters
<1>7. ASSUME NEW t \in Task, NEW i \in Item, Streaming(t, i) \/ AcceptFails(t, i)
      PROVE  TallyType'
  BY <1>1, <1>3, <1>7
  DEF Streaming, RefuseStream, RemovePartial, CancelStream, OpenStream, Take, Write, GiveUp,
      Publish, PublishFails, AcceptFails, counters
<1> QED
  BY <1>4, <1>5, <1>6, <1>7 DEF Next, Runner, Streaming

LEMMA TypeStep ==
  ASSUME TypeOK, ControlInv, ImportInv, NumbersInv, [Next]_vars
  PROVE  TypeOK'
<1>1. DataOK' /\ TallyType'
  BY ImportStep, TypeTally
<1>10. RunnerTypes /\ CounterTypes /\ TableTypes
  BY TypeParts
<1> USE TypePartsNext
<1>2. CASE UNCHANGED vars
  BY <1>2 DEF TypeOK, vars, control, counters, import, catalog, disk
<1>3. ASSUME NEW t \in Task,
             \/ Create(t) \/ StartJob(t) \/ StartWorker(t)
             \/ CancelJob(t) \/ NoteCancel(t) \/ CancelWorker(t)
      PROVE  TypeOK'
  BY <1>1, <1>3, TypeUser
<1>4. ASSUME NEW t \in Task,
             \/ Inventory(t) \/ InventoryFails(t) \/ Plan(t) \/ UpsertProfile(t) \/ OpenBatch(t)
             \/ OpenSnapshot(t) \/ CloseBatch(t) \/ CloseSnapshot(t) \/ CloseFails(t)
      PROVE  TypeOK'
  BY <1>1, <1>4, TypeRunner, TypeSnapshot
<1>5. ASSUME NEW t \in Task, ShowEnd(t)
      PROVE  TypeOK'
  <2>1. {t} \in SUBSET Task
    OBVIOUS
  <2> QED
    BY <1>1, <1>5, <2>1, TypeForget
<1>6. ASSUME NEW tasks \in SUBSET Task, Crash(tasks)
      PROVE  TypeOK'
  BY <1>1, <1>6, TypeForget
<1>7. ASSUME NEW i \in Item, UserDeletes(i) \/ UserPuts(i)
      PROVE  TypeOK'
  <2>1. RunnerTypes' /\ CounterTypes' /\ TableTypes'
    BY <1>7, <1>10, FaultTypes DEF RunnerTypes, CounterTypes, TableTypes, UserDeletes, UserPuts,
                control, counters, catalog
  <2> QED
    BY <1>1, <2>1
<1>8. ASSUME NEW t \in Task, NEW i \in Item, Streaming(t, i)
      PROVE  TypeOK'
  <2>1. RunnerTypes' /\ TableTypes'
    BY <1>8, <1>10, FaultTypes
    DEF RunnerTypes, TableTypes, Streaming, RefuseStream, RemovePartial, CancelStream, OpenStream,
        Take, Write, GiveUp, Publish, PublishFails, Accept, control, catalog
  <2>2. CASE Accept(t, i)
    <3>1. CounterTypes'
      BY <1>10, <2>2, AcceptKeeps DEF CounterTypes, Accept
    <3> QED
      BY <1>1, <2>1, <3>1
  <2>3. CASE ~Accept(t, i)
    <3>1. CounterTypes'
      BY <1>8, <1>10, <2>3
      DEF CounterTypes, Streaming, RefuseStream, RemovePartial, CancelStream, OpenStream,
          Take, Write, GiveUp, Publish, PublishFails, counters
    <3> QED
      BY <1>1, <2>1, <3>1
  <2> QED
    BY <2>2, <2>3
<1>9. ASSUME NEW t \in Task, NEW i \in Item, AcceptFails(t, i)
      PROVE  TypeOK'
  <2>1. RunnerTypes' /\ CounterTypes' /\ TableTypes'
    <3>1. pc' \in [Task -> Phases] /\ verdict' \in [Task -> {"none"} \cup Terminal]
      BY <1>9, <1>10, RaiseTypes DEF AcceptFails, RunnerTypes, Terminal
    <3> QED
      BY <1>9, <1>10, <3>1 DEF RunnerTypes, CounterTypes, TableTypes, AcceptFails, counters, catalog
  <2> QED
    BY <1>1, <2>1
<1> QED
  BY <1>2, <1>3, <1>4, <1>5, <1>6, <1>7, <1>8, <1>9
  DEF Next, User, Faults, Runner, Streaming, Task

-------------------------------------------------------------------------------
LEMMA InitInv == Init => IInv
<1> SUFFICES ASSUME Init
             PROVE  IInv
  OBVIOUS
<1> USE BackupJobsConstants
<1>1. TypeOK
  <2>1. \A h \in {file, sha} : h \in [Item -> Hash \cup {None}]
    BY DEF Init
  <2>2. part \in [Item -> Hash \cup {None}]
    <3>1. Whole \in Seq(1..Chunks)
      BY DEF Whole
    <3>2. Append(Whole, Chunks) \in Hash
      BY <3>1 DEF Hash
    <3> QED
      BY <3>2 DEF Init
  <2>3. Cardinality(Item) \in Nat /\ 0 \in Count
    BY FS_CardinalityType DEF Count
  <2>4. RunnerTypes /\ CounterTypes /\ TableTypes
    BY <2>3 DEF Init, RunnerTypes, CounterTypes, TableTypes, Phases, NoSnapshot, States
  <2>6. TallyType
    BY <2>3 DEF Init, TallyType
  <2>5. DataOK
    BY <2>1, <2>2 DEF Init, DataOK
  <2> QED
    BY <2>4, <2>5, <2>6, TypeParts
<1>2. ControlInv
  <2>1. AttemptInv
    BY DEF Init, AttemptInv, NoSnapshot
  <2>2. StatusInv /\ VerdictInv /\ RowsInv
    BY DEF Init, StatusInv, VerdictInv, VerdictOf, RowsInv, Terminal
  <2>3. StatusTellsHistory
    BY DEF Init, StatusTellsHistory, HasSnapshot, NoSnapshot, Task
  <2> QED
    BY <2>1, <2>2, <2>3 DEF ControlInv
<1>3. \A t \in Task : Busy(t) = {}
  BY DEF Init, Busy
<1>4. StreamInv /\ KeptInv
  BY <1>3 DEF Init, StreamInv, KeptInv
<1>5. CountInv
  BY <1>1, Sets DEF Init, CountInv, CountersOf
<1>6. NumbersInv
  BY DEF Init, NumbersInv, TallyInv, SnapshotAddsUp, NoSnapshot, Terminal
<1> QED
  BY <1>1, <1>2, <1>4, <1>5, <1>6 DEF IInv, ImportInv

LEMMA StepInv == IInv /\ [Next]_vars => IInv'
BY ControlStep, ImportStep, NumbersStep, TypeStep DEF IInv, ImportInv

LEMMA Inductive == Spec => []IInv
BY InitInv, StepInv, PTL DEF Spec

-------------------------------------------------------------------------------
(***************************************************************************)
(* The theorems.                                                           *)
(***************************************************************************)
\* Every variable keeps its type; no task counts more items than there are,
\* and no stream more chunks than its photo has, however often jobs are started.
THEOREM BackupTypeOK == Spec => []TypeOK
BY Inductive, PTL DEF IInv

\* What a closed snapshot counts: a completed run's own items, which with what was
\* there are what was planned; in any other run, and for the bytes, what all runs of
\* the job have recorded (finish_android_backup_snapshot and the counters of _run).
THEOREM BackupSnapshotAddsUp == Spec => []SnapshotAddsUp
<1>1. IInv => SnapshotAddsUp
  BY DEF IInv, NumbersInv
<1> QED
  BY <1>1, Inductive, PTL

\* A job or window shows at its end what its snapshot says, and a completed
\* snapshot has a completed batch.
THEOREM BackupStatusTellsHistory == Spec => []StatusTellsHistory
<1>1. IInv => StatusTellsHistory
  BY DEF IInv, ControlInv
<1> QED
  BY <1>1, Inductive, PTL

\* A running attempt that was asked to stop opens no stream and writes no chunk.
THEOREM BackupCancelSticks == Spec => CancelSticks
<1>1. IInv /\ [Next]_vars => [Sticks]_vars
  BY ImportStep DEF IInv
<1>2. [Sticks]_vars =>
        [\A t \in asked, i \in Item :
           stream'[t][i] # None => stream[t][i] # None /\ stream'[t][i].sum = stream[t][i].sum]_vars
  BY DEF Sticks
<1> QED
  BY <1>1, <1>2, Inductive, PTL DEF Spec, CancelSticks

-------------------------------------------------------------------------------
(***************************************************************************)
(* The refinement: the snapshots of every run are opened once and closed   *)
(* once, COMPLETED only when all is kept, whatever tasks run side by side. *)
(***************************************************************************)
LEMMA RefinesInit == Init => History!Init
<1> SUFFICES ASSUME Init
             PROVE  History!Init
  OBVIOUS
<1>1. [n \in Attempt |-> snapshot[n].state] = [n \in Attempt |-> "none"]
  BY DEF Init, NoSnapshot
<1>2. Recorded = {} /\ profile.last = {}
  BY DEF Init, Recorded
<1> QED
  BY <1>1, <1>2 DEF History!Init

\* A step that changes no snapshot, no profile and no record is none of the history's.
LEMMA Stutters ==
  ASSUME UNCHANGED <<snapshot, profile, sha>>
  PROVE  UNCHANGED History!vars
BY DEF History!vars, Recorded

LEMMA RefinesProfile ==
  ASSUME TypeOK, NEW t \in Task, UpsertProfile(t)
  PROVE  UNCHANGED History!vars
BY DEF UpsertProfile, History!vars, Recorded, TypeOK

LEMMA RefinesOpen ==
  ASSUME IInv, NEW t \in Task, OpenSnapshot(t)
  PROVE  History!Next
<1>1. attempt[t] \in Attempt
  BY ControlTypes DEF OpenSnapshot, IInv, ControlInv, StatusInv, Attempt
<1>2. snapshot[attempt[t]].state = "none"
  BY DEF OpenSnapshot, IInv, ControlInv, RowsInv, RowsOf
<1>3. [n \in Attempt |-> snapshot'[n].state] =
        [[n \in Attempt |-> snapshot[n].state] EXCEPT ![attempt[t]] = "RUNNING"]
  <2>1. \A n \in Attempt : snapshot'[n].state = IF n = attempt[t] THEN "RUNNING" ELSE snapshot[n].state
    BY <1>1, ControlTypes DEF OpenSnapshot, NoSnapshot, IInv
  <2> QED
    BY <2>1
<1>4. Recorded' = Recorded /\ profile' = profile
  BY DEF OpenSnapshot, Recorded
<1> QED
  BY <1>1, <1>2, <1>3, <1>4 DEF History!Next, History!Open

LEMMA RefinesClose ==
  ASSUME IInv, NEW t \in Task, CloseSnapshot(t)
  PROVE  History!Next
<1>1. attempt[t] \in Attempt
  BY ControlTypes DEF CloseSnapshot, IInv, ControlInv, StatusInv, Attempt
<1>2. snapshot[attempt[t]].state = "RUNNING" /\ verdict[t] \in Terminal
  BY DEF CloseSnapshot, IInv, ControlInv, RowsInv, RowsOf, VerdictInv, VerdictOf
<1>3. verdict[t] = "COMPLETED" => Recorded = Item
  BY DEF CloseSnapshot, IInv, ImportInv, KeptInv
<1>4. [n \in Attempt |-> snapshot'[n].state] =
        [[n \in Attempt |-> snapshot[n].state] EXCEPT ![attempt[t]] = verdict[t]]
  <2>1. \A n \in Attempt : snapshot'[n].state = IF n = attempt[t] THEN verdict[t] ELSE snapshot[n].state
    BY <1>1, ControlTypes DEF CloseSnapshot, IInv
  <2> QED
    BY <2>1
<1>5. profile'.last = IF verdict[t] = "COMPLETED" THEN {attempt[t]} ELSE profile.last
  BY DEF CloseSnapshot, IInv, TypeOK
<1>6. Recorded' = Recorded
  BY DEF CloseSnapshot, Recorded
<1>7. verdict[t] \in History!Closed
  BY <1>2 DEF History!Closed, Terminal
<1> QED
  BY <1>1, <1>2, <1>3, <1>4, <1>5, <1>6, <1>7 DEF History!Next, History!Close

LEMMA RefinesKeep ==
  ASSUME IInv, NEW t \in Task, NEW i \in Item, Accept(t, i)
  PROVE  History!Next
<1>1. Recorded' = Recorded \cup {i}
  BY AcceptEffect DEF IInv, ImportInv
<1>2. UNCHANGED <<snapshot, profile>>
  BY DEF Accept
<1> QED
  BY <1>1, <1>2 DEF History!Next, History!Keep

LEMMA RefinesStep == IInv /\ [Next]_vars => [History!Next]_(History!vars)
<1> SUFFICES ASSUME IInv, [Next]_vars
             PROVE  History!Next \/ UNCHANGED History!vars
  OBVIOUS
<1>1. CASE User \/ UNCHANGED vars
  BY <1>1, Stutters
  DEF User, Create, StartJob, StartWorker, Begin, CancelJob, CancelWorker, NoteCancel, SetEvent,
      UserDeletes, UserPuts, vars, catalog
<1>2. CASE Faults
  BY <1>2, Stutters DEF Faults, InventoryFails, CloseFails, GiveUp, Crash, catalog
<1>3. ASSUME NEW t \in Task,
             Inventory(t) \/ Plan(t) \/ OpenBatch(t) \/ CloseBatch(t) \/ ShowEnd(t)
      PROVE  UNCHANGED History!vars
  BY <1>3, Stutters DEF Inventory, Plan, OpenBatch, CloseBatch, ShowEnd, catalog
<1>4. ASSUME NEW t \in Task, UpsertProfile(t) \/ OpenSnapshot(t) \/ CloseSnapshot(t)
      PROVE  History!Next \/ UNCHANGED History!vars
  BY <1>4, RefinesProfile, RefinesOpen, RefinesClose DEF IInv
<1>5. ASSUME NEW t \in Task, NEW i \in Item, Streaming(t, i) \/ AcceptFails(t, i)
      PROVE  History!Next \/ UNCHANGED History!vars
  <2>1. CASE Accept(t, i)
    BY <2>1, RefinesKeep
  <2>2. CASE ~Accept(t, i)
    BY <1>5, <2>2, Stutters
    DEF Streaming, RefuseStream, RemovePartial, CancelStream, OpenStream, Take, Write, GiveUp,
        Publish, PublishFails, AcceptFails, catalog
  <2> QED
    BY <2>1, <2>2
<1> QED
  BY <1>1, <1>2, <1>3, <1>4, <1>5 DEF Next, Runner, Streaming

\* Whatever jobs, windows and commands run side by side and wherever they stop,
\* the snapshots and the profile are a history that BackupHistory allows.
THEOREM BackupImplementsHistory == Spec => ImplementsHistory
BY RefinesInit, RefinesStep, Inductive, PTL DEF Spec, ImplementsHistory, History!Spec

===============================================================================
