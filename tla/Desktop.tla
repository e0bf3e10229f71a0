-------------------------------- MODULE Desktop --------------------------------
(***************************************************************************)
(* The lanes of background work of the desktop window.  A lane has one     *)
(* QThread and one worker at a time, both kept in attributes of the window *)
(* (self._scan_thread, self._scan_worker).  A click is refused while the   *)
(* thread the lane refers to is running; the worker's signals, and the end *)
(* of its thread, are queued for the window, which shows the result and    *)
(* then forgets the worker.                                                *)
(*                                                                         *)
(* Most lanes have one button, off from the click until the thread has     *)
(* ended.  The recovery lane (check, backup, restore) and the operation    *)
(* lane (copy, quarantine, undo) have three that stay on, so a click may   *)
(* fall between the end of a thread and the handler that forgets it.       *)
(*                                                                         *)
(* Abstractions.  What a worker does to the catalog is in the other        *)
(* modules; here it ends in a way.  The transfer lane is in BackupJobs.    *)
(***************************************************************************)
EXTENDS Naturals, Sequences, FiniteSets

CONSTANTS
  Lanes,    \* the lanes that are looked at
  MaxStarts \* bound: workers a lane starts

ASSUME DesktopConstants == MaxStarts \in Nat

VARIABLES
  lane,      \* the lane; lanes share nothing but the window
  plans,     \* _copy_plan, _quarantine_plan: those that are set
  ready,     \* the execute buttons that are on
  phase,     \* what has become of each worker
  way,       \* what each worker was started for
  outcome,   \* history: how each worker ended
  cancel,    \* workers whose cancel event is set
  cur,       \* the worker the window refers to, 0 for None
  operation, \* _operation_kind
  off,       \* the lane's button is off
  inbox,     \* the window's queue of signals
  shown,     \* the lane's text
  overtaken, \* history: a click fell before the handler that forgets a thread, since
             \* the lane was last quiet
  failed     \* history: refresh raised in a handler

desktopVars == <<lane, plans, ready, phase, way, outcome, cancel, cur, operation, off, inbox, shown, overtaken, failed>>

Worker == 1..MaxStarts
Ways == CASE lane = "recovery" -> {"check", "backup", "restore"}
          [] lane = "operation" -> {"copy", "quarantine", "undo"}
          [] OTHER -> {lane}
Sole == Ways = {lane}
Results == {"completed", "failed", "cancelled"}

DesktopInit ==
  /\ lane \in Lanes
  /\ plans = {} /\ ready = {}
  /\ phase = [w \in Worker |-> "none"]
  /\ way = [w \in Worker |-> "none"] /\ outcome = [w \in Worker |-> "none"]
  /\ cancel = {} /\ cur = 0 /\ operation = "none" /\ off = FALSE
  /\ inbox = <<>> /\ shown = <<"none", "none">>
  /\ overtaken = FALSE /\ failed = FALSE

-------------------------------------------------------------------------------
(***************************************************************************)
(* Clicks.                                                                 *)
(***************************************************************************)
Alive == {w \in Worker : phase[w] \in {"started", "running", "halfway", "done", "leaving"}}
AtRest == Alive = {} /\ inbox = <<>>

\* The thread the lane refers to is running; one that was deleted raises when it
\* is asked, and the handler does nothing.
Busy == cur # 0 /\ phase[cur] # "over"

\* A new thread and worker, into the attributes the old ones may still be in.
Start(k) ==
  LET n == Cardinality({w \in Worker : phase[w] # "none"}) + 1 IN
  /\ n \in Worker /\ ~off /\ ~Busy
  /\ phase' = [phase EXCEPT ![n] = "started"]
  /\ way' = [way EXCEPT ![n] = k]
  /\ cur' = n
  /\ off' = Sole
  /\ shown' = <<k, "running">>
  /\ overtaken' = (cur # 0 \/ (overtaken /\ ~AtRest))
  /\ UNCHANGED <<lane, outcome, cancel, inbox, failed>>

Scan == lane = "scan" /\ Start("scan") /\ UNCHANGED <<plans, ready, operation>>
DiscoverAndroid == lane = "discovery" /\ Start("discovery") /\ UNCHANGED <<plans, ready, operation>>
DiscoverCompanion == lane = "companion" /\ Start("companion") /\ UNCHANGED <<plans, ready, operation>>
StartThumbnails == lane = "thumbnails" /\ Start("thumbnails") /\ UNCHANGED <<plans, ready, operation>>
StartCategories == lane = "categories" /\ Start("categories") /\ UNCHANGED <<plans, ready, operation>>
StartRecovery(k) == lane = "recovery" /\ Start(k) /\ UNCHANGED <<plans, ready, operation>>

\* The recovery handlers say what they begin before they know whether they may.
RecoveryRefused(k) ==
  /\ lane = "recovery" /\ Busy
  /\ shown' = <<k, "running">>
  /\ UNCHANGED <<lane, plans, ready, phase, way, outcome, cancel, cur, operation, off, inbox, overtaken, failed>>

\* A built plan replaces the one before; one that cannot be built clears it.
BuildPlan(k) ==
  /\ lane = "operation" /\ k \in {"copy", "quarantine"}
  /\ shown' = <<k, "plan">>
  /\ \/ plans' = plans \cup {k} /\ ready' \in {ready \cup {k}, ready \ {k}}
     \/ plans' = plans \ {k} /\ ready' = ready \ {k}
  /\ UNCHANGED <<lane, phase, way, outcome, cancel, cur, operation, off, inbox, overtaken, failed>>

\* Execution is confirmed in a dialog; the button of the plan goes off for good.
StartOperation(k) ==
  /\ lane = "operation"
  /\ k # "undo" => k \in plans \cap ready
  /\ Start(k)
  /\ operation' = k
  /\ ready' = ready \ {k}
  /\ UNCHANGED plans

CancelWork ==
  /\ cur # 0 /\ cur \notin cancel
  /\ cancel' = cancel \cup {cur}
  /\ shown' = <<lane, "stopping">>
  /\ UNCHANGED <<lane, plans, ready, phase, way, outcome, cur, operation, off, inbox, overtaken, failed>>

\* The cancel buttons are on as long as the start buttons are off.
CancelThumbnails == lane = "thumbnails" /\ off /\ CancelWork
CancelCategories == lane = "categories" /\ off /\ CancelWork

-------------------------------------------------------------------------------
(***************************************************************************)
(* The workers' threads.                                                   *)
(***************************************************************************)
Post(w, what) == inbox' = Append(inbox, [of |-> w, what |-> what])

Begin(w) ==
  /\ phase[w] = "started"
  /\ phase' = [phase EXCEPT ![w] = "running"]
  /\ UNCHANGED <<lane, plans, ready, way, outcome, cancel, cur, operation, off, inbox, shown, overtaken, failed>>

Progress(w) ==
  /\ phase[w] = "running"
  /\ phase' = [phase EXCEPT ![w] = "halfway"]
  /\ Post(w, "progress")
  /\ UNCHANGED <<lane, plans, ready, way, outcome, cancel, cur, operation, off, shown, overtaken, failed>>

\* run ends in one of its results, and the thread waits to be told to quit.
Emit(w, results) ==
  /\ phase[w] \in {"running", "halfway"}
  /\ \E r \in results :
       outcome' = [outcome EXCEPT ![w] = r] /\ Post(w, r)
  /\ phase' = [phase EXCEPT ![w] = "done"]
  /\ UNCHANGED <<lane, plans, ready, way, cancel, cur, operation, off, shown, overtaken, failed>>

ScanWorker(w) == lane = "scan" /\ Emit(w, {"completed", "failed"})
DiscoveryWorker(w) == lane = "discovery" /\ Emit(w, {"completed", "failed"})
CompanionWorker(w) == lane = "companion" /\ Emit(w, {"completed", "failed"})
RecoveryWorker(w) == lane = "recovery" /\ Emit(w, {"completed", "failed"})
OperationWorker(w) == lane = "operation" /\ Emit(w, {"completed", "failed"})

\* The event is read between two pictures: a build that is at its last one
\* completes, and one that was asked to stop may still fail.
ThumbnailWorker(w) ==
  /\ lane = "thumbnails"
  /\ \/ Progress(w)
     \/ Emit(w, IF w \in cancel THEN {"cancelled", "failed"} ELSE {"completed", "failed"})

CategoryWorker(w) ==
  /\ lane = "categories"
  /\ \/ Progress(w)
     \/ Emit(w, {"completed", "failed"} \cup IF w \in cancel THEN {"cancelled"} ELSE {})

\* The loop ends; the thread stops running and its end is queued.
ThreadEnds(w) ==
  /\ phase[w] = "leaving"
  /\ phase' = [phase EXCEPT ![w] = "over"]
  /\ Post(w, "finished")
  /\ UNCHANGED <<lane, plans, ready, way, outcome, cancel, cur, operation, off, shown, overtaken, failed>>

-------------------------------------------------------------------------------
(***************************************************************************)
(* The window takes the next signal of its queue.                          *)
(***************************************************************************)
Handles(what) == inbox # <<>> /\ Head(inbox).what \in what /\ inbox' = Tail(inbox)
Of == Head(inbox).of

\* Mutant: the button comes back with the result.
ShowResultEarly(l, label) ==
  /\ lane = l /\ Handles(Results)
  /\ shown' = <<label, Head(inbox).what>>
  /\ phase' = [phase EXCEPT ![Of] = "leaving"] /\ off' = FALSE
  /\ UNCHANGED <<lane, plans, ready, way, outcome, cancel, cur, operation, overtaken, failed>>

\* The text of the result, and the thread is told to quit.
ShowResult(l, label) ==
  /\ lane = l /\ Handles(Results)
  /\ shown' = <<label, Head(inbox).what>>
  /\ phase' = [phase EXCEPT ![Of] = "leaving"]
  /\ UNCHANGED <<lane, plans, ready, way, outcome, cancel, cur, operation, off, overtaken, failed>>

\* The handler of a thread's end forgets what the lane refers to now.  A worker
\* that is forgotten before its run has begun is destroyed and never runs.
Forget ==
  /\ Handles({"finished"})
  /\ off' = FALSE /\ cur' = 0 /\ operation' = "none"
  /\ phase' = IF cur # 0 /\ phase[cur] = "started" THEN [phase EXCEPT ![cur] = "lost"] ELSE phase
  /\ UNCHANGED <<lane, plans, ready, way, outcome, cancel, shown, overtaken, failed>>

\* refresh comes before the references are dropped, and writes the states of the
\* volumes: it raises when another connection has the catalog for too long.
RefreshFails(l) ==
  /\ lane = l /\ Handles({"finished"})
  /\ off' = FALSE /\ failed' = TRUE
  /\ phase' = [phase EXCEPT ![Of] = "deleted"]
  /\ UNCHANGED <<lane, plans, ready, way, outcome, cancel, cur, operation, shown, overtaken>>

ShowScan == ShowResult("scan", "scan")
ShowDevice == ShowResult("discovery", "discovery")
ShowCompanion == ShowResult("companion", "companion")
ShowThumbnails == ShowResult("thumbnails", "thumbnails")
ShowCategories == ShowResult("categories", "categories")
\* A recovery's result says what it is of, an operation's is taken for what the
\* lane was last started for.
ShowRecovery == inbox # <<>> /\ ShowResult("recovery", way[Of])
ShowOperation == ShowResult("operation", IF operation = "none" THEN "undo" ELSE operation)

ShowProgress(l) ==
  /\ lane = l /\ Handles({"progress"})
  /\ shown' = <<lane, "progress">>
  /\ UNCHANGED <<lane, plans, ready, phase, way, outcome, cancel, cur, operation, off, overtaken, failed>>
ThumbnailProgress == ShowProgress("thumbnails")
CategoryProgress == ShowProgress("categories")

ScanFinished == (lane = "scan" /\ Forget) \/ RefreshFails("scan")
OperationFinished == (lane = "operation" /\ Forget) \/ RefreshFails("operation")
DiscoveryFinished == lane = "discovery" /\ Forget
CompanionFinished == lane = "companion" /\ Forget
ThumbnailsFinished == lane = "thumbnails" /\ Forget
CategoriesFinished == lane = "categories" /\ Forget
RecoveryFinished == lane = "recovery" /\ Forget

DesktopNext ==
  \/ Scan \/ DiscoverAndroid \/ DiscoverCompanion \/ StartThumbnails \/ StartCategories
  \/ \E k \in Ways :
       StartRecovery(k) \/ RecoveryRefused(k) \/ BuildPlan(k) \/ StartOperation(k)
  \/ CancelThumbnails \/ CancelCategories
  \/ \E w \in Worker :
       \/ Begin(w) \/ ThreadEnds(w)
       \/ ScanWorker(w) \/ DiscoveryWorker(w) \/ CompanionWorker(w) \/ RecoveryWorker(w)
       \/ OperationWorker(w) \/ ThumbnailWorker(w) \/ CategoryWorker(w)
  \/ ShowScan \/ ShowDevice \/ ShowCompanion \/ ShowThumbnails \/ ShowCategories
  \/ ShowRecovery \/ ShowOperation \/ ThumbnailProgress \/ CategoryProgress
  \/ ScanFinished \/ OperationFinished \/ DiscoveryFinished \/ CompanionFinished
  \/ ThumbnailsFinished \/ CategoriesFinished \/ RecoveryFinished

DesktopSpec == DesktopInit /\ [][DesktopNext]_desktopVars

-------------------------------------------------------------------------------
DesktopTypeOK ==
  /\ lane \in Lanes /\ plans \cup ready \subseteq {"copy", "quarantine"}
  /\ phase \in [Worker -> {"none", "started", "running", "halfway", "done", "leaving",
                           "over", "deleted", "lost"}]
  /\ way \in [Worker -> Ways \cup {"none"}] /\ outcome \in [Worker -> Results \cup {"none"}]
  /\ cancel \subseteq Worker /\ cur \in Worker \cup {0} /\ operation \in Ways \cup {"none"}
  /\ off \in BOOLEAN /\ overtaken \in BOOLEAN /\ failed \in BOOLEAN
  /\ inbox \in Seq([of : Worker, what : Results \cup {"progress", "finished"}])

\* A lane of one button is sound: no click overtakes a handler, one worker is at
\* work at a time and the window refers to it.  A lane of several is as sound until
\* a click overtakes the handler of the thread before, and again once it has become
\* quiet.  Overtaken or not, a lane comes back: the window refers to a worker, or a
\* button is off, only while one is at work or has just ended, unless refresh
\* raised; and the result that is shown is one of a worker that had it, but of the
\* operation lane, whose handler may have forgotten what it was of.
LaneIsSound ==
  /\ Sole => ~overtaken
  /\ ~overtaken => (\A v, w \in Alive : v = w) /\ Alive \subseteq {cur}
  /\ off \/ cur # 0 => Alive # {} \/ failed \/ \E i \in DOMAIN inbox : inbox[i].what = "finished"
  /\ shown[2] \in Results /\ (lane = "operation" => ~overtaken) =>
       \E w \in Worker : way[w] = shown[1] /\ outcome[w] = shown[2]
===============================================================================
