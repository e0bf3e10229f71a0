----------------------------- MODULE Consolidation -----------------------------
(***************************************************************************)
(* consolidate-pairs: the JPEG, the RAW file and the videos of one stem    *)
(* are moved from the source folders into the folder of one capture date,  *)
(* as photovault/catalog/consolidation.py plans and executes it.  The plan *)
(* is made from one look at the folders and executed file by file; the     *)
(* process may die in between and the user may run it again, over folders  *)
(* that a camera has filled with the same names once more.                 *)
(*                                                                         *)
(* Abstractions.  One stem: plans of two stems meet only in the refusal.   *)
(* The destination is not above a source folder, on the same filesystem.   *)
(* A file is its identity, its size and its capture date (the one of the   *)
(* file system where nothing is embedded, so there is always one).         *)
(***************************************************************************)
EXTENDS Naturals, FiniteSets

CONSTANTS
  Folders,   \* number of source folders, in the order of their paths
  Date,      \* capture dates
  Size,      \* sizes of files
  MaxFiles,  \* bound: files in the folders at first
  MaxLooks,  \* bound: times the command is run
  MaxNews,   \* bound: files that appear after the first look
  Absent     \* no file

VARIABLES
  disk,      \* the file at each place
  pc,        \* "idle", or "moving" while execute_consolidation runs
  todo,      \* those of plan.actions that are left
  looks,     \* plans made so far
  files,     \* history: every file there has been
  met,       \* history: a plan has had two moves to one destination
  surprised  \* history: a file has appeared at a destination that was about to be moved to

consolidationVars == <<disk, pc, todo, looks, files, met, surprised>>

Kind == {"jpeg", "raw", "video"}
Source == (1..Folders) \X Kind
Target == Date \X Kind
Place == Source \cup Target
News == (1..MaxNews) \X {"new"}
File == [id : Source \cup News, size : Size, date : Date]

\* Folders of dates are below the destination, which is not in a source folder.
ASSUME ConsolidationConstants ==
  /\ Folders \in Nat /\ MaxLooks \in Nat /\ MaxNews \in Nat
  /\ Date \cap (1..Folders) = {}
  /\ Absent \notin File

ConsolidationInit ==
  /\ \E has \in SUBSET Source : \E size \in [has -> Size], date \in [has -> Date] :
       /\ Cardinality(has) <= MaxFiles
       /\ disk = [p \in Place |-> IF p \in has THEN [id |-> p, size |-> size[p], date |-> date[p]]
                                               ELSE Absent]
  /\ pc = "idle" /\ todo = {} /\ looks = 0
  /\ files = {disk[p] : p \in Source} \ {Absent}
  /\ met = FALSE /\ surprised = FALSE

-------------------------------------------------------------------------------
(***************************************************************************)
(* build_consolidation_plan.                                               *)
(***************************************************************************)
\* The order of the plan: kinds, and of a kind the paths.
Rank == [jpeg |-> 1, raw |-> 2, video |-> 3]
Before(s, t) == Rank[s[2]] < Rank[t[2]] \/ (s[2] = t[2] /\ s[1] < t[1])
FirstOf(S) == {s \in S : \A t \in S \ {s} : Before(s, t)}

\* One JPEG and one RAW file, whatever folders they come from, and all videos.
Media(k) == {s \in Source : s[2] = k /\ disk[s] # Absent}
Planned == FirstOf(Media("jpeg")) \cup FirstOf(Media("raw")) \cup Media("video")

Status(s, t) == CASE disk[t] = Absent -> "MOVE"
                  [] disk[t] # Absent /\ disk[t].size = disk[s].size -> "ALREADY_PRESENT"
                  [] OTHER -> "CONFLICT"

Action(s, date) ==
  LET t == <<date, s[2]>> IN [source |-> s, destination |-> t, status |-> Status(s, t)]

\* The date of the first file stands for all.
Actions == {Action(s, disk[first].date) : s \in Planned, first \in FirstOf(Planned)}

Moves(A) == {a \in A : a.status = "MOVE"}

\* Mutant: a conflict with a file of another size is not noticed.
ConflictUnnoticed == \A a \in Actions : a.destination \in Target

\* A plan with a conflict is refused before anything is moved.
MayExecute == \A a \in Actions : a.status # "CONFLICT"

Consolidate ==
  /\ pc = "idle" /\ looks < MaxLooks /\ Planned # {}
  /\ looks' = looks + 1
  /\ IF MayExecute
     THEN /\ pc' = "moving" /\ todo' = Actions
          /\ met' = (met \/ \E a, b \in Moves(Actions) : a # b /\ a.destination = b.destination)
     ELSE UNCHANGED <<pc, todo, met>>
  /\ UNCHANGED <<disk, files, surprised>>

-------------------------------------------------------------------------------
(***************************************************************************)
(* execute_consolidation.                                                  *)
(***************************************************************************)
\* os.replace: whatever is at the destination is gone.
MoveNext ==
  /\ pc = "moving"
  /\ \E a \in todo :
       /\ \A b \in todo \ {a} : Before(a.source, b.source)
       /\ disk' = IF a.status = "ALREADY_PRESENT" THEN disk
                  ELSE [disk EXCEPT ![a.destination] = disk[a.source], ![a.source] = Absent]
       /\ todo' = todo \ {a}
  /\ UNCHANGED <<pc, looks, files, met, surprised>>

\* The command ends, or its process dies with moves undone.
Ends ==
  /\ pc = "moving"
  /\ pc' = "idle" /\ todo' = {}
  /\ UNCHANGED <<disk, looks, files, met, surprised>>

\* A camera fills a folder again, or another program writes to the destination.
Appears(p) ==
  LET news == {f \in files : f.id \in News} IN
  /\ looks > 0 /\ disk[p] = Absent /\ Cardinality(news) < MaxNews
  /\ \E f \in [id : {<<Cardinality(news) + 1, "new">>}, size : Size,
             date : IF p \in Target THEN {p[1]} ELSE Date] :
       disk' = [disk EXCEPT ![p] = f] /\ files' = files \cup {f}
  /\ surprised' = (surprised \/ \E a \in Moves(todo) : a.destination = p)
  /\ UNCHANGED <<pc, todo, looks, met>>

ConsolidationNext == Consolidate \/ MoveNext \/ Ends \/ \E p \in Place : Appears(p)

ConsolidationSpec == ConsolidationInit /\ [][ConsolidationNext]_consolidationVars

-------------------------------------------------------------------------------
ConsolidationTypeOK ==
  /\ files \subseteq File /\ IsFiniteSet(files)
  /\ disk \in [Place -> files \cup {Absent}]
  /\ pc \in {"idle", "moving"} /\ looks \in 0..MaxLooks /\ met \in BOOLEAN /\ surprised \in BOOLEAN
  /\ todo \subseteq [source : Source, destination : Target, status : {"MOVE", "ALREADY_PRESENT"}]

\* No file is lost, over interrupted and repeated runs and folders that are
\* filled again, unless two videos of one stem were planned to one destination
\* or a file came to a destination after the look: both are then overwritten.
ConsolidationKeepsFiles ==
  met \/ surprised \/ \A f \in files : \E p \in Place : disk[p] = f
===============================================================================
