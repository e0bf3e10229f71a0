---------------------------- MODULE CopyPlanProofs ----------------------------
(***************************************************************************)
(* Proofs about CopyPlan, for every set of paths, contents and operations  *)
(* and any number of edits, unplugged disks and crashes.                   *)
(***************************************************************************)
EXTENDS CopyPlan, TLAPS

Working == run.phase \notin {"idle", "next"}

\* The item in hand is a row of the operation of the run.
RunInv ==
  /\ run.phase # "idle" => /\ run.op \in Op
                           /\ status[run.op] # "NONE"
                           /\ run.todo \subseteq DOMAIN rows[run.op]
  /\ Working => run.cur \in DOMAIN rows[run.op]
  /\ reviewed # None => status[reviewed] # "NONE"

\* What the run knows of the destination, as long as nobody interfered since
\* it looked: before the copy there is nothing, before the record the asset.
DestinationInv ==
  /\ run.phase = "copy" /\ "back" \in mounted /\ Dst \notin late => file[Dst] = Absent
  /\ run.phase = "copying" /\ Dst \notin late => file[Dst] = Torn
  /\ run.phase \in {"stat", "record"} /\ Dst \notin touched \cup below =>
       file[Dst] = Expected
  /\ run.phase \in {"stat", "record"} => run.outcome \in Verified

IInv == TypeOK /\ RunInv /\ DestinationInv

-------------------------------------------------------------------------------
\* Writing one result leaves a table of rows one, with the same paths and assets.
LEMMA ResultUpdate ==
  ASSUME NEW T \in [Op -> Rows], NEW o \in Op, NEW r \in DOMAIN T[o], NEW res \in Result
  PROVE  LET U == WithResult(T, o, r, res) IN
         /\ U \in [Op -> Rows]
         /\ \A p \in Op : DOMAIN U[p] = DOMAIN T[p]
         /\ \A p \in Op : \A q \in DOMAIN T[p] : U[p][q].asset = T[p][q].asset
         /\ \A p \in Op : \A q \in DOMAIN T[p] :
              U[p][q].result = IF p = o /\ q = r THEN res ELSE T[p][q].result
<1> DEFINE U == WithResult(T, o, r, res)
           u == [T[o] EXCEPT ![r].result = res]
<1>1. PICK S \in SUBSET RelPath : T[o] \in [S -> Row]
  BY DEF Rows
<1>2. DOMAIN u = S /\ DOMAIN T[o] = S
  BY <1>1
<1>3. \A q \in S : u[q] = IF q = r THEN [T[o][q] EXCEPT !.result = res] ELSE T[o][q]
  BY <1>1, <1>2
<1>4. \A q \in S : T[o][q] \in Row
  BY <1>1
<1>5. \A q \in S : u[q] \in Row /\ u[q].asset = T[o][q].asset
                   /\ u[q].result = IF q = r THEN res ELSE T[o][q].result
  BY <1>3, <1>4 DEF Row
<1>6. u = [q \in S |-> u[q]]
  BY <1>1, <1>2
<1>7. \A p \in Op : U[p] = IF p = o THEN u ELSE T[p]
  BY DEF WithResult
<1>8. DOMAIN U = Op /\ U = [p \in Op |-> U[p]]
  BY DEF WithResult
<1> HIDE DEF u, U
<1>9. u \in Rows
  BY <1>5, <1>6 DEF Rows
<1>10. U \in [Op -> Rows]
  BY <1>7, <1>8, <1>9
<1>11. \A p \in Op : DOMAIN U[p] = DOMAIN T[p]
  BY <1>2, <1>7
<1>12. \A p \in Op : \A q \in DOMAIN T[p] :
          /\ U[p][q].asset = T[p][q].asset
          /\ U[p][q].result = IF p = o /\ q = r THEN res ELSE T[p][q].result
  BY <1>2, <1>5, <1>7
<1> QED
  BY <1>10, <1>11, <1>12 DEF U

\* The rows of an operation are paths.
LEMMA RowsDomain ==
  ASSUME NEW T \in [Op -> Rows], NEW o \in Op
  PROVE  DOMAIN T[o] \subseteq RelPath
<1>1. T[o] \in Rows
  OBVIOUS
<1> QED
  BY <1>1 DEF Rows

\* The item in hand has a source, a destination and an expected content.
LEMMA Ends ==
  ASSUME IInv, Working
  PROVE  /\ run.op \in Op /\ run.cur \in RelPath /\ run.cur \in DOMAIN rows[run.op]
         /\ Src \in Place /\ Dst \in Place /\ Src # Dst
         /\ Expected \in Content
<1>1. run.op \in Op /\ run.cur \in DOMAIN rows[run.op] /\ rows[run.op] \in Rows
  BY DEF IInv, RunInv, TypeOK, Working
<1>2. PICK S \in SUBSET RelPath : rows[run.op] \in [S -> Row]
  BY <1>1 DEF Rows
<1>3. run.cur \in RelPath /\ rows[run.op][run.cur] \in Row
  BY <1>1, <1>2
<1> QED
  BY <1>1, <1>3 DEF Src, Dst, Place, Vol, Expected, Row

\* Rejecting an item keeps the rows and the run well formed.
LEMMA RejectKeeps ==
  ASSUME IInv, Working, NEW res \in Result, Reject(res), Others
  PROVE  /\ below' = below
         /\ rows' \in [Op -> Rows] /\ run' \in Run /\ RunInv' /\ run'.phase = "next"
         /\ status' = status /\ catalog' = catalog /\ saved' = saved
         /\ run'.op = run.op /\ run'.todo = run.todo
<1>1. run \in Run /\ rows \in [Op -> Rows]
  BY DEF IInv, TypeOK
<1>2. run.op \in Op /\ run.cur \in DOMAIN rows[run.op]
  BY Ends
<1>3. rows' = WithResult(rows, run.op, run.cur, res)
  BY DEF Reject
<1>4. rows' \in [Op -> Rows] /\ \A p \in Op : DOMAIN rows'[p] = DOMAIN rows[p]
  BY <1>1, <1>2, <1>3, ResultUpdate
<1>5. \E c \in Nat, f \in Nat :
        run' = [run EXCEPT !.phase = "next", !.conflicts = c, !.failed = f]
  <2> DEFINE c == IF res = "CONFLICT" THEN run.conflicts + 1 ELSE run.conflicts
             f == IF res = "CONFLICT" THEN run.failed ELSE run.failed + 1
  <2>1. run.conflicts \in Nat /\ run.failed \in Nat
    BY <1>1 DEF Run
  <2>2. c \in Nat /\ f \in Nat
    BY <2>1
  <2>3. run' = [run EXCEPT !.phase = "next", !.conflicts = c, !.failed = f]
    BY DEF Reject
  <2> HIDE DEF c, f
  <2> QED
    BY <2>2, <2>3
<1>6. run' \in Run /\ run'.phase = "next" /\ run'.op = run.op /\ run'.todo = run.todo
  BY <1>1, <1>5 DEF Run
<1>7. below' = below /\ status' = status /\ catalog' = catalog /\ saved' = saved /\ reviewed' = reviewed
  BY DEF Reject, Others
<1> QED
  BY <1>2, <1>4, <1>6, <1>7 DEF IInv, RunInv, Working

\* Going on within an item, with another phase and possibly other counts.
LEMMA SameItem ==
  ASSUME IInv, Working, NEW ph, NEW out, NEW n \in Nat,
         ph \in {"destination", "copy", "copying", "shadowing", "verify", "stat", "record"},
         out \in Verified \cup {"PLANNED"},
         run' = [run EXCEPT !.phase = ph, !.outcome = out, !.verified = n],
         UNCHANGED db, Others
  PROVE  /\ run' \in Run /\ RunInv' /\ run'.phase = ph /\ run'.outcome = out
         /\ Src' = Src /\ Dst' = Dst /\ Expected' = Expected
         /\ rows' = rows /\ status' = status /\ catalog' = catalog /\ history' = history
<1>1. run \in Run
  BY DEF IInv, TypeOK
<1>2. run' \in Run /\ run'.phase = ph /\ run'.outcome = out /\ run'.op = run.op
      /\ run'.todo = run.todo /\ run'.cur = run.cur
  BY <1>1 DEF Run
<1>3. rows' = rows /\ status' = status /\ catalog' = catalog /\ history' = history
      /\ reviewed' = reviewed
  BY DEF db, Others
<1> QED
  BY <1>2, <1>3 DEF IInv, RunInv, Working, Src, Dst, Expected

\* Advance and Accept are such steps.
LEMMA AdvanceKeeps ==
  ASSUME IInv, Working, Others,
         NEW ph \in {"destination", "copy", "copying", "shadowing", "verify", "record"},
         run' = [run EXCEPT !.phase = ph], UNCHANGED db
  PROVE  /\ run' \in Run /\ RunInv' /\ run'.phase = ph /\ run'.outcome = run.outcome
         /\ Src' = Src /\ Dst' = Dst /\ Expected' = Expected
         /\ rows' = rows /\ status' = status /\ catalog' = catalog /\ history' = history
<1>1. run \in Run /\ run.outcome \in Verified \cup {"PLANNED"} /\ run.verified \in Nat
  BY DEF IInv, TypeOK, Run
<1>2. run' = [run EXCEPT !.phase = ph, !.outcome = run.outcome, !.verified = run.verified]
  BY <1>1 DEF Run
<1> QED
  BY <1>1, <1>2, SameItem

\* Counting an item as verified keeps the run well formed.
LEMMA AcceptKeeps ==
  ASSUME IInv, Working, Others, NEW out \in Verified, Accept(out)
  PROVE  /\ run' \in Run /\ RunInv' /\ run'.phase = "stat" /\ run'.outcome = out
         /\ Src' = Src /\ Dst' = Dst /\ Expected' = Expected /\ saved' = saved
         /\ rows' = rows /\ status' = status /\ catalog' = catalog /\ history' = history
<1>1. run \in Run /\ run.verified + 1 \in Nat
  BY DEF IInv, TypeOK, Run
<1>2. run' = [run EXCEPT !.phase = "stat", !.outcome = out, !.verified = run.verified + 1]
      /\ UNCHANGED db /\ saved' = saved
  BY <1>1 DEF Accept, Run
<1> QED
  BY <1>1, <1>2, SameItem

-------------------------------------------------------------------------------
\* Two scanned volumes satisfy the inductive invariant.
LEMMA InitIInv == Init => IInv
<1> SUFFICES ASSUME Init PROVE IInv
  OBVIOUS
<1>1. file \in [Place -> FileState] /\ shadow \in [RelPath -> FileState] /\ catalog \in Catalog
  BY DEF Init, FileState, Catalog
<1>2. rows \in [Op -> Rows]
  <2>1. [r \in {} |-> None] \in [{} -> Row]
    OBVIOUS
  <2>2. [r \in {} |-> None] \in Rows
    BY <2>1 DEF Rows
  <2> QED
    BY <2>2 DEF Init
<1>3. status \in [Op -> Status] /\ history \in History
  BY DEF Init, Status, History
<1>4. run \in Run /\ run.phase = "idle"
  BY DEF Init, NotRunning, Run, Verified
<1>5. saved \in [catalog: Catalog, rows: [Op -> Rows], status: [Op -> Status], history: History]
  BY <1>1, <1>2, <1>3 DEF Init, InMemory
<1>6. TypeOK
  BY <1>1, <1>2, <1>3, <1>4, <1>5 DEF TypeOK, Init
<1> QED
  BY <1>4, <1>6 DEF IInv, RunInv, DestinationInv, Working, Init

-------------------------------------------------------------------------------
\* One lemma per action: what it does to the inductive invariant.
LEMMA BuildPlanIInv ==
  ASSUME IInv, NEW o \in Op, NEW S \in SUBSET RelPath, BuildPlan(o, S)
  PROVE  IInv'
<1> DEFINE new == [r \in S |-> [asset |-> catalog[<<"main", r>>].asset, result |-> "PLANNED"]]
<1>1. /\ rows' = [rows EXCEPT ![o] = new]
      /\ status[o] = "NONE" /\ status' = [status EXCEPT ![o] = "PLANNED"]
      /\ saved' = [saved EXCEPT !.rows = rows', !.status = status']
      /\ reviewed' = o
      /\ UNCHANGED <<file, shadow, catalog, history, run, late, below, env>>
  BY DEF BuildPlan
<1>2. \A r \in S : catalog[<<"main", r>>].asset \in Content
  <2> TAKE r \in S
  <2>1. <<"main", r>> \in Place
    BY DEF Place, Vol
  <2>2. catalog[<<"main", r>>].asset \in Content \cup {Absent}
    BY <2>1 DEF IInv, TypeOK, Catalog
  <2>3. r \in RelPath /\ ActiveSide("main")[r] # Absent
    BY DEF BuildPlan, IsMainOnly, Present
  <2> QED
    BY <2>2, <2>3 DEF ActiveSide
<1>3. new \in [S -> Row]
  BY <1>2 DEF Row, Result
<1>4. new \in Rows
  BY <1>3 DEF Rows
<1> HIDE DEF new
<1>5. rows' \in [Op -> Rows] /\ \A p \in Op : p # o => rows'[p] = rows[p]
  BY <1>1, <1>4 DEF IInv, TypeOK
<1>6. status' \in [Op -> Status] /\ status'[o] = "PLANNED"
      /\ \A p \in Op : p # o => status'[p] = status[p]
  BY <1>1 DEF IInv, TypeOK, Status
<1>7. saved' \in [catalog: Catalog, rows: [Op -> Rows], status: [Op -> Status], history: History]
  BY <1>1, <1>5, <1>6 DEF IInv, TypeOK
<1>8. TypeOK'
  BY <1>1, <1>5, <1>6, <1>7 DEF IInv, TypeOK, env
<1>9. run.phase # "idle" => run.op # o /\ run.op \in Op
  BY <1>1 DEF IInv, RunInv
<1>10. RunInv'
  BY <1>1, <1>5, <1>6, <1>9 DEF IInv, RunInv, Working
<1>11. touched' = touched /\ below' = below /\ mounted' = mounted
  BY <1>1 DEF env
<1>12. Dst' = Dst /\ (run.phase # "idle" => Expected' = Expected)
  BY <1>1, <1>5, <1>9 DEF Dst, Expected
<1>13. DestinationInv'
  BY <1>1, <1>11, <1>12 DEF IInv, DestinationInv
<1> QED
  BY <1>8, <1>10, <1>13 DEF IInv

\* A run starts with the rows of the reviewed plan still to do.
LEMMA StartExecuteIInv ==
  ASSUME IInv, StartExecute
  PROVE  IInv'
<1>1. reviewed \in Op /\ rows[reviewed] \in Rows
  BY DEF IInv, TypeOK, StartExecute
<1>2. DOMAIN rows[reviewed] \subseteq RelPath
  BY <1>1 DEF Rows
<1>3. /\ run' = [NotRunning EXCEPT !.op = reviewed, !.todo = DOMAIN rows[reviewed],
                                   !.phase = "next"]
      /\ rows' = rows /\ reviewed' = None
      /\ status' = [status EXCEPT ![reviewed] = "RUNNING"]
      /\ saved' = [saved EXCEPT !.status = status']
      /\ UNCHANGED <<file, shadow, catalog, history, late, below, env>>
  BY DEF StartExecute
<1>4. run' \in Run /\ run'.op = reviewed /\ run'.todo = DOMAIN rows[reviewed]
      /\ run'.phase = "next"
  BY <1>1, <1>2, <1>3 DEF NotRunning, Run, Verified
<1>5. status' \in [Op -> Status] /\ status'[reviewed] # "NONE"
  BY <1>1, <1>3 DEF IInv, TypeOK, Status
<1>6. saved' \in [catalog: Catalog, rows: [Op -> Rows], status: [Op -> Status], history: History]
  BY <1>3, <1>5 DEF IInv, TypeOK
<1>7. TypeOK'
  BY <1>3, <1>4, <1>5, <1>6 DEF IInv, TypeOK, env
<1> QED
  BY <1>1, <1>3, <1>4, <1>5, <1>7 DEF IInv, RunInv, DestinationInv, Working

\* The next item is a row of the operation.
LEMMA NextItemIInv ==
  ASSUME IInv, NextItem
  PROVE  IInv'
<1>1. run \in Run /\ run.op \in Op /\ status[run.op] # "NONE"
      /\ run.todo \subseteq DOMAIN rows[run.op]
  BY DEF IInv, TypeOK, RunInv, NextItem
<1>2. PICK r \in run.todo : run' = [run EXCEPT !.todo = @ \ {r}, !.cur = r, !.phase = "source"]
  BY DEF NextItem
<1>3. r \in RelPath /\ run.todo \in SUBSET RelPath
  BY <1>1 DEF Run
<1>4. run' \in Run /\ run'.op = run.op /\ run'.todo = run.todo \ {r} /\ run'.cur = r
      /\ run'.phase = "source"
  BY <1>1, <1>2, <1>3 DEF Run
<1>5. UNCHANGED <<file, shadow, db, saved, reviewed, below, env>> /\ late' = {}
  BY DEF NextItem, Others
<1>6. TypeOK'
  BY <1>4, <1>5 DEF IInv, TypeOK, db, env
<1> QED
  BY <1>1, <1>4, <1>5, <1>6 DEF IInv, RunInv, DestinationInv, Working, db

\* The three ways an item goes on, without the files changing.
LEMMA RejectIInv ==
  ASSUME IInv, Working, NEW res \in Result, Reject(res), Others,
         history' \in History, file' \in [Place -> FileState],
         shadow' \in [RelPath -> FileState], late' \subseteq Place
  PROVE  IInv'
<1>1. /\ below' = below
      /\ rows' \in [Op -> Rows] /\ run' \in Run /\ RunInv' /\ run'.phase = "next"
      /\ status' = status /\ catalog' = catalog /\ saved' = saved
  BY RejectKeeps
<1>2. TypeOK'
  BY <1>1 DEF IInv, TypeOK, Others, env
<1> QED
  BY <1>1, <1>2 DEF IInv, DestinationInv

\* Counting an item leaves the destination as it was found.
LEMMA AcceptIInv ==
  ASSUME IInv, Working, Others, NEW out \in Verified, Accept(out), Seen(Dst) = Expected,
         file' = file, shadow' = shadow, late' \subseteq Place
  PROVE  IInv'
<1>1. /\ run' \in Run /\ RunInv' /\ run'.phase = "stat" /\ run'.outcome = out
      /\ Dst' = Dst /\ Expected' = Expected /\ saved' = saved
      /\ rows' = rows /\ status' = status /\ catalog' = catalog /\ history' = history
  BY AcceptKeeps
<1>2. Expected \in Content
  BY Ends
<1>3. below' = IF "back" \in mounted THEN below ELSE below \cup {Dst}
  BY DEF Accept
<1>4. Dst \notin below' => file[Dst] = Expected
  <2>1. Dst[1] = "back"
    BY DEF Dst
  <2> QED
    BY <1>3, <2>1 DEF Seen
<1>5. below' \subseteq Place
  BY <1>3, Ends DEF IInv, TypeOK
<1>6. TypeOK'
  BY <1>1, <1>5 DEF IInv, TypeOK, Others, env
<1> QED
  BY <1>1, <1>4, <1>6 DEF IInv, DestinationInv

\* Hashing the source rejects the item or goes on.
LEMMA HashSourceIInv ==
  ASSUME IInv, HashSource
  PROVE  IInv'
<1>1. Working /\ Others /\ file' = file /\ shadow' = shadow /\ late' = late
  BY DEF HashSource, Working
<1>2. file' \in [Place -> FileState] /\ shadow' \in [RelPath -> FileState]
      /\ late' \subseteq Place /\ history \in History
  BY <1>1 DEF IInv, TypeOK
<1>3. CASE Reject("FAILED") /\ UNCHANGED history
  BY <1>1, <1>2, <1>3, RejectIInv DEF Result
<1>4. CASE Reject("SOURCE_CHANGED") /\ UNCHANGED history
  BY <1>1, <1>2, <1>4, RejectIInv DEF Result
<1>5. CASE Advance("destination")
  <2>1. /\ run' \in Run /\ RunInv' /\ run'.phase = "destination"
        /\ below' = below /\ rows' = rows /\ status' = status /\ catalog' = catalog /\ history' = history
    BY <1>1, <1>5, AdvanceKeeps DEF Advance
  <2>2. TypeOK'
    BY <1>1, <1>5, <2>1 DEF IInv, TypeOK, Others, env, Advance
  <2> QED
    BY <2>1, <2>2 DEF IInv, DestinationInv
<1> QED
  BY <1>3, <1>4, <1>5 DEF HashSource

\* A copy is begun only where nothing was seen.
LEMMA LookAtDestinationIInv ==
  ASSUME IInv, LookAtDestination
  PROVE  IInv'
<1>1. Working /\ Others /\ file' = file /\ shadow' = shadow /\ late' = {}
  BY DEF LookAtDestination, Working
<1>2. file' \in [Place -> FileState] /\ shadow' \in [RelPath -> FileState]
      /\ late' \subseteq Place /\ history \in History
  BY <1>1 DEF IInv, TypeOK
<1>3. CASE Seen(Dst) = Expected /\ Accept("ALREADY_PRESENT")
  BY <1>1, <1>2, <1>3, AcceptIInv DEF Verified
<1>4. CASE (Reject("CONFLICT") \/ Reject("FAILED")) /\ UNCHANGED history
  BY <1>1, <1>2, <1>4, RejectIInv DEF Result
<1>5. CASE Seen(Dst) = Absent /\ Advance("copy")
  <2>1. /\ run' \in Run /\ RunInv' /\ run'.phase = "copy" /\ Dst' = Dst
        /\ below' = below /\ rows' = rows /\ status' = status /\ catalog' = catalog /\ history' = history
    BY <1>1, <1>5, AdvanceKeeps DEF Advance
  <2>2. TypeOK'
    BY <1>1, <1>5, <2>1 DEF IInv, TypeOK, Others, env, Advance
  <2>3. Dst[1] = "back" /\ mounted' = mounted
    BY <1>1 DEF Dst, Others, env
  <2> QED
    BY <1>1, <1>5, <2>1, <2>2, <2>3 DEF IInv, DestinationInv, Seen
<1> QED
  BY <1>3, <1>4, <1>5 DEF LookAtDestination

\* The destination is opened on its volume or below its mount point.
LEMMA CopyBeginIInv ==
  ASSUME IInv, CopyBegin
  PROVE  IInv'
<1>1. Working /\ Others /\ late' = late
  BY DEF CopyBegin, Working
<1>2. CASE "back" \in mounted
  <2>1. /\ file' = [file EXCEPT ![Dst] = Torn] /\ shadow' = shadow
        /\ run' = [run EXCEPT !.phase = "copying"] /\ UNCHANGED <<db, saved, below>>
    BY <1>2 DEF CopyBegin, Advance
  <2>2. /\ run' \in Run /\ RunInv' /\ run'.phase = "copying" /\ Dst' = Dst
        /\ rows' = rows /\ status' = status /\ catalog' = catalog /\ history' = history
    BY <1>1, <2>1, AdvanceKeeps
  <2>3. file' \in [Place -> FileState] /\ file'[Dst] = Torn
    BY <1>1, <2>1, Ends DEF IInv, TypeOK, FileState
  <2>4. TypeOK'
    BY <1>1, <2>1, <2>2, <2>3 DEF IInv, TypeOK, Others, env
  <2> QED
    BY <2>2, <2>3, <2>4 DEF IInv, DestinationInv
<1>3. CASE "back" \notin mounted
  <2>1. /\ shadow' = [shadow EXCEPT ![run.cur] = Torn] /\ file' = file
        /\ run' = [run EXCEPT !.phase = "shadowing"] /\ UNCHANGED <<db, saved, below>>
    BY <1>3 DEF CopyBegin, Advance
  <2>2. /\ run' \in Run /\ RunInv' /\ run'.phase = "shadowing"
        /\ rows' = rows /\ status' = status /\ catalog' = catalog /\ history' = history
    BY <1>1, <2>1, AdvanceKeeps
  <2>3. shadow' \in [RelPath -> FileState]
    BY <2>1 DEF IInv, TypeOK, FileState
  <2>4. TypeOK'
    BY <1>1, <2>1, <2>2, <2>3 DEF IInv, TypeOK, Others, env
  <2> QED
    BY <2>2, <2>4 DEF IInv, DestinationInv
<1> QED
  BY <1>2, <1>3

\* A copy completes where it was opened.
LEMMA CopyEndIInv ==
  ASSUME IInv, CopyEnd
  PROVE  IInv'
<1>1. Working /\ Others /\ late' = late
      /\ run' = [run EXCEPT !.phase = "verify"] /\ UNCHANGED <<db, saved, below>>
  BY DEF CopyEnd, Working, Advance
<1>2. /\ run' \in Run /\ RunInv' /\ run'.phase = "verify"
      /\ rows' = rows /\ status' = status /\ catalog' = catalog /\ history' = history
  BY <1>1, AdvanceKeeps
<1>3. Copied \subseteq FileState
  BY <1>1, Ends DEF Copied, IInv, TypeOK, FileState
<1>4. file' \in [Place -> FileState] /\ shadow' \in [RelPath -> FileState]
  <2>1. CASE \E c \in Copied : file' = [file EXCEPT ![Dst] = c] /\ shadow' = shadow
    BY <1>3, <2>1 DEF IInv, TypeOK
  <2>2. CASE \E c \in Copied : shadow' = [shadow EXCEPT ![run.cur] = c] /\ file' = file
    BY <1>3, <2>2 DEF IInv, TypeOK
  <2> QED
    BY <2>1, <2>2 DEF CopyEnd
<1>5. TypeOK'
  BY <1>1, <1>2, <1>4 DEF IInv, TypeOK, Others, env
<1> QED
  BY <1>2, <1>5 DEF IInv, DestinationInv

\* A failed copy settles the item and leaves the files.
LEMMA CopyFailsIInv ==
  ASSUME IInv, CopyFails
  PROVE  IInv'
<1>1. Working /\ Others /\ Reject("FAILED") /\ UNCHANGED <<file, shadow, history, late>>
  BY DEF CopyFails, Working
<1>2. file' \in [Place -> FileState] /\ shadow' \in [RelPath -> FileState]
      /\ late' \subseteq Place /\ history' \in History
  BY <1>1 DEF IInv, TypeOK
<1> QED
  BY <1>1, <1>2, RejectIInv DEF Result

\* Rehashing the destination settles the item or goes on.
LEMMA VerifyDestinationIInv ==
  ASSUME IInv, VerifyDestination
  PROVE  IInv'
<1>1. Working /\ Others /\ UNCHANGED <<file, shadow, late>>
  BY DEF VerifyDestination, Working
<1>2. file' \in [Place -> FileState] /\ shadow' \in [RelPath -> FileState]
      /\ late' \subseteq Place /\ history \in History
  BY <1>1 DEF IInv, TypeOK
<1>3. CASE Reject("FAILED") /\ UNCHANGED history
  BY <1>1, <1>2, <1>3, RejectIInv DEF Result
<1>4. CASE Reject("COPY_FAILED_VERIFICATION") /\ Recorded("FAILED")
  <2>1. history' \in History
    BY <1>2, <1>4 DEF Recorded, History
  <2> QED
    BY <1>1, <1>2, <1>4, <2>1, RejectIInv DEF Result
<1>5. CASE Seen(Dst) = Expected /\ Accept("COPIED")
  BY <1>1, <1>2, <1>5, AcceptIInv DEF Verified
<1> QED
  BY <1>3, <1>4, <1>5 DEF VerifyDestination

\* The commit of register_source saves well-formed tables.
LEMMA StatAndRegisterIInv ==
  ASSUME IInv, StatAndRegister
  PROVE  IInv'
<1>1. Working /\ Others /\ UNCHANGED <<file, shadow, late>> /\ run.phase = "stat"
  BY DEF StatAndRegister, Working
<1>2. file' \in [Place -> FileState] /\ shadow' \in [RelPath -> FileState]
      /\ late' \subseteq Place /\ history \in History
  BY <1>1 DEF IInv, TypeOK
<1>3. CASE Reject("FAILED") /\ UNCHANGED history
  BY <1>1, <1>2, <1>3, RejectIInv DEF Result
<1>4. CASE saved' = InMemory /\ run' = [run EXCEPT !.phase = "record"] /\ UNCHANGED <<db, below>>
  <2>1. /\ run' \in Run /\ RunInv' /\ run'.phase = "record" /\ run'.outcome = run.outcome
        /\ Dst' = Dst /\ Expected' = Expected
        /\ rows' = rows /\ status' = status /\ catalog' = catalog /\ history' = history
    BY <1>1, <1>4, AdvanceKeeps
  <2>2. saved' \in [catalog: Catalog, rows: [Op -> Rows], status: [Op -> Status],
                    history: History]
    BY <1>4 DEF IInv, TypeOK, InMemory
  <2>3. TypeOK'
    BY <1>1, <1>4, <2>1, <2>2 DEF IInv, TypeOK, Others, env
  <2>4. touched' = touched /\ below' = below
    BY <1>1, <1>4 DEF Others, env
  <2> QED
    BY <1>1, <2>1, <2>3, <2>4 DEF IInv, DestinationInv
<1> QED
  BY <1>3, <1>4 DEF StatAndRegister

\* Recording a destination keeps the tables well formed.
LEMMA RecordDestinationIInv ==
  ASSUME IInv, RecordDestination
  PROVE  IInv'
<1>1. Working /\ Others /\ UNCHANGED <<file, shadow, status, saved, late, below>>
      /\ catalog' = [catalog EXCEPT ![Dst] = [asset |-> Expected, missing |-> FALSE]]
      /\ rows' = WithResult(rows, run.op, run.cur, run.outcome)
      /\ Recorded("VERIFIED") /\ run' = [run EXCEPT !.phase = "next"]
  BY DEF RecordDestination, Working
<1>2. run.outcome \in Result /\ rows \in [Op -> Rows] /\ run \in Run
  BY DEF RecordDestination, IInv, DestinationInv, TypeOK, Result
<1>3. run.op \in Op /\ run.cur \in DOMAIN rows[run.op] /\ Expected \in Content
  BY <1>1, Ends
<1>4. rows' \in [Op -> Rows] /\ \A p \in Op : DOMAIN rows'[p] = DOMAIN rows[p]
  BY <1>1, <1>2, <1>3, ResultUpdate
<1>5. catalog' \in Catalog
  BY <1>1, <1>3 DEF IInv, TypeOK, Catalog
<1>6. history' \in History
  BY <1>1 DEF IInv, TypeOK, Recorded, History
<1>7. run' \in Run /\ run'.phase = "next" /\ run'.op = run.op /\ run'.todo = run.todo
  BY <1>1, <1>2 DEF Run
<1>8. TypeOK'
  BY <1>1, <1>4, <1>5, <1>6, <1>7 DEF IInv, TypeOK, Others, env
<1>9. RunInv'
  BY <1>1, <1>3, <1>4, <1>7 DEF IInv, RunInv, Working, Others
<1> QED
  BY <1>7, <1>8, <1>9 DEF IInv, DestinationInv

\* The final commit leaves no run.
LEMMA FinishIInv ==
  ASSUME IInv, Finish
  PROVE  IInv'
<1>1. FinalStatus \in Status
  BY DEF FinalStatus, Status
<1>2. status' \in [Op -> Status] /\ \A p \in Op : status[p] # "NONE" => status'[p] # "NONE"
  BY <1>1 DEF Finish, IInv, TypeOK, FinalStatus
<1>3. UNCHANGED <<file, shadow, catalog, rows, history, reviewed, below, env>> /\ run' = NotRunning
      /\ late' = {} /\ saved' = [InMemory EXCEPT !.status = status']
  BY DEF Finish, Others
<1>4. run' \in Run /\ run'.phase = "idle"
  BY <1>3 DEF NotRunning, Run, Verified
<1>5. saved' \in [catalog: Catalog, rows: [Op -> Rows], status: [Op -> Status], history: History]
  BY <1>2, <1>3 DEF IInv, TypeOK, InMemory
<1>6. TypeOK'
  BY <1>2, <1>3, <1>4, <1>5 DEF IInv, TypeOK, env
<1> QED
  BY <1>2, <1>3, <1>4, <1>6 DEF IInv, TypeOK, RunInv, DestinationInv, Working

\* What a crash reads back was well formed when it was committed.
LEMMA CrashIInv ==
  ASSUME IInv, Crash
  PROVE  IInv'
<1>1. run' = NotRunning /\ run'.phase = "idle" /\ reviewed' = None /\ run' \in Run
  BY DEF Crash, NotRunning, Run, Verified
<1>2. TypeOK'
  BY <1>1 DEF Crash, IInv, TypeOK
<1> QED
  BY <1>1, <1>2 DEF IInv, RunInv, DestinationInv, Working

\* A user edit after the look at the destination is remembered in late.
LEMMA UserEditIInv ==
  ASSUME IInv, NEW p \in Place, NEW c \in Content \cup {Absent}, UserEdit(p, c)
  PROVE  IInv'
<1>1. /\ file' = [file EXCEPT ![p] = c] /\ touched' = touched \cup {p}
      /\ late' = IF run.phase \in {"copy", "copying", "shadowing"} THEN late \cup {p} ELSE late
      /\ UNCHANGED <<shadow, db, saved, reviewed, run, mounted, online, below, unplugs, crashes>>
  BY DEF UserEdit
<1>2. file' \in [Place -> FileState] /\ \A q \in Place : q # p => file'[q] = file[q]
  BY <1>1 DEF IInv, TypeOK, FileState
<1>3. TypeOK'
  BY <1>1, <1>2 DEF IInv, TypeOK, db
<1>4. RunInv'
  BY <1>1 DEF IInv, RunInv, Working, db
<1>5. Dst' = Dst /\ Expected' = Expected
  BY <1>1 DEF Dst, Expected, db
<1>6. Working => Dst \in Place
  BY Ends
<1> QED
  BY <1>1, <1>2, <1>3, <1>4, <1>5, <1>6 DEF IInv, DestinationInv, Working

\* Steps of the disks and of the catalog's view of them.
LEMMA DisksIInv ==
  ASSUME IInv, RefusePlan \/ RefreshVolumes \/ \E v \in Vol : Unplug(v) \/ PlugIn(v)
  PROVE  IInv'
<1>1. UNCHANGED <<file, shadow, db, saved, run, below>> /\ (reviewed' = reviewed \/ reviewed' = None)
  BY DEF RefusePlan, RefreshVolumes, Unplug, PlugIn
<1>2. Dst' = Dst /\ Expected' = Expected
  BY <1>1 DEF Dst, Expected, db
<1>3. RunInv'
  BY <1>1 DEF IInv, RunInv, Working, db
<1>4. CASE RefusePlan
  BY <1>1, <1>2, <1>3, <1>4 DEF RefusePlan, IInv, TypeOK, DestinationInv, db, env
<1>5. CASE RefreshVolumes
  BY <1>1, <1>2, <1>3, <1>5 DEF RefreshVolumes, IInv, TypeOK, DestinationInv, db
<1>6. ASSUME NEW v \in Vol, Unplug(v)
      PROVE  IInv'
  BY <1>1, <1>2, <1>3, <1>6 DEF Unplug, IInv, TypeOK, DestinationInv, db
<1>7. ASSUME NEW v \in Vol, PlugIn(v)
      PROVE  IInv'
  <2> DEFINE unseen == IF run.phase = "copy" /\ v = "back" THEN {Dst} ELSE {}
  <2>1. late' = late \cup unseen /\ touched' = touched \cup unseen
        /\ mounted' = mounted \cup {v} /\ reviewed' = reviewed
        /\ UNCHANGED <<online, unplugs, crashes>>
    BY <1>7 DEF PlugIn
  <2>2. unseen \subseteq Place
    BY Ends DEF Working
  <2> HIDE DEF unseen
  <2>3. TypeOK'
    BY <1>1, <2>1, <2>2 DEF IInv, TypeOK, db
  <2>4. DestinationInv'
    <3>1. run.phase = "copy" /\ "back" \in mounted' /\ Dst \notin late' => file[Dst] = Absent
      BY <2>1 DEF unseen, IInv, DestinationInv
    <3> QED
      BY <1>1, <1>2, <2>1, <3>1 DEF IInv, DestinationInv
  <2> QED
    BY <1>3, <2>3, <2>4 DEF IInv
<1> QED
  BY <1>4, <1>5, <1>6, <1>7

\* Every step of the system keeps the inductive invariant.
LEMMA StepIInv == IInv /\ [Next]_vars => IInv'
<1> SUFFICES ASSUME IInv, [Next]_vars PROVE IInv'
  OBVIOUS
<1>1. ASSUME NEW o \in Op, NEW S \in SUBSET RelPath, BuildPlan(o, S) PROVE IInv'
  BY <1>1, BuildPlanIInv
<1>2. CASE StartExecute
  BY <1>2, StartExecuteIInv
<1>3. CASE Worker
  BY <1>3, NextItemIInv, HashSourceIInv, LookAtDestinationIInv, CopyBeginIInv, CopyEndIInv,
     CopyFailsIInv, VerifyDestinationIInv, StatAndRegisterIInv, RecordDestinationIInv, FinishIInv
     DEF Worker
<1>4. CASE Crash
  BY <1>4, CrashIInv
<1>5. ASSUME NEW p \in Place, NEW c \in Content \cup {Absent}, UserEdit(p, c) PROVE IInv'
  BY <1>5, UserEditIInv
<1>6. CASE RefusePlan \/ RefreshVolumes \/ \E v \in Vol : Unplug(v) \/ PlugIn(v)
  BY <1>6, DisksIInv
<1>7. CASE UNCHANGED vars
  <2>1. UNCHANGED <<file, shadow, db, saved, reviewed, run, late, below, env>>
    BY <1>7 DEF vars
  <2>2. TypeOK'
    BY <2>1 DEF IInv, TypeOK, db, env
  <2>3. RunInv'
    BY <2>1 DEF IInv, RunInv, Working, db
  <2>4. DestinationInv'
    BY <2>1 DEF IInv, DestinationInv, Dst, Expected, db, env
  <2> QED
    BY <2>2, <2>3, <2>4 DEF IInv
<1> QED
  BY <1>1, <1>2, <1>3, <1>4, <1>5, <1>6, <1>7 DEF Next

\* The inductive invariant holds throughout.
THEOREM Invariance == Spec => []IInv
BY InitIInv, StepIInv, PTL DEF Spec

\* Every variable keeps its type.
THEOREM CopyTypeOK == Spec => []TypeOK
<1>1. IInv => TypeOK
  BY DEF IInv
<1> QED
  BY Invariance, <1>1, PTL

\* No step of execute_copy_plan changes a file that has a content, unless the
\* file appeared after the run had looked at the destination.
THEOREM CopyOverwritesNothing == Spec => NothingOverwritten
<1> DEFINE Kept == run' # run =>
                     \A p \in Place \ late : file[p] \in Content => file'[p] = file[p]
<1>1. ASSUME IInv, [Next]_vars PROVE [Kept]_vars
  <2> SUFFICES ASSUME Next, run' # run,
                      NEW p \in Place \ late, file[p] \in Content
               PROVE  file'[p] = file[p]
    BY <1>1
  <2>1. CASE CopyBegin
    <3>1. "back" \in mounted => p # Dst
      BY <1>1, <2>1, CopyPlanConstants, ReconcileConstants
         DEF CopyBegin, IInv, DestinationInv
    <3>2. file' = file \/ ("back" \in mounted /\ file' = [file EXCEPT ![Dst] = Torn])
      BY <2>1 DEF CopyBegin
    <3> QED
      BY <1>1, <3>1, <3>2 DEF IInv, TypeOK
  <2>2. CASE CopyEnd
    <3>1. run.phase = "copying" => p # Dst
      BY <1>1, <2>2, CopyPlanConstants DEF CopyEnd, IInv, DestinationInv
    <3>2. file' = file \/ (run.phase = "copying" /\ \E c : file' = [file EXCEPT ![Dst] = c])
      BY <2>2 DEF CopyEnd
    <3> QED
      BY <1>1, <3>1, <3>2 DEF IInv, TypeOK
  <2>3. CASE ~CopyBegin /\ ~CopyEnd
    BY <2>3 DEF Next, Worker, BuildPlan, RefusePlan, StartExecute, NextItem, HashSource,
       LookAtDestination, CopyFails, VerifyDestination, StatAndRegister, RecordDestination,
       Finish, Crash, UserEdit, Unplug, PlugIn, RefreshVolumes
  <2> QED
    BY <2>1, <2>2, <2>3
<1>2. Spec => [][Kept]_vars
  BY <1>1, Invariance, PTL DEF Spec
<1> QED
  BY <1>2 DEF NothingOverwritten

-------------------------------------------------------------------------------
(***************************************************************************)
(* The catalog tells the truth about the backup volume.                    *)
(***************************************************************************)
\* The active backup rows of a catalog are the files nobody has edited, but for
\* those that were hashed below the mount point.
Real(cat) ==
  \A r \in RelPath :
    ~cat[<<"back", r>>].missing =>
      /\ cat[<<"back", r>>].asset \in Content
      /\ <<"back", r>> \notin touched \cup below => file[<<"back", r>>] = cat[<<"back", r>>].asset

\* A crash brings the committed catalog back, so it has to be as true as the
\* one the connection sees.
RealInv == late \subseteq touched /\ Real(catalog) /\ Real(saved.catalog)

\* After a scan an active row is a file with that hash.
LEMMA InitRealInv == Init => RealInv
<1> SUFFICES ASSUME Init PROVE RealInv
  OBVIOUS
<1>1. ASSUME NEW p \in Place, ~catalog[p].missing
      PROVE  catalog[p].asset \in Content /\ file[p] = catalog[p].asset
  <2>1. file[p] # Absent /\ catalog[p] = [asset |-> file[p], missing |-> FALSE]
    BY <1>1 DEF Init
  <2>2. file[p] \in Content \cup {Absent}
    BY DEF Init
  <2> QED
    BY <2>1, <2>2
<1>2. \A r \in RelPath : <<"back", r>> \in Place
  BY DEF Place, Vol
<1>3. Real(catalog)
  BY <1>1, <1>2 DEF Real
<1>4. saved.catalog = catalog /\ late = {}
  BY DEF Init, InMemory
<1> QED
  BY <1>3, <1>4 DEF RealInv, Real

\* A step that changes no file and no catalog.
LEMMA RealUnchanged ==
  ASSUME RealInv, file' = file, touched \subseteq touched', below \subseteq below',
         late' \subseteq touched',
         catalog' \in {catalog, saved.catalog}, saved'.catalog \in {catalog, saved.catalog}
  PROVE  RealInv'
BY DEF RealInv, Real

\* Every step keeps the active backup rows real.
LEMMA StepRealInv == IInv /\ RealInv /\ [Next]_vars => RealInv'
<1> SUFFICES ASSUME IInv, RealInv, [Next]_vars PROVE RealInv'
  OBVIOUS
<1>1. saved \in [catalog: Catalog, rows: [Op -> Rows], status: [Op -> Status], history: History]
  BY DEF IInv, TypeOK
<1>2. late \subseteq touched
  BY DEF RealInv
<1>3. ASSUME NEW o \in Op, NEW S \in SUBSET RelPath, BuildPlan(o, S) PROVE RealInv'
  BY <1>1, <1>2, <1>3, RealUnchanged DEF BuildPlan, env
<1>4. CASE StartExecute
  BY <1>1, <1>2, <1>4, RealUnchanged DEF StartExecute, env
<1>5. CASE NextItem \/ HashSource \/ LookAtDestination \/ VerifyDestination \/ CopyFails
  <2>1. file' = file /\ catalog' = catalog /\ saved' = saved /\ touched' = touched
        /\ late' \in {late, {}} /\ below \subseteq below'
    BY <1>5 DEF NextItem, HashSource, LookAtDestination, VerifyDestination, CopyFails,
                Reject, Advance, Accept, Others, db, env
  <2> QED
    BY <1>2, <2>1, RealUnchanged
<1>6. CASE StatAndRegister
  <2>1. file' = file /\ catalog' = catalog /\ saved'.catalog \in {catalog, saved.catalog}
        /\ touched' = touched /\ late' = late /\ below' = below
    BY <1>6 DEF StatAndRegister, Reject, InMemory, Others, db, env
  <2> QED
    BY <1>2, <2>1, RealUnchanged
<1>7. CASE Finish
  <2>1. file' = file /\ catalog' = catalog /\ saved'.catalog = catalog
        /\ touched' = touched /\ late' = {} /\ below' = below
    BY <1>7 DEF Finish, InMemory, Others, env
  <2> QED
    BY <1>2, <2>1, RealUnchanged
<1>8. CASE CopyBegin \/ CopyEnd
  <2>1. /\ Working
        /\ \A p \in Place : p # Dst => file'[p] = file[p]
        /\ catalog' = catalog /\ saved' = saved /\ touched' = touched /\ late' = late
        /\ below' = below
    <3>1. run.phase \in {"copy", "copying", "shadowing"} /\ Others
          /\ UNCHANGED <<late, db, saved, below>>
      BY <1>8 DEF CopyBegin, CopyEnd, Advance
    <3>2. file' = file \/ \E c : file' = [file EXCEPT ![Dst] = c]
      BY <1>8 DEF CopyBegin, CopyEnd
    <3>3. \A p \in Place : p # Dst => file'[p] = file[p]
      BY <3>2 DEF IInv, TypeOK
    <3> QED
      BY <3>1, <3>3 DEF Working, Others, db, env
  <2>2. Dst \in Place /\ (Dst \notin touched => file'[Dst] = file[Dst] \/ file[Dst] \notin Content)
    BY <1>2, <1>8, <2>1, Ends, CopyPlanConstants, ReconcileConstants
       DEF CopyBegin, CopyEnd, IInv, DestinationInv
  <2>3. ASSUME NEW cat, Real(cat), cat' = cat PROVE Real(cat)'
    <3> SUFFICES ASSUME NEW r \in RelPath, ~cat[<<"back", r>>].missing
                 PROVE  /\ cat[<<"back", r>>].asset \in Content
                        /\ <<"back", r>> \notin touched' \cup below' =>
                              file'[<<"back", r>>] = cat[<<"back", r>>].asset
      BY <2>3 DEF Real
    <3>1. <<"back", r>> \in Place
      BY DEF Place, Vol
    <3> QED
      BY <2>1, <2>2, <2>3, <3>1 DEF Real
  <2> QED
    BY <2>1, <2>3, <1>2 DEF RealInv
<1>9. CASE RecordDestination
  <2>1. /\ Working /\ file' = file /\ saved' = saved /\ touched' = touched /\ late' = late
        /\ below' = below
        /\ catalog' = [catalog EXCEPT ![Dst] = [asset |-> Expected, missing |-> FALSE]]
    <3>1. run.phase = "record" /\ UNCHANGED <<file, saved, late, below>> /\ Others
          /\ catalog' = [catalog EXCEPT ![Dst] = [asset |-> Expected, missing |-> FALSE]]
      BY <1>9, Zenon DEF RecordDestination
    <3> QED
      BY <3>1 DEF Working, Others, env
  <2>2. Expected \in Content /\ (Dst \notin touched \cup below => file[Dst] = Expected)
        /\ catalog \in Catalog
    BY <1>9, <2>1, Ends DEF RecordDestination, IInv, DestinationInv, TypeOK
  <2>3. Real(catalog)'
    <3> SUFFICES ASSUME NEW r \in RelPath, ~catalog'[<<"back", r>>].missing
                 PROVE  /\ catalog'[<<"back", r>>].asset \in Content
                        /\ <<"back", r>> \notin touched' \cup below' =>
                              file'[<<"back", r>>] = catalog'[<<"back", r>>].asset
      BY DEF Real
    <3>1. <<"back", r>> \in Place
      BY DEF Place, Vol
    <3>2. catalog'[<<"back", r>>] = IF <<"back", r>> = Dst
            THEN [asset |-> Expected, missing |-> FALSE] ELSE catalog[<<"back", r>>]
      BY <2>1, <2>2, <3>1 DEF Catalog
    <3> QED
      BY <2>1, <2>2, <3>2 DEF RealInv, Real
  <2> QED
    BY <2>1, <2>3 DEF RealInv, Real
<1>10. CASE Crash
  BY <1>10, RealUnchanged DEF Crash
<1>11. ASSUME NEW p \in Place, NEW c \in Content \cup {Absent}, UserEdit(p, c) PROVE RealInv'
  <2>1. /\ catalog' = catalog /\ saved' = saved /\ touched' = touched \cup {p}
        /\ below' = below /\ late' \subseteq touched'
        /\ \A q \in Place : q # p => file'[q] = file[q]
    BY <1>2, <1>11 DEF UserEdit, db, IInv, TypeOK
  <2>2. \A r \in RelPath : <<"back", r>> \notin touched' \cup below' =>
            <<"back", r>> \notin touched \cup below /\ file'[<<"back", r>>] = file[<<"back", r>>]
    BY <2>1 DEF Place, Vol
  <2> QED
    BY <2>1, <2>2 DEF RealInv, Real
<1>12. CASE RefusePlan \/ RefreshVolumes \/ \E v \in Vol : Unplug(v) \/ PlugIn(v)
  <2>1. /\ file' = file /\ catalog' = catalog /\ saved' = saved
        /\ touched \subseteq touched' /\ below' = below /\ late' \subseteq touched'
    BY <1>2, <1>12 DEF RefusePlan, RefreshVolumes, Unplug, PlugIn, db, env
  <2> QED
    BY <2>1, RealUnchanged
<1>13. CASE UNCHANGED vars
  BY <1>2, <1>13, RealUnchanged DEF vars, db, env
<1> QED
  BY <1>3, <1>4, <1>5, <1>6, <1>7, <1>8, <1>9, <1>10, <1>11, <1>12, <1>13 DEF Next, Worker

\* An active backup row is the file with that hash on the backup volume, unless
\* the user edited the file or it was hashed while the volume was unplugged.
THEOREM CopyBackupRowsAreReal == Spec => []BackupRowsAreReal
<1>1. RealInv => BackupRowsAreReal
  BY DEF RealInv, Real, BackupRowsAreReal
<1> QED
  BY <1>1, Invariance, InitRealInv, StepRealInv, PTL DEF Spec

-------------------------------------------------------------------------------
(***************************************************************************)
(* What is verified is recorded in three tables at once.                   *)
(***************************************************************************)
\* A row copies the asset catalogued at its source, and a verified row has its
\* history entry and its destination in the same database.
Truthful(cat, rws, hist) ==
  \A o \in Op : \A r \in DOMAIN rws[o] :
    /\ rws[o][r].asset = cat[<<"main", r>>].asset
    /\ rws[o][r].result \in Verified =>
         /\ hist[o][r] = "VERIFIED"
         /\ cat[<<"back", r>>] = [asset |-> rws[o][r].asset, missing |-> FALSE]

TruthInv == /\ Truthful(catalog, rows, history)
            /\ Truthful(saved.catalog, saved.rows, saved.history)

\* Before the first plan nothing is verified.
LEMMA InitTruthInv == Init => TruthInv
BY DEF Init, TruthInv, Truthful, InMemory

\* A step that leaves the tables, or reads the committed ones back, or commits.
LEMMA TruthUnchanged ==
  ASSUME TruthInv,
         \/ catalog' = catalog /\ rows' = rows /\ history' = history
         \/ catalog' = saved.catalog /\ rows' = saved.rows /\ history' = saved.history,
         \/ saved'.catalog = catalog /\ saved'.rows = rows /\ saved'.history = history
         \/ saved'.catalog = saved.catalog /\ saved'.rows = saved.rows
              /\ saved'.history = saved.history
  PROVE  TruthInv'
BY DEF TruthInv, Truthful

\* Rejecting an item verifies nothing.
LEMMA RejectTruth ==
  ASSUME IInv, TruthInv, Working, NEW res \in Result \ Verified, Reject(res),
         history' = history \/ Recorded("FAILED")
  PROVE  TruthInv'
<1>1. rows' = WithResult(rows, run.op, run.cur, res) /\ UNCHANGED <<catalog, saved>>
  BY DEF Reject
<1>2. run.op \in Op /\ run.cur \in DOMAIN rows[run.op] /\ rows \in [Op -> Rows]
      /\ history \in History
  BY Ends DEF IInv, TypeOK
<1>3. /\ \A p \in Op : DOMAIN rows'[p] = DOMAIN rows[p]
      /\ \A p \in Op : \A q \in DOMAIN rows[p] : rows'[p][q].asset = rows[p][q].asset
      /\ \A p \in Op : \A q \in DOMAIN rows[p] :
           rows'[p][q].result = IF p = run.op /\ q = run.cur THEN res ELSE rows[p][q].result
  BY <1>1, <1>2, ResultUpdate
<1>4. ASSUME NEW o \in Op, NEW r \in DOMAIN rows'[o]
      PROVE  /\ rows'[o][r].asset = catalog'[<<"main", r>>].asset
             /\ rows'[o][r].result \in Verified =>
                  /\ history'[o][r] = "VERIFIED"
                  /\ catalog'[<<"back", r>>] = [asset |-> rows'[o][r].asset, missing |-> FALSE]
  <2>1. r \in DOMAIN rows[o] /\ rows'[o][r].asset = rows[o][r].asset /\ r \in RelPath
    BY <1>2, <1>3, RowsDomain
  <2>2. rows[o][r].asset = catalog[<<"main", r>>].asset
    BY <2>1 DEF TruthInv, Truthful
  <2>3. ASSUME rows'[o][r].result \in Verified
        PROVE  history'[o][r] = "VERIFIED" /\ catalog[<<"back", r>>] =
                 [asset |-> rows[o][r].asset, missing |-> FALSE]
    <3>1. ~(o = run.op /\ r = run.cur) /\ rows[o][r].result \in Verified
      BY <1>3, <2>1, <2>3
    <3>2. history[o][r] = "VERIFIED" /\ catalog[<<"back", r>>] =
            [asset |-> rows[o][r].asset, missing |-> FALSE]
      BY <2>1, <3>1 DEF TruthInv, Truthful
    <3>3. history'[o][r] = history[o][r]
      BY <1>2, <2>1, <3>1 DEF Recorded, History
    <3> QED
      BY <3>2, <3>3
  <2> QED
    BY <1>1, <2>1, <2>2, <2>3
<1> QED
  BY <1>1, <1>4 DEF TruthInv, Truthful

\* Result, history entry and location are written together.
LEMMA RecordTruth ==
  ASSUME IInv, TruthInv, RecordDestination
  PROVE  TruthInv'
<1>1. /\ rows' = WithResult(rows, run.op, run.cur, run.outcome) /\ saved' = saved
      /\ catalog' = [catalog EXCEPT ![Dst] = [asset |-> Expected, missing |-> FALSE]]
      /\ Recorded("VERIFIED") /\ Working
  BY DEF RecordDestination, Working
<1>2. run.op \in Op /\ run.cur \in DOMAIN rows[run.op] /\ rows \in [Op -> Rows]
      /\ history \in History /\ catalog \in Catalog
  BY <1>1, Ends DEF IInv, TypeOK
<1>3. run.outcome \in Verified /\ run.outcome \in Result
  BY DEF RecordDestination, IInv, DestinationInv, Result
<1>4. /\ \A p \in Op : DOMAIN rows'[p] = DOMAIN rows[p]
      /\ \A p \in Op : \A q \in DOMAIN rows[p] : rows'[p][q].asset = rows[p][q].asset
      /\ \A p \in Op : \A q \in DOMAIN rows[p] :
           rows'[p][q].result = IF p = run.op /\ q = run.cur THEN run.outcome
                                ELSE rows[p][q].result
  BY <1>1, <1>2, <1>3, ResultUpdate
<1>5. ASSUME NEW o \in Op, NEW r \in DOMAIN rows'[o]
      PROVE  /\ rows'[o][r].asset = catalog'[<<"main", r>>].asset
             /\ rows'[o][r].result \in Verified =>
                  /\ history'[o][r] = "VERIFIED"
                  /\ catalog'[<<"back", r>>] = [asset |-> rows'[o][r].asset, missing |-> FALSE]
  <2>1. r \in DOMAIN rows[o] /\ rows'[o][r].asset = rows[o][r].asset
        /\ rows[o][r].asset = catalog[<<"main", r>>].asset /\ r \in RelPath
    <3>1. r \in DOMAIN rows[o] /\ rows'[o][r].asset = rows[o][r].asset /\ r \in RelPath
      BY <1>2, <1>4, RowsDomain
    <3> QED
      BY <3>1 DEF TruthInv, Truthful
  <2>2. /\ catalog'[<<"main", r>>] = catalog[<<"main", r>>]
        /\ catalog'[<<"back", r>>] = IF r = run.cur THEN [asset |-> Expected, missing |-> FALSE]
                                     ELSE catalog[<<"back", r>>]
    <3>1. <<"main", r>> \in Place /\ <<"back", r>> \in Place
      BY <2>1 DEF Place, Vol
    <3> QED
      BY <1>1, <1>2, <3>1 DEF Catalog, Dst
  <2>3. r = run.cur => Expected = rows[o][r].asset
    BY <1>2, <2>1 DEF Expected, TruthInv, Truthful
  <2>4. history'[o][r] = IF o = run.op /\ r = run.cur THEN "VERIFIED" ELSE history[o][r]
    BY <1>1, <1>2, <2>1 DEF Recorded, History
  <2>5. ~(o = run.op /\ r = run.cur) /\ rows'[o][r].result \in Verified =>
          history[o][r] = "VERIFIED" /\ catalog[<<"back", r>>] =
            [asset |-> rows[o][r].asset, missing |-> FALSE]
    BY <1>4, <2>1 DEF TruthInv, Truthful
  <2> QED
    BY <2>1, <2>2, <2>3, <2>4, <2>5
<1> QED
  BY <1>1, <1>5 DEF TruthInv, Truthful

\* Planned rows are not verified.
LEMMA BuildPlanTruth ==
  ASSUME IInv, TruthInv, NEW o \in Op, NEW S \in SUBSET RelPath, BuildPlan(o, S)
  PROVE  TruthInv'
<1> DEFINE new == [r \in S |-> [asset |-> catalog[<<"main", r>>].asset, result |-> "PLANNED"]]
<1>1. /\ rows' = [rows EXCEPT ![o] = new] /\ UNCHANGED <<catalog, history>>
      /\ saved = InMemory /\ saved' = [saved EXCEPT !.rows = rows', !.status = status']
  BY DEF BuildPlan, NoWriter
<1>2. /\ saved'.catalog = catalog /\ saved'.rows = rows' /\ saved'.history = history
  BY <1>1 DEF InMemory
<1>4. \A p \in Op : rows'[p] = IF p = o THEN new ELSE rows[p]
  BY <1>1 DEF IInv, TypeOK
<1>5. "PLANNED" \notin Verified
  BY DEF Verified
<1>6. ASSUME NEW p \in Op, NEW r \in DOMAIN rows'[p]
      PROVE  /\ rows'[p][r].asset = catalog[<<"main", r>>].asset
             /\ rows'[p][r].result \in Verified =>
                  /\ history[p][r] = "VERIFIED"
                  /\ catalog[<<"back", r>>] = [asset |-> rows'[p][r].asset, missing |-> FALSE]
  <2>1. CASE p = o
    <3>1. r \in S /\ rows'[p][r] = [asset |-> catalog[<<"main", r>>].asset, result |-> "PLANNED"]
      BY <1>4, <2>1
    <3> QED
      BY <1>5, <3>1
  <2>2. CASE p # o
    <3>1. rows'[p] = rows[p]
      BY <1>4, <2>2
    <3> QED
      BY <3>1 DEF TruthInv, Truthful
  <2> QED
    BY <2>1, <2>2
<1> HIDE DEF new
<1>7. Truthful(catalog, rows', history)
  BY <1>6 DEF Truthful
<1> QED
  BY <1>1, <1>2, <1>7 DEF TruthInv, Truthful

\* Every step keeps verified rows backed by history and location.
LEMMA StepTruthInv == IInv /\ TruthInv /\ [Next]_vars => TruthInv'
<1> SUFFICES ASSUME IInv, TruthInv, [Next]_vars PROVE TruthInv'
  OBVIOUS
<1>1. saved \in [catalog: Catalog, rows: [Op -> Rows], status: [Op -> Status], history: History]
  BY DEF IInv, TypeOK
<1>2. ASSUME NEW o \in Op, NEW S \in SUBSET RelPath, BuildPlan(o, S) PROVE TruthInv'
  BY <1>2, BuildPlanTruth
<1>3. ASSUME NEW res \in {"FAILED", "CONFLICT", "SOURCE_CHANGED", "COPY_FAILED_VERIFICATION"},
             Working, Reject(res), history' = history \/ Recorded("FAILED")
      PROVE  TruthInv'
  BY <1>3, RejectTruth DEF Result, Verified
<1>4. ASSUME UNCHANGED db, saved' = saved PROVE TruthInv'
  BY <1>4, TruthUnchanged DEF db
<1>5. CASE HashSource \/ LookAtDestination \/ CopyFails \/ VerifyDestination
  BY <1>3, <1>4, <1>5 DEF HashSource, LookAtDestination, CopyFails, VerifyDestination, Working,
                          Advance, Accept
<1>6. CASE StatAndRegister
  <2>1. CASE Reject("FAILED") /\ UNCHANGED history
    BY <1>3, <1>6, <2>1 DEF StatAndRegister, Working
  <2>2. CASE saved' = InMemory /\ UNCHANGED db
    BY <2>2, TruthUnchanged DEF InMemory, db
  <2> QED
    BY <1>6, <2>1, <2>2 DEF StatAndRegister
<1>7. CASE RecordDestination
  BY <1>7, RecordTruth
<1>8. CASE Finish
  BY <1>8, TruthUnchanged DEF Finish, InMemory
<1>9. CASE Crash
  BY <1>9, TruthUnchanged DEF Crash
<1>10. CASE StartExecute
  BY <1>1, <1>10, TruthUnchanged DEF StartExecute
<1>11. CASE NextItem \/ CopyBegin \/ CopyEnd
  BY <1>4, <1>11 DEF NextItem, CopyBegin, CopyEnd, Advance
<1>12. ASSUME NEW p \in Place, NEW c \in Content \cup {Absent}, UserEdit(p, c) PROVE TruthInv'
  BY <1>4, <1>12 DEF UserEdit
<1>13. CASE RefusePlan \/ RefreshVolumes \/ \E v \in Vol : Unplug(v) \/ PlugIn(v)
  BY <1>4, <1>13 DEF RefusePlan, RefreshVolumes, Unplug, PlugIn
<1>14. CASE UNCHANGED vars
  BY <1>4, <1>14 DEF vars
<1> QED
  BY <1>2, <1>5, <1>6, <1>7, <1>8, <1>9, <1>10, <1>11, <1>12, <1>13, <1>14 DEF Next, Worker

\* A commit in the middle of execute_copy_plan, or at its end, never makes a
\* verified result durable without its history entry and its location.
THEOREM CopyVerifiedIsAllOrNothing == Spec => VerifiedIsAllOrNothing
<1>1. TruthInv' =>
        \A o \in Op : \A r \in DOMAIN saved'.rows[o] :
          /\ saved'.rows[o][r].result \in Verified
          /\ ~(r \in DOMAIN saved.rows[o] /\ saved.rows[o][r].result \in Verified)
          => /\ saved'.history[o][r] = "VERIFIED"
             /\ saved'.catalog[<<"back", r>>]
                  = [asset |-> saved'.rows[o][r].asset, missing |-> FALSE]
  BY DEF TruthInv, Truthful
<1> QED
  BY <1>1, Invariance, InitTruthInv, StepTruthInv, PTL DEF Spec, VerifiedIsAllOrNothing

-------------------------------------------------------------------------------
(***************************************************************************)
(* What a completed operation copied is on the backup volume.              *)
(***************************************************************************)
\* Every row of an operation recorded as COMPLETED is verified.
Complete(stat, rws) ==
  \A o \in Op : stat[o] = "COMPLETED" => \A r \in DOMAIN rws[o] : rws[o][r].result \in Verified

\* The rows a run has dealt with, but for the item in hand.
Dealt == {r \in DOMAIN rows[run.op] \ run.todo : ~(Working /\ r = run.cur)}

\* A run without a failure has verified what it has dealt with; no other
\* operation changes, and outside a run everything is committed.
DoneInv ==
  /\ run.phase = "idle" => saved = InMemory
  /\ reviewed # None => status[reviewed] = "PLANNED"
  /\ run.phase # "idle" => status[run.op] = "RUNNING"
  /\ Complete(status, rows) /\ Complete(saved.status, saved.rows)
  /\ run.phase # "idle" /\ run.failed = 0 /\ run.conflicts = 0 =>
       \A r \in Dealt : rows[run.op][r].result \in Verified

\* Nothing is planned, nothing is complete.
LEMMA InitDoneInv == Init => DoneInv
BY DEF Init, NotRunning, InMemory, DoneInv, Complete

\* A step that leaves the run and the database, or commits within a run.
LEMMA DoneUnchanged ==
  ASSUME DoneInv, run' = run, UNCHANGED db, reviewed' \in {reviewed, None},
         saved' = saved
  PROVE  DoneInv'
BY DEF DoneInv, Complete, Dealt, Working, InMemory, db

\* A step within an item.
LEMMA ItemDone ==
  ASSUME IInv, DoneInv, Working, UNCHANGED db, Others,
         saved' = saved \/ saved' = InMemory,
         run'.phase \notin {"idle", "next"}, run'.op = run.op, run'.todo = run.todo,
         run'.cur = run.cur, run'.failed = run.failed, run'.conflicts = run.conflicts
  PROVE  DoneInv'
BY DEF DoneInv, Complete, Dealt, Working, InMemory, db, Others

\* A row that gets a result belongs to an operation that is RUNNING.
LEMMA ResultDone ==
  ASSUME IInv, DoneInv, Working, NEW res \in Result,
         rows' = WithResult(rows, run.op, run.cur, res)
  PROVE  /\ Complete(status, rows')
         /\ DOMAIN rows'[run.op] = DOMAIN rows[run.op]
         /\ \A r \in DOMAIN rows[run.op] :
              rows'[run.op][r].result = IF r = run.cur THEN res ELSE rows[run.op][r].result
<1>1. run.op \in Op /\ run.cur \in DOMAIN rows[run.op] /\ rows \in [Op -> Rows]
  BY Ends DEF IInv, TypeOK
<1>2. /\ \A p \in Op : DOMAIN rows'[p] = DOMAIN rows[p]
      /\ \A p \in Op : \A q \in DOMAIN rows[p] :
           rows'[p][q].result = IF p = run.op /\ q = run.cur THEN res ELSE rows[p][q].result
  BY <1>1, ResultUpdate
<1>3. status[run.op] = "RUNNING"
  BY DEF DoneInv, Working
<1> QED
  BY <1>1, <1>2, <1>3 DEF DoneInv, Complete

\* A rejected item counts as failed or as a conflict.
LEMMA RejectDone ==
  ASSUME IInv, DoneInv, Working, NEW res \in Result, Reject(res), Others
  PROVE  DoneInv'
<1>1. run \in Run /\ run.failed \in Nat /\ run.conflicts \in Nat
  BY DEF IInv, TypeOK, Run
<1>2. /\ rows' = WithResult(rows, run.op, run.cur, res) /\ status' = status /\ saved' = saved
      /\ reviewed' = reviewed /\ run'.op = run.op /\ run'.phase = "next"
      /\ run'.conflicts = IF res = "CONFLICT" THEN run.conflicts + 1 ELSE run.conflicts
      /\ run'.failed = IF res = "CONFLICT" THEN run.failed ELSE run.failed + 1
  BY <1>1 DEF Reject, Others, Run
<1>3. ~(run'.failed = 0 /\ run'.conflicts = 0)
  BY <1>1, <1>2
<1>4. Complete(status, rows')
  BY <1>2, ResultDone
<1> QED
  BY <1>2, <1>3, <1>4 DEF DoneInv, Complete, Working

\* A recorded item is verified.
LEMMA RecordDone ==
  ASSUME IInv, DoneInv, RecordDestination
  PROVE  DoneInv'
<1>1. /\ rows' = WithResult(rows, run.op, run.cur, run.outcome) /\ status' = status
      /\ saved' = saved /\ reviewed' = reviewed /\ run' = [run EXCEPT !.phase = "next"] /\ Working
  BY DEF RecordDestination, Others, Working
<1>2. run.outcome \in Verified /\ run.outcome \in Result
  BY DEF RecordDestination, IInv, DestinationInv, Result
<1>3. /\ run'.op = run.op /\ run'.todo = run.todo /\ run'.cur = run.cur /\ run'.phase = "next"
      /\ run'.failed = run.failed /\ run'.conflicts = run.conflicts
  BY <1>1 DEF IInv, TypeOK, Run
<1>4. /\ Complete(status, rows')
      /\ DOMAIN rows'[run.op] = DOMAIN rows[run.op]
      /\ \A r \in DOMAIN rows[run.op] :
           rows'[run.op][r].result = IF r = run.cur THEN run.outcome ELSE rows[run.op][r].result
  BY <1>1, <1>2, ResultDone
<1>5. ASSUME run.failed = 0, run.conflicts = 0, NEW r \in DOMAIN rows[run.op] \ run.todo
      PROVE  rows'[run.op][r].result \in Verified
  <2>1. r # run.cur => r \in Dealt
    BY DEF Dealt
  <2> QED
    BY <1>1, <1>2, <1>4, <1>5, <2>1 DEF DoneInv, Working
<1> QED
  BY <1>1, <1>3, <1>4, <1>5 DEF DoneInv, Dealt, Complete, Working

\* A run starts with everything to do, and nothing is in hand between items.
LEMMA StartDone ==
  ASSUME IInv, DoneInv, StartExecute
  PROVE  DoneInv'
<1>1. reviewed \in Op /\ status[reviewed] = "PLANNED" /\ saved = InMemory
      /\ status \in [Op -> Status]
  BY DEF StartExecute, DoneInv, IInv, TypeOK
<1>2. /\ status' = [status EXCEPT ![reviewed] = "RUNNING"] /\ rows' = rows /\ reviewed' = None
      /\ saved' = [saved EXCEPT !.status = status']
      /\ run'.op = reviewed /\ run'.todo = DOMAIN rows[reviewed] /\ run'.phase = "next"
  BY DEF StartExecute, NotRunning
<1>3. saved'.status = status' /\ saved'.rows = rows
  BY <1>1, <1>2 DEF InMemory
<1>4. Complete(status', rows)
  BY <1>1, <1>2 DEF DoneInv, Complete
<1> QED
  BY <1>1, <1>2, <1>3, <1>4 DEF DoneInv, Dealt, Complete

\* The next item is in hand, and not dealt with.
LEMMA NextItemDone ==
  ASSUME IInv, DoneInv, NextItem
  PROVE  DoneInv'
<1>1. run \in Run /\ run.phase = "next"
  BY DEF IInv, TypeOK, NextItem
<1>2. PICK r \in run.todo : run' = [run EXCEPT !.todo = @ \ {r}, !.cur = r, !.phase = "source"]
  BY DEF NextItem
<1>3. /\ run'.op = run.op /\ run'.todo = run.todo \ {r} /\ run'.cur = r /\ run'.phase = "source"
      /\ run'.failed = run.failed /\ run'.conflicts = run.conflicts
  BY <1>1, <1>2 DEF Run
<1>4. UNCHANGED db /\ saved' = saved /\ reviewed' = reviewed
  BY DEF NextItem, Others
<1>5. Dealt' \subseteq Dealt
  BY <1>1, <1>3, <1>4 DEF Dealt, Working, db
<1> QED
  BY <1>1, <1>3, <1>4, <1>5 DEF DoneInv, Complete, db

\* COMPLETED is the final status of a run without a failure or a conflict.
LEMMA FinishDone ==
  ASSUME IInv, DoneInv, Finish
  PROVE  DoneInv'
<1>1. /\ status \in [Op -> Status] /\ run.op \in Op /\ reviewed \in Op \cup {None}
      /\ status[run.op] = "RUNNING" /\ run.phase = "next" /\ run.todo = {}
  BY DEF Finish, DoneInv, IInv, RunInv, TypeOK
<1>2. /\ status' = [status EXCEPT ![run.op] = FinalStatus] /\ rows' = rows
      /\ saved' = [InMemory EXCEPT !.status = status'] /\ run'.phase = "idle"
      /\ reviewed' = reviewed /\ catalog' = catalog /\ history' = history
  BY DEF Finish, NotRunning, Others
<1>3. saved' = InMemory' /\ saved'.status = status' /\ saved'.rows = rows
  BY <1>2 DEF InMemory
<1>4. FinalStatus = "COMPLETED" => \A r \in DOMAIN rows[run.op] :
                                     rows[run.op][r].result \in Verified
  BY <1>1 DEF FinalStatus, DoneInv, Dealt, Working
<1>5. Complete(status', rows)
  BY <1>1, <1>2, <1>4 DEF DoneInv, Complete
<1>6. reviewed # None => status'[reviewed] = "PLANNED"
  BY <1>1, <1>2 DEF DoneInv
<1> QED
  BY <1>2, <1>3, <1>5, <1>6 DEF DoneInv, Complete

\* A new plan is not complete.
LEMMA BuildPlanDone ==
  ASSUME IInv, DoneInv, NEW o \in Op, NEW S \in SUBSET RelPath, BuildPlan(o, S)
  PROVE  DoneInv'
<1>1. PICK new : rows' = [rows EXCEPT ![o] = new]
  BY DEF BuildPlan
<1>2. /\ status \in [Op -> Status] /\ rows \in [Op -> Rows] /\ status[o] = "NONE"
      /\ status' = [status EXCEPT ![o] = "PLANNED"] /\ saved = InMemory
      /\ saved' = [saved EXCEPT !.rows = rows', !.status = status']
      /\ reviewed' = o /\ run' = run /\ catalog' = catalog /\ history' = history
  BY DEF BuildPlan, NoWriter, IInv, TypeOK
<1>3. \A p \in Op : /\ p # o => rows'[p] = rows[p] /\ status'[p] = status[p]
                    /\ p = o => status'[p] = "PLANNED"
  BY <1>1, <1>2
<1>4. saved' = InMemory' /\ saved'.status = status' /\ saved'.rows = rows'
  BY <1>2 DEF InMemory
<1>5. Complete(status', rows')
  BY <1>3 DEF DoneInv, Complete
<1>6. run.phase # "idle" => run.op \in Op /\ run.op # o
  BY <1>2 DEF IInv, RunInv
<1>7. run.phase # "idle" => rows'[run.op] = rows[run.op] /\ status'[run.op] = status[run.op]
  BY <1>3, <1>6
<1>8. run.phase # "idle" => Dealt' = Dealt
  BY <1>2, <1>7 DEF Dealt, Working
<1> QED
  BY <1>2, <1>3, <1>4, <1>5, <1>7, <1>8 DEF DoneInv, Complete

\* Every step keeps completed operations verified.
LEMMA StepDoneInv == IInv /\ DoneInv /\ [Next]_vars => DoneInv'
<1> SUFFICES ASSUME IInv, DoneInv, [Next]_vars PROVE DoneInv'
  OBVIOUS
<1>1. run \in Run
  BY DEF IInv, TypeOK
<1>2. ASSUME Working, Others, UNCHANGED <<db, saved>>,
             \/ \E ph \in {"destination", "copy", "copying", "shadowing", "verify"} : Advance(ph)
             \/ \E out \in Verified : Accept(out)
      PROVE  DoneInv'
  BY <1>1, <1>2, ItemDone DEF Advance, Accept, Run
<1>3. ASSUME Working, Others, NEW res \in Result, Reject(res) PROVE DoneInv'
  BY <1>3, RejectDone
<1>4. CASE HashSource \/ LookAtDestination \/ CopyBegin \/ CopyEnd \/ CopyFails \/ VerifyDestination
  <2>1. /\ Working /\ Others
        /\ \/ \E ph \in {"destination", "copy", "copying", "shadowing", "verify"} : Advance(ph)
           \/ \E out \in Verified : Accept(out)
           \/ \E res \in Result : Reject(res)
    BY <1>4 DEF HashSource, LookAtDestination, CopyBegin, CopyEnd, CopyFails, VerifyDestination,
       Working, Result, Verified
  <2> QED
    BY <1>2, <1>3, <2>1 DEF Advance, Accept
<1>5. CASE StatAndRegister
  <2>1. CASE Reject("FAILED")
    BY <1>3, <1>5, <2>1 DEF StatAndRegister, Working, Result
  <2>2. CASE saved' = InMemory /\ run' = [run EXCEPT !.phase = "record"] /\ UNCHANGED db
    BY <1>1, <1>5, <2>2, ItemDone DEF StatAndRegister, Working, Run
  <2> QED
    BY <1>5, <2>1, <2>2 DEF StatAndRegister
<1>6. CASE Crash
  <2>1. /\ rows' = saved.rows /\ status' = saved.status /\ saved' = saved /\ reviewed' = None
        /\ run'.phase = "idle" /\ catalog' = saved.catalog /\ history' = saved.history
    BY <1>6 DEF Crash, NotRunning
  <2>2. saved' = InMemory'
    BY <2>1 DEF InMemory, IInv, TypeOK
  <2> QED
    BY <2>1, <2>2 DEF DoneInv, Complete
<1>7. ASSUME run' = run, UNCHANGED db, reviewed' \in {reviewed, None}, saved' = saved
      PROVE  DoneInv'
  BY <1>7, DoneUnchanged
<1>8. ASSUME NEW p \in Place, NEW c \in Content \cup {Absent}, UserEdit(p, c) PROVE DoneInv'
  BY <1>7, <1>8 DEF UserEdit
<1>9. CASE RefusePlan \/ RefreshVolumes \/ \E v \in Vol : Unplug(v) \/ PlugIn(v)
  BY <1>7, <1>9 DEF RefusePlan, RefreshVolumes, Unplug, PlugIn
<1>10. CASE UNCHANGED vars
  BY <1>7, <1>10 DEF vars
<1> QED
  BY <1>4, <1>5, <1>6, <1>8, <1>9, <1>10, BuildPlanDone, StartDone, NextItemDone, RecordDone,
     FinishDone DEF Next, Worker

\* What a COMPLETED plan copied has an active backup row, so that no answer of
\* the reconciliation lists it again.
THEOREM CopyCompletedIsReconciled == Spec => []CompletedIsReconciled
<1>1. IInv /\ TruthInv /\ DoneInv => CompletedIsReconciled
  <2> SUFFICES ASSUME IInv, TruthInv, DoneInv, NEW o \in Op, status[o] = "COMPLETED",
                      NEW S \in SUBSET RelPath,
                      IsMainOnly(S, ActiveSide("main"), ActiveSide("back")),
                      NEW r \in S \cap DOMAIN rows[o]
               PROVE  FALSE
    BY DEF CompletedIsReconciled
  <2>1. rows[o][r].result \in Verified /\ r \in RelPath
    BY DEF DoneInv, Complete
  <2>2. catalog[<<"back", r>>] = [asset |-> rows[o][r].asset, missing |-> FALSE]
    BY <2>1 DEF TruthInv, Truthful
  <2>3. rows[o][r].asset \in Content
    <3>1. rows[o] \in Rows
      BY DEF IInv, TypeOK
    <3> QED
      BY <3>1 DEF Rows, Row
  <2>4. ActiveSide("back")[r] = rows[o][r].asset
    BY <2>1, <2>2 DEF ActiveSide
  <2>5. r \in Present(ActiveSide("back"))
    BY <2>1, <2>3, <2>4, ReconcileConstants DEF Present
  <2> QED
    BY <2>5 DEF IsMainOnly
<1> QED
  BY <1>1, Invariance, InitTruthInv, StepTruthInv, InitDoneInv, StepDoneInv, PTL DEF Spec
===============================================================================
