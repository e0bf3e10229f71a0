--------------------------- MODULE QuarantineProofs ---------------------------
(***************************************************************************)
(* Proofs about Quarantine, for every set of volumes, paths, contents and  *)
(* operations, every plan length and any number of edits and crashes.      *)
(***************************************************************************)
EXTENDS Quarantine, TLAPS

\* What is true of the locals of a run between any two of its steps: the item
\* it works on is a row of its operation, and the files it moves are where
\* its checks saw them unless somebody touched one since.
RunInv ==
  /\ run.kind = "idle" <=> run.phase = "idle"
  /\ run.kind # "idle" =>
       /\ run.op \in Op
       /\ run.target \in AnyOp
       /\ status[run.op] # "NONE"
       /\ run.todo \subseteq DOMAIN items[run.op]
       /\ run.kind = "quarantine" => run.target = run.op
       /\ run.kind = "undo" => run.target \in Undo
  /\ run.phase \notin {"idle", "next"} => run.cur \in DOMAIN items[run.op]

MoveInv ==
  late = {} =>
    /\ run.phase = "move" => file[To] = Absent
    /\ run.phase = "copying" => file[To] = Torn
    /\ run.phase = "unlink" => file[To] = file[From]

IInv == TypeOK /\ RunInv /\ MoveInv

-------------------------------------------------------------------------------
\* Writing one result leaves a journal a journal, with the same rows about
\* the same assets and paths.
LEMMA ResultUpdate ==
  ASSUME NEW J \in Journal, NEW t, NEW r, NEW res \in Result
  PROVE  LET K == WithResult(J, t, r, res) IN
         /\ K \in Journal
         /\ \A o \in AnyOp : DOMAIN K[o] = DOMAIN J[o]
         /\ \A o \in AnyOp : \A i \in DOMAIN J[o] :
              K[o][i].asset = J[o][i].asset /\ K[o][i].loc = J[o][i].loc
                /\ K[o][i].place = J[o][i].place
<1> DEFINE K == WithResult(J, t, r, res)
<1>1. \A o \in AnyOp : K[o] = IF o = t THEN [J[o] EXCEPT ![r].result = res] ELSE J[o]
  BY DEF Journal, WithResult
<1>2. ASSUME NEW s \in Seq(Item)
      PROVE  /\ [s EXCEPT ![r].result = res] \in Seq(Item)
             /\ DOMAIN [s EXCEPT ![r].result = res] = DOMAIN s
             /\ \A i \in DOMAIN s : [s EXCEPT ![r].result = res][i] =
                  IF i = r THEN [s[i] EXCEPT !.result = res] ELSE s[i]
  <2> DEFINE u == [s EXCEPT ![r].result = res]
  <2>1. s \in [1..Len(s) -> Item] /\ Len(s) \in Nat
    OBVIOUS
  <2>2. DOMAIN u = 1..Len(s)
    BY <2>1
  <2>3. \A i \in 1..Len(s) : u[i] = IF i = r THEN [s[i] EXCEPT !.result = res] ELSE s[i]
    BY <2>1
  <2>4. \A i \in 1..Len(s) : u[i] \in Item
    BY <2>1, <2>3 DEF Item
  <2>5. u = [i \in 1..Len(s) |-> u[i]]
    BY <2>1, <2>2
  <2> HIDE DEF u
  <2>6. u \in [1..Len(s) -> Item]
    BY <2>4, <2>5
  <2>7. u \in Seq(Item)
    BY <2>1, <2>6
  <2> QED
    BY <2>1, <2>2, <2>3, <2>7 DEF u
<1>3. \A o \in AnyOp : J[o] \in Seq(Item)
  BY DEF Journal
<1>4. K \in Journal
  <2>1. \A o \in AnyOp : K[o] \in Seq(Item)
    BY <1>1, <1>2, <1>3
  <2>2. QED
    BY <2>1 DEF Journal, WithResult
<1>5. \A o \in AnyOp : DOMAIN K[o] = DOMAIN J[o]
  BY <1>1, <1>2, <1>3
<1>6. \A o \in AnyOp : \A i \in DOMAIN J[o] : J[o][i] \in Item
  BY <1>3
<1>7. \A o \in AnyOp : \A i \in DOMAIN J[o] :
        K[o][i] = IF o = t /\ i = r THEN [J[o][i] EXCEPT !.result = res] ELSE J[o][i]
  <2> TAKE o \in AnyOp
  <2> TAKE i \in DOMAIN J[o]
  <2>1. CASE o = t
    <3>1. K[o] = [J[o] EXCEPT ![r].result = res]
      BY <1>1, <2>1
    <3>2. QED
      BY <1>2, <1>3, <2>1, <3>1
  <2>2. CASE o # t
    <3>1. K[o] = J[o]
      BY <1>1, <2>2
    <3>2. QED
      BY <2>2, <3>1
  <2> QED
    BY <2>1, <2>2
<1>8. \A o \in AnyOp : \A i \in DOMAIN J[o] :
        K[o][i].asset = J[o][i].asset /\ K[o][i].loc = J[o][i].loc
          /\ K[o][i].place = J[o][i].place
  BY <1>6, <1>7 DEF Item
<1> QED
  BY <1>4, <1>5, <1>8

\* The item of a run is a row of the journal, and its two ends are different
\* places: one on a volume, the other in quarantine.
LEMMA Ends ==
  ASSUME IInv, run.phase \notin {"idle", "next"}
  PROVE  Current \in Item /\ From \in Place /\ To \in Place /\ From # To
<1>1. run.op \in AnyOp /\ run.cur \in DOMAIN items[run.op]
  BY DEF IInv, RunInv, AnyOp
<1>2. Current \in Item
  BY <1>1 DEF IInv, TypeOK, Journal, Current
<1>3. Current.loc \in Loc /\ Current.place \in QLoc
  BY <1>2 DEF Item
<1>4. Current.loc # Current.place
  BY <1>3, QuarantineConstants DEF Loc, QLoc
<1> QED
  BY <1>2, <1>3, <1>4 DEF From, To, Place

\* Settling an item keeps the journal and the run well formed.
LEMMA SettleKeeps ==
  ASSUME IInv, run.phase \notin {"idle", "next"}, status' = status,
         NEW res \in Result, Settle(res)
  PROVE  items' \in Journal /\ run' \in Run /\ RunInv' /\ run'.phase = "next"
<1>1. /\ items' \in Journal
      /\ \A o \in AnyOp : DOMAIN items'[o] = DOMAIN items[o]
  <2>1. items \in Journal
    BY DEF IInv, TypeOK
  <2>2. items' = WithResult(items, run.target, run.row, res)
    BY DEF Settle
  <2> QED
    BY <2>1, <2>2, ResultUpdate
<1>2. run \in Run
  BY DEF IInv, TypeOK
<1>3. \E v \in Nat, c \in Nat, f \in Nat :
        run' = [run EXCEPT !.phase = "next", !.verified = v, !.conflicts = c, !.failed = f]
  <2> DEFINE v == run.verified +
                    (IF res \in {"QUARANTINED", "RESTORED", "ALREADY_RESTORED"} THEN 1 ELSE 0)
             c == run.conflicts + (IF res = "CONFLICT" THEN 1 ELSE 0)
             f == run.failed +
                    (IF res \in {"SOURCE_CHANGED", "FAILED", "QUARANTINE_FAILED_VERIFICATION",
                                 "UNDO_FAILED_VERIFICATION"} THEN 1 ELSE 0)
  <2>1. run.verified \in Nat /\ run.conflicts \in Nat /\ run.failed \in Nat
    BY <1>2 DEF Run
  <2>2. v \in Nat /\ c \in Nat /\ f \in Nat
    BY <2>1
  <2>3. run' = [run EXCEPT !.phase = "next", !.verified = v, !.conflicts = c, !.failed = f]
    BY DEF Settle
  <2> HIDE DEF v, c, f
  <2> QED
    BY <2>2, <2>3
<1>4. /\ run' \in Run /\ run'.phase = "next"
      /\ run'.kind = run.kind /\ run'.op = run.op /\ run'.target = run.target
      /\ run'.todo = run.todo
  BY <1>2, <1>3 DEF Run
<1> QED
  BY <1>1, <1>4 DEF IInv, RunInv, AnyOp

\* Going on to the next phase of an item changes neither the item nor its ends.
LEMMA AdvanceKeeps ==
  ASSUME IInv, run.phase \notin {"idle", "next"},
         NEW ph \in {"move", "copying", "unlink", "verify"}, Advance(ph)
  PROVE  /\ run' \in Run /\ RunInv' /\ run'.phase = ph
         /\ Current' = Current /\ From' = From /\ To' = To
         /\ catalog' = catalog /\ items' = items /\ status' = status
<1>1. run \in Run
  BY DEF IInv, TypeOK
<1>2. /\ run' \in Run /\ run'.phase = ph /\ run'.kind = run.kind /\ run'.op = run.op
      /\ run'.target = run.target /\ run'.todo = run.todo /\ run'.cur = run.cur
  BY <1>1 DEF Advance, Run
<1>3. catalog' = catalog /\ items' = items /\ status' = status
  BY DEF Advance, db
<1> QED
  BY <1>2, <1>3 DEF IInv, RunInv, Current, From, To

\* Marking the item's path keeps the catalog well formed.
LEMMA SetMissingKeeps ==
  ASSUME IInv, NEW flag \in BOOLEAN, SetMissing(flag)
  PROVE  catalog' \in Catalog
BY DEF IInv, TypeOK, Catalog, SetMissing

-------------------------------------------------------------------------------
\* A freshly scanned catalog satisfies the inductive invariant.
LEMMA InitIInv == Init => IInv
<1> SUFFICES ASSUME Init PROVE IInv
  OBVIOUS
<1>1. file \in [Place -> FileState] /\ \A l \in Loc : file[l] \in Content \cup {Absent}
  BY DEF Init, FileState, Place
<1>2. catalog \in Catalog
  BY <1>1 DEF Init, Catalog
<1>3. items \in Journal
  BY DEF Init, Journal
<1>4. status \in [AnyOp -> Status]
  BY DEF Init, Status
<1>5. run \in Run /\ run.kind = "idle" /\ run.phase = "idle"
  BY DEF Init, NotRunning, Run
<1>6. TypeOK
  BY <1>1, <1>2, <1>3, <1>4, <1>5 DEF TypeOK, Init, InMemory
<1> QED
  BY <1>5, <1>6 DEF IInv, RunInv, MoveInv

-------------------------------------------------------------------------------
\* One lemma per action: what it does to the inductive invariant.
LEMMA BuildPlanIInv ==
  ASSUME IInv, NEW o \in Op, NEW paths \in Listings, BuildPlan(o, paths)
  PROVE  IInv'
<1>1. PICK n \in 1..MaxItems : paths \in [1..n -> Loc]
  BY DEF Listings
<1>2. \A i \in 1..n : PlanRow(o, paths[i]) \in Item
  <2> TAKE i \in 1..n
  <2>1. paths[i] \in Loc /\ Catalogued(paths[i])
    BY <1>1 DEF BuildPlan
  <2>2. catalog[paths[i]].asset \in Content
    BY <2>1 DEF IInv, TypeOK, Catalog, Catalogued
  <2>3. <<o, paths[i][2]>> \in QLoc
    BY <2>1 DEF Loc, QLoc
  <2> QED
    BY <2>1, <2>2, <2>3 DEF PlanRow, Item, Result
<1>3. n \in Nat /\ DOMAIN paths = 1..n
  BY <1>1, QuarantineConstants
<1>4. [i \in DOMAIN paths |-> PlanRow(o, paths[i])] \in Seq(Item)
  BY <1>2, <1>3
<1>5. items' \in Journal
  BY <1>4 DEF BuildPlan, IInv, TypeOK, Journal
<1>6. \A p \in AnyOp : p # o => items'[p] = items[p] /\ status'[p] = status[p]
  BY DEF BuildPlan, IInv, TypeOK, Journal
<1>7. status' \in [AnyOp -> Status] /\ status[o] = "NONE"
  BY DEF BuildPlan, IInv, TypeOK, Status
<1>8. TypeOK'
  BY <1>5, <1>7 DEF BuildPlan, IInv, TypeOK
<1>9. run' = run /\ late' = late /\ file' = file
  BY DEF BuildPlan
<1>10. RunInv'
  BY <1>6, <1>7, <1>9 DEF IInv, RunInv, AnyOp
<1>11. run.phase \notin {"idle", "next"} => Current' = Current
  BY <1>6, <1>7, <1>9 DEF Current, IInv, RunInv, AnyOp
<1>12. MoveInv'
  BY <1>9, <1>11 DEF IInv, MoveInv, From, To
<1> QED
  BY <1>8, <1>10, <1>12 DEF IInv

\* A run starts with the rows of the reviewed plan still to do.
LEMMA StartExecuteIInv ==
  ASSUME IInv, StartExecute
  PROVE  IInv'
<1>1. reviewed \in Op
  BY DEF IInv, TypeOK, StartExecute
<1>2. /\ run' = [NotRunning EXCEPT !.kind = "quarantine", !.op = reviewed,
                   !.target = reviewed, !.todo = DOMAIN items[reviewed], !.phase = "next"]
      /\ items' = items /\ late' = late /\ file' = file
  BY DEF StartExecute
<1>3. DOMAIN items[reviewed] \subseteq Nat
  BY <1>1 DEF IInv, TypeOK, Journal, AnyOp
<1>4. run' \in Run /\ run'.kind = "quarantine" /\ run'.op = reviewed
      /\ run'.target = reviewed /\ run'.todo = DOMAIN items[reviewed] /\ run'.phase = "next"
  BY <1>1, <1>2, <1>3 DEF NotRunning, Run, AnyOp
<1>5. status' \in [AnyOp -> Status] /\ status'[reviewed] # "NONE"
  BY <1>1 DEF StartExecute, IInv, TypeOK, Status, AnyOp
<1>6. TypeOK'
  BY <1>4, <1>5 DEF StartExecute, IInv, TypeOK
<1> QED
  BY <1>1, <1>2, <1>4, <1>5, <1>6 DEF IInv, RunInv, MoveInv, AnyOp

\* An undo starts with the quarantined rows of its operation still to do.
LEMMA StartUndoIInv ==
  ASSUME IInv, NEW o \in Op, NEW u \in Undo, StartUndo(o, u)
  PROVE  IInv'
<1> DEFINE rows == {i \in DOMAIN items[o] : items[o][i].result = "QUARANTINED"}
<1>1. /\ run' = [NotRunning EXCEPT !.kind = "undo", !.op = o, !.target = u,
                   !.todo = rows, !.phase = "next"]
      /\ items' = items /\ late' = late /\ file' = file
  BY DEF StartUndo
<1>2. DOMAIN items[o] \subseteq Nat
  BY DEF IInv, TypeOK, Journal, AnyOp
<1>3. rows \subseteq DOMAIN items[o]
  OBVIOUS
<1> HIDE DEF rows
<1>4. run' \in Run /\ run'.kind = "undo" /\ run'.op = o
      /\ run'.target = u /\ run'.todo = rows /\ run'.phase = "next"
  BY <1>1, <1>2, <1>3 DEF NotRunning, Run, AnyOp
<1>5. status' \in [AnyOp -> Status] /\ status'[o] # "NONE"
  BY QuarantineConstants DEF StartUndo, IInv, TypeOK, Status, AnyOp
<1>6. TypeOK'
  BY <1>4, <1>5 DEF StartUndo, IInv, TypeOK
<1> QED
  BY <1>1, <1>3, <1>4, <1>5, <1>6 DEF IInv, RunInv, MoveInv, AnyOp

\* The next item is a row of the operation; undo appends one of its own.
LEMMA NextItemIInv ==
  ASSUME IInv, NextItem
  PROVE  IInv'
<1>1. run \in Run /\ run.phase = "next" /\ run.kind # "idle" /\ run.op \in Op
      /\ run.target \in AnyOp /\ run.todo \subseteq DOMAIN items[run.op]
      /\ status[run.op] # "NONE" /\ items \in Journal
      /\ (run.kind = "quarantine" => run.target = run.op)
      /\ (run.kind = "undo" => run.target \in Undo)
  BY DEF IInv, RunInv, TypeOK, NextItem
<1>2. PICK i \in run.todo :
        IF run.kind = "undo"
        THEN /\ items' = [items EXCEPT ![run.target] =
                             Append(@, [items[run.op][i] EXCEPT !.result = "PLANNED"])]
             /\ run' = [run EXCEPT !.todo = @ \ {i}, !.cur = i, !.phase = "check",
                                   !.row = Len(items[run.target]) + 1]
        ELSE /\ items' = items
             /\ \E r \in DOMAIN items[run.op] :
                   run' = [run EXCEPT !.todo = @ \ {i}, !.cur = i, !.phase = "check", !.row = r]
  BY DEF NextItem
<1>3. run.op \in AnyOp /\ i \in DOMAIN items[run.op] /\ items[run.op] \in Seq(Item)
      /\ items[run.target] \in Seq(Item)
  BY <1>1, <1>2 DEF Journal, AnyOp
<1>4. i \in Nat /\ items[run.op][i] \in Item /\ Len(items[run.target]) + 1 \in Nat
      /\ DOMAIN items[run.op] \subseteq Nat
  BY <1>3
<1>5. items' \in Journal /\ items'[run.op] = items[run.op]
  <2>1. CASE run.kind = "undo"
    <3>1. [items[run.op][i] EXCEPT !.result = "PLANNED"] \in Item
      BY <1>4 DEF Item, Result
    <3>2. Append(items[run.target], [items[run.op][i] EXCEPT !.result = "PLANNED"]) \in Seq(Item)
      BY <1>3, <3>1
    <3>3. run.target # run.op
      BY <1>1, <2>1, QuarantineConstants
    <3>4. QED
      BY <1>1, <1>2, <1>3, <2>1, <3>2, <3>3 DEF Journal
  <2>2. CASE run.kind # "undo"
    BY <1>1, <1>2, <2>2
  <2> QED
    BY <2>1, <2>2
<1>6. PICK r \in Nat :
        run' = [run EXCEPT !.todo = @ \ {i}, !.cur = i, !.phase = "check", !.row = r]
  BY <1>2, <1>4
<1>7. run' \in Run /\ run'.kind = run.kind /\ run'.op = run.op /\ run'.target = run.target
      /\ run'.todo = run.todo \ {i} /\ run'.cur = i /\ run'.phase = "check"
  BY <1>1, <1>4, <1>6 DEF Run
<1>8. late' = {} /\ file' = file /\ status' = status
  BY DEF NextItem
<1>9. TypeOK'
  BY <1>5, <1>7, <1>8 DEF NextItem, IInv, TypeOK
<1> QED
  BY <1>1, <1>3, <1>5, <1>7, <1>8, <1>9 DEF IInv, RunInv, MoveInv

\* After the checks the destination of the item is empty.
LEMMA CheckItemIInv ==
  ASSUME IInv, CheckItem
  PROVE  IInv'
<1>1. run.phase \notin {"idle", "next"} /\ status' = status /\ late' = {} /\ file' = file
  BY DEF CheckItem, Others
<1>2. CASE \E res \in Result : Settle(res) /\ (UNCHANGED catalog \/ SetMissing(FALSE))
  <2>1. items' \in Journal /\ run' \in Run /\ RunInv' /\ run'.phase = "next"
    BY <1>1, <1>2, SettleKeeps
  <2>2. catalog' \in Catalog
    BY <1>2, SetMissingKeeps DEF IInv, TypeOK
  <2> QED
    BY <1>1, <2>1, <2>2 DEF CheckItem, Others, IInv, TypeOK, MoveInv
<1>3. CASE Advance("move") /\ file[To] = Absent
  <2>1. run' \in Run /\ RunInv' /\ run'.phase = "move" /\ To' = To
        /\ catalog' = catalog /\ items' = items
    BY <1>1, <1>3, AdvanceKeeps
  <2> QED
    BY <1>1, <1>3, <2>1 DEF CheckItem, Others, IInv, TypeOK, MoveInv
<1> QED
  BY <1>2, <1>3 DEF CheckItem, Result

\* A rename puts a file where nothing was.
LEMMA RenameIInv ==
  ASSUME IInv, Rename
  PROVE  IInv'
<1>1. run.phase \notin {"idle", "next"} /\ Advance("verify")
      /\ file' = [file EXCEPT ![To] = file[From], ![From] = Absent]
  BY DEF Rename
<1>2. run' \in Run /\ RunInv' /\ run'.phase = "verify" /\ catalog' = catalog /\ items' = items
  BY <1>1, AdvanceKeeps
<1>3. From \in Place /\ To \in Place
  BY <1>1, Ends
<1>4. file' \in [Place -> FileState]
  BY <1>1, <1>3 DEF IInv, TypeOK, FileState
<1> QED
  BY <1>2, <1>4 DEF Rename, Others, IInv, TypeOK, MoveInv

\* A copy begins with a torn file where nothing was.
LEMMA CopyBeginIInv ==
  ASSUME IInv, CopyBegin
  PROVE  IInv'
<1>1. run.phase \notin {"idle", "next"} /\ Advance("copying")
      /\ file' = [file EXCEPT ![To] = Torn]
  BY DEF CopyBegin
<1>2. run' \in Run /\ RunInv' /\ run'.phase = "copying" /\ To' = To
      /\ catalog' = catalog /\ items' = items
  BY <1>1, AdvanceKeeps
<1>3. To \in Place
  BY <1>1, Ends
<1>4. file' \in [Place -> FileState] /\ file'[To] = Torn
  BY <1>1, <1>3 DEF IInv, TypeOK, FileState
<1> QED
  BY <1>2, <1>4 DEF CopyBegin, Others, IInv, TypeOK, MoveInv

\* A copy of a source nobody touched is that source.
LEMMA CopyEndIInv ==
  ASSUME IInv, CopyEnd
  PROVE  IInv'
<1>1. run.phase \notin {"idle", "next"} /\ Advance("unlink")
  BY DEF CopyEnd
<1>2. PICK c \in (IF From \in late THEN Content \cup {Torn} ELSE {file[From]}) :
        file' = [file EXCEPT ![To] = c]
  BY DEF CopyEnd
<1>3. run' \in Run /\ RunInv' /\ run'.phase = "unlink" /\ To' = To /\ From' = From
      /\ catalog' = catalog /\ items' = items
  BY <1>1, AdvanceKeeps
<1>4. From \in Place /\ To \in Place /\ From # To
  BY <1>1, Ends
<1>5. c \in FileState
  BY <1>4, <1>2 DEF IInv, TypeOK, FileState
<1>6. file' \in [Place -> FileState]
  BY <1>2, <1>4, <1>5 DEF IInv, TypeOK
<1>7. late = {} => file'[To] = file'[From]
  BY <1>2, <1>4 DEF IInv, TypeOK
<1> QED
  BY <1>3, <1>6, <1>7 DEF CopyEnd, Others, IInv, TypeOK, MoveInv

\* The source goes when the copy is there.
LEMMA UnlinkIInv ==
  ASSUME IInv, Unlink
  PROVE  IInv'
<1>1. run.phase \notin {"idle", "next"} /\ Advance("verify")
      /\ file' = [file EXCEPT ![From] = Absent]
  BY DEF Unlink
<1>2. run' \in Run /\ RunInv' /\ run'.phase = "verify" /\ catalog' = catalog /\ items' = items
  BY <1>1, AdvanceKeeps
<1>3. file' \in [Place -> FileState]
  BY <1>1 DEF IInv, TypeOK, FileState
<1> QED
  BY <1>2, <1>3 DEF Unlink, Others, IInv, TypeOK, MoveInv

\* A failed move settles the item and leaves the files.
LEMMA MoveFailsIInv ==
  ASSUME IInv, MoveFails
  PROVE  IInv'
<1>1. run.phase \notin {"idle", "next"} /\ status' = status /\ Settle("FAILED")
  BY DEF MoveFails, Others
<1>2. items' \in Journal /\ run' \in Run /\ RunInv' /\ run'.phase = "next"
  BY <1>1, SettleKeeps DEF Result
<1> QED
  BY <1>2 DEF MoveFails, Others, IInv, TypeOK, MoveInv

\* Verification settles the item.
LEMMA VerifyItemIInv ==
  ASSUME IInv, VerifyItem
  PROVE  IInv'
<1>1. run.phase \notin {"idle", "next"} /\ status' = status
  BY DEF VerifyItem, Others
<1>2. \E res \in Result : Settle(res)
  BY DEF VerifyItem, Result
<1>3. items' \in Journal /\ run' \in Run /\ RunInv' /\ run'.phase = "next"
  BY <1>1, <1>2, SettleKeeps
<1>4. catalog' \in Catalog
  BY SetMissingKeeps DEF VerifyItem, IInv, TypeOK
<1>5. unread' \subseteq QLoc
  <2>1. run.kind = "quarantine" => To \in QLoc
    BY <1>1, Ends DEF To, Item
  <2> QED
    BY <2>1 DEF VerifyItem, Unreadable, IInv, TypeOK
<1> QED
  BY <1>3, <1>4, <1>5 DEF VerifyItem, Others, IInv, TypeOK, MoveInv

\* The final commit leaves no run.
LEMMA FinishIInv ==
  ASSUME IInv, Finish
  PROVE  IInv'
<1>1. run' \in Run /\ run'.kind = "idle" /\ run'.phase = "idle"
  BY DEF Finish, NotRunning, Run
<1>2. status' \in [AnyOp -> Status]
  BY DEF Finish, FinalStatus, IInv, TypeOK, Status
<1>3. TypeOK'
  BY <1>1, <1>2 DEF Finish, IInv, TypeOK
<1> QED
  BY <1>1, <1>3 DEF IInv, RunInv, MoveInv

\* What a crash reads back was well formed when it was committed.
LEMMA CrashIInv ==
  ASSUME IInv, Crash
  PROVE  IInv'
<1>1. run' \in Run /\ run'.kind = "idle" /\ run'.phase = "idle"
  BY DEF Crash, NotRunning, Run
<1>2. TypeOK'
  BY <1>1 DEF Crash, IInv, TypeOK
<1> QED
  BY <1>1, <1>2 DEF IInv, RunInv, MoveInv

\* A user edit between check and move is remembered in late.
LEMMA UserEditIInv ==
  ASSUME IInv, NEW p \in Place, NEW c \in Content \cup {Absent}, UserEdit(p, c)
  PROVE  IInv'
<1>1. items' = items /\ catalog' = catalog /\ status' = status /\ run' = run
      /\ file' = [file EXCEPT ![p] = c]
  BY DEF UserEdit, db
<1>2. TypeOK'
  BY <1>1 DEF UserEdit, IInv, TypeOK, FileState
<1>3. RunInv'
  BY <1>1 DEF IInv, RunInv
<1>4. MoveInv'
  BY <1>1 DEF UserEdit, MoveInv
<1> QED
  BY <1>2, <1>3, <1>4 DEF IInv

\* Every step of the system keeps the inductive invariant.
LEMMA StepIInv == IInv /\ [Next]_vars => IInv'
<1> SUFFICES ASSUME IInv, [Next]_vars PROVE IInv'
  OBVIOUS
<1>1. CASE Worker
  BY <1>1, NextItemIInv, CheckItemIInv, RenameIInv, CopyBeginIInv, CopyEndIInv, UnlinkIInv,
     MoveFailsIInv, VerifyItemIInv, FinishIInv DEF Worker
<1>2. ASSUME NEW paths \in Listings, RefusePlan(paths) PROVE IInv'
  <2>1. /\ items' = items /\ run' = run /\ late' = late /\ file' = file /\ status' = status
        /\ catalog' = catalog
    BY <1>2 DEF RefusePlan, db
  <2>2. TypeOK'
    BY <1>2, <2>1 DEF RefusePlan, IInv, TypeOK
  <2> QED
    BY <2>1, <2>2 DEF IInv, RunInv, MoveInv, From, To, Current
<1>3. CASE UNCHANGED vars
  BY <1>3 DEF vars, IInv, TypeOK, RunInv, MoveInv, From, To, Current
<1> QED
  BY <1>1, <1>2, <1>3, BuildPlanIInv, StartExecuteIInv, StartUndoIInv, CrashIInv, UserEditIInv
     DEF Next

-------------------------------------------------------------------------------
\* The inductive invariant holds throughout.
THEOREM Invariance == Spec => []IInv
BY InitIInv, StepIInv, PTL DEF Spec

\* The type invariant of the quarantine model holds in every reachable state.
THEOREM QuarantineTypeOK == Spec => []TypeOK
<1>1. IInv => TypeOK
  BY DEF IInv
<1> QED
  BY <1>1, Invariance, PTL

\* What a step of the worker does to the files: a content that was somewhere
\* is somewhere afterwards, unless an edit came between check and move.
LEMMA StepKeepsContent ==
  ASSUME IInv, [Next]_vars, run' # run, late = {},
         NEW p \in Place, file[p] \in Content
  PROVE  \E q \in Place : file'[q] = file[p]
<1>1. file \in [Place -> FileState]
  BY DEF IInv, TypeOK
<1>2. CASE file' = file
  BY <1>2
<1>3. CASE Rename
  <2>1. run.phase = "move" /\ file' = [file EXCEPT ![To] = file[From], ![From] = Absent]
    BY <1>3 DEF Rename
  <2>2. From \in Place /\ To \in Place /\ From # To /\ file[To] = Absent
    BY <2>1, Ends DEF IInv, MoveInv
  <2>3. p # To
    BY <2>2, QuarantineConstants
  <2>4. CASE p = From
    BY <1>1, <2>1, <2>2, <2>4
  <2>5. CASE p # From
    BY <1>1, <2>1, <2>2, <2>3, <2>5
  <2> QED
    BY <2>4, <2>5
<1>4. CASE CopyBegin
  <2>1. run.phase = "move" /\ file' = [file EXCEPT ![To] = Torn] /\ file[To] = Absent
    BY <1>4 DEF CopyBegin, IInv, MoveInv
  <2>2. p # To
    BY <2>1, QuarantineConstants
  <2> QED
    BY <1>1, <2>1, <2>2
<1>5. CASE CopyEnd
  <2>1. run.phase = "copying" /\ file[To] = Torn
        /\ \E c : file' = [file EXCEPT ![To] = c]
    BY <1>5 DEF CopyEnd, IInv, MoveInv
  <2>2. p # To
    BY <2>1, QuarantineConstants
  <2> QED
    BY <1>1, <2>1, <2>2
<1>6. CASE Unlink
  <2>1. run.phase = "unlink" /\ file' = [file EXCEPT ![From] = Absent] /\ file[To] = file[From]
    BY <1>6 DEF Unlink, IInv, MoveInv
  <2>2. From # To /\ To \in Place
    BY <2>1, Ends
  <2>3. CASE p = From
    BY <1>1, <2>1, <2>2, <2>3
  <2>4. CASE p # From
    BY <1>1, <2>1, <2>4
  <2> QED
    BY <2>3, <2>4
<1>7. ASSUME NEW r \in Place, NEW c, UserEdit(r, c) PROVE FALSE
  BY <1>7 DEF UserEdit
<1> QED
  BY <1>2, <1>3, <1>4, <1>5, <1>6, <1>7 DEF Next, Worker, NextItem, CheckItem, MoveFails,
     VerifyItem, Finish, BuildPlan, RefusePlan, StartExecute, StartUndo, Crash, vars

\* Neither executing nor undoing a quarantine ever loses a content, whatever
\* errors, crashes and edits happen, as long as nobody edits a file between
\* the checks of an item and its move.
THEOREM QuarantineLosesNothing == Spec => NothingLost
<1>1. IInv /\ [Next]_vars =>
        [run' # run /\ late = {} =>
           \A p \in Place : file[p] \in Content => \E q \in Place : file'[q] = file[p]]_vars
  BY StepKeepsContent
<1> QED
  BY <1>1, Invariance, PTL DEF Spec, NothingLost

-------------------------------------------------------------------------------
\* The committed journal and the one the connection sees differ in results
\* only: the rows of a quarantine operation are committed with its plan, its
\* status RUNNING before its first item.
WriteAhead ==
  /\ \A o \in Op :
       /\ saved.status[o] = status[o]
       /\ DOMAIN saved.items[o] = DOMAIN items[o]
       /\ \A i \in DOMAIN items[o] : saved.items[o][i].place = items[o][i].place
       /\ \A i \in DOMAIN items[o] : items[o][i].place[1] = o
  /\ run.kind = "quarantine" => status[run.op] = "RUNNING"

JInv == WriteAhead /\ VaultIsJournalled

\* Steps that settle an item keep the journals in agreement.
LEMMA SettleWriteAhead ==
  ASSUME IInv, WriteAhead, NEW res \in Result, Settle(res),
         status' = status, saved' = saved
  PROVE  WriteAhead'
<1>1. items \in Journal /\ run \in Run
  BY DEF IInv, TypeOK
<1>2. items' = WithResult(items, run.target, run.row, res)
  BY DEF Settle
<1>3. \A o \in AnyOp : DOMAIN items'[o] = DOMAIN items[o]
                      /\ \A i \in DOMAIN items[o] : items'[o][i].place = items[o][i].place
  BY <1>1, <1>2, ResultUpdate
<1>4. run'.kind = run.kind /\ run'.op = run.op
  BY <1>1 DEF Settle, Run
<1>5. ASSUME NEW o \in Op
      PROVE  /\ saved'.status[o] = status'[o]
             /\ DOMAIN saved'.items[o] = DOMAIN items'[o]
             /\ \A i \in DOMAIN items'[o] : saved'.items[o][i].place = items'[o][i].place
             /\ \A i \in DOMAIN items'[o] : items'[o][i].place[1] = o
  <2>1. o \in AnyOp
    BY DEF AnyOp
  <2> QED
    BY <1>3, <2>1 DEF WriteAhead
<1> QED
  BY <1>4, <1>5 DEF WriteAhead

\* A step that writes only the destination of the current item keeps the
\* quarantine directory journalled.
LEMMA WriteToKeeps ==
  ASSUME IInv, JInv, run.phase \notin {"idle", "next"}, NEW f, NEW c,
         file' = [file EXCEPT ![To] = c, ![f] = Absent] \/ file' = [file EXCEPT ![To] = c]
           \/ file' = [file EXCEPT ![f] = Absent] \/ file' = file,
         saved' = saved, touched' = touched
  PROVE  VaultIsJournalled'
<1>1. file \in [Place -> FileState]
  BY DEF IInv, TypeOK
<1>2. Current \in Item /\ run.op \in Op /\ run.cur \in DOMAIN items[run.op]
  BY Ends DEF IInv, RunInv
<1>3. SUFFICES ASSUME NEW q \in QLoc \ touched, file'[q] # Absent
               PROVE  /\ \E i \in DOMAIN saved.items[q[1]] : saved.items[q[1]][i].place = q
                      /\ saved.status[q[1]] \notin {"NONE", "PLANNED"}
  BY DEF VaultIsJournalled
<1>4. q \in Place
  BY DEF Place
<1>5. CASE q = To
  <2>1. run.kind # "undo"
    BY <1>2, <1>5, QuarantineConstants DEF To, Item, Loc, QLoc
  <2>2. run.kind = "quarantine"
    BY <2>1 DEF IInv, RunInv, TypeOK, Run
  <2>3. q = items[run.op][run.cur].place
    BY <1>5, <2>1 DEF To, Current
  <2>4. q[1] = run.op /\ saved.items[run.op][run.cur].place = q
        /\ run.cur \in DOMAIN saved.items[run.op] /\ saved.status[run.op] = "RUNNING"
    BY <1>2, <2>2, <2>3 DEF JInv, WriteAhead
  <2> QED
    BY <2>4
<1>6. CASE q # To
  <2>1. file[q] # Absent
    BY <1>1, <1>3, <1>4, <1>6
  <2> QED
    BY <2>1 DEF JInv, VaultIsJournalled
<1> QED
  BY <1>5, <1>6

\* At the start there is nothing in quarantine.
LEMMA InitJInv == Init => JInv
<1> SUFFICES ASSUME Init PROVE JInv
  OBVIOUS
<1>1. \A q \in QLoc : file[q] = Absent
  BY DEF Init
<1> QED
  BY <1>1 DEF Init, JInv, WriteAhead, VaultIsJournalled, InMemory, NotRunning, AnyOp

\* A new plan has no file in quarantine yet, and is committed.
LEMMA BuildPlanJInv ==
  ASSUME IInv, JInv, NEW o \in Op, NEW paths \in Listings, BuildPlan(o, paths)
  PROVE  JInv'
<1>1. /\ items \in Journal /\ status \in [AnyOp -> Status]
      /\ saved \in [catalog: Catalog, items: Journal, status: [AnyOp -> Status]]
  BY DEF IInv, TypeOK
<1>2. /\ items' = [items EXCEPT ![o] = [i \in DOMAIN paths |-> PlanRow(o, paths[i])]]
      /\ status' = [status EXCEPT ![o] = "PLANNED"] /\ status[o] = "NONE"
      /\ file' = file /\ touched' = touched /\ run' = run
  BY DEF BuildPlan
<1>3. saved'.items = items' /\ saved'.status = status'
  BY <1>1 DEF BuildPlan
<1>4. \A i \in DOMAIN items'[o] : items'[o][i].place[1] = o
  BY <1>1, <1>2 DEF PlanRow, Journal, AnyOp
<1>5. \A p \in AnyOp : p # o => items'[p] = items[p] /\ status'[p] = status[p]
  BY <1>1, <1>2 DEF Journal
<1>6. run.kind = "quarantine" => run.op \in Op /\ run.op # o
  BY <1>2 DEF JInv, WriteAhead, IInv, RunInv
<1>7. WriteAhead'
  <2>1. \A p \in Op : \A i \in DOMAIN items'[p] : items'[p][i].place[1] = p
    BY <1>4, <1>5 DEF JInv, WriteAhead, AnyOp
  <2>2. run'.kind = "quarantine" => status'[run'.op] = "RUNNING"
    BY <1>2, <1>5, <1>6 DEF JInv, WriteAhead, AnyOp
  <2> QED
    BY <1>3, <2>1, <2>2 DEF WriteAhead
<1>8. VaultIsJournalled'
  <2> SUFFICES ASSUME NEW q \in QLoc \ touched, file[q] # Absent
               PROVE  /\ \E i \in DOMAIN items'[q[1]] : items'[q[1]][i].place = q
                      /\ status'[q[1]] \notin {"NONE", "PLANNED"}
    BY <1>2, <1>3 DEF VaultIsJournalled
  <2>1. q[1] \in Op
    BY DEF QLoc
  <2>2. /\ \E i \in DOMAIN saved.items[q[1]] : saved.items[q[1]][i].place = q
        /\ saved.status[q[1]] \notin {"NONE", "PLANNED"}
    BY DEF JInv, VaultIsJournalled
  <2>3. q[1] # o
    BY <1>2, <2>2 DEF JInv, WriteAhead
  <2> QED
    BY <1>5, <2>1, <2>2, <2>3 DEF JInv, WriteAhead, AnyOp
<1> QED
  BY <1>7, <1>8 DEF JInv

\* RUNNING is committed before the first move.
LEMMA StartExecuteJInv ==
  ASSUME IInv, JInv, StartExecute
  PROVE  JInv'
<1>1. /\ status \in [AnyOp -> Status] /\ reviewed \in Op
      /\ saved \in [catalog: Catalog, items: Journal, status: [AnyOp -> Status]]
  BY DEF IInv, TypeOK, StartExecute
<1>2. /\ status' = [status EXCEPT ![reviewed] = "RUNNING"]
      /\ run'.kind = "quarantine" /\ run'.op = reviewed
      /\ items' = items /\ file' = file /\ touched' = touched
  BY DEF StartExecute, NotRunning
<1>3. saved'.items = saved.items /\ saved'.status = status'
  BY <1>1 DEF StartExecute
<1>4. status'[reviewed] = "RUNNING"
      /\ \A o \in Op : o # reviewed => status'[o] = saved.status[o]
  BY <1>1, <1>2 DEF JInv, WriteAhead, AnyOp
<1>5. WriteAhead'
  BY <1>2, <1>3, <1>4 DEF JInv, WriteAhead
<1>6. VaultIsJournalled'
  <2>1. \A q \in QLoc : q[1] \in Op
    BY DEF QLoc
  <2> QED
    BY <1>2, <1>3, <1>4, <2>1 DEF JInv, VaultIsJournalled
<1> QED
  BY <1>5, <1>6 DEF JInv

\* An uncommitted undo takes no committed row away.
LEMMA StartUndoJInv ==
  ASSUME IInv, JInv, NEW o \in Op, NEW u \in Undo, StartUndo(o, u)
  PROVE  JInv'
<1>1. /\ status' = [status EXCEPT ![u] = "RUNNING"] /\ run'.kind = "undo"
      /\ items' = items /\ file' = file /\ touched' = touched /\ saved' = saved
  BY DEF StartUndo, NotRunning
<1>2. \A p \in Op : status'[p] = status[p]
  BY <1>1, QuarantineConstants DEF IInv, TypeOK, AnyOp
<1> QED
  BY <1>1, <1>2 DEF JInv, WriteAhead, VaultIsJournalled

\* Going to the next item commits nothing and moves nothing.
LEMMA NextItemJInv ==
  ASSUME IInv, JInv, NextItem
  PROVE  JInv'
<1>1. run \in Run /\ run.target \in AnyOp /\ items \in Journal
      /\ (run.kind = "undo" => run.target \in Undo)
  BY DEF IInv, RunInv, TypeOK, NextItem
<1>2. \A o \in Op : items'[o] = items[o]
  BY <1>1, QuarantineConstants DEF NextItem, Journal, AnyOp
<1>3. run'.kind = run.kind /\ run'.op = run.op
  BY <1>1 DEF NextItem, Run
<1>4. status' = status /\ saved' = saved /\ file' = file /\ touched' = touched
  BY DEF NextItem
<1> QED
  BY <1>2, <1>3, <1>4 DEF JInv, WriteAhead, VaultIsJournalled

\* The steps of one item write only its own destination.
LEMMA ItemStepJInv ==
  ASSUME IInv, JInv,
         CheckItem \/ Rename \/ CopyBegin \/ CopyEnd \/ Unlink \/ MoveFails \/ VerifyItem
  PROVE  JInv'
<1>1. run.phase \notin {"idle", "next"} /\ status' = status /\ saved' = saved
      /\ touched' = touched
  BY DEF CheckItem, Rename, CopyBegin, CopyEnd, Unlink, MoveFails, VerifyItem, Others
<1>2. \/ \E res \in Result : Settle(res)
      \/ \E ph \in {"move", "copying", "unlink", "verify"} : Advance(ph)
  BY DEF CheckItem, Rename, CopyBegin, CopyEnd, Unlink, MoveFails, VerifyItem, Result
<1>3. WriteAhead'
  <2>1. CASE \E res \in Result : Settle(res)
    BY <1>1, <2>1, SettleWriteAhead DEF JInv
  <2>2. CASE \E ph \in {"move", "copying", "unlink", "verify"} : Advance(ph)
    <3>1. run \in Run
      BY DEF IInv, TypeOK
    <3>2. items' = items /\ run'.kind = run.kind /\ run'.op = run.op
      BY <2>2, <3>1 DEF Advance, db, Run
    <3> QED
      BY <1>1, <3>2 DEF JInv, WriteAhead
  <2> QED
    BY <1>2, <2>1, <2>2
<1>4. \E f, c : \/ file' = [file EXCEPT ![To] = c, ![f] = Absent]
                \/ file' = [file EXCEPT ![To] = c]
                \/ file' = [file EXCEPT ![f] = Absent]
                \/ file' = file
  BY DEF CheckItem, Rename, CopyBegin, CopyEnd, Unlink, MoveFails, VerifyItem
<1>5. VaultIsJournalled'
  BY <1>1, <1>4, WriteToKeeps
<1> QED
  BY <1>3, <1>5 DEF JInv

\* The final commit keeps every row.
LEMMA FinishJInv ==
  ASSUME IInv, JInv, Finish
  PROVE  JInv'
<1>1. /\ run \in Run /\ run.target \in AnyOp /\ status \in [AnyOp -> Status]
      /\ (run.kind = "quarantine" => run.target = run.op)
      /\ (run.kind = "undo" => run.target \in Undo) /\ run.kind # "idle" /\ run.op \in Op
  BY DEF IInv, RunInv, TypeOK, Finish
<1>2. /\ status' = [status EXCEPT ![run.target] = FinalStatus] /\ run'.kind = "idle"
      /\ saved'.items = items /\ saved'.status = status' /\ items' = items
      /\ file' = file /\ touched' = touched
  BY DEF Finish, NotRunning
<1>3. FinalStatus \notin {"NONE", "PLANNED"}
  BY DEF FinalStatus
<1>4. \A o \in Op : saved.status[o] \notin {"NONE", "PLANNED"}
                      => status'[o] \notin {"NONE", "PLANNED"}
  BY <1>1, <1>2, <1>3 DEF JInv, WriteAhead, AnyOp
<1>5. WriteAhead'
  BY <1>2 DEF JInv, WriteAhead
<1>6. VaultIsJournalled'
  <2>1. \A q \in QLoc : q[1] \in Op
    BY DEF QLoc
  <2> QED
    BY <1>2, <1>4, <2>1 DEF JInv, WriteAhead, VaultIsJournalled
<1> QED
  BY <1>5, <1>6 DEF JInv

\* Rolling back to the committed journal keeps the directory journalled.
LEMMA CrashJInv ==
  ASSUME IInv, JInv, Crash
  PROVE  JInv'
<1>1. /\ items' = saved.items /\ status' = saved.status /\ run'.kind = "idle"
      /\ saved' = saved /\ file' = file /\ touched' = touched
  BY DEF Crash, NotRunning
<1>2. WriteAhead'
  BY <1>1 DEF JInv, WriteAhead
<1> QED
  BY <1>1, <1>2 DEF JInv, VaultIsJournalled

\* What the user puts in quarantine is not the program's to journal.
LEMMA UserEditJInv ==
  ASSUME IInv, JInv, NEW p \in Place, NEW c \in Content \cup {Absent}, UserEdit(p, c)
  PROVE  JInv'
<1>1. /\ items' = items /\ status' = status /\ run' = run /\ saved' = saved
      /\ file' = [file EXCEPT ![p] = c] /\ touched' = touched \cup {p}
  BY DEF UserEdit, db
<1>2. \A q \in QLoc \ touched' : file'[q] = file[q] /\ q \in QLoc \ touched
  BY <1>1 DEF IInv, TypeOK, Place
<1> QED
  BY <1>1, <1>2 DEF JInv, WriteAhead, VaultIsJournalled

\* One step of the program or of its environment.
LEMMA StepJInv == IInv /\ JInv /\ [Next]_vars => JInv'
<1> SUFFICES ASSUME IInv, JInv, [Next]_vars PROVE JInv'
  OBVIOUS
<1>1. CASE Worker
  BY <1>1, NextItemJInv, ItemStepJInv, FinishJInv DEF Worker
<1>2. CASE UNCHANGED vars
  BY <1>2 DEF vars, JInv, WriteAhead, VaultIsJournalled
<1>3. ASSUME NEW paths \in Listings, RefusePlan(paths) PROVE JInv'
  BY <1>3 DEF RefusePlan, db, JInv, WriteAhead, VaultIsJournalled
<1> QED
  BY <1>1, <1>2, <1>3, BuildPlanJInv, StartExecuteJInv, StartUndoJInv, CrashJInv, UserEditJInv
     DEF Next

\* Whatever the program leaves in the quarantine directory, crash or no crash,
\* is named by a committed row of an operation recorded as started.
THEOREM QuarantineIsJournalled == Spec => []VaultIsJournalled
<1>1. JInv => VaultIsJournalled
  BY DEF JInv
<1> QED
  BY <1>1, StepJInv, InitJInv, Invariance, PTL DEF Spec
-------------------------------------------------------------------------------
(***************************************************************************)
(* Rows, journals and results: what the catalog says between runs, and     *)
(* what a finished operation and a finished undo have done.                *)
(***************************************************************************)
\* The rows of an operation name the asset of a path and its place in quarantine,
\* in both journals, and have no result before the operation starts.  Outside a
\* run everything is committed.
JournalInv ==
  /\ late \subseteq touched
  /\ run.kind = "idle" => saved = InMemory
  /\ reviewed # None => status[reviewed] = "PLANNED"
  /\ \A l \in Loc : saved.catalog[l].asset = catalog[l].asset
  /\ \A o \in Op :
       /\ status[o] = "NONE" => items[o] = <<>>
       /\ status[o] # "RUNNING" => saved.items[o] = items[o]
       /\ \A i \in DOMAIN items[o] :
            /\ saved.items[o][i].loc = items[o][i].loc
            /\ saved.items[o][i].asset = items[o][i].asset
            /\ items[o][i].asset = catalog[items[o][i].loc].asset
            /\ items[o][i].place = <<o, items[o][i].loc[2]>>
            /\ status[o] = "PLANNED" => items[o][i].result = "PLANNED"

\* What is at the two ends of a move, as long as nobody touches them.
EndsInv ==
  /\ run.phase = "move" => file[To] = Absent \/ To \in touched
  /\ run.phase = "copying" => file[To] = Torn \/ To \in touched
  /\ run.phase \in {"move", "copying", "unlink"} => file[From] = Current.asset \/ From \in touched
  /\ run.phase \in {"unlink", "verify"} =>
       file[To] = Current.asset \/ To \in touched \/ From \in touched

\* Places about which the catalog may be wrong.
Amiss == touched \cup unread

\* A row is good: it is not active, or its file is there, or amiss, or an
\* operation on its path is among the interrupted ones or has its place amiss.
RowIsGood(row, disk, edited, rows, interrupted, l) ==
  \/ row.asset = Absent \/ row.missing
  \/ disk[l] = row.asset
  \/ l \in edited
  \/ \E o \in Op : \E i \in DOMAIN rows[o] :
       rows[o][i].loc = l /\ (o \in interrupted \/ rows[o][i].place \in edited)

Running(stat) == {o \in Op : stat[o] = "RUNNING"}
Interrupted == Running(status) \ (IF run.kind = "quarantine" THEN {run.op} ELSE {})

\* All rows are good but that of the file a quarantine is moving.
RowsInv ==
  \A l \in Loc :
    \/ RowIsGood(catalog[l], file, Amiss, items, Interrupted, l)
    \/ /\ run.kind = "quarantine" /\ run.phase \in {"move", "copying", "unlink", "verify"}
       /\ l = Current.loc
SavedInv ==
  \A l \in Loc : RowIsGood(saved.catalog[l], file, Amiss, saved.items, Running(saved.status), l)

ActiveInv == JournalInv /\ EndsInv /\ RowsInv /\ SavedInv

\* In a quarantine whose rows can be told apart each item has a row of its own,
\* without a result before its turn; what was moved is recorded, or will be next,
\* or could not be read back and has failed.
TakenUpInv ==
  run.kind = "quarantine" /\ Unambiguous(run.op) =>
    /\ \A i \in run.todo : items[run.op][i].result = "PLANNED"
    /\ run.phase # "next" => /\ run.row = run.cur /\ run.cur \notin run.todo
                             /\ Current.result = "PLANNED"
    /\ \A i \in DOMAIN items[run.op] :
         LET it == items[run.op][i] IN
         Untouched(run.op, i) /\ file[it.place] = it.asset /\ file[it.loc] # it.asset
           => \/ \E j \in DOMAIN items[run.op] : /\ items[run.op][j].place = it.place
                                                 /\ items[run.op][j].result = "QUARANTINED"
              \/ run.phase \in {"unlink", "verify"} /\ Current.place = it.place
              \/ it.place \in unread /\ it.result = "FAILED"

\* Undo operations run only in memory until they end; one that has not failed yet
\* has put back what it has taken up.
PutBackInv ==
  /\ \A u \in Undo : /\ status[u] = "RUNNING" <=> (run.kind = "undo" /\ run.target = u)
                     /\ saved.status[u] # "RUNNING"
  /\ run.kind = "undo" => saved.status[run.target] = "NONE"
  /\ run.kind = "undo" /\ run.failed = 0 /\ run.conflicts = 0 =>
       \A i \in DOMAIN items[run.op] \ run.todo :
         LET it == items[run.op][i] IN
         it.result = "QUARANTINED" /\ Untouched(run.op, i) /\ (run.phase = "next" \/ i # run.cur)
           => file[it.loc] = it.asset /\ ~catalog[it.loc].missing

-------------------------------------------------------------------------------
\* What is true between any two steps.
AInv == IInv /\ JInv /\ ActiveInv

\* Every row of an operation is an item.
LEMMA RowType ==
  ASSUME IInv
  PROVE  \A o \in AnyOp : items[o] \in Seq(Item) /\ \A i \in DOMAIN items[o] : items[o][i] \in Item
<1>1. \A o \in AnyOp : items[o] \in Seq(Item)
  BY DEF IInv, TypeOK, Journal
<1> QED
  BY <1>1

\* A good row stays good when rows, edits and interrupted operations only
\* accumulate and the file of an active row stays, or was edited.
LEMMA GoodStays ==
  ASSUME NEW row, NEW disk, NEW disk1, NEW edited, NEW edited1, NEW rows, NEW rows1, NEW S, NEW S1,
         NEW l \in Loc,
         RowIsGood(row, disk, edited, rows, S, l),
         \A o \in Op : \A i \in DOMAIN rows[o] :
           /\ i \in DOMAIN rows1[o]
           /\ rows1[o][i].loc = rows[o][i].loc /\ rows1[o][i].place = rows[o][i].place,
         S \subseteq S1, edited \subseteq edited1,
         disk[l] = row.asset => \/ row.asset = Absent \/ disk1[l] = row.asset \/ l \in edited1
  PROVE  RowIsGood(row, disk1, edited1, rows1, S1, l)
BY DEF RowIsGood

\* Settling an item changes the result of a row of the run's own operation.
LEMMA SettleRows ==
  ASSUME IInv, run.phase \notin {"idle", "next"}, NEW res \in Result, Settle(res)
  PROVE  /\ \A o \in Op :
              /\ DOMAIN items'[o] = DOMAIN items[o]
              /\ \A i \in DOMAIN items[o] :
                   /\ items'[o][i].asset = items[o][i].asset
                   /\ items'[o][i].loc = items[o][i].loc
                   /\ items'[o][i].place = items[o][i].place
              /\ o # run.target => items'[o] = items[o]
         /\ run'.kind = run.kind /\ run'.op = run.op /\ run'.target = run.target
         /\ run'.phase = "next" /\ run'.todo = run.todo
<1>1. items \in Journal /\ run \in Run
  BY DEF IInv, TypeOK
<1>2. items' = WithResult(items, run.target, run.row, res)
  BY DEF Settle
<1>3. \A o \in Op : o \in AnyOp
  BY DEF AnyOp
<1>4. \A o \in AnyOp : o # run.target => items'[o] = items[o]
  BY <1>1, <1>2 DEF WithResult, Journal
<1>5. /\ run'.kind = run.kind /\ run'.op = run.op /\ run'.target = run.target
      /\ run'.phase = "next" /\ run'.todo = run.todo
  BY <1>1 DEF Settle, Run
<1> QED
  BY <1>1, <1>2, <1>3, <1>4, <1>5, ResultUpdate

\* The item of a run in terms of the journal.
LEMMA CurrentRow ==
  ASSUME AInv, run.phase \notin {"idle", "next"}
  PROVE  /\ run.op \in Op /\ run.cur \in DOMAIN items[run.op]
         /\ run.kind \in {"quarantine", "undo"}
         /\ Current = items[run.op][run.cur] /\ Current \in Item
         /\ Current.asset \in Content /\ Current.loc \in Loc /\ Current.place \in QLoc
         /\ Current.asset = catalog[Current.loc].asset
         /\ run.kind = "quarantine" => From = Current.loc /\ To = Current.place
         /\ run.kind = "undo" => From = Current.place /\ To = Current.loc
<1>1. run.op \in Op /\ run.cur \in DOMAIN items[run.op] /\ run.kind # "idle" /\ run \in Run
  BY DEF AInv, IInv, RunInv, TypeOK
<1>2. Current = items[run.op][run.cur] /\ Current \in Item
  BY Ends DEF AInv, Current
<1> QED
  BY <1>1, <1>2 DEF AInv, ActiveInv, JournalInv, Item, From, To, Run

\* A step of an item takes the file of an active row away only at the path a
\* quarantine is moving.
LEMMA FileStep ==
  ASSUME AInv, Rename \/ CopyBegin \/ CopyEnd \/ Unlink, NEW l \in Loc
  PROVE  \/ file'[l] = file[l] \/ l \in touched
         \/ run.kind = "quarantine" /\ l = Current.loc
         \/ run.kind = "undo" /\ file[l] \in {Absent, Torn}
<1>1. run.phase \in {"move", "copying", "unlink"}
  BY DEF Rename, CopyBegin, CopyEnd, Unlink
<1>2. file \in [Place -> FileState] /\ l \in Place /\ l \notin QLoc
  BY QuarantineConstants DEF AInv, IInv, TypeOK, Place, Loc, QLoc
<1>3. \A p \in Place : p # From /\ p # To => file'[p] = file[p]
  BY <1>2 DEF Rename, CopyBegin, CopyEnd, Unlink
<1>4. CASE run.kind = "quarantine"
  BY <1>1, <1>2, <1>3, <1>4, CurrentRow
<1>5. CASE run.kind = "undo"
  <2>1. l # From
    BY <1>1, <1>2, <1>5, CurrentRow
  <2>2. CASE l # To
    BY <1>2, <1>3, <2>1, <2>2
  <2>3. CASE l = To /\ run.phase \in {"move", "copying"}
    BY <1>5, <2>3 DEF AInv, ActiveInv, EndsInv
  <2>4. CASE l = To /\ run.phase = "unlink"
    BY <1>2, <2>1, <2>4 DEF Rename, CopyBegin, CopyEnd, Unlink
  <2> QED
    BY <1>1, <2>2, <2>3, <2>4
<1> QED
  BY <1>1, <1>4, <1>5, CurrentRow

\* The rows of the quarantine operations and their catalog keep their identity,
\* no status changes, nothing is committed: what JournalInv needs of such a step.
LEMMA JournalKeeps ==
  ASSUME AInv, status' = status, saved' = saved, reviewed' = reviewed,
         late' \subseteq touched', run.kind # "idle", run'.kind # "idle",
         \A l \in Loc : catalog'[l].asset = catalog[l].asset,
         \A o \in Op :
           /\ DOMAIN items'[o] = DOMAIN items[o]
           /\ \A i \in DOMAIN items[o] :
                /\ items'[o][i].asset = items[o][i].asset
                /\ items'[o][i].loc = items[o][i].loc
                /\ items'[o][i].place = items[o][i].place
           /\ status[o] # "RUNNING" => items'[o] = items[o]
  PROVE  JournalInv'
<1>1. /\ reviewed # None => status[reviewed] = "PLANNED"
      /\ \A l \in Loc : saved.catalog[l].asset = catalog[l].asset
      /\ \A o \in Op :
           /\ status[o] = "NONE" => items[o] = <<>>
           /\ status[o] # "RUNNING" => saved.items[o] = items[o]
           /\ \A i \in DOMAIN items[o] :
                /\ saved.items[o][i].loc = items[o][i].loc
                /\ saved.items[o][i].asset = items[o][i].asset
                /\ items[o][i].asset = catalog[items[o][i].loc].asset
                /\ items[o][i].place = <<o, items[o][i].loc[2]>>
                /\ status[o] = "PLANNED" => items[o][i].result = "PLANNED"
  BY DEF AInv, ActiveInv, JournalInv
<1>2. \A o \in Op : \A i \in DOMAIN items[o] : items[o][i].loc \in Loc
  BY RowType DEF AInv, Item, AnyOp
<1>3. \A o \in Op :
        /\ status[o] = "NONE" => items'[o] = <<>>
        /\ status[o] # "RUNNING" => saved.items[o] = items'[o]
        /\ \A i \in DOMAIN items'[o] :
             /\ saved.items[o][i].loc = items'[o][i].loc
             /\ saved.items[o][i].asset = items'[o][i].asset
             /\ items'[o][i].asset = catalog'[items'[o][i].loc].asset
             /\ items'[o][i].place = <<o, items'[o][i].loc[2]>>
             /\ status[o] = "PLANNED" => items'[o][i].result = "PLANNED"
  <2> TAKE o \in Op
  <2>1. /\ status[o] = "NONE" => items'[o] = <<>>
        /\ status[o] # "RUNNING" => saved.items[o] = items'[o]
    BY <1>1
  <2> SUFFICES ASSUME NEW i \in DOMAIN items[o]
               PROVE  /\ saved.items[o][i].loc = items'[o][i].loc
                      /\ saved.items[o][i].asset = items'[o][i].asset
                      /\ items'[o][i].asset = catalog'[items'[o][i].loc].asset
                      /\ items'[o][i].place = <<o, items'[o][i].loc[2]>>
                      /\ status[o] = "PLANNED" => items'[o][i].result = "PLANNED"
    BY <2>1
  <2> QED
    BY <1>1, <1>2
<1> QED
  BY <1>1, <1>3 DEF JournalInv

\* An item that is settled leaves the ends of its move behind.
LEMMA SettleActive ==
  ASSUME AInv, run.phase \notin {"idle", "next"}, NEW res \in Result, Settle(res), Others,
         late' \subseteq touched', file' = file, unread \subseteq unread',
         NEW flag \in BOOLEAN, UNCHANGED catalog \/ SetMissing(flag),
         UNCHANGED catalog => \/ run.kind = "undo" \/ run.phase = "check"
                              \/ RowIsGood(catalog[Current.loc], file, Amiss', items, Interrupted,
                                           Current.loc),
         SetMissing(flag) => flag \/ file[Current.loc] = Current.asset
  PROVE  ActiveInv'
<1> USE DEF AInv
<1>1. /\ status' = status /\ saved' = saved /\ reviewed' = reviewed /\ touched' = touched
  BY DEF Others
<1>2. /\ run.kind \in {"quarantine", "undo"} /\ run.op \in Op /\ run \in Run
      /\ run.kind = "quarantine" => run.target = run.op
      /\ run.kind = "undo" => run.target \in Undo
      /\ run.kind = "quarantine" => status[run.op] = "RUNNING"
  BY CurrentRow DEF IInv, RunInv, JInv, WriteAhead, TypeOK
<1>3. /\ \A o \in Op :
           /\ DOMAIN items'[o] = DOMAIN items[o]
           /\ \A i \in DOMAIN items[o] :
                /\ items'[o][i].asset = items[o][i].asset
                /\ items'[o][i].loc = items[o][i].loc
                /\ items'[o][i].place = items[o][i].place
           /\ o # run.target => items'[o] = items[o]
      /\ run'.kind = run.kind /\ run'.op = run.op /\ run'.phase = "next"
  BY SettleRows
<1>4. \A o \in Op : status[o] # "RUNNING" => items'[o] = items[o]
  <2> SUFFICES ASSUME NEW o \in Op, status[o] # "RUNNING" PROVE o # run.target
    BY <1>3
  <2> QED
    BY <1>2, QuarantineConstants
<1>5. \A l \in Loc : /\ catalog'[l].asset = catalog[l].asset
                     /\ l # Current.loc => catalog'[l] = catalog[l]
                     /\ l = Current.loc /\ SetMissing(flag) => catalog'[l].missing = flag
  BY DEF SetMissing, IInv, TypeOK, Catalog
<1>6. JournalInv'
  <2>1. run.kind # "idle" /\ run'.kind # "idle"
    BY <1>2, <1>3
  <2> QED
    BY <1>1, <1>3, <1>4, <1>5, <2>1, JournalKeeps
<1>7. EndsInv'
  BY <1>3 DEF EndsInv
<1>8. Interrupted' = Interrupted
  BY <1>1, <1>3 DEF Interrupted, Running
<1>9. \A o \in Op : \A i \in DOMAIN items[o] :
        /\ i \in DOMAIN items'[o]
        /\ items'[o][i].loc = items[o][i].loc /\ items'[o][i].place = items[o][i].place
  BY <1>3
<1>13. Amiss \subseteq Amiss'
  BY <1>1 DEF Amiss
<1>10. ASSUME NEW l \in Loc 
       PROVE  RowIsGood(catalog'[l], file', Amiss', items', Interrupted', l)
  <2>1. CASE l = Current.loc /\ SetMissing(flag)
    <3>1. catalog'[l].missing \/ file'[l] = catalog'[l].asset
      BY <1>5, <2>1, CurrentRow
    <3> QED
      BY <3>1 DEF RowIsGood
  <2>2. CASE l # Current.loc \/ UNCHANGED catalog
    <3>1. catalog'[l] = catalog[l]
      BY <1>5, <2>2
    <3>2. \/ RowIsGood(catalog[l], file, Amiss, items, Interrupted, l)
          \/ RowIsGood(catalog[l], file, Amiss', items, Interrupted, l)
      BY <2>2 DEF ActiveInv, RowsInv
    <3>3. RowIsGood(catalog[l], file', Amiss', items', Interrupted', l)
      BY <1>8, <1>9, <1>13, <3>2, GoodStays
    <3> QED
      BY <3>1, <3>3
  <2> QED
    BY <2>1, <2>2
<1>11. RowsInv'
  BY <1>10 DEF RowsInv, RowIsGood
<1>12. SavedInv'
  BY <1>1, <1>13 DEF ActiveInv, SavedInv, RowIsGood, Running
<1> QED
  BY <1>6, <1>7, <1>11, <1>12 DEF ActiveInv

\* A step of an item that only moves on keeps the journal; the ends of the
\* move are for the action to say.
LEMMA AdvanceActive ==
  ASSUME AInv, run.phase \notin {"idle", "next"}, Others, unread' = unread, late' \subseteq touched',
         NEW ph \in {"move", "copying", "unlink", "verify"}, Advance(ph),
         EndsInv',
         \A l \in Loc : \/ file'[l] = file[l] \/ l \in touched
                        \/ run.kind = "quarantine" /\ l = Current.loc
                        \/ run.kind = "undo" /\ file[l] \in {Absent, Torn}
  PROVE  ActiveInv'
<1>1. /\ status' = status /\ saved' = saved /\ reviewed' = reviewed /\ touched' = touched
      /\ catalog' = catalog /\ items' = items /\ Amiss' = Amiss
  BY DEF Others, Advance, db, Amiss
<1>2. run'.kind = run.kind /\ run'.op = run.op /\ run'.phase = ph /\ Current' = Current
  BY AdvanceKeeps DEF AInv, Advance, IInv, TypeOK, Run
<1>3. run.kind \in {"quarantine", "undo"} /\ run.op \in Op /\ run.cur \in DOMAIN items[run.op]
      /\ Current = items[run.op][run.cur]
  BY CurrentRow
<1>4. JournalInv'
  <2>1. run.kind # "idle" /\ run'.kind # "idle"
    BY <1>2, <1>3
  <2> QED
    BY <1>1, <2>1, JournalKeeps
<1>5. Interrupted' = Interrupted
  BY <1>1, <1>2 DEF Interrupted, Running
<1>6. Absent \notin Content /\ Torn \notin Content
  BY QuarantineConstants
<1>7. \A l \in Loc : /\ catalog[l].asset \in Content \cup {Absent}
                     /\ saved.catalog[l].asset = catalog[l].asset
  BY DEF AInv, IInv, TypeOK, Catalog, ActiveInv, JournalInv
<1>8. ASSUME NEW l \in Loc
      PROVE  \/ RowIsGood(catalog[l], file', Amiss, items, Interrupted, l)
             \/ run.kind = "quarantine" /\ l = Current.loc
  <2> SUFFICES ASSUME ~(run.kind = "quarantine" /\ l = Current.loc)
               PROVE  RowIsGood(catalog[l], file', Amiss, items, Interrupted, l)
    OBVIOUS
  <2>1. RowIsGood(catalog[l], file, Amiss, items, Interrupted, l)
    BY DEF AInv, ActiveInv, RowsInv
  <2>2. file[l] = catalog[l].asset =>
          \/ catalog[l].asset = Absent \/ file'[l] = catalog[l].asset \/ l \in Amiss
    BY <1>6, <1>7 DEF Amiss
  <2> QED
    BY <2>1, <2>2 DEF RowIsGood
<1>9. RowsInv'
  BY <1>1, <1>2, <1>5, <1>8 DEF RowsInv
<1>10. ASSUME NEW l \in Loc
       PROVE  RowIsGood(saved.catalog[l], file', Amiss, saved.items, Running(saved.status), l)
  <2>1. CASE run.kind = "quarantine" /\ l = Current.loc
    <3>1. /\ run.cur \in DOMAIN saved.items[run.op]
          /\ saved.items[run.op][run.cur].loc = l
          /\ saved.status[run.op] = "RUNNING"
      BY <1>3, <2>1 DEF AInv, JInv, WriteAhead, ActiveInv, JournalInv
    <3> QED
      BY <1>3, <3>1 DEF RowIsGood, Running
  <2>2. CASE ~(run.kind = "quarantine" /\ l = Current.loc)
    <3>1. RowIsGood(saved.catalog[l], file, Amiss, saved.items, Running(saved.status), l)
      BY DEF AInv, ActiveInv, SavedInv
    <3>2. file[l] = saved.catalog[l].asset =>
            \/ saved.catalog[l].asset = Absent \/ file'[l] = saved.catalog[l].asset \/ l \in Amiss
      BY <1>6, <1>7, <2>2 DEF Amiss
    <3> QED
      BY <3>1, <3>2 DEF RowIsGood
  <2> QED
    BY <2>1, <2>2
<1>11. SavedInv'
  BY <1>1, <1>10 DEF SavedInv
<1> QED
  BY <1>4, <1>9, <1>11 DEF ActiveInv

\* The file steps of a move, either direction.
LEMMA MoveStepActive ==
  ASSUME AInv, Rename \/ CopyBegin \/ CopyEnd \/ Unlink
  PROVE  ActiveInv'
<1>1. /\ run.phase \in {"move", "copying", "unlink"} /\ Others /\ late' = late /\ unread' = unread
      /\ \E ph \in {"verify", "copying", "unlink"} : Advance(ph)
  BY DEF Rename, CopyBegin, CopyEnd, Unlink
<1>2. late' \subseteq touched' /\ touched' = touched
  BY <1>1 DEF AInv, ActiveInv, JournalInv, Others
<1>3. From \in Place /\ To \in Place /\ From # To /\ file \in [Place -> FileState]
  BY <1>1, Ends DEF AInv, IInv, TypeOK
<1>4. file[From] = Current.asset \/ From \in touched
  BY <1>1 DEF AInv, ActiveInv, EndsInv
<1>5. EndsInv'
  <2>1. /\ Current' = Current /\ From' = From /\ To' = To
        /\ \A ph \in {"verify", "copying", "unlink"} : Advance(ph) => run'.phase = ph
    BY <1>1, AdvanceKeeps DEF AInv
  <2>2. CASE Rename
    <3>1. run'.phase = "verify" /\ file'[To] = file[From]
      BY <1>3, <2>1, <2>2 DEF Rename
    <3> QED
      BY <1>2, <1>4, <2>1, <3>1 DEF EndsInv
  <2>3. CASE CopyBegin
    <3>1. run'.phase = "copying" /\ file'[To] = Torn /\ file'[From] = file[From]
      BY <1>3, <2>1, <2>3 DEF CopyBegin
    <3> QED
      BY <1>2, <1>4, <2>1, <3>1 DEF EndsInv
  <2>4. CASE CopyEnd
    <3>1. run'.phase = "unlink" /\ file'[From] = file[From]
          /\ (file'[To] = file[From] \/ From \in touched)
      BY <1>2, <1>3, <2>1, <2>4 DEF CopyEnd, AInv, ActiveInv, JournalInv
    <3> QED
      BY <1>2, <1>4, <2>1, <3>1 DEF EndsInv
  <2>5. CASE Unlink
    <3>1. run'.phase = "verify" /\ file'[To] = file[To] /\ run.phase = "unlink"
      BY <1>3, <2>1, <2>5 DEF Unlink
    <3> QED
      BY <1>2, <2>1, <3>1 DEF EndsInv, AInv, ActiveInv
  <2> QED
    BY <2>2, <2>3, <2>4, <2>5
<1> QED
  BY <1>1, <1>2, <1>5, FileStep, AdvanceActive

\* An undo that finds the file back has an active row for it.
LEMMA CheckItemActive ==
  ASSUME AInv, CheckItem
  PROVE  ActiveInv'
<1>1. run.phase = "check" /\ Others /\ late' = {} /\ file' = file
      /\ unread' = unread
  BY DEF CheckItem
<1>2. CASE \E res \in Result : Settle(res) /\ UNCHANGED catalog
  BY <1>1, <1>2, SettleActive
<1>3. CASE \E res \in Result : /\ Settle(res) /\ SetMissing(FALSE) /\ run.kind = "undo"
                               /\ file[To] = Current.asset
  BY <1>1, <1>3, SettleActive, CurrentRow
<1>4. CASE Advance("move") /\ file[To] = Absent /\ file[From] = Current.asset
  <2>1. run'.phase = "move" /\ Current' = Current /\ From' = From /\ To' = To
    BY <1>1, <1>4, AdvanceKeeps DEF AInv
  <2>2. EndsInv'
    BY <1>1, <1>4, <2>1 DEF EndsInv
  <2> QED
    BY <1>1, <1>4, <2>2, AdvanceActive
<1> QED
  BY <1>2, <1>3, <1>4 DEF CheckItem, Result

\* A move that stops leaves the file at its path, unless the file was edited.
LEMMA MoveFailsActive ==
  ASSUME AInv, MoveFails
  PROVE  ActiveInv'
<1>1. /\ run.phase \in {"move", "copying", "unlink"} /\ Others /\ late' = late /\ file' = file
      /\ Settle("FAILED") /\ UNCHANGED catalog /\ touched' = touched /\ unread' = unread
  BY DEF MoveFails, Others
<1>2. late' \subseteq touched'
  BY <1>1 DEF AInv, ActiveInv, JournalInv
<1>3. run.kind = "undo" \/ RowIsGood(catalog[Current.loc], file, Amiss', items, Interrupted,
                                     Current.loc)
  <2>1. file[From] = Current.asset \/ From \in touched
    BY <1>1 DEF AInv, ActiveInv, EndsInv
  <2> QED
    BY <1>1, <2>1, CurrentRow DEF RowIsGood, Amiss
<1> QED
  BY <1>1, <1>2, <1>3, SettleActive DEF Result, SetMissing

\* A move that ends with another content at its destination had an end edited.
LEMMA VerifyItemActive ==
  ASSUME AInv, VerifyItem
  PROVE  ActiveInv'
<1>1. /\ run.phase = "verify" /\ Others /\ late' = late /\ file' = file /\ touched' = touched
  BY DEF VerifyItem, Others
<1>2. late' \subseteq touched'
  BY <1>1 DEF AInv, ActiveInv, JournalInv
<1>7. unread \subseteq unread'
  BY DEF VerifyItem, Unreadable
<1>3. CASE \E res \in Result : /\ Settle(res) /\ UNCHANGED catalog
                               /\ file[To] # Current.asset
  <2>1. To \in touched \/ From \in touched
    BY <1>1, <1>3 DEF AInv, ActiveInv, EndsInv
  <2>2. run.kind = "undo" \/ RowIsGood(catalog[Current.loc], file, Amiss', items, Interrupted,
                                       Current.loc)
    BY <1>1, <2>1, CurrentRow DEF RowIsGood, Amiss
  <2> QED
    BY <1>1, <1>2, <1>3, <1>7, <2>2, SettleActive
<1>8. CASE /\ Settle("FAILED") /\ UNCHANGED catalog
           /\ run.kind = "undo" \/ unread' = unread \cup {To}
  <2>1. run.kind = "undo" \/ RowIsGood(catalog[Current.loc], file, Amiss', items, Interrupted,
                                       Current.loc)
    BY <1>1, <1>8, CurrentRow DEF RowIsGood, Amiss
  <2> QED
    BY <1>1, <1>2, <1>7, <1>8, <2>1, SettleActive DEF Result
<1>4. CASE \E res \in Result : /\ Settle(res) /\ SetMissing(run.kind = "quarantine")
                               /\ file[To] = Current.asset
  <2>1. SetMissing(run.kind = "quarantine") =>
          (run.kind = "quarantine") \/ file[Current.loc] = Current.asset
    BY <1>1, <1>4, CurrentRow
  <2>2. catalog' = catalog => run.kind = "undo" \/ run.phase = "check"
           \/ RowIsGood(catalog[Current.loc], file, Amiss', items, Interrupted, Current.loc)
    <3>1. Current.loc \in Loc /\ catalog \in Catalog
      BY <1>1, CurrentRow DEF AInv, IInv, TypeOK
    <3>2. catalog'[Current.loc].missing = (run.kind = "quarantine")
      BY <1>4, <3>1 DEF SetMissing, Catalog
    <3>3. run.kind = "quarantine" \/ run.kind = "undo"
      BY <1>1, CurrentRow
    <3> QED
      BY <3>2, <3>3 DEF RowIsGood
  <2>3. PICK res \in Result : Settle(res)
    BY <1>4
  <2>4. PICK flag \in BOOLEAN : flag = (run.kind = "quarantine")
    OBVIOUS
  <2>5. SetMissing(flag) /\ (flag \/ file[Current.loc] = Current.asset)
    BY <1>4, <2>1, <2>4
  <2> QED
    BY <1>1, <1>2, <1>7, <2>2, <2>3, <2>5, SettleActive
<1>5. Current.asset # Absent
  BY <1>1, CurrentRow, QuarantineConstants
<1>6. /\ (IF run.kind = "undo" THEN "RESTORED" ELSE "QUARANTINED") \in Result
      /\ (IF run.kind = "undo" THEN "UNDO_FAILED_VERIFICATION"
                              ELSE "QUARANTINE_FAILED_VERIFICATION") \in Result
      /\ "FAILED" \in Result
  BY DEF Result
<1> QED
  <2>1. CASE file[To] # Current.asset
    BY <1>3, <1>6, <1>8, <2>1, Zenon DEF VerifyItem, Unreadable
  <2>2. CASE file[To] = Current.asset
    BY <1>4, <1>5, <1>6, <1>8, <2>2, Zenon DEF VerifyItem, Unreadable
  <2> QED
    BY <2>1, <2>2

\* Taking up an item changes no row of a quarantine operation.
LEMMA NextItemActive ==
  ASSUME AInv, NextItem
  PROVE  ActiveInv'
<1>1. /\ run \in Run /\ run.phase = "next" /\ run.target \in AnyOp /\ items \in Journal
      /\ run.kind # "idle" /\ (run.kind = "undo" => run.target \in Undo)
  BY DEF AInv, IInv, RunInv, TypeOK, NextItem
<1>2. \A o \in Op : items'[o] = items[o]
  BY <1>1, QuarantineConstants DEF NextItem, Journal, AnyOp
<1>3. run'.kind = run.kind /\ run'.op = run.op /\ run'.phase = "check"
  BY <1>1 DEF NextItem, Run
<1>4. /\ status' = status /\ saved' = saved /\ file' = file /\ touched' = touched /\ Amiss' = Amiss
      /\ reviewed' = reviewed /\ catalog' = catalog /\ late' = {}
  BY DEF NextItem, Amiss
<1>5. JournalInv'
  BY <1>1, <1>2, <1>3, <1>4, JournalKeeps
<1>6. EndsInv'
  BY <1>3 DEF EndsInv
<1>7. Interrupted' = Interrupted
  BY <1>3, <1>4 DEF Interrupted, Running
<1>8. RowsInv'
  BY <1>1, <1>2, <1>4, <1>7 DEF AInv, ActiveInv, RowsInv, RowIsGood
<1>9. SavedInv'
  BY <1>4 DEF AInv, ActiveInv, SavedInv, Running
<1> QED
  BY <1>5, <1>6, <1>8, <1>9 DEF ActiveInv

\* The final commit: every row is good, and the operation is no longer running.
LEMMA FinishActive ==
  ASSUME AInv, Finish
  PROVE  ActiveInv'
<1>1. /\ run \in Run /\ run.target \in AnyOp /\ status \in [AnyOp -> Status]
      /\ run.phase = "next"
      /\ (run.kind = "quarantine" => run.target = run.op /\ status[run.op] = "RUNNING")
      /\ (run.kind = "undo" => run.target \in Undo) /\ run.kind # "idle" /\ run.op \in Op
  BY DEF AInv, JInv, WriteAhead, IInv, RunInv, TypeOK, Finish
<1>2. /\ status' = [status EXCEPT ![run.target] = FinalStatus] /\ run'.kind = "idle"
      /\ run'.phase = "idle"
      /\ saved' = [catalog |-> catalog, items |-> items, status |-> status'] /\ items' = items
      /\ catalog' = catalog /\ reviewed' = reviewed
      /\ file' = file /\ touched' = touched /\ late' = {} /\ Amiss' = Amiss
  BY DEF Finish, NotRunning, Amiss
<1>3. FinalStatus \notin {"NONE", "PLANNED", "RUNNING"}
  BY DEF FinalStatus
<1>4. \A o \in Op : /\ o # run.target => status'[o] = status[o]
                    /\ o = run.target => o = run.op /\ run.kind = "quarantine"
                                         /\ status'[o] \notin {"NONE", "PLANNED", "RUNNING"}
  BY <1>1, <1>2, <1>3, QuarantineConstants DEF AnyOp, Run
<1>5. JournalInv'
  <2>1. reviewed' # None => status'[reviewed'] = "PLANNED"
    <3>1. reviewed \in Op \cup {None}
      BY DEF AInv, IInv, TypeOK
    <3> QED
      BY <1>1, <1>2, <1>4, <3>1 DEF AInv, ActiveInv, JournalInv
  <2>2. saved' = InMemory'
    BY <1>2 DEF InMemory
  <2>3. \A o \in Op : status'[o] = "NONE" => status[o] = "NONE"
    BY <1>4
  <2>4. \A o \in Op : status'[o] = "PLANNED" => status[o] = "PLANNED"
    BY <1>4
  <2>5. \A l \in Loc : saved'.catalog[l].asset = catalog'[l].asset
    BY <1>2
  <2>6. \A o \in Op :
          /\ status'[o] = "NONE" => items'[o] = <<>>
          /\ status'[o] # "RUNNING" => saved'.items[o] = items'[o]
          /\ \A i \in DOMAIN items'[o] :
               /\ saved'.items[o][i].loc = items'[o][i].loc
               /\ saved'.items[o][i].asset = items'[o][i].asset
               /\ items'[o][i].asset = catalog'[items'[o][i].loc].asset
               /\ items'[o][i].place = <<o, items'[o][i].loc[2]>>
               /\ status'[o] = "PLANNED" => items'[o][i].result = "PLANNED"
    BY <1>2, <2>3, <2>4 DEF AInv, ActiveInv, JournalInv
  <2> QED
    BY <1>2, <2>1, <2>2, <2>5, <2>6 DEF JournalInv
<1>6. EndsInv'
  BY <1>2 DEF EndsInv
<1>7. Interrupted \subseteq Running(status')
  BY <1>1, <1>4 DEF Interrupted, Running
<1>8. ASSUME NEW l \in Loc
      PROVE  RowIsGood(catalog[l], file, Amiss, items, Running(status'), l)
  <2>1. RowIsGood(catalog[l], file, Amiss, items, Interrupted, l)
    BY <1>1 DEF AInv, ActiveInv, RowsInv
  <2> QED
    BY <1>7, <2>1 DEF RowIsGood
<1>9. RowsInv'
  BY <1>2, <1>8 DEF RowsInv, Interrupted
<1>10. SavedInv'
  BY <1>2, <1>8 DEF SavedInv
<1> QED
  BY <1>5, <1>6, <1>9, <1>10 DEF ActiveInv

\* A run starts with its operation RUNNING, committed, and PLANNED before.
LEMMA StartExecuteActive ==
  ASSUME AInv, StartExecute
  PROVE  ActiveInv'
<1>1. /\ status \in [AnyOp -> Status] /\ reviewed \in Op /\ run.kind = "idle"
      /\ saved \in [catalog: Catalog, items: Journal, status: [AnyOp -> Status]]
      /\ status[reviewed] = "PLANNED" /\ saved = InMemory
  BY DEF AInv, IInv, TypeOK, StartExecute, ActiveInv, JournalInv
<1>2. /\ status' = [status EXCEPT ![reviewed] = "RUNNING"]
      /\ run'.kind = "quarantine" /\ run'.op = reviewed /\ run'.phase = "next"
      /\ items' = items /\ file' = file /\ touched' = touched /\ catalog' = catalog
      /\ late' = late /\ reviewed' = None /\ Amiss' = Amiss
  BY DEF StartExecute, NotRunning, Amiss
<1>3. saved'.items = items /\ saved'.status = status' /\ saved'.catalog = catalog
  BY <1>1, <1>2 DEF StartExecute, InMemory
<1>4. \A o \in Op : status'[o] = IF o = reviewed THEN "RUNNING" ELSE status[o]
  BY <1>1, <1>2 DEF AnyOp
<1>5. JournalInv'
  <2>1. \A o \in Op :
          /\ status'[o] = "NONE" => items'[o] = <<>>
          /\ status'[o] # "RUNNING" => saved'.items[o] = items'[o]
          /\ \A i \in DOMAIN items'[o] :
               /\ saved'.items[o][i].loc = items'[o][i].loc
               /\ saved'.items[o][i].asset = items'[o][i].asset
               /\ items'[o][i].asset = catalog'[items'[o][i].loc].asset
               /\ items'[o][i].place = <<o, items'[o][i].loc[2]>>
               /\ status'[o] = "PLANNED" => items'[o][i].result = "PLANNED"
    BY <1>2, <1>3, <1>4 DEF AInv, ActiveInv, JournalInv
  <2> QED
    BY <1>2, <1>3, <2>1 DEF AInv, ActiveInv, JournalInv
<1>6. EndsInv'
  BY <1>2 DEF EndsInv
<1>7. Interrupted' = Running(status) /\ Interrupted = Running(status)
  BY <1>1, <1>2, <1>4 DEF Interrupted, Running
<1>8. \A l \in Loc : RowIsGood(catalog[l], file, Amiss, items, Running(status), l)
  BY <1>1, <1>7 DEF AInv, ActiveInv, RowsInv
<1>9. RowsInv'
  BY <1>2, <1>7, <1>8 DEF RowsInv
<1>10. Running(status) \subseteq Running(status')
  BY <1>4 DEF Running
<1>11. \A l \in Loc : RowIsGood(catalog[l], file, Amiss, items, Running(status'), l)
  BY <1>8, <1>10 DEF RowIsGood
<1>12. SavedInv'
  BY <1>2, <1>3, <1>11 DEF SavedInv
<1> QED
  BY <1>5, <1>6, <1>9, <1>12 DEF ActiveInv

\* Starting an undo changes no quarantine operation.
LEMMA StartUndoActive ==
  ASSUME AInv, NEW o \in Op, NEW u \in Undo, StartUndo(o, u)
  PROVE  ActiveInv'
<1>1. /\ status' = [status EXCEPT ![u] = "RUNNING"] /\ run.kind = "idle"
      /\ run'.kind = "undo" /\ run'.phase = "next"
      /\ items' = items /\ file' = file /\ touched' = touched /\ catalog' = catalog
      /\ late' = late /\ reviewed' = reviewed /\ saved' = saved /\ Amiss' = Amiss
  BY DEF StartUndo, NotRunning, Amiss
<1>2. \A p \in Op : status'[p] = status[p]
  BY <1>1, QuarantineConstants DEF AInv, IInv, TypeOK, AnyOp
<1>3. reviewed \in Op \cup {None}
  BY DEF AInv, IInv, TypeOK
<1>4. JournalInv'
  BY <1>1, <1>2, <1>3 DEF AInv, ActiveInv, JournalInv
<1>5. EndsInv'
  BY <1>1 DEF EndsInv
<1>6. Interrupted' = Interrupted
  BY <1>1, <1>2 DEF Interrupted, Running
<1>7. RowsInv'
  BY <1>1, <1>6 DEF AInv, ActiveInv, RowsInv
<1>8. SavedInv'
  BY <1>1 DEF AInv, ActiveInv, SavedInv, Running
<1> QED
  BY <1>4, <1>5, <1>7, <1>8 DEF ActiveInv

\* The rows of a new plan name what the catalog says, and nothing is running.
LEMMA BuildPlanActive ==
  ASSUME AInv, NEW o \in Op, NEW paths \in Listings, BuildPlan(o, paths)
  PROVE  ActiveInv'
<1>1. /\ items \in Journal /\ status \in [AnyOp -> Status] /\ o \in AnyOp
      /\ status[o] = "NONE" /\ items[o] = <<>> /\ saved = InMemory
  BY DEF AInv, IInv, TypeOK, BuildPlan, NoWriter, ActiveInv, JournalInv, AnyOp
<1>2. /\ items' = [items EXCEPT ![o] = [i \in DOMAIN paths |-> PlanRow(o, paths[i])]]
      /\ status' = [status EXCEPT ![o] = "PLANNED"]
      /\ saved' = [saved EXCEPT !.items = items', !.status = status']
      /\ reviewed' = o /\ file' = file /\ catalog' = catalog /\ run' = run /\ late' = late
      /\ touched' = touched /\ Amiss' = Amiss
  BY DEF BuildPlan, Amiss
<1>3. saved' = InMemory' /\ saved'.items = items' /\ saved'.status = status'
      /\ saved'.catalog = catalog
  BY <1>1, <1>2 DEF InMemory
<1>4. \A p \in AnyOp : p # o => items'[p] = items[p] /\ status'[p] = status[p]
  BY <1>1, <1>2 DEF Journal
<1>5. /\ items'[o] = [i \in DOMAIN paths |-> PlanRow(o, paths[i])]
      /\ status'[o] = "PLANNED"
  BY <1>1, <1>2 DEF Journal
<1>6. ASSUME NEW i \in DOMAIN items'[o]
      PROVE  /\ items'[o][i].asset = catalog[items'[o][i].loc].asset
             /\ items'[o][i].place = <<o, items'[o][i].loc[2]>>
             /\ items'[o][i].result = "PLANNED"
  BY <1>5 DEF PlanRow
<1>7. JournalInv'
  <2>1. \A p \in Op :
          /\ status'[p] = "NONE" => items'[p] = <<>>
          /\ \A i \in DOMAIN items'[p] :
               /\ items'[p][i].asset = catalog'[items'[p][i].loc].asset
               /\ items'[p][i].place = <<p, items'[p][i].loc[2]>>
               /\ status'[p] = "PLANNED" => items'[p][i].result = "PLANNED"
    <3> TAKE p \in Op
    <3>1. CASE p = o
      BY <1>2, <1>5, <1>6, <3>1
    <3>2. CASE p # o
      BY <1>2, <1>4, <3>2 DEF AInv, ActiveInv, JournalInv, AnyOp
    <3> QED
      BY <3>1, <3>2
  <2>2. /\ late' \subseteq touched'
        /\ reviewed' # None => status'[reviewed'] = "PLANNED"
    BY <1>2, <1>5 DEF AInv, ActiveInv, JournalInv
  <2>3. /\ \A l \in Loc : saved'.catalog[l].asset = catalog'[l].asset
        /\ \A p \in Op : saved'.items[p] = items'[p]
    BY <1>2, <1>3
  <2> QED
    BY <1>3, <2>1, <2>2, <2>3 DEF JournalInv
<1>8. run.phase \notin {"idle", "next"} =>
        run.op \in Op /\ run.op # o
  BY <1>1 DEF AInv, IInv, RunInv
<1>9. run.phase \notin {"idle", "next"} => Current' = Current /\ From' = From /\ To' = To
  BY <1>2, <1>4, <1>8 DEF Current, From, To, AnyOp
<1>10. EndsInv'
  BY <1>2, <1>9 DEF EndsInv, AInv, ActiveInv
<1>11. Running(status') = Running(status)
  BY <1>1, <1>4, <1>5 DEF Running, AnyOp
<1>12. Interrupted' = Interrupted
  BY <1>2, <1>11 DEF Interrupted
<1>13. \A p \in Op : \A i \in DOMAIN items[p] :
         /\ i \in DOMAIN items'[p]
         /\ items'[p][i].loc = items[p][i].loc /\ items'[p][i].place = items[p][i].place
  BY <1>1, <1>4 DEF AnyOp
<1>14. ASSUME NEW S, NEW l \in Loc, RowIsGood(catalog[l], file, Amiss, items, S, l)
       PROVE  RowIsGood(catalog[l], file, Amiss, items', S, l)
  BY <1>13, <1>14 DEF RowIsGood
<1>15. RowsInv'
  <2> SUFFICES ASSUME NEW l \in Loc
               PROVE  \/ RowIsGood(catalog[l], file, Amiss, items', Interrupted, l)
                      \/ /\ run.kind = "quarantine"
                         /\ run.phase \in {"move", "copying", "unlink", "verify"}
                         /\ l = Current'.loc
    BY <1>2, <1>12 DEF RowsInv
  <2> QED
    BY <1>9, <1>14 DEF AInv, ActiveInv, RowsInv
<1>16. SavedInv'
  <2> SUFFICES ASSUME NEW l \in Loc
               PROVE  RowIsGood(catalog[l], file, Amiss, items', Running(status), l)
    BY <1>2, <1>3, <1>11 DEF SavedInv
  <2>1. RowIsGood(catalog[l], file, Amiss, items, Running(status), l)
    BY <1>1 DEF AInv, ActiveInv, SavedInv, InMemory
  <2> QED
    BY <1>14, <2>1
<1> QED
  BY <1>7, <1>10, <1>15, <1>16 DEF ActiveInv

\* After a crash the committed rows are the ones that count.
LEMMA CrashActive ==
  ASSUME AInv, Crash
  PROVE  ActiveInv'
<1>1. /\ items' = saved.items /\ status' = saved.status /\ catalog' = saved.catalog
      /\ run'.kind = "idle" /\ run'.phase = "idle" /\ reviewed' = None /\ late' = {}
      /\ saved' = saved /\ file' = file /\ touched' = touched /\ Amiss' = Amiss
  BY DEF Crash, NotRunning, Amiss
<1>2. saved \in [catalog: Catalog, items: Journal, status: [AnyOp -> Status]]
  BY DEF AInv, IInv, TypeOK
<1>3. saved' = InMemory'
  BY <1>1, <1>2 DEF InMemory
<1>4. \A o \in Op :
        /\ saved.status[o] = status[o]
        /\ saved.items[o] \in Seq(Item) /\ items[o] \in Seq(Item)
        /\ DOMAIN saved.items[o] = DOMAIN items[o]
        /\ \A i \in DOMAIN items[o] : /\ saved.items[o][i].loc = items[o][i].loc
                                      /\ saved.items[o][i].asset = items[o][i].asset
                                      /\ saved.items[o][i].place = items[o][i].place
                                      /\ items[o][i].loc \in Loc
  <2> TAKE o \in Op
  <2>1. /\ saved.items[o] \in Seq(Item) /\ items[o] \in Seq(Item)
        /\ \A i \in DOMAIN items[o] : items[o][i] \in Item
    BY <1>2, RowType DEF AInv, Journal, AnyOp
  <2>2. /\ saved.status[o] = status[o]
        /\ DOMAIN saved.items[o] = DOMAIN items[o]
        /\ \A i \in DOMAIN items[o] : saved.items[o][i].place = items[o][i].place
    BY DEF AInv, JInv, WriteAhead
  <2>3. \A i \in DOMAIN items[o] : /\ saved.items[o][i].loc = items[o][i].loc
                                   /\ saved.items[o][i].asset = items[o][i].asset
    BY DEF AInv, ActiveInv, JournalInv
  <2>4. \A i \in DOMAIN items[o] : items[o][i].loc \in Loc
    BY <2>1 DEF Item
  <2> QED
    BY <2>1, <2>2, <2>3, <2>4
<1>5. JournalInv'
  <2>1. \A o \in Op :
          /\ status'[o] = "NONE" => items'[o] = <<>>
          /\ status'[o] # "RUNNING" => saved'.items[o] = items'[o]
          /\ \A i \in DOMAIN items'[o] :
               /\ saved'.items[o][i].loc = items'[o][i].loc
               /\ saved'.items[o][i].asset = items'[o][i].asset
               /\ items'[o][i].asset = catalog'[items'[o][i].loc].asset
               /\ items'[o][i].place = <<o, items'[o][i].loc[2]>>
               /\ status'[o] = "PLANNED" => items'[o][i].result = "PLANNED"
    <3> SUFFICES ASSUME NEW o \in Op
                 PROVE  /\ status[o] = "NONE" => saved.items[o] = <<>>
                        /\ \A i \in DOMAIN saved.items[o] :
                             /\ saved.items[o][i].asset = saved.catalog[saved.items[o][i].loc].asset
                             /\ saved.items[o][i].place = <<o, saved.items[o][i].loc[2]>>
                             /\ status[o] = "PLANNED" => saved.items[o][i].result = "PLANNED"
      BY <1>1, <1>4
    <3>1. status[o] = "NONE" => saved.items[o] = <<>>
      BY DEF AInv, ActiveInv, JournalInv
    <3>2. ASSUME NEW i \in DOMAIN saved.items[o]
          PROVE  /\ saved.items[o][i].asset = saved.catalog[saved.items[o][i].loc].asset
                 /\ saved.items[o][i].place = <<o, saved.items[o][i].loc[2]>>
      BY <1>4 DEF AInv, ActiveInv, JournalInv
    <3>3. status[o] = "PLANNED" =>
            \A i \in DOMAIN saved.items[o] : saved.items[o][i].result = "PLANNED"
      BY DEF AInv, ActiveInv, JournalInv
    <3> QED
      BY <3>1, <3>2, <3>3
  <2> QED
    BY <1>1, <1>3, <2>1 DEF JournalInv
<1>6. EndsInv'
  BY <1>1 DEF EndsInv
<1>7. Interrupted' = Running(saved.status)
  BY <1>1 DEF Interrupted
<1>8. RowsInv'
  BY <1>1, <1>7 DEF AInv, ActiveInv, SavedInv, RowsInv
<1>9. SavedInv'
  BY <1>1 DEF AInv, ActiveInv, SavedInv
<1> QED
  BY <1>5, <1>6, <1>8, <1>9 DEF ActiveInv

\* An edit only adds to the touched places.
LEMMA UserEditActive ==
  ASSUME AInv, NEW p \in Place, NEW c \in Content \cup {Absent}, UserEdit(p, c)
  PROVE  ActiveInv'
<1>1. /\ catalog' = catalog /\ items' = items /\ status' = status /\ saved' = saved
      /\ reviewed' = reviewed /\ run' = run
      /\ file' = [file EXCEPT ![p] = c] /\ touched' = touched \cup {p}
      /\ Amiss' = Amiss \cup {p} /\ late' \subseteq late \cup {p}
  BY DEF UserEdit, db, Amiss
<1>2. \A q \in Place \ touched' : file'[q] = file[q] /\ q \notin touched
  BY <1>1 DEF AInv, IInv, TypeOK
<1>3. JournalInv'
  BY <1>1 DEF AInv, ActiveInv, JournalInv, InMemory
<1>4. Current' = Current /\ From' = From /\ To' = To
  BY <1>1 DEF Current, From, To
<1>5. EndsInv'
  <2>1. run.phase \notin {"idle", "next"} => From \in Place /\ To \in Place
    BY Ends DEF AInv
  <2> QED
    BY <1>1, <1>2, <1>4, <2>1 DEF AInv, ActiveInv, EndsInv
<1>6. Interrupted' = Interrupted
  BY <1>1 DEF Interrupted, Running
<1>7. ASSUME NEW row, NEW rows, NEW S, NEW l \in Loc, RowIsGood(row, file, Amiss, rows, S, l)
      PROVE  RowIsGood(row, file', Amiss', rows, S, l)
  <2>1. l \in Place
    BY DEF Place
  <2> QED
    BY <1>1, <1>2, <1>7, <2>1 DEF RowIsGood, Amiss
<1>8. RowsInv'
  BY <1>1, <1>4, <1>6, <1>7 DEF AInv, ActiveInv, RowsInv
<1>9. SavedInv'
  BY <1>1, <1>7 DEF AInv, ActiveInv, SavedInv
<1> QED
  BY <1>3, <1>5, <1>8, <1>9 DEF ActiveInv

\* A freshly scanned catalog has only good rows.
LEMMA InitActive == Init => ActiveInv
<1> SUFFICES ASSUME Init PROVE ActiveInv
  OBVIOUS
<1>1. JournalInv
  BY DEF Init, JournalInv, InMemory, AnyOp
<1>2. EndsInv
  BY DEF Init, EndsInv, NotRunning
<1>3. \A l \in Loc : file[l] = catalog[l].asset
  BY DEF Init
<1>4. RowsInv
  BY <1>3 DEF RowsInv, RowIsGood
<1>5. SavedInv
  BY <1>3 DEF SavedInv, RowIsGood, Init, InMemory
<1> QED
  BY <1>1, <1>2, <1>4, <1>5 DEF ActiveInv

\* A plan that is refused, and a stuttering step.
LEMMA IdleActive ==
  ASSUME AInv, UNCHANGED <<file, catalog, items, status, saved, run, late, touched, unread>>,
         reviewed' \in {reviewed, None}
  PROVE  ActiveInv'
<1>1. JournalInv'
  BY DEF AInv, ActiveInv, JournalInv, InMemory
<1>2. Current' = Current /\ From' = From /\ To' = To
  BY DEF Current, From, To
<1>3. EndsInv'
  BY <1>2 DEF AInv, ActiveInv, EndsInv
<1>4. Interrupted' = Interrupted
  BY DEF Interrupted, Running
<1>7. Amiss' = Amiss
  BY DEF Amiss
<1>5. RowsInv'
  BY <1>2, <1>4, <1>7 DEF AInv, ActiveInv, RowsInv
<1>6. SavedInv'
  BY <1>7 DEF AInv, ActiveInv, SavedInv, Running
<1> QED
  BY <1>1, <1>3, <1>5, <1>6 DEF ActiveInv

\* The rows of the catalog are good throughout.
LEMMA StepActive == AInv /\ [Next]_vars => ActiveInv'
<1> SUFFICES ASSUME AInv, [Next]_vars PROVE ActiveInv'
  OBVIOUS
<1>1. CASE Worker
  BY <1>1, NextItemActive, CheckItemActive, MoveStepActive, MoveFailsActive, VerifyItemActive,
     FinishActive DEF Worker
<1>2. CASE UNCHANGED vars
  BY <1>2, IdleActive DEF vars
<1>3. ASSUME NEW paths \in Listings, RefusePlan(paths) PROVE ActiveInv'
  BY <1>3, IdleActive DEF RefusePlan, db
<1> QED
  BY <1>1, <1>2, <1>3, BuildPlanActive, StartExecuteActive, StartUndoActive, CrashActive,
     UserEditActive DEF Next

\* The three parts of the invariant are kept together.
LEMMA ActiveInvariance == Spec => []AInv
<1>1. Init => AInv
  BY InitIInv, InitJInv, InitActive DEF AInv
<1>2. AInv /\ [Next]_vars => AInv'
  BY StepIInv, StepJInv, StepActive DEF AInv
<1> QED
  BY <1>1, <1>2, PTL DEF Spec

\* Between runs every active row of the catalog names a file that is there,
\* unless the file was edited, an operation interrupted on its path is RUNNING,
\* or an operation moved it away and could not read it back.
THEOREM QuarantineActiveRows == Spec => []ActiveRowsExist
<1>1. AInv => ActiveRowsExist
  <2> SUFFICES ASSUME AInv, ActiveInv, run.kind = "idle", NEW l \in Loc
               PROVE  \/ ~Catalogued(l) \/ file[l] = catalog[l].asset \/ l \in touched
                      \/ \E o \in Op : \E i \in DOMAIN items[o] :
                           /\ items[o][i].loc = l
                           /\ \/ status[o] = "RUNNING"
                              \/ items[o][i].place \in touched \cup unread
    BY DEF ActiveRowsExist, AInv
  <2>1. RowIsGood(catalog[l], file, Amiss, items, Running(status), l)
    BY DEF ActiveInv, RowsInv, Interrupted
  <2>2. l \in Amiss => l \in touched
    BY QuarantineConstants DEF Amiss, AInv, IInv, TypeOK, Loc, QLoc
  <2> QED
    BY <2>1, <2>2 DEF RowIsGood, Running, Catalogued, Amiss
<1> QED
  BY <1>1, ActiveInvariance, PTL

-------------------------------------------------------------------------------
\* Settling an item of a quarantine writes the result of one of its rows.
LEMMA SettleResult ==
  ASSUME IInv, run.phase \notin {"idle", "next"}, run.kind = "quarantine",
         NEW res \in Result, Settle(res)
  PROVE  \A i \in DOMAIN items[run.op] :
           items'[run.op][i].result = IF i = run.row THEN res ELSE items[run.op][i].result
<1>1. /\ items' = [items EXCEPT ![run.op][run.row].result = res]
      /\ run.op \in AnyOp /\ items \in Journal
  BY DEF Settle, WithResult, IInv, RunInv, TypeOK, AnyOp
<1>2. items'[run.op] = [items[run.op] EXCEPT ![run.row].result = res]
  BY <1>1 DEF Journal
<1>3. items[run.op] \in Seq(Item) /\ \A i \in DOMAIN items[run.op] : items[run.op][i] \in Item
  BY <1>1, RowType
<1>4. ASSUME NEW i \in DOMAIN items[run.op]
      PROVE  items'[run.op][i] = IF i = run.row THEN [items[run.op][i] EXCEPT !.result = res]
                                 ELSE items[run.op][i]
  <2>1. items[run.op] = [k \in DOMAIN items[run.op] |-> items[run.op][k]]
    BY <1>3
  <2> QED
    BY <1>2, <2>1
<1> QED
  BY <1>3, <1>4 DEF Item

\* What was moved to the place of row i is recorded, is the current item's, or
\* could not be read back.
Recorded(i) ==
  \/ \E j \in DOMAIN items[run.op] : /\ items[run.op][j].place = items[run.op][i].place
                                     /\ items[run.op][j].result = "QUARANTINED"
  \/ run.phase \in {"unlink", "verify"} /\ Current.place = items[run.op][i].place
  \/ items[run.op][i].place \in unread /\ items[run.op][i].result = "FAILED"

\* Row i has its file in quarantine only.
MovedAway(i) ==
  /\ Untouched(run.op, i)
  /\ file[items[run.op][i].place] = items[run.op][i].asset
  /\ file[items[run.op][i].loc] # items[run.op][i].asset

\* The first two parts of TakenUpInv: rows not yet taken up have no result.
TurnInv ==
  /\ \A i \in run.todo : items[run.op][i].result = "PLANNED"
  /\ run.phase # "next" => /\ run.row = run.cur /\ run.cur \notin run.todo
                           /\ Current.result = "PLANNED"

\* TakenUpInv in these terms.
LEMMA TakenUpParts ==
  TakenUpInv <=> (run.kind = "quarantine" /\ Unambiguous(run.op) =>
                    TurnInv /\ \A i \in DOMAIN items[run.op] : MovedAway(i) => Recorded(i))
BY DEF TakenUpInv, TurnInv, MovedAway, Recorded

\* Rows that keep their assets and places stay distinguishable, and a row that
\* is untouched now was untouched before.
LEMMA SameRows ==
  ASSUME NEW o \in Op, touched \subseteq touched',
         DOMAIN items'[o] = DOMAIN items[o],
         \A i \in DOMAIN items[o] :
           /\ items'[o][i].asset = items[o][i].asset
           /\ items'[o][i].loc = items[o][i].loc
           /\ items'[o][i].place = items[o][i].place
  PROVE  /\ Unambiguous(o)' <=> Unambiguous(o)
         /\ \A i \in DOMAIN items[o] : Untouched(o, i)' => Untouched(o, i)
<1>1. Unambiguous(o)' <=> Unambiguous(o)
  BY DEF Unambiguous, SameRow
<1>2. ASSUME NEW i \in DOMAIN items[o], Untouched(o, i)'
      PROVE  Untouched(o, i)
  BY <1>2 DEF Untouched
<1> QED
  BY <1>1, <1>2

\* Two rows of one operation that share a path share their place in quarantine.
LEMMA PlaceOfLoc ==
  ASSUME AInv, NEW o \in Op, NEW i \in DOMAIN items[o], NEW j \in DOMAIN items[o],
         items[o][i].loc = items[o][j].loc
  PROVE  items[o][i].place = items[o][j].place
BY DEF AInv, ActiveInv, JournalInv

\* The steps of a quarantine that move on with an item.
LEMMA AdvanceTakenUp ==
  ASSUME AInv, TakenUpInv, run.kind = "quarantine", Unambiguous(run.op), Others,
         NEW ph \in {"move", "copying", "unlink", "verify"},
         CheckItem \/ Rename \/ CopyBegin \/ CopyEnd \/ Unlink, Advance(ph)
  PROVE  TakenUpInv'
<1>1. run.phase \in {"check", "move", "copying", "unlink"}
  BY DEF CheckItem, Rename, CopyBegin, CopyEnd, Unlink
<1>2. /\ run'.kind = run.kind /\ run'.op = run.op /\ run'.todo = run.todo /\ run'.cur = run.cur
      /\ run'.row = run.row /\ run'.phase = ph /\ Current' = Current
      /\ items' = items /\ touched' = touched /\ unread' = unread /\ run.op \in Op
  BY <1>1, AdvanceKeeps, CurrentRow DEF AInv, Advance, IInv, TypeOK, Run, Others, db,
     CheckItem, Rename, CopyBegin, CopyEnd, Unlink
<1>3. TurnInv'
  BY <1>1, <1>2, TakenUpParts DEF TurnInv
<1>4. ASSUME NEW i \in DOMAIN items[run.op], MovedAway(i)'
      PROVE  Recorded(i)'
  <2> DEFINE it == items[run.op][i]
  <2>1. /\ Untouched(run.op, i) /\ file'[it.place] = it.asset /\ file'[it.loc] # it.asset
    BY <1>2, <1>4 DEF MovedAway, Untouched
  <2>2. /\ From = Current.loc /\ To = Current.place /\ From \in Loc /\ To \in QLoc
        /\ Current = items[run.op][run.cur] /\ run.cur \in DOMAIN items[run.op]
    BY <1>1, CurrentRow
  <2>3. it \in Item /\ it.loc \in Loc /\ it.place \in QLoc /\ it.asset \in Content
    BY <1>2, RowType DEF AInv, Item, AnyOp
  <2>4. CASE it.place = Current.place
    <3>1. CASE ph \in {"unlink", "verify"}
      BY <1>2, <2>4, <3>1 DEF Recorded
    <3>2. CASE ph = "copying" /\ ~CheckItem
      <4>1. CopyBegin
        BY <1>2, <3>2 DEF Rename, CopyEnd, Unlink, Advance, AInv, IInv, TypeOK, Run
      <4>2. file'[To] = Torn
        BY <2>2, <4>1 DEF CopyBegin, AInv, IInv, TypeOK, Place
      <4> QED
        BY <2>1, <2>2, <2>3, <2>4, <4>2, QuarantineConstants
    <3>3. CASE CheckItem
      <4>1. file' = file /\ run.phase = "check"
        BY <3>3 DEF CheckItem
      <4>2. Recorded(i)
        BY <1>2, <2>1, <4>1, TakenUpParts DEF MovedAway
      <4> QED
        BY <1>2, <4>1, <4>2 DEF Recorded
    <3>4. ph = "move" => CheckItem
      BY <1>2 DEF CopyBegin, Rename, CopyEnd, Unlink, Advance, AInv, IInv, TypeOK, Run
    <3> QED
      BY <3>1, <3>2, <3>3, <3>4
  <2>5. CASE it.place # Current.place
    <3>1. it.loc # Current.loc
      BY <1>2, <2>2, <2>5, PlaceOfLoc
    <3>2. it.loc \notin QLoc /\ it.place \notin Loc
      BY <2>3, QuarantineConstants DEF Loc, QLoc
    <3>3. \A p \in Place : p # From /\ p # To => file'[p] = file[p]
      BY DEF CopyBegin, CheckItem, Rename, CopyEnd, Unlink, AInv, IInv, TypeOK
    <3>4. it.loc # To /\ it.place # From /\ it.loc \in Place /\ it.place \in Place
      BY <2>2, <2>3, <3>2 DEF Place
    <3>5. file[it.place] = it.asset /\ file[it.loc] # it.asset
      BY <2>1, <2>2, <2>5, <3>1, <3>3, <3>4
    <3>6. Recorded(i)
      BY <1>2, <2>1, <3>5, TakenUpParts DEF MovedAway
    <3> QED
      BY <1>2, <2>5, <3>6 DEF Recorded
  <2> QED
    BY <2>4, <2>5
<1> QED
  BY <1>2, <1>3, <1>4, TakenUpParts DEF TakenUpInv, MovedAway, Recorded, TurnInv

\* The steps of a quarantine that settle an item.
LEMMA SettleTakenUp ==
  ASSUME AInv, TakenUpInv, run.kind = "quarantine", Unambiguous(run.op), Others,
         run.phase \notin {"idle", "next"}, file' = file, unread \subseteq unread',
         NEW res \in Result, Settle(res),
         run.phase \in {"unlink", "verify"} =>
           \/ res = "QUARANTINED"
           \/ /\ res = "FAILED" /\ Current.place \in unread'
              /\ file[Current.place] = Current.asset
           \/ Current.loc \in touched \/ Current.place \in touched
           \/ file[Current.loc] = Current.asset /\ file[Current.place] = Current.asset
  PROVE  TakenUpInv'
<1>1. /\ run'.kind = run.kind /\ run'.op = run.op /\ run'.phase = "next" /\ run'.todo = run.todo
      /\ run.op \in Op /\ touched' = touched
      /\ DOMAIN items'[run.op] = DOMAIN items[run.op]
      /\ \A i \in DOMAIN items[run.op] :
           /\ items'[run.op][i].asset = items[run.op][i].asset
           /\ items'[run.op][i].loc = items[run.op][i].loc
           /\ items'[run.op][i].place = items[run.op][i].place
  BY SettleRows, CurrentRow DEF AInv, Others
<1>2. TurnInv /\ \A i \in DOMAIN items[run.op] : MovedAway(i) => Recorded(i)
  BY TakenUpParts
<1>3. /\ run.row = run.cur /\ run.cur \notin run.todo /\ run.cur \in DOMAIN items[run.op]
      /\ Current = items[run.op][run.cur] /\ Current.result = "PLANNED"
      /\ run.todo \subseteq DOMAIN items[run.op]
  BY <1>2, CurrentRow DEF TurnInv, AInv, IInv, RunInv
<1>4. \A i \in DOMAIN items[run.op] :
        items'[run.op][i].result = IF i = run.cur THEN res ELSE items[run.op][i].result
  BY <1>3, SettleResult DEF AInv
<1>5. TurnInv'
  BY <1>1, <1>2, <1>3, <1>4 DEF TurnInv
<1>6. ASSUME NEW i \in DOMAIN items[run.op], MovedAway(i)'
      PROVE  Recorded(i)'
  <2>1. Untouched(run.op, i)'
    BY <1>1, <1>6 DEF MovedAway, Untouched
  <2>2. Untouched(run.op, i)
    BY <1>1, <2>1, SameRows
  <2>3. MovedAway(i)
    BY <1>1, <1>6, <2>2 DEF MovedAway
  <2>4. CASE \E j \in DOMAIN items[run.op] : /\ items[run.op][j].place = items[run.op][i].place
                                             /\ items[run.op][j].result = "QUARANTINED"
    BY <1>1, <1>3, <1>4, <2>4 DEF Recorded
  <2>5. CASE run.phase \in {"unlink", "verify"} /\ Current.place = items[run.op][i].place
    <3>1. Current.loc \notin touched /\ Current.place \notin touched
      BY <1>3, <2>2, <2>5 DEF Untouched
    <3>2. CASE res = "QUARANTINED"
      BY <1>1, <1>3, <1>4, <2>5, <3>2 DEF Recorded
    <3>3. CASE file[Current.loc] = Current.asset /\ file[Current.place] = Current.asset
      <4>1. items[run.op][i].asset = Current.asset
        BY <2>3, <2>5, <3>3 DEF MovedAway
      <4>2. i = run.cur
        BY <1>3, <2>5, <4>1 DEF Unambiguous, SameRow
      <4> QED
        BY <1>3, <2>3, <3>3, <4>2 DEF MovedAway
    <3>4. CASE /\ res = "FAILED" /\ Current.place \in unread'
               /\ file[Current.place] = Current.asset
      <4>1. items[run.op][i].asset = Current.asset
        BY <2>3, <2>5, <3>4 DEF MovedAway
      <4>2. i = run.cur
        BY <1>3, <2>5, <4>1 DEF Unambiguous, SameRow
      <4> QED
        BY <1>1, <1>3, <1>4, <3>4, <4>2 DEF Recorded
    <3> QED
      BY <2>5, <3>1, <3>2, <3>3, <3>4
  <2>6. CASE items[run.op][i].place \in unread /\ items[run.op][i].result = "FAILED"
    <3>1. items'[run.op][i].result = "FAILED"
      BY <1>3, <1>4, <2>6
    <3> QED
      BY <1>1, <2>6, <3>1 DEF Recorded
  <2> QED
    BY <1>2, <2>3, <2>4, <2>5, <2>6 DEF Recorded
<1>7. \A i \in DOMAIN items'[run.op] : MovedAway(i)' => Recorded(i)'
  BY <1>1, <1>6
<1>8. (TakenUpInv)' <=> ((run.kind = "quarantine" /\ Unambiguous(run.op))' =>
                    TurnInv' /\ \A i \in DOMAIN items'[run'.op] : MovedAway(i)' => Recorded(i)')
  BY DEF TakenUpInv, TurnInv, MovedAway, Recorded
<1> QED
  BY <1>1, <1>5, <1>7, <1>8

\* One step of an item of a quarantine.
LEMMA ItemTakenUp ==
  ASSUME AInv, TakenUpInv, run.kind = "quarantine", Unambiguous(run.op),
         CheckItem \/ Rename \/ CopyBegin \/ CopyEnd \/ Unlink \/ MoveFails \/ VerifyItem
  PROVE  TakenUpInv'
<1>1. /\ run.phase \notin {"idle", "next"} /\ Others
      /\ Current.asset \in Content /\ From = Current.loc /\ To = Current.place
  BY CurrentRow DEF CheckItem, Rename, CopyBegin, CopyEnd, Unlink, MoveFails, VerifyItem
<1>2. CASE /\ CheckItem \/ Rename \/ CopyBegin \/ CopyEnd \/ Unlink
           /\ \E ph \in {"move", "copying", "unlink", "verify"} : Advance(ph)
  BY <1>1, <1>2, AdvanceTakenUp
<1>3. CASE CheckItem /\ \E res \in Result : Settle(res)
  BY <1>1, <1>3, SettleTakenUp DEF CheckItem
<1>4. CASE MoveFails
  <2>1. run.phase \in {"move", "copying", "unlink"} /\ Settle("FAILED") /\ file' = file
        /\ unread' = unread
    BY <1>4 DEF MoveFails
  <2>2. run.phase = "unlink" => \/ Current.loc \in touched \/ Current.place \in touched
                                \/ file[Current.loc] = Current.asset
                                   /\ file[Current.place] = Current.asset
    BY <1>1 DEF AInv, ActiveInv, EndsInv
  <2>3. "FAILED" \in Result
    BY DEF Result
  <2> QED
    BY <1>1, <2>1, <2>2, <2>3, SettleTakenUp
<1>5. CASE VerifyItem
  <2>1. run.phase = "verify" /\ file' = file /\ unread \subseteq unread'
    BY <1>5 DEF VerifyItem, Unreadable
  <2>2. CASE file[Current.place] = Current.asset
    <3>1. /\ \/ Settle("QUARANTINED")
             \/ Settle("FAILED") /\ Current.place \in unread'
          /\ "QUARANTINED" \in Result /\ "FAILED" \in Result
      BY <1>1, <1>5, <2>2, QuarantineConstants DEF VerifyItem, Unreadable, Result
    <3> QED
      BY <1>1, <2>1, <2>2, <3>1, SettleTakenUp
  <2>3. CASE file[Current.place] # Current.asset
    <3>1. Current.loc \in touched \/ Current.place \in touched
      BY <1>1, <2>1, <2>3 DEF AInv, ActiveInv, EndsInv
    <3>2. PICK res \in Result : Settle(res)
      BY <1>5 DEF VerifyItem, Result
    <3> QED
      BY <1>1, <2>1, <3>1, <3>2, SettleTakenUp
  <2> QED
    BY <2>2, <2>3
<1> QED
  BY <1>2, <1>3, <1>4, <1>5 DEF CheckItem, Rename, CopyBegin, CopyEnd, Unlink, Result

\* An item is taken up under its own row.
LEMMA NextItemTakenUp ==
  ASSUME AInv, TakenUpInv, run.kind = "quarantine", Unambiguous(run.op), NextItem
  PROVE  TakenUpInv'
<1>1. /\ run \in Run /\ run.phase = "next" /\ run.op \in Op /\ items' = items /\ file' = file
      /\ touched' = touched /\ unread' = unread /\ run.todo \subseteq DOMAIN items[run.op]
  BY DEF NextItem, AInv, IInv, RunInv, TypeOK
<1>2. PICK i \in run.todo, r \in DOMAIN items[run.op] :
        /\ FirstRow(run.op, i, r)
        /\ run' = [run EXCEPT !.todo = @ \ {i}, !.cur = i, !.phase = "check", !.row = r]
  BY DEF NextItem
<1>3. r = i
  BY <1>1, <1>2 DEF FirstRow, Unambiguous
<1>4. /\ run'.kind = run.kind /\ run'.op = run.op /\ run'.phase = "check" /\ run'.cur = i
      /\ run'.row = i /\ run'.todo = run.todo \ {i}
  BY <1>1, <1>2, <1>3 DEF Run
<1>5. TurnInv /\ \A k \in DOMAIN items[run.op] : MovedAway(k) => Recorded(k)
  BY TakenUpParts
<1>6. TurnInv'
  BY <1>1, <1>2, <1>4, <1>5 DEF TurnInv, Current
<1>7. ASSUME NEW k \in DOMAIN items[run.op], MovedAway(k)' PROVE Recorded(k)'
  BY <1>1, <1>4, <1>5, <1>7 DEF MovedAway, Untouched, Recorded
<1>8. (TakenUpInv)' <=> ((run.kind = "quarantine" /\ Unambiguous(run.op))' =>
                    TurnInv' /\ \A k \in DOMAIN items'[run'.op] : MovedAway(k)' => Recorded(k)')
  BY DEF TakenUpInv, TurnInv, MovedAway, Recorded
<1> QED
  BY <1>1, <1>4, <1>6, <1>7, <1>8

\* A plan starts with nothing in quarantine and no row with a result.
LEMMA StartTakenUp ==
  ASSUME AInv, StartExecute
  PROVE  TakenUpInv'
<1>1. /\ reviewed \in Op /\ status[reviewed] = "PLANNED" /\ saved.status[reviewed] = "PLANNED"
      /\ file' = file /\ items' = items /\ touched' = touched
      /\ \A i \in DOMAIN items[reviewed] :
           /\ items[reviewed][i].result = "PLANNED"
           /\ items[reviewed][i].place[1] = reviewed
  BY DEF AInv, IInv, TypeOK, StartExecute, ActiveInv, JournalInv, JInv, WriteAhead
<1>2. /\ run'.kind = "quarantine" /\ run'.op = reviewed /\ run'.phase = "next"
      /\ run'.todo = DOMAIN items[reviewed]
  BY DEF StartExecute, NotRunning
<1>3. TurnInv'
  BY <1>1, <1>2 DEF TurnInv
<1>4. ASSUME NEW i \in DOMAIN items[reviewed], MovedAway(i)' PROVE FALSE
  <2> DEFINE it == items[reviewed][i]
  <2>1. it \in Item
    BY <1>1, RowType DEF AInv, AnyOp
  <2>2. it.place \in QLoc \ touched /\ file[it.place] = it.asset /\ it.asset \in Content
    BY <1>1, <1>2, <1>4, <2>1 DEF MovedAway, Untouched, Item
  <2> QED
    BY <1>1, <2>2, QuarantineConstants DEF AInv, JInv, VaultIsJournalled
<1>5. (TakenUpInv)' <=> ((run.kind = "quarantine" /\ Unambiguous(run.op))' =>
                    TurnInv' /\ \A k \in DOMAIN items'[run'.op] : MovedAway(k)' => Recorded(k)')
  BY DEF TakenUpInv, TurnInv, MovedAway, Recorded
<1> QED
  BY <1>1, <1>2, <1>3, <1>4, <1>5

\* What other operations and the user do during the run leaves its rows alone.
LEMMA AsideTakenUp ==
  ASSUME AInv, TakenUpInv, run' = run, touched \subseteq touched', unread' = unread,
         run.kind = "quarantine" => items'[run.op] = items[run.op],
         \A p \in Place \ touched' : file'[p] = file[p]
  PROVE  TakenUpInv'
<1> SUFFICES ASSUME run.kind = "quarantine", Unambiguous(run.op)' PROVE TakenUpInv'
  BY DEF TakenUpInv
<1>1. run.op \in Op /\ items'[run.op] = items[run.op]
  BY DEF AInv, IInv, RunInv
<1>2. Unambiguous(run.op)
  BY <1>1, SameRows
<1>3. TurnInv /\ \A k \in DOMAIN items[run.op] : MovedAway(k) => Recorded(k)
  BY <1>2, TakenUpParts
<1>4. Current' = Current
  BY <1>1 DEF Current
<1>5. TurnInv'
  BY <1>1, <1>3, <1>4 DEF TurnInv
<1>6. ASSUME NEW k \in DOMAIN items[run.op], MovedAway(k)' PROVE Recorded(k)'
  <2>1. items[run.op][k] \in Item
    BY <1>1, RowType DEF AInv, AnyOp
  <2>2. /\ items[run.op][k].loc \in Place /\ items[run.op][k].place \in Place
        /\ items[run.op][k].loc \notin touched' /\ items[run.op][k].place \notin touched'
    BY <1>1, <1>6, <2>1 DEF MovedAway, Untouched, Item, Place
  <2>3. Untouched(run.op, k)
    BY <1>1, <1>6 DEF MovedAway, Untouched
  <2>4. Recorded(k)
    BY <1>1, <1>3, <1>6, <2>2, <2>3 DEF MovedAway
  <2> QED
    BY <1>1, <1>4, <2>4 DEF Recorded
<1>7. (TakenUpInv)' <=> ((run.kind = "quarantine" /\ Unambiguous(run.op))' =>
                    TurnInv' /\ \A k \in DOMAIN items'[run'.op] : MovedAway(k)' => Recorded(k)')
  BY DEF TakenUpInv, TurnInv, MovedAway, Recorded
<1> QED
  BY <1>1, <1>5, <1>6, <1>7

\* One step of the program or of its environment.
LEMMA StepTakenUp == AInv /\ TakenUpInv /\ [Next]_vars => TakenUpInv'
<1> SUFFICES ASSUME AInv, TakenUpInv, [Next]_vars PROVE TakenUpInv'
  OBVIOUS
<1>1. CASE Worker
  <2>1. CASE Finish
    BY <2>1 DEF Finish, NotRunning, TakenUpInv
  <2>2. CASE ~Finish
    <3>1. run'.kind = run.kind /\ run'.op = run.op /\ run.op \in Op
      <4>1. CASE NextItem
        BY <4>1 DEF NextItem, AInv, IInv, RunInv, TypeOK, Run
      <4>2. CASE ~NextItem
        <5>1. /\ run.phase \notin {"idle", "next"} /\ Others
              /\ \/ \E res \in Result : Settle(res)
                 \/ \E ph \in {"move", "copying", "unlink", "verify"} : Advance(ph)
          BY <1>1, <2>2, <4>2 DEF Worker, CheckItem, Rename, CopyBegin, CopyEnd, Unlink,
             MoveFails, VerifyItem, Result
        <5>2. run \in Run /\ run.op \in Op
          BY <5>1, CurrentRow DEF AInv, IInv, TypeOK
        <5> QED
          BY <5>1, <5>2, SettleRows DEF AInv, Advance, Run
      <4> QED
        BY <4>1, <4>2
    <3>2. CASE run.kind = "quarantine"
      <4>1. Unambiguous(run.op)' <=> Unambiguous(run.op)
        <5>1. CASE NextItem \/ (\E ph \in {"move", "copying", "unlink", "verify"} : Advance(ph))
          <6>1. items' = items
            BY <3>2, <5>1 DEF NextItem, Advance, db
          <6> QED
            BY <3>1, <6>1 DEF Unambiguous, SameRow
        <5>2. CASE ~NextItem /\ \E res \in Result : Settle(res)
          <6>1. run.phase \notin {"idle", "next"} /\ touched' = touched
            BY <1>1, <2>2, <5>2 DEF Worker, CheckItem, Rename, CopyBegin, CopyEnd, Unlink,
               MoveFails, VerifyItem, Others
          <6> QED
            BY <3>1, <5>2, <6>1, SettleRows, SameRows DEF AInv
        <5> QED
          BY <1>1, <2>2, <5>1, <5>2 DEF Worker, CheckItem, Rename, CopyBegin, CopyEnd, Unlink,
             MoveFails, VerifyItem, Result
      <4>2. CASE Unambiguous(run.op)
        BY <1>1, <2>2, <3>2, <4>2, NextItemTakenUp, ItemTakenUp DEF Worker
      <4>3. CASE ~Unambiguous(run.op)
        BY <3>1, <4>1, <4>3 DEF TakenUpInv
      <4> QED
        BY <4>2, <4>3
    <3>3. CASE run.kind # "quarantine"
      BY <3>1, <3>3 DEF TakenUpInv
    <3> QED
      BY <3>2, <3>3
  <2> QED
    BY <2>1, <2>2
<1>2. ASSUME NEW o \in Op, NEW u \in Undo, StartUndo(o, u) PROVE TakenUpInv'
  BY <1>2 DEF StartUndo, NotRunning, TakenUpInv
<1>3. CASE Crash
  BY <1>3 DEF Crash, NotRunning, TakenUpInv
<1>4. ASSUME NEW o \in Op, NEW paths \in Listings, BuildPlan(o, paths) PROVE TakenUpInv'
  <2>1. /\ run' = run /\ file' = file /\ touched' = touched /\ status[o] = "NONE"
        /\ unread' = unread
        /\ items' = [items EXCEPT ![o] = [i \in DOMAIN paths |-> PlanRow(o, paths[i])]]
    BY <1>4 DEF BuildPlan
  <2>2. run.kind = "quarantine" => run.op # o /\ run.op \in AnyOp
    BY <2>1 DEF AInv, IInv, RunInv, AnyOp
  <2>3. run.kind = "quarantine" => items'[run.op] = items[run.op]
    BY <2>1, <2>2 DEF AInv, IInv, TypeOK, Journal
  <2> QED
    BY <2>1, <2>3, AsideTakenUp
<1>5. ASSUME NEW p \in Place, NEW c \in Content \cup {Absent}, UserEdit(p, c) PROVE TakenUpInv'
  <2>1. /\ run' = run /\ items' = items /\ touched' = touched \cup {p}
        /\ file' = [file EXCEPT ![p] = c] /\ unread' = unread
    BY <1>5 DEF UserEdit, db
  <2>2. \A q \in Place \ touched' : file'[q] = file[q]
    BY <2>1 DEF AInv, IInv, TypeOK
  <2> QED
    BY <2>1, <2>2, AsideTakenUp
<1>6. CASE UNCHANGED vars
  BY <1>6, AsideTakenUp DEF vars
<1>7. ASSUME NEW paths \in Listings, RefusePlan(paths) PROVE TakenUpInv'
  BY <1>7, AsideTakenUp DEF RefusePlan, db
<1> QED
  BY <1>1, <1>2, <1>3, <1>4, <1>5, <1>6, <1>7, StartTakenUp DEF Next

\* Only the final commit of its own run makes an operation finished.
LEMMA WhoFinishes ==
  ASSUME AInv, [Next]_vars, NEW o \in Op, ~Finished(o), Finished(o)'
  PROVE  Finish /\ run.kind = "quarantine" /\ run.op = o
<1>1. status'[o] # status[o] /\ status'[o] \notin {"NONE", "PLANNED", "RUNNING"} /\ o \in AnyOp
  BY DEF Finished, AnyOp
<1>2. status \in [AnyOp -> Status] /\ saved.status[o] = status[o] /\ reviewed \in Op \cup {None}
  BY DEF AInv, IInv, TypeOK, JInv, WriteAhead
<1>3. ASSUME NEW p \in Op, NEW paths \in Listings, BuildPlan(p, paths) PROVE FALSE
  BY <1>1, <1>2, <1>3 DEF BuildPlan, AnyOp
<1>4. CASE StartExecute
  BY <1>1, <1>2, <1>4 DEF StartExecute, AnyOp
<1>5. ASSUME NEW p \in Op, NEW u \in Undo, StartUndo(p, u) PROVE FALSE
  BY <1>1, <1>2, <1>5 DEF StartUndo, AnyOp
<1>6. CASE Finish
  <2>1. /\ run \in Run /\ run.kind # "idle" /\ (run.kind = "undo" => run.target \in Undo)
        /\ (run.kind = "quarantine" => run.target = run.op)
    BY <1>6 DEF AInv, IInv, RunInv, TypeOK, Finish
  <2>2. o = run.target
    BY <1>1, <1>2, <1>6 DEF Finish
  <2> QED
    BY <1>6, <2>1, <2>2, QuarantineConstants DEF Run
<1>7. ASSUME status' = status \/ Crash PROVE FALSE
  BY <1>1, <1>2, <1>7 DEF Crash
<1> QED
  BY <1>3, <1>4, <1>5, <1>6, <1>7 DEF Next, Worker, NextItem, CheckItem, Rename, CopyBegin,
     CopyEnd, Unlink, MoveFails, VerifyItem, Others, RefusePlan, UserEdit, db, vars

\* Every file a finished operation moved and did not leave behind is recorded
\* so that undo takes it up, or could not be read back and is journalled as
\* FAILED, provided its rows can be told apart.
THEOREM QuarantineFinishedIsUndoable == Spec => FinishedIsUndoable
<1>1. Init => TakenUpInv
  BY DEF Init, NotRunning, TakenUpInv
<1>2. AInv /\ TakenUpInv /\ [Next]_vars =>
        [\A o \in Op : ~Finished(o) /\ Finished(o)' /\ Unambiguous(o) =>
           \A i \in DOMAIN items[o] : OnlyInQuarantine(o, i) =>
             \/ TakenByUndo(o, i)
             \/ items[o][i].place \in unread /\ items[o][i].result = "FAILED"]_vars
  <2> SUFFICES ASSUME AInv, TakenUpInv, [Next]_vars, NEW o \in Op, ~Finished(o), Finished(o)',
                      Unambiguous(o), NEW i \in DOMAIN items[o], OnlyInQuarantine(o, i)
               PROVE  \/ TakenByUndo(o, i)
                      \/ items[o][i].place \in unread /\ items[o][i].result = "FAILED"
    OBVIOUS
  <2>1. run.phase = "next" /\ run.kind = "quarantine" /\ run.op = o
    BY WhoFinishes DEF Finish
  <2> QED
    BY <2>1 DEF TakenUpInv, OnlyInQuarantine, TakenByUndo
<1> QED
  BY <1>1, <1>2, StepTakenUp, ActiveInvariance, PTL DEF Spec, FinishedIsUndoable

-------------------------------------------------------------------------------
\* Row i is taken up by the undo in progress, and no longer being worked on.
TakenUp(i) ==
  /\ items[run.op][i].result = "QUARANTINED" /\ Untouched(run.op, i)
  /\ run.phase = "next" \/ i # run.cur

BackAt(i) ==
  LET it == items[run.op][i] IN file[it.loc] = it.asset /\ ~catalog[it.loc].missing

\* The first two parts of PutBackInv: when undo operations run.
UndoRuns ==
  /\ \A u \in Undo : /\ status[u] = "RUNNING" <=> (run.kind = "undo" /\ run.target = u)
                     /\ saved.status[u] # "RUNNING"
  /\ run.kind = "undo" => saved.status[run.target] = "NONE"

\* PutBackInv in these terms.
LEMMA PutBackParts ==
  PutBackInv <=> /\ UndoRuns
                 /\ run.kind = "undo" /\ run.failed = 0 /\ run.conflicts = 0 =>
                      \A i \in DOMAIN items[run.op] \ run.todo : TakenUp(i) => BackAt(i)
BY DEF PutBackInv, UndoRuns, TakenUp, BackAt

\* The steps of an undo that move on with an item.
LEMMA AdvancePutBack ==
  ASSUME AInv, PutBackInv, run.kind = "undo", Others,
         NEW ph \in {"move", "copying", "unlink", "verify"},
         CheckItem \/ Rename \/ CopyBegin \/ CopyEnd \/ Unlink, Advance(ph)
  PROVE  PutBackInv'
<1>1. run.phase \in {"check", "move", "copying", "unlink"}
  BY DEF CheckItem, Rename, CopyBegin, CopyEnd, Unlink
<1>2. /\ run'.kind = run.kind /\ run'.op = run.op /\ run'.todo = run.todo /\ run'.cur = run.cur
      /\ run'.target = run.target /\ run'.phase = ph
      /\ run'.failed = run.failed /\ run'.conflicts = run.conflicts
      /\ items' = items /\ catalog' = catalog /\ status' = status /\ saved' = saved
      /\ touched' = touched /\ run.op \in Op
  BY <1>1, AdvanceKeeps, CurrentRow DEF AInv, Advance, IInv, TypeOK, Run, Others, db
<1>3. UndoRuns'
  BY <1>2, PutBackParts DEF UndoRuns
<1>4. ASSUME run.failed = 0, run.conflicts = 0, NEW i \in DOMAIN items[run.op] \ run.todo,
             TakenUp(i)'
      PROVE  BackAt(i)'
  <2> DEFINE it == items[run.op][i]
  <2>1. TakenUp(i) /\ it.loc \notin touched
    BY <1>2, <1>4 DEF TakenUp, Untouched
  <2>2. file[it.loc] = it.asset /\ ~catalog[it.loc].missing
    BY <1>4, <2>1, PutBackParts DEF BackAt
  <2>3. it \in Item /\ it.loc \in Loc /\ it.asset \in Content
    BY <1>2, RowType DEF AInv, Item, AnyOp
  <2>4. file'[it.loc] = file[it.loc]
    <3>1. CASE CheckItem
      BY <3>1 DEF CheckItem
    <3>2. CASE ~CheckItem
      BY <2>1, <2>2, <2>3, <3>2, FileStep, QuarantineConstants
    <3> QED
      BY <3>1, <3>2
  <2> QED
    BY <1>2, <2>2, <2>4 DEF BackAt
<1>5. PutBackInv' <=> /\ UndoRuns'
                      /\ run'.kind = "undo" /\ run'.failed = 0 /\ run'.conflicts = 0 =>
                           \A i \in DOMAIN items'[run'.op] \ run'.todo : TakenUp(i)' => BackAt(i)'
  BY DEF PutBackInv, UndoRuns, TakenUp, BackAt
<1> QED
  BY <1>2, <1>3, <1>4, <1>5

\* The steps of an undo that settle an item: failed, or put back.
LEMMA SettlePutBack ==
  ASSUME AInv, PutBackInv, run.kind = "undo", Others,
         run.phase \notin {"idle", "next"}, file' = file,
         NEW res \in Result, Settle(res),
         \/ res \in {"FAILED", "SOURCE_CHANGED", "CONFLICT", "UNDO_FAILED_VERIFICATION"}
            /\ UNCHANGED catalog
         \/ file[Current.loc] = Current.asset /\ SetMissing(FALSE)
  PROVE  PutBackInv'
<1>1. /\ run'.kind = run.kind /\ run'.op = run.op /\ run'.phase = "next" /\ run'.todo = run.todo
      /\ run'.target = run.target
      /\ run.op \in Op /\ items'[run.op] = items[run.op]
  <2>1. run.target \in Undo /\ run.op \in Op
    BY DEF AInv, IInv, RunInv
  <2>2. run.op # run.target
    BY <2>1, QuarantineConstants
  <2> QED
    BY <2>1, <2>2, SettleRows DEF AInv
<1>2. /\ touched' = touched /\ status' = status /\ saved' = saved
      /\ run \in Run /\ run.failed \in Nat /\ run.conflicts \in Nat
  BY DEF Others, AInv, IInv, TypeOK, Run
<1>3. UndoRuns'
  BY <1>1, <1>2, PutBackParts DEF UndoRuns
<1>4. /\ run'.failed = run.failed + (IF res \in {"SOURCE_CHANGED", "FAILED",
              "QUARANTINE_FAILED_VERIFICATION", "UNDO_FAILED_VERIFICATION"} THEN 1 ELSE 0)
      /\ run'.conflicts = run.conflicts + (IF res = "CONFLICT" THEN 1 ELSE 0)
  BY <1>2 DEF Settle, Run
<1>5. ASSUME run'.failed = 0, run'.conflicts = 0
      PROVE  /\ run.failed = 0 /\ run.conflicts = 0
             /\ res \notin {"FAILED", "SOURCE_CHANGED", "CONFLICT", "UNDO_FAILED_VERIFICATION"}
  <2>1. CASE res \in {"SOURCE_CHANGED", "FAILED",
                      "QUARANTINE_FAILED_VERIFICATION", "UNDO_FAILED_VERIFICATION"}
    BY <1>2, <1>4, <1>5, <2>1
  <2>2. CASE res = "CONFLICT"
    BY <1>2, <1>4, <1>5, <2>2
  <2>3. CASE res \notin {"SOURCE_CHANGED", "FAILED", "CONFLICT",
                         "QUARANTINE_FAILED_VERIFICATION", "UNDO_FAILED_VERIFICATION"}
    BY <1>2, <1>4, <1>5, <2>3
  <2> QED
    BY <2>1, <2>2, <2>3
<1>6. ASSUME run'.failed = 0, run'.conflicts = 0, NEW i \in DOMAIN items[run.op] \ run.todo,
             TakenUp(i)'
      PROVE  BackAt(i)'
  <2> DEFINE it == items[run.op][i]
  <2>1. file[Current.loc] = Current.asset /\ SetMissing(FALSE)
    BY <1>5, <1>6
  <2>2. it \in Item /\ it.loc \in Loc
    BY <1>1, RowType DEF AInv, Item, AnyOp
  <2>3. /\ \A l \in Loc : l # Current.loc => catalog'[l] = catalog[l]
        /\ ~catalog'[Current.loc].missing
    <3>1. Current.loc \in Loc /\ catalog \in Catalog
      BY CurrentRow DEF AInv, IInv, TypeOK
    <3> QED
      BY <2>1, <3>1 DEF SetMissing, Catalog
  <2>4. CASE i = run.cur
    BY <1>1, <2>1, <2>3, <2>4, CurrentRow DEF BackAt
  <2>5. CASE i # run.cur
    <3>1. TakenUp(i)
      BY <1>1, <1>2, <1>6, <2>5 DEF TakenUp, Untouched
    <3>2. BackAt(i)
      BY <1>5, <1>6, <3>1, PutBackParts
    <3> QED
      BY <1>1, <2>2, <2>3, <3>2 DEF BackAt
  <2> QED
    BY <2>4, <2>5
<1>7. PutBackInv' <=> /\ UndoRuns'
                      /\ run'.kind = "undo" /\ run'.failed = 0 /\ run'.conflicts = 0 =>
                           \A i \in DOMAIN items'[run'.op] \ run'.todo : TakenUp(i)' => BackAt(i)'
  BY DEF PutBackInv, UndoRuns, TakenUp, BackAt
<1> QED
  BY <1>1, <1>3, <1>6, <1>7

\* One step of an item of an undo.
LEMMA ItemPutBack ==
  ASSUME AInv, PutBackInv, run.kind = "undo",
         CheckItem \/ Rename \/ CopyBegin \/ CopyEnd \/ Unlink \/ MoveFails \/ VerifyItem
  PROVE  PutBackInv'
<1>1. /\ run.phase \notin {"idle", "next"} /\ Others
      /\ From = Current.place /\ To = Current.loc
  BY CurrentRow DEF CheckItem, Rename, CopyBegin, CopyEnd, Unlink, MoveFails, VerifyItem
<1>2. CASE /\ CheckItem \/ Rename \/ CopyBegin \/ CopyEnd \/ Unlink
           /\ \E ph \in {"move", "copying", "unlink", "verify"} : Advance(ph)
  BY <1>1, <1>2, AdvancePutBack
<1>3. CASE /\ file' = file
           /\ \E res \in Result :
                /\ Settle(res)
                /\ \/ res \in {"FAILED", "SOURCE_CHANGED", "CONFLICT", "UNDO_FAILED_VERIFICATION"}
                      /\ UNCHANGED catalog
                   \/ file[Current.loc] = Current.asset /\ SetMissing(FALSE)
  BY <1>1, <1>3, SettlePutBack
<1>4. CASE CheckItem
  BY <1>1, <1>2, <1>3, <1>4 DEF CheckItem, Result
<1>5. CASE MoveFails
  BY <1>3, <1>5 DEF MoveFails, Result
<1>6. CASE VerifyItem
  <2>1. file' = file /\ ~(run.kind = "quarantine")
    BY <1>6 DEF VerifyItem
  <2>2. (run.kind = "quarantine") = FALSE
    BY <2>1
  <2>3. \/ Settle("FAILED") /\ UNCHANGED catalog
        \/ Settle("UNDO_FAILED_VERIFICATION") /\ UNCHANGED catalog
        \/ file[To] = Current.asset /\ Settle("RESTORED") /\ SetMissing(FALSE)
    BY <1>6, <2>2 DEF VerifyItem
  <2> QED
    BY <1>1, <1>3, <2>1, <2>3 DEF Result
<1> QED
  BY <1>2, <1>4, <1>5, <1>6 DEF Rename, CopyBegin, CopyEnd, Unlink

\* A run in the other direction, or none, and what is done beside an undo.
LEMMA AsidePutBack ==
  ASSUME AInv, PutBackInv, UndoRuns', touched \subseteq touched',
         run'.kind = "undo" =>
           /\ run' = run /\ items'[run.op] = items[run.op] /\ catalog' = catalog
           /\ \A p \in Place \ touched' : file'[p] = file[p]
  PROVE  PutBackInv'
<1>1. ASSUME run'.kind = "undo", run'.failed = 0, run'.conflicts = 0,
             NEW i \in DOMAIN items'[run'.op] \ run'.todo, TakenUp(i)'
      PROVE  BackAt(i)'
  <2>1. /\ run' = run /\ items'[run.op] = items[run.op] /\ catalog' = catalog /\ run.op \in AnyOp
    BY <1>1 DEF AInv, IInv, RunInv, AnyOp
  <2>2. items[run.op][i] \in Item
    BY <1>1, <2>1, RowType DEF AInv
  <2>3. items[run.op][i].loc \in Place \ touched'
    BY <1>1, <2>1, <2>2 DEF TakenUp, Untouched, Item, Place
  <2>4. TakenUp(i)
    BY <1>1, <2>1 DEF TakenUp, Untouched
  <2>5. BackAt(i)
    BY <1>1, <2>1, <2>4, PutBackParts
  <2> QED
    BY <1>1, <2>1, <2>3, <2>5 DEF BackAt
<1>2. PutBackInv' <=> /\ UndoRuns'
                      /\ run'.kind = "undo" /\ run'.failed = 0 /\ run'.conflicts = 0 =>
                           \A i \in DOMAIN items'[run'.op] \ run'.todo : TakenUp(i)' => BackAt(i)'
  BY DEF PutBackInv, UndoRuns, TakenUp, BackAt
<1> QED
  BY <1>1, <1>2

\* An undo takes up the next of the files it has to put back.
LEMMA NextItemPutBack ==
  ASSUME AInv, PutBackInv, run.kind = "undo", NextItem
  PROVE  PutBackInv'
<1>1. /\ run \in Run /\ run.phase = "next" /\ run.op \in Op /\ run.target \in Undo
      /\ items \in Journal
  BY DEF NextItem, AInv, IInv, RunInv, TypeOK
<1>2. /\ items'[run.op] = items[run.op] /\ file' = file /\ catalog' = catalog
      /\ touched' = touched /\ status' = status /\ saved' = saved
  BY <1>1, QuarantineConstants DEF NextItem, Journal, AnyOp
<1>3. PICK i \in run.todo :
        /\ run'.kind = run.kind /\ run'.op = run.op /\ run'.target = run.target
        /\ run'.todo = run.todo \ {i} /\ run'.cur = i /\ run'.phase = "check"
        /\ run'.failed = run.failed /\ run'.conflicts = run.conflicts
  BY <1>1 DEF NextItem, Run
<1>4. UndoRuns'
  BY <1>2, <1>3, PutBackParts DEF UndoRuns
<1>5. ASSUME run.failed = 0, run.conflicts = 0, NEW k \in DOMAIN items[run.op] \ run'.todo,
             TakenUp(k)'
      PROVE  BackAt(k)'
  <2>1. k \notin run.todo /\ TakenUp(k)
    BY <1>1, <1>2, <1>3, <1>5 DEF TakenUp, Untouched
  <2>2. BackAt(k)
    BY <1>5, <2>1, PutBackParts
  <2> QED
    BY <1>2, <1>3, <2>2 DEF BackAt
<1>6. PutBackInv' <=> /\ UndoRuns'
                      /\ run'.kind = "undo" /\ run'.failed = 0 /\ run'.conflicts = 0 =>
                           \A k \in DOMAIN items'[run'.op] \ run'.todo : TakenUp(k)' => BackAt(k)'
  BY DEF PutBackInv, UndoRuns, TakenUp, BackAt
<1> QED
  BY <1>2, <1>3, <1>4, <1>5, <1>6

\* An undo starts with every quarantined row of its operation still to do.
LEMMA StartPutBack ==
  ASSUME AInv, PutBackInv, NEW o \in Op, NEW u \in Undo, StartUndo(o, u)
  PROVE  PutBackInv'
<1>1. /\ run.kind = "idle" /\ saved = InMemory /\ status[u] = "NONE" /\ u \in AnyOp
      /\ status \in [AnyOp -> Status] /\ \A v \in Undo : v \in AnyOp
  BY DEF StartUndo, AInv, ActiveInv, JournalInv, IInv, TypeOK, AnyOp
<1>2. /\ status' = [status EXCEPT ![u] = "RUNNING"] /\ saved' = saved
      /\ run'.kind = "undo" /\ run'.target = u /\ run'.op = o
      /\ run'.todo = {i \in DOMAIN items[o] : items[o][i].result = "QUARANTINED"}
      /\ items' = items
  BY DEF StartUndo, NotRunning
<1>3. saved.status = status
  BY <1>1 DEF InMemory
<1>4. UndoRuns'
  BY <1>1, <1>2, <1>3, PutBackParts DEF UndoRuns
<1>5. PutBackInv' <=> /\ UndoRuns'
                      /\ run'.kind = "undo" /\ run'.failed = 0 /\ run'.conflicts = 0 =>
                           \A k \in DOMAIN items'[run'.op] \ run'.todo : TakenUp(k)' => BackAt(k)'
  BY DEF PutBackInv, UndoRuns, TakenUp, BackAt
<1> QED
  BY <1>2, <1>4, <1>5 DEF TakenUp

\* The steps that change a status or commit one.
LEMMA StatusPutBack ==
  ASSUME AInv, PutBackInv,
         \/ Finish \/ StartExecute \/ Crash
         \/ \E o \in Op, paths \in Listings : BuildPlan(o, paths)
  PROVE  UndoRuns' /\ (run'.kind # "undo")
<1>1. /\ status \in [AnyOp -> Status] /\ \A v \in Undo : v \in AnyOp
      /\ reviewed \in Op \cup {None} /\ run \in Run
      /\ saved \in [catalog: Catalog, items: Journal, status: [AnyOp -> Status]]
  BY DEF AInv, IInv, TypeOK, AnyOp
<1>2. UndoRuns
  BY PutBackParts
<1>3. CASE Finish
  <2>1. /\ status' = [status EXCEPT ![run.target] = FinalStatus] /\ run'.kind = "idle"
        /\ saved'.status = status' /\ FinalStatus # "RUNNING"
    BY <1>3 DEF Finish, NotRunning, FinalStatus
  <2>2. \A u \in Undo : status'[u] # "RUNNING"
    <3>1. run.kind = "undo" \/ run.kind = "quarantine"
      BY <1>1, <1>3 DEF Finish, AInv, IInv, RunInv, Run
    <3> QED
      BY <1>1, <1>2, <2>1, <3>1 DEF UndoRuns
  <2> QED
    BY <2>1, <2>2 DEF UndoRuns
<1>4. CASE StartExecute
  <2>1. /\ status' = [status EXCEPT ![reviewed] = "RUNNING"] /\ run'.kind = "quarantine"
        /\ saved'.status = status' /\ run.kind = "idle" /\ reviewed \in Op
    BY <1>1, <1>4 DEF StartExecute, NotRunning
  <2>2. \A u \in Undo : u # reviewed /\ status'[u] = status[u] /\ status[u] # "RUNNING"
    BY <1>1, <1>2, <2>1, QuarantineConstants DEF UndoRuns
  <2> QED
    BY <2>1, <2>2 DEF UndoRuns
<1>5. CASE Crash
  <2>1. status' = saved.status /\ saved' = saved /\ run'.kind = "idle"
    BY <1>5 DEF Crash, NotRunning
  <2> QED
    BY <1>2, <2>1 DEF UndoRuns
<1>6. ASSUME NEW o \in Op, NEW paths \in Listings, BuildPlan(o, paths)
      PROVE  UndoRuns' /\ (run'.kind # "undo")
  <2>1. /\ status' = [status EXCEPT ![o] = "PLANNED"] /\ saved'.status = status' /\ run' = run
        /\ saved.status = status
    BY <1>1, <1>6 DEF BuildPlan, NoWriter, InMemory
  <2>2. \A u \in Undo : status'[u] = status[u]
    BY <1>1, <2>1, QuarantineConstants
  <2>3. run.kind # "undo"
    <3>1. run.kind = "undo" => run.target \in Undo
      BY DEF AInv, IInv, RunInv
    <3> QED
      BY <1>2, <2>1, <3>1 DEF UndoRuns
  <2> QED
    BY <1>2, <2>1, <2>2, <2>3 DEF UndoRuns
<1> QED
  BY <1>3, <1>4, <1>5, <1>6

\* One step of the program or of its environment.
LEMMA StepPutBack == AInv /\ PutBackInv /\ [Next]_vars => PutBackInv'
<1> SUFFICES ASSUME AInv, PutBackInv, [Next]_vars PROVE PutBackInv'
  OBVIOUS
<1>1. touched \subseteq touched'
  BY DEF Next, Worker, NextItem, CheckItem, Rename, CopyBegin, CopyEnd, Unlink, MoveFails,
     VerifyItem, Finish, Others, BuildPlan, RefusePlan, StartExecute, StartUndo, Crash, UserEdit,
     vars
<1>2. UndoRuns
  BY PutBackParts
<1>3. CASE \/ Finish \/ StartExecute \/ Crash
           \/ \E o \in Op, paths \in Listings : BuildPlan(o, paths)
  BY <1>1, <1>3, StatusPutBack, AsidePutBack
<1>4. CASE Worker /\ ~Finish
  <2>1. CASE run.kind = "undo"
    BY <1>4, <2>1, NextItemPutBack, ItemPutBack DEF Worker
  <2>2. CASE run.kind # "undo"
    <3>1. status' = status /\ saved' = saved
      BY <1>4 DEF Worker, NextItem, CheckItem, Rename, CopyBegin, CopyEnd, Unlink, MoveFails,
         VerifyItem, Others
    <3>2. run'.kind = run.kind
      <4>1. CASE NextItem
        BY <4>1 DEF NextItem, AInv, IInv, TypeOK, Run
      <4>2. CASE ~NextItem
        <5>1. /\ run.phase \notin {"idle", "next"}
              /\ \/ \E res \in Result : Settle(res)
                 \/ \E ph \in {"move", "copying", "unlink", "verify"} : Advance(ph)
          BY <1>4, <4>2 DEF Worker, CheckItem, Rename, CopyBegin, CopyEnd, Unlink,
             MoveFails, VerifyItem, Result
        <5>2. run \in Run
          BY DEF AInv, IInv, TypeOK
        <5> QED
          BY <5>1, <5>2, SettleRows DEF AInv, Advance, Run
      <4> QED
        BY <4>1, <4>2
    <3>3. UndoRuns'
      BY <1>2, <2>2, <3>1, <3>2 DEF UndoRuns
    <3> QED
      BY <1>1, <2>2, <3>2, <3>3, AsidePutBack
  <2> QED
    BY <2>1, <2>2
<1>5. ASSUME NEW p \in Place, NEW c \in Content \cup {Absent}, UserEdit(p, c) PROVE PutBackInv'
  <2>1. /\ run' = run /\ items' = items /\ touched' = touched \cup {p} /\ catalog' = catalog
        /\ file' = [file EXCEPT ![p] = c] /\ status' = status /\ saved' = saved
    BY <1>5 DEF UserEdit, db
  <2>2. \A q \in Place \ touched' : file'[q] = file[q]
    BY <2>1 DEF AInv, IInv, TypeOK
  <2>3. UndoRuns'
    BY <1>2, <2>1 DEF UndoRuns
  <2> QED
    BY <2>1, <2>2, <2>3, AsidePutBack
<1>6. ASSUME UNCHANGED vars \/ \E paths \in Listings : RefusePlan(paths) PROVE PutBackInv'
  <2>1. /\ run' = run /\ items' = items /\ touched' = touched /\ catalog' = catalog
        /\ file' = file /\ status' = status /\ saved' = saved
    BY <1>6 DEF vars, RefusePlan, db
  <2>2. UndoRuns'
    BY <1>2, <2>1 DEF UndoRuns
  <2> QED
    BY <2>1, <2>2, AsidePutBack
<1> QED
  BY <1>3, <1>4, <1>5, <1>6, StartPutBack DEF Next

\* An undo that reports COMPLETED has put every quarantined file of its
\* operation back and made its catalog row active.
THEOREM QuarantineUndoRestores == Spec => UndoRestores
<1> DEFINE Restored ==
      \A u \in Undo : status'[u] = "COMPLETED" /\ status[u] = "RUNNING" =>
        \A i \in DOMAIN items[run.op] :
          LET it == items[run.op][i] IN
          it.result = "QUARANTINED" /\ Untouched(run.op, i) =>
            file[it.loc] = it.asset /\ ~saved'.catalog[it.loc].missing
<1>1. Init => PutBackInv
  BY DEF Init, NotRunning, InMemory, PutBackInv, AnyOp
<1>2. AInv /\ PutBackInv /\ [Next]_vars => [Restored]_vars
  <2> SUFFICES ASSUME AInv, PutBackInv, [Next]_vars,
                      NEW u \in Undo, status'[u] = "COMPLETED", status[u] = "RUNNING",
                      NEW i \in DOMAIN items[run.op],
                      items[run.op][i].result = "QUARANTINED", Untouched(run.op, i)
               PROVE  /\ file[items[run.op][i].loc] = items[run.op][i].asset
                      /\ ~saved'.catalog[items[run.op][i].loc].missing
    OBVIOUS
  <2>1. run.kind = "undo" /\ run.target = u /\ u \in AnyOp /\ saved.status[u] = "NONE"
    BY PutBackParts DEF UndoRuns, AnyOp
  <2>2. Finish
    <3>1. status \in [AnyOp -> Status] /\ reviewed \in Op \cup {None}
      BY DEF AInv, IInv, TypeOK
    <3>2. ASSUME NEW o \in Op, NEW paths \in Listings, BuildPlan(o, paths) PROVE FALSE
      BY <2>1, <3>1, <3>2, QuarantineConstants DEF BuildPlan
    <3>3. ASSUME NEW o \in Op, NEW v \in Undo, StartUndo(o, v) PROVE FALSE
      BY <2>1, <3>3 DEF StartUndo
    <3>4. ASSUME StartExecute PROVE FALSE
      BY <2>1, <3>4 DEF StartExecute
    <3>5. ASSUME status' = status \/ Crash PROVE FALSE
      BY <2>1, <3>5 DEF Crash
    <3> QED
      BY <3>2, <3>3, <3>4, <3>5 DEF Next, Worker, NextItem, CheckItem, Rename, CopyBegin,
         CopyEnd, Unlink, MoveFails, VerifyItem, Others, RefusePlan, UserEdit, db, vars
  <2>3. /\ run.phase = "next" /\ run.todo = {} /\ saved'.catalog = catalog
        /\ FinalStatus = "COMPLETED"
    BY <2>1, <2>2 DEF Finish, AInv, IInv, TypeOK
  <2>4. run.failed = 0 /\ run.conflicts = 0
    BY <2>3 DEF FinalStatus
  <2>5. TakenUp(i)
    BY <2>3 DEF TakenUp
  <2>6. BackAt(i)
    BY <2>1, <2>3, <2>4, <2>5, PutBackParts
  <2> QED
    BY <2>3, <2>6 DEF BackAt
<1> HIDE DEF Restored
<1> QED
  BY <1>1, <1>2, StepPutBack, ActiveInvariance, PTL DEF Spec, UndoRestores, Restored
===============================================================================
