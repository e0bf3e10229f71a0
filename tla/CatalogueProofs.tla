---------------------------- MODULE CatalogueProofs ----------------------------
(***************************************************************************)
(* Proofs about Scanner, for every set of volumes, paths and contents, any *)
(* number of scans, edits, unpluggings, failures and crashes: the catalog  *)
(* trusts no false hash, shows what is there, and drops nothing in use.    *)
(* About Audits, over the catalog that scans leave: what they tell the     *)
(* user of a folder or of an asset is so on the disks.  And about Browse,  *)
(* for any number of photos and reviews: pages show each photo once.       *)
(***************************************************************************)
EXTENDS Catalogue, FiniteSetTheorems, TLAPS

\* Every row and every verification is of an asset that is there.
AssetsOf(cat) == RowAssets(cat.rows) \cup cat.history \subseteq cat.assets

\* A row's stamp is one the place has had, so that the next change has a new one.
StampsOf(cat) == \A pl \in Place : \A s \in Rows(cat, pl) : cat.rows[pl][s].stamp <= used.events

\* A cached hash that would be trusted is that of the file.
HashesOf(cat) ==
  \A pl \in Place \ silent : \A s \in Rows(cat, pl) :
    file[pl] # Absent /\ cat.rows[pl][s].stamp = stamp[pl] => cat.rows[pl][s].asset = file[pl]

CatInv(cat) == AssetsOf(cat) /\ StampsOf(cat) /\ HashesOf(cat)

StampInv == run.stat <= used.events /\ \A pl \in Place : stamp[pl] <= used.events

\* The committed view of a volume where nothing has changed.
ExactAt(pl) ==
  pl[1] \in settled =>
    IF ~Readable(pl) THEN Active(saved, pl) = {}
    ELSE \E s \in Source : /\ Active(saved, pl) = {s}
                           /\ pl \notin silent => saved.rows[pl][s].asset = file[pl]

\* Outside a scan all is committed.  A scan changes rows of its volume only,
\* and a place that had an active row keeps one.
RunInv ==
  /\ run.phase = "idle" => saved = catalog
  /\ run.phase # "idle" =>
       /\ run.vol \in Volume /\ \A p \in run.todo : Here(p) \in Place
       /\ run.phase = "hash" => run.cur \in Path \ run.todo /\ Here(run.cur) \in Place
       /\ run.phase = "walk" => run.cur = None
       /\ catalog.noted \subseteq saved.noted
       /\ \A pl \in Place : /\ pl[1] # run.vol => catalog.rows[pl] = saved.rows[pl]
                            /\ Active(saved, pl) # {} => Active(catalog, pl) # {}

SeenAt(pl) == {s \in Source : <<pl, s>> \in run.seen}

\* What the session has written of a place: active rows, once the walk has got
\* to it; and of a place that nothing disturbs the one row of its file.
SeenInv ==
  run.phase # "idle" => \A pl \in Place :
    /\ SeenAt(pl) \subseteq Active(catalog, pl)
    /\ pl[2] \in run.todo \/ pl[2] = run.cur => SeenAt(pl) = {}

CalmAt(pl) ==
  /\ ~Readable(pl) => SeenAt(pl) = {}
  /\ Readable(pl) /\ run.errors = 0 /\ pl[2] \notin run.todo /\ pl[2] # run.cur => SeenAt(pl) # {}
  /\ \A s, t \in SeenAt(pl) : s = t
  /\ pl \notin silent => \A s \in SeenAt(pl) : catalog.rows[pl][s].asset = file[pl]

CalmInv ==
  run.phase # "idle" /\ run.calm =>
    /\ run.vol \in mounted
    /\ run.phase = "hash" => Readable(Here(run.cur)) /\ run.stat = stamp[Here(run.cur)]
    /\ \A pl \in Place : pl[1] = run.vol => CalmAt(pl)

IInv ==
  /\ TypeOK /\ StampInv
  /\ CatInv(catalog) /\ CatInv(saved)
  /\ RunInv /\ SeenInv /\ CalmInv
  /\ \A pl \in Place : ExactAt(pl)

-------------------------------------------------------------------------------
(***************************************************************************)
(* Places, rows and the parts of the state.                                *)
(***************************************************************************)
RowMap == [Place -> [Source -> Row \cup {None}]]
CatType == [rows: RowMap, assets: SUBSET Content, history: SUBSET Content, noted: SUBSET Content]
RunType == [phase: {"idle", "walk", "hash"}, vol: Volume \cup {None}, todo: SUBSET Path,
            cur: Path \cup {None}, stat: Nat, seen: SUBSET (Place \X Source),
            errors: Nat, calm: BOOLEAN]

\* A place is a volume and a path.
LEMMA Places ==
  /\ \A pl \in Place : pl[1] \in Volume /\ pl[2] \in Path /\ pl = <<pl[1], pl[2]>>
  /\ \A p : Here(p)[1] = run.vol /\ Here(p)[2] = p
  /\ \A pl \in Place : pl[1] = run.vol => pl = Here(pl[2])
  BY ScannerConstants DEF Here

\* A row that is there has its fields.
LEMMA RowsTyped ==
  ASSUME NEW cat \in CatType, NEW pl \in Place
  PROVE  /\ cat.rows \in RowMap
         /\ \A s : s \in Rows(cat, pl) <=> s \in Source /\ cat.rows[pl][s] # None
         /\ \A s \in Source : cat.rows[pl][s] \in Row \cup {None}
         /\ \A s \in Rows(cat, pl) : /\ cat.rows[pl][s] \in Row
                                     /\ cat.rows[pl][s].asset \in Content
                                     /\ cat.rows[pl][s].stamp \in Int
                                     /\ cat.rows[pl][s].missing \in BOOLEAN
         /\ \A s : s \in Active(cat, pl) <=> s \in Rows(cat, pl) /\ ~cat.rows[pl][s].missing
  BY DEF CatType, RowMap, Rows, Active, Row, Elsewhere

\* The assets that rows refer to.
LEMMA RowAssetsAre ==
  ASSUME NEW rows \in RowMap
  PROVE  /\ \A c : c \in RowAssets(rows) <=>
                     \E pl \in Place, s \in Source : rows[pl][s] # None /\ rows[pl][s].asset = c
         /\ RowAssets(rows) \subseteq Content
<1>1. \A c : c \in RowAssets(rows) <=>
               \E pl \in Place, s \in Source : rows[pl][s] # None /\ rows[pl][s].asset = c
  BY DEF RowAssets
<1>2. \A pl \in Place, s \in Source : rows[pl][s] # None => rows[pl][s].asset \in Content
  BY DEF RowMap, Row
<1> QED BY <1>1, <1>2

\* The fields of the state.
LEMMA Typed ==
  ASSUME TypeOK
  PROVE  /\ catalog \in CatType /\ saved \in CatType /\ run \in RunType
         /\ catalog.history \cup catalog.noted \subseteq catalog.assets
         /\ saved.history \cup saved.noted \subseteq saved.assets
         /\ \A pl \in Place : file[pl] \in Content \cup {Absent} /\ stamp[pl] \in Nat
         /\ used.events \in Nat /\ used.runs \in Nat
         /\ run.phase \in {"idle", "walk", "hash"} /\ run.vol \in Volume \cup {None}
         /\ run.todo \subseteq Path /\ run.cur \in Path \cup {None} /\ run.stat \in Nat
         /\ run.seen \subseteq Place \X Source /\ run.errors \in Nat /\ run.calm \in BOOLEAN
         /\ held \in Hash \cup {None} /\ barred \subseteq Place
  BY DEF TypeOK, CatalogOK, CatType, RunType, RowMap

\* A row that is written.
LEMMA NewRow ==
  \A c \in Content, n \in Nat, b \in BOOLEAN : [asset |-> c, stamp |-> n, missing |-> b] \in Row
  BY DEF Row

\* The locals between two scans.
LEMMA NotRunningTyped ==
  /\ NotRunning \in RunType /\ NotRunning.phase = "idle" /\ NotRunning.stat = 0
  /\ NotRunning.seen = {} /\ NotRunning.errors = 0 /\ NotRunning.cur = None
  BY DEF NotRunning, RunType

\* A step that writes neither the files nor the catalog.
LEMMA QuietStep ==
  ASSUME IInv, UNCHANGED <<file, stamp, barred, silent, catalog, saved, outcome, settled>>,
         mounted' \subseteq Volume, held' \in Hash \cup {None}, online' \subseteq Volume,
         used' \in [runs: Nat, events: Nat], used'.events = used.events,
         run' \in RunType, run'.stat <= used.events
  PROVE  /\ TypeOK' /\ StampInv' /\ CatInv(catalog)' /\ CatInv(saved)'
         /\ \A pl \in Place : ExactAt(pl)'
<1>1. TypeOK'
  BY DEF IInv, TypeOK, RunType, CatalogOK
<1>2. StampInv'
  BY DEF IInv, StampInv
<1>3. CatInv(catalog)'
  BY DEF IInv, CatInv, AssetsOf, StampsOf, HashesOf, RowAssets, Rows
<1>4. CatInv(saved)'
  BY DEF IInv, CatInv, AssetsOf, StampsOf, HashesOf, RowAssets, Rows
<1>5. \A pl \in Place : ExactAt(pl)'
  BY DEF IInv, ExactAt, Readable, Active, Rows
<1> QED BY <1>1, <1>2, <1>3, <1>4, <1>5

-------------------------------------------------------------------------------
(***************************************************************************)
(* The walk keeps the invariant.                                           *)
(***************************************************************************)
LEMMA InitInv == Init => IInv
<1> SUFFICES ASSUME Init PROVE IInv
  OBVIOUS
<1>1. PICK src \in [Place -> Source], old \in [Place -> Content \cup {None}] :
        LET RowOf(pl) == IF file[pl] # Absent
                           THEN [asset |-> file[pl], stamp |-> 0, missing |-> FALSE]
                           ELSE IF old[pl] = None THEN None
                                ELSE [asset |-> old[pl], stamp |-> 0, missing |-> TRUE]
            rows == [pl \in Place |-> [s \in Source |-> IF s = src[pl] THEN RowOf(pl) ELSE None]]
        IN  \E history \in {{}, RowAssets(rows)} :
              catalog = [rows |-> rows, assets |-> RowAssets(rows),
                         history |-> history, noted |-> RowAssets(rows)]
  BY DEF Init
<1> DEFINE RowOf(pl) == IF file[pl] # Absent
                          THEN [asset |-> file[pl], stamp |-> 0, missing |-> FALSE]
                          ELSE IF old[pl] = None THEN None
                               ELSE [asset |-> old[pl], stamp |-> 0, missing |-> TRUE]
           rows == [pl \in Place |-> [s \in Source |-> IF s = src[pl] THEN RowOf(pl) ELSE None]]
<1>2. /\ file \in [Place -> Content \cup {Absent}] /\ stamp = [pl \in Place |-> 0]
      /\ mounted = Volume /\ online = Volume /\ saved = catalog /\ run = NotRunning
      /\ outcome = [v \in Volume |-> "COMPLETED"] /\ settled = Volume /\ silent = {}
      /\ used = [runs |-> 0, events |-> 0] /\ barred = {} /\ held = None
  BY DEF Init
<1>3. PICK history \in {{}, RowAssets(rows)} :
        catalog = [rows |-> rows, assets |-> RowAssets(rows),
                   history |-> history, noted |-> RowAssets(rows)]
  BY <1>1
<1>4. \A pl \in Place : /\ RowOf(pl) \in Row \cup {None}
                        /\ file[pl] # Absent => /\ RowOf(pl) # None /\ RowOf(pl).asset = file[pl]
                                                /\ ~RowOf(pl).missing
                        /\ RowOf(pl) # None => RowOf(pl).stamp = 0
                        /\ file[pl] = Absent /\ RowOf(pl) # None => RowOf(pl).missing
  <2> SUFFICES ASSUME NEW pl \in Place
               PROVE  /\ RowOf(pl) \in Row \cup {None}
                      /\ file[pl] # Absent => /\ RowOf(pl) # None /\ RowOf(pl).asset = file[pl]
                                              /\ ~RowOf(pl).missing
                      /\ RowOf(pl) # None => RowOf(pl).stamp = 0
                      /\ file[pl] = Absent /\ RowOf(pl) # None => RowOf(pl).missing
    OBVIOUS
  <2>1. file[pl] \in Content \cup {Absent} /\ old[pl] \in Content \cup {None}
    BY <1>2
  <2>2. CASE file[pl] # Absent
    <3>1. RowOf(pl) = [asset |-> file[pl], stamp |-> 0, missing |-> FALSE] /\ file[pl] \in Content
      BY <2>1, <2>2
    <3>2. RowOf(pl) \in Row
      BY <3>1, NewRow
    <3> QED BY <2>2, <3>1, <3>2, ScannerConstants
  <2>3. CASE file[pl] = Absent /\ old[pl] = None
    BY <2>3
  <2>4. CASE file[pl] = Absent /\ old[pl] # None
    <3>1. RowOf(pl) = [asset |-> old[pl], stamp |-> 0, missing |-> TRUE] /\ old[pl] \in Content
      BY <2>1, <2>4
    <3>2. RowOf(pl) \in Row
      BY <3>1, NewRow
    <3> QED BY <2>4, <3>1, <3>2
  <2> QED BY <2>2, <2>3, <2>4
<1> HIDE DEF RowOf
<1>5. rows \in RowMap
      /\ \A pl \in Place, s \in Source : rows[pl][s] = IF s = src[pl] THEN RowOf(pl) ELSE None
  BY <1>4 DEF RowMap
<1> HIDE DEF rows
<1>6. catalog \in CatType /\ CatalogOK(catalog)
  BY <1>3, <1>5, RowAssetsAre DEF CatType, CatalogOK, RowMap
<1>7. catalog.rows = rows /\ AssetsOf(catalog)
  BY <1>3 DEF AssetsOf
<1>8. TypeOK
  BY <1>2, <1>6, NotRunningTyped DEF TypeOK, RunType
<1>9. StampInv
  BY <1>2, NotRunningTyped DEF StampInv
<1>10. \A pl \in Place : /\ \A s : s \in Rows(catalog, pl) <=> s = src[pl] /\ RowOf(pl) # None
                         /\ \A s : s \in Active(catalog, pl) <=> s = src[pl] /\ file[pl] # Absent
                         /\ \A s \in Rows(catalog, pl) : catalog.rows[pl][s] = RowOf(pl)
  <2> SUFFICES ASSUME NEW pl \in Place
               PROVE  /\ \A s : s \in Rows(catalog, pl) <=> s = src[pl] /\ RowOf(pl) # None
                      /\ \A s : s \in Active(catalog, pl) <=> s = src[pl] /\ file[pl] # Absent
                      /\ \A s \in Rows(catalog, pl) : catalog.rows[pl][s] = RowOf(pl)
    OBVIOUS
  <2>1. \A s : s \in Rows(catalog, pl) <=> s = src[pl] /\ RowOf(pl) # None
    BY <1>5, <1>7 DEF Rows
  <2>2. \A s \in Rows(catalog, pl) : catalog.rows[pl][s] = RowOf(pl)
    BY <1>5, <1>7, <2>1
  <2> QED BY <1>4, <2>1, <2>2 DEF Active
<1>11. CatInv(catalog) /\ CatInv(saved)
  BY <1>2, <1>4, <1>7, <1>10 DEF CatInv, StampsOf, HashesOf, AssetsOf
<1>12. RunInv /\ SeenInv /\ CalmInv
  BY <1>2, NotRunningTyped DEF RunInv, SeenInv, CalmInv
<1>13. ASSUME NEW pl \in Place PROVE ExactAt(pl)
  <2>1. file[pl] = Absent => Active(catalog, pl) = {}
    BY <1>10
  <2>2. file[pl] # Absent => Active(catalog, pl) = {src[pl]} /\ catalog.rows[pl][src[pl]].asset = file[pl]
    BY <1>4, <1>10
  <2> QED BY <1>2, <2>1, <2>2 DEF ExactAt, Readable
<1> QED BY <1>8, <1>9, <1>11, <1>12, <1>13 DEF IInv

\* A scan begins.
LEMMA StartScanStep ==
  ASSUME IInv, NEW v \in Volume, StartScan(v)
  PROVE  IInv'
<1> DEFINE there == v \in mounted
           names == {p \in Path : <<v, p>> \in Place}
<1>0. there \in BOOLEAN /\ names \subseteq Path
  OBVIOUS
<1>1. /\ run' \in RunType /\ run'.phase = "walk" /\ run'.vol = v /\ run'.cur = None /\ run'.seen = {}
      /\ run'.todo = names /\ run'.calm = there /\ run'.stat = 0
  <2>1. run' = [NotRunning EXCEPT !.phase = "walk", !.vol = v, !.todo = names, !.calm = there]
    BY DEF StartScan
  <2> HIDE DEF there, names
  <2> QED BY <1>0, <2>1, NotRunningTyped DEF RunType
<1>2. used' \in [runs: Nat, events: Nat] /\ used'.events = used.events
  BY DEF StartScan, IInv, TypeOK
<1>3. /\ UNCHANGED <<file, stamp, mounted, barred, held, online, catalog, saved, outcome, settled, silent>>
      /\ run.phase = "idle"
  BY DEF StartScan
<1>4. TypeOK' /\ StampInv' /\ CatInv(catalog)' /\ CatInv(saved)' /\ \A pl \in Place : ExactAt(pl)'
  BY <1>1, <1>2, <1>3, QuietStep, Typed DEF IInv, TypeOK
<1>5. RunInv'
  BY <1>1, <1>3 DEF IInv, RunInv, Here
<1>6. \A pl \in Place : SeenAt(pl)' = {}
  BY <1>1 DEF SeenAt
<1>7. SeenInv'
  BY <1>6 DEF SeenInv
<1>8. ASSUME NEW pl \in Place, pl[1] = v PROVE CalmAt(pl)'
  <2>1. pl[2] \in run'.todo
    BY <1>1, <1>8, Places
  <2> QED BY <1>6, <2>1 DEF CalmAt
<1>9. CalmInv'
  BY <1>1, <1>3, <1>8 DEF CalmInv
<1> QED BY <1>4, <1>5, <1>7, <1>9 DEF IInv

\* The walk passes a path.
LEMMA SkipPathStep ==
  ASSUME IInv, SkipPath
  PROVE  IInv'
<1>0. TypeOK /\ RunInv /\ SeenInv /\ CalmInv /\ StampInv
  BY DEF IInv
<1>1. PICK p \in run.todo : ~Visible(p) /\ run' = [run EXCEPT !.todo = @ \ {p}]
  BY DEF SkipPath
<1>2. /\ run' \in RunType /\ run'.phase = "walk" /\ run'.vol = run.vol /\ run'.cur = run.cur
      /\ run'.seen = run.seen /\ run'.todo = run.todo \ {p} /\ run'.calm = run.calm
      /\ run'.errors = run.errors /\ run'.stat = run.stat /\ run.phase = "walk"
  BY <1>0, <1>1, Typed DEF SkipPath, RunType
<1>3. UNCHANGED <<file, stamp, mounted, barred, held, online, catalog, saved, outcome, settled, silent, used>>
  BY DEF SkipPath, Scanning
<1>4. TypeOK' /\ StampInv' /\ CatInv(catalog)' /\ CatInv(saved)' /\ \A pl \in Place : ExactAt(pl)'
  BY <1>0, <1>2, <1>3, QuietStep DEF TypeOK, StampInv
<1>5. RunInv'
  BY <1>0, <1>2, <1>3 DEF RunInv, Here, Active, Rows
<1>6. \A pl \in Place : SeenAt(pl)' = SeenAt(pl)
  BY <1>2 DEF SeenAt
<1>7. SeenInv'
  BY <1>0, <1>2, <1>3, <1>6 DEF SeenInv, Active, Rows
<1>8. ASSUME run.calm, NEW pl \in Place, pl[1] = run.vol PROVE CalmAt(pl)'
  <2>1. CalmAt(pl) /\ run.vol \in mounted
    BY <1>0, <1>2, <1>8 DEF CalmInv
  <2>2. pl[2] = p => ~Readable(pl)
    BY <1>1, <1>8, <2>1, Places DEF Visible
  <2>3. Readable(pl)' = Readable(pl)
    BY <1>3 DEF Readable
  <2> QED BY <1>2, <1>3, <1>6, <2>1, <2>2, <2>3 DEF CalmAt
<1>9. CalmInv'
  BY <1>0, <1>2, <1>3, <1>8 DEF CalmInv
<1> QED BY <1>4, <1>5, <1>7, <1>9 DEF IInv

\* Size and time are read.
LEMMA StatFileStep ==
  ASSUME IInv, StatFile
  PROVE  IInv'
<1>0. TypeOK /\ RunInv /\ SeenInv /\ CalmInv /\ StampInv
  BY DEF IInv
<1>1. PICK p \in run.todo :
        Visible(p) /\ run' = [run EXCEPT !.todo = @ \ {p}, !.cur = p, !.stat = stamp[Here(p)],
                                        !.phase = "hash"]
  BY DEF StatFile
<1>2. run.phase = "walk" /\ run.cur = None /\ p \in Path /\ Here(p) \in Place /\ stamp[Here(p)] \in Nat
  BY <1>0, <1>1, Typed DEF StatFile, RunInv
<1>3. /\ run' \in RunType /\ run'.phase = "hash" /\ run'.vol = run.vol /\ run'.cur = p
      /\ run'.seen = run.seen /\ run'.todo = run.todo \ {p} /\ run'.calm = run.calm
      /\ run'.errors = run.errors /\ run'.stat = stamp[Here(p)]
  BY <1>0, <1>1, <1>2, Typed DEF RunType
<1>4. UNCHANGED <<file, stamp, mounted, barred, held, online, catalog, saved, outcome, settled, silent, used>>
  BY DEF StatFile, Scanning
<1>5. TypeOK' /\ StampInv' /\ CatInv(catalog)' /\ CatInv(saved)' /\ \A pl \in Place : ExactAt(pl)'
  BY <1>0, <1>2, <1>3, <1>4, QuietStep DEF TypeOK, StampInv
<1>6. RunInv'
  BY <1>0, <1>2, <1>3, <1>4 DEF RunInv, Here, Active, Rows
<1>7. \A pl \in Place : SeenAt(pl)' = SeenAt(pl)
  BY <1>3 DEF SeenAt
<1>8. SeenInv'
  BY <1>0, <1>2, <1>3, <1>4, <1>7 DEF SeenInv, Active, Rows
<1>9. ASSUME run.calm, NEW pl \in Place, pl[1] = run.vol PROVE CalmAt(pl)'
  <2>1. CalmAt(pl)
    BY <1>0, <1>2, <1>9 DEF CalmInv
  <2>2. pl[2] # None /\ (pl[2] = p => Readable(pl))
    BY <1>1, <1>9, Places, ScannerConstants DEF Visible
  <2>3. Readable(pl)' = Readable(pl)
    BY <1>4 DEF Readable
  <2> QED BY <1>1, <1>2, <1>3, <1>4, <1>7, <2>1, <2>2, <2>3 DEF CalmAt
<1>10. Here(p)' = Here(p)
  BY <1>3 DEF Here
<1>11. CalmInv'
  <2>1. Readable(Here(p))' /\ run'.stat = stamp'[Here(p)]
    BY <1>1, <1>3, <1>4, <1>10 DEF Visible, Readable
  <2> QED BY <1>0, <1>2, <1>3, <1>4, <1>9, <1>10, <2>1 DEF CalmInv
<1> QED BY <1>5, <1>6, <1>8, <1>11 DEF IInv

\* A file cannot be read.
LEMMA FileErrorStep ==
  ASSUME IInv, run.phase = "hash", FileError, Scanning
  PROVE  IInv'
<1>0. TypeOK /\ RunInv /\ SeenInv /\ CalmInv /\ StampInv
  BY DEF IInv
<1>1. /\ run' \in RunType /\ run'.phase = "walk" /\ run'.vol = run.vol /\ run'.cur = None
      /\ run'.seen = run.seen /\ run'.todo = run.todo /\ run'.calm = run.calm
      /\ run'.errors # 0 /\ run'.stat = run.stat
  <2> DEFINE n == run.errors + 1
  <2>1. n \in Nat /\ n # 0 /\ run \in RunType
    BY <1>0, Typed
  <2>2. run' = [run EXCEPT !.phase = "walk", !.cur = None, !.errors = n]
    BY DEF FileError
  <2> HIDE DEF n
  <2> QED BY <2>1, <2>2 DEF RunType
<1>2. UNCHANGED <<file, stamp, mounted, barred, held, online, catalog, saved, outcome, settled, silent, used>>
  BY DEF FileError, Scanning
<1>3. TypeOK' /\ StampInv' /\ CatInv(catalog)' /\ CatInv(saved)' /\ \A pl \in Place : ExactAt(pl)'
  BY <1>0, <1>1, <1>2, QuietStep DEF TypeOK, StampInv
<1>4. RunInv'
  BY <1>0, <1>1, <1>2 DEF RunInv, Here, Active, Rows
<1>5. \A pl \in Place : SeenAt(pl)' = SeenAt(pl)
  BY <1>1 DEF SeenAt
<1>6. SeenInv'
  BY <1>0, <1>1, <1>2, <1>5, Places, ScannerConstants DEF SeenInv, Active, Rows
<1>7. ASSUME run.calm, NEW pl \in Place, pl[1] = run.vol PROVE CalmAt(pl)'
  <2>1. CalmAt(pl)
    BY <1>0, <1>7 DEF CalmInv
  <2>2. pl[2] # None
    BY Places, ScannerConstants
  <2>3. Readable(pl)' = Readable(pl)
    BY <1>2 DEF Readable
  <2> QED BY <1>1, <1>2, <1>5, <2>1, <2>2, <2>3 DEF CalmAt
<1>8. CalmInv'
  BY <1>0, <1>1, <1>2, <1>7 DEF CalmInv
<1> QED BY <1>3, <1>4, <1>6, <1>8 DEF IInv

-------------------------------------------------------------------------------
(***************************************************************************)
(* The hash of a file, the end of a scan and the crash keep the invariant. *)
(***************************************************************************)
\* The committed catalog stays.
LEMMA SavedStep ==
  ASSUME IInv, UNCHANGED <<file, stamp, barred, silent, saved, settled>>,
         used'.events = used.events, run'.stat <= used.events
  PROVE  StampInv' /\ CatInv(saved)' /\ \A pl \in Place : ExactAt(pl)'
<1>1. StampInv'
  BY DEF IInv, StampInv
<1>2. CatInv(saved)'
  BY DEF IInv, CatInv, AssetsOf, StampsOf, HashesOf, RowAssets, Rows
<1>3. \A pl \in Place : ExactAt(pl)'
  BY DEF IInv, ExactAt, Readable, Active, Rows
<1> QED BY <1>1, <1>2, <1>3

\* A scan is over, and all it has written is committed or rolled back.
LEMMA EndStep ==
  ASSUME IInv, Scanning, run' = NotRunning, saved' = catalog',
         catalog' \in CatType, (catalog.history \cup catalog.noted \subseteq catalog.assets)',
         CatInv(catalog)', online' \subseteq Volume, settled' \subseteq Volume,
         outcome' \in [Volume -> {"COMPLETED", "FAILED"}],
         \A pl \in Place : ExactAt(pl)'
  PROVE  IInv'
<1>1. TypeOK'
  BY NotRunningTyped DEF IInv, TypeOK, Scanning, CatalogOK, CatType, RowMap, RunType
<1>2. StampInv'
  BY Typed, NotRunningTyped DEF IInv, StampInv, Scanning
<1>3. CatInv(saved)'
  BY DEF CatInv, AssetsOf, StampsOf, HashesOf, RowAssets, Rows
<1>4. RunInv' /\ SeenInv' /\ CalmInv'
  BY NotRunningTyped DEF RunInv, SeenInv, CalmInv
<1> QED BY <1>1, <1>2, <1>3, <1>4 DEF IInv

\* A scan that raises: other volumes are as they were, this one is not settled.
LEMMA FailStep ==
  ASSUME IInv, Scanning, run.phase # "idle",
         run' = NotRunning, saved' = catalog', online' = online, settled' = settled \ {run.vol},
         outcome' = [outcome EXCEPT ![run.vol] = "FAILED"],
         catalog' \in CatType, (catalog.history \cup catalog.noted \subseteq catalog.assets)',
         CatInv(catalog)',
         \A pl \in Place : pl[1] # run.vol => catalog'.rows[pl] = catalog.rows[pl]
  PROVE  IInv'
<1>1. online' \subseteq Volume /\ settled' \subseteq Volume /\ outcome' \in [Volume -> {"COMPLETED", "FAILED"}]
  BY DEF IInv, TypeOK
<1>2. ASSUME NEW pl \in Place PROVE ExactAt(pl)'
  <2>1. CASE pl[1] = run.vol
    BY <2>1 DEF ExactAt
  <2>2. CASE pl[1] # run.vol
    <3>1. saved'.rows[pl] = saved.rows[pl]
      BY <2>2 DEF IInv, RunInv
    <3>2. ExactAt(pl)
      BY DEF IInv
    <3> QED BY <2>2, <3>1, <3>2 DEF ExactAt, Readable, Active, Rows, Scanning
  <2> QED BY <2>1, <2>2
<1> QED BY <1>1, <1>2, EndStep

\* The rows after one file is recorded: a row of the digest, at one source; the
\* others of the place stay, but the one without a source may go.
LEMMA UpsertedRows ==
  ASSUME TypeOK, Here(run.cur) \in Place, NEW s \in Source \cup {None}, NEW d \in Content
  PROVE  /\ Upserted(Here(run.cur), s, d) \in RowMap
         /\ KeptSource(s) \in Source
         /\ Upserted(Here(run.cur), s, d)[Here(run.cur)][KeptSource(s)] =
              [asset |-> d, stamp |-> run.stat, missing |-> FALSE]
         /\ \A q \in Place : q # Here(run.cur) =>
              Upserted(Here(run.cur), s, d)[q] = catalog.rows[q]
         /\ \A t \in Source : t # KeptSource(s) =>
              Upserted(Here(run.cur), s, d)[Here(run.cur)][t] \in {catalog.rows[Here(run.cur)][t], None}
<1> DEFINE pl == Here(run.cur)
           k == KeptSource(s)
           row == [asset |-> d, stamp |-> run.stat, missing |-> FALSE]
           upgraded == IF s = "null" THEN [catalog.rows[pl] EXCEPT !["null"] = None]
                       ELSE catalog.rows[pl]
           new == [upgraded EXCEPT ![k] = row]
<1>1. k \in Source
  BY DEF KeptSource, Source
<1>2. row \in Row
  BY Typed, NewRow
<1>3. catalog.rows \in RowMap /\ catalog.rows[pl] \in [Source -> Row \cup {None}]
  BY Typed DEF CatType, RowMap
<1>4. upgraded \in [Source -> Row \cup {None}]
      /\ \A t \in Source : upgraded[t] \in {catalog.rows[pl][t], None}
  BY <1>3
<1>5. Upserted(pl, s, d) = [catalog.rows EXCEPT ![pl] = new]
  BY DEF Upserted
<1> HIDE DEF pl, k, row, upgraded
<1>6. new \in [Source -> Row \cup {None}] /\ new[k] = row
      /\ \A t \in Source : t # k => new[t] \in {catalog.rows[pl][t], None}
  BY <1>1, <1>2, <1>4
<1> HIDE DEF new
<1>7. /\ [catalog.rows EXCEPT ![pl] = new] \in RowMap
      /\ [catalog.rows EXCEPT ![pl] = new][pl] = new
      /\ \A q \in Place : q # pl => [catalog.rows EXCEPT ![pl] = new][q] = catalog.rows[q]
  BY <1>3, <1>6 DEF RowMap, pl
<1>8. /\ Upserted(pl, s, d) \in RowMap /\ k \in Source /\ Upserted(pl, s, d)[pl][k] = row
      /\ \A q \in Place : q # pl => Upserted(pl, s, d)[q] = catalog.rows[q]
      /\ \A t \in Source : t # k => Upserted(pl, s, d)[pl][t] \in {catalog.rows[pl][t], None}
  BY <1>1, <1>5, <1>6, <1>7
<1> QED BY <1>8 DEF pl, k, row

\* What the catalog takes for the hash of the file in hand.
LEMMA DigestIs ==
  ASSUME IInv, run.phase = "hash", NEW s \in Source \cup {None},
         s # None => s \in Rows(catalog, Here(run.cur)),
         Cached(Here(run.cur), s) \/ Visible(run.cur)
  PROVE  /\ Digest(Here(run.cur), s) \in Content
         /\ LET pl == Here(run.cur) IN
            pl \notin silent /\ file[pl] # Absent /\ run.stat = stamp[pl] => Digest(pl, s) = file[pl]
<1> DEFINE pl == Here(run.cur)
<1>1. pl \in Place
  BY DEF IInv, RunInv
<1>2. catalog \in CatType /\ file[pl] \in Content \cup {Absent}
  BY <1>1, Typed DEF IInv
<1>3. CASE Cached(pl, s)
  <2>1. s \in Rows(catalog, pl) /\ catalog.rows[pl][s].stamp = run.stat
    BY <1>3 DEF Cached
  <2>2. Digest(pl, s) = catalog.rows[pl][s].asset
    BY <1>3 DEF Digest
  <2>3. Digest(pl, s) \in Content
    BY <1>1, <1>2, <2>1, <2>2, RowsTyped
  <2> HIDE DEF pl
  <2>4. pl \notin silent /\ file[pl] # Absent /\ run.stat = stamp[pl] => Digest(pl, s) = file[pl]
    BY <1>1, <2>1, <2>2 DEF IInv, CatInv, HashesOf
  <2> QED BY <2>3, <2>4 DEF pl
<1>4. CASE ~Cached(pl, s)
  <2>1. Digest(pl, s) = file[pl] /\ file[pl] # Absent
    BY <1>4 DEF Digest, Visible, Readable
  <2> QED BY <1>2, <2>1
<1> QED BY <1>3, <1>4

\* The catalog with the file recorded trusts no false hash, and refers to assets
\* that are there, also when the asset the row left behind is deleted.
LEMMA RecordedFile ==
  ASSUME IInv, run.phase = "hash", NEW s \in Source \cup {None},
         s # None => s \in Rows(catalog, Here(run.cur)),
         Cached(Here(run.cur), s) \/ Visible(run.cur),
         UNCHANGED <<file, stamp, silent, used>>,
         NEW gone, gone \cap RowAssets(Upserted(Here(run.cur), s, Digest(Here(run.cur), s))) = {},
         gone \cap catalog.history = {},
         catalog' = Without([catalog EXCEPT !.rows = Upserted(Here(run.cur), s, Digest(Here(run.cur), s)),
                                            !.assets = @ \cup {Digest(Here(run.cur), s)}], gone)
  PROVE  /\ catalog' \in CatType
         /\ catalog'.rows = Upserted(Here(run.cur), s, Digest(Here(run.cur), s))
         /\ catalog'.noted = catalog.noted \ gone
         /\ (catalog.history \cup catalog.noted \subseteq catalog.assets)'
         /\ CatInv(catalog)'
<1> DEFINE pl == Here(run.cur)
           k == KeptSource(s)
           d == Digest(pl, s)
           rows == Upserted(pl, s, d)
           row == [asset |-> d, stamp |-> run.stat, missing |-> FALSE]
<1>1. pl \in Place /\ TypeOK /\ CatInv(catalog) /\ StampInv
  BY DEF IInv, RunInv
<1>2. d \in Content /\ (pl \notin silent /\ file[pl] # Absent /\ run.stat = stamp[pl] => d = file[pl])
  BY DigestIs
<1>3. /\ rows \in RowMap /\ k \in Source /\ rows[pl][k] = row
      /\ \A q \in Place : q # pl => rows[q] = catalog.rows[q]
      /\ \A t \in Source : t # k => rows[pl][t] \in {catalog.rows[pl][t], None}
  <2> HIDE DEF d
  <2> QED BY <1>1, <1>2, UpsertedRows
<1>4. row \in Row /\ row # None /\ row.asset = d /\ row.stamp = run.stat
  BY <1>1, <1>2, Typed, NewRow, ScannerConstants
<1> HIDE DEF pl, k, d, rows, row
<1>5. /\ catalog \in CatType /\ catalog.history \cup catalog.noted \subseteq catalog.assets
      /\ RowAssets(catalog.rows) \cup catalog.history \subseteq catalog.assets
  BY <1>1, Typed DEF CatInv, AssetsOf
<1>6. catalog' = Without([catalog EXCEPT !.rows = rows, !.assets = @ \cup {d}], gone)
      /\ gone \cap RowAssets(rows) = {}
  BY DEF pl, d, rows
<1>7. /\ catalog' \in CatType /\ catalog'.rows = rows /\ catalog'.history = catalog.history
      /\ catalog'.assets = (catalog.assets \cup {d}) \ gone /\ catalog'.noted = catalog.noted \ gone
  <2> DEFINE c == [catalog EXCEPT !.rows = rows, !.assets = @ \cup {d}]
  <2>1. /\ c \in CatType /\ c.rows = rows /\ c.history = catalog.history
        /\ c.assets = catalog.assets \cup {d} /\ c.noted = catalog.noted
    BY <1>2, <1>3, <1>5 DEF CatType
  <2>2. catalog' = [c EXCEPT !.assets = @ \ gone, !.noted = @ \ gone]
    BY <1>6 DEF Without
  <2> HIDE DEF c
  <2> QED BY <2>1, <2>2 DEF CatType
<1>8. \A q \in Place, t \in Source : rows[q][t] # None =>
        \/ q = pl /\ t = k /\ rows[q][t] = row
        \/ catalog.rows[q][t] # None /\ rows[q][t] = catalog.rows[q][t]
  BY <1>3
<1>9. RowAssets(rows) \subseteq RowAssets(catalog.rows) \cup {d}
  <2>1. catalog.rows \in RowMap
    BY <1>5 DEF CatType
  <2> QED BY <1>3, <1>4, <1>8, <2>1, RowAssetsAre
<1>10. AssetsOf(catalog)'
  BY <1>5, <1>6, <1>7, <1>9 DEF AssetsOf
<1>11. StampsOf(catalog)'
  BY <1>1, <1>4, <1>7, <1>8 DEF StampsOf, Rows, CatInv, StampInv
<1>12. HashesOf(catalog)'
  BY <1>1, <1>2, <1>4, <1>7, <1>8 DEF HashesOf, Rows, CatInv
<1>13. catalog'.history \cup catalog'.noted \subseteq catalog'.assets
  BY <1>5, <1>6, <1>7
<1> QED BY <1>7, <1>10, <1>11, <1>12, <1>13 DEF CatInv, pl, d, rows

\* A file is recorded.
LEMMA CatalogueFileStep ==
  ASSUME IInv, run.phase = "hash", Scanning, NEW s \in Source \cup {None},
         s # None => s \in Rows(catalog, Here(run.cur)),
         Cached(Here(run.cur), s) \/ Visible(run.cur), CatalogueFile(s)
  PROVE  IInv'
<1>0. PICK pl \in Place : pl = Here(run.cur)
  BY DEF IInv, RunInv
<1> DEFINE k == KeptSource(s)
           d == Digest(pl, s)
           rows == Upserted(pl, s, d)
           gone == Obsolete(pl, s, rows)
           cat == [catalog EXCEPT !.rows = rows, !.assets = @ \cup {d}]
<1>1. /\ TypeOK /\ RunInv /\ SeenInv /\ CalmInv /\ StampInv
      /\ UNCHANGED <<file, stamp, barred, held, silent, used, mounted>>
  BY DEF IInv, RunInv, Scanning
<1>2. gone \cap RowAssets(rows) = {}
  BY DEF Obsolete
<1>3. /\ d \in Content /\ (pl \notin silent /\ file[pl] # Absent /\ run.stat = stamp[pl] => d = file[pl])
  BY <1>0, DigestIs
<1>4. /\ rows \in RowMap /\ k \in Source
      /\ rows[pl][k] = [asset |-> d, stamp |-> run.stat, missing |-> FALSE]
      /\ \A q \in Place : q # pl => rows[q] = catalog.rows[q]
  <2> HIDE DEF d
  <2> QED BY <1>0, <1>1, <1>3, UpsertedRows
<1>5. CASE gone \cap catalog.history # {}
  <2>1. Fail(cat)
    BY <1>0, <1>5 DEF CatalogueFile
  <2>2. catalog' = Without(cat, {})
    BY <1>1, <2>1, Typed DEF Fail, Without, CatType
  <2>3. /\ catalog' \in CatType /\ catalog'.rows = rows
        /\ (catalog.history \cup catalog.noted \subseteq catalog.assets)' /\ CatInv(catalog)'
    <3>1. {} \cap RowAssets(rows) = {} /\ {} \cap catalog.history = {}
      OBVIOUS
    <3> HIDE DEF gone
    <3> QED BY <1>0, <1>1, <2>2, <3>1, RecordedFile
  <2>4. \A q \in Place : q[1] # run.vol => catalog'.rows[q] = catalog.rows[q]
    BY <1>0, <1>4, <2>3, Places
  <2> QED BY <2>1, <2>3, <2>4, FailStep DEF Fail
<1>6. CASE gone \cap catalog.history = {}
  <2>1. /\ catalog' = Without(cat, gone)
        /\ run' = [run EXCEPT !.phase = "walk", !.cur = None, !.seen = @ \cup {<<pl, k>>}]
        /\ UNCHANGED <<online, saved, outcome, settled>>
    BY <1>0, <1>6 DEF CatalogueFile
  <2>2. /\ catalog' \in CatType /\ catalog'.rows = rows /\ catalog'.noted = catalog.noted \ gone
        /\ (catalog.history \cup catalog.noted \subseteq catalog.assets)' /\ CatInv(catalog)'
    BY <1>0, <1>1, <1>2, <1>6, <2>1, RecordedFile
  <2> HIDE DEF k, d, rows, gone, cat
  <2>3. /\ run' \in RunType /\ run'.phase = "walk" /\ run'.vol = run.vol /\ run'.cur = None
        /\ run'.seen = run.seen \cup {<<pl, k>>} /\ run'.todo = run.todo /\ run'.calm = run.calm
        /\ run'.errors = run.errors /\ run'.stat = run.stat
    <3> DEFINE e == <<pl, k>>
    <3>1. e \in Place \X Source /\ run \in RunType
      BY <1>1, <1>4, Typed
    <3>2. run' = [run EXCEPT !.phase = "walk", !.cur = None, !.seen = @ \cup {e}]
      BY <2>1
    <3> HIDE DEF e
    <3>3. /\ run' \in RunType /\ run'.phase = "walk" /\ run'.vol = run.vol /\ run'.cur = None
          /\ run'.seen = run.seen \cup {e} /\ run'.todo = run.todo /\ run'.calm = run.calm
          /\ run'.errors = run.errors /\ run'.stat = run.stat
      BY <3>1, <3>2 DEF RunType
    <3> QED BY <3>3 DEF e
  <2>4. StampInv' /\ CatInv(saved)' /\ \A q \in Place : ExactAt(q)'
    BY <1>1, <2>1, <2>3, SavedStep DEF StampInv
  <2>5. TypeOK'
    BY <1>1, <2>1, <2>2, <2>3 DEF TypeOK, CatalogOK, CatType, RowMap, RunType
  <2>6. \A q \in Place : q # pl => Active(catalog, q)' = Active(catalog, q)
    BY <1>4, <2>2 DEF Active, Rows
  <2>7. k \in Active(catalog, pl)'
    <3>1. rows[pl][k] \in Row
      BY <1>1, <1>3, <1>4, Typed, NewRow
    <3>2. rows[pl][k] # None /\ ~rows[pl][k].missing
      <4>1. rows[pl][k] # None
        BY <3>1, ScannerConstants
      <4>2. ~rows[pl][k].missing
        BY <1>4
      <4> QED BY <4>1, <4>2
    <3>3. k \in Source /\ catalog'.rows[pl][k] = rows[pl][k]
      BY <1>4, <2>2
    <3> QED BY <3>2, <3>3 DEF Active, Rows
  <2>8. pl[1] = run.vol /\ pl[2] = run.cur
    BY <1>0, Places
  <2>9. RunInv'
    <3>1. \A q \in Place : /\ q[1] # run.vol => catalog'.rows[q] = catalog.rows[q]
                           /\ Active(catalog, q) # {} => Active(catalog, q)' # {}
      <4> SUFFICES ASSUME NEW q \in Place
                   PROVE  /\ q[1] # run.vol => catalog'.rows[q] = catalog.rows[q]
                          /\ Active(catalog, q) # {} => Active(catalog, q)' # {}
        OBVIOUS
      <4>1. CASE q = pl
        BY <2>7, <2>8, <4>1
      <4>2. CASE q # pl
        BY <1>4, <2>2, <2>6, <4>2
      <4> QED BY <4>1, <4>2
    <3>2. \A q \in Place : Active(saved, q)' = Active(saved, q)
      BY <2>1 DEF Active, Rows
    <3> QED BY <1>1, <2>1, <2>2, <2>3, <3>1, <3>2 DEF RunInv, Here
  <2>10. \A q \in Place : SeenAt(q)' = IF q = pl THEN SeenAt(q) \cup {k} ELSE SeenAt(q)
    BY <1>4, <2>3 DEF SeenAt
  <2>11. SeenAt(pl) = {} /\ pl[2] \notin run.todo
    BY <1>1, <2>8 DEF SeenInv, RunInv
  <2>12. SeenInv'
    <3>1. ASSUME NEW q \in Place
          PROVE  /\ SeenAt(q)' \subseteq Active(catalog, q)'
                 /\ q[2] \in run.todo \/ q[2] = None => SeenAt(q)' = {}
      <4>1. SeenAt(q) \subseteq Active(catalog, q) /\ (q[2] \in run.todo => SeenAt(q) = {})
        BY <1>1 DEF SeenInv
      <4>2. q[2] # None
        BY Places, ScannerConstants
      <4>3. CASE q = pl
        BY <2>7, <2>10, <2>11, <4>2, <4>3
      <4>4. CASE q # pl
        BY <2>6, <2>10, <4>1, <4>2, <4>4
      <4> QED BY <4>3, <4>4
    <3> QED BY <2>3, <3>1 DEF SeenInv
  <2>13. ASSUME run.calm, NEW q \in Place, q[1] = run.vol PROVE CalmAt(q)'
    <3>0. Readable(pl) /\ file[pl] # Absent /\ \A r \in Place : Readable(r)' = Readable(r)
      BY <1>0, <1>1, <2>13 DEF CalmInv, Readable
    <3>1. CalmAt(q) /\ run.stat = stamp[pl]
      BY <1>0, <1>1, <2>13 DEF CalmInv
    <3>2. CASE q = pl
      <4>1. SeenAt(q)' = {k} /\ catalog'.rows[q][k].asset = d
        BY <1>4, <2>2, <2>10, <2>11, <3>2
      <4> QED BY <1>1, <1>3, <3>0, <3>1, <3>2, <4>1 DEF CalmAt
    <3>3. CASE q # pl
      <4>1. SeenAt(q)' = SeenAt(q) /\ catalog'.rows[q] = catalog.rows[q]
        BY <1>4, <2>2, <2>10, <3>3
      <4>2. q[2] # run.cur
        BY <1>0, <2>8, <2>13, <3>3, Places
      <4> QED BY <1>1, <2>3, <3>0, <3>1, <4>1, <4>2 DEF CalmAt
    <3> QED BY <3>2, <3>3
  <2>14. CalmInv'
    BY <1>1, <2>3, <2>13 DEF CalmInv
  <2> QED BY <2>2, <2>4, <2>5, <2>9, <2>12, <2>14 DEF IInv
<1> QED BY <1>5, <1>6

\* A file is hashed, recorded or refused.
LEMMA HashFileStep ==
  ASSUME IInv, HashFile
  PROVE  IInv'
<1>1. run.phase = "hash" /\ Scanning
  BY DEF HashFile
<1>2. PICK s \in IF ExistingRow(Here(run.cur)) = {} THEN {None} ELSE ExistingRow(Here(run.cur)) :
        IF Cached(Here(run.cur), s) \/ Visible(run.cur) THEN CatalogueFile(s) ELSE FileError
  BY DEF HashFile
<1>3. s \in Source \cup {None} /\ (s # None => s \in Rows(catalog, Here(run.cur)))
  BY <1>2 DEF ExistingRow, Rows, Source
<1> QED BY <1>1, <1>2, <1>3, CatalogueFileStep, FileErrorStep

\* The walk breaks off.
LEMMA WalkFailsStep ==
  ASSUME IInv, WalkFails
  PROVE  IInv'
<1>1. /\ run.phase = "walk" /\ Scanning /\ catalog' = catalog /\ saved' = catalog' /\ run' = NotRunning
      /\ outcome' = [outcome EXCEPT ![run.vol] = "FAILED"] /\ settled' = settled \ {run.vol}
      /\ online' = online
  BY DEF WalkFails, Fail
<1>2. CatInv(catalog)'
  BY <1>1 DEF IInv, CatInv, AssetsOf, StampsOf, HashesOf, RowAssets, Rows, Scanning
<1> QED BY <1>1, <1>2, FailStep, Typed DEF IInv

\* The program dies.
LEMMA CrashStep ==
  ASSUME IInv, Crash
  PROVE  IInv'
<1>1. /\ Scanning /\ catalog' = saved /\ saved' = saved /\ run' = NotRunning
      /\ UNCHANGED <<online, outcome, settled>>
  BY DEF Crash
<1>2. CatInv(catalog)'
  BY <1>1 DEF IInv, CatInv, AssetsOf, StampsOf, HashesOf, RowAssets, Rows, Scanning
<1>3. \A pl \in Place : ExactAt(pl)'
  BY <1>1 DEF IInv, ExactAt, Readable, Active, Rows, Scanning
<1> QED BY <1>1, <1>2, <1>3, EndStep, Typed DEF IInv, TypeOK

\* The rows of the volume that the session has not written become missing.
LEMMA MarkedRows ==
  ASSUME TypeOK
  PROVE  /\ MarkMissing(catalog) \in CatType
         /\ MarkMissing(catalog).assets = catalog.assets
         /\ MarkMissing(catalog).history = catalog.history
         /\ MarkMissing(catalog).noted = catalog.noted
         /\ \A pl \in Place, s \in Source : LET row == MarkMissing(catalog).rows[pl][s] IN
              IF pl[1] = run.vol /\ catalog.rows[pl][s] # None /\ <<pl, s>> \notin run.seen
              THEN /\ row \in Row /\ row.missing /\ row.asset = catalog.rows[pl][s].asset
                   /\ row.stamp = catalog.rows[pl][s].stamp
              ELSE row = catalog.rows[pl][s]
<1> DEFINE Mark(pl, s) == pl[1] = run.vol /\ catalog.rows[pl][s] # None /\ <<pl, s>> \notin run.seen
           new(pl, s) == IF Mark(pl, s) THEN [catalog.rows[pl][s] EXCEPT !.missing = TRUE]
                         ELSE catalog.rows[pl][s]
           rows == [pl \in Place |-> [s \in Source |-> new(pl, s)]]
<1>1. catalog \in CatType
  BY Typed
<1>2. MarkMissing(catalog) = [catalog EXCEPT !.rows = rows]
  BY DEF MarkMissing
<1>3. ASSUME NEW pl \in Place, NEW s \in Source
      PROVE  /\ new(pl, s) \in Row \cup {None}
             /\ Mark(pl, s) => /\ new(pl, s) \in Row /\ new(pl, s).missing
                               /\ new(pl, s).asset = catalog.rows[pl][s].asset
                               /\ new(pl, s).stamp = catalog.rows[pl][s].stamp
             /\ ~Mark(pl, s) => new(pl, s) = catalog.rows[pl][s]
  <2>1. catalog.rows[pl][s] \in Row \cup {None}
    BY <1>1, RowsTyped
  <2>2. CASE Mark(pl, s)
    <3> DEFINE old == catalog.rows[pl][s]
    <3>1. old \in Row /\ new(pl, s) = [old EXCEPT !.missing = TRUE]
      BY <2>1, <2>2
    <3> HIDE DEF new
    <3>2. new(pl, s) \in Row /\ new(pl, s).missing /\ new(pl, s).asset = old.asset
          /\ new(pl, s).stamp = old.stamp
      <4> HIDE DEF old
      <4> QED BY <3>1 DEF Row
    <3> QED BY <2>2, <3>2
  <2>3. CASE ~Mark(pl, s)
    BY <2>1, <2>3
  <2> QED BY <2>2, <2>3
<1> HIDE DEF new
<1>4. rows \in RowMap /\ \A pl \in Place, s \in Source : rows[pl][s] = new(pl, s)
  BY <1>3 DEF RowMap
<1> HIDE DEF rows
<1>5. /\ MarkMissing(catalog) \in CatType /\ MarkMissing(catalog).rows = rows
      /\ MarkMissing(catalog).assets = catalog.assets
      /\ MarkMissing(catalog).history = catalog.history
      /\ MarkMissing(catalog).noted = catalog.noted
  BY <1>1, <1>2, <1>4 DEF CatType
<1> QED BY <1>3, <1>4, <1>5

\* The walk is over, and what it has not seen is marked.
LEMMA FinishScanStep ==
  ASSUME IInv, FinishScan
  PROVE  IInv'
<1>0. TypeOK /\ CatInv(catalog) /\ RunInv /\ SeenInv /\ CalmInv
  BY DEF IInv
<1>1. /\ run.phase = "walk" /\ run.todo = {} /\ Scanning /\ run' = NotRunning
      /\ catalog' = MarkMissing(catalog) /\ saved' = catalog'
      /\ online' = online \cup {run.vol} /\ outcome' = [outcome EXCEPT ![run.vol] = "COMPLETED"]
      /\ settled' = IF run.calm /\ run.errors = 0 THEN settled \cup {run.vol}
                    ELSE settled \ {run.vol}
      /\ run.vol \in Volume /\ run.cur = None
  BY <1>0 DEF FinishScan, RunInv
<1> DEFINE Marked(pl, s) == pl[1] = run.vol /\ catalog.rows[pl][s] # None /\ <<pl, s>> \notin run.seen
<1>2. /\ catalog' \in CatType /\ catalog'.assets = catalog.assets
      /\ catalog'.history = catalog.history /\ catalog'.noted = catalog.noted
      /\ \A pl \in Place, s \in Source :
           IF Marked(pl, s)
           THEN /\ catalog'.rows[pl][s] \in Row /\ catalog'.rows[pl][s].missing
                /\ catalog'.rows[pl][s].asset = catalog.rows[pl][s].asset
                /\ catalog'.rows[pl][s].stamp = catalog.rows[pl][s].stamp
           ELSE catalog'.rows[pl][s] = catalog.rows[pl][s]
  BY <1>0, <1>1, MarkedRows
<1>3. \A pl \in Place, s \in Source : catalog'.rows[pl][s] # None =>
        /\ catalog.rows[pl][s] # None /\ catalog'.rows[pl][s].asset = catalog.rows[pl][s].asset
        /\ catalog'.rows[pl][s].stamp = catalog.rows[pl][s].stamp
  BY <1>2
<1>4. (catalog.history \cup catalog.noted \subseteq catalog.assets)'
  BY <1>0, <1>2, Typed
<1>5. CatInv(catalog)'
  <2>1. RowAssets(catalog.rows)' \subseteq RowAssets(catalog.rows)
    <3>1. catalog'.rows \in RowMap /\ catalog.rows \in RowMap
      BY <1>0, <1>2, Typed DEF CatType
    <3> QED BY <1>3, <3>1, RowAssetsAre
  <2>2. AssetsOf(catalog)'
    BY <1>0, <1>2, <2>1 DEF CatInv, AssetsOf
  <2>3. StampsOf(catalog)'
    BY <1>0, <1>1, <1>3 DEF CatInv, StampsOf, Rows, Scanning
  <2>4. HashesOf(catalog)'
    BY <1>0, <1>1, <1>3 DEF CatInv, HashesOf, Rows, Scanning
  <2> QED BY <2>2, <2>3, <2>4 DEF CatInv
<1>6. ASSUME NEW pl \in Place PROVE ExactAt(pl)'
  <2>0. file' = file /\ silent' = silent /\ Readable(pl)' = Readable(pl)
    BY <1>1 DEF Scanning, Readable
  <2>1. CASE pl[1] # run.vol
    <3>1. Active(saved, pl)' = Active(saved, pl)
          /\ \A s \in Source : saved'.rows[pl][s] = saved.rows[pl][s]
      <4>1. \A s \in Source : saved'.rows[pl][s] = saved.rows[pl][s]
        <5>1. \A s \in Source : saved'.rows[pl][s] = catalog.rows[pl][s]
          BY <1>1, <1>2, <2>1
        <5>2. catalog.rows[pl] = saved.rows[pl]
          BY <1>0, <1>1, <2>1 DEF RunInv
        <5> QED BY <5>1, <5>2
      <4> QED BY <4>1 DEF Active, Rows
    <3>2. ExactAt(pl)
      BY DEF IInv
    <3> QED BY <1>1, <2>0, <2>1, <3>1, <3>2 DEF ExactAt
  <2>2. CASE pl[1] = run.vol /\ run.calm /\ run.errors = 0
    <3>1. CalmAt(pl) /\ SeenAt(pl) \subseteq Active(catalog, pl)
      BY <1>0, <1>1, <2>2 DEF CalmInv, SeenInv
    <3>2. \A s \in Source : s \in Active(saved, pl)' <=> s \in SeenAt(pl)
      BY <1>1, <1>2, <2>2, <3>1 DEF Active, Rows, SeenAt
    <3>3. \A s \in SeenAt(pl) : saved'.rows[pl][s] = catalog.rows[pl][s]
      BY <1>1, <1>2 DEF SeenAt
    <3>4. Active(saved, pl)' \subseteq Source /\ SeenAt(pl) \subseteq Source
      BY DEF Active, Rows, SeenAt
    <3>5. Active(saved, pl)' = SeenAt(pl)
      BY <3>2, <3>4
    <3>6. CASE ~Readable(pl)
      BY <2>0, <3>1, <3>5, <3>6 DEF ExactAt, CalmAt
    <3>7. CASE Readable(pl)
      <4>1. pl[2] # run.cur
        BY <1>1, Places, ScannerConstants
      <4>2. PICK s \in SeenAt(pl) : TRUE
        BY <1>1, <2>2, <3>1, <3>7, <4>1 DEF CalmAt
      <4>3. SeenAt(pl) = {s} /\ s \in Source
        BY <3>1, <3>4, <4>2 DEF CalmAt
      <4>4. pl \notin silent => saved'.rows[pl][s].asset = file[pl]
        BY <3>1, <3>3, <4>2 DEF CalmAt
      <4> QED BY <2>0, <3>5, <3>7, <4>3, <4>4 DEF ExactAt
    <3> QED BY <3>6, <3>7
  <2>3. CASE pl[1] = run.vol /\ ~(run.calm /\ run.errors = 0)
    BY <1>1, <2>3 DEF ExactAt
  <2> QED BY <2>1, <2>2, <2>3
<1>7. online' \subseteq Volume /\ settled' \subseteq Volume /\ outcome' \in [Volume -> {"COMPLETED", "FAILED"}]
  BY <1>0, <1>1 DEF TypeOK
<1> QED BY <1>1, <1>2, <1>4, <1>5, <1>6, <1>7, EndStep

-------------------------------------------------------------------------------
(***************************************************************************)
(* The other writers, the user and the disks keep the invariant.           *)
(***************************************************************************)
\* The row that a copy or an import writes.
LEMMA HeldRowIs ==
  ASSUME TypeOK, held # None
  PROVE  /\ held.place \in Place /\ held.asset \in Content /\ HeldRow \in Row /\ HeldRow # None
         /\ HeldRow.asset = held.asset /\ ~HeldRow.missing /\ HeldRow.stamp \in Nat \cup {-1}
         /\ HeldRow.stamp # -1 => held.place[1] \in mounted /\ HeldRow.stamp = stamp[held.place]
<1>1. held.place \in Place /\ held.asset \in Content
  BY DEF TypeOK, Hash
<1>2. stamp[held.place] \in Nat
  BY <1>1, Typed
<1>3. HeldRow \in Row
  BY <1>1, <1>2 DEF HeldRow, Row, Elsewhere
<1>4. /\ HeldRow.asset = held.asset /\ HeldRow.missing = FALSE
      /\ HeldRow.stamp = (IF held.place[1] \in mounted THEN stamp[held.place] ELSE -1)
  BY DEF HeldRow, Elsewhere
<1>5. HeldRow # None
  BY <1>3, ScannerConstants
<1> HIDE DEF HeldRow
<1> QED BY <1>1, <1>2, <1>3, <1>4, <1>5

\* What the recording of a copy or an import leaves of the catalog.
LEMMA RecordedCatalog ==
  ASSUME TypeOK, held # None, NEW new \in [Source -> Row \cup {None}], Record(new)
  PROVE  /\ catalog' \in CatType /\ saved' = catalog' /\ run.phase = "idle"
         /\ catalog'.assets = catalog.assets \cup {held.asset}
         /\ catalog'.history = catalog.history \cup {held.asset} /\ catalog'.noted = catalog.noted
         /\ catalog'.rows[held.place] = new
         /\ \A q \in Place : q # held.place => catalog'.rows[q] = catalog.rows[q]
<1> DEFINE ver == Verified(catalog, held.asset)
<1>0. catalog \in CatType /\ held.place \in Place /\ held.asset \in Content
  BY Typed, HeldRowIs
<1>1. /\ ver \in CatType /\ ver.rows = catalog.rows /\ ver.noted = catalog.noted
      /\ ver.assets = catalog.assets \cup {held.asset} /\ ver.history = catalog.history \cup {held.asset}
  BY <1>0 DEF Verified, CatType
<1>2. catalog' = [ver EXCEPT !.rows[held.place] = new] /\ saved' = catalog' /\ run.phase = "idle"
  BY DEF Record
<1> HIDE DEF ver
<1>3. /\ catalog' \in CatType /\ catalog'.assets = ver.assets /\ catalog'.history = ver.history
      /\ catalog'.noted = ver.noted /\ catalog'.rows = [catalog.rows EXCEPT ![held.place] = new]
  BY <1>0, <1>1, <1>2 DEF CatType, RowMap
<1> QED BY <1>0, <1>1, <1>2, <1>3 DEF CatType, RowMap

\* One more active row, of the hash that was held, at one source of its place.
LEMMA RecordStep ==
  ASSUME IInv, held # None, NEW new \in [Source -> Row \cup {None}], NEW k \in Source, Record(new),
         new[k] = HeldRow,
         \A t \in Source : t # k => new[t] \in {catalog.rows[held.place][t], None}
  PROVE  IInv'
<1> DEFINE pl == held.place
<1>0. /\ TypeOK /\ CatInv(catalog) /\ RunInv /\ StampInv /\ saved = catalog /\ run.phase = "idle"
      /\ pl \in Place
  BY HeldRowIs DEF IInv, RunInv, Record
<1>1. /\ held' = None /\ settled' = settled \ {pl[1]}
      /\ silent' = (IF pl[1] \in mounted /\ file[pl] # held.asset THEN silent \cup {pl} ELSE silent)
      /\ UNCHANGED <<file, stamp, mounted, barred, online, run, outcome, used>>
  BY DEF Record
<1>2. \A q \in Place, t \in Source : catalog'.rows[q][t] # None =>
        \/ q = pl /\ t = k /\ catalog'.rows[q][t] = HeldRow
        \/ catalog.rows[q][t] # None /\ catalog'.rows[q][t] = catalog.rows[q][t]
  BY <1>0, RecordedCatalog
<1>3. /\ catalog' \in CatType /\ saved' = catalog' /\ catalog'.noted = catalog.noted
      /\ catalog'.assets = catalog.assets \cup {held.asset}
      /\ catalog'.history = catalog.history \cup {held.asset}
  BY <1>0, RecordedCatalog
<1>4. (catalog.history \cup catalog.noted \subseteq catalog.assets)'
  BY <1>0, <1>3, Typed
<1>5. TypeOK'
  BY <1>0, <1>1, <1>3, <1>4 DEF TypeOK, CatalogOK, CatType, RowMap
<1>6. StampInv'
  BY <1>0, <1>1 DEF StampInv
<1>7. CatInv(catalog)'
  <2>1. RowAssets(catalog.rows)' \subseteq RowAssets(catalog.rows) \cup {held.asset}
    <3>1. catalog'.rows \in RowMap /\ catalog.rows \in RowMap
      BY <1>0, <1>3, Typed DEF CatType
    <3>2. HeldRow.asset = held.asset
      BY <1>0, HeldRowIs
    <3> QED BY <1>2, <3>1, <3>2, RowAssetsAre
  <2>2. AssetsOf(catalog)'
    BY <1>0, <1>3, <2>1 DEF CatInv, AssetsOf
  <2>3. StampsOf(catalog)'
    <3>1. \A q \in Place : \A t \in Rows(catalog, q) : catalog.rows[q][t].stamp \in Int
      BY <1>0, Typed, RowsTyped
    <3>2. HeldRow.stamp <= used.events
      BY <1>0, HeldRowIs, Typed DEF StampInv
    <3> QED BY <1>0, <1>1, <1>2, <3>1, <3>2, Typed DEF CatInv, StampsOf, Rows
  <2>4. HashesOf(catalog)'
    <3> SUFFICES ASSUME NEW q \in Place \ silent', NEW t \in Source, catalog'.rows[q][t] # None,
                        file[q] # Absent, catalog'.rows[q][t].stamp = stamp[q]
                 PROVE  catalog'.rows[q][t].asset = file[q]
      BY <1>1 DEF HashesOf, Rows
    <3>1. CASE q = pl /\ catalog'.rows[q][t] = HeldRow
      BY <1>0, <1>1, <3>1, HeldRowIs, Typed
    <3>2. CASE catalog.rows[q][t] # None /\ catalog'.rows[q][t] = catalog.rows[q][t]
      BY <1>0, <1>1, <3>2 DEF CatInv, HashesOf, Rows
    <3> QED BY <1>2, <3>1, <3>2
  <2> QED BY <2>2, <2>3, <2>4 DEF CatInv
<1>8. CatInv(saved)'
  BY <1>3, <1>7 DEF CatInv, AssetsOf, StampsOf, HashesOf, RowAssets, Rows
<1>9. RunInv' /\ SeenInv' /\ CalmInv'
  BY <1>0, <1>1, <1>3 DEF RunInv, SeenInv, CalmInv
<1>10. ASSUME NEW q \in Place PROVE ExactAt(q)'
  <2>1. ExactAt(q)
    BY DEF IInv
  <2>2. CASE q[1] = pl[1]
    BY <1>1, <2>2 DEF ExactAt
  <2>3. CASE q[1] # pl[1]
    <3>1. saved'.rows[q] = saved.rows[q]
      BY <1>0, <1>3, <2>3, RecordedCatalog
    <3> QED BY <1>0, <1>1, <2>1, <2>3, <3>1 DEF ExactAt, Readable, Active, Rows
  <2> QED BY <2>2, <2>3
<1> QED BY <1>5, <1>6, <1>7, <1>8, <1>9, <1>10 DEF IInv

\* The rows that a copy and an import leave at the place.
LEMMA RecordedRows ==
  ASSUME TypeOK, RecordCopy \/ RecordImport
  PROVE  \E k \in Source, new \in [Source -> Row \cup {None}] :
           /\ held # None /\ Record(new) /\ new[k] = HeldRow
           /\ \A t \in Source : t # k => new[t] \in {catalog.rows[held.place][t], None}
<1>0. held # None
  BY DEF RecordCopy, RecordImport
<1>1. catalog.rows[held.place] \in [Source -> Row \cup {None}] /\ HeldRow \in Row
  BY <1>0, HeldRowIs, Typed DEF CatType, RowMap
<1>2. {"folder", "phone", "null"} = Source
  BY DEF Source
<1>3. CASE RecordCopy
  <2> DEFINE new == [catalog.rows[held.place] EXCEPT !["folder"] = HeldRow, !["null"] = None]
  <2>1. new \in [Source -> Row \cup {None}] /\ new["folder"] = HeldRow
        /\ \A t \in Source : t # "folder" => new[t] \in {catalog.rows[held.place][t], None}
    BY <1>1, <1>2
  <2>2. Record(new)
    BY <1>3 DEF RecordCopy
  <2> HIDE DEF new
  <2> QED BY <1>0, <1>2, <2>1, <2>2
<1>4. CASE RecordImport
  <2> DEFINE new == [catalog.rows[held.place] EXCEPT !["phone"] = HeldRow]
  <2>1. new \in [Source -> Row \cup {None}] /\ new["phone"] = HeldRow
        /\ \A t \in Source : t # "phone" => new[t] \in {catalog.rows[held.place][t], None}
    BY <1>1, <1>2
  <2>2. Record(new)
    BY <1>4 DEF RecordImport
  <2> HIDE DEF new
  <2> QED BY <1>0, <1>2, <2>1, <2>2
<1> QED BY <1>3, <1>4

\* A copy or an import records its file.
LEMMA RecordsStep ==
  ASSUME IInv, RecordCopy \/ RecordImport
  PROVE  IInv'
  BY RecordedRows, RecordStep DEF IInv

\* A change on one volume, which the scan of that volume and its last one no
\* longer speak for.
LEMMA DisturbStep ==
  ASSUME IInv, NEW v \in Volume, Disturb(v), UNCHANGED <<held, online, catalog, saved, outcome>>,
         mounted' \subseteq Volume, \A w \in Volume \ {v} : w \in mounted => w \in mounted',
         file' \in [Place -> Content \cup {Absent}], stamp' \in [Place -> Nat], silent' \subseteq Place,
         barred' \subseteq Place,
         \A q \in Place : q[1] # v => /\ file'[q] = file[q] /\ stamp'[q] = stamp[q]
                                      /\ q \in silent => q \in silent'
                                      /\ q \in silent' => q \in silent
                                      /\ q \in barred' <=> q \in barred,
         used' \in [runs: Nat, events: Nat], used'.events >= used.events,
         \A q \in Place : stamp'[q] <= used'.events,
         HashesOf(catalog)', HashesOf(saved)'
  PROVE  IInv'
<1>0. TypeOK /\ CatInv(catalog) /\ CatInv(saved) /\ RunInv /\ SeenInv /\ CalmInv /\ StampInv
  BY DEF IInv
<1>1. /\ run' \in RunType /\ settled' = settled \ {v}
      /\ run'.phase = run.phase /\ run'.vol = run.vol /\ run'.cur = run.cur /\ run'.stat = run.stat
      /\ run'.seen = run.seen /\ run'.todo = run.todo /\ run'.errors = run.errors
      /\ run'.calm => run.calm /\ run.vol # v
  <2>1. CASE run.vol = v
    <3>1. run' = [run EXCEPT !.calm = FALSE] /\ settled' = settled \ {v} /\ run \in RunType
      BY <1>0, <2>1, Typed DEF Disturb
    <3> QED BY <3>1 DEF RunType
  <2>2. CASE run.vol # v
    BY <1>0, <2>2, Typed DEF Disturb
  <2> QED BY <2>1, <2>2
<1>2. TypeOK'
  BY <1>0, <1>1 DEF TypeOK, RunType, CatalogOK
<1>3. StampInv'
  BY <1>0, <1>1, Typed DEF StampInv
<1>4. CatInv(catalog)' /\ CatInv(saved)'
  <2>1. \A pl \in Place : /\ \A s \in Rows(catalog, pl) : catalog.rows[pl][s].stamp \in Int
                          /\ \A s \in Rows(saved, pl) : saved.rows[pl][s].stamp \in Int
    BY <1>0, Typed, RowsTyped
  <2>2. used.events \in Nat /\ used'.events \in Nat
    BY <1>0, Typed
  <2>3. AssetsOf(catalog)' /\ AssetsOf(saved)'
    BY <1>0 DEF CatInv, AssetsOf, RowAssets
  <2>4. StampsOf(catalog)' /\ StampsOf(saved)'
    BY <1>0, <2>1, <2>2 DEF CatInv, StampsOf, Rows
  <2> QED BY <2>3, <2>4 DEF CatInv
<1>5. RunInv'
  BY <1>0, <1>1 DEF RunInv, Here, Active, Rows
<1>6. \A pl \in Place : SeenAt(pl)' = SeenAt(pl)
  BY <1>1 DEF SeenAt
<1>7. SeenInv'
  BY <1>0, <1>1, <1>6 DEF SeenInv, Active, Rows
<1>8. \A q \in Place : q[1] # v => Readable(q)' = Readable(q)
  BY DEF Readable
<1>9. CalmInv'
  <2> SUFFICES ASSUME run.phase # "idle", run'.calm
               PROVE  /\ run.vol \in mounted'
                      /\ run.phase = "hash" => Readable(Here(run.cur))' /\ run.stat = stamp'[Here(run.cur)]
                      /\ \A pl \in Place : pl[1] = run.vol => CalmAt(pl)'
    BY <1>1 DEF CalmInv, Here
  <2>1. run.calm /\ run.vol # v /\ run.vol \in Volume
    BY <1>0, <1>1 DEF RunInv
  <2>2. run.vol \in mounted'
    BY <1>0, <2>1 DEF CalmInv
  <2>3. run.phase = "hash" => Readable(Here(run.cur))' /\ run.stat = stamp'[Here(run.cur)]
    BY <1>0, <1>1, <1>8, <2>1, Places DEF CalmInv, RunInv, Here
  <2>4. ASSUME NEW pl \in Place, pl[1] = run.vol PROVE CalmAt(pl)'
    <3>1. CalmAt(pl) /\ file'[pl] = file[pl] /\ (pl \in silent <=> pl \in silent')
          /\ Readable(pl)' = Readable(pl)
      BY <1>0, <1>8, <2>1, <2>4 DEF CalmInv
    <3> QED BY <1>1, <1>6, <3>1 DEF CalmAt
  <2> QED BY <2>2, <2>3, <2>4
<1>10. ASSUME NEW pl \in Place PROVE ExactAt(pl)'
  <2>1. ExactAt(pl)
    BY DEF IInv
  <2>2. CASE pl[1] = v
    BY <1>1, <2>2 DEF ExactAt
  <2>3. CASE pl[1] # v
    BY <1>1, <1>8, <2>1, <2>3 DEF ExactAt, Active, Rows
  <2> QED BY <2>2, <2>3
<1> QED BY <1>2, <1>3, <1>4, <1>5, <1>7, <1>9, <1>10 DEF IInv

\* An edit gives the file a stamp that no row has, or is known as silent.
LEMMA EditStep ==
  ASSUME IInv, NEW pl \in Place, NEW c \in Content \cup {Absent}, UserEdit(pl, c) \/ SilentEdit(pl, c)
  PROVE  IInv'
<1>0. TypeOK /\ CatInv(catalog) /\ CatInv(saved) /\ StampInv
  BY DEF IInv
<1>1. /\ Edit(pl, c)
      /\ \/ stamp' = [stamp EXCEPT ![pl] = used.events + 1] /\ silent' = silent
         \/ stamp' = stamp /\ silent' = silent \cup {pl}
  BY DEF UserEdit, SilentEdit
<1>2. /\ file' = [file EXCEPT ![pl] = c] /\ used' = [used EXCEPT !.events = @ + 1]
      /\ Disturb(pl[1]) /\ UNCHANGED <<mounted, barred, held, online, catalog, saved, outcome>>
  BY <1>1 DEF Edit
<1>3. used' \in [runs: Nat, events: Nat] /\ used'.events = used.events + 1 /\ used.events \in Nat
  BY <1>0, <1>2, Typed DEF TypeOK
<1>4. file' \in [Place -> Content \cup {Absent}] /\ stamp' \in [Place -> Nat] /\ silent' \subseteq Place
      /\ mounted' \subseteq Volume /\ barred' \subseteq Place
  BY <1>0, <1>1, <1>2, <1>3 DEF TypeOK
<1>5. \A q \in Place : q # pl => file'[q] = file[q] /\ stamp'[q] = stamp[q] /\ (q \in silent' <=> q \in silent)
  BY <1>0, <1>1, <1>2 DEF TypeOK
<1>6. pl \in silent' \/ stamp'[pl] = used.events + 1
  BY <1>0, <1>1 DEF TypeOK
<1>7. \A q \in Place : stamp'[q] <= used'.events
  BY <1>0, <1>1, <1>3, Typed DEF StampInv, TypeOK
<1>8. ASSUME NEW cat \in CatType, CatInv(cat), NEW q \in Place \ silent', NEW s \in Rows(cat, q),
             file'[q] # Absent, cat.rows[q][s].stamp = stamp'[q]
      PROVE  cat.rows[q][s].asset = file'[q]
  <2>1. cat.rows[q][s].stamp <= used.events /\ cat.rows[q][s].stamp \in Int
    BY <1>8, RowsTyped DEF CatInv, StampsOf
  <2>2. q # pl
    BY <1>3, <1>6, <1>8, <2>1
  <2> QED BY <1>5, <1>8, <2>2 DEF CatInv, HashesOf
<1>9. HashesOf(catalog)' /\ HashesOf(saved)'
  BY <1>0, <1>2, <1>8, Typed DEF HashesOf, Rows
<1>10. pl[1] \in Volume /\ used'.events >= used.events /\ \A q \in Place : q[1] # pl[1] => q # pl
  BY <1>3, Places
<1> HIDE DEF CatInv, StampInv, HashesOf
<1> QED BY <1>2, <1>3, <1>4, <1>5, <1>7, <1>9, <1>10, DisturbStep

\* A volume goes.
LEMMA UnplugStep ==
  ASSUME IInv, NEW v \in Volume, Unplug(v)
  PROVE  IInv'
<1>0. TypeOK /\ CatInv(catalog) /\ CatInv(saved) /\ StampInv
  BY DEF IInv
<1>1. /\ mounted' = mounted \ {v} /\ used' = [used EXCEPT !.events = @ + 1] /\ Disturb(v)
      /\ UNCHANGED <<file, stamp, barred, held, online, catalog, saved, outcome, silent>>
  BY DEF Unplug
<1>2. used' \in [runs: Nat, events: Nat] /\ used'.events = used.events + 1 /\ used.events \in Nat
  BY <1>0, <1>1, Typed DEF TypeOK
<1>3. HashesOf(catalog)' /\ HashesOf(saved)'
  BY <1>0, <1>1 DEF CatInv, HashesOf, Rows
<1>4. \A q \in Place : stamp'[q] <= used'.events
  BY <1>0, <1>1, <1>2, Typed DEF StampInv
<1>5. /\ mounted' \subseteq Volume /\ \A w \in Volume \ {v} : w \in mounted => w \in mounted'
      /\ file' \in [Place -> Content \cup {Absent}] /\ stamp' \in [Place -> Nat] /\ silent' \subseteq Place
      /\ barred' \subseteq Place
  BY <1>0, <1>1 DEF TypeOK
<1>6. used'.events >= used.events
  BY <1>2
<1> QED BY <1>1, <1>2, <1>3, <1>4, <1>5, <1>6, DisturbStep

\* The permissions of a directory change.
LEMMA PermitStep ==
  ASSUME IInv, NEW pl \in Place, Permit(pl)
  PROVE  IInv'
<1>0. TypeOK /\ CatInv(catalog) /\ CatInv(saved) /\ StampInv /\ pl[1] \in Volume
  BY Places DEF IInv
<1>1. /\ barred' = (IF pl \in barred THEN barred \ {pl} ELSE barred \cup {pl})
      /\ used' = [used EXCEPT !.events = @ + 1] /\ Disturb(pl[1])
      /\ UNCHANGED <<file, stamp, mounted, held, online, catalog, saved, outcome, silent>>
  BY DEF Permit
<1>2. used' \in [runs: Nat, events: Nat] /\ used'.events = used.events + 1 /\ used.events \in Nat
  BY <1>0, <1>1, Typed DEF TypeOK
<1>3. HashesOf(catalog)' /\ HashesOf(saved)'
  BY <1>0, <1>1 DEF CatInv, HashesOf, Rows
<1>4. \A q \in Place : stamp'[q] <= used'.events
  BY <1>0, <1>1, <1>2, Typed DEF StampInv
<1>5. /\ mounted' \subseteq Volume /\ barred' \subseteq Place /\ silent' \subseteq Place
      /\ file' \in [Place -> Content \cup {Absent}] /\ stamp' \in [Place -> Nat]
      /\ \A q \in Place : q[1] # pl[1] => (q \in barred' <=> q \in barred)
  BY <1>0, <1>1 DEF TypeOK
<1>6. used'.events >= used.events
  BY <1>2
<1> QED BY <1>0, <1>1, <1>2, <1>3, <1>4, <1>5, <1>6, DisturbStep

\* Disks that come, statuses that are read again, and a hash that is taken or
\* given up.
LEMMA StandStep ==
  ASSUME IInv, UNCHANGED <<file, stamp, barred, catalog, saved, run, outcome, settled, silent>>,
         mounted \subseteq mounted', mounted' \subseteq Volume, online' \subseteq Volume,
         held' \in Hash \cup {None}, used' \in [runs: Nat, events: Nat], used'.events = used.events
  PROVE  IInv'
<1>1. TypeOK' /\ StampInv' /\ CatInv(catalog)' /\ CatInv(saved)' /\ \A pl \in Place : ExactAt(pl)'
  BY QuietStep, Typed DEF IInv, TypeOK, StampInv
<1>2. RunInv'
  BY DEF IInv, RunInv, Here, Active, Rows
<1>3. SeenInv'
  BY DEF IInv, SeenInv, SeenAt, Active, Rows
<1>4. CalmInv'
  BY DEF IInv, CalmInv, CalmAt, SeenAt, Here, Readable
<1> QED BY <1>1, <1>2, <1>3, <1>4 DEF IInv

-------------------------------------------------------------------------------
(***************************************************************************)
(* The invariant.                                                          *)
(***************************************************************************)
LEMMA StepInv == IInv /\ [Next]_vars => IInv'
<1> SUFFICES ASSUME IInv, [Next]_vars PROVE IInv'
  OBVIOUS
<1>0. mounted \subseteq Volume /\ online \subseteq Volume
  BY DEF IInv, TypeOK
<1>1. ASSUME NEW v \in Volume, StartScan(v) PROVE IInv'
  BY <1>1, StartScanStep
<1>2. ASSUME NEW v \in Volume, Unplug(v) PROVE IInv'
  BY <1>2, UnplugStep
<1>3. ASSUME NEW v \in Volume, Plug(v) \/ RegisterVolume(v) PROVE IInv'
  BY <1>0, <1>3, StandStep, Typed DEF Plug, RegisterVolume, IInv, TypeOK
<1>4. CASE SkipPath \/ StatFile \/ HashFile
  BY <1>4, SkipPathStep, StatFileStep, HashFileStep
<1>5. CASE ReadError
  BY <1>5, FileErrorStep DEF ReadError
<1>6. CASE WalkFails \/ FinishScan \/ Crash
  BY <1>6, WalkFailsStep, FinishScanStep, CrashStep
<1>7. CASE RefreshStatuses \/ RecordFails \/ UNCHANGED vars
  BY <1>0, <1>7, StandStep, Typed DEF RefreshStatuses, RecordFails, vars, IInv, TypeOK
<1>8. CASE RecordCopy \/ RecordImport
  BY <1>8, RecordsStep
<1>9. ASSUME NEW pl \in Place, NEW c \in Content \cup {Absent}, UserEdit(pl, c) \/ SilentEdit(pl, c)
      PROVE  IInv'
  BY <1>9, EditStep
<1>10. ASSUME NEW pl \in Place, Permit(pl) PROVE IInv'
  BY <1>10, PermitStep
<1>11. ASSUME NEW pl \in Place, NEW s \in {"folder", "phone"}, NEW c \in Content, TakeHash(pl, s, c)
       PROVE  IInv'
  <2>1. held' \in Hash
    BY <1>11 DEF TakeHash, Hash
  <2>2. used' \in [runs: Nat, events: Nat] /\ used'.events = used.events
    BY <1>11, Typed DEF TakeHash, IInv, TypeOK
  <2> QED BY <1>0, <1>11, <2>1, <2>2, StandStep DEF TakeHash
<1> QED BY <1>10, <1>11, <1>1, <1>2, <1>3, <1>4, <1>5, <1>6, <1>7, <1>8, <1>9 DEF Next

\* It holds in every state.
LEMMA Invariant == Spec => []IInv
  BY InitInv, StepInv, PTL DEF Spec

\* What a scan knows of the volumes, and the catalog of them, has its type.
THEOREM ScannerTypeOK == Spec => []TypeOK
<1>1. IInv => TypeOK
  BY DEF IInv
<1> QED BY <1>1, Invariant, PTL

\* No scan, whole, failed or rolled back, leaves a hash that the next one would
\* take for that of a file that has another.
THEOREM ScannerCachedHashIsTrue == Spec => []CachedHashIsTrue
<1>1. IInv => CachedHashIsTrue
  BY DEF IInv, CatInv, HashesOf, CachedHashIsTrue
<1> QED BY <1>1, Invariant, PTL

\* An undisturbed scan without errors leaves exactly the view of what is there.
THEOREM ScannerActiveViewIsExact == Spec => []ActiveViewIsExact
<1>1. ASSUME IInv PROVE ActiveViewIsExact
  <2> SUFFICES ASSUME NEW pl \in Place, pl[1] \in settled
               PROVE  IF ~Readable(pl) THEN Active(saved, pl) = {}
                      ELSE /\ Cardinality(Active(saved, pl)) = 1
                           /\ pl \in silent \/ \A s \in Active(saved, pl) : saved.rows[pl][s].asset = file[pl]
    BY DEF ActiveViewIsExact
  <2>1. ExactAt(pl)
    BY <1>1 DEF IInv
  <2>2. CASE ~Readable(pl)
    BY <2>1, <2>2 DEF ExactAt
  <2>3. CASE Readable(pl)
    <3>1. PICK s \in Source : /\ Active(saved, pl) = {s}
                              /\ pl \notin silent => saved.rows[pl][s].asset = file[pl]
      BY <2>1, <2>3 DEF ExactAt
    <3>2. Cardinality(Active(saved, pl)) = 1
      BY <3>1, FS_Singleton
    <3>3. pl \in silent \/ \A t \in Active(saved, pl) : saved.rows[pl][t].asset = file[pl]
      BY <3>1
    <3> QED BY <2>3, <3>2, <3>3
  <2> QED BY <2>2, <2>3
<1> QED BY <1>1, Invariant, PTL

-------------------------------------------------------------------------------
(***************************************************************************)
(* What a step may do to the view, the assets and the notes.               *)
(***************************************************************************)
\* What hashing a file takes from the catalog nothing refers to, and every
\* place that was in the view stays in it.
LEMMA CatalogueFileWrites ==
  ASSUME IInv, run.phase = "hash", Scanning, NEW s \in Source \cup {None},
         s # None => s \in Rows(catalog, Here(run.cur)),
         Cached(Here(run.cur), s) \/ Visible(run.cur), CatalogueFile(s)
  PROVE  /\ saved' = saved \/ saved' = catalog'
         /\ \A q \in Place : Active(catalog, q) # {} => Active(catalog, q)' # {}
         /\ \A c \in (catalog.assets \ catalog'.assets) \cup (catalog.noted \ catalog'.noted) :
              c \notin RowAssets(catalog'.rows) \cup catalog'.history
<1>0. PICK pl \in Place : pl = Here(run.cur)
  BY DEF IInv, RunInv
<1> DEFINE k == KeptSource(s)
           d == Digest(pl, s)
           rows == Upserted(pl, s, d)
           gone == Obsolete(pl, s, rows)
           cat == [catalog EXCEPT !.rows = rows, !.assets = @ \cup {d}]
<1>1. catalog \in CatType /\ TypeOK
  BY Typed DEF IInv
<1>2. gone \cap RowAssets(rows) = {}
  BY DEF Obsolete
<1>3. d \in Content
  BY <1>0, DigestIs
<1>4. /\ rows \in RowMap /\ k \in Source
      /\ rows[pl][k] = [asset |-> d, stamp |-> run.stat, missing |-> FALSE]
      /\ \A q \in Place : q # pl => rows[q] = catalog.rows[q]
  <2> HIDE DEF d
  <2> QED BY <1>0, <1>1, <1>3, UpsertedRows
<1>5. \/ saved' = catalog' /\ catalog' = cat
      \/ saved' = saved /\ catalog' = Without(cat, gone) /\ gone \cap catalog.history = {}
  BY <1>0 DEF CatalogueFile, Fail
<1> HIDE DEF k, d, rows, gone
<1>6. cat \in CatType /\ cat.rows = rows /\ cat.assets = catalog.assets \cup {d}
      /\ cat.history = catalog.history /\ cat.noted = catalog.noted
  BY <1>1, <1>3, <1>4 DEF CatType
<1> HIDE DEF cat
<1>7. /\ catalog'.rows = rows /\ catalog'.history = catalog.history
      /\ \/ catalog.assets \subseteq catalog'.assets /\ catalog'.noted = catalog.noted
         \/ /\ gone \cap catalog.history = {}
            /\ catalog.assets \ gone \subseteq catalog'.assets /\ catalog'.noted = catalog.noted \ gone
  BY <1>5, <1>6 DEF Without, CatType
<1>8. ASSUME NEW q \in Place, Active(catalog, q) # {} PROVE Active(catalog, q)' # {}
  <2>1. CASE q # pl
    BY <1>4, <1>7, <1>8, <2>1 DEF Active, Rows
  <2>2. CASE q = pl
    <3>1. rows[pl][k] \in Row
      BY <1>1, <1>3, <1>4, Typed, NewRow
    <3>2. rows[pl][k] # None
      BY <3>1, ScannerConstants
    <3>3. ~rows[pl][k].missing
      BY <1>4
    <3> QED BY <1>4, <1>7, <2>2, <3>2, <3>3 DEF Active, Rows
  <2> QED BY <2>1, <2>2
<1> QED BY <1>2, <1>5, <1>7, <1>8

\* What the hash of a file makes of the two catalogs.
LEMMA HashFileWrites ==
  ASSUME IInv, HashFile
  PROVE  /\ saved' = saved \/ saved' = catalog'
         /\ \A q \in Place : Active(catalog, q) # {} => Active(catalog, q)' # {}
         /\ \A c \in (catalog.assets \ catalog'.assets) \cup (catalog.noted \ catalog'.noted) :
              c \notin RowAssets(catalog'.rows) \cup catalog'.history
<1>1. run.phase = "hash" /\ Scanning
  BY DEF HashFile
<1>2. PICK s \in IF ExistingRow(Here(run.cur)) = {} THEN {None} ELSE ExistingRow(Here(run.cur)) :
        IF Cached(Here(run.cur), s) \/ Visible(run.cur) THEN CatalogueFile(s) ELSE FileError
  BY DEF HashFile
<1>3. s \in Source \cup {None} /\ (s # None => s \in Rows(catalog, Here(run.cur)))
  BY <1>2 DEF ExistingRow, Rows, Source
<1>4. CASE Cached(Here(run.cur), s) \/ Visible(run.cur)
  BY <1>1, <1>2, <1>3, <1>4, CatalogueFileWrites
<1>5. CASE ~(Cached(Here(run.cur), s) \/ Visible(run.cur))
  BY <1>2, <1>5 DEF FileError, Active, Rows
<1> QED BY <1>4, <1>5

\* The steps that write the catalog.
LEMMA WhoWritesCatalog ==
  ASSUME [Next]_vars
  PROVE  \/ UNCHANGED <<catalog, saved>>
         \/ HashFile \/ WalkFails \/ FinishScan \/ Crash
         \/ RecordCopy \/ RecordImport
  BY DEF Next, vars, StartScan, Unplug, Plug, RegisterVolume, SkipPath, StatFile, ReadError, FileError,
         RefreshStatuses, UserEdit, SilentEdit, Edit, Permit, TakeHash, RecordFails

\* A copy or an import adds a row to the view.
LEMMA RecordWrites ==
  ASSUME IInv, RecordCopy \/ RecordImport
  PROVE  /\ catalog.assets \subseteq catalog'.assets /\ catalog'.noted = catalog.noted
         /\ saved' = catalog' /\ saved = catalog
         /\ \A q \in Place : Active(catalog, q) # {} => Active(catalog, q)' # {}
<1>0. TypeOK /\ RunInv
  BY DEF IInv
<1>1. PICK k \in Source, new \in [Source -> Row \cup {None}] :
        held # None /\ Record(new) /\ new[k] = HeldRow
  BY <1>0, RecordedRows
<1>2. /\ saved' = catalog' /\ saved = catalog /\ held.place \in Place
      /\ catalog.assets \subseteq catalog'.assets /\ catalog'.noted = catalog.noted
      /\ catalog'.rows[held.place] = new
      /\ \A q \in Place : q # held.place => catalog'.rows[q] = catalog.rows[q]
  BY <1>0, <1>1, RecordedCatalog, HeldRowIs DEF RunInv
<1>3. ASSUME NEW q \in Place, Active(catalog, q) # {} PROVE Active(catalog, q)' # {}
  <2>1. CASE q = held.place
    <3>1. catalog'.rows[q][k] # None /\ ~catalog'.rows[q][k].missing
      BY <1>0, <1>1, <1>2, <2>1, HeldRowIs
    <3> QED BY <3>1 DEF Active, Rows
  <2>2. CASE q # held.place
    BY <1>2, <1>3, <2>2 DEF Active, Rows
  <2> QED BY <2>1, <2>2
<1> QED BY <1>2, <1>3

\* What is in the view leaves it only when a scan ends that has not seen it,
\* though it was disturbed by nothing and had no error, as it is gone.
THEOREM ScannerPresentFilesStay == Spec => PresentFilesStayInView
<1> DEFINE Stay == \A pl \in Place :
              Active(saved, pl) # {} /\ Active(saved', pl) = {} =>
                /\ run.vol = pl[1] /\ run.phase = "walk" /\ run.todo = {}
                /\ outcome'[pl[1]] = "COMPLETED"
                /\ run.errors > 0 \/ ~run.calm \/ ~Readable(pl)
<1>1. ASSUME IInv, [Next]_vars PROVE Stay
  <2> SUFFICES ASSUME NEW pl \in Place, Active(saved, pl) # {}, Active(saved', pl) = {}
               PROVE  /\ run.vol = pl[1] /\ run.phase = "walk" /\ run.todo = {}
                      /\ outcome'[pl[1]] = "COMPLETED"
                      /\ run.errors > 0 \/ ~run.calm \/ ~Readable(pl)
    OBVIOUS
  <2>0. TypeOK /\ RunInv /\ SeenInv /\ CalmInv
    BY <1>1 DEF IInv
  <2>1. saved' # saved
    BY DEF Active, Rows
  <2>2. ~HashFile
    <3> SUFFICES ASSUME HashFile PROVE FALSE
      OBVIOUS
    <3>1. run.phase # "idle" /\ saved' = catalog'
      BY <1>1, <2>1, HashFileWrites DEF HashFile
    <3>2. Active(catalog, pl) # {}
      BY <2>0, <3>1 DEF RunInv
    <3>3. Active(catalog', pl) # {}
      BY <1>1, <3>2, HashFileWrites DEF Active, Rows
    <3> QED BY <3>1, <3>3
  <2>3. ~WalkFails
    <3> SUFFICES ASSUME WalkFails PROVE FALSE
      OBVIOUS
    <3>1. run.phase # "idle" /\ saved' = catalog
      BY DEF WalkFails, Fail
    <3> QED BY <2>0, <3>1 DEF RunInv
  <2>4. ASSUME RecordCopy \/ RecordImport PROVE FALSE
    <3>1. saved' = catalog' /\ saved = catalog /\ (Active(catalog, pl) # {} => Active(catalog, pl)' # {})
      BY <1>1, <2>4, RecordWrites
    <3>2. Active(catalog, pl)' = Active(catalog', pl)
      BY DEF Active, Rows
    <3> QED BY <3>1, <3>2
  <2>5. FinishScan
    <3>1. ~Crash
      BY <2>1 DEF Crash
    <3> QED BY <1>1, <2>1, <2>2, <2>3, <2>4, <3>1, WhoWritesCatalog
  <2>6. run.phase = "walk" /\ run.todo = {} /\ saved' = MarkMissing(catalog) /\ run.cur = None
        /\ outcome' = [outcome EXCEPT ![run.vol] = "COMPLETED"] /\ run.vol \in Volume
        /\ Active(catalog, pl) # {} /\ (pl[1] # run.vol => catalog.rows[pl] = saved.rows[pl])
    BY <2>0, <2>5 DEF FinishScan, RunInv
  <2>7. PICK s \in Source : s \in Active(catalog, pl)
    BY <2>6 DEF Active, Rows
  <2>8. run.vol = pl[1] /\ <<pl, s>> \notin run.seen
    <3> SUFFICES ASSUME run.vol # pl[1] \/ <<pl, s>> \in run.seen PROVE FALSE
      OBVIOUS
    <3>1. saved'.rows[pl][s] = catalog.rows[pl][s]
      BY <2>0, <2>6, MarkedRows
    <3> QED BY <2>7, <3>1 DEF Active, Rows
  <2>9. outcome'[pl[1]] = "COMPLETED"
    BY <2>0, <2>6, <2>8 DEF TypeOK
  <2>10. ASSUME run.errors = 0, run.calm, Readable(pl) PROVE FALSE
    <3>1. CalmAt(pl) /\ SeenAt(pl) \subseteq Active(catalog, pl)
      BY <2>0, <2>6, <2>8, <2>10 DEF CalmInv, SeenInv
    <3>2. pl[2] # run.cur
      BY <2>6, Places, ScannerConstants
    <3>3. PICK t \in SeenAt(pl) : t \in Active(catalog, pl)
      BY <2>6, <2>10, <3>1, <3>2 DEF CalmAt
    <3>4. t \in Source /\ <<pl, t>> \in run.seen
      BY DEF SeenAt
    <3>5. saved'.rows[pl][t] = catalog.rows[pl][t]
      BY <2>0, <2>6, <3>4, MarkedRows
    <3> QED BY <3>3, <3>5 DEF Active, Rows
  <2>11. run.errors \in Nat /\ run.calm \in BOOLEAN
    BY <2>0, Typed
  <2> QED BY <2>6, <2>8, <2>9, <2>10, <2>11
<1>2. IInv /\ [Next]_vars => [Stay]_vars
  BY <1>1
<1> HIDE DEF Stay
<1>3. Spec => [][Stay]_vars
  BY <1>2, Invariant, PTL DEF Spec
<1> QED BY <1>3 DEF PresentFilesStayInView, Stay

\* Assets and notes that go are those of assets nothing refers to any more; what
\* a crash takes back was never committed.
THEOREM ScannerDeletedAssetsAreUnused == Spec => DeletedAssetsAreUnused
<1> DEFINE Unused == \A c \in (catalog.assets \ catalog'.assets) \cup (catalog.noted \ catalog'.noted) :
              c \notin RowAssets(catalog'.rows) \cup catalog'.history
<1>1. ASSUME IInv, [Next]_vars PROVE Unused
  <2>1. CASE UNCHANGED <<catalog, saved>> \/ WalkFails
    BY <2>1 DEF WalkFails, Fail
  <2>2. CASE HashFile
    BY <1>1, <2>2, HashFileWrites
  <2>3. CASE FinishScan
    <3>1. catalog'.assets = catalog.assets /\ catalog'.noted = catalog.noted
      BY <1>1, <2>3, MarkedRows DEF FinishScan, IInv
    <3> QED BY <3>1
  <2>4. CASE Crash
    <3>1. catalog' = saved /\ run.phase # "idle"
      BY <2>4 DEF Crash
    <3>2. /\ RowAssets(saved.rows) \cup saved.history \subseteq saved.assets
          /\ catalog.noted \subseteq saved.noted
      BY <1>1, <3>1 DEF IInv, CatInv, AssetsOf, RunInv
    <3> QED BY <3>1, <3>2
  <2>5. CASE RecordCopy \/ RecordImport
    BY <1>1, <2>5, RecordWrites
  <2> QED BY <1>1, <2>1, <2>2, <2>3, <2>4, <2>5, WhoWritesCatalog
<1>2. IInv /\ [Next]_vars => [Unused]_vars
  BY <1>1
<1> HIDE DEF Unused
<1>3. Spec => [][Unused]_vars
  BY <1>2, Invariant, PTL DEF Spec
<1> QED BY <1>3 DEF DeletedAssetsAreUnused, Unused

-------------------------------------------------------------------------------
(***************************************************************************)
(* The audits, for every set of volumes and every required number of       *)
(* copies.                                                                 *)
(***************************************************************************)
\* An active location of a volume that is up to date is a file with its content.
LEMMA LocationsAreFiles ==
  ASSUME IInv, silent = {}, NEW pl \in Place, pl[1] \in settled
  PROVE  /\ \A s \in Active(saved, pl) : /\ s \in Source /\ Readable(pl) /\ file[pl] # Absent
                                         /\ Asset(pl, s) = file[pl]
         /\ Readable(pl) => Active(saved, pl) # {}
         /\ \A s, t \in Active(saved, pl) : s = t
  BY DEF IInv, ExactAt, Readable, Active, Rows, Asset

\* Active locations are places with an active row.
LEMMA LocationsAre ==
  /\ \A l : l \in Locations <=>
       \E pl \in Place, s \in Source : l = <<pl, s>> /\ s \in Active(saved, pl)
  /\ \A c, l : l \in LocationsOf(c) <=> l \in Locations /\ Asset(l[1], l[2]) = c
  BY DEF Locations, LocationsOf

\* A folder that is called a safe candidate can go.
THEOREM AuditSafeFolderLosesNothing == Spec => []SafeFolderLosesNothing
<1>1. ASSUME IInv PROVE SafeFolderLosesNothing
  <2> SUFFICES ASSUME NEW v \in Volume, NEW F \in SUBSET Path, \A p \in F : <<v, p>> \in Place,
                      UpToDate(online \cup {v}), SafeCandidate(v, F), NEW p \in ActualPaths(v, F),
                      \A q \in ActualPaths(v, F) \ {p} : file[<<v, q>>] # file[<<v, p>>],
                      \A l \in Standing(v, p) : l[1][2] = p
               PROVE  \E pl \in Place : /\ pl[1] \in mounted /\ file[pl] = file[<<v, p>>]
                                        /\ ~(pl[1] = v /\ pl[2] \in F)
    BY DEF SafeFolderLosesNothing
  <2> DEFINE here == <<v, p>>
  <2>1. /\ p \in F /\ here \in Place /\ v \in mounted /\ v \in settled /\ silent = {}
        /\ online \subseteq settled \cap mounted
    BY DEF ActualPaths, UpToDate
  <2>2. PICK k \in Standing(v, p) : FolderStatus(v, p, k) = "VERIFIED_ELSEWHERE"
    BY DEF SafeCandidate
  <2>3. k \in Locations /\ k[1][1] = v /\ k[1][2] = p
    BY <2>2 DEF Standing
  <2>4. PICK s \in Source : k = <<here, s>> /\ s \in Active(saved, here)
    <3>1. PICK pl \in Place, s \in Source : k = <<pl, s>> /\ s \in Active(saved, pl)
      BY <2>3, LocationsAre
    <3>2. pl = here
      BY <2>3, <3>1, Places
    <3> QED BY <3>1, <3>2
  <2>5. PICK l \in Others(k) : l[1][1] \in online
    BY <2>2 DEF FolderStatus
  <2>6. Asset(here, s) = file[here]
    BY <1>1, <2>1, <2>4, LocationsAreFiles
  <2>7. l \in Locations /\ Asset(l[1], l[2]) = file[here] /\ l # <<here, s>>
    BY <2>4, <2>5, <2>6, LocationsAre DEF Others
  <2>8. PICK pl \in Place, t \in Source : l = <<pl, t>> /\ t \in Active(saved, pl)
    BY <2>7, LocationsAre
  <2>9. pl[1] \in online /\ pl[1] \in settled /\ pl[1] \in mounted
    BY <2>1, <2>5, <2>8
  <2>10. file[pl] = file[here] /\ Readable(pl)
    BY <1>1, <2>1, <2>7, <2>8, <2>9, LocationsAreFiles
  <2>11. ASSUME pl[1] = v, pl[2] \in F PROVE FALSE
    <3>1. pl = <<v, pl[2]>>
      BY <2>11, Places
    <3>2. pl[2] \in ActualPaths(v, F)
      BY <2>1, <2>10, <2>11, <3>1 DEF ActualPaths
    <3>3. pl = here
      BY <2>10, <3>1, <3>2
    <3>4. t = s
      BY <1>1, <2>1, <2>4, <2>8, <3>3, LocationsAreFiles
    <3> QED BY <2>7, <2>8, <3>3, <3>4
  <2> QED BY <2>9, <2>10, <2>11
<1> QED BY <1>1, Invariant, PTL

\* The members a content is known on, when all are up to date.
LEMMA KnownAreDisks ==
  ASSUME IInv, UpToDate(Member), Member \subseteq online, NEW c
  PROVE  /\ c # Absent => KnownVolumes(c) = Disks(c)
         /\ (\E l \in Observations(c) : l[1][1] = Primary) => Primary \in Disks(c)
<1>1. silent = {} /\ Member \subseteq settled /\ InScope \subseteq Place
  BY AuditsConstants DEF UpToDate
<1>2. ASSUME NEW l \in Observations(c)
      PROVE  l[1] \in InScope /\ l[1][1] \in Member /\ Readable(l[1]) /\ file[l[1]] = c
  <2>1. l \in Locations /\ l[1] \in InScope /\ l[1][1] \in Member /\ Asset(l[1], l[2]) = c
    BY DEF Observations, Observed
  <2>2. PICK pl \in Place, s \in Source : l = <<pl, s>> /\ s \in Active(saved, pl)
    BY <2>1, LocationsAre
  <2> QED BY <1>1, <2>1, <2>2, LocationsAreFiles
<1>3. ASSUME NEW pl \in InScope, pl[1] \in Member, Readable(pl), file[pl] = c, c # Absent
      PROVE  \E l \in Observations(c) : l[1] = pl
  <2>1. PICK s \in Active(saved, pl) : s \in Source /\ Asset(pl, s) = c
    BY <1>1, <1>3, LocationsAreFiles
  <2>2. <<pl, s>>[1] = pl /\ <<pl, s>>[2] = s
    OBVIOUS
  <2>3. <<pl, s>> \in Locations
    BY <1>1, <2>1, LocationsAre
  <2>4. <<pl, s>> \in Observations(c)
    BY <1>3, <2>1, <2>2, <2>3 DEF Observations, Observed
  <2> QED BY <2>2, <2>4
<1>4. ASSUME c # Absent PROVE KnownVolumes(c) = Disks(c)
  <2>1. ASSUME NEW v \in KnownVolumes(c) PROVE v \in Disks(c)
    BY <1>2, <2>1 DEF KnownVolumes, Disks
  <2>2. ASSUME NEW v \in Disks(c) PROVE v \in KnownVolumes(c)
    BY <1>3, <1>4, <2>2 DEF KnownVolumes, Disks
  <2> QED BY <2>1, <2>2
<1> QED BY <1>2, <1>4 DEF Disks

\* What the audit of a backup set says of an asset is so on the disks.
THEOREM AuditIsTrue == Spec => []AuditTellsTheTruth
<1>1. ASSUME IInv PROVE AuditTellsTheTruth
  <2> SUFFICES ASSUME UpToDate(Member), NEW c \in Audited
               PROVE  /\ Protected(c) => Primary \in Disks(c)
                      /\ AuditStatus(c) = "VERIFIED_REDUNDANT" => Cardinality(Disks(c)) >= Required
                      /\ AuditStatus(c) = "MULTI_COPY" => Cardinality(Disks(c)) >= 3
                      /\ AuditStatus(c) = "MISSING_BACKUP" => Cardinality(Disks(c)) < Required
    BY DEF AuditTellsTheTruth
  <2>1. c # Absent
    <3>1. PICK l \in Locations : c = Asset(l[1], l[2])
      BY DEF Audited, Observed
    <3>2. PICK pl \in Place, s \in Source : l = <<pl, s>> /\ s \in Active(saved, pl)
      BY <3>1, LocationsAre
    <3>3. c \in Content
      BY <1>1, <3>1, <3>2, Typed, RowsTyped DEF IInv, Asset
    <3> QED BY <3>3, ScannerConstants
  <2>2. Cardinality(Disks(c)) \in Nat /\ Required \in Nat
    <3>1. IsFiniteSet(Disks(c))
      BY AuditsConstants, FS_Subset DEF Disks
    <3> QED BY <3>1, FS_CardinalityType, AuditsConstants
  <2>3. AuditStatus(c) \notin {"CONFLICT", "OFFLINE_UNKNOWN", "BACKUP_ONLY"} =>
          Primary \in Disks(c) /\ KnownVolumes(c) = Disks(c)
    BY <1>1, <2>1, KnownAreDisks DEF AuditStatus
  <2>4. LET copies == Cardinality(KnownVolumes(c)) IN
        /\ AuditStatus(c) = "VERIFIED_REDUNDANT" => copies >= Required
        /\ AuditStatus(c) = "MULTI_COPY" => copies >= 3
        /\ AuditStatus(c) = "MISSING_BACKUP" => ~(copies >= Required)
    BY DEF AuditStatus
  <2> QED BY <2>2, <2>3, <2>4 DEF Protected
<1> QED BY <1>1, Invariant, PTL

-------------------------------------------------------------------------------
(***************************************************************************)
(* Listings: what sorting a set of photos gives.                           *)
(***************************************************************************)
\* Texts that are compared are numbers; assets have numbers too.
LEMMA DisplayTyped ==
  ASSUME BrowseTypeOK, NEW e \in Entry
  PROVE  /\ Display(e) \in Nat /\ AssetOf(e) \in 1..Entries /\ Raw(e) \in Nat
         /\ Display(e) = 0 => Raw(e) = 0
<1>1. taken[e] \in Stamps
  BY DEF BrowseTypeOK
<1>2. /\ taken[e].at \in Nat /\ taken[e].t \in BOOLEAN /\ taken[e].shift \in Int
      /\ taken[e].at # 0 => taken[e].at + taken[e].shift > 0
  BY <1>1, BrowseConstants
<1>3. \A at \in Nat : \A t \in BOOLEAN : Text(at, t) \in Nat /\ (at # 0 => Text(at, t) # 0)
  <2> SUFFICES ASSUME NEW at \in Nat, NEW t \in BOOLEAN, at # 0 PROVE Text(at, t) \in Nat \ {0}
    BY DEF Text
  <2>1. at - 1 \in Nat
    OBVIOUS
  <2>2. (at - 1) \div 2 \in Nat /\ (at - 1) % 2 \in Nat
    BY <2>1
  <2> QED BY <2>2 DEF Text
<1>4. Raw(e) \in Nat
  BY <1>2, <1>3 DEF Raw
<1>5. Display(e) \in Nat /\ (Display(e) = 0 => Raw(e) = 0)
  <2>1. CASE taken[e].at = 0
    BY <2>1 DEF Display, Raw, Text
  <2>2. CASE taken[e].at # 0
    <3>1. taken[e].at + taken[e].shift \in Nat /\ taken[e].at + taken[e].shift # 0
      BY <1>2, <2>2
    <3>2. \A at \in Nat : at # 0 => Text(at, FALSE) \in Nat /\ Text(at, FALSE) # 0
      BY <1>3
    <3>3. Text(taken[e].at + taken[e].shift, FALSE) \in Nat \ {0}
      BY <3>1, <3>2
    <3> QED BY <3>3, <2>2 DEF Display
  <2> QED BY <2>1, <2>2
<1>6. AssetOf(e) \in 1..Entries
  BY BrowseConstants DEF AssetOf, Entry
<1> QED BY <1>4, <1>5, <1>6

\* The order of a listing is a total one.
LEMMA TotalOrder ==
  ASSUME BrowseTypeOK
  PROVE  /\ \A e \in Entry : ~Precedes(e, e)
         /\ \A e, q \in Entry : e = q \/ Precedes(e, q) \/ Precedes(q, e)
         /\ \A e, q, r \in Entry : Precedes(e, q) /\ Precedes(q, r) => Precedes(e, r)
<1>1. \A e \in Entry : Display(e) \in Nat /\ AssetOf(e) \in Nat /\ e \in Nat
  BY DisplayTyped DEF Entry
<1>2. \A e \in Entry : ~Precedes(e, e)
  BY <1>1 DEF Precedes
<1>3. \A e, q \in Entry : e = q \/ Precedes(e, q) \/ Precedes(q, e)
  BY <1>1 DEF Precedes
<1>4. ASSUME NEW e \in Entry, NEW q \in Entry, NEW r \in Entry, Precedes(e, q), Precedes(q, r)
      PROVE  Precedes(e, r)
  BY <1>1, <1>4 DEF Precedes
<1> QED BY <1>2, <1>3, <1>4

\* Places in the listing of S.
Rank(S, e) == Cardinality(Before(S, e))

\* Places are numbers below the size of S, and in the order of the photos.
LEMMA RankBound ==
  ASSUME BrowseTypeOK, NEW S \in SUBSET Entry
  PROVE  /\ IsFiniteSet(S) /\ Cardinality(S) \in Nat
         /\ \A e \in S : Rank(S, e) \in 0..Cardinality(S) - 1
         /\ \A e \in S, q \in S : Precedes(e, q) => Rank(S, e) < Rank(S, q)
         /\ \A e \in Entry : IsFiniteSet(Before(S, e))
<1>1. IsFiniteSet(Entry)
  BY BrowseConstants, FS_Interval DEF Entry
<1>2. IsFiniteSet(S) /\ Cardinality(S) \in Nat
  BY <1>1, FS_Subset, FS_CardinalityType
<1>3. \A e \in Entry : IsFiniteSet(Before(S, e)) /\ Cardinality(Before(S, e)) \in Nat
  <2> TAKE e \in Entry
  <2>1. Before(S, e) \in SUBSET S
    BY DEF Before
  <2> QED BY <2>1, <1>2, FS_Subset, FS_CardinalityType
<1>4. ASSUME NEW e \in S PROVE Rank(S, e) \in 0..Cardinality(S) - 1
  <2>1. Before(S, e) \in SUBSET (S \ {e})
    BY TotalOrder DEF Before
  <2>2. IsFiniteSet(S \ {e}) /\ Cardinality(S \ {e}) = Cardinality(S) - 1
    BY <1>2, FS_RemoveElement
  <2>3. Cardinality(Before(S, e)) <= Cardinality(S) - 1
    BY <2>1, <2>2, FS_Subset
  <2> QED BY <2>3, <1>2, <1>3 DEF Rank
<1>5. ASSUME NEW e \in S, NEW q \in S, Precedes(e, q) PROVE Rank(S, e) < Rank(S, q)
  <2>1. Before(S, e) \in SUBSET (Before(S, q) \ {e})
    BY <1>5, TotalOrder DEF Before
  <2>2. e \in Before(S, q)
    BY <1>5 DEF Before
  <2>3. IsFiniteSet(Before(S, q)) /\ Cardinality(Before(S, q)) \in Nat /\ Cardinality(Before(S, e)) \in Nat
    BY <1>3
  <2>4. IsFiniteSet(Before(S, q) \ {e}) /\ Cardinality(Before(S, q) \ {e}) = Cardinality(Before(S, q)) - 1
    BY <2>2, <2>3, FS_RemoveElement
  <2>5. Cardinality(Before(S, e)) <= Cardinality(Before(S, q)) - 1
    BY <2>1, <2>4, FS_Subset
  <2> QED BY <2>3, <2>5 DEF Rank
<1> QED BY <1>2, <1>3, <1>4, <1>5

\* Each place is one photo's.
LEMMA Ranked ==
  ASSUME BrowseTypeOK, NEW S \in SUBSET Entry, NEW n \in 1..Cardinality(S)
  PROVE  /\ InOrder(S)[n] \in S /\ Rank(S, InOrder(S)[n]) = n - 1
         /\ \A e \in S : Rank(S, e) = n - 1 => e = InOrder(S)[n]
<1> DEFINE f == [e \in S |-> Rank(S, e)]
           T == 0..Cardinality(S) - 1
<1>1. /\ IsFiniteSet(S) /\ Cardinality(S) \in Nat
      /\ \A e \in S : Rank(S, e) \in T
      /\ \A e \in S, q \in S : Precedes(e, q) => Rank(S, e) < Rank(S, q)
  BY RankBound
<1>2. \A e \in S, q \in S : Rank(S, e) = Rank(S, q) => e = q
  BY <1>1, TotalOrder
<1>3. IsFiniteSet(T) /\ Cardinality(T) = Cardinality(S)
  <2>1. \A c \in Nat : IsFiniteSet(0..c - 1) /\ Cardinality(0..c - 1) = c
    <3> TAKE c \in Nat
    <3>1. 0 \in Int /\ c - 1 \in Int
      OBVIOUS
    <3>2. IsFiniteSet(0..c - 1) /\ Cardinality(0..c - 1) = IF 0 > c - 1 THEN 0 ELSE c - 1 - 0 + 1
      BY <3>1, FS_Interval
    <3> QED BY <3>2
  <2> QED BY <1>1, <2>1
<1>4. f \in [S -> T]
  BY <1>1
<1>5. f \in Injection(S, T)
  BY <1>2, <1>4 DEF Injection, IsInjective
<1>6. f \in Surjection(S, T)
  BY <1>3, <1>5, FS_Injection
<1>7. n - 1 \in T
  BY <1>1
<1>8. PICK e \in S : f[e] = n - 1
  <2> HIDE DEF f, T
  <2>1. \A t \in T : \E e \in S : f[e] = t
    BY <1>6 DEF Surjection
  <2> QED BY <2>1, <1>7
<1>9. \E e_1 \in S : Cardinality(Before(S, e_1)) = n - 1
  BY <1>8 DEF Rank
<1>10. InOrder(S)[n] = CHOOSE e_1 \in S : Cardinality(Before(S, e_1)) = n - 1
  BY DEF InOrder
<1>11. InOrder(S)[n] \in S /\ Rank(S, InOrder(S)[n]) = n - 1
  BY <1>9, <1>10 DEF Rank
<1> QED BY <1>2, <1>11

\* A listing has each photo of its set once, in order.
LEMMA Listing ==
  ASSUME BrowseTypeOK, NEW S \in SUBSET Entry
  PROVE  /\ InOrder(S) \in Seq(S) /\ Len(InOrder(S)) = Cardinality(S) /\ Cardinality(S) \in Nat
         /\ \A i, j \in 1..Cardinality(S) : i < j => Precedes(InOrder(S)[i], InOrder(S)[j])
         /\ \A e \in S : \E i \in 1..Cardinality(S) : InOrder(S)[i] = e
<1> DEFINE c == Cardinality(S)
           s == InOrder(S)
<1>1. /\ c \in Nat
      /\ \A e \in S : Rank(S, e) \in 0..c - 1
      /\ \A e \in S, q \in S : Precedes(e, q) => Rank(S, e) < Rank(S, q)
  BY RankBound
<1>2. \A n \in 1..c : /\ s[n] \in S /\ Rank(S, s[n]) = n - 1
                      /\ \A e \in S : Rank(S, e) = n - 1 => e = s[n]
  BY Ranked
<1>3. DOMAIN s = 1..c /\ s = [n \in 1..c |-> s[n]]
  BY DEF InOrder
<1>4. s \in Seq(S) /\ Len(s) = c
  <2> HIDE DEF s
  <2>1. s \in [1..c -> S]
    BY <1>2, <1>3
  <2> QED BY <2>1, <1>1
<1>5. ASSUME NEW i \in 1..c, NEW j \in 1..c, i < j PROVE Precedes(s[i], s[j])
  <2> HIDE DEF s
  <2>1. s[i] \in S /\ s[j] \in S /\ Rank(S, s[i]) < Rank(S, s[j])
    BY <1>1, <1>2, <1>5
  <2>2. s[i] # s[j] /\ ~Precedes(s[j], s[i])
    BY <1>1, <2>1
  <2> QED BY <2>1, <2>2, TotalOrder
<1>6. ASSUME NEW e \in S PROVE \E i \in 1..c : s[i] = e
  <2> HIDE DEF s
  <2>1. Rank(S, e) + 1 \in 1..c /\ Rank(S, e) = (Rank(S, e) + 1) - 1
    BY <1>1
  <2>2. s[Rank(S, e) + 1] = e
    BY <2>1, <1>2
  <2> QED BY <2>1, <2>2
<1> HIDE DEF s
<1> QED BY <1>1, <1>4, <1>5, <1>6 DEF s

\* A photo that is taken out of a set moves those behind it forward by one place.
LEMMA RankWithout ==
  ASSUME BrowseTypeOK, NEW S \in SUBSET Entry, NEW e \in S
  PROVE  /\ Rank(S, e) \in Nat /\ Rank(S \ {e}, e) = Rank(S, e)
         /\ \A x \in S \ {e} :
              /\ Rank(S, x) \in Nat
              /\ Precedes(e, x) => Rank(S \ {e}, x) = Rank(S, x) - 1 /\ Rank(S, e) < Rank(S, x)
              /\ ~Precedes(e, x) => Rank(S \ {e}, x) = Rank(S, x)
<1>1. \A x \in S : Rank(S, x) \in Nat /\ IsFiniteSet(Before(S, x))
  BY RankBound
<1>2. Rank(S \ {e}, e) = Rank(S, e)
  <2>1. Before(S \ {e}, e) = Before(S, e)
    BY TotalOrder DEF Before
  <2> QED BY <2>1 DEF Rank
<1>3. ASSUME NEW x \in S \ {e}, Precedes(e, x)
      PROVE  Rank(S \ {e}, x) = Rank(S, x) - 1 /\ Rank(S, e) < Rank(S, x)
  <2>1. Before(S \ {e}, x) = Before(S, x) \ {e} /\ e \in Before(S, x)
    BY <1>3 DEF Before
  <2>2. Cardinality(Before(S, x) \ {e}) = Cardinality(Before(S, x)) - 1
    BY <1>1, <2>1, FS_RemoveElement
  <2> QED BY <1>3, <2>1, <2>2, RankBound DEF Rank
<1>4. ASSUME NEW x \in S \ {e}, ~Precedes(e, x) PROVE Rank(S \ {e}, x) = Rank(S, x)
  <2>1. Before(S \ {e}, x) = Before(S, x)
    BY <1>4 DEF Before
  <2> QED BY <2>1 DEF Rank
<1> QED BY <1>1, <1>2, <1>3, <1>4

\* A list in the order of a listing, and what is in it.
Ordered(s) == \A i, j \in 1..Len(s) : i < j => Precedes(s[i], s[j])
Shows(s, e) == \E i \in 1..Len(s) : s[i] = e

\* A slice of a listing.
LEMMA SliceIs ==
  ASSUME BrowseTypeOK, NEW S \in SUBSET Entry, NEW offset \in Nat
  PROVE  LET found == InOrder(S)
             page == Slice(found, offset)
             c == Cardinality(S)
         IN /\ page \in Seq(S)
            /\ Len(page) = IF offset + PageSize < c THEN PageSize
                           ELSE IF offset < c THEN c - offset ELSE 0
            /\ \A i \in 1..Len(page) : page[i] = found[offset + i] /\ offset + i \in 1..c
<1> DEFINE found == InOrder(S)
           c == Cardinality(S)
           page == Slice(found, offset)
<1>1. found \in Seq(S) /\ Len(found) = c /\ c \in Nat
  BY Listing
<1>2. PageSize \in Nat \ {0}
  BY BrowseConstants
<1> HIDE DEF found, c
<1> DEFINE to == IF offset + PageSize < c THEN offset + PageSize ELSE c
<1>3. to \in Nat /\ to <= c /\ page = SubSeq(found, offset + 1, to)
  BY <1>1, <1>2 DEF Slice
<1>4. Len(page) = (IF offset < to THEN to - offset ELSE 0)
      /\ \A i \in 1..Len(page) : page[i] = found[offset + i] /\ offset + i \in 1..c
  <2> HIDE DEF to, page
  <2>1. Len(page) = IF offset < to THEN to - offset ELSE 0
    BY <1>1, <1>3
  <2>2. \A i \in 1..Len(page) : page[i] = found[offset + 1 + i - 1]
    BY <1>1, <1>3
  <2> QED BY <2>1, <2>2, <1>1, <1>3
<1>5. page \in Seq(S)
  <2> HIDE DEF to, page
  <2>1. \A i \in 1..Len(page) : page[i] \in S
    BY <1>1, <1>4
  <2>2. page \in Seq({found[i] : i \in 1..c})
    <3>1. found \in Seq({found[i] : i \in 1..c})
      BY <1>1
    <3> QED BY <3>1, <1>1, <1>3
  <2>3. page = [i \in 1..Len(page) |-> page[i]] /\ Len(page) \in Nat
    BY <2>2
  <2>4. page \in [1..Len(page) -> S]
    BY <2>1, <2>3
  <2> QED BY <2>3, <2>4
<1> QED BY <1>2, <1>4, <1>5 DEF found, c

\* The first page of a set: all of it, or all but what follows its last photo.
LEMMA FirstPage ==
  ASSUME BrowseTypeOK, NEW S \in SUBSET Entry
  PROVE  LET page == Slice(InOrder(S), 0)
             c == Cardinality(S)
         IN /\ page \in Seq(S) /\ Ordered(page) /\ c \in Nat /\ Len(InOrder(S)) = c
            /\ Len(page) = IF c <= PageSize THEN c ELSE PageSize
            /\ c <= PageSize => \A e \in S : Shows(page, e)
            /\ c > PageSize =>
                 /\ page # <<>> /\ page[Len(page)] \in S
                 /\ \A e \in S : Shows(page, e) \/ Precedes(page[Len(page)], e)
<1> DEFINE found == InOrder(S)
           c == Cardinality(S)
           page == Slice(found, 0)
<1>1. /\ Len(found) = c /\ c \in Nat
      /\ \A i, j \in 1..c : i < j => Precedes(found[i], found[j])
      /\ \A e \in S : \E i \in 1..c : found[i] = e
  BY Listing
<1>2. PageSize \in Nat \ {0}
  BY BrowseConstants
<1>3. /\ page \in Seq(S)
      /\ Len(page) = IF 0 + PageSize < c THEN PageSize ELSE IF 0 < c THEN c - 0 ELSE 0
      /\ \A i \in 1..Len(page) : page[i] = found[0 + i] /\ 0 + i \in 1..c
  BY SliceIs
<1> HIDE DEF found, c, page
<1>7. /\ Len(page) = IF PageSize < c THEN PageSize ELSE c
      /\ \A i \in 1..Len(page) : page[i] = found[i] /\ i \in 1..c
  BY <1>1, <1>2, <1>3
<1>4. Ordered(page)
  BY <1>1, <1>3, <1>7 DEF Ordered
<1>5. c <= PageSize => \A e \in S : Shows(page, e)
  BY <1>1, <1>2, <1>3, <1>7 DEF Shows
<1>6. ASSUME c > PageSize
      PROVE  /\ page # <<>> /\ page[Len(page)] \in S
             /\ \A e \in S : Shows(page, e) \/ Precedes(page[Len(page)], e)
  <2>1. Len(page) = PageSize /\ page[PageSize] = found[PageSize] /\ PageSize \in 1..c
    BY <1>1, <1>2, <1>3, <1>7, <1>6
  <2>2. page # <<>> /\ page[Len(page)] \in S
    BY <2>1, <1>2, <1>3, <1>7
  <2>3. ASSUME NEW e \in S PROVE Shows(page, e) \/ Precedes(page[Len(page)], e)
    <3>1. PICK i \in 1..c : found[i] = e
      BY <1>1
    <3>2. CASE i <= PageSize
      BY <3>1, <3>2, <2>1, <1>2, <1>3, <1>7 DEF Shows
    <3>3. CASE i > PageSize
      BY <3>1, <3>3, <2>1, <1>1, <1>2
    <3> QED BY <3>2, <3>3, <1>1, <1>2
  <2> QED BY <2>2, <2>3
<1> QED BY <1>1, <1>2, <1>3, <1>7, <1>4, <1>5, <1>6 DEF found, c, page

-------------------------------------------------------------------------------
Cursor == [display : Nat, asset : 0..Entries]
Request == [way : {"idle", "first", "more"}, filter : Filter, cursor : Cursor]
End(s) == s[Len(s)]

\* A sequence over a set is one over a larger set.
LEMMA WiderSeq ==
  ASSUME NEW S, NEW T, S \subseteq T, NEW s \in Seq(S)
  PROVE  s \in Seq(T)
OBVIOUS

\* Filters choose among the photos.
LEMMA MatchingIs ==
  ASSUME NEW f \in Filter, NEW unwanted
  PROVE  Matching(f, unwanted) \in SUBSET Entry
BY BrowseConstants DEF Matching, Entry, Filter

\* The cursor at a photo is one, and none is another.
LEMMA CursorTyped ==
  ASSUME BrowseTypeOK
  PROVE  /\ NoCursor \in Cursor
         /\ \A e \in Entry : CursorAt(e) \in Cursor /\ CursorAt(e) # NoCursor
                            /\ CursorAt(e).display = Display(e) /\ CursorAt(e).asset = AssetOf(e)
<1>1. \A e \in Entry : Display(e) \in Nat /\ AssetOf(e) \in 1..Entries
  BY DisplayTyped
<1> QED BY <1>1, BrowseConstants DEF Cursor, CursorAt, NoCursor

\* A page of the server: photos behind the cursor, in order, and the rest
\* behind the next one.
LEMMA PageIs ==
  ASSUME BrowseTypeOK, NEW f \in Filter, NEW c \in Cursor
  PROVE  LET S == {e \in Matching(f, rejected) : Follows(e, c)}
             page == LibraryPage(f, c)
         IN /\ S \in SUBSET Entry
            /\ page.items \in Seq(S) /\ page.items \in Seq(Entry)
            /\ Ordered(page.items) /\ page.more \in BOOLEAN
            /\ ~page.more => page.next = NoCursor /\ \A e \in S : Shows(page.items, e)
            /\ page.more =>
                 /\ page.items # <<>> /\ End(page.items) \in S /\ Len(page.items) = PageSize
                 /\ page.next = CursorAt(End(page.items))
                 /\ \A e \in S : Shows(page.items, e) \/ Precedes(End(page.items), e)
            /\ page.next \in Cursor
<1> DEFINE S == {e \in Matching(f, rejected) : Follows(e, c)}
           items == Slice(InOrder(S), 0)
           page == LibraryPage(f, c)
<1>1. S \in SUBSET Entry
  BY MatchingIs
<1>2. /\ items \in Seq(S) /\ Ordered(items)
      /\ Cardinality(S) \in Nat /\ Len(InOrder(S)) = Cardinality(S)
      /\ Cardinality(S) <= PageSize => \A e \in S : Shows(items, e)
      /\ Cardinality(S) > PageSize =>
           /\ items # <<>> /\ End(items) \in S /\ Len(items) = PageSize
           /\ \A e \in S : Shows(items, e) \/ Precedes(End(items), e)
  <2>1. /\ items \in Seq(S) /\ Ordered(items)
        /\ Cardinality(S) \in Nat /\ Len(InOrder(S)) = Cardinality(S)
        /\ Len(items) = IF Cardinality(S) <= PageSize THEN Cardinality(S) ELSE PageSize
        /\ Cardinality(S) <= PageSize => \A e \in S : Shows(items, e)
        /\ Cardinality(S) > PageSize =>
             /\ items # <<>> /\ End(items) \in S
             /\ \A e \in S : Shows(items, e) \/ Precedes(End(items), e)
    BY <1>1, FirstPage DEF End
  <2>2. Cardinality(S) > PageSize => ~(Cardinality(S) <= PageSize)
    BY <2>1, BrowseConstants
  <2> QED BY <2>1, <2>2
<1>3. /\ page.items = items
      /\ page.more = (Cardinality(S) > PageSize)
      /\ page.next = IF Cardinality(S) > PageSize THEN CursorAt(End(items)) ELSE NoCursor
  BY <1>2 DEF LibraryPage, End
<1> HIDE DEF S, items, page
<1>4. page.next \in Cursor
  BY <1>1, <1>2, <1>3, CursorTyped
<1>5. Cardinality(S) > PageSize <=> ~(Cardinality(S) <= PageSize)
  BY <1>2, BrowseConstants
<1>6. page.more \in BOOLEAN /\ page.items \in Seq(Entry)
  BY <1>1, <1>2, <1>3, WiderSeq
<1>7. /\ ~page.more => page.next = NoCursor /\ \A e \in S : Shows(page.items, e)
      /\ page.more => /\ page.items # <<>> /\ End(page.items) \in S /\ Len(page.items) = PageSize
                      /\ page.next = CursorAt(End(page.items))
                      /\ \A e \in S : Shows(page.items, e) \/ Precedes(End(page.items), e)
  BY <1>2, <1>3, <1>5
<1> QED BY <1>1, <1>2, <1>3, <1>4, <1>6, <1>7 DEF S, page

-------------------------------------------------------------------------------
(***************************************************************************)
(* The invariant.                                                          *)
(***************************************************************************)
\* What has matched since the listing began is not rejected.
StayInv == stay \subseteq Matching("all", rejected)

\* No source moves its times forward.
Unmoved == \A q \in Entry : Display(q) <= Raw(q)

\* A cursor is the end of what is listed, and of a page while there is more; a photo
\* that is not listed follows it or has been passed over at the end of a page.
WebInv ==
  reader = "web" =>
    /\ more => listed # <<>> /\ \E n \in Nat : Len(listed) = n * PageSize
    /\ cursor # NoCursor => more /\ cursor = CursorAt(End(listed))
    /\ asked.way = "first" => asked.cursor = NoCursor
    /\ asked.way = "more" => more /\ asked.cursor \in {NoCursor, CursorAt(End(listed))}
    /\ ~again /\ Unmoved => Ordered(listed)
    /\ \A e \in stay : \/ Shows(listed, e) \/ Straddled(e)
                       \/ more /\ Follows(e, CursorAt(End(listed)))

\* The window shows one page.
WindowInv ==
  reader = "window" =>
    /\ Ordered(listed)
    /\ ~more => \A e \in stay : Shows(listed, e)

\* The photos of the folder before the place that its listing has reached, and what
\* the list lacks.
Folder == Matching("all", rejected)
Reached == {e \in Folder : Rank(Folder, e) < Len(listed)}
Missing == {e \in stay : ~Shows(listed, e)}
Once(s, e) == \A i, j \in 1..Len(s) : s[i] = e /\ s[j] = e => i = j

\* A backup lacks no more than has been deleted before the place it has reached, and
\* has listed only what is before that place.
PhoneInv ==
  reader = "phone" =>
    /\ asked.way = "first" => listed = <<>>
    /\ Cardinality(Missing \cap Reached) <= skipped
    /\ ~more => Cardinality(Missing) <= skipped
    /\ ~again => \A e \in stay : Once(listed, e) /\ (Shows(listed, e) => e \in Reached)

BrowseInv == BrowseTypeOK /\ StayInv /\ WebInv /\ WindowInv /\ PhoneInv

-------------------------------------------------------------------------------
(***************************************************************************)
(* Every step keeps the types.                                             *)
(***************************************************************************)
\* The types at first.
LEMMA BrowseInitTyped == BrowseInit => BrowseTypeOK
<1> SUFFICES ASSUME BrowseInit PROVE BrowseTypeOK
  OBVIOUS
<1>1. NoCursor \in Cursor /\ rejected \subseteq Entry
  BY BrowseConstants DEF NoCursor, Cursor, Request, BrowseInit
<1>2. Idle \in Request /\ [Idle EXCEPT !.way = "first"] \in Request
  BY <1>1 DEF Idle, Filter, Request
<1>3. asked \in Request
  BY <1>2 DEF BrowseInit
<1>4. /\ reader \in {"web", "window", "phone"} /\ twins \in BOOLEAN /\ taken \in [Entry -> Stamps]
      /\ stay = {} /\ filter = "all" /\ cursor = NoCursor
      /\ listed = <<>> /\ reviews = 0 /\ drawn = FALSE /\ more = FALSE /\ again = FALSE /\ skipped = 0
  BY DEF BrowseInit
<1>5. 0 \in 0..MaxReviews /\ <<>> \in Seq(Entry)
  BY BrowseConstants
<1> QED BY <1>1, <1>3, <1>4, <1>5 DEF BrowseTypeOK, Filter, Cursor, Request

\* Two lists joined.
LEMMA Joined ==
  ASSUME NEW s \in Seq(Entry), NEW t \in Seq(Entry)
  PROVE  /\ s \o t \in Seq(Entry) /\ Len(s \o t) = Len(s) + Len(t)
         /\ \A i \in 1..Len(s) : (s \o t)[i] = s[i]
         /\ \A i \in 1..Len(t) : (s \o t)[Len(s) + i] = t[i]
         /\ t # <<>> => s \o t # <<>> /\ End(s \o t) = End(t)
<1>1. /\ s \o t \in Seq(Entry) /\ Len(s \o t) = Len(s) + Len(t)
      /\ \A i \in 1..Len(s) : (s \o t)[i] = s[i]
      /\ \A i \in 1..Len(t) : (s \o t)[Len(s) + i] = t[i]
  OBVIOUS
<1>2. ASSUME t # <<>> PROVE s \o t # <<>> /\ End(s \o t) = End(t)
  <2>1. Len(t) \in 1..Len(t) /\ Len(s) \in Nat
    BY <1>2
  <2> QED BY <2>1, <1>1 DEF End
<1> QED BY <1>1, <1>2

\* The types after a step.
LEMMA BrowseStepTyped == BrowseTypeOK /\ [BrowseNext]_browseVars => BrowseTypeOK'
<1> SUFFICES ASSUME BrowseTypeOK, [BrowseNext]_browseVars PROVE BrowseTypeOK'
  OBVIOUS
<1>0. /\ cursor \in Cursor /\ NoCursor \in Cursor
      /\ asked \in Request /\ Idle \in Request
      /\ filter \in Filter /\ "all" \in Filter
      /\ MaxReviews \in Nat /\ reviews \in 0..MaxReviews
  BY CursorTyped, BrowseConstants DEF BrowseTypeOK, Cursor, Request, Idle, Filter
<1>1. ASSUME NEW f \in Filter, Navigate(f) \/ NavigateWhileLoading(f) PROVE BrowseTypeOK'
  BY <1>0, <1>1 DEF BrowseTypeOK, Navigate, NavigateWhileLoading, Cursor, Request
<1>2. CASE OpenTopicsTab
  BY <1>0, <1>2 DEF BrowseTypeOK, OpenTopicsTab, Cursor, Request
<1>3. CASE LoadMore
  BY <1>0, <1>3 DEF BrowseTypeOK, LoadMore, Cursor, Request
<1>4. CASE Answer
  <2> DEFINE page == LibraryPage(asked.filter, asked.cursor)
  <2>1. asked.filter \in Filter /\ asked.cursor \in Cursor
    BY <1>0 DEF Request
  <2>2. page.items \in Seq(Entry) /\ page.more \in BOOLEAN /\ page.next \in Cursor
    BY <2>1, PageIs
  <2> HIDE DEF page
  <2>3. listed \o page.items \in Seq(Entry)
    BY <2>2, Joined DEF BrowseTypeOK
  <2>4. Matching(asked.filter, rejected) \in SUBSET Entry
    BY <2>1, MatchingIs
  <2>5. listed' \in Seq(Entry) /\ stay' \in SUBSET Entry /\ again' \in BOOLEAN
    BY <1>0, <1>4, <2>1, <2>2, <2>3, <2>4 DEF Answer, page, BrowseTypeOK
  <2>6. /\ cursor' \in Cursor /\ more' \in BOOLEAN /\ asked' = Idle /\ drawn' = TRUE
        /\ UNCHANGED <<reader, taken, twins, rejected, filter, skipped, reviews>>
    BY <1>4, <2>2 DEF Answer, page
  <2> QED BY <1>0, <2>5, <2>6 DEF BrowseTypeOK, Cursor, Request
<1>5. CASE AnswerFails
  BY <1>0, <1>5 DEF BrowseTypeOK, AnswerFails, Cursor, Request
<1>6. ASSUME NEW f \in Filter, NEW unwanted, ShowPage(f, unwanted),
             rejected' \in SUBSET Entry, reviews' \in 0..MaxReviews
      PROVE  BrowseTypeOK'
  <2> DEFINE items == Slice(InOrder(Matching(f, unwanted)), 0)
  <2>1. Matching(f, unwanted) \in SUBSET Entry
    BY MatchingIs
  <2>2. items \in Seq(Entry)
    BY <2>1, FirstPage
  <2> HIDE DEF items
  <2>3. /\ filter' = f /\ listed' = items /\ more' \in BOOLEAN /\ stay' \in SUBSET Entry
        /\ UNCHANGED <<reader, taken, twins, cursor, asked, drawn, again, skipped>>
    BY <1>6, <2>1 DEF ShowPage, items
  <2> QED BY <1>0, <1>6, <2>2, <2>3 DEF BrowseTypeOK, Cursor, Request
<1>7. ASSUME (\E f \in Filter : ResetPage(f)) \/ Refreshed PROVE BrowseTypeOK'
  <2>1. rejected' \in SUBSET Entry /\ reviews' \in 0..MaxReviews
    BY <1>7 DEF ResetPage, Refreshed, InWindow, BrowseTypeOK
  <2> QED BY <1>0, <1>6, <1>7, <2>1 DEF ResetPage, Refreshed
<1>8. ASSUME NEW e \in Entry, ReviewShown(e) PROVE BrowseTypeOK'
  <2>1. rejected' \in SUBSET Entry /\ reviews' \in 0..MaxReviews
    BY <1>0, <1>8 DEF ReviewShown, BrowseTypeOK
  <2> QED BY <1>0, <1>6, <1>8, <2>1 DEF ReviewShown
<1>9. ASSUME NEW e \in Entry, ReviewElsewhere(e) \/ PhoneChanges(e) PROVE BrowseTypeOK'
  <2>1. /\ rejected' \in SUBSET Entry /\ reviews' \in 0..MaxReviews /\ stay' \in SUBSET Entry
    BY <1>0, <1>9 DEF ReviewElsewhere, PhoneChanges, BrowseTypeOK
  <2>2. again' \in BOOLEAN /\ skipped' \in Nat
    <3>1. CASE ReviewElsewhere(e)
      BY <3>1 DEF ReviewElsewhere, BrowseTypeOK
    <3>2. CASE PhoneChanges(e)
      <4>1. again' = (again \/ (Passed(e) /\ e \in rejected))
        BY <3>2 DEF PhoneChanges
      <4>2. skipped' \in {skipped, skipped + 1}
        BY <3>2 DEF PhoneChanges
      <4>3. again' \in BOOLEAN
        BY <4>1, Zenon
      <4> QED BY <4>2, <4>3 DEF BrowseTypeOK
    <3> QED BY <1>9, <3>1, <3>2
  <2> QED BY <1>0, <1>9, <2>1, <2>2 DEF ReviewElsewhere, PhoneChanges, BrowseTypeOK, Cursor, Request
<1>10. CASE ListFolder
  <2>1. [Idle EXCEPT !.way = "first"] \in Request
    BY <1>0 DEF Request
  <2>2. <<>> \in Seq(Entry)
    OBVIOUS
  <2> QED BY <1>0, <1>10, <2>1, <2>2 DEF BrowseTypeOK, ListFolder, Cursor, Request
<1>11. CASE IterFolder
  <2> DEFINE page == list_folder_page(Len(listed))
  <2>1. Matching("all", rejected) \in SUBSET Entry
    BY <1>0, MatchingIs
  <2>2. page \in Seq(Entry)
    <3>1. Len(listed) \in Nat
      BY DEF BrowseTypeOK
    <3>2. page \in Seq(Matching("all", rejected))
      BY <2>1, <3>1, SliceIs DEF list_folder_page
    <3> QED BY <2>1, <3>2, WiderSeq
  <2> HIDE DEF page
  <2>3. listed \o page \in Seq(Entry)
    BY <2>2, Joined DEF BrowseTypeOK
  <2>4. [Idle EXCEPT !.way = "more"] \in Request
    BY <1>0 DEF Request
  <2>5. asked' \in Request
    BY <1>0, <1>11, <2>4 DEF IterFolder
  <2>6. /\ listed' \in Seq(Entry) /\ more' \in BOOLEAN /\ stay' \in SUBSET Entry /\ again' \in BOOLEAN
        /\ skipped' \in Nat /\ UNCHANGED <<reader, taken, twins, rejected, filter, cursor, drawn, reviews>>
    <3>1. /\ listed' = listed \o page /\ more' = (Len(page) = PageSize)
          /\ UNCHANGED <<reader, taken, twins, rejected, filter, cursor, drawn, reviews>>
          /\ \/ stay' = Matching("all", rejected) /\ again' = FALSE /\ skipped' = 0
             \/ UNCHANGED <<stay, again, skipped>>
      BY <1>11 DEF IterFolder, page
    <3>2. more' \in BOOLEAN
      BY <3>1, Zenon
    <3>3. again \in BOOLEAN /\ skipped \in Nat /\ stay \subseteq Entry
      BY DEF BrowseTypeOK
    <3>4. stay' \in SUBSET Entry /\ again' \in BOOLEAN /\ skipped' \in Nat
      <4>1. CASE stay' = Matching("all", rejected) /\ again' = FALSE /\ skipped' = 0
        BY <2>1, <4>1
      <4>2. CASE UNCHANGED <<stay, again, skipped>>
        BY <3>3, <4>2
      <4> QED BY <3>1, <4>1, <4>2
    <3> QED BY <2>3, <3>1, <3>2, <3>4
  <2> QED BY <1>0, <2>5, <2>6 DEF BrowseTypeOK, Cursor, Request
<1>12. CASE UNCHANGED browseVars
  BY <1>12 DEF BrowseTypeOK, browseVars
<1> QED BY <1>1, <1>2, <1>3, <1>4, <1>5, <1>7, <1>8, <1>9, <1>10, <1>11, <1>12 DEF BrowseNext

-------------------------------------------------------------------------------
(***************************************************************************)
(* Every step keeps the invariant.                                         *)
(***************************************************************************)
\* Who reads, and the times of the photos, stay.
LEMMA StepStill ==
  ASSUME [BrowseNext]_browseVars
  PROVE  UNCHANGED <<reader, taken, twins>>
BY DEF BrowseNext, browseVars, Navigate, NavigateWhileLoading, OpenTopicsTab, LoadMore, Answer,
       AnswerFails, ResetPage, Refreshed, InWindow, ShowPage, ReviewShown, ReviewElsewhere,
       ListFolder, IterFolder, PhoneChanges

\* So the order of the photos stays.
LEMMA Still ==
  ASSUME UNCHANGED <<reader, taken, twins>>
  PROVE  /\ \A e, q : Precedes(e, q)' <=> Precedes(e, q)
         /\ \A e, c : Follows(e, c)' <=> Follows(e, c)
         /\ \A e : /\ CursorAt(e)' = CursorAt(e) /\ Display(e)' = Display(e)
                  /\ Raw(e)' = Raw(e) /\ AssetOf(e)' = AssetOf(e)
         /\ Unmoved' <=> Unmoved
         /\ \A S : InOrder(S)' = InOrder(S) /\ \A e : Rank(S, e)' = Rank(S, e)
<1>1. \A e : Display(e)' = Display(e) /\ Raw(e)' = Raw(e) /\ AssetOf(e)' = AssetOf(e)
  BY DEF Display, Raw, AssetOf
<1>2. \A e, q : Precedes(e, q)' <=> Precedes(e, q)
  BY <1>1 DEF Precedes
<1>3. \A e, c : Follows(e, c)' <=> Follows(e, c)
  BY <1>1 DEF Follows
<1>4. \A e : CursorAt(e)' = CursorAt(e)
  BY <1>1 DEF CursorAt
<1>6. Unmoved' <=> Unmoved
  BY <1>1 DEF Unmoved
<1>5. \A S : InOrder(S)' = InOrder(S) /\ \A e : Rank(S, e)' = Rank(S, e)
  <2> TAKE S
  <2>1. \A e : Before(S, e)' = Before(S, e)
    BY <1>2 DEF Before
  <2> QED BY <2>1 DEF InOrder, Rank
<1> QED BY <1>1, <1>2, <1>3, <1>4, <1>5, <1>6

\* There are no more whole pages than photos.
LEMMA Below ==
  ASSUME NEW n \in Nat
  PROVE  n <= n * PageSize /\ n * PageSize \in Nat
<1>1. PICK m \in Nat : PageSize = m + 1
  <2>1. PageSize - 1 \in Nat /\ PageSize = (PageSize - 1) + 1
    BY BrowseConstants
  <2> QED BY <2>1
<1>2. n * PageSize = n * m + n /\ n * m \in Nat
  BY <1>1
<1> QED BY <1>2

\* The ends of the pages.
LEMMA PageEndsAre ==
  ASSUME BrowseTypeOK
  PROVE  /\ \A q : q \in PageEnds <=>
              \E n \in Nat \ {0} : n * PageSize <= Len(listed) /\ q = listed[n * PageSize]
         /\ \A n \in Nat \ {0} : n * PageSize \in Nat \ {0}
<1>1. PageSize \in Nat \ {0} /\ Len(listed) \in Nat
  BY BrowseConstants DEF BrowseTypeOK
<1>2. \A n \in Nat : n <= n * PageSize /\ n * PageSize \in Nat
  BY Below
<1>3. \A n \in Nat \ {0} : n * PageSize \in Nat \ {0}
  BY <1>2
<1>4. \A n \in Nat \ {0} : n * PageSize <= Len(listed) => n \in 1..Len(listed)
  BY <1>1, <1>2
<1> QED BY <1>3, <1>4 DEF PageEnds

\* What stays passed over while the list goes on.
LEMMA StraddledStays ==
  ASSUME BrowseTypeOK, BrowseTypeOK', UNCHANGED <<reader, taken, twins>>,
         Len(listed) <= Len(listed'), \A i \in 1..Len(listed) : listed'[i] = listed[i]
  PROVE  \A e : Straddled(e) => Straddled(e)'
<1>1. Len(listed) \in Nat /\ Len(listed') \in Nat
  BY DEF BrowseTypeOK
<1>2. ASSUME NEW q, q \in PageEnds PROVE q \in PageEnds'
  <2>1. PICK n \in Nat \ {0} : n * PageSize <= Len(listed) /\ q = listed[n * PageSize]
    BY <1>2, PageEndsAre
  <2>2. n * PageSize \in 1..Len(listed)
    BY <1>1, <2>1, PageEndsAre
  <2>3. n \in 1..Len(listed)
    BY <1>1, <2>1, <2>2, Below
  <2>4. n * PageSize <= Len(listed') /\ q = listed'[n * PageSize] /\ n \in 1..Len(listed')
    BY <1>1, <2>1, <2>2, <2>3
  <2> QED BY <2>4 DEF PageEnds
<1>3. \A e : Display(e)' = Display(e) /\ Raw(e)' = Raw(e) /\ AssetOf(e)' = AssetOf(e)
  BY Still
<1> QED BY <1>2, <1>3 DEF Straddled

\* A step that leaves the listing alone.
LEMMA WebFrame ==
  ASSUME WebInv, BrowseTypeOK, BrowseTypeOK', UNCHANGED <<reader, taken, twins, listed, more, again>>,
         stay' \subseteq stay, cursor' \in {cursor, NoCursor},
         \/ asked' = asked
         \/ asked'.way \in {"idle", "first"} /\ asked'.cursor = NoCursor
         \/ asked'.way = "more" /\ more /\ asked'.cursor = cursor
  PROVE  WebInv'
<1>1. /\ \A e, q : Precedes(e, q)' <=> Precedes(e, q)
      /\ \A e, c : Follows(e, c)' <=> Follows(e, c)
      /\ \A e : CursorAt(e)' = CursorAt(e)
      /\ Unmoved' <=> Unmoved
  BY Still
<1>2. End(listed)' = End(listed) /\ CursorAt(End(listed))' = CursorAt(End(listed)) /\ NoCursor' = NoCursor
  BY <1>1 DEF End, NoCursor
<1>3. Ordered(listed)' <=> Ordered(listed)
  BY <1>1 DEF Ordered
<1>4. \A e : /\ Shows(listed, e)' <=> Shows(listed, e)
             /\ Follows(e, CursorAt(End(listed)))' <=> Follows(e, CursorAt(End(listed)))
             /\ Straddled(e) => Straddled(e)'
  <2>1. Len(listed) <= Len(listed') /\ \A i \in 1..Len(listed) : listed'[i] = listed[i]
    BY DEF BrowseTypeOK
  <2> QED BY <1>1, <1>2, <2>1, StraddledStays DEF Shows
<1> QED BY <1>1, <1>2, <1>3, <1>4 DEF WebInv

\* A photo behind another that does not follow the cursor at it is passed over there.
LEMMA BehindEnd ==
  ASSUME BrowseTypeOK, reader = "web", NEW l \in Entry, NEW e \in Entry, Precedes(l, e),
         ~Follows(e, CursorAt(l))
  PROVE  /\ Display(e) <= Display(l) /\ Display(l) <= Raw(e)
         /\ Display(e) # Raw(e) \/ Raw(e) = 0 \/ AssetOf(l) = AssetOf(e)
<1>1. /\ Display(l) \in Nat /\ Display(e) \in Nat /\ Raw(e) \in Nat
      /\ AssetOf(l) \in Nat /\ AssetOf(e) \in Nat /\ (Display(e) = 0 => Raw(e) = 0)
      /\ CursorAt(l).display = Display(l) /\ CursorAt(l).asset = AssetOf(l) /\ l \in Nat /\ e \in Nat
  BY DisplayTyped, CursorTyped DEF Entry
<1>2. \/ Display(l) > Display(e)
      \/ Display(l) = Display(e) /\ AssetOf(l) <= AssetOf(e)
  BY <1>1 DEF Precedes
<1>3. \/ Display(l) = 0
      \/ Raw(e) >= Display(l) /\ (Raw(e) = Display(l) => AssetOf(e) <= AssetOf(l))
  BY <1>1 DEF Follows
<1> QED BY <1>1, <1>2, <1>3

\* What follows a cursor comes behind it, if no times were moved.
LEMMA FollowsPrecedes ==
  ASSUME BrowseTypeOK, reader = "web", Unmoved, NEW l \in Entry, NEW e \in Entry,
         Follows(e, CursorAt(l))
  PROVE  Precedes(l, e)
<1>1. /\ Display(l) \in Nat /\ Display(e) \in Nat /\ Raw(e) \in Nat
      /\ AssetOf(l) \in Nat /\ AssetOf(e) \in Nat
      /\ CursorAt(l).display = Display(l) /\ CursorAt(l).asset = AssetOf(l) /\ CursorAt(l) # NoCursor
  BY DisplayTyped, CursorTyped
<1>2. Display(e) <= Raw(e)
  BY DEF Unmoved
<1> QED BY <1>1, <1>2 DEF Follows, Precedes

\* What has matched since the listing began, step by step.
LEMMA StayStep ==
  ASSUME StayInv, BrowseTypeOK, [BrowseNext]_browseVars
  PROVE  StayInv'
<1>1. ASSUME NEW f \in Filter, Navigate(f) \/ NavigateWhileLoading(f) PROVE StayInv'
  BY <1>1 DEF Navigate, NavigateWhileLoading, StayInv, Matching
<1>2. CASE OpenTopicsTab \/ LoadMore \/ AnswerFails \/ ListFolder \/ UNCHANGED browseVars
  BY <1>2 DEF OpenTopicsTab, LoadMore, AnswerFails, ListFolder, browseVars, StayInv, Matching
<1>3. CASE Answer
  <2>1. asked.filter \in Filter
    BY DEF BrowseTypeOK
  <2>2. Matching(asked.filter, rejected) \subseteq Matching("all", rejected)
    BY <2>1, BrowseConstants DEF Matching, Filter, Entry
  <2>3. stay' \subseteq Matching("all", rejected) /\ rejected' = rejected
    BY <1>3, <2>2 DEF Answer, StayInv
  <2> QED BY <2>3 DEF StayInv, Matching
<1>4. ASSUME NEW f \in Filter, NEW unwanted, ShowPage(f, unwanted), rejected' = unwanted, reader = "window"
      PROVE  StayInv'
  BY <1>4, BrowseConstants DEF ShowPage, StayInv, Matching, Filter, Entry
<1>5. CASE (\E f \in Filter : ResetPage(f)) \/ Refreshed
  BY <1>4, <1>5 DEF ResetPage, Refreshed, InWindow, BrowseTypeOK
<1>6. ASSUME NEW e \in Entry, ReviewShown(e) PROVE StayInv'
  BY <1>4, <1>6 DEF ReviewShown, BrowseTypeOK
<1>7. ASSUME NEW e \in Entry, ReviewElsewhere(e) \/ PhoneChanges(e) PROVE StayInv'
  <2>1. /\ stay' = stay \ {e} /\ rejected' \subseteq rejected \cup {e}
    BY <1>7 DEF ReviewElsewhere, PhoneChanges
  <2> QED BY <2>1 DEF StayInv, Matching
<1>8. CASE IterFolder
  BY <1>8 DEF IterFolder, StayInv, Matching
<1> QED BY <1>1, <1>2, <1>3, <1>5, <1>6, <1>7, <1>8 DEF BrowseNext

\* The web page takes an answer.
LEMMA WebAnswer ==
  ASSUME BrowseInv, BrowseTypeOK', Answer
  PROVE  WebInv'
<1> DEFINE S == {e \in Matching(asked.filter, rejected) : Follows(e, asked.cursor)}
           page == LibraryPage(asked.filter, asked.cursor)
<1>1. /\ reader = "web" /\ UNCHANGED <<reader, taken, twins, rejected>>
      /\ cursor' = page.next /\ more' = page.more /\ asked' = Idle
      /\ asked.way \in {"first", "more"}
      /\ asked.way = "first" => /\ listed' = page.items /\ again' = FALSE
                                /\ stay' = Matching(asked.filter, rejected)
      /\ asked.way = "more" => /\ listed' = listed \o page.items
                               /\ stay' = stay \cap Matching(asked.filter, rejected)
                               /\ again' = (again \/ asked.cursor = NoCursor)
  BY DEF Answer
<1>2. /\ BrowseTypeOK /\ StayInv /\ WebInv /\ asked.filter \in Filter /\ asked.cursor \in Cursor
      /\ listed \in Seq(Entry) /\ PageSize \in Nat \ {0}
  BY BrowseConstants DEF BrowseInv, BrowseTypeOK, Cursor
<1>3. /\ S \in SUBSET Entry
      /\ page.items \in Seq(S) /\ page.items \in Seq(Entry)
      /\ Ordered(page.items) /\ page.more \in BOOLEAN
      /\ ~page.more => page.next = NoCursor /\ \A e \in S : Shows(page.items, e)
      /\ page.more =>
           /\ page.items # <<>> /\ End(page.items) \in S /\ Len(page.items) = PageSize
           /\ page.next = CursorAt(End(page.items))
           /\ \A e \in S : Shows(page.items, e) \/ Precedes(End(page.items), e)
  BY <1>2, PageIs
<1>4. Idle.way = "idle"
  BY DEF Idle
<1> HIDE DEF page
<1>6. /\ \A e, q : Precedes(e, q)' <=> Precedes(e, q)
      /\ \A e, c : Follows(e, c)' <=> Follows(e, c)
      /\ \A e : CursorAt(e)' = CursorAt(e)
      /\ Unmoved' <=> Unmoved
  BY <1>1, Still
\* The end of a page that is followed by another is the end of whole pages, and what of
\* the photos behind the cursor the page does not show follows it or is passed over.
<1>7. ASSUME page.more, NEW n \in Nat, Len(listed') = (n + 1) * PageSize, End(listed)' = End(page.items)
      PROVE  \A e \in S : Shows(page.items, e) \/ Follows(e, CursorAt(End(listed)))' \/ Straddled(e)'
  <2>1. n + 1 \in Nat \ {0} /\ listed' \in Seq(Entry)
    BY DEF BrowseTypeOK
  <2>2. End(page.items) = listed'[(n + 1) * PageSize]
    BY <1>7 DEF End
  <2>3. End(page.items) \in PageEnds'
    <3>1. n + 1 \in 1..Len(listed') /\ (n + 1) * PageSize <= Len(listed')
      BY <1>2, <1>7, <2>1, Below
    <3> QED BY <2>2, <3>1 DEF PageEnds
  <2>4. \A e \in S : /\ e \in Entry /\ End(page.items) \in Entry
                     /\ Shows(page.items, e) \/ Precedes(End(page.items), e)
    BY <1>3, <1>7
  <2>5. \A l, e \in Entry : l \in PageEnds' /\ Precedes(l, e) =>
                              Follows(e, CursorAt(l))' \/ Straddled(e)'
    <3> SUFFICES ASSUME NEW l \in Entry, NEW e \in Entry, l \in PageEnds', Precedes(l, e),
                        ~Follows(e, CursorAt(l))'
                 PROVE  Straddled(e)'
      OBVIOUS
    <3>1. ~Follows(e, CursorAt(l))
      BY <1>6
    <3>2. /\ Display(e) <= Display(l) /\ Display(l) <= Raw(e)
          /\ Display(e) # Raw(e) \/ Raw(e) = 0 \/ AssetOf(l) = AssetOf(e)
      BY <1>1, <1>2, <3>1, BehindEnd
    <3>3. /\ Display(e)' = Display(e) /\ Display(l)' = Display(l) /\ Raw(e)' = Raw(e)
          /\ AssetOf(l)' = AssetOf(l) /\ AssetOf(e)' = AssetOf(e) /\ reader' = "web"
      BY <1>1, Still
    <3> QED BY <3>2, <3>3 DEF Straddled
  <2> QED BY <1>6, <1>7, <2>3, <2>4, <2>5
<1>8. CASE asked.way = "first"
  <2>1. asked.cursor = NoCursor /\ S = Matching(asked.filter, rejected)
    BY <1>1, <1>2, <1>8 DEF WebInv, Follows
  <2>2. listed' = page.items /\ stay' = S /\ again' = FALSE
    BY <1>1, <1>8, <2>1
  <2> HIDE DEF S
  <2>3. Ordered(listed)'
    BY <1>3, <1>6, <2>2 DEF Ordered
  <2>4. End(listed)' = End(page.items) /\ CursorAt(End(listed))' = CursorAt(End(page.items))
    BY <1>6, <2>2 DEF End
  <2>5. page.more => Len(listed') = (0 + 1) * PageSize
    BY <1>2, <1>3, <2>2
  <2>6. \A e \in stay' : Shows(listed, e)' \/ Straddled(e)' \/ (more' /\ Follows(e, CursorAt(End(listed)))')
    <3>1. CASE page.more
      <4>1. \A e \in S : Shows(page.items, e) \/ Follows(e, CursorAt(End(listed)))' \/ Straddled(e)'
        BY <1>7, <2>4, <2>5, <3>1
      <4> QED BY <1>1, <2>2, <3>1, <4>1 DEF Shows
    <3>2. CASE ~page.more
      BY <1>3, <2>2, <3>2 DEF Shows
    <3> QED BY <3>1, <3>2
  <2>7. NoCursor' = NoCursor
    BY DEF NoCursor
  <2> QED BY <1>1, <1>3, <1>4, <2>2, <2>3, <2>4, <2>5, <2>6, <2>7 DEF WebInv
<1>9. CASE asked.way = "more"
  <2> DEFINE joined == listed \o page.items
  <2>1. /\ listed' = joined /\ stay' = stay \cap Matching(asked.filter, rejected)
        /\ again' = (again \/ asked.cursor = NoCursor)
    BY <1>1, <1>9
  <2>2. /\ Len(joined) = Len(listed) + Len(page.items)
        /\ Len(listed) \in Nat /\ Len(page.items) \in Nat
        /\ \A i \in 1..Len(listed) : joined[i] = listed[i] /\ listed[i] \in Entry
        /\ \A i \in 1..Len(page.items) : joined[Len(listed) + i] = page.items[i] /\ page.items[i] \in S
        /\ page.items # <<>> => joined # <<>> /\ End(joined) = End(page.items)
    BY <1>2, <1>3, Joined
  <2> HIDE DEF joined
  <2>3. page.more => /\ joined # <<>> /\ page.next = CursorAt(End(joined))
                     /\ CursorAt(End(listed))' = CursorAt(End(joined))
    BY <1>3, <1>6, <2>1, <2>2 DEF End
  <2>4. /\ asked.cursor \in {NoCursor, CursorAt(End(listed))} /\ more /\ listed # <<>>
        /\ \E n \in Nat : Len(listed) = n * PageSize
    BY <1>1, <1>2, <1>9 DEF WebInv
  <2>5. ASSUME ~again', Unmoved PROVE Ordered(joined)
    <3>1. /\ asked.cursor = CursorAt(End(listed)) /\ listed # <<>> /\ Ordered(listed)
      BY <1>1, <1>2, <2>1, <2>4, <2>5 DEF WebInv
    <3>2. End(listed) \in Entry /\ End(listed) = listed[Len(listed)] /\ Len(listed) \in 1..Len(listed)
      BY <1>2, <3>1 DEF End
    <3>3. \A i \in 1..Len(listed) : i = Len(listed) \/ Precedes(listed[i], End(listed))
      BY <3>1, <3>2 DEF Ordered
    <3>4. \A j \in 1..Len(page.items) : Precedes(End(listed), page.items[j])
      BY <1>1, <1>2, <1>3, <2>2, <2>5, <3>1, <3>2, FollowsPrecedes
    <3>5. \A i \in 1..Len(listed), j \in 1..Len(page.items) : Precedes(listed[i], page.items[j])
      BY <1>2, <1>3, <2>2, <3>2, <3>3, <3>4, TotalOrder
    <3> SUFFICES ASSUME NEW i \in 1..Len(joined), NEW j \in 1..Len(joined), i < j
                 PROVE  Precedes(joined[i], joined[j])
      BY DEF Ordered
    <3>6. CASE j <= Len(listed)
      BY <2>2, <3>1, <3>6 DEF Ordered
    <3>7. CASE i <= Len(listed) /\ j > Len(listed)
      <4>1. PICK k \in 1..Len(page.items) : j = Len(listed) + k
        <5>1. j - Len(listed) \in 1..Len(page.items) /\ j = Len(listed) + (j - Len(listed))
          BY <2>2, <3>7
        <5> QED BY <5>1
      <4> QED BY <2>2, <3>5, <3>7, <4>1
    <3>8. CASE i > Len(listed)
      <4>1. PICK k \in 1..Len(page.items), m \in 1..Len(page.items) :
              i = Len(listed) + k /\ j = Len(listed) + m /\ k < m
        <5>1. /\ i - Len(listed) \in 1..Len(page.items) /\ j - Len(listed) \in 1..Len(page.items)
              /\ i = Len(listed) + (i - Len(listed)) /\ j = Len(listed) + (j - Len(listed))
              /\ i - Len(listed) < j - Len(listed)
          BY <2>2, <3>8
        <5> QED BY <5>1
      <4>2. Precedes(page.items[k], page.items[m])
        BY <1>3, <4>1 DEF Ordered
      <4> QED BY <2>2, <4>1, <4>2
    <3> QED BY <2>2, <3>6, <3>7, <3>8
  <2>6. ~again' /\ Unmoved' => Ordered(listed)'
    BY <1>6, <2>1, <2>5 DEF Ordered
  <2>7. \E n \in Nat : page.more => Len(listed') = (n + 1) * PageSize
    <3>1. PICK n \in Nat : Len(listed) = n * PageSize
      BY <2>4
    <3>2. n * PageSize + PageSize = (n + 1) * PageSize
      BY <1>2
    <3> QED BY <1>3, <2>1, <2>2, <3>1, <3>2
  <2>8. ASSUME NEW e \in stay'
        PROVE  Shows(listed, e)' \/ Straddled(e)' \/ (more' /\ Follows(e, CursorAt(End(listed)))')
    <3>1. e \in stay /\ e \in Matching(asked.filter, rejected)
      BY <2>1, <2>8
    <3>2. CASE Shows(listed, e)
      <4>1. PICK i \in 1..Len(listed) : listed[i] = e
        BY <3>2 DEF Shows
      <4>2. i \in 1..Len(joined) /\ joined[i] = e
        BY <2>2, <4>1
      <4> QED BY <2>1, <4>2 DEF Shows
    <3>3. CASE Straddled(e)
      <4>1. Len(listed) <= Len(listed') /\ \A i \in 1..Len(listed) : listed'[i] = listed[i]
        BY <2>1, <2>2
      <4> QED BY <1>1, <1>2, <3>3, <4>1, StraddledStays
    <3>4. CASE Follows(e, CursorAt(End(listed)))
      <4>1. e \in S
        BY <2>4, <3>1, <3>4 DEF Follows
      <4>2. CASE Shows(page.items, e)
        <5>1. PICK i \in 1..Len(page.items) : page.items[i] = e
          BY <4>2 DEF Shows
        <5>2. Len(listed) + i \in 1..Len(joined) /\ joined[Len(listed) + i] = e
          BY <2>2, <5>1
        <5> QED BY <2>1, <5>2 DEF Shows
      <4>3. CASE ~Shows(page.items, e)
        <5>1. page.more
          BY <1>3, <4>1, <4>3
        <5>2. End(listed)' = End(page.items)
          BY <1>3, <2>1, <2>2, <5>1 DEF End
        <5>3. Follows(e, CursorAt(End(listed)))' \/ Straddled(e)'
          BY <1>7, <2>7, <4>1, <4>3, <5>1, <5>2
        <5> QED BY <1>1, <5>1, <5>3
      <4> QED BY <4>2, <4>3
    <3> QED BY <1>1, <1>2, <3>1, <3>2, <3>3, <3>4 DEF WebInv
  <2>9. cursor' # NoCursor' => more' /\ cursor' = CursorAt(End(listed))'
    BY <1>1, <1>3, <2>3 DEF NoCursor
  <2>10. more' => listed' # <<>> /\ \E n \in Nat : Len(listed') = n * PageSize
    <3>1. PICK n \in Nat : page.more => Len(listed') = (n + 1) * PageSize
      BY <2>7
    <3>2. n + 1 \in Nat
      OBVIOUS
    <3> QED BY <1>1, <2>1, <2>3, <3>1, <3>2
  <2> QED BY <1>1, <1>4, <2>6, <2>8, <2>9, <2>10 DEF WebInv
<1> QED BY <1>1, <1>8, <1>9

\* The web page, step by step.
LEMMA WebStep ==
  ASSUME BrowseInv, [BrowseNext]_browseVars
  PROVE  WebInv'
<1>1. /\ WebInv /\ BrowseTypeOK /\ BrowseTypeOK' /\ Idle.way = "idle" /\ Idle.cursor = NoCursor
      /\ \A c : c \in {c, NoCursor} /\ NoCursor \in {c, NoCursor}
  BY BrowseStepTyped DEF BrowseInv, Idle
<1>2. ASSUME NEW f \in Filter, Navigate(f) \/ NavigateWhileLoading(f) PROVE WebInv'
  BY <1>1, <1>2, WebFrame DEF Navigate, NavigateWhileLoading
<1>3. CASE OpenTopicsTab \/ AnswerFails \/ UNCHANGED browseVars
  BY <1>1, <1>3, WebFrame DEF OpenTopicsTab, AnswerFails, browseVars
<1>4. CASE LoadMore
  BY <1>1, <1>4, WebFrame DEF LoadMore
<1>5. CASE Answer
  BY <1>1, <1>5, WebAnswer
<1>6. ASSUME NEW e \in Entry, ReviewElsewhere(e) PROVE WebInv'
  BY <1>1, <1>6, WebFrame DEF ReviewElsewhere
<1>7. ASSUME reader # "web", reader' = reader PROVE WebInv'
  BY <1>7 DEF WebInv
<1>8. CASE (\E f \in Filter : ResetPage(f)) \/ Refreshed \/ \E e \in Entry : ReviewShown(e)
  BY <1>7, <1>8 DEF ResetPage, Refreshed, InWindow, ReviewShown, ShowPage
<1>9. CASE ListFolder \/ IterFolder \/ \E e \in Entry : PhoneChanges(e)
  BY <1>7, <1>9 DEF ListFolder, IterFolder, PhoneChanges
<1> QED BY <1>2, <1>3, <1>4, <1>5, <1>6, <1>8, <1>9 DEF BrowseNext

\* What leaves the window's page alone.
LEMMA WindowFrame ==
  ASSUME WindowInv, UNCHANGED <<reader, taken, twins, listed, more>>,
         stay' \subseteq stay
  PROVE  WindowInv'
<1>1. \A e, q : Precedes(e, q)' <=> Precedes(e, q)
  BY Still
<1>2. Ordered(listed)' <=> Ordered(listed)
  BY <1>1 DEF Ordered
<1>3. \A e : Shows(listed, e)' <=> Shows(listed, e)
  BY DEF Shows
<1> QED BY <1>2, <1>3 DEF WindowInv

\* The window, step by step.
LEMMA WindowStep ==
  ASSUME BrowseInv, [BrowseNext]_browseVars
  PROVE  WindowInv'
<1>1. BrowseTypeOK /\ WindowInv
  BY DEF BrowseInv
<1>2. ASSUME reader # "window", reader' = reader PROVE WindowInv'
  BY <1>2 DEF WindowInv
<1>3. ASSUME NEW f \in Filter, Navigate(f) \/ NavigateWhileLoading(f) PROVE WindowInv'
  BY <1>2, <1>3 DEF Navigate, NavigateWhileLoading
<1>4. CASE OpenTopicsTab \/ LoadMore \/ Answer
  BY <1>2, <1>4 DEF OpenTopicsTab, LoadMore, Answer
<1>5. CASE AnswerFails \/ UNCHANGED browseVars
  BY <1>1, <1>5, WindowFrame DEF AnswerFails, browseVars
<1>6. CASE ListFolder \/ IterFolder \/ \E e \in Entry : PhoneChanges(e)
  BY <1>2, <1>6 DEF ListFolder, IterFolder, PhoneChanges
<1>7. ASSUME NEW e \in Entry, ReviewElsewhere(e) PROVE WindowInv'
  BY <1>1, <1>7, WindowFrame DEF ReviewElsewhere
<1>8. ASSUME NEW f \in Filter, NEW unwanted, ShowPage(f, unwanted) PROVE WindowInv'
  <2> DEFINE S == Matching(f, unwanted)
             items == Slice(InOrder(S), 0)
  <2>1. S \in SUBSET Entry
    BY MatchingIs
  <2>2. /\ items \in Seq(S) /\ Ordered(items) /\ Cardinality(S) \in Nat
        /\ Len(items) = IF Cardinality(S) <= PageSize THEN Cardinality(S) ELSE PageSize
        /\ Cardinality(S) <= PageSize => \A e \in S : Shows(items, e)
    BY <1>1, <2>1, FirstPage
  <2> HIDE DEF items
  <2>3. /\ listed' = items /\ stay' = S /\ more' = (Len(items) < Cardinality(S))
        /\ UNCHANGED <<reader, taken, twins>>
    BY <1>8 DEF ShowPage, items, count_library_items
  <2> HIDE DEF S
  <2>4. \A e, q : Precedes(e, q)' <=> Precedes(e, q)
    BY <2>3, Still
  <2>5. Ordered(listed)'
    BY <2>2, <2>3, <2>4 DEF Ordered
  <2>6. ~more' => \A e \in stay' : Shows(listed, e)'
    <3>1. ~more' => Cardinality(S) <= PageSize
      <4> SUFFICES ASSUME ~more', Cardinality(S) > PageSize PROVE FALSE
        BY <2>2, BrowseConstants
      <4>1. Len(items) = PageSize
        BY <2>2, BrowseConstants
      <4>2. ~(Len(items) < Cardinality(S))
        BY <2>3
      <4> QED BY <4>1, <4>2
    <3> QED BY <2>2, <2>3, <3>1 DEF Shows
  <2> QED BY <2>5, <2>6 DEF WindowInv
<1>9. CASE (\E f \in Filter : ResetPage(f)) \/ Refreshed
  BY <1>1, <1>8, <1>9 DEF ResetPage, Refreshed, BrowseTypeOK
<1>10. ASSUME NEW e \in Entry, ReviewShown(e) PROVE WindowInv'
  BY <1>1, <1>8, <1>10 DEF ReviewShown, BrowseTypeOK
<1> QED BY <1>3, <1>4, <1>5, <1>6, <1>7, <1>9, <1>10 DEF BrowseNext

-------------------------------------------------------------------------------
\* What the list lacks is finite, and so is less of it.
LEMMA MissingIs ==
  ASSUME BrowseTypeOK, NEW S, S \subseteq Missing
  PROVE  /\ IsFiniteSet(S) /\ Cardinality(S) \in Nat
         /\ \A T : T \subseteq S => Cardinality(T) \in Nat /\ Cardinality(T) <= Cardinality(S)
<1>1. IsFiniteSet(Entry)
  BY BrowseConstants, FS_Interval DEF Entry
<1>2. S \subseteq Entry
  BY DEF Missing, BrowseTypeOK
<1> QED BY <1>1, <1>2, FS_Subset, FS_CardinalityType

\* A photo that comes or goes on the phone.
LEMMA PhoneChangesStep ==
  ASSUME BrowseInv, BrowseTypeOK', NEW e \in Entry, PhoneChanges(e)
  PROVE  PhoneInv'
<1> DEFINE L == Folder \cup {e}
           s == Folder \ {e}
           k == Len(listed)
<1>1. /\ BrowseTypeOK /\ PhoneInv /\ StayInv /\ k \in Nat /\ skipped \in Nat
  BY DEF BrowseInv, BrowseTypeOK
<1>2. /\ reader = "phone" /\ UNCHANGED <<reader, taken, twins, asked, listed, more>>
      /\ stay' = stay \ {e}
      /\ again' = (again \/ (Passed(e) /\ e \in rejected))
      /\ skipped' = IF Passed(e) /\ e \notin rejected THEN skipped + 1 ELSE skipped
      /\ rejected' = IF e \in rejected THEN rejected \ {e} ELSE rejected \union {e}
  BY DEF PhoneChanges
<1>3. /\ Folder = Entry \ rejected /\ L \in SUBSET Entry /\ e \in L /\ s = L \ {e}
      /\ e \in rejected => Folder = s /\ Folder' = L
      /\ e \notin rejected => Folder = L /\ Folder' = s
  BY <1>2 DEF Folder, Matching
<1> HIDE DEF L, s
<1>4. \A S, x : Rank(S, x)' = Rank(S, x)
  BY <1>2, Still
<1>5. /\ Rank(L, e) \in Nat /\ Rank(s, e) = Rank(L, e)
      /\ \A x \in s : /\ Rank(L, x) \in Nat
                      /\ Precedes(e, x) => Rank(s, x) = Rank(L, x) - 1 /\ Rank(L, e) < Rank(L, x)
                      /\ ~Precedes(e, x) => Rank(s, x) = Rank(L, x)
  BY <1>1, <1>3, RankWithout
<1>6. Passed(e) <=> Rank(L, e) < k
  <2>1. Passed(e) <=> Rank(Folder, e) < k
    BY DEF Passed, Rank, Folder
  <2> QED BY <1>3, <1>5, <2>1
<1>7. /\ \A x : x \in Reached <=> x \in Folder /\ Rank(Folder, x) < k
      /\ \A x : x \in Reached' <=> x \in Folder' /\ Rank(Folder', x) < k
  <2>1. \A x : Rank(Folder, x)' = Rank(Folder', x)
    BY <1>4 DEF Rank, Before, Precedes
  <2> QED BY <1>2, <2>1 DEF Reached
<1>8. (\A x : Shows(listed, x)' <=> Shows(listed, x)) /\ Missing' = Missing \ {e}
  BY <1>2 DEF Shows, Missing
<1>9. \A x : Once(listed, x)' <=> Once(listed, x)
  BY <1>2 DEF Once
<1>10. \A x \in stay' : x \in s
  BY <1>1, <1>2, <1>3 DEF StayInv, Folder
<1> HIDE DEF k
<1>11. Cardinality(Missing' \cap Reached') <= skipped'
  <2> DEFINE A == Missing \cap Reached
             B == Missing' \cap Reached'
  <2>1. /\ IsFiniteSet(A) /\ Cardinality(A) \in Nat /\ Cardinality(A) <= skipped
        /\ \A T : T \subseteq A => Cardinality(T) \in Nat /\ Cardinality(T) <= Cardinality(A)
    BY <1>1, <1>2, MissingIs DEF PhoneInv
  <2>2. CASE e \in rejected
    <3>1. B \subseteq A
      <4> SUFFICES ASSUME NEW x \in B PROVE x \in A
        OBVIOUS
      <4>1. x \in s /\ x \in Missing /\ Rank(L, x) < k
        BY <1>3, <1>7, <1>8, <1>10, <2>2 DEF Missing
      <4>2. Rank(s, x) < k
        BY <1>1, <1>5, <4>1 DEF k
      <4> QED BY <1>3, <1>7, <2>2, <4>1, <4>2
    <3> QED BY <1>1, <1>2, <2>1, <2>2, <3>1
  <2>3. CASE e \notin rejected /\ ~Passed(e)
    <3>1. B \subseteq A
      <4> SUFFICES ASSUME NEW x \in B PROVE x \in A
        OBVIOUS
      <4>1. x \in s /\ x \in Missing /\ Rank(s, x) < k
        BY <1>3, <1>7, <1>8, <1>10, <2>3 DEF Missing
      <4>2. Rank(L, x) < k
        BY <1>1, <1>5, <1>6, <2>3, <4>1 DEF k
      <4>3. x \in Folder
        BY <1>3, <2>3, <4>1
      <4> QED BY <1>3, <1>7, <2>3, <4>1, <4>2, <4>3
    <3> QED BY <1>1, <1>2, <2>1, <2>3, <3>1
  <2>4. CASE e \notin rejected /\ Passed(e)
    <3> DEFINE new == {x \in s : Rank(L, x) = k}
    <3>1. B \subseteq A \cup new
      <4> SUFFICES ASSUME NEW x \in B, x \notin new PROVE x \in A
        OBVIOUS
      <4>1. x \in s /\ x \in Missing /\ Rank(s, x) < k
        BY <1>3, <1>7, <1>8, <1>10, <2>4 DEF Missing
      <4>2. Rank(L, x) < k
        BY <1>1, <1>5, <4>1 DEF k
      <4>3. x \in Folder
        BY <1>3, <2>4, <4>1
      <4> QED BY <1>3, <1>7, <2>4, <4>1, <4>2, <4>3
    <3>2. \A x, y \in new : x = y
      <4>1. \A x \in L, y \in L : Precedes(x, y) => Rank(L, x) < Rank(L, y)
        BY <1>1, <1>3, RankBound
      <4>2. \A x \in s : x \in L /\ x \in Entry
        BY <1>3
      <4> QED BY <1>1, <1>5, <4>1, <4>2, TotalOrder
    <3>3. PICK z : new \subseteq {z}
      BY <3>2
    <3>4. B \subseteq A \cup {z}
      BY <3>1, <3>3
    <3> HIDE DEF A, B
    <3>5. IsFiniteSet(A \cup {z}) /\ Cardinality(A \cup {z}) \in {Cardinality(A), Cardinality(A) + 1}
      BY <2>1, FS_AddElement
    <3>6. Cardinality(B) <= Cardinality(A \cup {z}) /\ Cardinality(B) \in Nat
      BY <3>4, <3>5, FS_Subset, FS_CardinalityType
    <3>7. Cardinality(B) <= skipped + 1
      BY <1>1, <2>1, <3>5, <3>6
    <3> QED BY <1>2, <2>4, <3>7 DEF B
  <2> QED BY <2>2, <2>3, <2>4
<1>12. ~more' => Cardinality(Missing') <= skipped'
  <2>1. Cardinality(Missing') <= Cardinality(Missing) /\ Cardinality(Missing') \in Nat /\ Cardinality(Missing) \in Nat
    BY <1>1, <1>8, MissingIs
  <2>2. skipped <= skipped' /\ skipped' \in Nat
    BY <1>1, <1>2
  <2> QED BY <1>1, <1>2, <2>1, <2>2 DEF PhoneInv
<1>13. ASSUME ~again', NEW x \in stay', Shows(listed, x) PROVE x \in Reached'
  <2>1. x \in stay /\ ~again /\ x \in s /\ ~(Passed(e) /\ e \in rejected)
    BY <1>2, <1>10, <1>13
  <2>2. x \in Folder /\ Rank(Folder, x) < k
    BY <1>1, <1>2, <1>7, <1>13, <2>1 DEF PhoneInv
  <2>3. x \in Folder'
    BY <1>3, <2>1
  <2>4. CASE e \in rejected
    <3>1. Rank(s, x) < k /\ ~(Rank(L, e) < k)
      BY <1>3, <1>6, <2>1, <2>2, <2>4
    <3>2. Rank(L, x) < k
      BY <1>1, <1>5, <2>1, <3>1 DEF k
    <3> QED BY <1>3, <1>7, <2>3, <2>4, <3>2
  <2>5. CASE e \notin rejected
    <3>1. Rank(L, x) < k
      BY <1>3, <2>2, <2>5
    <3>2. Rank(s, x) < k
      BY <1>1, <1>5, <2>1, <3>1 DEF k
    <3> QED BY <1>3, <1>7, <2>3, <2>5, <3>2
  <2> QED BY <2>4, <2>5
<1>14. ~again' => \A x \in stay' : Once(listed, x)'
  BY <1>1, <1>2, <1>9 DEF PhoneInv
<1> QED BY <1>1, <1>2, <1>8, <1>11, <1>12, <1>13, <1>14 DEF PhoneInv

\* The folder is listed a page further.
LEMMA IterFolderStep ==
  ASSUME BrowseInv, BrowseTypeOK', IterFolder
  PROVE  PhoneInv'
<1> DEFINE k == Len(listed)
           page == Slice(InOrder(Folder), k)
           c == Cardinality(Folder)
<1>1. /\ BrowseTypeOK /\ StayInv /\ PhoneInv /\ listed \in Seq(Entry) /\ k \in Nat
      /\ Folder \in SUBSET Entry /\ PageSize \in Nat \ {0}
  BY BrowseConstants, MatchingIs DEF BrowseInv, BrowseTypeOK, Filter, Folder
<1>2. /\ reader = "phone" /\ UNCHANGED <<reader, taken, twins, rejected>>
      /\ listed' = listed \o page /\ more' = (Len(page) = PageSize)
      /\ asked'.way \in {"idle", "more"}
      /\ \/ asked.way = "first" /\ stay' = Folder /\ again' = FALSE /\ skipped' = 0
         \/ asked.way # "first" /\ UNCHANGED <<stay, again, skipped>>
  BY DEF IterFolder, list_folder_page, Folder, Idle
<1>3. /\ c \in Nat /\ \A e \in Folder : Rank(Folder, e) \in 0..c - 1
  BY <1>1, RankBound
<1>4. /\ page \in Seq(Folder) /\ page \in Seq(Entry)
      /\ Len(page) = IF k + PageSize < c THEN PageSize ELSE IF k < c THEN c - k ELSE 0
      /\ \A i \in 1..Len(page) : page[i] = InOrder(Folder)[k + i] /\ k + i \in 1..c
  BY <1>1, SliceIs, WiderSeq
<1>5. /\ \A n \in 1..c : InOrder(Folder)[n] \in Folder /\ Rank(Folder, InOrder(Folder)[n]) = n - 1
      /\ \A n \in 1..c, e \in Folder : Rank(Folder, e) = n - 1 => e = InOrder(Folder)[n]
  BY <1>1, Ranked
<1>6. Folder' = Folder /\ \A x : Rank(Folder, x)' = Rank(Folder, x)
  <2>1. \A S, x : Rank(S, x)' = Rank(S, x)
    BY <1>2, Still
  <2>2. Folder' = Folder
    BY <1>2 DEF Folder, Matching
  <2> QED BY <2>1, <2>2 DEF Rank, Before, Precedes
<1>7. stay' \subseteq Folder
  BY <1>1, <1>2 DEF StayInv, Folder
<1> HIDE DEF page, c
<1>8. /\ Len(listed') = k + Len(page) /\ Len(page) \in Nat
      /\ \A i \in 1..k : listed'[i] = listed[i]
      /\ \A i \in 1..Len(page) : listed'[k + i] = page[i]
      /\ \A i \in 1..Len(listed') : i \in 1..k \/ \E j \in 1..Len(page) : i = k + j
  <2>1. /\ Len(listed') = k + Len(page) /\ Len(page) \in Nat
        /\ \A i \in 1..k : listed'[i] = listed[i]
        /\ \A i \in 1..Len(page) : listed'[k + i] = page[i]
    <3>1. listed' = listed \o page /\ listed \in Seq(Entry) /\ page \in Seq(Entry)
      BY <1>1, <1>2, <1>4
    <3> QED BY <3>1, Joined
  <2>2. ASSUME NEW i \in 1..Len(listed'), i \notin 1..k PROVE \E j \in 1..Len(page) : i = k + j
    <3>1. i - k \in 1..Len(page) /\ i = k + (i - k)
      BY <1>1, <2>1, <2>2
    <3> QED BY <3>1
  <2> QED BY <2>1, <2>2
<1>9. \A x : x \in Reached' <=> x \in Folder /\ Rank(Folder, x) < k + Len(page)
  BY <1>6, <1>8 DEF Reached
\* What the place has passed now is on the page.
<1>10. ASSUME NEW x \in Reached', x \notin Reached PROVE Shows(listed, x)'
  <2>1. x \in Folder /\ Rank(Folder, x) < k + Len(page) /\ ~(Rank(Folder, x) < k)
    BY <1>9, <1>10 DEF Reached
  <2> DEFINE i == Rank(Folder, x) + 1 - k
  <2>2. i \in 1..Len(page) /\ Rank(Folder, x) = (k + i) - 1 /\ k + i \in 1..c
    BY <1>1, <1>3, <1>8, <2>1
  <2> HIDE DEF i
  <2>3. page[i] = x
    BY <1>4, <1>5, <2>1, <2>2
  <2>4. k + i \in 1..Len(listed') /\ listed'[k + i] = x
    BY <1>1, <1>8, <2>2, <2>3
  <2> QED BY <2>4 DEF Shows
<1>11. \A x : Shows(listed, x) => Shows(listed, x)'
  <2> SUFFICES ASSUME NEW x, NEW i \in 1..k, listed[i] = x PROVE Shows(listed, x)'
    BY DEF Shows
  <2>1. i \in 1..Len(listed') /\ listed'[i] = x
    BY <1>1, <1>8
  <2> QED BY <2>1 DEF Shows
<1>12. \A j \in 1..Len(page) : page[j] \in Folder /\ Rank(Folder, page[j]) = k + j - 1
  BY <1>1, <1>4, <1>5
<1>13. Cardinality(Missing' \cap Reached') <= skipped'
  <2>1. CASE asked.way = "first"
    <3>1. Reached = {}
      <4>1. k = 0
        BY <1>1, <1>2, <2>1 DEF PhoneInv
      <4> QED BY <1>3, <4>1 DEF Reached
    <3>2. Missing' \cap Reached' = {}
      BY <1>10, <3>1 DEF Missing
    <3>3. Cardinality(Missing' \cap Reached') = 0
      BY <3>2, FS_EmptySet
    <3> QED BY <1>2, <2>1, <3>3
  <2>2. CASE asked.way # "first"
    <3>1. Missing' \cap Reached' \subseteq Missing \cap Reached
      BY <1>2, <1>10, <1>11, <2>2 DEF Missing
    <3>2. /\ Cardinality(Missing' \cap Reached') <= Cardinality(Missing \cap Reached)
          /\ Cardinality(Missing' \cap Reached') \in Nat /\ Cardinality(Missing \cap Reached) \in Nat
      BY <1>1, <3>1, MissingIs
    <3>3. Cardinality(Missing \cap Reached) <= skipped /\ skipped \in Nat
      BY <1>1, <1>2 DEF PhoneInv, BrowseTypeOK
    <3> QED BY <1>2, <2>2, <3>2, <3>3
  <2> QED BY <2>1, <2>2
<1>14. ASSUME ~more' PROVE Missing' \cap Reached' = Missing'
  <2>1. Len(page) # PageSize
    BY <1>2, <1>14
  <2>2. c <= k + Len(page)
    BY <1>1, <1>3, <1>4, <2>1
  <2>3. \A x \in Folder : x \in Reached'
    BY <1>1, <1>3, <1>8, <1>9, <2>2
  <2> QED BY <1>7, <2>3 DEF Missing
<1>15. ASSUME ~again', NEW x \in stay' PROVE Once(listed, x)' /\ (Shows(listed, x)' => x \in Reached')
  <2>1. Once(listed, x) /\ (Shows(listed, x) => x \in Reached)
    <3>1. CASE asked.way = "first"
      <4>1. k = 0
        BY <1>1, <1>2, <3>1 DEF PhoneInv
      <4> QED BY <4>1 DEF Once, Shows
    <3>2. CASE asked.way # "first"
      BY <1>1, <1>2, <1>15, <3>2 DEF PhoneInv
    <3> QED BY <3>1, <3>2
  <2>2. \A i \in 1..k : listed[i] = x => x \in Folder /\ Rank(Folder, x) < k
    BY <2>1 DEF Shows, Reached
  <2>3. ASSUME NEW i \in 1..k, NEW j \in 1..Len(page), listed[i] = x, page[j] = x PROVE FALSE
    BY <1>1, <1>3, <1>8, <1>12, <2>2, <2>3
  <2>4. \A i, j \in 1..Len(page) : page[i] = x /\ page[j] = x => i = j
    BY <1>1, <1>8, <1>12
  <2>5. Once(listed, x)'
    <3> SUFFICES ASSUME NEW i \in 1..Len(listed'), NEW j \in 1..Len(listed'),
                        listed'[i] = x, listed'[j] = x
                 PROVE  i = j
      BY DEF Once
    <3>1. CASE i \in 1..k /\ j \in 1..k
      BY <1>8, <2>1, <3>1 DEF Once
    <3>2. CASE i \notin 1..k /\ j \in 1..k
      BY <1>8, <2>3, <3>2
    <3>3. CASE i \in 1..k /\ j \notin 1..k
      BY <1>8, <2>3, <3>3
    <3>4. CASE i \notin 1..k /\ j \notin 1..k
      <4>1. PICK n \in 1..Len(page), m \in 1..Len(page) : i = k + n /\ j = k + m
        BY <1>8, <3>4
      <4> QED BY <1>8, <2>4, <4>1
    <3> QED BY <3>1, <3>2, <3>3, <3>4
  <2>6. ASSUME NEW i \in 1..Len(listed'), listed'[i] = x PROVE x \in Reached'
    <3>1. CASE i \in 1..k
      BY <1>1, <1>3, <1>8, <1>9, <2>2, <2>6, <3>1
    <3>2. CASE i \notin 1..k
      <4>1. PICK j \in 1..Len(page) : i = k + j
        BY <1>8, <3>2
      <4>2. x \in Folder /\ Rank(Folder, x) = k + j - 1
        BY <1>8, <1>12, <2>6, <4>1
      <4> QED BY <1>1, <1>8, <1>9, <4>2
    <3> QED BY <3>1, <3>2
  <2> QED BY <2>5, <2>6 DEF Shows
<1> QED BY <1>2, <1>13, <1>14, <1>15 DEF PhoneInv

\* The backup that lists a folder, step by step.
LEMMA PhoneStep ==
  ASSUME BrowseInv, [BrowseNext]_browseVars
  PROVE  PhoneInv'
<1>1. BrowseTypeOK /\ PhoneInv /\ BrowseTypeOK'
  BY BrowseStepTyped DEF BrowseInv
<1>2. ASSUME reader # "phone", reader' = reader PROVE PhoneInv'
  BY <1>2 DEF PhoneInv
<1>3. ASSUME NEW f \in Filter, Navigate(f) \/ NavigateWhileLoading(f) PROVE PhoneInv'
  BY <1>2, <1>3 DEF Navigate, NavigateWhileLoading
<1>4. CASE OpenTopicsTab \/ LoadMore \/ Answer
  BY <1>2, <1>4 DEF OpenTopicsTab, LoadMore, Answer
<1>5. CASE (\E f \in Filter : ResetPage(f)) \/ Refreshed \/ \E e \in Entry : ReviewShown(e)
  BY <1>2, <1>5 DEF ResetPage, Refreshed, InWindow, ReviewShown, ShowPage
<1>6. ASSUME NEW e \in Entry, ReviewElsewhere(e) PROVE PhoneInv'
  BY <1>2, <1>6 DEF ReviewElsewhere
<1>7. CASE AnswerFails \/ UNCHANGED browseVars
  <2>1. /\ UNCHANGED <<reader, taken, twins, rejected, listed, more, stay, again, skipped>>
        /\ asked'.way = "first" => asked.way = "first"
    BY <1>7 DEF AnswerFails, browseVars, Idle
  <2>2. Folder' = Folder /\ \A x : Rank(Folder, x)' = Rank(Folder, x)
    <3>1. \A S, x : Rank(S, x)' = Rank(S, x)
      BY <2>1, Still
    <3>2. Folder' = Folder
      BY <2>1 DEF Folder, Matching
    <3> QED BY <3>1, <3>2 DEF Rank, Before, Precedes
  <2>3. Reached' = Reached /\ Missing' = Missing
    BY <2>1, <2>2 DEF Reached, Missing, Shows
  <2>4. \A e : (Shows(listed, e)' <=> Shows(listed, e)) /\ (Once(listed, e)' <=> Once(listed, e))
    BY <2>1 DEF Shows, Once
  <2> QED BY <1>1, <2>1, <2>3, <2>4 DEF PhoneInv
<1>8. CASE ListFolder
  <2>1. listed' = <<>> /\ more' = TRUE /\ UNCHANGED <<reader, taken, twins, rejected, stay, again, skipped>>
    BY <1>8 DEF ListFolder
  <2>2. Reached' = {}
    <3>1. Folder' \in SUBSET Entry
      BY MatchingIs DEF Folder, Filter, Matching
    <3>2. \A x \in Folder' : Rank(Folder, x)' \in Nat
      <4>1. \A S \in SUBSET Entry : \A x \in S : Rank(S, x)' \in Nat
        <5>1. \A S \in SUBSET Entry : \A x \in S : Rank(S, x) \in Nat
          BY <1>1, RankBound
        <5>2. \A S, x : Rank(S, x)' = Rank(S, x)
          BY <2>1, Still
        <5> QED BY <5>1, <5>2
      <4> QED BY <3>1, <4>1 DEF Rank, Before, Precedes
    <3>3. Len(listed') = 0
      BY <2>1
    <3> QED BY <3>2, <3>3 DEF Reached
  <2>3. Cardinality(Missing' \cap Reached') <= skipped'
    BY <1>1, <2>1, <2>2, FS_EmptySet DEF BrowseTypeOK
  <2>4. \A e : Once(listed, e)' /\ ~Shows(listed, e)'
    BY <2>1 DEF Once, Shows
  <2> QED BY <2>1, <2>3, <2>4 DEF PhoneInv
<1>9. CASE IterFolder
  BY <1>1, <1>9, IterFolderStep
<1>10. ASSUME NEW e \in Entry, PhoneChanges(e) PROVE PhoneInv'
  BY <1>1, <1>10, PhoneChangesStep
<1> QED BY <1>3, <1>4, <1>5, <1>6, <1>7, <1>8, <1>9, <1>10 DEF BrowseNext

-------------------------------------------------------------------------------
\* Nothing is listed at first.
LEMMA BrowseInitInv == BrowseInit => BrowseInv
<1> SUFFICES ASSUME BrowseInit PROVE BrowseInv
  OBVIOUS
<1>1. BrowseTypeOK
  BY BrowseInitTyped
<1>2. /\ stay = {} /\ cursor = NoCursor /\ listed = <<>> /\ Len(listed) = 0 /\ skipped = 0
      /\ more = FALSE /\ asked.way \in {"idle", "first"} /\ asked.cursor = NoCursor
  BY DEF BrowseInit, Idle
<1>3. Missing = {} /\ Missing \cap Reached = {} /\ Cardinality({}) = 0
  BY <1>2, FS_EmptySet DEF Missing
<1>4. PhoneInv
  BY <1>2, <1>3 DEF PhoneInv
<1> QED BY <1>1, <1>2, <1>4 DEF BrowseInv, StayInv, WebInv, WindowInv, Ordered

\* The invariant is inductive.
LEMMA BrowseStepInv == BrowseInv /\ [BrowseNext]_browseVars => BrowseInv'
BY BrowseStepTyped, StayStep, WebStep, WindowStep, PhoneStep DEF BrowseInv

\* How often a list shows a photo.
LEMMA TimesAre ==
  ASSUME BrowseTypeOK, NEW e
  PROVE  /\ Shows(listed, e) => Times(e) > 0
         /\ Ordered(listed) => Once(listed, e)
         /\ Once(listed, e) => Times(e) < 2
<1> DEFINE T == {i \in DOMAIN listed : listed[i] = e}
<1>1. listed \in Seq(Entry) /\ DOMAIN listed = 1..Len(listed) /\ Len(listed) \in Nat
  BY DEF BrowseTypeOK
<1>2. IsFiniteSet(T) /\ Cardinality(T) \in Nat
  <2>1. IsFiniteSet(1..Len(listed))
    BY <1>1, FS_Interval
  <2> QED BY <1>1, <2>1, FS_Subset, FS_CardinalityType
<1>3. ASSUME Shows(listed, e) PROVE Times(e) > 0
  <2>1. T # {}
    BY <1>1, <1>3 DEF Shows
  <2>2. Cardinality(T) # 0
    BY <1>2, <2>1, FS_EmptySet
  <2> QED BY <1>2, <2>2 DEF Times
<1>4. ASSUME Ordered(listed) PROVE Once(listed, e)
  <2> SUFFICES ASSUME NEW i \in 1..Len(listed), NEW j \in 1..Len(listed),
                      listed[i] = e, listed[j] = e, i < j
               PROVE  FALSE
    BY <1>1 DEF Once
  <2>1. Precedes(listed[i], listed[j]) /\ e \in Entry
    BY <1>1, <1>4 DEF Ordered
  <2> QED BY <2>1, TotalOrder
<1>5. ASSUME Once(listed, e) PROVE Times(e) < 2
  <2>1. \A i, j \in T : i = j
    BY <1>1, <1>5 DEF Once
  <2>2. CASE T = {}
    BY <2>2, FS_EmptySet DEF Times
  <2>3. CASE T # {}
    <3>1. PICK i \in T : TRUE
      BY <2>3
    <3>2. T = {i}
      BY <2>1, <3>1
    <3> HIDE DEF T
    <3>3. Cardinality(T) = 1
      BY <3>2, FS_Singleton
    <3> QED BY <3>3 DEF Times, T
  <2> QED BY <2>2, <2>3
<1> QED BY <1>3, <1>4, <1>5

(***************************************************************************)
(* Pages put together show each photo once (list_library_items and its     *)
(* cursor, the window's page, iter_folder), for any number of photos, any  *)
(* capture times and page size, and reviews that come between two pages.   *)
(***************************************************************************)
THEOREM PagesAreComplete == BrowseSpec => []PagesShowEachOnce
<1>1. BrowseInv => PagesShowEachOnce
  <2> SUFFICES ASSUME BrowseInv PROVE PagesShowEachOnce
    OBVIOUS
  <2> DEFINE lack == {e \in stay : Times(e) = 0 /\ ~Straddled(e)}
  <2>1. /\ BrowseTypeOK /\ WebInv /\ WindowInv /\ PhoneInv /\ skipped \in Nat
        /\ reader \in {"web", "window", "phone"} /\ IsFiniteSet(Missing) /\ Cardinality(Missing) \in Nat
    BY MissingIs DEF BrowseInv, BrowseTypeOK
  <2>2. ASSUME ~again, Unmoved, NEW e \in stay PROVE Times(e) < 2
    <3>1. Ordered(listed) \/ Once(listed, e)
      BY <2>1, <2>2 DEF WebInv, WindowInv, PhoneInv
    <3> QED BY <2>1, <3>1, TimesAre
  <2>3. ASSUME ~more PROVE Cardinality(lack) <= skipped
    <3>1. lack \subseteq Missing
      BY <2>1, TimesAre DEF Missing
    <3>2. Cardinality(lack) <= Cardinality(Missing) /\ Cardinality(lack) \in Nat
      BY <2>1, <3>1, MissingIs
    <3>3. CASE reader = "phone"
      BY <2>1, <2>3, <3>2, <3>3 DEF PhoneInv
    <3>4. CASE reader # "phone"
      <4>1. lack = {}
        BY <2>1, <2>3, <3>1, <3>4 DEF WebInv, WindowInv, Missing
      <4> QED BY <2>1, <4>1, FS_EmptySet
    <3> QED BY <3>3, <3>4
  <2> HIDE DEF lack
  <2> QED BY <2>2, <2>3 DEF PagesShowEachOnce, Unmoved, lack
<1> QED BY <1>1, BrowseInitInv, BrowseStepInv, PTL DEF BrowseSpec

-------------------------------------------------------------------------------
(***************************************************************************)
(* Scans and pages together.                                               *)
(***************************************************************************)
\* One of both parts steps, and the other stands still.
LEMMA CatalogueInvariant == CatalogueSpec => [](IInv /\ BrowseInv)
<1>1. CatalogueInit => IInv /\ BrowseInv
  BY InitInv, BrowseInitInv DEF CatalogueInit
<1>2. IInv /\ BrowseInv /\ [CatalogueNext]_catalogueVars => (IInv /\ BrowseInv)'
  <2> SUFFICES ASSUME IInv, BrowseInv, [CatalogueNext]_catalogueVars PROVE IInv' /\ BrowseInv'
    OBVIOUS
  <2>1. [Next]_vars /\ [BrowseNext]_browseVars
    BY DEF CatalogueNext, ScanStep, PageStep, catalogueVars
  <2> QED BY <2>1, StepInv, BrowseStepInv
<1> QED BY <1>1, <1>2, PTL DEF CatalogueSpec

\* A catalog that is scanned and read a page at a time is well typed: rows,
\* locals of the scan, cursors, requests and lists.
THEOREM CatalogueTyped == CatalogueSpec => []CatalogueTypeOK
<1>1. IInv /\ BrowseInv => CatalogueTypeOK
  BY DEF IInv, BrowseInv, CatalogueTypeOK
<1> QED BY <1>1, CatalogueInvariant, PTL
===============================================================================
