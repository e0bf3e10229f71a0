---------------------------- MODULE ServicesProofs ----------------------------
(***************************************************************************)
(* The parts of Services keep their promises for every value of the        *)
(* constants.  A step of Services is a step of one part, and of the others *)
(* a stutter: each part has an inductive invariant of its own, which the   *)
(* steps of the others cannot disturb.                                     *)
(***************************************************************************)
EXTENDS Services, OrganisationProofs, SchemaProofs, FiniteSetTheorems, TLAPS

-------------------------------------------------------------------------------
(***************************************************************************)
(* Consolidation.                                                          *)
(***************************************************************************)
\* While moves are carried out and nothing has been put in their way, their
\* destinations are free and differ.
MovesInv ==
  ~met /\ ~surprised =>
    /\ \A a \in Moves(todo) : disk[a.destination] = Absent
    /\ \A a, b \in Moves(todo) : a.destination = b.destination => a = b

\* What is carried out.
Steps == [source : Source, destination : Target, status : {"MOVE", "ALREADY_PRESENT"}]

ConsolidationInv == ConsolidationTypeOK /\ MovesInv /\ ConsolidationKeepsFiles

\* A source is a place, and no target; planned files are sources that are there.
LEMMA SourcesAndTargets ==
  ASSUME ConsolidationTypeOK
  PROVE  /\ Source \cap Target = {} /\ Source \subseteq Place /\ Target \subseteq Place
         /\ Planned \subseteq {s \in Source : disk[s] \in files}
         /\ \A f \in files : f \in File /\ f # Absent
  <1>1. \A f \in files : f \in File /\ f # Absent
    BY ConsolidationConstants DEF ConsolidationTypeOK
  <1>2. Source \cap Target = {}
    BY ConsolidationConstants DEF Source, Target
  <1>3. Planned \subseteq {s \in Source : disk[s] # Absent}
    BY DEF Planned, FirstOf, Media
  <1>4. Source \subseteq Place /\ Target \subseteq Place
    BY DEF Place
  <1>5. \A p \in Place : disk[p] # Absent => disk[p] \in files
    BY DEF ConsolidationTypeOK
  <1>6. Planned \subseteq {s \in Source : disk[s] \in files}
    BY <1>3, <1>4, <1>5
  <1> QED BY <1>1, <1>2, <1>4, <1>6

\* The moves of a plan go to targets that are free.
LEMMA PlannedMoves ==
  ASSUME ConsolidationTypeOK
  PROVE  /\ \A a \in Actions : a.source \in Source /\ a.destination \in Target
         /\ \A a \in Moves(Actions) : disk[a.destination] = Absent
         /\ MayExecute => Actions \subseteq Steps
  <1>1. ASSUME NEW s \in Planned, NEW first \in FirstOf(Planned)
        PROVE  /\ Action(s, disk[first].date).source \in Source
               /\ Action(s, disk[first].date).destination \in Target
               /\ Action(s, disk[first].date).status = "MOVE" =>
                    disk[Action(s, disk[first].date).destination] = Absent
               /\ Action(s, disk[first].date).status # "CONFLICT" =>
                    Action(s, disk[first].date) \in Steps
    <2>0. first \in Planned
      BY DEF FirstOf
    <2>1. s \in Source /\ first \in Source /\ disk[first] \in File
      BY <2>0, SourcesAndTargets
    <2> DEFINE t == <<disk[first].date, s[2]>>
    <2>2. t \in Target
      BY <2>1 DEF File, Source, Target
    <2>3. /\ Status(s, t) \in {"MOVE", "ALREADY_PRESENT", "CONFLICT"}
          /\ Status(s, t) = "MOVE" => disk[t] = Absent
      BY DEF Status
    <2>4. Action(s, disk[first].date) = [source |-> s, destination |-> t, status |-> Status(s, t)]
      BY DEF Action
    <2> HIDE DEF t
    <2> QED BY <2>1, <2>2, <2>3, <2>4 DEF Steps
  <1> QED BY <1>1 DEF Actions, Moves, MayExecute

LEMMA ConsolidationInitInv == ConsolidationInit => ConsolidationInv
  <1> SUFFICES ASSUME ConsolidationInit PROVE ConsolidationInv OBVIOUS
  <1>0. /\ pc = "idle" /\ todo = {} /\ looks = 0 /\ met = FALSE /\ surprised = FALSE
        /\ files = {disk[p] : p \in Source} \ {Absent}
    BY DEF ConsolidationInit
  <1>1. PICK has \in SUBSET Source : \E size \in [has -> Size], date \in [has -> Date] :
          disk = [p \in Place |-> IF p \in has THEN [id |-> p, size |-> size[p], date |-> date[p]]
                                               ELSE Absent]
    BY DEF ConsolidationInit
  <1>2. PICK size \in [has -> Size], date \in [has -> Date] :
          disk = [p \in Place |-> IF p \in has THEN [id |-> p, size |-> size[p], date |-> date[p]]
                                               ELSE Absent]
    BY <1>1
  <1>3. \A p \in has : disk[p] \in File /\ disk[p] # Absent
    BY <1>2, ConsolidationConstants DEF File, Place
  <1>4. \A p \in Place : disk[p] = Absent \/ p \in has
    BY <1>2
  <1>5. files \subseteq File /\ disk \in [Place -> files \cup {Absent}]
    <2>1. has \subseteq Source OBVIOUS
    <2>2. \A p \in Place : disk[p] \in files \cup {Absent}
      BY <1>0, <1>4, <2>1
    <2>3. files \subseteq File
      BY <1>0, <1>3, <1>4 DEF Place
    <2>4. disk \in [Place -> files \cup {Absent}]
      <3>1. disk = [p \in Place |-> disk[p]] BY <1>2
      <3> QED BY <2>2, <3>1
    <2> QED BY <2>3, <2>4
  <1>6. IsFiniteSet(files)
    <2>1. IsFiniteSet(Source)
      <3>1. IsFiniteSet(1..Folders) BY FS_Interval, ConsolidationConstants
      <3>2. IsFiniteSet(Kind) 
        <4>1. Kind = ({"jpeg"} \cup {"raw"}) \cup {"video"} BY DEF Kind
        <4>2. \A x : IsFiniteSet({x}) BY FS_Singleton
        <4> QED BY <4>1, <4>2, FS_Union
      <3> QED BY <3>1, <3>2, FS_Product DEF Source
    <2> DEFINE there == {disk[p] : p \in Source}
    <2> DEFINE at == [p \in Source |-> disk[p]]
    <2>2. IsFiniteSet(there)
      <3>1. at \in Surjection(Source, there) BY DEF Surjection
      <3> QED BY <2>1, <3>1, FS_Surjection
    <2>3. files \subseteq there BY <1>0
    <2> HIDE DEF there
    <2> QED BY <2>2, <2>3, FS_Subset
  <1>7. ConsolidationTypeOK
    <2>1. pc \in {"idle", "moving"} /\ met \in BOOLEAN /\ surprised \in BOOLEAN
      BY <1>0, Zenon
    <2>0. looks \in 0..MaxLooks
      BY <1>0, ConsolidationConstants
    <2>2. todo \subseteq Steps
      BY <1>0
    <2> QED BY <1>5, <1>6, <2>0, <2>1, <2>2 DEF ConsolidationTypeOK, Steps
  <1>8. ConsolidationKeepsFiles /\ MovesInv
    BY <1>0 DEF ConsolidationKeepsFiles, MovesInv, Moves, Place
  <1> QED BY <1>7, <1>8 DEF ConsolidationInv

LEMMA ConsolidateInv == ConsolidationInv /\ Consolidate => ConsolidationInv'
  <1> SUFFICES ASSUME ConsolidationInv, Consolidate PROVE ConsolidationInv'
    OBVIOUS
  <1>1. ConsolidationTypeOK /\ MovesInv /\ ConsolidationKeepsFiles
    BY DEF ConsolidationInv
  <1>2. disk' = disk /\ files' = files /\ surprised' = surprised /\ looks' = looks + 1 /\ looks < MaxLooks
    BY DEF Consolidate
  <1>3. looks' \in 0..MaxLooks
    BY <1>1, <1>2, ConsolidationConstants DEF ConsolidationTypeOK
  <1>4. CASE ~MayExecute
    <2>1. UNCHANGED <<pc, todo, met>>
      BY <1>4 DEF Consolidate
    <2> QED BY <1>1, <1>2, <1>3, <2>1
      DEF ConsolidationInv, ConsolidationTypeOK, MovesInv, ConsolidationKeepsFiles, Moves
  <1>5. CASE MayExecute
    <2>1. /\ pc' = "moving" /\ todo' = Actions
          /\ met' = (met \/ \E a, b \in Moves(Actions) : a # b /\ a.destination = b.destination)
      BY <1>5 DEF Consolidate
    <2>2. todo' \subseteq Steps
      BY <1>1, <1>5, <2>1, PlannedMoves
    <2>3. ConsolidationTypeOK'
      <3>1. met' \in BOOLEAN
        BY <1>1, <2>1 DEF ConsolidationTypeOK
      <3> QED BY <1>1, <1>2, <1>3, <2>1, <2>2, <3>1 DEF ConsolidationTypeOK, Steps
    <2>4. MovesInv'
      BY <1>1, <1>2, <2>1, PlannedMoves DEF MovesInv, Moves
    <2>5. ConsolidationKeepsFiles'
      BY <1>1, <1>2, <2>1 DEF ConsolidationKeepsFiles
    <2> QED BY <2>3, <2>4, <2>5 DEF ConsolidationInv
  <1> QED BY <1>4, <1>5

LEMMA MoveNextInv == ConsolidationInv /\ MoveNext => ConsolidationInv'
  <1> SUFFICES ASSUME ConsolidationInv, MoveNext PROVE ConsolidationInv'
    OBVIOUS
  <1>1. ConsolidationTypeOK /\ MovesInv /\ ConsolidationKeepsFiles
    BY DEF ConsolidationInv
  <1>2. UNCHANGED <<pc, looks, files, met, surprised>>
    BY DEF MoveNext
  <1>3. PICK a \in todo :
          /\ disk' = IF a.status = "ALREADY_PRESENT" THEN disk
                     ELSE [disk EXCEPT ![a.destination] = disk[a.source], ![a.source] = Absent]
          /\ todo' = todo \ {a}
    BY DEF MoveNext
  <1>4. a.source \in Source /\ a.destination \in Target
    BY <1>1 DEF ConsolidationTypeOK
  <1>5. a.source \in Place /\ a.destination \in Place /\ a.source # a.destination
    BY <1>1, <1>4, SourcesAndTargets
  <1>6. CASE a.status = "ALREADY_PRESENT"
    BY <1>1, <1>2, <1>3, <1>6
    DEF ConsolidationInv, ConsolidationTypeOK, MovesInv, ConsolidationKeepsFiles, Moves
  <1>7. CASE a.status # "ALREADY_PRESENT"
    <2>1. a \in Moves(todo)
      BY <1>1, <1>7 DEF Moves, ConsolidationTypeOK
    <2>2. \A p \in Place : disk'[p] = IF p = a.source THEN Absent
                                      ELSE IF p = a.destination THEN disk[a.source] ELSE disk[p]
      BY <1>1, <1>3, <1>5, <1>7 DEF ConsolidationTypeOK
    <2>3. disk' \in [Place -> files' \cup {Absent}]
      BY <1>1, <1>2, <1>3, <1>5, <1>7 DEF ConsolidationTypeOK
    <2>4. ConsolidationTypeOK'
      BY <1>1, <1>2, <1>3, <2>3 DEF ConsolidationTypeOK
    <2>5. MovesInv'
      <3>1. Moves(todo') = Moves(todo) \ {a}
        BY <1>3 DEF Moves
      <3>2. \A b \in Moves(todo) : b.destination \in Place /\ b.destination # a.source
        BY <1>1, <1>4, SourcesAndTargets DEF ConsolidationTypeOK, Moves
      <3> QED BY <1>1, <1>2, <2>1, <2>2, <3>1, <3>2 DEF MovesInv
    <2>6. ConsolidationKeepsFiles'
      <3> SUFFICES ASSUME ~met, ~surprised, NEW f \in files PROVE \E p \in Place : disk'[p] = f
        BY <1>2 DEF ConsolidationKeepsFiles
      <3>1. PICK p \in Place : disk[p] = f
        BY <1>1 DEF ConsolidationKeepsFiles
      <3>2. p # a.destination
        BY <1>1, <2>1, <3>1, SourcesAndTargets DEF MovesInv
      <3> QED BY <1>5, <2>2, <3>1, <3>2
    <2> QED BY <2>4, <2>5, <2>6 DEF ConsolidationInv
  <1> QED BY <1>6, <1>7

LEMMA EndsInv == ConsolidationInv /\ Ends => ConsolidationInv'
  BY DEF ConsolidationInv, Ends, ConsolidationTypeOK, MovesInv, ConsolidationKeepsFiles, Moves

LEMMA AppearsInv ==
  ASSUME ConsolidationInv, NEW q \in Place, Appears(q) PROVE ConsolidationInv'
  <1>1. ConsolidationTypeOK /\ MovesInv /\ ConsolidationKeepsFiles
    BY DEF ConsolidationInv
  <1>2. UNCHANGED <<pc, todo, looks, met>> /\ disk[q] = Absent
    BY DEF Appears
  <1> DEFINE news == {f \in files : f.id \in News}
             n == Cardinality(news)
  <1>3. n \in Nat /\ n < MaxNews
    <2>1. IsFiniteSet(news) BY <1>1, FS_Subset DEF ConsolidationTypeOK
    <2> HIDE DEF news
    <2>2. n \in Nat BY <2>1, FS_CardinalityType
    <2> USE DEF news
    <2> QED BY <2>2 DEF Appears
  <1>4. PICK f \in [id : {<<n + 1, "new">>}, size : Size, date : IF q \in Target THEN {q[1]} ELSE Date] :
          disk' = [disk EXCEPT ![q] = f] /\ files' = files \cup {f}
    BY DEF Appears
  <1> HIDE DEF n
  <1>5. f \in File
    <2>1. <<n + 1, "new">> \in News BY <1>3, ConsolidationConstants DEF News
    <2>2. q \in Target => q[1] \in Date BY DEF Target
    <2> QED BY <2>1, <2>2 DEF File
  <1>6. \A p \in Place : disk'[p] = IF p = q THEN f ELSE disk[p]
    BY <1>1, <1>4 DEF ConsolidationTypeOK
  <1>7. ConsolidationTypeOK'
    <2>1. IsFiniteSet(files') BY <1>1, <1>4, FS_AddElement DEF ConsolidationTypeOK
    <2>2. surprised' \in BOOLEAN BY <1>1 DEF Appears, ConsolidationTypeOK
    <2>3. disk' \in [Place -> files' \cup {Absent}] BY <1>1, <1>4 DEF ConsolidationTypeOK
    <2>4. files' \subseteq File BY <1>1, <1>4, <1>5 DEF ConsolidationTypeOK
    <2> QED BY <1>1, <1>2, <2>1, <2>2, <2>3, <2>4 DEF ConsolidationTypeOK
  <1>8. MovesInv'
    <2>1. ~surprised' => ~surprised /\ \A a \in Moves(todo) : a.destination # q
      BY DEF Appears
    <2>2. \A a \in Moves(todo) : a.destination \in Place
      BY <1>1, SourcesAndTargets DEF ConsolidationTypeOK, Moves
    <2>3. Moves(todo') = Moves(todo)
      BY <1>2 DEF Moves
    <2> QED BY <1>1, <1>2, <1>6, <2>1, <2>2, <2>3 DEF MovesInv
  <1>9. ConsolidationKeepsFiles'
    <2>0. surprised => surprised'
      BY DEF Appears
    <2> SUFFICES ASSUME ~met, ~surprised, NEW g \in files' PROVE \E p \in Place : disk'[p] = g
      BY <1>2, <2>0 DEF ConsolidationKeepsFiles
    <2>1. CASE g = f
      BY <1>6, <2>1
    <2>2. CASE g \in files
      <3>1. PICK p \in Place : disk[p] = g BY <1>1, <2>2 DEF ConsolidationKeepsFiles
      <3>2. p # q BY <1>1, <1>2, <2>2, <3>1, SourcesAndTargets
      <3> QED BY <1>6, <3>1, <3>2
    <2> QED BY <1>4, <2>1, <2>2
  <1> QED BY <1>7, <1>8, <1>9 DEF ConsolidationInv

LEMMA ConsolidationStepInv ==
  ConsolidationInv /\ [ConsolidationNext]_consolidationVars => ConsolidationInv'
  <1> SUFFICES ASSUME ConsolidationInv, [ConsolidationNext]_consolidationVars
               PROVE ConsolidationInv'
    OBVIOUS
  <1>1. CASE UNCHANGED consolidationVars
    BY <1>1 DEF consolidationVars, ConsolidationInv, ConsolidationTypeOK, MovesInv,
                ConsolidationKeepsFiles, Moves
  <1> QED BY <1>1, ConsolidateInv, MoveNextInv, EndsInv, AppearsInv DEF ConsolidationNext

\* For every number of folders, files and dates, runs and interruptions no file
\* is lost, but to a second video of its stem or to a file that came after the look.
THEOREM ServicesConsolidation == Spec => []ConsolidationKeepsFiles
  <1>1. Init => ConsolidationInv
    BY ConsolidationInitInv DEF Init
  <1>2. [Next]_vars => [ConsolidationNext]_consolidationVars
    BY DEF Next, vars, PairingStep, DesktopStep, SchemaStep, ConsolidationStep, OrganisationStep,
           CullingStep, consolidationVars
  <1>3. ConsolidationInv => ConsolidationKeepsFiles
    BY DEF ConsolidationInv
  <1> QED BY <1>1, <1>2, <1>3, ConsolidationStepInv, PTL DEF Spec

-------------------------------------------------------------------------------
(***************************************************************************)
(* Pairing.                                                                *)
(***************************************************************************)
\* A confirmation is noted before anything follows from it; a desktop gets as far as
\* "paired", and a reconnection past the list, only when the phone has the desktop in
\* its list, or has had it.
ConfirmedInv ==
  /\ \A s \in Session :
       /\ sess[s].local => s \in phoneYes
       /\ sess[s].desk => s \in deskYes
       /\ step[s] \in {"paired", "trusted"} => s \in phoneYes \cap deskYes
       /\ step[s] = "paired" => known \/ parted # {}
       /\ answer[s].kept => known \/ "forgotten" \in parted
  /\ stored => phoneYes \cap deskYes # {}
  /\ checked => known \/ parted \cap {"forgotten", "unremembered"} # {}

PairingInv == PairingTypeOK /\ ConfirmedInv /\ TrustIsMutual

\* Parts of the type invariant.
FlagsOK ==
  /\ listening \in BOOLEAN /\ pairing \in BOOLEAN /\ checked \in BOOLEAN
  /\ known \in BOOLEAN /\ stored \in BOOLEAN
  /\ parted \subseteq {"forgotten", "unwritten", "unremembered"}
TokensOK ==
  /\ timers \in 0..MaxWindows /\ trouble \in 0..MaxTrouble
  /\ latest \in Session \cup {Nobody} /\ link \in Session \cup {Nobody, "again"}
  /\ tokens \subseteq Session \cup {"again"}
StepsOK ==
  /\ step \in [Session -> {"none", "started", "first", "complete", "paired", "trusted", "done", "failed"}]
  /\ remembered \subseteq Session /\ phoneYes \subseteq Session /\ deskYes \subseteq Session
  /\ row \in [Session -> {"none", "AWAITING_NUMERIC_CONFIRMATION", "PAIRED"}]
  /\ trust \in {"no", "yes", "revoked"}
AnswerOK == answer \in [Session -> Answer]

\* What a step may make of a session.
LEMMA SessTyped ==
  ASSUME sess \in [Session -> Sess], NEW s \in Session,
    \/ sess' = sess
    \/ sess' = [sess EXCEPT ![s].live = FALSE]
    \/ sess' = [sess EXCEPT ![s].local = TRUE]
    \/ sess' = [sess EXCEPT ![s].desk = TRUE]
    \/ sess' = [sess EXCEPT ![s].seen = "first"]
    \/ sess' = [sess EXCEPT ![s].seen = "complete"]
    \/ sess' = [sess EXCEPT ![s].there = FALSE]
    \/ sess' = [r \in Session |->
                  IF r = s THEN [NoSess EXCEPT !.seen = "started", !.there = TRUE]
                  ELSE [sess[r] EXCEPT !.there = @ /\ sess[r].live]]
  PROVE  sess' \in [Session -> Sess]
  <1>1. sess[s] \in Sess
    OBVIOUS
  <1>2. /\ [sess[s] EXCEPT !.live = FALSE] \in Sess
        /\ [sess[s] EXCEPT !.local = TRUE] \in Sess
        /\ [sess[s] EXCEPT !.desk = TRUE] \in Sess
        /\ [sess[s] EXCEPT !.there = FALSE] \in Sess
        /\ [sess[s] EXCEPT !.seen = "first"] \in Sess
        /\ [sess[s] EXCEPT !.seen = "complete"] \in Sess
    BY <1>1 DEF Sess
  <1>3. [NoSess EXCEPT !.seen = "started", !.there = TRUE] \in Sess
    BY DEF NoSess, Sess
  <1>4. \A r \in Session : [sess[r] EXCEPT !.there = @ /\ sess[r].live] \in Sess
    BY DEF Sess
  <1> QED BY <1>2, <1>3, <1>4

\* What a change of one field leaves of a session and of an answer.
LEMMA SessFields ==
  ASSUME NEW x \in Sess, NEW b \in BOOLEAN
  PROVE  LET y == [x EXCEPT !.there = b] IN y \in Sess /\ y.local = x.local /\ y.desk = x.desk
  BY DEF Sess

\* An answer keeps what it remembered.
LEMMA AnswerFields ==
  ASSUME NEW x \in Answer
  PROVE  /\ NoAnswer \in Answer /\ NoAnswer.kept = FALSE
         /\ LET y == [x EXCEPT !.here = FALSE] IN y \in Answer /\ y.kept = x.kept
         /\ \A a \in {"asked", "remembered", "opened"} :
              LET y == [x EXCEPT !.at = a] IN y \in Answer /\ y.kept = x.kept
  BY DEF NoAnswer, Answer

LEMMA StartSharingInv ==
  ASSUME PairingInv, StartSharing PROVE PairingInv'
  <1> USE PairingConstants DEF StartSharing, Cleared, Trouble, app, desktop, history
  <1>1. PairingTypeOK'
    <2> USE DEF PairingInv, PairingTypeOK
    <2>1. FlagsOK'
      BY DEF FlagsOK
    <2>2. sess' \in [Session -> Sess]
      <3>1. \A r \in Session : [sess[r] EXCEPT !.there = FALSE] \in Sess
        BY SessFields
      <3> QED BY <3>1
    <2>3. TokensOK'
      BY DEF TokensOK
    <2>4. StepsOK'
      BY DEF StepsOK
    <2>5. AnswerOK'
      BY AnswerFields DEF AnswerOK
    <2> QED BY <2>1, <2>2, <2>3, <2>4, <2>5 DEF FlagsOK, TokensOK, StepsOK, AnswerOK
  <1>2. ConfirmedInv'
    <2>1. \A r \in Session : (sess'[r].local => sess[r].local) /\ (sess'[r].desk => sess[r].desk)
      BY SessFields DEF PairingInv, PairingTypeOK
    <2>2. \A r \in Session : answer'[r].kept => answer[r].kept
      BY AnswerFields DEF PairingInv, PairingTypeOK
    <2> QED BY <2>1, <2>2 DEF PairingInv, PairingTypeOK, ConfirmedInv, TrustIsMutual
  <1>3. TrustIsMutual'
    BY DEF PairingInv, PairingTypeOK, Sess, ConfirmedInv, TrustIsMutual
  <1> QED BY <1>1, <1>2, <1>3 DEF PairingInv

LEMMA StopSharingInv ==
  ASSUME PairingInv, StopSharing PROVE PairingInv'
  <1> USE PairingConstants DEF StopSharing, Trouble, app, desktop, history
  <1>1. PairingTypeOK'
    <2> USE DEF PairingInv, PairingTypeOK
    <2>1. FlagsOK'
      BY DEF FlagsOK
    <2>2. sess' \in [Session -> Sess]
      BY DEF Sess
    <2>3. TokensOK'
      BY DEF TokensOK
    <2>4. StepsOK'
      BY DEF StepsOK
    <2>5. AnswerOK'
      BY DEF AnswerOK
    <2> QED BY <2>1, <2>2, <2>3, <2>4, <2>5 DEF FlagsOK, TokensOK, StepsOK, AnswerOK
  <1>2. ConfirmedInv'
    BY DEF NoSess, PairingInv, PairingTypeOK, Sess, ConfirmedInv, TrustIsMutual
  <1>3. TrustIsMutual'
    BY DEF PairingInv, PairingTypeOK, Sess, ConfirmedInv, TrustIsMutual
  <1> QED BY <1>1, <1>2, <1>3 DEF PairingInv

LEMMA EnablePairingInv ==
  ASSUME PairingInv, EnablePairing PROVE PairingInv'
  <1> USE PairingConstants DEF EnablePairing, Trouble, app, desktop, history
  <1>1. PairingTypeOK'
    <2> USE DEF PairingInv, PairingTypeOK
    <2>1. FlagsOK'
      BY DEF FlagsOK
    <2>2. sess' \in [Session -> Sess]
      BY DEF Sess
    <2>3. TokensOK'
      BY DEF TokensOK
    <2>4. StepsOK'
      BY DEF StepsOK
    <2>5. AnswerOK'
      BY DEF AnswerOK
    <2> QED BY <2>1, <2>2, <2>3, <2>4, <2>5 DEF FlagsOK, TokensOK, StepsOK, AnswerOK
  <1>2. ConfirmedInv'
    BY DEF NoSess, PairingInv, PairingTypeOK, Sess, ConfirmedInv, TrustIsMutual
  <1>3. TrustIsMutual'
    BY DEF PairingInv, PairingTypeOK, Sess, ConfirmedInv, TrustIsMutual
  <1> QED BY <1>1, <1>2, <1>3 DEF PairingInv

LEMMA WindowEndsInv ==
  ASSUME PairingInv, WindowEnds PROVE PairingInv'
  <1> USE PairingConstants DEF WindowEnds, Cleared, Trouble, app, desktop, history
  <1>1. PairingTypeOK'
    <2> USE DEF PairingInv, PairingTypeOK
    <2>1. FlagsOK'
      BY DEF FlagsOK
    <2>2. sess' \in [Session -> Sess]
      <3>1. \A r \in Session : [sess[r] EXCEPT !.there = FALSE] \in Sess
        BY SessFields
      <3> QED BY <3>1
    <2>3. TokensOK'
      BY DEF TokensOK
    <2>4. StepsOK'
      BY DEF StepsOK
    <2>5. AnswerOK'
      BY DEF AnswerOK
    <2> QED BY <2>1, <2>2, <2>3, <2>4, <2>5 DEF FlagsOK, TokensOK, StepsOK, AnswerOK
  <1>2. ConfirmedInv'
    BY DEF NoSess, PairingInv, PairingTypeOK, Sess, ConfirmedInv, TrustIsMutual
  <1>3. TrustIsMutual'
    BY DEF PairingInv, PairingTypeOK, Sess, ConfirmedInv, TrustIsMutual
  <1> QED BY <1>1, <1>2, <1>3 DEF PairingInv

LEMMA ConfirmOnPhoneInv ==
  ASSUME PairingInv, ConfirmOnPhone PROVE PairingInv'
  <1> USE PairingConstants DEF ConfirmOnPhone, Complete, Removed, Trouble, app, desktop, history
  <1>1. PairingTypeOK'
    <2> USE DEF PairingInv, PairingTypeOK
    <2>1. FlagsOK'
      BY DEF FlagsOK
    <2>2. sess' \in [Session -> Sess]
      <3>1. \/ sess' = [sess EXCEPT ![latest].local = TRUE]
            \/ sess' = [sess EXCEPT ![latest].there = FALSE]
        OBVIOUS
      <3>2. sess \in [Session -> Sess] /\ latest \in Session
        OBVIOUS
      <3> QED BY <3>1, <3>2, SessTyped
    <2>3. TokensOK'
      BY DEF TokensOK
    <2>4. StepsOK'
      BY DEF StepsOK
    <2>5. AnswerOK'
      BY DEF AnswerOK
    <2> QED BY <2>1, <2>2, <2>3, <2>4, <2>5 DEF FlagsOK, TokensOK, StepsOK, AnswerOK
  <1>2. ConfirmedInv'
    BY DEF NoSess, PairingInv, PairingTypeOK, Sess, ConfirmedInv, TrustIsMutual
  <1>3. TrustIsMutual'
    BY DEF PairingInv, PairingTypeOK, Sess, ConfirmedInv, TrustIsMutual
  <1> QED BY <1>1, <1>2, <1>3 DEF PairingInv

LEMMA ForgetDesktopsInv ==
  ASSUME PairingInv, ForgetDesktops PROVE PairingInv'
  <1> USE PairingConstants DEF ForgetDesktops, Trouble, app, desktop, history
  <1>1. PairingTypeOK'
    <2> USE DEF PairingInv, PairingTypeOK
    <2>1. FlagsOK'
      BY DEF FlagsOK
    <2>2. sess' \in [Session -> Sess]
      BY DEF Sess
    <2>3. TokensOK'
      BY DEF TokensOK
    <2>4. StepsOK'
      BY DEF StepsOK
    <2>5. AnswerOK'
      BY DEF AnswerOK
    <2> QED BY <2>1, <2>2, <2>3, <2>4, <2>5 DEF FlagsOK, TokensOK, StepsOK, AnswerOK
  <1>2. ConfirmedInv'
    BY DEF NoSess, PairingInv, PairingTypeOK, Sess, ConfirmedInv, TrustIsMutual
  <1>3. TrustIsMutual'
    BY DEF PairingInv, PairingTypeOK, Sess, ConfirmedInv, TrustIsMutual
  <1> QED BY <1>1, <1>2, <1>3 DEF PairingInv

LEMMA FlushPreferencesInv ==
  ASSUME PairingInv, FlushPreferences PROVE PairingInv'
  <1> USE PairingConstants DEF FlushPreferences, Trouble, app, desktop, history
  <1>1. PairingTypeOK'
    <2> USE DEF PairingInv, PairingTypeOK
    <2>1. FlagsOK'
      BY DEF FlagsOK
    <2>2. sess' \in [Session -> Sess]
      BY DEF Sess
    <2>3. TokensOK'
      BY DEF TokensOK
    <2>4. StepsOK'
      BY DEF StepsOK
    <2>5. AnswerOK'
      BY DEF AnswerOK
    <2> QED BY <2>1, <2>2, <2>3, <2>4, <2>5 DEF FlagsOK, TokensOK, StepsOK, AnswerOK
  <1>2. ConfirmedInv'
    BY DEF NoSess, PairingInv, PairingTypeOK, Sess, ConfirmedInv, TrustIsMutual
  <1>3. TrustIsMutual'
    BY DEF PairingInv, PairingTypeOK, Sess, ConfirmedInv, TrustIsMutual
  <1> QED BY <1>1, <1>2, <1>3 DEF PairingInv

LEMMA PhoneDiesInv ==
  ASSUME PairingInv, PhoneDies PROVE PairingInv'
  <1> USE PairingConstants DEF PhoneDies, Trouble, app, desktop, history
  <1>1. PairingTypeOK'
    <2> USE DEF PairingInv, PairingTypeOK
    <2>1. FlagsOK'
      BY DEF FlagsOK
    <2>2. sess' \in [Session -> Sess]
      BY DEF NoSess, Sess
    <2>3. TokensOK'
      BY DEF TokensOK
    <2>4. StepsOK'
      BY DEF StepsOK
    <2>5. AnswerOK'
      BY DEF AnswerOK, Answer, NoAnswer
    <2> QED BY <2>1, <2>2, <2>3, <2>4, <2>5 DEF FlagsOK, TokensOK, StepsOK, AnswerOK
  <1>2. ConfirmedInv'
    <2>1. \A r \in Session : (sess'[r].local => sess[r].local) /\ (sess'[r].desk => sess[r].desk)
      BY DEF NoSess
    <2>2. \A r \in Session : ~answer'[r].kept
      BY DEF NoAnswer
    <2> QED BY <2>1, <2>2 DEF PairingInv, PairingTypeOK, ConfirmedInv, TrustIsMutual
  <1>3. TrustIsMutual'
    BY DEF PairingInv, PairingTypeOK, Sess, ConfirmedInv, TrustIsMutual
  <1> QED BY <1>1, <1>2, <1>3 DEF PairingInv

LEMMA ReconnectInv ==
  ASSUME PairingInv, Reconnect PROVE PairingInv'
  <1> USE PairingConstants DEF Reconnect, Trouble, app, desktop, history
  <1>1. PairingTypeOK'
    <2> USE DEF PairingInv, PairingTypeOK
    <2>1. FlagsOK'
      BY DEF FlagsOK
    <2>2. sess' \in [Session -> Sess]
      BY DEF Sess
    <2>3. TokensOK'
      BY DEF TokensOK
    <2>4. StepsOK'
      BY DEF StepsOK
    <2>5. AnswerOK'
      BY DEF AnswerOK
    <2> QED BY <2>1, <2>2, <2>3, <2>4, <2>5 DEF FlagsOK, TokensOK, StepsOK, AnswerOK
  <1>2. ConfirmedInv'
    BY DEF NoSess, PairingInv, PairingTypeOK, Sess, ConfirmedInv, TrustIsMutual
  <1>3. TrustIsMutual'
    BY DEF PairingInv, PairingTypeOK, Sess, ConfirmedInv, TrustIsMutual
  <1> QED BY <1>1, <1>2, <1>3 DEF PairingInv

LEMMA GrantSessionInv ==
  ASSUME PairingInv, GrantSession PROVE PairingInv'
  <1> USE PairingConstants DEF GrantSession, Trouble, app, desktop, history
  <1>1. PairingTypeOK'
    <2> USE DEF PairingInv, PairingTypeOK
    <2>1. FlagsOK'
      BY DEF FlagsOK
    <2>2. sess' \in [Session -> Sess]
      BY DEF Sess
    <2>3. TokensOK'
      BY DEF TokensOK
    <2>4. StepsOK'
      BY DEF StepsOK
    <2>5. AnswerOK'
      BY DEF AnswerOK
    <2> QED BY <2>1, <2>2, <2>3, <2>4, <2>5 DEF FlagsOK, TokensOK, StepsOK, AnswerOK
  <1>2. ConfirmedInv'
    BY DEF NoSess, PairingInv, PairingTypeOK, Sess, ConfirmedInv, TrustIsMutual
  <1>3. TrustIsMutual'
    BY DEF PairingInv, PairingTypeOK, Sess, ConfirmedInv, TrustIsMutual
  <1> QED BY <1>1, <1>2, <1>3 DEF PairingInv

LEMMA RevokeDeviceInv ==
  ASSUME PairingInv, RevokeDevice PROVE PairingInv'
  <1> USE PairingConstants DEF RevokeDevice, Trouble, app, desktop, history
  <1>1. PairingTypeOK'
    <2> USE DEF PairingInv, PairingTypeOK
    <2>1. FlagsOK'
      BY DEF FlagsOK
    <2>2. sess' \in [Session -> Sess]
      BY DEF Sess
    <2>3. TokensOK'
      BY DEF TokensOK
    <2>4. StepsOK'
      BY DEF StepsOK
    <2>5. AnswerOK'
      BY DEF AnswerOK
    <2> QED BY <2>1, <2>2, <2>3, <2>4, <2>5 DEF FlagsOK, TokensOK, StepsOK, AnswerOK
  <1>2. ConfirmedInv'
    BY DEF NoSess, PairingInv, PairingTypeOK, Sess, ConfirmedInv, TrustIsMutual
  <1>3. TrustIsMutual'
    BY DEF PairingInv, PairingTypeOK, Sess, ConfirmedInv, TrustIsMutual
  <1> QED BY <1>1, <1>2, <1>3 DEF PairingInv

LEMMA ServerDiesInv ==
  ASSUME PairingInv, ServerDies PROVE PairingInv'
  <1> USE PairingConstants DEF ServerDies, Trouble, app, desktop, history
  <1>1. PairingTypeOK'
    <2> USE DEF PairingInv, PairingTypeOK
    <2>1. FlagsOK'
      BY DEF FlagsOK
    <2>2. sess' \in [Session -> Sess]
      BY DEF Sess
    <2>3. TokensOK'
      BY DEF TokensOK
    <2>4. StepsOK'
      BY DEF StepsOK
    <2>5. AnswerOK'
      BY DEF AnswerOK
    <2> QED BY <2>1, <2>2, <2>3, <2>4, <2>5 DEF FlagsOK, TokensOK, StepsOK, AnswerOK
  <1>2. ConfirmedInv'
    BY DEF NoSess, PairingInv, PairingTypeOK, Sess, ConfirmedInv, TrustIsMutual
  <1>3. TrustIsMutual'
    BY DEF PairingInv, PairingTypeOK, Sess, ConfirmedInv, TrustIsMutual
  <1> QED BY <1>1, <1>2, <1>3 DEF PairingInv

LEMMA ExpireInv ==
  ASSUME PairingInv, NEW s \in Session, Expire(s) PROVE PairingInv'
  <1> USE PairingConstants DEF Expire, Trouble, app, desktop, history
  <1>1. PairingTypeOK'
    <2> USE DEF PairingInv, PairingTypeOK
    <2>1. FlagsOK'
      BY DEF FlagsOK
    <2>2. sess' \in [Session -> Sess]
      BY SessTyped
    <2>3. TokensOK'
      BY DEF TokensOK
    <2>4. StepsOK'
      BY DEF StepsOK
    <2>5. AnswerOK'
      BY DEF AnswerOK
    <2> QED BY <2>1, <2>2, <2>3, <2>4, <2>5 DEF FlagsOK, TokensOK, StepsOK, AnswerOK
  <1>2. ConfirmedInv'
    BY DEF NoSess, PairingInv, PairingTypeOK, Sess, ConfirmedInv, TrustIsMutual
  <1>3. TrustIsMutual'
    BY DEF PairingInv, PairingTypeOK, Sess, ConfirmedInv, TrustIsMutual
  <1> QED BY <1>1, <1>2, <1>3 DEF PairingInv

LEMMA PairStartInv ==
  ASSUME PairingInv, NEW s \in Session, PairStart(s) PROVE PairingInv'
  <1> USE PairingConstants DEF PairStart, Answered, Rejected, Reach, PhoneOnly, Trouble, app, desktop, history
  <1>1. PairingTypeOK'
    <2> USE DEF PairingInv, PairingTypeOK
    <2>1. FlagsOK'
      BY DEF FlagsOK
    <2>2. sess' \in [Session -> Sess]
      <3>1. \/ sess' = sess
            \/ sess' = [r \in Session |->
                 IF r = s THEN [NoSess EXCEPT !.seen = "started", !.there = TRUE]
                 ELSE [sess[r] EXCEPT !.there = @ /\ sess[r].live]]
        OBVIOUS
      <3>2. sess \in [Session -> Sess] /\ s \in Session
        OBVIOUS
      <3> QED BY <3>1, <3>2, SessTyped
    <2>3. TokensOK'
      BY DEF TokensOK
    <2>4. StepsOK'
      BY DEF StepsOK
    <2>5. AnswerOK'
      BY DEF AnswerOK
    <2> QED BY <2>1, <2>2, <2>3, <2>4, <2>5 DEF FlagsOK, TokensOK, StepsOK, AnswerOK
  <1>2. ConfirmedInv'
    <2>1. \A r \in Session : (sess'[r].local => sess[r].local) /\ (sess'[r].desk => sess[r].desk)
      <3>1. \A r \in Session : [sess[r] EXCEPT !.there = @ /\ sess[r].live].local = sess[r].local
                            /\ [sess[r] EXCEPT !.there = @ /\ sess[r].live].desk = sess[r].desk
        BY DEF PairingInv, PairingTypeOK, Sess
      <3> QED BY <3>1 DEF NoSess
    <2>2. \A r \in Session : step'[r] \in {"paired", "trusted"} => step'[r] = step[r]
      BY DEF PairingInv, PairingTypeOK
    <2> QED BY <2>1, <2>2 DEF PairingInv, ConfirmedInv
  <1>3. TrustIsMutual'
    BY DEF PairingInv, PairingTypeOK, Sess, ConfirmedInv, TrustIsMutual
  <1> QED BY <1>1, <1>2, <1>3 DEF PairingInv

LEMMA FirstMessageInv ==
  ASSUME PairingInv, NEW s \in Session, FirstMessage(s) PROVE PairingInv'
  <1> USE PairingConstants DEF FirstMessage, Message, Answered, Rejected, Reach, PhoneOnly, Removed, Trouble, app, desktop, history
  <1>1. PairingTypeOK'
    <2> USE DEF PairingInv, PairingTypeOK
    <2>1. FlagsOK'
      BY DEF FlagsOK
    <2>2. sess' \in [Session -> Sess]
      <3>1. \/ sess' = sess
            \/ sess' = [sess EXCEPT ![s].seen = "first"]
            \/ sess' = [sess EXCEPT ![s].there = FALSE]
        OBVIOUS
      <3>2. sess \in [Session -> Sess] /\ s \in Session
        OBVIOUS
      <3> QED BY <3>1, <3>2, SessTyped
    <2>3. TokensOK'
      BY DEF TokensOK
    <2>4. StepsOK'
      BY DEF StepsOK
    <2>5. AnswerOK'
      BY DEF AnswerOK
    <2> QED BY <2>1, <2>2, <2>3, <2>4, <2>5 DEF FlagsOK, TokensOK, StepsOK, AnswerOK
  <1>2. ConfirmedInv'
    BY DEF NoSess, PairingInv, PairingTypeOK, Sess, ConfirmedInv, TrustIsMutual
  <1>3. TrustIsMutual'
    BY DEF PairingInv, PairingTypeOK, Sess, ConfirmedInv, TrustIsMutual
  <1> QED BY <1>1, <1>2, <1>3 DEF PairingInv

LEMMA LastMessageInv ==
  ASSUME PairingInv, NEW s \in Session, LastMessage(s) PROVE PairingInv'
  <1> USE PairingConstants DEF LastMessage, Message, Answered, Rejected, Reach, Removed, Trouble, app, desktop, history
  <1>1. PairingTypeOK'
    <2> USE DEF PairingInv, PairingTypeOK
    <2>1. FlagsOK'
      BY DEF FlagsOK
    <2>2. sess' \in [Session -> Sess]
      <3>1. \/ sess' = sess
            \/ sess' = [sess EXCEPT ![s].seen = "complete"]
            \/ sess' = [sess EXCEPT ![s].there = FALSE]
        OBVIOUS
      <3>2. sess \in [Session -> Sess] /\ s \in Session
        OBVIOUS
      <3> QED BY <3>1, <3>2, SessTyped
    <2>3. TokensOK'
      BY DEF TokensOK
    <2>4. StepsOK'
      BY DEF StepsOK
    <2>5. AnswerOK'
      BY DEF AnswerOK
    <2> QED BY <2>1, <2>2, <2>3, <2>4, <2>5 DEF FlagsOK, TokensOK, StepsOK, AnswerOK
  <1>2. ConfirmedInv'
    BY DEF NoSess, PairingInv, PairingTypeOK, Sess, ConfirmedInv, TrustIsMutual
  <1>3. TrustIsMutual'
    BY DEF PairingInv, PairingTypeOK, Sess, ConfirmedInv, TrustIsMutual
  <1> QED BY <1>1, <1>2, <1>3 DEF PairingInv

LEMMA ConfirmInv ==
  ASSUME PairingInv, NEW s \in Session, Confirm(s) PROVE PairingInv'
  <1> USE PairingConstants DEF Confirm, Reach, PhoneOnly, Removed, Trouble, app, desktop, history
  <1>1. PairingTypeOK'
    <2> USE DEF PairingInv, PairingTypeOK
    <2>1. FlagsOK'
      BY DEF FlagsOK
    <2>2. sess' \in [Session -> Sess]
      <3>1. \/ sess' = sess
            \/ sess' = [sess EXCEPT ![s].desk = TRUE]
            \/ sess' = [sess EXCEPT ![s].there = FALSE]
        OBVIOUS
      <3>2. sess \in [Session -> Sess] /\ s \in Session
        OBVIOUS
      <3> QED BY <3>1, <3>2, SessTyped
    <2>3. TokensOK'
      BY DEF TokensOK
    <2>4. StepsOK'
      BY DEF StepsOK
    <2>5. AnswerOK'
      BY DEF AnswerOK, Answer
    <2> QED BY <2>1, <2>2, <2>3, <2>4, <2>5 DEF FlagsOK, TokensOK, StepsOK, AnswerOK
  <1>0. \A r \in Session : answer'[r].kept => answer[r].kept
    BY DEF NoAnswer, Answer, PairingInv, PairingTypeOK
  <1>2. ConfirmedInv'
    BY <1>0 DEF NoSess, PairingInv, PairingTypeOK, Sess, ConfirmedInv, TrustIsMutual
  <1>3. TrustIsMutual'
    BY DEF PairingInv, PairingTypeOK, Sess, ConfirmedInv, TrustIsMutual
  <1> QED BY <1>1, <1>2, <1>3 DEF PairingInv

LEMMA RememberDesktopInv ==
  ASSUME PairingInv, NEW s \in Session, RememberDesktop(s) PROVE PairingInv'
  <1> USE PairingConstants DEF RememberDesktop, Paired, Complete, PhoneOnly, Trouble, app, desktop, history
  <1>1. PairingTypeOK'
    <2> USE DEF PairingInv, PairingTypeOK
    <2>1. FlagsOK'
      BY DEF FlagsOK
    <2>2. sess' \in [Session -> Sess]
      BY DEF Sess
    <2>3. TokensOK'
      BY DEF TokensOK
    <2>4. StepsOK'
      BY DEF StepsOK
    <2>5. AnswerOK'
      BY DEF AnswerOK, Answer
    <2> QED BY <2>1, <2>2, <2>3, <2>4, <2>5 DEF FlagsOK, TokensOK, StepsOK, AnswerOK
  <1>0. \A r \in Session : answer'[r].kept => answer[r].kept \/ known'
    BY DEF NoAnswer, Answer, PairingInv, PairingTypeOK
  <1>2. ConfirmedInv'
    BY <1>0 DEF NoSess, PairingInv, PairingTypeOK, Sess, ConfirmedInv, TrustIsMutual
  <1>3. TrustIsMutual'
    BY DEF PairingInv, PairingTypeOK, Sess, ConfirmedInv, TrustIsMutual
  <1> QED BY <1>1, <1>2, <1>3 DEF PairingInv

LEMMA OpenTransferInv ==
  ASSUME PairingInv, NEW s \in Session, OpenTransfer(s) PROVE PairingInv'
  <1> USE PairingConstants DEF OpenTransfer, Unremembered, Paired, Complete, PhoneOnly, Trouble, app, desktop, history
  <1>1. PairingTypeOK'
    <2> USE DEF PairingInv, PairingTypeOK
    <2>1. FlagsOK'
      BY DEF FlagsOK
    <2>2. sess' \in [Session -> Sess]
      BY DEF Sess
    <2>3. TokensOK'
      BY DEF TokensOK
    <2>4. StepsOK'
      BY DEF StepsOK
    <2>5. AnswerOK'
      BY DEF AnswerOK, Answer
    <2> QED BY <2>1, <2>2, <2>3, <2>4, <2>5 DEF FlagsOK, TokensOK, StepsOK, AnswerOK
  <1>2. ConfirmedInv'
    BY DEF NoSess, PairingInv, PairingTypeOK, Sess, ConfirmedInv, TrustIsMutual
  <1>3. TrustIsMutual'
    BY DEF PairingInv, PairingTypeOK, Sess, ConfirmedInv, TrustIsMutual
  <1> QED BY <1>1, <1>2, <1>3 DEF PairingInv

LEMMA AnswerConfirmInv ==
  ASSUME PairingInv, NEW s \in Session, AnswerConfirm(s) PROVE PairingInv'
  <1> USE PairingConstants DEF AnswerConfirm, Unremembered, Paired, Complete, PhoneOnly, Trouble, app, desktop, history
  <1>1. PairingTypeOK'
    <2> USE DEF PairingInv, PairingTypeOK
    <2>1. FlagsOK'
      BY DEF FlagsOK
    <2>2. sess' \in [Session -> Sess]
      BY DEF Sess
    <2>3. TokensOK'
      BY DEF TokensOK
    <2>4. StepsOK'
      BY DEF StepsOK
    <2>5. AnswerOK'
      BY DEF AnswerOK, Answer, NoAnswer
    <2> QED BY <2>1, <2>2, <2>3, <2>4, <2>5 DEF FlagsOK, TokensOK, StepsOK, AnswerOK
  <1>0. \A r \in Session : answer'[r].kept => answer[r].kept
    BY DEF NoAnswer, Answer, PairingInv, PairingTypeOK
  <1>2. ConfirmedInv'
    <2>1. ASSUME NEW r \in Session, step'[r] \in {"paired", "trusted"}
          PROVE  r \in phoneYes \cap deskYes /\ (step'[r] = "paired" => known \/ parted' # {})
      <3>1. CASE step'[r] = step[r]
        BY <2>1, <3>1 DEF PairingInv, ConfirmedInv
      <3>2. CASE step'[r] # step[r]
        <4>1. r = s /\ sess[s].local /\ sess[s].desk /\ parted' = Unremembered(s)
          BY <3>2 DEF PairingInv, PairingTypeOK
        <4>2. known \/ parted' # {}
          BY <4>1, <3>2 DEF PairingInv, ConfirmedInv
        <4> QED BY <4>1, <4>2 DEF PairingInv, ConfirmedInv
      <3> QED BY <3>1, <3>2
    <2>2. parted \subseteq parted'
      BY DEF PairingInv, PairingTypeOK
    <2> QED BY <1>0, <2>1, <2>2 DEF PairingInv, ConfirmedInv
  <1>3. TrustIsMutual'
    BY DEF PairingInv, PairingTypeOK, Sess, ConfirmedInv, TrustIsMutual
  <1> QED BY <1>1, <1>2, <1>3 DEF PairingInv

LEMMA TrustDeviceInv ==
  ASSUME PairingInv, NEW s \in Session, TrustDevice(s) PROVE PairingInv'
  <1> USE PairingConstants DEF TrustDevice, Trouble, app, desktop, history
  <1>1. PairingTypeOK'
    <2> USE DEF PairingInv, PairingTypeOK
    <2>1. FlagsOK'
      BY DEF FlagsOK
    <2>2. sess' \in [Session -> Sess]
      BY DEF Sess
    <2>3. TokensOK'
      BY DEF TokensOK
    <2>4. StepsOK'
      BY DEF StepsOK
    <2>5. AnswerOK'
      BY DEF AnswerOK
    <2> QED BY <2>1, <2>2, <2>3, <2>4, <2>5 DEF FlagsOK, TokensOK, StepsOK, AnswerOK
  <1>2. ConfirmedInv'
    BY DEF NoSess, PairingInv, PairingTypeOK, Sess, ConfirmedInv, TrustIsMutual
  <1>3. TrustIsMutual'
    BY DEF PairingInv, PairingTypeOK, Sess, ConfirmedInv, TrustIsMutual
  <1> QED BY <1>1, <1>2, <1>3 DEF PairingInv

LEMMA RecordPairedInv ==
  ASSUME PairingInv, NEW s \in Session, RecordPaired(s) PROVE PairingInv'
  <1> USE PairingConstants DEF RecordPaired, Trouble, app, desktop, history
  <1>1. PairingTypeOK'
    <2> USE DEF PairingInv, PairingTypeOK
    <2>1. FlagsOK'
      BY DEF FlagsOK
    <2>2. sess' \in [Session -> Sess]
      BY DEF Sess
    <2>3. TokensOK'
      BY DEF TokensOK
    <2>4. StepsOK'
      BY DEF StepsOK
    <2>5. AnswerOK'
      BY DEF AnswerOK
    <2> QED BY <2>1, <2>2, <2>3, <2>4, <2>5 DEF FlagsOK, TokensOK, StepsOK, AnswerOK
  <1>2. ConfirmedInv'
    BY DEF NoSess, PairingInv, PairingTypeOK, Sess, ConfirmedInv, TrustIsMutual
  <1>3. TrustIsMutual'
    BY DEF PairingInv, PairingTypeOK, Sess, ConfirmedInv, TrustIsMutual
  <1> QED BY <1>1, <1>2, <1>3 DEF PairingInv

LEMMA TokenExpiresInv ==
  ASSUME PairingInv, NEW k \in Session \cup {"again"}, TokenExpires(k) PROVE PairingInv'
  <1> USE PairingConstants DEF TokenExpires, Trouble, app, desktop, history
  <1>1. PairingTypeOK'
    <2> USE DEF PairingInv, PairingTypeOK
    <2>1. FlagsOK'
      BY DEF FlagsOK
    <2>2. sess' \in [Session -> Sess]
      BY DEF Sess
    <2>3. TokensOK'
      BY DEF TokensOK
    <2>4. StepsOK'
      BY DEF StepsOK
    <2>5. AnswerOK'
      BY DEF AnswerOK
    <2> QED BY <2>1, <2>2, <2>3, <2>4, <2>5 DEF FlagsOK, TokensOK, StepsOK, AnswerOK
  <1>2. ConfirmedInv'
    BY DEF NoSess, PairingInv, PairingTypeOK, Sess, ConfirmedInv, TrustIsMutual
  <1>3. TrustIsMutual'
    BY DEF PairingInv, PairingTypeOK, Sess, ConfirmedInv, TrustIsMutual
  <1> QED BY <1>1, <1>2, <1>3 DEF PairingInv

LEMMA PairingInitInv == PairingInit => PairingInv
  <1> SUFFICES ASSUME PairingInit PROVE PairingInv
    OBVIOUS
  <1> USE PairingConstants DEF PairingInit, NoSess
  <1>1. PairingTypeOK
    <2>1. FlagsOK
      BY DEF FlagsOK
    <2>2. sess \in [Session -> Sess]
      BY DEF Sess
    <2>3. TokensOK
      BY DEF TokensOK
    <2>4. StepsOK
      BY DEF StepsOK
    <2>5. AnswerOK
      BY DEF AnswerOK, Answer, NoAnswer
    <2> QED BY <2>1, <2>2, <2>3, <2>4, <2>5
            DEF PairingTypeOK, FlagsOK, TokensOK, StepsOK, AnswerOK
  <1>2. ConfirmedInv /\ TrustIsMutual
    BY <1>1 DEF PairingTypeOK, ConfirmedInv, TrustIsMutual, NoAnswer
  <1> QED BY <1>1, <1>2 DEF PairingInv

LEMMA PairingStepInv == PairingInv /\ [PairingNext]_pairingVars => PairingInv'
  <1> SUFFICES ASSUME PairingInv, [PairingNext]_pairingVars PROVE PairingInv'
    OBVIOUS
  <1>1. CASE UNCHANGED pairingVars
    BY <1>1 DEF pairingVars, app, desktop, history, PairingInv, PairingTypeOK, ConfirmedInv,
                TrustIsMutual
  <1>2. CASE \E s \in Session : \/ Expire(s) \/ PairStart(s) \/ FirstMessage(s) \/ LastMessage(s)
                               \/ TrustDevice(s) \/ RecordPaired(s)
    BY <1>2, ExpireInv, PairStartInv, FirstMessageInv, LastMessageInv, TrustDeviceInv, RecordPairedInv
  <1>3. CASE \E s \in Session : \/ Confirm(s) \/ RememberDesktop(s) \/ OpenTransfer(s)
                               \/ AnswerConfirm(s)
    BY <1>3, ConfirmInv, RememberDesktopInv, OpenTransferInv, AnswerConfirmInv
  <1>4. CASE \E k \in Session \cup {"again"} : TokenExpires(k)
    BY <1>4, TokenExpiresInv
  <1> QED BY <1>1, <1>2, <1>3, <1>4, StartSharingInv, StopSharingInv, EnablePairingInv, WindowEndsInv,
             ConfirmOnPhoneInv, ForgetDesktopsInv, FlushPreferencesInv, PhoneDiesInv, ReconnectInv,
             GrantSessionInv, RevokeDeviceInv, ServerDiesInv DEF PairingNext

\* For any number of pairings, windows, losses, deaths and changes of mind.
THEOREM ServicesTrust == Spec => []TrustIsMutual
  <1>1. Init => PairingInv
    BY PairingInitInv DEF Init
  <1>2. [Next]_vars => [PairingNext]_pairingVars
    BY DEF Next, vars, PairingStep, DesktopStep, SchemaStep, ConsolidationStep, OrganisationStep,
           CullingStep, pairingVars
  <1>3. PairingInv => TrustIsMutual
    BY DEF PairingInv
  <1> QED BY <1>1, <1>2, <1>3, PairingStepInv, PTL DEF Spec

-------------------------------------------------------------------------------
(***************************************************************************)
(* Culling.                                                                *)
(***************************************************************************)
\* What page g shows of a photo: the last choice that waits, or the server's.
ShownAt(g, p) ==
  \/ \E i \in DOMAIN queue[g] :
       /\ queue[g][i].photo = p /\ picks[g][p] = queue[g][i].next
       /\ \A j \in DOMAIN queue[g] : j > i => queue[g][j].photo # p
  \/ (\A i \in DOMAIN queue[g] : queue[g][i].photo # p) /\ picks[g][p] = Told[p]

\* What a choice of a photo will fall back to: the choice before it, or the server's
\* decision, which the first request may have changed already.
FallsBack(g, p) ==
  /\ \A i \in DOMAIN queue[g] :
       queue[g][i].photo = p /\ (\A j \in DOMAIN queue[g] : j < i => queue[g][j].photo # p)
         => queue[g][i].previous = Told[p] \/ (i = 1 /\ request[g] = "done")
  /\ \A i, k \in DOMAIN queue[g] :
       i < k /\ queue[g][i].photo = p /\ queue[g][k].photo = p
       /\ (\A j \in DOMAIN queue[g] : i < j /\ j < k => queue[g][j].photo # p)
         => queue[g][k].previous = queue[g][i].next

\* A page and a photo that has not gone astray on it, request by request.
PhotoInv(g, p) ==
  /\ topic
  /\ request[g] # "answered" => ShownAt(g, p) /\ FallsBack(g, p)
  /\ request[g] \in {"checked", "done"} /\ Head(queue[g]).photo = p => p \in members
  /\ request[g] = "done" /\ Head(queue[g]).photo = p => decided[p] = Head(queue[g]).next
  /\ request[g] = "answered" => fresh[g][p] = Told[p]
PageInv(g) ==
  /\ request[g] = "none" <=> queue[g] = <<>>
  /\ \A p \in Photo \ astray[g] : PhotoInv(g, p)

CullingInv == CullingTypeOK /\ \A g \in Page : PageInv(g)

LEMMA ToldTyped ==
  ASSUME CullingTypeOK
  PROVE  Told \in [Photo -> Decision] /\ Nothing \in [Photo -> Decision]
  BY DEF CullingTypeOK, Told, Nothing, Decision

\* A step that leaves a page, and the server's side of a photo, as they are.
LEMMA SamePhoto ==
  ASSUME NEW g \in Page, NEW p \in Photo, PhotoInv(g, p), topic', Told'[p] = Told[p],
         p \in members => p \in members', p \in members => decided'[p] = decided[p],
         picks'[g] = picks[g], queue'[g] = queue[g], request'[g] = request[g], fresh'[g] = fresh[g]
  PROVE  PhotoInv(g, p)'
  BY DEF PhotoInv, ShownAt, FallsBack

LEMMA OtherPage ==
  ASSUME NEW h \in Page, PageInv(h), UNCHANGED <<topic, members, decided>>,
         picks'[h] = picks[h], queue'[h] = queue[h], request'[h] = request[h],
         fresh'[h] = fresh[h], astray[h] \subseteq astray'[h]
  PROVE  PageInv(h)'
  <1>1. Told' = Told
    BY DEF Told
  <1>2. \A p \in Photo \ astray[h] : PhotoInv(h, p)'
    BY <1>1, SamePhoto DEF PageInv, PhotoInv
  <1> QED BY <1>2 DEF PageInv

LEMMA CullingInitInv == CullingInit => CullingInv
  <1> SUFFICES ASSUME CullingInit PROVE CullingInv
    OBVIOUS
  <1>1. CullingTypeOK
    BY DEF CullingInit, CullingTypeOK, Nothing, Decision, Request
  <1>2. ASSUME NEW g \in Page PROVE PageInv(g)
    <2>1. Told = Nothing
      BY DEF CullingInit, Told, Nothing
    <2> QED BY <2>1 DEF CullingInit, PageInv, PhotoInv, ShownAt, FallsBack, Nothing
  <1> QED BY <1>1, <1>2 DEF CullingInv

\* The rest of a queue.
LEMMA TailOf ==
  ASSUME NEW q \in Seq(Choice), q # <<>>
  PROVE  /\ Tail(q) \in Seq(Choice) /\ Head(q) = q[1] /\ Head(q) \in Choice
         /\ Len(q) \in Nat \ {0} /\ DOMAIN q = 1..Len(q) /\ DOMAIN Tail(q) = 1..(Len(q) - 1)
         /\ \A i \in 1..(Len(q) - 1) : Tail(q)[i] = q[i + 1]
         /\ Tail(q) = <<>> <=> Len(q) = 1
  <1>1. Len(q) \in Nat \ {0} /\ DOMAIN q = 1..Len(q) /\ Head(q) = q[1] /\ q[1] \in Choice
    OBVIOUS
  <1>2. /\ Tail(q) \in Seq(Choice) /\ Len(Tail(q)) = Len(q) - 1
        /\ \A i \in 1..(Len(q) - 1) : Tail(q)[i] = q[i + 1]
    BY <1>1
  <1>3. DOMAIN Tail(q) = 1..Len(Tail(q))
    BY <1>2
  <1>4. Tail(q) = <<>> <=> Len(Tail(q)) = 0
    BY <1>2
  <1> QED BY <1>1, <1>2, <1>3, <1>4

\* A request that is given up is one of the page's choices.
LEMMA GivenUpTyped ==
  ASSUME CullingTypeOK, NEW g \in Page, queue[g] # <<>>, GivenUp(g)
  PROVE  strays' \subseteq Stray
  <1>1. Head(queue[g]) \in Choice
    <2>1. queue[g] \in Seq(Choice) BY DEF CullingTypeOK
    <2> QED BY <2>1, TailOf
  <1>2. faults \in Nat
    BY DEF CullingTypeOK
  <1>3. (request[g] = "checked") \in BOOLEAN
    OBVIOUS
  <1>4. \A b \in BOOLEAN : [nr |-> faults, photo |-> Head(queue[g]).photo,
                            next |-> Head(queue[g]).next, looked |-> b] \in Stray
    BY <1>1, <1>2 DEF Choice, Stray
  <1> QED BY <1>3, <1>4, Zenon DEF GivenUp, CullingTypeOK

LEMMA BootInv ==
  ASSUME CullingInv, NEW g \in Page, Boot(g) PROVE CullingInv'
  <1> USE DEF CullingInv
  <1>1. Told' = Told /\ topic
    BY DEF Boot, Told
  <1>2. CullingTypeOK'
    <2>1. strays' \subseteq Stray /\ faults' \in Nat
      <3>1. CASE UnderWay(g)
        BY <3>1, GivenUpTyped DEF Boot, PageInv, UnderWay, Fault, CullingTypeOK
      <3>2. CASE ~UnderWay(g)
        BY <3>2 DEF Boot, CullingTypeOK
      <3> QED BY <3>1, <3>2
    <2> QED BY <2>1, ToldTyped DEF Boot, CullingTypeOK, Request
  <1>3. PageInv(g)'
    <2>1. /\ request'[g] = "none" /\ queue'[g] = <<>> /\ astray'[g] = {} /\ picks'[g] = Told
          /\ topic'
      BY DEF Boot, CullingTypeOK
    <2> QED BY <1>1, <2>1 DEF PageInv, PhotoInv, ShownAt, FallsBack
  <1>4. \A h \in Page \ {g} : PageInv(h)'
    BY OtherPage DEF Boot, CullingTypeOK
  <1> QED BY <1>2, <1>3, <1>4

LEMMA DecideInv ==
  ASSUME CullingInv, NEW g \in Page, NEW p \in Photo, NEW action \in {"pick", "reject"},
         Decide(g, p, action)
  PROVE  CullingInv'
  <1> USE DEF CullingInv
  <1> DEFINE next == DecisionFor(picks[g][p], action)
             c == [photo |-> p, next |-> next, previous |-> picks[g][p]]
  <1>1. next \in Decision /\ picks[g] \in [Photo -> Decision]
    BY DEF DecisionFor, CullingTypeOK, Decision
  <1>2. c \in Choice /\ c.photo = p /\ c.next = next /\ c.previous = picks[g][p]
    BY <1>1 DEF Choice
  <1>3. /\ picks' = [picks EXCEPT ![g] = [picks[g] EXCEPT ![p] = next]]
        /\ queue' = [queue EXCEPT ![g] = Append(queue[g], c)]
        /\ request' = [request EXCEPT ![g] = IF request[g] = "none" THEN "waiting" ELSE request[g]]
        /\ UNCHANGED <<topic, members, decided, fresh, strays, astray, faults>>
    BY DEF Decide
  <1> HIDE DEF next, c
  <1>4. queue[g] \in Seq(Choice) /\ request[g] \in Request
    BY DEF CullingTypeOK
  <1>5. CullingTypeOK'
    <2>1. Append(queue[g], c) \in Seq(Choice)
      BY <1>2, <1>4
    <2>2. queue' \in [Page -> Seq(Choice)]
      BY <1>3, <2>1 DEF CullingTypeOK
    <2>3. picks' \in [Page -> [Photo -> Decision]]
      BY <1>1, <1>3 DEF CullingTypeOK
    <2>4. request' \in [Page -> Request]
      BY <1>3, <1>4 DEF CullingTypeOK, Request
    <2> QED BY <1>3, <2>2, <2>3, <2>4 DEF CullingTypeOK
  <1>6. PageInv(g)'
    <2> DEFINE q == queue[g]  n == Append(q, c)
    <2>1. /\ queue'[g] = n /\ Len(n) = Len(q) + 1
          /\ DOMAIN n = 1..(Len(q) + 1) /\ DOMAIN q = 1..Len(q) /\ Len(q) \in Nat
          /\ \A i \in 1..Len(q) : n[i] = q[i]
          /\ n[Len(q) + 1] = c
      BY <1>2, <1>3, <1>4 DEF CullingTypeOK
    <2>2. /\ picks'[g][p] = next /\ \A r \in Photo \ {p} : picks'[g][r] = picks[g][r]
          /\ request'[g] = (IF request[g] = "none" THEN "waiting" ELSE request[g])
          /\ astray'[g] = astray[g] /\ fresh'[g] = fresh[g]
      BY <1>1, <1>3 DEF CullingTypeOK
    <2>3. Told' = Told
      BY <1>3 DEF Told
    <2>4. n # <<>> /\ (q # <<>> => Head(n) = Head(q))
      <3>1. n \in Seq(Choice)
        BY <1>2, <1>4
      <3>2. n # <<>> /\ Head(n) = n[1]
        <4> HIDE DEF n
        <4>1. Len(n) # 0
          BY <2>1
        <4> QED BY <3>1, <4>1, TailOf
      <3>3. q # <<>> => Head(q) = q[1] /\ 1 \in 1..Len(q)
        BY <1>4
      <3> QED BY <2>1, <3>2, <3>3
    <2>5. request[g] = "none" <=> q = <<>>
      BY DEF PageInv
    <2> HIDE DEF q, n
    <2>6. ASSUME NEW r \in Photo, ShownAt(g, r) PROVE ShownAt(g, r)'
      <3>1. CASE r = p
        BY <1>2, <2>1, <2>2, <3>1 DEF ShownAt
      <3>2. CASE r # p
        <4>1. picks'[g][r] = picks[g][r] /\ \A j \in DOMAIN n : n[j].photo = r => j \in DOMAIN q
          BY <1>2, <2>1, <2>2, <3>2
        <4>2. CASE \A i \in DOMAIN q : q[i].photo # r
          <5>1. \A i \in DOMAIN n : n[i].photo # r
            BY <2>1, <4>1, <4>2
          <5>2. picks[g][r] = Told[r]
            BY <2>6, <4>2 DEF ShownAt, q
          <5> QED BY <2>1, <2>3, <4>1, <5>1, <5>2 DEF ShownAt
        <4>3. CASE \E i \in DOMAIN q : q[i].photo = r
          <5>1. PICK i \in DOMAIN q : /\ q[i].photo = r /\ picks[g][r] = q[i].next
                                      /\ \A j \in DOMAIN q : j > i => q[j].photo # r
            BY <2>6, <4>3 DEF ShownAt, q
          <5>2. i \in DOMAIN n /\ n[i] = q[i] /\ \A j \in DOMAIN n : j > i => n[j].photo # r
            BY <2>1, <4>1, <5>1
          <5> QED BY <2>1, <4>1, <5>1, <5>2 DEF ShownAt
        <4> QED BY <4>2, <4>3
      <3> QED BY <3>1, <3>2
    <2>7. ASSUME NEW r \in Photo, FallsBack(g, r), ShownAt(g, r) PROVE FallsBack(g, r)'
      <3>1. ASSUME NEW i \in DOMAIN n, n[i].photo = r, \A j \in DOMAIN n : j < i => n[j].photo # r
            PROVE  n[i].previous = Told[r] \/ (i = 1 /\ request'[g] = "done")
        <4>1. CASE i \in 1..Len(q)
          <5>1. q[i].photo = r /\ \A j \in DOMAIN q : j < i => q[j].photo # r
            BY <2>1, <3>1, <4>1
          <5>2. q[i].previous = Told[r] \/ (i = 1 /\ request[g] = "done")
            BY <2>1, <2>7, <4>1, <5>1 DEF FallsBack, q
          <5> QED BY <2>1, <2>2, <4>1, <5>2
        <4>2. CASE i = Len(q) + 1
          <5>1. r = p /\ \A j \in DOMAIN q : q[j].photo # p
            BY <1>2, <2>1, <3>1, <4>2
          <5>2. picks[g][p] = Told[p]
            BY <2>7, <5>1 DEF ShownAt, q
          <5> QED BY <1>2, <2>1, <4>2, <5>1, <5>2
        <4> QED BY <2>1, <4>1, <4>2
      <3>2. ASSUME NEW i \in DOMAIN n, NEW k \in DOMAIN n, i < k, n[i].photo = r, n[k].photo = r,
                   \A j \in DOMAIN n : i < j /\ j < k => n[j].photo # r
            PROVE  n[k].previous = n[i].next
        <4>1. CASE k \in 1..Len(q)
          <5>1. /\ i \in DOMAIN q /\ k \in DOMAIN q /\ n[i] = q[i] /\ n[k] = q[k]
                /\ \A j \in DOMAIN q : i < j /\ j < k => q[j].photo # r
            BY <2>1, <3>2, <4>1
          <5> QED BY <2>7, <3>2, <5>1 DEF FallsBack, q
        <4>2. CASE k = Len(q) + 1
          <5>1. /\ r = p /\ i \in DOMAIN q /\ q[i].photo = p /\ n[i] = q[i]
                /\ \A j \in DOMAIN q : j > i => q[j].photo # p
            BY <1>2, <2>1, <3>2, <4>2
          <5>2. PICK m \in DOMAIN q : /\ q[m].photo = p /\ picks[g][p] = q[m].next
                                       /\ \A j \in DOMAIN q : j > m => q[j].photo # p
            BY <2>7, <5>1 DEF ShownAt, q
          <5>3. m = i
            BY <2>1, <5>1, <5>2
          <5> QED BY <1>2, <2>1, <4>2, <5>1, <5>2, <5>3
        <4> QED BY <2>1, <4>1, <4>2
      <3> QED BY <2>1, <2>3, <3>1, <3>2 DEF FallsBack
    <2>8. ASSUME NEW r \in Photo, PhotoInv(g, r) PROVE PhotoInv(g, r)'
      <3>1. request'[g] # "answered" => ShownAt(g, r)' /\ FallsBack(g, r)'
        BY <2>2, <2>6, <2>7, <2>8 DEF PhotoInv
      <3>2. request'[g] \in {"checked", "done", "answered"} => request[g] = request'[g] /\ q # <<>>
        BY <2>2, <2>5
      <3> QED BY <1>3, <2>1, <2>2, <2>3, <2>4, <2>8, <3>1, <3>2 DEF PhotoInv, q
    <2> QED BY <1>4, <2>1, <2>2, <2>4, <2>8 DEF PageInv, Request
  <1>7. \A h \in Page \ {g} : PageInv(h)'
    BY <1>3, OtherPage DEF CullingTypeOK
  <1> QED BY <1>5, <1>6, <1>7

\* A step of a page's request changes nothing of what it shows.
LEMMA SameShown ==
  ASSUME NEW g \in Page, NEW p \in Photo, UNCHANGED <<members, decided>>,
         picks'[g] = picks[g], queue'[g] = queue[g], request[g] # "done"
  PROVE  Told' = Told /\ (ShownAt(g, p) => ShownAt(g, p)') /\ (FallsBack(g, p) => FallsBack(g, p)')
  BY DEF ShownAt, FallsBack, Told

LEMMA SendInv ==
  ASSUME CullingInv, NEW g \in Page, Send(g) PROVE CullingInv'
  <1> USE DEF CullingInv, Send, Step
  <1>1. CullingTypeOK'
    BY ToldTyped DEF CullingTypeOK, Request
  <1>2. PageInv(g)'
    BY SameShown DEF CullingTypeOK, PageInv, PhotoInv
  <1>3. \A h \in Page \ {g} : PageInv(h)'
    BY OtherPage DEF CullingTypeOK
  <1> QED BY <1>1, <1>2, <1>3

LEMMA CheckInv ==
  ASSUME CullingInv, NEW g \in Page, Check(g) PROVE CullingInv'
  <1> USE DEF CullingInv, Check, Step
  <1>1. CullingTypeOK'
    BY ToldTyped DEF CullingTypeOK, Request
  <1>2. PageInv(g)'
    BY SameShown DEF CullingTypeOK, PageInv, PhotoInv
  <1>3. \A h \in Page \ {g} : PageInv(h)'
    BY OtherPage DEF CullingTypeOK
  <1> QED BY <1>1, <1>2, <1>3

LEMMA LoseInv ==
  ASSUME CullingInv, NEW g \in Page, Lose(g) PROVE CullingInv'
  <1> USE DEF CullingInv, Lose, Step, UnderWay, Fault
  <1>1. CullingTypeOK'
    BY ToldTyped DEF CullingTypeOK, Request
  <1>2. PageInv(g)'
    BY SameShown DEF CullingTypeOK, PageInv, PhotoInv
  <1>3. \A h \in Page \ {g} : PageInv(h)'
    BY OtherPage DEF CullingTypeOK
  <1> QED BY <1>1, <1>2, <1>3

LEMMA GiveUpInv ==
  ASSUME CullingInv, NEW g \in Page, GiveUp(g) PROVE CullingInv'
  <1> USE DEF CullingInv, GiveUp, Step, UnderWay, Fault
  <1>1. CullingTypeOK'
    <2>1. queue[g] # <<>>
      BY DEF PageInv
    <2> QED BY <2>1, GivenUpTyped DEF CullingTypeOK, Request
  <1>2. PageInv(g)'
    BY SameShown DEF CullingTypeOK, PageInv, PhotoInv
  <1>3. \A h \in Page \ {g} : PageInv(h)'
    BY OtherPage DEF CullingTypeOK
  <1> QED BY <1>1, <1>2, <1>3

LEMMA LoseAnswerInv ==
  ASSUME CullingInv, NEW g \in Page, LoseAnswer(g) PROVE CullingInv'
  <1> USE DEF CullingInv, LoseAnswer, Step, Fault
  <1>1. queue[g] # <<>> /\ queue[g] \in Seq(Choice)
    BY DEF PageInv, CullingTypeOK
  <1>2. Head(queue[g]).photo \in Photo /\ Head(queue[g]) = queue[g][1]
    <2>1. Head(queue[g]) \in Choice /\ Head(queue[g]) = queue[g][1] BY <1>1, TailOf
    <2> QED BY <2>1 DEF Choice
  <1>3. CullingTypeOK'
    <2>1. astray' \in [Page -> SUBSET Photo]
      BY <1>2 DEF CullingTypeOK
    <2> QED BY <2>1 DEF CullingTypeOK, Request
  <1>4. PageInv(g)'
    <2>1. /\ request[g] = "done" /\ request'[g] = "failed" /\ queue'[g] = queue[g] /\ picks'[g] = picks[g]
          /\ astray'[g] = astray[g] \cup {queue[g][1].photo} /\ fresh'[g] = fresh[g] /\ topic' = topic
      BY <1>2 DEF CullingTypeOK
    <2>2. Told' = Told
      BY DEF Told
    <2>3. ASSUME NEW p \in Photo \ astray'[g] PROVE PhotoInv(g, p)'
      <3>1. PhotoInv(g, p) /\ queue[g][1].photo # p
        BY <2>1, <2>3 DEF PageInv
      <3>2. ShownAt(g, p)' /\ FallsBack(g, p)'
        BY <2>1, <2>2, <3>1 DEF PhotoInv, ShownAt, FallsBack
      <3> QED BY <2>1, <2>2, <3>1, <3>2 DEF PhotoInv
    <2> QED BY <1>1, <2>1, <2>3 DEF PageInv
  <1>5. \A h \in Page \ {g} : PageInv(h)'
    BY OtherPage DEF CullingTypeOK
  <1> QED BY <1>3, <1>4, <1>5

LEMMA CheckStrayInv ==
  ASSUME CullingInv, NEW l \in strays, CheckStray(l) PROVE CullingInv'
  <1> USE DEF CullingInv, CheckStray
  <1>1. [l EXCEPT !.looked = TRUE] \in Stray
    BY DEF CullingTypeOK, Stray
  <1>2. strays' \subseteq Stray
    BY <1>1 DEF CullingTypeOK
  <1>3. CullingTypeOK'
    BY <1>2 DEF CullingTypeOK
  <1>4. \A h \in Page : PageInv(h)'
    BY OtherPage
  <1> QED BY <1>3, <1>4

\* A decision on a photo changes what the server tells of that photo only.
LEMMA WriteTyped ==
  ASSUME CullingTypeOK, NEW c, c.photo \in Photo, c.next \in Decision, Write(c), members' = members
  PROVE  /\ decided' \in [Photo -> Decision]
         /\ \A p \in Photo \ {c.photo} : decided'[p] = decided[p] /\ Told'[p] = Told[p]
  BY DEF CullingTypeOK, Write, Told

LEMMA SetStrayInv ==
  ASSUME CullingInv, NEW l \in strays, SetStray(l) PROVE CullingInv'
  <1> USE DEF CullingInv
  <1>1. l \in Stray /\ l.photo \in Photo /\ l.next \in Decision
    BY DEF CullingTypeOK, Stray
  <1>2. /\ decided' \in [Photo -> Decision]
        /\ \A p \in Photo \ {l.photo} : decided'[p] = decided[p] /\ Told'[p] = Told[p]
    BY <1>1, WriteTyped DEF SetStray
  <1>3. CullingTypeOK'
    <2>1. astray' \in [Page -> SUBSET Photo]
      BY <1>1 DEF SetStray, CullingTypeOK
    <2> QED BY <1>2, <2>1 DEF SetStray, CullingTypeOK
  <1>4. ASSUME NEW h \in Page PROVE PageInv(h)'
    <2>1. astray'[h] = astray[h] \cup {l.photo}
      BY DEF SetStray, CullingTypeOK
    <2>2. \A p \in Photo \ astray'[h] : PhotoInv(h, p)'
      BY <1>2, <2>1, SamePhoto DEF SetStray, PageInv, PhotoInv
    <2> QED BY <2>2 DEF SetStray, PageInv
  <1> QED BY <1>3, <1>4

LEMMA DecisionsInv ==
  ASSUME CullingInv, NEW g \in Page, Decisions(g) PROVE CullingInv'
  <1> USE DEF CullingInv, Decisions, Step
  <1>1. CullingTypeOK'
    BY ToldTyped DEF CullingTypeOK, Request
  <1>2. PageInv(g)'
    <2>1. /\ request[g] = "failed" /\ request'[g] = "answered" /\ queue'[g] = queue[g]
          /\ fresh'[g] = Told /\ topic' /\ Told' = Told
      BY DEF CullingTypeOK, Told
    <2>2. \A p \in Photo : PhotoInv(g, p)'
      BY <2>1 DEF PhotoInv
    <2> QED BY <2>1, <2>2 DEF PageInv
  <1>3. \A h \in Page \ {g} : PageInv(h)'
    BY OtherPage DEF CullingTypeOK
  <1> QED BY <1>1, <1>2, <1>3

LEMMA SettledTyped ==
  ASSUME CullingTypeOK, NEW g \in Page, Settled(g), queue[g] # <<>>
  PROVE  /\ queue' \in [Page -> Seq(Choice)] /\ request' \in [Page -> Request]
         /\ queue'[g] = Tail(queue[g]) /\ request'[g] \in {"none", "waiting"}
         /\ request'[g] = "none" <=> queue'[g] = <<>>
         /\ \A h \in Page \ {g} : queue'[h] = queue[h] /\ request'[h] = request[h]
  <1>1. queue[g] \in Seq(Choice) BY DEF CullingTypeOK
  <1>2. Tail(queue[g]) \in Seq(Choice) /\ (Tail(queue[g]) = <<>> <=> Len(queue[g]) = 1)
    BY <1>1, TailOf
  <1> QED BY <1>2 DEF CullingTypeOK, Settled, Request

\* A photo that is not behind the head is not in the rest of the queue.
LEMMA NotBehind ==
  ASSUME NEW g \in Page, queue[g] \in Seq(Choice), queue[g] # <<>>, NEW p, p \notin Behind(g)
  PROVE  \A j \in DOMAIN Tail(queue[g]) : Tail(queue[g])[j].photo # p
  <1> DEFINE q == queue[g]
  <1>1. ASSUME NEW j \in 1..(Len(q) - 1) PROVE Tail(q)[j].photo # p
    <2>1. j + 1 \in 2..Len(q) /\ Tail(q)[j] = q[j + 1]
      BY TailOf
    <2> QED BY <2>1 DEF Behind
  <1> QED BY <1>1, TailOf

\* The head is settled as the server has it, or is of another photo.
LEMMA TailInv ==
  ASSUME NEW g \in Page, NEW p \in Photo, queue[g] \in Seq(Choice), queue[g] # <<>>,
         queue'[g] = Tail(queue[g]), request'[g] \in {"none", "waiting"},
         picks'[g][p] = picks[g][p], Told'[p] = Told[p], ShownAt(g, p), FallsBack(g, p),
         Head(queue[g]).photo = p => Head(queue[g]).next = Told[p]
  PROVE  ShownAt(g, p)' /\ FallsBack(g, p)'
  <1> DEFINE q == queue[g]  t == Tail(q)
  <1>1. /\ q[1] = Head(q) /\ Len(q) \in Nat \ {0} /\ DOMAIN q = 1..Len(q)
        /\ DOMAIN t = 1..(Len(q) - 1) /\ \A i \in 1..(Len(q) - 1) : t[i] = q[i + 1]
    BY TailOf
  <1>2. queue'[g] = t
    OBVIOUS
  <1> HIDE DEF t
  <1>3. ShownAt(g, p)'
    <2>1. CASE \E i \in DOMAIN q : /\ q[i].photo = p /\ picks[g][p] = q[i].next
                                   /\ \A j \in DOMAIN q : j > i => q[j].photo # p
      <3>1. PICK i \in DOMAIN q : /\ q[i].photo = p /\ picks[g][p] = q[i].next
                                  /\ \A j \in DOMAIN q : j > i => q[j].photo # p
        BY <2>1
      <3>2. CASE i = 1
        <4>1. \A j \in DOMAIN t : t[j].photo # p
          BY <1>1, <3>1, <3>2
        <4> QED BY <1>1, <1>2, <3>1, <3>2, <4>1 DEF ShownAt
      <3>3. CASE i # 1
        <4>1. i - 1 \in DOMAIN t /\ t[i - 1] = q[i]
          BY <1>1, <3>3
        <4>2. ASSUME NEW j \in DOMAIN t, j > i - 1 PROVE t[j].photo # p
          <5>1. j + 1 \in DOMAIN q /\ j + 1 > i /\ t[j] = q[j + 1]
            BY <1>1, <3>1, <4>2
          <5> QED BY <3>1, <5>1
        <4> QED BY <1>2, <3>1, <4>1, <4>2 DEF ShownAt
      <3> QED BY <3>2, <3>3
    <2>2. CASE (\A i \in DOMAIN q : q[i].photo # p) /\ picks[g][p] = Told[p]
      <3>1. ASSUME NEW j \in DOMAIN t PROVE t[j].photo # p
        <4>1. j + 1 \in DOMAIN q /\ t[j] = q[j + 1]
          BY <1>1, <3>1
        <4> QED BY <2>2, <4>1
      <3> QED BY <1>2, <2>2, <3>1 DEF ShownAt
    <2> QED BY <2>1, <2>2 DEF ShownAt
  <1>4. ASSUME NEW i \in DOMAIN t, t[i].photo = p, \A j \in DOMAIN t : j < i => t[j].photo # p
        PROVE  t[i].previous = Told[p]
    <2>1. i + 1 \in DOMAIN q /\ t[i] = q[i + 1] /\ 1 \in DOMAIN q
      BY <1>1
    <2>2. \A j \in DOMAIN q : 1 < j /\ j < i + 1 => q[j].photo # p
      <3>1. ASSUME NEW j \in DOMAIN q, 1 < j, j < i + 1 PROVE q[j].photo # p
        <4>1. j - 1 \in DOMAIN t /\ j - 1 < i /\ t[j - 1] = q[j]
          BY <1>1, <3>1
        <4> QED BY <1>4, <4>1
      <3> QED BY <3>1
    <2>3. CASE q[1].photo = p
      <3>1. 1 < i + 1 /\ q[i + 1].photo = p
        BY <1>1, <1>4, <2>1
      <3>2. q[i + 1].previous = q[1].next
        BY <2>1, <2>2, <2>3, <3>1 DEF FallsBack
      <3> QED BY <1>1, <2>1, <2>3, <3>2
    <2>4. CASE q[1].photo # p
      <3>1. \A j \in DOMAIN q : j < i + 1 => q[j].photo # p
        BY <1>1, <2>2, <2>4
      <3>2. i + 1 # 1
        BY <1>1
      <3>3. q[i + 1].previous = Told[p]
        BY <1>4, <2>1, <3>1, <3>2 DEF FallsBack
      <3> QED BY <2>1, <3>3
    <2> QED BY <2>3, <2>4
  <1>5. ASSUME NEW i \in DOMAIN t, NEW k \in DOMAIN t, i < k, t[i].photo = p, t[k].photo = p,
               \A j \in DOMAIN t : i < j /\ j < k => t[j].photo # p
        PROVE  t[k].previous = t[i].next
    <2>1. /\ i + 1 \in DOMAIN q /\ k + 1 \in DOMAIN q /\ i + 1 < k + 1
          /\ t[i] = q[i + 1] /\ t[k] = q[k + 1]
      BY <1>1, <1>5
    <2>2. ASSUME NEW j \in DOMAIN q, i + 1 < j, j < k + 1 PROVE q[j].photo # p
      <3>1. j - 1 \in DOMAIN t /\ i < j - 1 /\ j - 1 < k /\ t[j - 1] = q[j]
        BY <1>1, <2>2
      <3> QED BY <1>5, <3>1
    <2> QED BY <1>5, <2>1, <2>2 DEF FallsBack
  <1> QED BY <1>2, <1>3, <1>4, <1>5 DEF FallsBack

LEMMA SavedInv ==
  ASSUME CullingInv, NEW g \in Page, Saved(g) PROVE CullingInv'
  <1> USE DEF CullingInv
  <1>1. /\ queue[g] # <<>> /\ request[g] = "done" /\ Settled(g)
        /\ UNCHANGED <<topic, members, decided, picks, fresh, strays, astray, faults>>
    BY DEF Saved, PageInv
  <1>2. queue[g] \in Seq(Choice)
    BY DEF CullingTypeOK
  <1>3. CullingTypeOK'
    BY <1>1, SettledTyped DEF CullingTypeOK
  <1>4. PageInv(g)'
    <2>1. /\ queue'[g] = Tail(queue[g]) /\ request'[g] \in {"none", "waiting"}
          /\ request'[g] = "none" <=> queue'[g] = <<>>
      BY <1>1, SettledTyped
    <2>2. Told' = Told
      BY <1>1 DEF Told
    <2>3. ASSUME NEW p \in Photo \ astray[g] PROVE PhotoInv(g, p)'
      <3>1. PhotoInv(g, p)
        BY <2>3 DEF PageInv
      <3>2. Head(queue[g]).photo = p => Head(queue[g]).next = Told[p]
        BY <1>1, <3>1 DEF PhotoInv, Told
      <3>3. ShownAt(g, p) /\ FallsBack(g, p)
        BY <1>1, <3>1 DEF PhotoInv
      <3>4. picks'[g][p] = picks[g][p] /\ Told'[p] = Told[p]
        BY <1>1, <2>2
      <3>5. ShownAt(g, p)' /\ FallsBack(g, p)'
        BY <1>1, <1>2, <2>1, <3>2, <3>3, <3>4, TailInv
      <3> QED BY <1>1, <2>1, <3>1, <3>5 DEF PhotoInv
    <2> QED BY <1>1, <2>1, <2>3 DEF PageInv
  <1>5. \A h \in Page \ {g} : PageInv(h)'
    BY <1>1, SettledTyped, OtherPage
  <1> QED BY <1>3, <1>4, <1>5

LEMMA BehindTyped ==
  ASSUME CullingTypeOK, NEW g \in Page PROVE Behind(g) \subseteq Photo
  <1>1. queue[g] \in Seq(Choice) BY DEF CullingTypeOK
  <1>2. \A i \in 2..Len(queue[g]) : queue[g][i] \in Choice BY <1>1
  <1> QED BY <1>2 DEF Behind, Choice

LEMMA TakeFreshInv ==
  ASSUME CullingInv, NEW g \in Page, TakeFresh(g) PROVE CullingInv'
  <1> USE DEF CullingInv
  <1>1. /\ queue[g] # <<>> /\ request[g] = "answered" /\ Settled(g)
        /\ picks' = [picks EXCEPT ![g] = fresh[g]] /\ fresh' = [fresh EXCEPT ![g] = Nothing]
        /\ astray' = [astray EXCEPT ![g] = astray[g] \cup Behind(g)]
        /\ UNCHANGED <<topic, members, decided, strays, faults>>
    BY DEF TakeFresh, PageInv
  <1>2. queue[g] \in Seq(Choice)
    BY DEF CullingTypeOK
  <1>3. CullingTypeOK'
    <2>1. astray' \in [Page -> SUBSET Photo]
      BY <1>1, BehindTyped DEF CullingTypeOK
    <2> QED BY <1>1, <2>1, SettledTyped, ToldTyped DEF CullingTypeOK
  <1>4. PageInv(g)'
    <2>1. /\ queue'[g] = Tail(queue[g]) /\ request'[g] \in {"none", "waiting"}
          /\ request'[g] = "none" <=> queue'[g] = <<>>
      BY <1>1, SettledTyped
    <2>2. Told' = Told
      BY <1>1 DEF Told
    <2>3. picks'[g] = fresh[g] /\ astray'[g] = astray[g] \cup Behind(g)
      BY <1>1 DEF CullingTypeOK
    <2>4. ASSUME NEW p \in Photo \ astray'[g] PROVE PhotoInv(g, p)'
      <3>1. topic /\ fresh[g][p] = Told[p]
        BY <1>1, <2>3, <2>4 DEF PageInv, PhotoInv
      <3>2. \A j \in DOMAIN queue'[g] : queue'[g][j].photo # p
        BY <1>1, <1>2, <2>1, <2>3, <2>4, NotBehind
      <3>3. ShownAt(g, p)' /\ FallsBack(g, p)'
        BY <2>2, <2>3, <3>1, <3>2 DEF ShownAt, FallsBack
      <3> QED BY <1>1, <2>1, <3>1, <3>3 DEF PhotoInv
    <2> QED BY <2>1, <2>4 DEF PageInv
  <1>5. \A h \in Page \ {g} : PageInv(h)'
    BY <1>1, SettledTyped, OtherPage DEF CullingTypeOK
  <1> QED BY <1>3, <1>4, <1>5

LEMMA TakePreviousInv ==
  ASSUME CullingInv, NEW g \in Page, TakePrevious(g) PROVE CullingInv'
  <1> USE DEF CullingInv
  <1> DEFINE c == Head(queue[g])
  <1>1. /\ queue[g] # <<>> /\ request[g] = "failed" /\ Settled(g)
        /\ picks' = [picks EXCEPT ![g] = [picks[g] EXCEPT ![c.photo] = c.previous]]
        /\ astray' = [astray EXCEPT ![g] = astray[g] \cup (Behind(g) \cap {c.photo})]
        /\ UNCHANGED <<topic, members, decided, fresh, strays, faults>>
    BY DEF TakePrevious, PageInv
  <1>2. queue[g] \in Seq(Choice) /\ 1 \in DOMAIN queue[g] /\ c = queue[g][1] /\ c \in Choice
    <2>1. queue[g] \in Seq(Choice) BY DEF CullingTypeOK
    <2> QED BY <1>1, <2>1, TailOf
  <1> HIDE DEF c
  <1>3. c.photo \in Photo /\ c.previous \in Decision
    BY <1>2 DEF Choice
  <1>4. CullingTypeOK'
    <2>1. astray' \in [Page -> SUBSET Photo]
      BY <1>1, BehindTyped DEF CullingTypeOK
    <2>2. picks' \in [Page -> [Photo -> Decision]]
      BY <1>1, <1>3 DEF CullingTypeOK
    <2> QED BY <1>1, <2>1, <2>2, SettledTyped DEF CullingTypeOK
  <1>5. PageInv(g)'
    <2>1. /\ queue'[g] = Tail(queue[g]) /\ request'[g] \in {"none", "waiting"}
          /\ request'[g] = "none" <=> queue'[g] = <<>>
      BY <1>1, SettledTyped
    <2>2. Told' = Told
      BY <1>1 DEF Told
    <2>3. /\ picks'[g] = [picks[g] EXCEPT ![c.photo] = c.previous]
          /\ astray'[g] = astray[g] \cup (Behind(g) \cap {c.photo})
          /\ picks[g] \in [Photo -> Decision]
      BY <1>1 DEF CullingTypeOK
    <2>4. ASSUME NEW p \in Photo \ astray'[g] PROVE PhotoInv(g, p)'
      <3>1. topic /\ ShownAt(g, p) /\ FallsBack(g, p)
        BY <1>1, <2>3, <2>4 DEF PageInv, PhotoInv
      <3>2. CASE c.photo = p
        <4>1. \A j \in DOMAIN queue'[g] : queue'[g][j].photo # p
          BY <1>1, <1>2, <2>1, <2>3, <2>4, <3>2, NotBehind
        <4>2. c.previous = Told[p]
          <5>1. \A j \in DOMAIN queue[g] : j < 1 => queue[g][j].photo # p
            BY <1>2
          <5> QED BY <1>1, <1>2, <3>1, <3>2, <5>1 DEF FallsBack
        <4>3. picks'[g][p] = Told[p]
          BY <2>3, <3>2, <4>2
        <4> QED BY <1>1, <2>1, <2>2, <3>1, <4>1, <4>3 DEF PhotoInv, ShownAt, FallsBack
      <3>3. CASE c.photo # p
        <4>1. picks'[g][p] = picks[g][p] /\ Told'[p] = Told[p]
          BY <2>2, <2>3, <3>3
        <4>2. ShownAt(g, p)' /\ FallsBack(g, p)'
          BY <1>1, <1>2, <2>1, <3>1, <3>3, <4>1, TailInv DEF c
        <4> QED BY <1>1, <2>1, <3>1, <4>2 DEF PhotoInv
      <3> QED BY <3>2, <3>3
    <2> QED BY <2>1, <2>4 DEF PageInv
  <1>6. \A h \in Page \ {g} : PageInv(h)'
    BY <1>1, SettledTyped, OtherPage DEF CullingTypeOK
  <1> QED BY <1>4, <1>5, <1>6

LEMMA SetDecisionInv ==
  ASSUME CullingInv, NEW g \in Page, SetDecision(g) PROVE CullingInv'
  <1> USE DEF CullingInv
  <1> DEFINE c == Head(queue[g])
  <1>1. /\ request[g] = "checked" /\ queue[g] # <<>>
        /\ request' = [request EXCEPT ![g] = IF topic \/ c.next = "clear" THEN "done" ELSE "failed"]
        /\ Write(c)
        /\ astray' = [h \in Page |-> IF h = g THEN astray[h] ELSE astray[h] \cup {c.photo}]
        /\ UNCHANGED <<topic, members, picks, queue, fresh, strays, faults>>
    BY DEF SetDecision, Step, PageInv
  <1>2. c \in Choice /\ queue[g] \in Seq(Choice) /\ c = queue[g][1] /\ 1 \in DOMAIN queue[g]
    <2>1. queue[g] \in Seq(Choice) BY DEF CullingTypeOK
    <2> QED BY <1>1, <2>1, TailOf
  <1>3. c.photo \in Photo /\ c.next \in Decision
    BY <1>2 DEF Choice
  <1>4. /\ decided' \in [Photo -> Decision]
        /\ \A p \in Photo \ {c.photo} : decided'[p] = decided[p] /\ Told'[p] = Told[p]
    BY <1>1, <1>3, WriteTyped
  <1>5. CullingTypeOK'
    <2>1. astray' \in [Page -> SUBSET Photo]
      BY <1>1, <1>3 DEF CullingTypeOK
    <2>2. request' \in [Page -> Request]
      BY <1>1 DEF CullingTypeOK, Request
    <2> QED BY <1>1, <1>4, <2>1, <2>2 DEF CullingTypeOK
  <1>6. PageInv(g)'
    <2>1. request'[g] = (IF topic \/ c.next = "clear" THEN "done" ELSE "failed") /\ astray'[g] = astray[g]
      BY <1>1 DEF CullingTypeOK
    <2>2. ASSUME NEW p \in Photo \ astray[g] PROVE PhotoInv(g, p)'
      <3>1. PhotoInv(g, p) /\ ShownAt(g, p) /\ FallsBack(g, p) /\ topic
        BY <1>1, <2>2 DEF PageInv, PhotoInv
      <3>2. request'[g] = "done"
        BY <2>1, <3>1
      <3>3. CASE p = c.photo
        <4>1. p \in members' /\ decided'[p] = c.next
          BY <1>1, <1>3, <3>1, <3>3 DEF PhotoInv, Write, CullingTypeOK
        <4>2. ShownAt(g, p)'
          BY <1>1, <1>2, <3>1, <3>3 DEF ShownAt
        <4>3. FallsBack(g, p)'
          BY <1>1, <1>2, <3>1, <3>2, <3>3 DEF FallsBack
        <4> QED BY <1>1, <3>1, <3>2, <4>1, <4>2, <4>3 DEF PhotoInv
      <3>4. CASE p # c.photo
        <4>1. Told'[p] = Told[p]
          BY <1>4, <3>4
        <4>2. ShownAt(g, p)' /\ FallsBack(g, p)'
          BY <1>1, <3>1, <3>2, <4>1 DEF ShownAt, FallsBack
        <4> QED BY <1>1, <3>1, <3>2, <3>4, <4>2 DEF PhotoInv
      <3> QED BY <3>3, <3>4
    <2> QED BY <1>1, <2>1, <2>2 DEF PageInv
  <1>7. ASSUME NEW h \in Page \ {g} PROVE PageInv(h)'
    <2>1. request'[h] = request[h] /\ astray'[h] = astray[h] \cup {c.photo}
      BY <1>1 DEF CullingTypeOK
    <2>2. \A p \in Photo \ astray'[h] : PhotoInv(h, p)'
      BY <1>1, <1>4, <2>1, SamePhoto DEF PageInv, PhotoInv
    <2> QED BY <1>1, <2>1, <2>2 DEF PageInv
  <1> QED BY <1>5, <1>6, <1>7

\* Whatever others change of some photos, a page may be wrong on these only.
LEMMA OthersInv ==
  ASSUME CullingInv, NEW changed \in SUBSET Photo, Others(changed),
         topic' \in BOOLEAN, members' \subseteq Photo, decided' \in [Photo -> Decision],
         \A p \in Photo \ changed : topic' /\ decided'[p] = decided[p] /\ (p \in members <=> p \in members')
  PROVE  CullingInv'
  <1> USE DEF CullingInv, Others
  <1>1. CullingTypeOK'
    BY DEF CullingTypeOK
  <1>2. ASSUME NEW g \in Page PROVE PageInv(g)'
    <2>1. astray'[g] = astray[g] \cup changed
      OBVIOUS
    <2>2. \A p \in Photo \ changed : Told'[p] = Told[p]
      BY DEF Told
    <2>3. \A p \in Photo \ astray'[g] : PhotoInv(g, p)'
      BY <2>1, <2>2, SamePhoto DEF PageInv
    <2> QED BY <2>3 DEF PageInv
  <1> QED BY <1>1, <1>2

LEMMA CullingStepInv == CullingInv /\ [CullingNext]_cullingVars => CullingInv'
  <1> SUFFICES ASSUME CullingInv, [CullingNext]_cullingVars PROVE CullingInv'
    OBVIOUS
  <1>1. CASE UNCHANGED cullingVars
    BY <1>1, OtherPage DEF cullingVars, CullingInv, CullingTypeOK
  <1>2. CASE \E g \in Page :
               \/ Boot(g) \/ Send(g) \/ Saved(g) \/ TakeFresh(g) \/ TakePrevious(g)
               \/ Check(g) \/ SetDecision(g) \/ Decisions(g)
               \/ Lose(g) \/ LoseAnswer(g) \/ GiveUp(g)
               \/ \E p \in Photo, action \in {"pick", "reject"} : Decide(g, p, action)
    BY <1>2, BootInv, SendInv, SavedInv, TakeFreshInv, TakePreviousInv, CheckInv, SetDecisionInv,
       LoseInv, LoseAnswerInv, GiveUpInv, DecisionsInv, DecideInv
  <1>3. CASE \E l \in strays : CheckStray(l) \/ SetStray(l)
    BY <1>3, CheckStrayInv, SetStrayInv
  <1>4. CASE \E p \in Photo : RemovePhoto(p) \/ AddPhoto(p)
    <2>1. PICK p \in Photo : RemovePhoto(p) \/ AddPhoto(p)
      BY <1>4
    <2>2. /\ Others({p}) /\ topic' \in BOOLEAN /\ members' \subseteq Photo
          /\ decided' \in [Photo -> Decision]
          /\ \A q \in Photo \ {p} : topic' /\ decided'[q] = decided[q] /\ (q \in members <=> q \in members')
      BY <2>1 DEF RemovePhoto, AddPhoto, Others, CullingInv, CullingTypeOK
    <2> QED BY <2>2, OthersInv
  <1>5. CASE DeleteTopic
    <2>1. /\ Others(Photo) /\ topic' \in BOOLEAN /\ members' \subseteq Photo
          /\ decided' \in [Photo -> Decision]
      BY <1>5, ToldTyped DEF DeleteTopic, CullingInv
    <2> QED BY <2>1, OthersInv
  <1> QED BY <1>1, <1>2, <1>3, <1>4, <1>5 DEF CullingNext

\* For any number of pages, photos, choices, losses and changes of the topic.
THEOREM ServicesPicks == Spec => []PicksAreServerBacked
  <1>1. Init => CullingInv
    BY CullingInitInv DEF Init
  <1>2. [Next]_vars => [CullingNext]_cullingVars
    BY DEF Next, vars, PairingStep, DesktopStep, SchemaStep, ConsolidationStep, OrganisationStep,
           CullingStep, cullingVars
  <1>3. ASSUME CullingInv, NEW g \in Page, queue[g] = <<>>, NEW p \in Photo \ astray[g]
        PROVE  picks[g][p] = Told[p]
    <2>1. PhotoInv(g, p) /\ request[g] = "none"
      BY <1>3 DEF CullingInv, PageInv
    <2> QED BY <1>3, <2>1 DEF PhotoInv, ShownAt
  <1>4. CullingInv => PicksAreServerBacked
    BY <1>3 DEF PicksAreServerBacked
  <1> QED BY <1>1, <1>2, <1>4, CullingStepInv, PTL DEF Spec

-------------------------------------------------------------------------------
(***************************************************************************)
(* Desktop lanes.                                                          *)
(***************************************************************************)
Signal(w, what) == [of |-> w, what |-> what]

\* The workers that were started are the first ones, only they send signals, and
\* one has a result when its run has ended.
WorkersInv ==
  /\ \E k \in 0..MaxStarts : {w \in Worker : phase[w] # "none"} = 1..k
  /\ \A w \in Worker : outcome[w] \in Results => phase[w] \notin {"none", "started", "running", "halfway"}
  /\ \A i \in DOMAIN inbox : phase[inbox[i].of] # "none"

\* Workers the lane does not refer to are at rest.
OthersRest == \A w \in Worker : w # cur => phase[w] \in {"none", "over", "deleted", "lost"}

\* What is queued while the worker the lane refers to is in each phase.
Queued ==
  /\ phase[cur] \in {"started", "running", "halfway", "done", "leaving", "over", "deleted"}
  /\ phase[cur] \in {"started", "running", "leaving", "deleted"} => inbox = <<>>
  /\ phase[cur] = "halfway" => inbox \in {<<>>, <<Signal(cur, "progress")>>}
  /\ phase[cur] = "done" =>
       /\ outcome[cur] \in Results
       /\ inbox \in {<<Signal(cur, outcome[cur])>>,
                     <<Signal(cur, "progress"), Signal(cur, outcome[cur])>>}
  /\ phase[cur] = "over" => inbox = <<Signal(cur, "finished")>>

ShownIsTrue ==
  shown[2] \in Results => \E w \in Worker : way[w] = shown[1] /\ outcome[w] = shown[2]

\* As long as no click has overtaken a handler.
LaneInv ==
  /\ OthersRest /\ ShownIsTrue
  /\ cur = 0 => inbox = <<>> /\ off = FALSE
  /\ cur # 0 =>
       /\ Queued
       /\ way[cur] \in Ways
       /\ lane = "operation" => operation = way[cur]
       /\ Sole => off = TRUE \/ phase[cur] = "deleted"
       /\ phase[cur] = "deleted" => failed = TRUE

DesktopInv ==
  /\ DesktopTypeOK /\ WorkersInv
  /\ Sole => overtaken = FALSE
  /\ overtaken = FALSE => LaneInv

SignalType == [of : Worker, what : Results \cup {"progress", "finished"}]

LEMMA LaneWays ==
  /\ lane \in {"scan", "discovery", "companion", "thumbnails", "categories"} => Ways = {lane}
  /\ lane = "recovery" => Ways = {"check", "backup", "restore"}
  /\ lane = "operation" => Ways = {"copy", "quarantine", "undo"}
  BY DEF Ways

\* Queues of one and two signals.
LEMMA ShortQueues ==
  ASSUME NEW a, NEW b
  PROVE  /\ Append(<<>>, a) = <<a>> /\ Append(<<a>>, b) = <<a, b>>
         /\ Head(<<a>>) = a /\ Tail(<<a>>) = <<>> /\ Head(<<a, b>>) = a /\ Tail(<<a, b>>) = <<b>>
         /\ <<a>> # <<>> /\ <<a, b>> # <<>>
  <1>1. Append(<<>>, a) = <<a>>
    OBVIOUS
  <1>2. Append(<<a>>, b) = <<a, b>>
    <2>1. <<a>> \in Seq({a, b}) /\ <<a, b>> \in Seq({a, b}) /\ Len(<<a>>) = 1 /\ Len(<<a, b>>) = 2
      OBVIOUS
    <2>2. /\ Append(<<a>>, b) \in Seq({a, b}) /\ Len(Append(<<a>>, b)) = 2
          /\ Append(<<a>>, b)[1] = a /\ Append(<<a>>, b)[2] = b
      BY <2>1
    <2>3. <<a, b>>[1] = a /\ <<a, b>>[2] = b
      OBVIOUS
    <2>4. \A i \in 1..2 : Append(<<a>>, b)[i] = <<a, b>>[i]
      <3>1. \A i \in 1..2 : i = 1 \/ i = 2
        OBVIOUS
      <3> QED BY <2>2, <2>3, <3>1
    <2>5. /\ Append(<<a>>, b) = [i \in 1..2 |-> Append(<<a>>, b)[i]]
          /\ <<a, b>> = [i \in 1..2 |-> <<a, b>>[i]]
      BY <2>1, <2>2
    <2> QED BY <2>4, <2>5
  <1>3. Head(<<a>>) = a /\ Head(<<a, b>>) = a
    OBVIOUS
  <1>4. Tail(<<a>>) = <<>>
    <2>1. <<a>> \in Seq({a}) /\ Len(<<a>>) = 1
      OBVIOUS
    <2>2. Tail(<<a>>) \in Seq({a}) /\ Len(Tail(<<a>>)) = 0
      BY <2>1
    <2> QED BY <2>2
  <1>5. Tail(<<a, b>>) = <<b>>
    OBVIOUS
  <1>6. <<a>> # <<>> /\ <<a, b>> # <<>>
    OBVIOUS
  <1> QED BY <1>1, <1>2, <1>3, <1>4, <1>5, <1>6

\* The first signal of the queue comes from a worker that was started.
LEMMA FirstSignal ==
  ASSUME DesktopTypeOK, WorkersInv, NEW what, Handles(what)
  PROVE  /\ Of \in Worker /\ phase[Of] # "none"
         /\ Head(inbox) \in SignalType /\ inbox' \in Seq(SignalType)
         /\ \A i \in DOMAIN inbox' : phase[inbox'[i].of] # "none"
  <1>1. inbox \in Seq(SignalType) /\ inbox # <<>> /\ inbox' = Tail(inbox)
    BY DEF DesktopTypeOK, Handles, SignalType
  <1>2. Head(inbox) \in SignalType /\ Tail(inbox) \in Seq(SignalType) /\ Head(inbox) = inbox[1] /\ 1 \in DOMAIN inbox
    BY <1>1
  <1>3. \A i \in DOMAIN Tail(inbox) : i + 1 \in DOMAIN inbox /\ Tail(inbox)[i] = inbox[i + 1]
    BY <1>1
  <1>4. Of \in Worker
    BY <1>2 DEF Of, SignalType
  <1> QED BY <1>1, <1>2, <1>3, <1>4 DEF WorkersInv, Of

\* A signal is queued by a worker that was started.
LEMMA PostedSignal ==
  ASSUME DesktopTypeOK, WorkersInv, NEW w \in Worker, phase[w] # "none",
         NEW what \in Results \cup {"progress", "finished"}, Post(w, what)
  PROVE  /\ inbox' \in Seq(SignalType)
         /\ \A i \in DOMAIN inbox' : phase[inbox'[i].of] # "none"
  <1> DEFINE s == [of |-> w, what |-> what]
  <1>1. s \in SignalType /\ s.of = w
    BY DEF SignalType
  <1>2. inbox \in Seq(SignalType) /\ inbox' = Append(inbox, s)
    BY DEF DesktopTypeOK, Post, SignalType
  <1>3. \A i \in DOMAIN inbox' : inbox'[i] = s \/ (i \in DOMAIN inbox /\ inbox'[i] = inbox[i])
    BY <1>1, <1>2
  <1>4. inbox' \in Seq(SignalType)
    BY <1>1, <1>2
  <1> HIDE DEF s
  <1> QED BY <1>1, <1>3, <1>4 DEF WorkersInv

\* A worker that moves on from a phase it has reached.
LEMMA WorkersMove ==
  ASSUME DesktopTypeOK, WorkersInv, NEW w \in Worker, phase[w] # "none",
         NEW to, to # "none", phase' = [phase EXCEPT ![w] = to],
         inbox' \in Seq(SignalType), \A i \in DOMAIN inbox' : phase[inbox'[i].of] # "none",
         \A v \in Worker : v # w => outcome'[v] = outcome[v],
         outcome'[w] \in Results => to \notin {"none", "started", "running", "halfway"}
  PROVE  WorkersInv'
  <1>1. \A v \in Worker : phase'[v] = IF v = w THEN to ELSE phase[v]
    BY DEF DesktopTypeOK
  <1>2. {v \in Worker : phase'[v] # "none"} = {v \in Worker : phase[v] # "none"}
    BY <1>1
  <1>3. \A i \in DOMAIN inbox' : phase'[inbox'[i].of] # "none"
    <2>1. \A i \in DOMAIN inbox' : inbox'[i] \in SignalType
      OBVIOUS
    <2>2. \A i \in DOMAIN inbox' : inbox'[i].of \in Worker
      BY <2>1 DEF SignalType
    <2> QED BY <1>1, <2>2
  <1>4. \A v \in Worker : outcome'[v] \in Results => phase'[v] \notin {"none", "started", "running", "halfway"}
    BY <1>1 DEF WorkersInv
  <1> QED BY <1>2, <1>3, <1>4 DEF WorkersInv

\* Steps that change neither a worker, nor the queue, nor what the lane refers to.
LEMMA LaneStands ==
  ASSUME DesktopInv, plans' \cup ready' \subseteq {"copy", "quarantine"},
         cancel' \subseteq Worker, shown'[2] \notin Results,
         UNCHANGED <<lane, phase, way, outcome, cur, operation, off, inbox, overtaken, failed>>
  PROVE  DesktopInv'
  <1>1. DesktopTypeOK'
    BY DEF DesktopInv, DesktopTypeOK, Ways
  <1>2. WorkersInv'
    BY DEF DesktopInv, WorkersInv
  <1>3. (Sole => overtaken = FALSE)'
    BY DEF DesktopInv, Sole, Ways
  <1>4. (overtaken = FALSE => LaneInv)'
    BY DEF DesktopInv, LaneInv, OthersRest, Queued, ShownIsTrue, Sole, Ways
  <1> QED BY <1>1, <1>2, <1>3, <1>4 DEF DesktopInv

LEMMA StartStep ==
  ASSUME DesktopInv, NEW k \in Ways, Start(k),
         plans' \cup ready' \subseteq {"copy", "quarantine"}, operation' \in Ways \cup {"none"},
         lane = "operation" => operation' = k
  PROVE  DesktopInv'
  <1> USE DesktopConstants
  <1>0. DesktopTypeOK /\ WorkersInv
    BY DEF DesktopInv
  <1>1. PICK j \in 0..MaxStarts : {w \in Worker : phase[w] # "none"} = 1..j
    BY <1>0 DEF WorkersInv
  <1> DEFINE n == Cardinality({w \in Worker : phase[w] # "none"}) + 1
  <1>2. n = j + 1
    <2>1. j \in Int /\ 1 \in Int
      OBVIOUS
    <2>2. Cardinality(1..j) = IF 1 > j THEN 0 ELSE j - 1 + 1
      BY <2>1, FS_Interval
    <2>3. Cardinality(1..j) = j
      BY <2>1, <2>2
    <2> QED BY <1>1, <2>3
  <1>3. /\ n \in Worker /\ ~off /\ ~Busy /\ phase' = [phase EXCEPT ![n] = "started"]
        /\ way' = [way EXCEPT ![n] = k] /\ cur' = n /\ off' = Sole
        /\ shown' = <<k, "running">> /\ UNCHANGED <<lane, outcome, cancel, inbox, failed>>
    BY DEF Start
  <1>o. overtaken' = (cur # 0 \/ (overtaken /\ ~AtRest))
    BY Zenon DEF Start
  <1> HIDE DEF n
  <1>4. phase[n] = "none"
    BY <1>1, <1>2, <1>3 DEF Worker
  <1>5. \A w \in Worker : /\ phase'[w] = IF w = n THEN "started" ELSE phase[w]
                          /\ way'[w] = IF w = n THEN k ELSE way[w]
    BY <1>0, <1>3 DEF DesktopTypeOK
  <1>6. Ways' = Ways /\ Sole' = Sole
    BY <1>3 DEF Ways, Sole
  <1>7. DesktopTypeOK'
    <2>1. /\ phase' \in [Worker -> {"none", "started", "running", "halfway", "done", "leaving",
                                    "over", "deleted", "lost"}]
          /\ way' \in [Worker -> Ways \cup {"none"}]
      BY <1>0, <1>3 DEF DesktopTypeOK
    <2>2. off' \in BOOLEAN /\ overtaken' \in BOOLEAN
      BY <1>3, <1>o DEF Sole
    <2> QED BY <2>1, <2>2, <1>0, <1>3, <1>6 DEF DesktopTypeOK
  <1>8. WorkersInv'
    <2>1. {w \in Worker : phase'[w] # "none"} = 1..n
      BY <1>1, <1>2, <1>3, <1>5 DEF Worker
    <2>2. n \in 0..MaxStarts
      BY <1>3 DEF Worker
    <2>3. \A w \in Worker : outcome'[w] \in Results => phase'[w] \notin {"none", "started", "running", "halfway"}
      BY <1>0, <1>3, <1>4, <1>5 DEF WorkersInv
    <2>4. \A i \in DOMAIN inbox : inbox[i].of \in Worker
      <3>0. inbox \in Seq(SignalType)
        BY <1>0 DEF DesktopTypeOK, SignalType
      <3>1. \A i \in DOMAIN inbox : inbox[i] \in SignalType
        BY <3>0
      <3> QED BY <3>1 DEF SignalType
    <2>5. \A i \in DOMAIN inbox' : phase'[inbox'[i].of] # "none"
      BY <2>4, <1>0, <1>3, <1>5 DEF WorkersInv
    <2> QED BY <2>1, <2>2, <2>3, <2>5 DEF WorkersInv
  <1>9. overtaken = FALSE /\ Sole => cur = 0
    BY <1>3 DEF DesktopInv, LaneInv, Busy, Queued
  <1>10. (Sole => overtaken = FALSE)'
    BY <1>3, <1>6, <1>9, <1>o DEF DesktopInv
  <1>11. ASSUME overtaken' = FALSE
         PROVE  LaneInv'
    <2>1. cur = 0 /\ inbox = <<>> /\ \A w \in Worker : phase[w] \in {"none", "over", "deleted", "lost"}
      <3>1. cur = 0 /\ (overtaken = FALSE \/ AtRest)
        BY <1>0, <1>o, <1>11 DEF DesktopTypeOK
      <3>2. CASE overtaken = FALSE
        BY <3>1, <3>2 DEF DesktopInv, LaneInv, OthersRest, Worker
      <3>3. CASE AtRest
        <4>1. inbox = <<>> /\ Alive = {}
          BY <3>3 DEF AtRest
        <4>2. \A w \in Worker : phase[w] \notin {"started", "running", "halfway", "done", "leaving"}
          BY <4>1 DEF Alive
        <4> QED BY <3>1, <4>1, <4>2, <1>0 DEF DesktopTypeOK
      <3> QED BY <3>1, <3>2, <3>3
    <2>2. OthersRest'
      BY <2>1, <1>3, <1>5 DEF OthersRest
    <2>3. ShownIsTrue'
      BY <1>3 DEF ShownIsTrue, Results
    <2>4. Queued'
      BY <2>1, <1>3, <1>5 DEF Queued
    <2>5. cur' # 0
      BY <1>3 DEF Worker
    <2>6. way'[cur'] \in Ways' /\ (Sole' => off' = TRUE) /\ phase'[cur'] = "started"
      BY <1>3, <1>5, <1>6
    <2> QED BY <1>3, <1>5, <2>2, <2>3, <2>4, <2>5, <2>6 DEF LaneInv
  <1> QED BY <1>7, <1>8, <1>10, <1>11 DEF DesktopInv

\* A worker at work is the one the lane refers to.
LEMMA AtWork ==
  ASSUME LaneInv, NEW w \in Worker,
         phase[w] \in {"started", "running", "halfway", "done", "leaving"}
  PROVE  w = cur /\ cur # 0
  BY DesktopConstants DEF LaneInv, OthersRest, Worker

LEMMA BeginStep ==
  ASSUME DesktopInv, NEW w \in Worker, Begin(w)
  PROVE  DesktopInv'
  <1>0. DesktopTypeOK /\ WorkersInv
    BY DEF DesktopInv
  <1>1. /\ phase[w] = "started" /\ phase' = [phase EXCEPT ![w] = "running"]
        /\ UNCHANGED <<lane, plans, ready, way, outcome, cancel, cur, operation, off, inbox, shown, overtaken, failed>>
    BY DEF Begin
  <1>2. \A v \in Worker : phase'[v] = IF v = w THEN "running" ELSE phase[v]
    BY <1>0, <1>1 DEF DesktopTypeOK
  <1>3. Ways' = Ways /\ Sole' = Sole
    BY <1>1 DEF Ways, Sole
  <1>4. DesktopTypeOK'
    BY <1>0, <1>1, <1>3 DEF DesktopTypeOK
  <1>5. WorkersInv'
    <2>1. outcome[w] \notin Results
      BY <1>0, <1>1 DEF WorkersInv
    <2>2. inbox \in Seq(SignalType)
      BY <1>0 DEF DesktopTypeOK, SignalType
    <2> QED BY <2>1, <2>2, <1>0, <1>1, WorkersMove DEF WorkersInv
  <1>6. ASSUME overtaken' = FALSE
        PROVE  LaneInv'
    <2>1. LaneInv /\ overtaken = FALSE
      BY <1>1, <1>6 DEF DesktopInv
    <2>2. w = cur /\ cur # 0
      BY <1>1, <2>1, AtWork
    <2>3. OthersRest' /\ ShownIsTrue'
      BY <2>1, <2>2, <1>1, <1>2 DEF LaneInv, OthersRest, ShownIsTrue
    <2>4. Queued'
      BY <2>1, <2>2, <1>1, <1>2 DEF LaneInv, Queued
    <2> QED BY <2>1, <2>2, <2>3, <2>4, <1>1, <1>2, <1>3 DEF LaneInv
  <1> QED BY <1>1, <1>3, <1>4, <1>5, <1>6 DEF DesktopInv

LEMMA ProgressStep ==
  ASSUME DesktopInv, NEW w \in Worker, Progress(w)
  PROVE  DesktopInv'
  <1>0. DesktopTypeOK /\ WorkersInv
    BY DEF DesktopInv
  <1>1. /\ phase[w] = "running" /\ phase' = [phase EXCEPT ![w] = "halfway"] /\ Post(w, "progress")
        /\ UNCHANGED <<lane, plans, ready, way, outcome, cancel, cur, operation, off, shown, overtaken, failed>>
    BY DEF Progress
  <1>2. \A v \in Worker : phase'[v] = IF v = w THEN "halfway" ELSE phase[v]
    BY <1>0, <1>1 DEF DesktopTypeOK
  <1>3. Ways' = Ways /\ Sole' = Sole
    BY <1>1 DEF Ways, Sole
  <1>4. inbox' \in Seq(SignalType) /\ \A i \in DOMAIN inbox' : phase[inbox'[i].of] # "none"
    BY <1>0, <1>1, PostedSignal
  <1>5. DesktopTypeOK'
    BY <1>0, <1>1, <1>3, <1>4 DEF DesktopTypeOK, SignalType
  <1>6. WorkersInv'
    <2>1. outcome[w] \notin Results
      BY <1>0, <1>1 DEF WorkersInv
    <2> QED BY <2>1, <1>0, <1>1, <1>4, WorkersMove
  <1>7. ASSUME overtaken' = FALSE
        PROVE  LaneInv'
    <2>1. LaneInv /\ overtaken = FALSE
      BY <1>1, <1>7 DEF DesktopInv
    <2>2. w = cur /\ cur # 0
      BY <1>1, <2>1, AtWork
    <2>3. OthersRest' /\ ShownIsTrue'
      BY <2>1, <2>2, <1>1, <1>2 DEF LaneInv, OthersRest, ShownIsTrue
    <2>4. inbox' = <<Signal(cur, "progress")>>
      BY <2>1, <2>2, <1>1, ShortQueues DEF LaneInv, Queued, Post, Signal
    <2>5. Queued'
      BY <2>2, <2>4, <1>1, <1>2 DEF Queued, Signal
    <2> QED BY <2>1, <2>2, <2>3, <2>5, <1>1, <1>2, <1>3 DEF LaneInv
  <1> QED BY <1>1, <1>3, <1>5, <1>6, <1>7 DEF DesktopInv

LEMMA EmitStep ==
  ASSUME DesktopInv, NEW w \in Worker, NEW results \in SUBSET Results, Emit(w, results)
  PROVE  DesktopInv'
  <1>0. DesktopTypeOK /\ WorkersInv
    BY DEF DesktopInv
  <1>1. PICK r \in results :
          /\ phase[w] \in {"running", "halfway"} /\ phase' = [phase EXCEPT ![w] = "done"]
          /\ outcome' = [outcome EXCEPT ![w] = r] /\ Post(w, r)
          /\ UNCHANGED <<lane, plans, ready, way, cancel, cur, operation, off, shown, overtaken, failed>>
    BY DEF Emit
  <1>2. \A v \in Worker : /\ phase'[v] = IF v = w THEN "done" ELSE phase[v]
                          /\ outcome'[v] = IF v = w THEN r ELSE outcome[v]
    BY <1>0, <1>1 DEF DesktopTypeOK
  <1>3. Ways' = Ways /\ Sole' = Sole
    BY <1>1 DEF Ways, Sole
  <1>4. inbox' \in Seq(SignalType) /\ \A i \in DOMAIN inbox' : phase[inbox'[i].of] # "none"
    BY <1>0, <1>1, PostedSignal
  <1>5. DesktopTypeOK'
    BY <1>0, <1>1, <1>3, <1>4 DEF DesktopTypeOK, SignalType
  <1>6. WorkersInv'
    <2>1. "done" \notin {"none", "started", "running", "halfway"} /\ phase[w] # "none"
      BY <1>1
    <2> QED BY <2>1, <1>0, <1>1, <1>2, <1>4, WorkersMove
  <1>7. ASSUME overtaken' = FALSE
        PROVE  LaneInv'
    <2>1. LaneInv /\ overtaken = FALSE
      BY <1>1, <1>7 DEF DesktopInv
    <2>2. w = cur /\ cur # 0
      BY <1>1, <2>1, AtWork
    <2>3. OthersRest'
      BY <2>1, <2>2, <1>1, <1>2 DEF LaneInv, OthersRest
    <2>4. ShownIsTrue'
      <3>1. outcome[w] \notin Results
        BY <1>0, <1>1 DEF WorkersInv
      <3> QED BY <2>1, <3>1, <1>1, <1>2 DEF LaneInv, ShownIsTrue
    <2>5. inbox' \in {<<Signal(cur, r)>>, <<Signal(cur, "progress"), Signal(cur, r)>>}
      <3>1. inbox \in {<<>>, <<Signal(cur, "progress")>>}
        BY <2>1, <2>2, <1>1 DEF LaneInv, Queued
      <3>2. inbox' = Append(inbox, Signal(cur, r))
        BY <2>2, <1>1 DEF Post, Signal
      <3> QED BY <3>1, <3>2, ShortQueues
    <2>6. Queued'
      BY <2>2, <2>5, <1>1, <1>2 DEF Queued, Signal
    <2> QED BY <2>1, <2>2, <2>3, <2>4, <2>6, <1>1, <1>2, <1>3 DEF LaneInv
  <1> QED BY <1>1, <1>3, <1>5, <1>6, <1>7 DEF DesktopInv

LEMMA ThreadEndsStep ==
  ASSUME DesktopInv, NEW w \in Worker, ThreadEnds(w)
  PROVE  DesktopInv'
  <1>0. DesktopTypeOK /\ WorkersInv
    BY DEF DesktopInv
  <1>1. /\ phase[w] = "leaving" /\ phase' = [phase EXCEPT ![w] = "over"] /\ Post(w, "finished")
        /\ UNCHANGED <<lane, plans, ready, way, outcome, cancel, cur, operation, off, shown, overtaken, failed>>
    BY DEF ThreadEnds
  <1>2. \A v \in Worker : phase'[v] = IF v = w THEN "over" ELSE phase[v]
    BY <1>0, <1>1 DEF DesktopTypeOK
  <1>3. Ways' = Ways /\ Sole' = Sole
    BY <1>1 DEF Ways, Sole
  <1>4. inbox' \in Seq(SignalType) /\ \A i \in DOMAIN inbox' : phase[inbox'[i].of] # "none"
    BY <1>0, <1>1, PostedSignal
  <1>5. DesktopTypeOK'
    BY <1>0, <1>1, <1>3, <1>4 DEF DesktopTypeOK, SignalType
  <1>6. WorkersInv'
    <2>1. "over" \notin {"none", "started", "running", "halfway"} /\ phase[w] # "none"
      BY <1>1
    <2> QED BY <2>1, <1>0, <1>1, <1>4, WorkersMove
  <1>7. ASSUME overtaken' = FALSE
        PROVE  LaneInv'
    <2>1. LaneInv /\ overtaken = FALSE
      BY <1>1, <1>7 DEF DesktopInv
    <2>2. w = cur /\ cur # 0
      BY <1>1, <2>1, AtWork
    <2>3. OthersRest' /\ ShownIsTrue'
      BY <2>1, <2>2, <1>1, <1>2 DEF LaneInv, OthersRest, ShownIsTrue
    <2>4. inbox' = <<Signal(cur, "finished")>>
      BY <2>1, <2>2, <1>1, ShortQueues DEF LaneInv, Queued, Post, Signal
    <2>5. Queued'
      BY <2>2, <2>4, <1>1, <1>2 DEF Queued, Signal
    <2> QED BY <2>1, <2>2, <2>3, <2>5, <1>1, <1>2, <1>3 DEF LaneInv
  <1> QED BY <1>1, <1>3, <1>5, <1>6, <1>7 DEF DesktopInv

\* A signal whose handler runs while no click has overtaken: it is the last one
\* of its worker, or a progress that leaves at most the result behind.
LEMMA SignalOfCurrent ==
  ASSUME LaneInv, inbox # <<>>
  PROVE  /\ cur # 0 /\ Head(inbox).of = cur
         /\ Head(inbox).what \in Results => /\ phase[cur] = "done" /\ Tail(inbox) = <<>>
                                            /\ Head(inbox).what = outcome[cur]
         /\ Head(inbox).what = "finished" => phase[cur] = "over" /\ Tail(inbox) = <<>>
         /\ Head(inbox).what = "progress" =>
              \/ phase[cur] = "halfway" /\ Tail(inbox) = <<>>
              \/ phase[cur] = "done" /\ Tail(inbox) = <<Signal(cur, outcome[cur])>>
  <1>1. cur # 0 /\ Queued
    BY DEF LaneInv
  <1>2. phase[cur] \in {"halfway", "done", "over"}
    BY <1>1 DEF Queued
  <1>3. CASE phase[cur] = "halfway"
    <2>1. inbox = <<Signal(cur, "progress")>>
      BY <1>1, <1>3 DEF Queued
    <2>2. Head(inbox) = Signal(cur, "progress") /\ Tail(inbox) = <<>>
      BY <2>1, ShortQueues
    <2> QED BY <1>1, <1>3, <2>2 DEF Signal, Results
  <1>4. CASE phase[cur] = "done"
    <2>1. outcome[cur] \in Results /\ outcome[cur] \notin {"progress", "finished"}
      BY <1>1, <1>4 DEF Queued, Results
    <2>2. CASE inbox = <<Signal(cur, outcome[cur])>>
      <3>1. Head(inbox) = Signal(cur, outcome[cur]) /\ Tail(inbox) = <<>>
        BY <2>2, ShortQueues
      <3> QED BY <1>1, <1>4, <2>1, <3>1 DEF Signal
    <2>3. CASE inbox = <<Signal(cur, "progress"), Signal(cur, outcome[cur])>>
      <3>1. Head(inbox) = Signal(cur, "progress") /\ Tail(inbox) = <<Signal(cur, outcome[cur])>>
        BY <2>3, ShortQueues
      <3> QED BY <1>1, <1>4, <3>1 DEF Signal, Results
    <2> QED BY <1>1, <1>4, <2>2, <2>3 DEF Queued
  <1>5. CASE phase[cur] = "over"
    <2>1. inbox = <<Signal(cur, "finished")>>
      BY <1>1, <1>5 DEF Queued
    <2>2. Head(inbox) = Signal(cur, "finished") /\ Tail(inbox) = <<>>
      BY <2>1, ShortQueues
    <2> QED BY <1>1, <1>5, <2>2 DEF Signal, Results
  <1> QED BY <1>2, <1>3, <1>4, <1>5

LEMMA ShowResultStep ==
  ASSUME DesktopInv, NEW l, NEW label, ShowResult(l, label),
         LaneInv => label = way[cur]
  PROVE  DesktopInv'
  <1>0. DesktopTypeOK /\ WorkersInv
    BY DEF DesktopInv
  <1>1. /\ lane = l /\ Handles(Results) /\ shown' = <<label, Head(inbox).what>>
        /\ phase' = [phase EXCEPT ![Of] = "leaving"]
        /\ UNCHANGED <<lane, plans, ready, way, outcome, cancel, cur, operation, off, overtaken, failed>>
    BY DEF ShowResult
  <1>2. /\ Of \in Worker /\ phase[Of] # "none" /\ inbox' \in Seq(SignalType)
        /\ \A i \in DOMAIN inbox' : phase[inbox'[i].of] # "none"
    BY <1>0, <1>1, FirstSignal
  <1>3. \A v \in Worker : phase'[v] = IF v = Of THEN "leaving" ELSE phase[v]
    BY <1>0, <1>1 DEF DesktopTypeOK
  <1>4. Ways' = Ways /\ Sole' = Sole
    BY <1>1 DEF Ways, Sole
  <1>5. DesktopTypeOK'
    BY <1>0, <1>1, <1>2, <1>4 DEF DesktopTypeOK, SignalType
  <1>6. WorkersInv'
    <2>1. "leaving" \notin {"none", "started", "running", "halfway"} /\ "leaving" # "none"
      OBVIOUS
    <2> QED BY <2>1, <1>0, <1>1, <1>2, WorkersMove
  <1>7. ASSUME overtaken' = FALSE
        PROVE  LaneInv'
    <2>1. LaneInv /\ overtaken = FALSE
      BY <1>1, <1>7 DEF DesktopInv
    <2>2. inbox # <<>> /\ Head(inbox).what \in Results /\ inbox' = Tail(inbox)
      BY <1>1 DEF Handles
    <2>3. cur # 0 /\ Of = cur /\ phase[cur] = "done" /\ inbox' = <<>> /\ Head(inbox).what = outcome[cur]
      BY <2>1, <2>2, SignalOfCurrent DEF Of
    <2>4. OthersRest'
      BY <2>1, <2>3, <1>1, <1>3 DEF LaneInv, OthersRest
    <2>5. ShownIsTrue'
      BY <2>1, <2>3, <1>1, <1>2 DEF ShownIsTrue
    <2>6. Queued'
      BY <2>3, <1>1, <1>2, <1>3 DEF Queued
    <2> QED BY <2>1, <2>3, <2>4, <2>5, <2>6, <1>1, <1>2, <1>3, <1>4 DEF LaneInv
  <1> QED BY <1>1, <1>4, <1>5, <1>6, <1>7 DEF DesktopInv

LEMMA ShowProgressStep ==
  ASSUME DesktopInv, NEW l, ShowProgress(l)
  PROVE  DesktopInv'
  <1>0. DesktopTypeOK /\ WorkersInv
    BY DEF DesktopInv
  <1>1. /\ Handles({"progress"}) /\ shown' = <<lane, "progress">>
        /\ UNCHANGED <<lane, plans, ready, phase, way, outcome, cancel, cur, operation, off, overtaken, failed>>
    BY DEF ShowProgress
  <1>2. inbox' \in Seq(SignalType) /\ \A i \in DOMAIN inbox' : phase[inbox'[i].of] # "none"
    BY <1>0, <1>1, FirstSignal
  <1>3. Ways' = Ways /\ Sole' = Sole
    BY <1>1 DEF Ways, Sole
  <1>4. DesktopTypeOK'
    BY <1>0, <1>1, <1>2, <1>3 DEF DesktopTypeOK, SignalType
  <1>5. WorkersInv'
    BY <1>0, <1>1, <1>2 DEF WorkersInv
  <1>6. ASSUME overtaken' = FALSE
        PROVE  LaneInv'
    <2>1. LaneInv /\ overtaken = FALSE
      BY <1>1, <1>6 DEF DesktopInv
    <2>2. inbox # <<>> /\ Head(inbox).what = "progress" /\ inbox' = Tail(inbox)
      BY <1>1 DEF Handles
    <2>3. /\ cur # 0
          /\ \/ phase[cur] = "halfway" /\ inbox' = <<>>
             \/ phase[cur] = "done" /\ inbox' = <<Signal(cur, outcome[cur])>>
      BY <2>1, <2>2, SignalOfCurrent
    <2>4. OthersRest' /\ ShownIsTrue'
      BY <2>1, <1>1 DEF LaneInv, OthersRest, ShownIsTrue, Results
    <2>5. Queued'
      BY <2>1, <2>3, <1>1 DEF LaneInv, Queued, Signal
    <2> QED BY <2>1, <2>3, <2>4, <2>5, <1>1, <1>3 DEF LaneInv
  <1> QED BY <1>1, <1>3, <1>4, <1>5, <1>6 DEF DesktopInv

LEMMA ForgetStep ==
  ASSUME DesktopInv, Forget
  PROVE  DesktopInv'
  <1>0. DesktopTypeOK /\ WorkersInv
    BY DEF DesktopInv
  <1>1. /\ Handles({"finished"}) /\ off' = FALSE /\ cur' = 0 /\ operation' = "none"
        /\ phase' = IF cur # 0 /\ phase[cur] = "started" THEN [phase EXCEPT ![cur] = "lost"] ELSE phase
        /\ UNCHANGED <<lane, plans, ready, way, outcome, cancel, shown, overtaken, failed>>
    BY DEF Forget
  <1>2. inbox' \in Seq(SignalType) /\ \A i \in DOMAIN inbox' : phase[inbox'[i].of] # "none"
    BY <1>0, <1>1, FirstSignal
  <1>3. Ways' = Ways /\ Sole' = Sole
    BY <1>1 DEF Ways, Sole
  <1>4. DesktopTypeOK'
    <2>1. cur # 0 => cur \in Worker
      BY <1>0 DEF DesktopTypeOK
    <2>2. phase' \in [Worker -> {"none", "started", "running", "halfway", "done", "leaving",
                                 "over", "deleted", "lost"}]
      BY <2>1, <1>0, <1>1 DEF DesktopTypeOK
    <2> QED BY <2>2, <1>0, <1>1, <1>2, <1>3 DEF DesktopTypeOK, SignalType
  <1>5. WorkersInv'
    <2>1. CASE cur # 0 /\ phase[cur] = "started"
      <3>1. cur \in Worker /\ phase' = [phase EXCEPT ![cur] = "lost"]
        BY <1>0, <1>1, <2>1 DEF DesktopTypeOK
      <3>2. "lost" \notin {"none", "started", "running", "halfway"} /\ "lost" # "none" /\ phase[cur] # "none"
        BY <2>1
      <3> QED BY <3>1, <3>2, <1>0, <1>1, <1>2, WorkersMove
    <2>2. CASE phase' = phase
      BY <2>2, <1>0, <1>1, <1>2 DEF WorkersInv
    <2> QED BY <1>1, <2>1, <2>2
  <1>6. ASSUME overtaken' = FALSE
        PROVE  LaneInv'
    <2>1. LaneInv /\ overtaken = FALSE
      BY <1>1, <1>6 DEF DesktopInv
    <2>2. inbox # <<>> /\ Head(inbox).what = "finished" /\ inbox' = Tail(inbox)
      BY <1>1 DEF Handles
    <2>3. cur # 0 /\ phase[cur] = "over" /\ inbox' = <<>>
      BY <2>1, <2>2, SignalOfCurrent
    <2>4. OthersRest' /\ ShownIsTrue'
      BY <2>1, <2>3, <1>1 DEF LaneInv, OthersRest, ShownIsTrue
    <2> QED BY <2>3, <2>4, <1>1 DEF LaneInv
  <1>7. (Sole => overtaken = FALSE)'
    BY <1>1, <1>3 DEF DesktopInv
  <1> QED BY <1>4, <1>5, <1>6, <1>7 DEF DesktopInv

LEMMA RefreshFailsStep ==
  ASSUME DesktopInv, NEW l, RefreshFails(l)
  PROVE  DesktopInv'
  <1>0. DesktopTypeOK /\ WorkersInv
    BY DEF DesktopInv
  <1>1. /\ Handles({"finished"}) /\ off' = FALSE /\ failed' = TRUE
        /\ phase' = [phase EXCEPT ![Of] = "deleted"]
        /\ UNCHANGED <<lane, plans, ready, way, outcome, cancel, cur, operation, shown, overtaken>>
    BY DEF RefreshFails
  <1>2. /\ Of \in Worker /\ phase[Of] # "none" /\ inbox' \in Seq(SignalType)
        /\ \A i \in DOMAIN inbox' : phase[inbox'[i].of] # "none"
    BY <1>0, <1>1, FirstSignal
  <1>3. \A v \in Worker : phase'[v] = IF v = Of THEN "deleted" ELSE phase[v]
    BY <1>0, <1>1 DEF DesktopTypeOK
  <1>4. Ways' = Ways /\ Sole' = Sole
    BY <1>1 DEF Ways, Sole
  <1>5. DesktopTypeOK'
    BY <1>0, <1>1, <1>2, <1>4 DEF DesktopTypeOK, SignalType
  <1>6. WorkersInv'
    <2>1. "deleted" \notin {"none", "started", "running", "halfway"} /\ "deleted" # "none"
      OBVIOUS
    <2> QED BY <2>1, <1>0, <1>1, <1>2, WorkersMove
  <1>7. ASSUME overtaken' = FALSE
        PROVE  LaneInv'
    <2>1. LaneInv /\ overtaken = FALSE
      BY <1>1, <1>7 DEF DesktopInv
    <2>2. inbox # <<>> /\ Head(inbox).what = "finished" /\ inbox' = Tail(inbox)
      BY <1>1 DEF Handles
    <2>3. cur # 0 /\ Of = cur /\ phase[cur] = "over" /\ inbox' = <<>>
      BY <2>1, <2>2, SignalOfCurrent DEF Of
    <2>4. OthersRest' /\ ShownIsTrue'
      BY <2>1, <2>3, <1>1, <1>3 DEF LaneInv, OthersRest, ShownIsTrue
    <2>5. Queued'
      BY <2>3, <1>1, <1>2, <1>3 DEF Queued
    <2> QED BY <2>1, <2>3, <2>4, <2>5, <1>1, <1>2, <1>3, <1>4 DEF LaneInv
  <1> QED BY <1>1, <1>4, <1>5, <1>6, <1>7 DEF DesktopInv

LEMMA DesktopInitInv == DesktopInit => DesktopInv
  <1> SUFFICES ASSUME DesktopInit
               PROVE  DesktopInv
    OBVIOUS
  <1> USE DesktopConstants DEF DesktopInit
  <1>1. DesktopTypeOK
    <2>1. inbox \in Seq(SignalType)
      OBVIOUS
    <2> QED BY <2>1 DEF DesktopTypeOK, SignalType
  <1>2. WorkersInv
    <2>1. {w \in Worker : phase[w] # "none"} = 1..0 /\ 0 \in 0..MaxStarts
      OBVIOUS
    <2>2. \A w \in Worker : outcome[w] \notin Results
      BY DEF Results
    <2> QED BY <2>1, <2>2 DEF WorkersInv
  <1>3. LaneInv
    BY DEF LaneInv, OthersRest, ShownIsTrue, Results
  <1> QED BY <1>1, <1>2, <1>3 DEF DesktopInv

\* A click, and what a worker or the window does next.
LEMMA DesktopClicks ==
  ASSUME DesktopInv,
    \/ Scan \/ DiscoverAndroid \/ DiscoverCompanion \/ StartThumbnails \/ StartCategories
    \/ \E k \in Ways : StartRecovery(k) \/ RecoveryRefused(k) \/ BuildPlan(k) \/ StartOperation(k)
    \/ CancelThumbnails \/ CancelCategories
  PROVE  DesktopInv'
  <1>0. DesktopTypeOK
    BY DEF DesktopInv
  <1>1. CASE Scan \/ DiscoverAndroid \/ DiscoverCompanion \/ StartThumbnails \/ StartCategories
    <2>1. PICK k \in {"scan", "discovery", "companion", "thumbnails", "categories"} :
            lane = k /\ Start(k) /\ UNCHANGED <<plans, ready, operation>>
      BY <1>1 DEF Scan, DiscoverAndroid, DiscoverCompanion, StartThumbnails, StartCategories
    <2>2. k \in Ways
      BY <2>1, LaneWays
    <2> QED BY <1>0, <2>1, <2>2, StartStep DEF DesktopTypeOK
  <1>2. ASSUME NEW k \in Ways, StartRecovery(k)
        PROVE  DesktopInv'
    <2>1. lane = "recovery" /\ Start(k) /\ UNCHANGED <<plans, ready, operation>>
      BY <1>2 DEF StartRecovery
    <2> QED BY <1>0, <2>1, StartStep DEF DesktopTypeOK
  <1>3. ASSUME NEW k \in Ways, RecoveryRefused(k)
        PROVE  DesktopInv'
    BY <1>0, <1>3, LaneStands DEF RecoveryRefused, DesktopTypeOK, Results
  <1>4. ASSUME NEW k \in Ways, BuildPlan(k)
        PROVE  DesktopInv'
    <2>1. plans' \cup ready' \subseteq {"copy", "quarantine"}
      BY <1>0, <1>4 DEF BuildPlan, DesktopTypeOK
    <2>2. cancel' \subseteq Worker /\ shown'[2] \notin Results
      BY <1>0, <1>4 DEF BuildPlan, DesktopTypeOK, Results
    <2> QED BY <2>1, <2>2, <1>4, LaneStands DEF BuildPlan
  <1>5. ASSUME NEW k \in Ways, StartOperation(k)
        PROVE  DesktopInv'
    <2>1. Start(k) /\ operation' = k /\ ready' = ready \ {k} /\ UNCHANGED plans
      BY <1>5 DEF StartOperation
    <2> QED BY <1>0, <2>1, StartStep DEF DesktopTypeOK
  <1>6. CASE CancelThumbnails \/ CancelCategories
    <2>1. CancelWork
      BY <1>6 DEF CancelThumbnails, CancelCategories
    <2> QED BY <1>0, <2>1, LaneStands DEF CancelWork, DesktopTypeOK, Results
  <1> QED BY <1>1, <1>2, <1>3, <1>4, <1>5, <1>6

LEMMA DesktopWorkers ==
  ASSUME DesktopInv, NEW w \in Worker,
    \/ Begin(w) \/ ThreadEnds(w)
    \/ ScanWorker(w) \/ DiscoveryWorker(w) \/ CompanionWorker(w) \/ RecoveryWorker(w)
    \/ OperationWorker(w) \/ ThumbnailWorker(w) \/ CategoryWorker(w)
  PROVE  DesktopInv'
  <1>1. ASSUME \/ ScanWorker(w) \/ DiscoveryWorker(w) \/ CompanionWorker(w) \/ RecoveryWorker(w)
               \/ OperationWorker(w)
        PROVE  DesktopInv'
    <2>1. Emit(w, {"completed", "failed"})
      BY <1>1 DEF ScanWorker, DiscoveryWorker, CompanionWorker, RecoveryWorker, OperationWorker
    <2>2. {"completed", "failed"} \in SUBSET Results
      BY DEF Results
    <2> QED BY <2>1, <2>2, EmitStep
  <1>2. ASSUME ThumbnailWorker(w)
        PROVE  DesktopInv'
    <2>1. (IF w \in cancel THEN {"cancelled", "failed"} ELSE {"completed", "failed"}) \in SUBSET Results
      BY DEF Results
    <2> QED BY <1>2, <2>1, EmitStep, ProgressStep DEF ThumbnailWorker
  <1>3. ASSUME CategoryWorker(w)
        PROVE  DesktopInv'
    <2>1. {"completed", "failed"} \cup (IF w \in cancel THEN {"cancelled"} ELSE {}) \in SUBSET Results
      BY DEF Results
    <2> QED BY <1>3, <2>1, EmitStep, ProgressStep DEF CategoryWorker
  <1> QED BY <1>1, <1>2, <1>3, BeginStep, ThreadEndsStep

LEMMA DesktopHandlers ==
  ASSUME DesktopInv,
    \/ ShowScan \/ ShowDevice \/ ShowCompanion \/ ShowThumbnails \/ ShowCategories
    \/ ShowRecovery \/ ShowOperation \/ ThumbnailProgress \/ CategoryProgress
    \/ ScanFinished \/ OperationFinished \/ DiscoveryFinished \/ CompanionFinished
    \/ ThumbnailsFinished \/ CategoriesFinished \/ RecoveryFinished
  PROVE  DesktopInv'
  <1>1. CASE ShowScan \/ ShowDevice \/ ShowCompanion \/ ShowThumbnails \/ ShowCategories
    <2>1. PICK k \in {"scan", "discovery", "companion", "thumbnails", "categories"} : ShowResult(k, k)
      BY <1>1 DEF ShowScan, ShowDevice, ShowCompanion, ShowThumbnails, ShowCategories
    <2>2. lane = k /\ inbox # <<>>
      BY <2>1 DEF ShowResult, Handles
    <2>3. LaneInv => k = way[cur]
      BY <2>2, LaneWays DEF LaneInv
    <2> QED BY <2>1, <2>3, ShowResultStep
  <1>2. CASE ShowRecovery
    <2>1. ShowResult("recovery", way[Of]) /\ inbox # <<>>
      BY <1>2 DEF ShowRecovery
    <2>2. LaneInv => way[Of] = way[cur]
      BY <2>1, SignalOfCurrent DEF Of
    <2> QED BY <2>1, <2>2, ShowResultStep
  <1>3. CASE ShowOperation
    <2>1. ShowResult("operation", IF operation = "none" THEN "undo" ELSE operation)
      BY <1>3 DEF ShowOperation
    <2>2. lane = "operation" /\ inbox # <<>>
      BY <2>1 DEF ShowResult, Handles
    <2>3. LaneInv => (IF operation = "none" THEN "undo" ELSE operation) = way[cur]
      BY <2>2, LaneWays DEF LaneInv
    <2> QED BY <2>1, <2>3, ShowResultStep
  <1>4. CASE ThumbnailProgress \/ CategoryProgress
    BY <1>4, ShowProgressStep DEF ThumbnailProgress, CategoryProgress
  <1>5. CASE \/ ScanFinished \/ OperationFinished \/ DiscoveryFinished \/ CompanionFinished
             \/ ThumbnailsFinished \/ CategoriesFinished \/ RecoveryFinished
    BY <1>5, ForgetStep, RefreshFailsStep
       DEF ScanFinished, OperationFinished, DiscoveryFinished, CompanionFinished,
           ThumbnailsFinished, CategoriesFinished, RecoveryFinished
  <1> QED BY <1>1, <1>2, <1>3, <1>4, <1>5

LEMMA DesktopStepInv == DesktopInv /\ [DesktopNext]_desktopVars => DesktopInv'
  <1> SUFFICES ASSUME DesktopInv, [DesktopNext]_desktopVars
               PROVE  DesktopInv'
    OBVIOUS
  <1>1. CASE UNCHANGED desktopVars
    BY <1>1 DEF desktopVars, DesktopInv, DesktopTypeOK, WorkersInv, LaneInv, OthersRest, Queued,
                ShownIsTrue, Sole, Ways
  <1>2. CASE DesktopNext
    <2>1. CASE \/ Scan \/ DiscoverAndroid \/ DiscoverCompanion \/ StartThumbnails \/ StartCategories
               \/ \E k \in Ways : StartRecovery(k) \/ RecoveryRefused(k) \/ BuildPlan(k) \/ StartOperation(k)
               \/ CancelThumbnails \/ CancelCategories
      BY <2>1, DesktopClicks
    <2>2. ASSUME NEW w \in Worker,
                 \/ Begin(w) \/ ThreadEnds(w)
                 \/ ScanWorker(w) \/ DiscoveryWorker(w) \/ CompanionWorker(w) \/ RecoveryWorker(w)
                 \/ OperationWorker(w) \/ ThumbnailWorker(w) \/ CategoryWorker(w)
          PROVE  DesktopInv'
      BY <2>2, DesktopWorkers
    <2>3. CASE \/ ShowScan \/ ShowDevice \/ ShowCompanion \/ ShowThumbnails \/ ShowCategories
               \/ ShowRecovery \/ ShowOperation \/ ThumbnailProgress \/ CategoryProgress
               \/ ScanFinished \/ OperationFinished \/ DiscoveryFinished \/ CompanionFinished
               \/ ThumbnailsFinished \/ CategoriesFinished \/ RecoveryFinished
      BY <2>3, DesktopHandlers
    <2> QED BY <1>2, <2>1, <2>2, <2>3 DEF DesktopNext
  <1> QED BY <1>1, <1>2

\* What holds of a lane overtaken or not: what the window refers to is at work, has
\* ended and says so, or was deleted when refresh raised; and results are told as
\* they were.
Queue == {inbox[i] : i \in DOMAIN inbox}
AtWorkPhases == {"started", "running", "halfway", "done", "leaving"}

Referred ==
  cur # 0 => \/ phase[cur] \in AtWorkPhases
             \/ phase[cur] = "over" /\ Signal(cur, "finished") \in Queue
             \/ phase[cur] = "deleted" /\ failed = TRUE
ResultsAreTold == \A s \in Queue : s.what \in Results => outcome[s.of] = s.what

SurvivesInv ==
  /\ Referred /\ ResultsAreTold
  /\ ~Sole => off = FALSE
  /\ \A w \in Worker : phase[w] # "none" => way[w] \in Ways
  /\ lane # "operation" => ShownIsTrue

LEMMA QueueTyped == DesktopTypeOK => inbox \in Seq(SignalType) /\ Queue \subseteq SignalType
  <1>1. DesktopTypeOK => inbox \in Seq(SignalType)
    BY DEF DesktopTypeOK, SignalType
  <1>2. inbox \in Seq(SignalType) => \A i \in DOMAIN inbox : inbox[i] \in SignalType
    OBVIOUS
  <1> QED BY <1>1, <1>2 DEF Queue

LEMMA QueueGrows ==
  ASSUME DesktopTypeOK, NEW s \in SignalType, inbox' = Append(inbox, s)
  PROVE  Queue' = Queue \cup {s}
  <1>1. inbox \in Seq(SignalType)
    BY QueueTyped
  <1>2. /\ Len(inbox') = Len(inbox) + 1 /\ DOMAIN inbox' = 1..Len(inbox')
        /\ DOMAIN inbox = 1..Len(inbox) /\ Len(inbox) \in Nat
        /\ \A i \in 1..Len(inbox) : inbox'[i] = inbox[i]
        /\ inbox'[Len(inbox) + 1] = s
    BY <1>1
  <1>3. Queue' \subseteq Queue \cup {s}
    BY <1>2 DEF Queue
  <1>4. Queue \cup {s} \subseteq Queue'
    <2>1. \A i \in DOMAIN inbox : i \in DOMAIN inbox' /\ inbox'[i] = inbox[i]
      BY <1>2
    <2>2. Len(inbox) + 1 \in DOMAIN inbox'
      BY <1>2
    <2> QED BY <2>1, <2>2, <1>2 DEF Queue
  <1> QED BY <1>3, <1>4

LEMMA QueueShrinks ==
  ASSUME DesktopTypeOK, NEW what, Handles(what)
  PROVE  /\ Queue = Queue' \cup {Head(inbox)} /\ Head(inbox) \in SignalType
         /\ Head(inbox).what \in what /\ Head(inbox) = Signal(Of, Head(inbox).what) /\ Of \in Worker
  <1>1. inbox \in Seq(SignalType) /\ inbox # <<>> /\ inbox' = Tail(inbox) /\ Head(inbox).what \in what
    BY QueueTyped DEF Handles
  <1>2. /\ Len(inbox) \in Nat \ {0} /\ DOMAIN inbox = 1..Len(inbox) /\ Head(inbox) = inbox[1]
        /\ DOMAIN inbox' = 1..(Len(inbox) - 1)
        /\ \A i \in 1..(Len(inbox) - 1) : inbox'[i] = inbox[i + 1]
    BY <1>1
  <1>3. Queue' \cup {Head(inbox)} \subseteq Queue
    <2>1. 1 \in DOMAIN inbox
      BY <1>2
    <2>2. \A i \in DOMAIN inbox' : i + 1 \in DOMAIN inbox /\ inbox'[i] = inbox[i + 1]
      BY <1>2
    <2> QED BY <2>1, <2>2, <1>2 DEF Queue
  <1>4. ASSUME NEW i \in DOMAIN inbox
        PROVE  inbox[i] \in Queue' \cup {Head(inbox)}
    <2>1. CASE i = 1
      BY <2>1, <1>2
    <2>2. CASE i # 1
      <3>1. i - 1 \in DOMAIN inbox' /\ i - 1 \in 1..(Len(inbox) - 1) /\ (i - 1) + 1 = i
        BY <2>2, <1>2
      <3>2. inbox'[i - 1] = inbox[i]
        BY <3>1, <1>2
      <3> QED BY <3>1, <3>2 DEF Queue
    <2> QED BY <2>1, <2>2
  <1>5. Head(inbox) \in SignalType
    BY <1>1, <1>2
  <1>6. Head(inbox) = Signal(Of, Head(inbox).what) /\ Of \in Worker
    BY <1>5 DEF SignalType, Signal, Of
  <1> QED BY <1>1, <1>3, <1>4, <1>5, <1>6 DEF Queue

LEMMA SurvivesInit == DesktopInit => SurvivesInv
  <1> SUFFICES ASSUME DesktopInit
               PROVE  SurvivesInv
    OBVIOUS
  <1>1. inbox = <<>> /\ DOMAIN inbox = {}
    BY DEF DesktopInit
  <1>2. Queue = {}
    BY <1>1 DEF Queue
  <1> QED BY <1>2 DEF DesktopInit, SurvivesInv, Referred, ResultsAreTold, ShownIsTrue, Results

\* A worker's own step.
LEMMA SurvivesWorker ==
  ASSUME DesktopTypeOK, SurvivesInv, NEW w \in Worker, phase[w] # "none",
         NEW to, phase' = [phase EXCEPT ![w] = to],
         to \in AtWorkPhases \/ (to = "over" /\ Signal(w, "finished") \in Queue'),
         Queue \subseteq Queue',
         \A s \in Queue' \ Queue : s.what \in Results => outcome'[s.of] = s.what,
         \A v \in Worker : v # w => outcome'[v] = outcome[v],
         outcome'[w] = outcome[w] \/ outcome[w] \notin Results,
         UNCHANGED <<lane, way, cur, off, shown, failed>>
  PROVE  SurvivesInv'
  <1>1. \A v \in Worker : phase'[v] = IF v = w THEN to ELSE phase[v]
    BY DEF DesktopTypeOK
  <1>2. Ways' = Ways /\ Sole' = Sole
    BY DEF Ways, Sole
  <1>3. cur # 0 => cur \in Worker
    BY DEF DesktopTypeOK
  <1>4. Referred'
    BY <1>1, <1>3 DEF SurvivesInv, Referred, Signal, AtWorkPhases
  <1>5. ResultsAreTold'
    <2>1. ASSUME NEW s \in Queue, s.what \in Results
          PROVE  outcome'[s.of] = s.what
      <3>1. s.of \in Worker
        BY QueueTyped DEF SignalType
      <3>2. outcome[s.of] = s.what
        BY <2>1 DEF SurvivesInv, ResultsAreTold
      <3> QED BY <3>1, <3>2, <2>1
    <2> QED BY <2>1 DEF ResultsAreTold
  <1>6. ShownIsTrue => ShownIsTrue'
    BY DEF ShownIsTrue
  <1>7. \A v \in Worker : phase'[v] # "none" => way'[v] \in Ways'
    BY <1>1, <1>2 DEF SurvivesInv
  <1> QED BY <1>2, <1>4, <1>5, <1>6, <1>7 DEF SurvivesInv

LEMMA SurvivesWorkers ==
  ASSUME DesktopInv, SurvivesInv, NEW w \in Worker,
    \/ Begin(w) \/ ThreadEnds(w)
    \/ ScanWorker(w) \/ DiscoveryWorker(w) \/ CompanionWorker(w) \/ RecoveryWorker(w)
    \/ OperationWorker(w) \/ ThumbnailWorker(w) \/ CategoryWorker(w)
  PROVE  SurvivesInv'
  <1>0. DesktopTypeOK /\ WorkersInv
    BY DEF DesktopInv
  <1>1. CASE Begin(w)
    <2>1. Queue' = Queue
      BY <1>1 DEF Begin, Queue
    <2> QED BY <1>0, <1>1, <2>1, SurvivesWorker DEF Begin, AtWorkPhases
  <1>2. CASE ThreadEnds(w)
    <2>1. Signal(w, "finished") \in SignalType /\ inbox' = Append(inbox, Signal(w, "finished"))
      BY <1>2 DEF ThreadEnds, Post, Signal, SignalType
    <2>2. Queue' = Queue \cup {Signal(w, "finished")}
      BY <1>0, <2>1, QueueGrows
    <2>3. Signal(w, "finished").what \notin Results
      BY DEF Signal, Results
    <2> QED BY <1>0, <1>2, <2>2, <2>3, SurvivesWorker DEF ThreadEnds
  <1>3. ASSUME Progress(w)
        PROVE  SurvivesInv'
    <2>1. Signal(w, "progress") \in SignalType /\ inbox' = Append(inbox, Signal(w, "progress"))
      BY <1>3 DEF Progress, Post, Signal, SignalType
    <2>2. Queue' = Queue \cup {Signal(w, "progress")}
      BY <1>0, <2>1, QueueGrows
    <2>3. Signal(w, "progress").what \notin Results
      BY DEF Signal, Results
    <2> QED BY <1>0, <1>3, <2>2, <2>3, SurvivesWorker DEF Progress, AtWorkPhases
  <1>4. ASSUME NEW results \in SUBSET Results, Emit(w, results)
        PROVE  SurvivesInv'
    <2>1. PICK r \in results :
            /\ phase[w] \in {"running", "halfway"} /\ phase' = [phase EXCEPT ![w] = "done"]
            /\ outcome' = [outcome EXCEPT ![w] = r] /\ inbox' = Append(inbox, Signal(w, r))
            /\ UNCHANGED <<lane, way, cur, off, shown, failed>>
      BY <1>4 DEF Emit, Post, Signal
    <2>2. Signal(w, r) \in SignalType /\ Signal(w, r).of = w /\ Signal(w, r).what = r
      BY DEF Signal, SignalType
    <2>3. Queue' = Queue \cup {Signal(w, r)}
      BY <1>0, <2>1, <2>2, QueueGrows
    <2>4. outcome'[w] = r /\ \A v \in Worker : v # w => outcome'[v] = outcome[v]
      BY <1>0, <2>1 DEF DesktopTypeOK
    <2>5. outcome[w] \notin Results
      BY <1>0, <2>1 DEF WorkersInv
    <2>6. \A s \in Queue' \ Queue : s.what \in Results => outcome'[s.of] = s.what
      BY <2>2, <2>3, <2>4
    <2> QED BY <1>0, <2>1, <2>3, <2>4, <2>5, <2>6, SurvivesWorker DEF AtWorkPhases
  <1>5. CASE \/ ScanWorker(w) \/ DiscoveryWorker(w) \/ CompanionWorker(w) \/ RecoveryWorker(w)
             \/ OperationWorker(w)
    <2>1. Emit(w, {"completed", "failed"})
      BY <1>5 DEF ScanWorker, DiscoveryWorker, CompanionWorker, RecoveryWorker, OperationWorker
    <2>2. {"completed", "failed"} \in SUBSET Results
      BY DEF Results
    <2> QED BY <2>1, <2>2, <1>4
  <1>6. CASE ThumbnailWorker(w)
    <2>1. (IF w \in cancel THEN {"cancelled", "failed"} ELSE {"completed", "failed"}) \in SUBSET Results
      BY DEF Results
    <2> QED BY <1>6, <2>1, <1>3, <1>4 DEF ThumbnailWorker
  <1>7. CASE CategoryWorker(w)
    <2>1. {"completed", "failed"} \cup (IF w \in cancel THEN {"cancelled"} ELSE {}) \in SUBSET Results
      BY DEF Results
    <2> QED BY <1>7, <2>1, <1>3, <1>4 DEF CategoryWorker
  <1> QED BY <1>1, <1>2, <1>5, <1>6, <1>7

LEMMA SurvivesStart ==
  ASSUME DesktopInv, SurvivesInv, NEW k \in Ways, Start(k)
  PROVE  SurvivesInv'
  <1>0. DesktopTypeOK
    BY DEF DesktopInv
  <1> DEFINE n == Cardinality({w \in Worker : phase[w] # "none"}) + 1
  <1>1. /\ n \in Worker /\ phase' = [phase EXCEPT ![n] = "started"]
        /\ way' = [way EXCEPT ![n] = k] /\ cur' = n /\ off' = Sole
        /\ shown' = <<k, "running">> /\ UNCHANGED <<lane, outcome, inbox, failed>>
    BY DEF Start
  <1> HIDE DEF n
  <1>2. \A w \in Worker : /\ phase'[w] = IF w = n THEN "started" ELSE phase[w]
                          /\ way'[w] = IF w = n THEN k ELSE way[w]
    BY <1>0, <1>1 DEF DesktopTypeOK
  <1>3. Ways' = Ways /\ Sole' = Sole /\ Queue' = Queue
    BY <1>1 DEF Ways, Sole, Queue
  <1>4. Referred'
    BY <1>1, <1>2 DEF Referred, AtWorkPhases
  <1>5. ResultsAreTold'
    BY <1>1, <1>3 DEF SurvivesInv, ResultsAreTold
  <1>6. (~Sole => off = FALSE)'
    BY <1>1, <1>3 DEF Sole
  <1>7. \A w \in Worker : phase'[w] # "none" => way'[w] \in Ways'
    BY <1>2, <1>3 DEF SurvivesInv
  <1>8. ShownIsTrue'
    BY <1>1 DEF ShownIsTrue, Results
  <1> QED BY <1>4, <1>5, <1>6, <1>7, <1>8 DEF SurvivesInv

\* Clicks that start nothing.
LEMMA SurvivesStands ==
  ASSUME SurvivesInv, shown'[2] \notin Results,
         UNCHANGED <<lane, phase, way, outcome, cur, off, inbox, failed>>
  PROVE  SurvivesInv'
  BY DEF SurvivesInv, Referred, ResultsAreTold, Queue, ShownIsTrue, Sole, Ways

LEMMA SurvivesClicks ==
  ASSUME DesktopInv, SurvivesInv,
    \/ Scan \/ DiscoverAndroid \/ DiscoverCompanion \/ StartThumbnails \/ StartCategories
    \/ \E k \in Ways : StartRecovery(k) \/ RecoveryRefused(k) \/ BuildPlan(k) \/ StartOperation(k)
    \/ CancelThumbnails \/ CancelCategories
  PROVE  SurvivesInv'
  <1>1. CASE Scan \/ DiscoverAndroid \/ DiscoverCompanion \/ StartThumbnails \/ StartCategories
    <2>1. PICK k \in {"scan", "discovery", "companion", "thumbnails", "categories"} : lane = k /\ Start(k)
      BY <1>1 DEF Scan, DiscoverAndroid, DiscoverCompanion, StartThumbnails, StartCategories
    <2>2. k \in Ways
      BY <2>1, LaneWays
    <2> QED BY <2>1, <2>2, SurvivesStart
  <1>2. ASSUME NEW k \in Ways, StartRecovery(k) \/ StartOperation(k)
        PROVE  SurvivesInv'
    BY <1>2, SurvivesStart DEF StartRecovery, StartOperation
  <1>3. ASSUME NEW k \in Ways, RecoveryRefused(k)
        PROVE  SurvivesInv'
    BY <1>3, SurvivesStands DEF RecoveryRefused, Results
  <1>4. ASSUME NEW k \in Ways, BuildPlan(k)
        PROVE  SurvivesInv'
    <2>1. shown' = <<k, "plan">> /\ UNCHANGED <<lane, phase, way, outcome, cur, off, inbox, failed>>
      BY <1>4 DEF BuildPlan
    <2> QED BY <2>1, SurvivesStands DEF Results
  <1>5. CASE CancelThumbnails \/ CancelCategories
    <2>1. CancelWork
      BY <1>5 DEF CancelThumbnails, CancelCategories
    <2> QED BY <2>1, SurvivesStands DEF CancelWork, Results
  <1> QED BY <1>1, <1>2, <1>3, <1>4, <1>5

LEMMA SurvivesShowResult ==
  ASSUME DesktopInv, SurvivesInv, NEW l, NEW label, ShowResult(l, label),
         lane # "operation" => label = way[Of]
  PROVE  SurvivesInv'
  <1>0. DesktopTypeOK
    BY DEF DesktopInv
  <1>1. /\ Handles(Results) /\ shown' = <<label, Head(inbox).what>>
        /\ phase' = [phase EXCEPT ![Of] = "leaving"]
        /\ UNCHANGED <<lane, way, outcome, cur, off, failed>>
    BY DEF ShowResult
  <1>2. /\ Queue = Queue' \cup {Head(inbox)} /\ Head(inbox).what \in Results
        /\ Head(inbox) = Signal(Of, Head(inbox).what) /\ Of \in Worker /\ phase[Of] # "none"
    BY <1>0, <1>1, QueueShrinks, FirstSignal DEF DesktopInv
  <1>3. \A v \in Worker : phase'[v] = IF v = Of THEN "leaving" ELSE phase[v]
    BY <1>0, <1>1, <1>2 DEF DesktopTypeOK
  <1>4. Ways' = Ways /\ Sole' = Sole
    BY <1>1 DEF Ways, Sole
  <1>5. Referred'
    <2>1. Signal(cur, "finished").what \notin Results
      BY DEF Signal, Results
    <2>2. Signal(cur, "finished") \in Queue => Signal(cur, "finished") \in Queue'
      BY <2>1, <1>2
    <2>3. cur # 0 => cur \in Worker
      BY <1>0 DEF DesktopTypeOK
    <2> QED BY <2>2, <2>3, <1>1, <1>3 DEF SurvivesInv, Referred, AtWorkPhases, Signal
  <1>6. ResultsAreTold'
    BY <1>1, <1>2 DEF SurvivesInv, ResultsAreTold
  <1>7. lane # "operation" => ShownIsTrue'
    <2>1. Head(inbox) \in Queue
      BY <1>2
    <2>2. Head(inbox).of = Of
      BY DEF Of
    <2>3. outcome[Of] = Head(inbox).what
      BY <1>2, <2>1, <2>2 DEF SurvivesInv, ResultsAreTold
    <2> QED BY <2>3, <1>1, <1>2 DEF ShownIsTrue
  <1>8. \A v \in Worker : phase'[v] # "none" => way'[v] \in Ways'
    BY <1>1, <1>2, <1>3, <1>4 DEF SurvivesInv
  <1> QED BY <1>1, <1>4, <1>5, <1>6, <1>7, <1>8 DEF SurvivesInv

LEMMA SurvivesProgress ==
  ASSUME DesktopInv, SurvivesInv, NEW l, ShowProgress(l)
  PROVE  SurvivesInv'
  <1>0. DesktopTypeOK
    BY DEF DesktopInv
  <1>1. /\ Handles({"progress"}) /\ shown' = <<lane, "progress">>
        /\ UNCHANGED <<lane, phase, way, outcome, cur, off, failed>>
    BY DEF ShowProgress
  <1>2. Queue = Queue' \cup {Head(inbox)} /\ Head(inbox).what = "progress"
    BY <1>0, <1>1, QueueShrinks
  <1>3. Signal(cur, "finished") \in Queue => Signal(cur, "finished") \in Queue'
    <2>1. Signal(cur, "finished").what # "progress"
      BY DEF Signal
    <2> QED BY <2>1, <1>2
  <1>4. Referred'
    BY <1>1, <1>3 DEF SurvivesInv, Referred, Signal
  <1>5. ResultsAreTold'
    BY <1>1, <1>2 DEF SurvivesInv, ResultsAreTold
  <1>6. ShownIsTrue'
    BY <1>1 DEF ShownIsTrue, Results
  <1> QED BY <1>1, <1>4, <1>5, <1>6 DEF SurvivesInv, Ways, Sole

LEMMA SurvivesForget ==
  ASSUME DesktopInv, SurvivesInv, Forget
  PROVE  SurvivesInv'
  <1>0. DesktopTypeOK
    BY DEF DesktopInv
  <1>1. /\ Handles({"finished"}) /\ off' = FALSE /\ cur' = 0
        /\ phase' = IF cur # 0 /\ phase[cur] = "started" THEN [phase EXCEPT ![cur] = "lost"] ELSE phase
        /\ UNCHANGED <<lane, way, outcome, shown, failed>>
    BY DEF Forget
  <1>2. Queue' \subseteq Queue
    BY <1>0, <1>1, QueueShrinks
  <1>3. \A v \in Worker : phase'[v] # "none" => phase[v] # "none"
    BY <1>0, <1>1 DEF DesktopTypeOK
  <1>4. Referred'
    BY <1>1 DEF Referred
  <1>5. ResultsAreTold'
    BY <1>1, <1>2 DEF SurvivesInv, ResultsAreTold
  <1>6. ShownIsTrue => ShownIsTrue'
    BY <1>1 DEF ShownIsTrue
  <1>7. Ways' = Ways /\ \A v \in Worker : phase'[v] # "none" => way'[v] \in Ways'
    BY <1>1, <1>3 DEF SurvivesInv, Ways
  <1> QED BY <1>1, <1>4, <1>5, <1>6, <1>7 DEF SurvivesInv

LEMMA SurvivesRefresh ==
  ASSUME DesktopInv, SurvivesInv, NEW l, RefreshFails(l)
  PROVE  SurvivesInv'
  <1>0. DesktopTypeOK
    BY DEF DesktopInv
  <1>1. /\ Handles({"finished"}) /\ off' = FALSE /\ failed' = TRUE
        /\ phase' = [phase EXCEPT ![Of] = "deleted"]
        /\ UNCHANGED <<lane, way, outcome, cur, shown>>
    BY DEF RefreshFails
  <1>2. /\ Queue = Queue' \cup {Head(inbox)} /\ Head(inbox) = Signal(Of, Head(inbox).what)
        /\ Of \in Worker /\ phase[Of] # "none"
    BY <1>0, <1>1, QueueShrinks, FirstSignal DEF DesktopInv
  <1>3. \A v \in Worker : phase'[v] = IF v = Of THEN "deleted" ELSE phase[v]
    BY <1>0, <1>1, <1>2 DEF DesktopTypeOK
  <1>4. Referred'
    <2>1. cur # Of => Signal(cur, "finished") # Head(inbox)
      <3>1. Signal(cur, "finished").of = cur /\ Head(inbox).of = Of
        BY DEF Signal, Of
      <3> QED BY <3>1
    <2>2. cur # 0 => cur \in Worker
      BY <1>0 DEF DesktopTypeOK
    <2>3. CASE cur # 0 /\ cur = Of
      BY <2>3, <1>1, <1>2, <1>3 DEF Referred
    <2>4. CASE cur # 0 /\ cur # Of
      <3>1. Signal(cur, "finished") \in Queue => Signal(cur, "finished") \in Queue'
        BY <2>1, <2>4, <1>2
      <3>2. phase'[cur] = phase[cur] /\ cur' = cur
        BY <2>2, <2>4, <1>1, <1>3
      <3> QED BY <2>4, <3>1, <3>2, <1>1 DEF SurvivesInv, Referred, Signal
    <2>5. CASE cur = 0
      BY <2>5, <1>1 DEF Referred
    <2> QED BY <2>3, <2>4, <2>5
  <1>5. ResultsAreTold'
    BY <1>1, <1>2 DEF SurvivesInv, ResultsAreTold
  <1>6. ShownIsTrue => ShownIsTrue'
    BY <1>1 DEF ShownIsTrue
  <1>7. Ways' = Ways /\ \A v \in Worker : phase'[v] # "none" => way'[v] \in Ways'
    BY <1>1, <1>2, <1>3 DEF SurvivesInv, Ways
  <1> QED BY <1>1, <1>4, <1>5, <1>6, <1>7 DEF SurvivesInv

LEMMA SurvivesHandlers ==
  ASSUME DesktopInv, SurvivesInv,
    \/ ShowScan \/ ShowDevice \/ ShowCompanion \/ ShowThumbnails \/ ShowCategories
    \/ ShowRecovery \/ ShowOperation \/ ThumbnailProgress \/ CategoryProgress
    \/ ScanFinished \/ OperationFinished \/ DiscoveryFinished \/ CompanionFinished
    \/ ThumbnailsFinished \/ CategoriesFinished \/ RecoveryFinished
  PROVE  SurvivesInv'
  <1>1. CASE ShowScan \/ ShowDevice \/ ShowCompanion \/ ShowThumbnails \/ ShowCategories
    <2>1. PICK k \in {"scan", "discovery", "companion", "thumbnails", "categories"} : ShowResult(k, k)
      BY <1>1 DEF ShowScan, ShowDevice, ShowCompanion, ShowThumbnails, ShowCategories
    <2>2. lane = k /\ Handles(Results)
      BY <2>1 DEF ShowResult
    <2>3. Of \in Worker /\ phase[Of] # "none"
      BY <2>2, FirstSignal DEF DesktopInv
    <2>4. way[Of] \in Ways /\ Ways = {k}
      BY <2>2, <2>3, LaneWays DEF SurvivesInv
    <2> QED BY <2>1, <2>4, SurvivesShowResult
  <1>2. CASE ShowRecovery
    BY <1>2, SurvivesShowResult DEF ShowRecovery
  <1>3. CASE ShowOperation
    <2>1. ShowResult("operation", IF operation = "none" THEN "undo" ELSE operation) /\ lane = "operation"
      BY <1>3 DEF ShowOperation, ShowResult
    <2> QED BY <2>1, SurvivesShowResult
  <1>4. CASE ThumbnailProgress \/ CategoryProgress
    BY <1>4, SurvivesProgress DEF ThumbnailProgress, CategoryProgress
  <1>5. CASE \/ ScanFinished \/ OperationFinished \/ DiscoveryFinished \/ CompanionFinished
             \/ ThumbnailsFinished \/ CategoriesFinished \/ RecoveryFinished
    BY <1>5, SurvivesForget, SurvivesRefresh
       DEF ScanFinished, OperationFinished, DiscoveryFinished, CompanionFinished,
           ThumbnailsFinished, CategoriesFinished, RecoveryFinished
  <1> QED BY <1>1, <1>2, <1>3, <1>4, <1>5

LEMMA SurvivesStepInv == DesktopInv /\ SurvivesInv /\ [DesktopNext]_desktopVars => SurvivesInv'
  <1> SUFFICES ASSUME DesktopInv, SurvivesInv, [DesktopNext]_desktopVars
               PROVE  SurvivesInv'
    OBVIOUS
  <1>1. CASE UNCHANGED desktopVars
    BY <1>1 DEF desktopVars, SurvivesInv, Referred, ResultsAreTold, Queue, ShownIsTrue, Sole, Ways
  <1>2. CASE DesktopNext
    BY <1>2, SurvivesClicks, SurvivesWorkers, SurvivesHandlers DEF DesktopNext
  <1> QED BY <1>1, <1>2

\* What both invariants say of the lane.
LEMMA DesktopInvSound ==
  ASSUME DesktopInv, SurvivesInv
  PROVE  LaneIsSound
  <1>0. DesktopTypeOK /\ overtaken \in BOOLEAN
    BY DEF DesktopInv, DesktopTypeOK
  <1>1. ASSUME ~overtaken
        PROVE  Alive \subseteq {cur} /\ ShownIsTrue
    <2>1. LaneInv
      BY <1>0, <1>1 DEF DesktopInv
    <2> QED BY <2>1, AtWork DEF Alive, LaneInv
  <1>2. Sole => ~overtaken
    BY DEF DesktopInv
  <1>3. ASSUME off \/ cur # 0
        PROVE  Alive # {} \/ failed \/ \E i \in DOMAIN inbox : inbox[i].what = "finished"
    <2>1. cur # 0
      <3>1. ASSUME cur = 0
            PROVE  FALSE
        <4>1. off /\ Sole
          BY <1>3, <3>1 DEF SurvivesInv
        <4>2. LaneInv
          BY <4>1 DEF DesktopInv
        <4> QED BY <3>1, <4>1, <4>2 DEF LaneInv
      <3> QED BY <3>1
    <2>2. cur \in Worker
      BY <1>0, <2>1 DEF DesktopTypeOK
    <2>3. CASE phase[cur] \in AtWorkPhases
      BY <2>2, <2>3 DEF Alive, AtWorkPhases
    <2>4. CASE Signal(cur, "finished") \in Queue
      BY <2>4 DEF Queue, Signal
    <2>5. CASE failed = TRUE
      BY <2>5
    <2> QED BY <2>1, <2>3, <2>4, <2>5 DEF SurvivesInv, Referred
  <1>4. ASSUME lane = "operation" => ~overtaken
        PROVE  ShownIsTrue
    BY <1>1, <1>4 DEF SurvivesInv
  <1> QED BY <1>1, <1>2, <1>3, <1>4 DEF LaneIsSound, ShownIsTrue

\* Over clicks that come before the handler that forgets a thread: a lane comes
\* back from each worker, and shows results as they were but for the operation lane
\* while it is overtaken; and until a click overtakes that handler, which it never
\* does in a lane of one button, and again from the first start in a quiet lane, one
\* worker is at work and the window refers to it.
THEOREM ServicesLanes == Spec => []LaneIsSound
  <1>1. Init => DesktopInv /\ SurvivesInv
    BY DesktopInitInv, SurvivesInit DEF Init
  <1>2. [Next]_vars => [DesktopNext]_desktopVars
    BY DEF Next, vars, PairingStep, DesktopStep, SchemaStep, ConsolidationStep, OrganisationStep,
           CullingStep, desktopVars
  <1>3. DesktopInv /\ SurvivesInv => LaneIsSound
    BY DesktopInvSound
  <1>4. DesktopInv /\ SurvivesInv /\ [Next]_vars => (DesktopInv /\ SurvivesInv)'
    BY <1>2, DesktopStepInv, SurvivesStepInv
  <1> QED BY <1>1, <1>3, <1>4, PTL DEF Spec

-------------------------------------------------------------------------------
(***************************************************************************)
(* The organisation of the library, from OrganisationProofs.               *)
(***************************************************************************)
LEMMA OrganisationMoves ==
  ASSUME [Next]_vars
  PROVE  [OrganisationNext]_organisationVars
  BY DEF Next, vars, PairingStep, DesktopStep, SchemaStep, ConsolidationStep, OrganisationStep,
         CullingStep, organisationVars

\* The window keeps the catalog's lock after nothing but a handler that said it
\* failed, what it sees is old only after a wait for the lock, and members are
\* members of what is there.
THEOREM ServicesLock == Spec => []LockIsAFailures
  <1>1. Init => OrganisationInv
    BY OrganisationInitInv DEF Init
  <1>2. OrganisationInv /\ [Next]_vars => OrganisationInv'
    BY OrganisationStepInv, OrganisationMoves
  <1>3. OrganisationInv => LockIsAFailures
    BY OrganisationInvLock
  <1> QED BY <1>1, <1>2, <1>3, PTL DEF Spec

\* No function makes a suggestion again with the days of one that the user has
\* dismissed, whatever the window saw when it looked for suggestions.
THEOREM ServicesDismissed == Spec => DismissedStaysAway
  <1> DEFINE A == \A t \in Thing : ~There(db, t) /\ There(db', t) => made'[t] \notin refused
  <1>1. Init => OrganisationInv
    BY OrganisationInitInv DEF Init
  <1>2. OrganisationInv /\ [Next]_vars => OrganisationInv'
    BY OrganisationStepInv, OrganisationMoves
  <1>3. OrganisationInv /\ [Next]_vars => [A]_organisationVars
    BY OrganisationMoves, OrganisationSteps DEF Kept, StaysAway
  <1>4. DismissedStaysAway <=> [][A]_organisationVars
    BY DEF DismissedStaysAway
  <1> HIDE DEF A
  <1> QED BY <1>1, <1>2, <1>3, <1>4, PTL DEF Spec

-------------------------------------------------------------------------------
(***************************************************************************)
(* The schema of the catalog, from SchemaProofs; and the types of all.     *)
(***************************************************************************)
LEMMA SchemaMoves ==
  ASSUME [Next]_vars
  PROVE  [SchemaNext]_schemaVars
  BY DEF Next, vars, PairingStep, DesktopStep, SchemaStep, ConsolidationStep, OrganisationStep,
         CullingStep, schemaVars

\* Recorded versions are there in full, a program that is ready has all of them,
\* no committed row is lost, and only an interrupted upgrade breaks a catalog: for
\* any number of programs that open it and die, between any two statements.
THEOREM ServicesSchema == Spec => []SchemaIsWhole
  <1>1. Init => SchemaInv
    BY SchemaInitInv DEF Init
  <1>2. SchemaInv /\ [Next]_vars => SchemaInv'
    BY SchemaStepInv, SchemaMoves
  <1>3. SchemaInv => SchemaIsWhole
    BY SchemaInvWhole
  <1> QED BY <1>1, <1>2, <1>3, PTL DEF Spec

\* The state of every part has its type, whichever part is looked at.
THEOREM ServicesTypeOK == Spec => []TypeOK
  <1> DEFINE Inv == /\ PairingInv /\ DesktopInv /\ SchemaInv /\ ConsolidationInv
                    /\ OrganisationInv /\ CullingInv
  <1>1. Init => Inv
    BY PairingInitInv, DesktopInitInv, SchemaInitInv, ConsolidationInitInv, OrganisationInitInv,
       CullingInitInv DEF Init
  <1>2. Inv /\ [Next]_vars => Inv'
    <2> SUFFICES ASSUME Inv, [Next]_vars
                 PROVE  Inv'
      OBVIOUS
    <2>1. [PairingNext]_pairingVars
      BY DEF Next, vars, PairingStep, DesktopStep, SchemaStep, ConsolidationStep, OrganisationStep,
             CullingStep, pairingVars
    <2>2. [DesktopNext]_desktopVars
      BY DEF Next, vars, PairingStep, DesktopStep, SchemaStep, ConsolidationStep, OrganisationStep,
             CullingStep, desktopVars
    <2>3. [ConsolidationNext]_consolidationVars
      BY DEF Next, vars, PairingStep, DesktopStep, SchemaStep, ConsolidationStep, OrganisationStep,
             CullingStep, consolidationVars
    <2>4. [CullingNext]_cullingVars
      BY DEF Next, vars, PairingStep, DesktopStep, SchemaStep, ConsolidationStep, OrganisationStep,
             CullingStep, cullingVars
    <2> QED BY <2>1, <2>2, <2>3, <2>4, SchemaMoves, OrganisationMoves, PairingStepInv, DesktopStepInv,
               SchemaStepInv, ConsolidationStepInv, OrganisationStepInv, CullingStepInv
  <1>3. Inv => TypeOK
    BY OrganisationInvTyped DEF TypeOK, PairingInv, DesktopInv, SchemaInv, ConsolidationInv, CullingInv
  <1> HIDE DEF Inv
  <1> QED BY <1>1, <1>2, <1>3, PTL DEF Spec
===============================================================================
