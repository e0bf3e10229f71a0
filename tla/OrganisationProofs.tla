-------------------------- MODULE OrganisationProofs --------------------------
(***************************************************************************)
(* The organisation of the library keeps its promises for every value of   *)
(* the constants: what a function of the catalog makes of the rows (Good), *)
(* what a handler of the window or a request makes of that, and from both  *)
(* the invariant of the connections.                                       *)
(***************************************************************************)
EXTENDS Organisation, FiniteSetTheorems, NaturalsInduction, WellFoundedInduction, TLAPS

\* Members of a thing that is there, and what it holds; a suggestion is an event
\* with a range; reviews and favourites are there from the start.
Dated(x) == x.suggested = TRUE => kind = "event" /\ x.range \in Spans
Sound(d) ==
  /\ \A m \in d.members : There(d, m[1]) /\ m[2] \in d.assets
  /\ \A t \in Thing : There(d, t) => Dated(d.things[t])
  /\ Fixed => \A t \in Thing : There(d, t)

\* The window's transaction, and the rows it sees in it.
ConnectionInv ==
  /\ kind \in Kinds /\ db \in State /\ view \in State \cup {None}
  /\ tx \in {"none", "open", "reading", "writing"} /\ said \in {"done", "failed"}
  /\ stale \in BOOLEAN /\ held \in BOOLEAN /\ late \in BOOLEAN
  /\ Sound(db)
  /\ tx \in {"reading", "writing"} => view \in State /\ Sound(view)
  /\ tx = "reading" /\ stale = FALSE => view = db
  /\ tx = "writing" => /\ said = "failed" /\ held = FALSE
                       /\ view.things = db.things /\ view.dismissed = db.dismissed
                       /\ view = db \/ kind = "album"
  /\ tx \in {"open", "reading"} \/ stale = TRUE => late = TRUE

\* Ranges are refused because they were dismissed, and what is there was made.
NotesInv ==
  /\ refused \subseteq db.dismissed
  /\ made \in [Thing -> {None, <<0, 0>>} \cup Spans]
  /\ kind = "event" => \A t \in Thing : There(db, t) => made[t] # None

OrganisationInv == ConnectionInv /\ NotesInv

-------------------------------------------------------------------------------
(***************************************************************************)
(* The functions of the catalog.                                           *)
(***************************************************************************)
\* A function that is called on rows d ends with rows that are sound, whatever
\* it has written when it raises are members of an album, and it makes nothing
\* but the things S.
Good(r, d, S) ==
  /\ r = [end |-> r.end, db |-> r.db] /\ r.end \in {"done", "refused", "raised"}
  /\ r.db \in State /\ Sound(r.db)
  /\ d.dismissed \subseteq r.db.dismissed
  /\ \A u \in Thing \ S : There(r.db, u) => There(d, u)
  /\ r.end = "raised" => /\ r.db.things = d.things /\ r.db.dismissed = d.dismissed
                         /\ r.db = d \/ kind = "album"

LEMMA Outcomes ==
  \A d : /\ Done(d).end = "done" /\ Done(d).db = d /\ Done(d) = [end |-> "done", db |-> d]
         /\ Refused(d).end = "refused" /\ Refused(d).db = d /\ Refused(d) = [end |-> "refused", db |-> d]
         /\ Raised(d).end = "raised" /\ Raised(d).db = d /\ Raised(d) = [end |-> "raised", db |-> d]
  BY DEF Done, Refused, Raised

LEMMA GoodUnchanged ==
  ASSUME NEW d \in State, Sound(d), NEW S
  PROVE  Good(Done(d), d, S) /\ Good(Refused(d), d, S) /\ Good(Raised(d), d, S)
  BY Outcomes DEF Good

LEMMA Fields ==
  ASSUME NEW d \in State
  PROVE  /\ d.things \in [Thing -> {None} \cup Row] /\ d.members \subseteq Thing \X Asset
         /\ d.assets \subseteq Asset /\ d.dismissed \subseteq Spans
  BY DEF State

\* Other members.
LEMMA WithMembers ==
  ASSUME NEW d \in State, NEW M \in SUBSET (Thing \X Asset)
  PROVE  LET e == [d EXCEPT !.members = M]
         IN  /\ e \in State /\ e.members = M /\ e.things = d.things /\ e.assets = d.assets
             /\ e.dismissed = d.dismissed
  BY DEF State

LEMMA JoinedRows ==
  ASSUME NEW d \in State, Sound(d), NEW t \in Thing, There(d, t), NEW A
  PROVE  LET e == Joined(d, t, A)
         IN  /\ e \in State /\ Sound(e) /\ e.things = d.things /\ e.dismissed = d.dismissed
             /\ e.assets = d.assets
  <1> DEFINE new == A \cap d.assets
             M == (IF Single THEN {m \in d.members : m[2] \notin new} ELSE d.members) \cup ({t} \X new)
             e == [d EXCEPT !.members = M]
  <1>1. M \in SUBSET (Thing \X Asset)
    BY Fields
  <1>2. \A m \in M : There(d, m[1]) /\ m[2] \in d.assets
    BY DEF Sound
  <1>3. Joined(d, t, A) = e
    BY DEF Joined
  <1> HIDE DEF M
  <1>4. /\ e \in State /\ e.members = M /\ e.things = d.things /\ e.assets = d.assets
        /\ e.dismissed = d.dismissed
    BY <1>1, WithMembers
  <1>5. Sound(e)
    BY <1>2, <1>4 DEF Sound, There
  <1> QED BY <1>3, <1>4, <1>5

LEMMA GoodJoined ==
  ASSUME NEW d \in State, Sound(d), NEW t \in Thing, There(d, t), NEW A, NEW S
  PROVE  Good(Done(Joined(d, t, A)), d, S)
  <1> DEFINE e == Joined(d, t, A)
  <1>1. e \in State /\ Sound(e) /\ e.things = d.things /\ e.dismissed = d.dismissed
    BY JoinedRows
  <1> HIDE DEF e
  <1>2. Good(Done(e), d, S)
    BY <1>1, Outcomes DEF Good, There
  <1> QED BY <1>2 DEF e

\* One thing has another row.
LEMMA WithThing ==
  ASSUME NEW d \in State, Sound(d), NEW t \in Thing, NEW x \in Row, Dated(x)
  PROVE  LET e == [d EXCEPT !.things[t] = x]
         IN  /\ e \in State /\ Sound(e) /\ There(e, t) /\ e.things = [d.things EXCEPT ![t] = x]
             /\ e.dismissed = d.dismissed /\ e.members = d.members /\ e.assets = d.assets
             /\ \A u \in Thing \ {t} : There(e, u) <=> There(d, u)
  <1> DEFINE e == [d EXCEPT !.things[t] = x]
  <1>1. x # None
    BY OrganisationConstants
  <1>2. /\ e.things = [d.things EXCEPT ![t] = x] /\ e.dismissed = d.dismissed
        /\ e.members = d.members /\ e.assets = d.assets
    BY DEF State
  <1>3. e \in State
    BY DEF State
  <1>4. \A u \in Thing : e.things[u] = IF u = t THEN x ELSE d.things[u]
    BY <1>2, Fields
  <1> HIDE DEF e
  <1>5. There(e, t) /\ \A u \in Thing \ {t} : There(e, u) <=> There(d, u)
    BY <1>1, <1>4 DEF There
  <1>6. \A m \in d.members : m[1] \in Thing
    BY Fields
  <1>7. Sound(e)
    BY <1>2, <1>4, <1>5, <1>6 DEF Sound
  <1> QED BY <1>2, <1>3, <1>5, <1>7 DEF e

LEMMA GoodThing ==
  ASSUME NEW d \in State, Sound(d), NEW t \in Thing, NEW x \in Row, Dated(x)
  PROVE  Good(Done([d EXCEPT !.things[t] = x]), d, {t})
  <1> DEFINE e == [d EXCEPT !.things[t] = x]
  <1>1. /\ e \in State /\ Sound(e) /\ e.dismissed = d.dismissed
        /\ \A u \in Thing \ {t} : There(e, u) <=> There(d, u)
    BY WithThing
  <1> HIDE DEF e
  <1>2. Good(Done(e), d, {t})
    BY <1>1, Outcomes DEF Good
  <1> QED BY <1>2 DEF e

\* A thing goes with its members.
LEMMA WithoutThing ==
  ASSUME NEW d \in State, Sound(d), NEW t \in Thing, ~Fixed
  PROVE  LET e == Without(d, t)
         IN  /\ e \in State /\ Sound(e) /\ e.dismissed = d.dismissed /\ ~There(e, t)
             /\ e.things = [d.things EXCEPT ![t] = None]
             /\ \A u \in Thing : There(e, u) => There(d, u)
  <1> DEFINE M == {m \in d.members : m[1] # t}
             e == [d EXCEPT !.things[t] = None, !.members = M]
  <1>1. Without(d, t) = e
    BY DEF Without
  <1>2. M \in SUBSET (Thing \X Asset) /\ \A m \in M : m[1] \in Thing
    BY Fields
  <1> HIDE DEF M
  <1>3. /\ e.things = [d.things EXCEPT ![t] = None] /\ e.dismissed = d.dismissed
        /\ e.members = M /\ e.assets = d.assets /\ e \in State
    BY <1>2 DEF State
  <1>4. \A u \in Thing : e.things[u] = IF u = t THEN None ELSE d.things[u]
    BY <1>3, Fields
  <1> HIDE DEF e
  <1>5. Sound(e)
    BY <1>2, <1>3, <1>4 DEF Sound, There, M
  <1> QED BY <1>1, <1>3, <1>4, <1>5 DEF There

LEMMA GoodDelete ==
  ASSUME NEW d \in State, Sound(d), NEW t \in Thing, ~Fixed
  PROVE  Good(Delete(d, t), d, {})
  <1>1. CASE There(d, t)
    <2> DEFINE e == Without(d, t)
    <2>1. e \in State /\ Sound(e) /\ e.dismissed = d.dismissed /\ \A u \in Thing : There(e, u) => There(d, u)
      BY WithoutThing
    <2> HIDE DEF e
    <2>2. Good(Done(e), d, {})
      BY <2>1, Outcomes DEF Good
    <2> QED BY <1>1, <2>2 DEF e, Delete
  <1>2. CASE ~There(d, t)
    BY <1>2, GoodUnchanged DEF Delete
  <1> QED BY <1>1, <1>2

\* Fewer members.
LEMMA GoodFewer ==
  ASSUME NEW d \in State, Sound(d), NEW M \in SUBSET d.members, NEW S
  PROVE  Good(Done([d EXCEPT !.members = M]), d, S)
  <1> DEFINE e == [d EXCEPT !.members = M]
  <1>1. M \in SUBSET (Thing \X Asset)
    BY Fields
  <1>2. /\ e \in State /\ e.members = M /\ e.things = d.things /\ e.assets = d.assets
        /\ e.dismissed = d.dismissed
    BY <1>1, WithMembers
  <1> HIDE DEF e
  <1>3. Sound(e)
    BY <1>2 DEF Sound, There
  <1>4. Good(Done(e), d, S)
    BY <1>2, <1>3, Outcomes DEF Good, There
  <1> QED BY <1>4 DEF e

LEMMA GoodRemoveFrom ==
  ASSUME NEW d \in State, Sound(d), NEW t, NEW A, NEW S
  PROVE  Good(RemoveFrom(d, t, A), d, S)
  <1>1. (d.members \ ({t} \X A)) \in SUBSET d.members
    OBVIOUS
  <1>2. RemoveFrom(d, t, A) = Done([d EXCEPT !.members = d.members \ ({t} \X A)])
    BY DEF RemoveFrom
  <1> QED BY <1>1, <1>2, GoodFewer

\* Names that users give; the new thing's range is not kept.
Given == [name : Title \cup ({"Suggested"} \X Spans) \cup {None}, range : Spans \cup {None}, suggested : {FALSE}]

LEMMA FilledRow ==
  ASSUME NEW x \in Given
  PROVE  [x EXCEPT !.range = None] \in Row /\ Dated([x EXCEPT !.range = None])
  BY DEF Given, Row, Dated

LEMMA GoodFilled ==
  ASSUME NEW d \in State, Sound(d), NEW t \in Thing, NEW x \in Given
  PROVE  Good(Done(Filled(d, t, x)), d, {t})
  BY FilledRow, GoodThing DEF Filled

\* What is made is there.
LEMMA FilledThere ==
  ASSUME NEW d \in State, Sound(d), NEW t \in Thing, NEW x \in Given
  PROVE  There(Filled(d, t, x), t)
  BY FilledRow, WithThing DEF Filled

LEMMA GoodCreates ==
  ASSUME NEW d \in State, Sound(d), NEW t \in Thing, NEW x \in Given
  PROVE  /\ Good(create_event(d, t, x), d, {t}) /\ Good(create_user_collection(d, t, x), d, {t})
         /\ Good(create_tag(d, t, x), d, {t}) /\ Good(create_place(d, t, x), d, {t})
         /\ Good(create_person(d, t, x), d, {t})
  BY GoodFilled, GoodUnchanged
     DEF create_event, create_user_collection, create_tag, create_place, create_person

\* A thing is renamed, and a suggestion may get another range.
LEMMA GoodRenamed ==
  ASSUME NEW d \in State, Sound(d), NEW t \in Thing, There(d, t), NEW x \in Given,
         Dated([d.things[t] EXCEPT !.range = x.range])
  PROVE  Good(Done(Renamed(d, t, x)), d, {})
  <1> DEFINE range == IF d.things[t].suggested THEN x.range ELSE None
             y == [d.things[t] EXCEPT !.name = x.name, !.range = range]
             e == [d EXCEPT !.things[t] = y]
  <1>1. d.things[t] \in Row
    BY Fields DEF There
  <1>2. y \in Row /\ Dated(y)
    BY <1>1 DEF Row, Given, Dated
  <1>3. Renamed(d, t, x) = e
    BY DEF Renamed, State
  <1> HIDE DEF y
  <1>4. /\ e \in State /\ Sound(e) /\ e.dismissed = d.dismissed
        /\ \A u \in Thing \ {t} : There(e, u) <=> There(d, u)
    BY <1>2, WithThing
  <1> HIDE DEF e
  <1>5. Good(Done(e), d, {})
    BY <1>4, Outcomes DEF Good
  <1> QED BY <1>3, <1>5

LEMMA GoodRenames ==
  ASSUME NEW d \in State, Sound(d), NEW t \in Thing, NEW x \in Given,
         There(d, t) => Dated([d.things[t] EXCEPT !.range = x.range])
  PROVE  /\ Good(update_event(d, t, x), d, {}) /\ Good(rename_tag(d, t, x), d, {})
         /\ Good(update_place(d, t, x), d, {}) /\ Good(rename_person(d, t, x), d, {})
  BY GoodRenamed, GoodUnchanged DEF update_event, rename_tag, update_place, rename_person, FreeFor

LEMMA GoodAdds ==
  ASSUME NEW d \in State, Sound(d), NEW t \in Thing, NEW A
  PROVE  /\ Good(add_assets_to_event(d, t, A), d, {}) /\ Good(assign_place(d, t, A), d, {})
         /\ Good(assign_person(d, t, A), d, {}) /\ Good(assign_tags(d, t, A), d, {})
         /\ kind = "album" => Good(add_to_user_collection(d, t, A), d, {})
         /\ Fixed => Good(set_review(d, t, A), d, {})
  <1>1. CASE There(d, t)
    <2>1. Good(Done(Joined(d, t, A)), d, {})
      BY <1>1, GoodJoined
    <2>2. ASSUME kind = "album"
          PROVE  Good(add_to_user_collection(d, t, A), d, {})
      <3> DEFINE B == {a \in A : \A b \in A \ d.assets : Day[a] < Day[b]}
                 e == Joined(d, t, B)
      <3>1. e \in State /\ Sound(e) /\ e.things = d.things /\ e.dismissed = d.dismissed
        BY <1>1, JoinedRows
      <3> HIDE DEF e
      <3>2. Good(Raised(e), d, {})
        BY <2>2, <3>1, Outcomes DEF Good, There
      <3> QED BY <2>1, <3>2, <1>1 DEF add_to_user_collection, e
    <2> QED BY <1>1, <2>1, <2>2 DEF add_assets_to_event, assign_place, assign_person, assign_tags, set_review
  <1>2. CASE ~There(d, t)
    <2>1. Good(Refused(d), d, {}) /\ Good(Raised(d), d, {})
      BY GoodUnchanged
    <2>2. ~Fixed
      BY <1>2 DEF Sound
    <2>3. add_to_user_collection(d, t, A) = Refused(d)
      BY <1>2 DEF add_to_user_collection
    <2> QED BY <1>2, <2>1, <2>2, <2>3
            DEF add_assets_to_event, assign_place, assign_person, assign_tags
  <1> QED BY <1>1, <1>2

LEMMA GoodRemoves ==
  ASSUME NEW d \in State, Sound(d), NEW t \in Thing, NEW A
  PROVE  /\ Good(remove_assets_from_event(d, t, A), d, {}) /\ Good(remove_place(d, t, A), d, {})
         /\ Good(remove_tags(d, t, A), d, {}) /\ Good(remove_person(d, t, A), d, {})
         /\ \A a : Good(remove_favourite(d, t, a), d, {})
  BY GoodRemoveFrom
     DEF remove_assets_from_event, remove_place, remove_tags, remove_person, remove_favourite

LEMMA GoodDeletes ==
  ASSUME NEW d \in State, Sound(d), NEW t \in Thing, ~Fixed
  PROVE  /\ Good(delete_event(d, t), d, {}) /\ Good(delete_tag(d, t), d, {})
         /\ Good(delete_place(d, t), d, {}) /\ Good(delete_person(d, t), d, {})
  BY GoodDelete DEF delete_event, delete_tag, delete_place, delete_person

LEMMA GoodRating ==
  ASSUME NEW d \in State, Sound(d), NEW A
  PROVE  Good(set_rating(d, A), d, {})
  <1>1. {m \in d.members : m[2] \notin A} \in SUBSET d.members
    OBVIOUS
  <1>2. set_rating(d, A) = Done([d EXCEPT !.members = {m \in d.members : m[2] \notin A}])
    BY DEF set_rating
  <1> QED BY <1>1, <1>2, GoodFewer

LEMMA GoodFavourite ==
  ASSUME NEW d \in State, Sound(d), NEW t \in Thing, NEW a, Fixed
  PROVE  Good(set_favourite(d, t, a), d, {})
  <1>1. There(d, t)
    BY DEF Sound
  <1>2. Good(Done(Joined(d, t, {a})), d, {})
    BY <1>1, GoodJoined
  <1> QED BY <1>2, GoodUnchanged DEF set_favourite


\* What is made gets members before it is committed.
LEMMA GoodThenJoined ==
  ASSUME NEW d \in State, NEW t \in Thing, NEW S, NEW r, Good(r, d, S), NEW new,
         new = r.db \/ (There(r.db, t) /\ \E A : new = Joined(r.db, t, A))
  PROVE  LET q == [r EXCEPT !.db = IF r.end = "done" THEN new ELSE r.db]
         IN  Good(q, d, S) /\ q.end = r.end /\ q.db.things = r.db.things
  <1> DEFINE q == [r EXCEPT !.db = IF r.end = "done" THEN new ELSE r.db]
  <1>1. /\ new \in State /\ Sound(new) /\ new.things = r.db.things
        /\ new.dismissed = r.db.dismissed
    <2>1. CASE new = r.db
      BY <2>1 DEF Good
    <2>2. ASSUME There(r.db, t), NEW A, new = Joined(r.db, t, A)
          PROVE  /\ new \in State /\ Sound(new) /\ new.things = r.db.things
                 /\ new.dismissed = r.db.dismissed
      BY <2>2, JoinedRows DEF Good
    <2> QED BY <2>1, <2>2
  <1>2. /\ q.end = r.end /\ q.db = (IF r.end = "done" THEN new ELSE r.db)
        /\ q = [end |-> q.end, db |-> q.db]
    BY DEF Good
  <1> HIDE DEF q
  <1>3. q.db.things = r.db.things /\ q.db \in State /\ Sound(q.db) /\ q.db.dismissed = r.db.dismissed
    BY <1>1, <1>2 DEF Good
  <1>4. q.end = "raised" => q.db = r.db
    BY <1>2
  <1>5. Good(q, d, S)
    BY <1>2, <1>3, <1>4 DEF Good, There
  <1> QED BY <1>2, <1>3, <1>5 DEF q

-------------------------------------------------------------------------------
(***************************************************************************)
(* Suggestions.                                                            *)
(***************************************************************************)
\* A set of days with photos has a latest one.
LEMMA LatestDay ==
  ASSUME NEW A \in SUBSET Asset, NEW G \in SUBSET {Day[a] : a \in A}, G # {}
  PROVE  \E x \in G : \A y \in G : y <= x
  <1> USE OrganisationConstants
  <1> DEFINE After(y) == {a \in Asset : Day[a] > y}
             T == {n \in Nat : \E y \in G : n = Cardinality(After(y))}
  <1>1. \A y \in G : y \in Nat /\ \E a \in Asset : Day[a] = y
    OBVIOUS
  <1>2. \A y \in G : IsFiniteSet(After(y)) /\ Cardinality(After(y)) \in Nat
    BY FS_Subset, FS_CardinalityType
  <1>3. T \subseteq Nat /\ T # {}
    BY <1>2
  <1>4. IsWellFoundedOn({ss \in Nat \X Nat : ss[1] < ss[2]}, Nat)
    BY NatLessThanWellFounded DEF OpToRel
  <1>5. \E n \in T : \A m \in T : ~(<<m, n>> \in {ss \in Nat \X Nat : ss[1] < ss[2]})
    BY <1>3, <1>4, WFMin
  <1>6. PICK n \in T : \A m \in T : ~(m < n)
    BY <1>3, <1>5
  <1>7. PICK x \in G : n = Cardinality(After(x))
    OBVIOUS
  <1>8. ASSUME NEW z \in G, z > x
        PROVE  FALSE
    <2>1. PICK a \in Asset : Day[a] = z
      BY <1>1
    <2>2. After(z) \subseteq After(x) /\ a \in After(x) /\ a \notin After(z)
      BY <1>1, <1>8, <2>1
    <2>3. Cardinality(After(z)) < Cardinality(After(x))
      <3>1. After(z) # After(x)
        BY <2>2
      <3> QED BY <3>1, <2>2, <1>2, FS_Subset
    <2>4. Cardinality(After(z)) \in T
      BY <1>2
    <2> QED BY <1>6, <1>7, <2>3, <2>4
  <1> QED BY <1>1, <1>8

\* A group is from the day of one of its photos to that of another.
LEMMA GroupRange ==
  ASSUME NEW d \in State, NEW G \in Groups(d)
  PROVE  RangeOf(G) \in Spans
  <1> USE OrganisationConstants
  <1>1. PICK x \in DaysOf(d) : G = GroupOf(d, x)
    BY DEF Groups
  <1>2. d.assets \subseteq Asset
    BY Fields
  <1>3. DaysOf(d) = {Day[a] : a \in d.assets} /\ DaysOf(d) \subseteq Nat
    BY <1>2 DEF DaysOf
  <1>4. G \subseteq DaysOf(d) /\ x \in G /\ \A y \in G : x <= y
    BY <1>1, <1>3 DEF GroupOf
  <1>5. \E y \in G : \A z \in G : z <= y
    BY <1>2, <1>3, <1>4, LatestDay
  <1> DEFINE first == CHOOSE y \in G : \A z \in G : y <= z
             last == CHOOSE y \in G : \A z \in G : z <= y
  <1>6. first \in G /\ last \in G
    BY <1>4, <1>5
  <1>7. \A y \in G : \E a \in Asset : y = Day[a]
    BY <1>2, <1>3, <1>4
  <1>8. <<first, last>> \in Spans
    <2> HIDE DEF first, last
    <2>1. PICK a \in Asset, b \in Asset : first = Day[a] /\ last = Day[b]
      BY <1>6, <1>7
    <2> QED BY <2>1 DEF Spans
  <1> QED BY <1>8 DEF RangeOf

LEMMA SuggestedRow ==
  ASSUME NEW r \in Spans
  PROVE  Suggested(r) \in Row /\ (kind = "event" => Dated(Suggested(r)))
  BY DEF Suggested, Row, Dated

LEMMA EventForThing ==
  ASSUME NEW d, NEW G, NEW t \in EventFor(d, G)
  PROVE  t \in Thing /\ (There(d, t) \/ made[t] = None)
  BY DEF EventFor, Named, Fresh, There

\* A suggestion is not made again of a range that was dismissed.
LEMMA GoodSuggest ==
  ASSUME NEW d \in State, Sound(d), kind = "event", NEW G \in Groups(d), NEW t \in Thing
  PROVE  LET r == Suggest(d, G, t)
         IN  /\ Good(r, d, {t}) /\ r.end = "done" /\ r.db.dismissed = d.dismissed
             /\ ~There(d, t) /\ There(r.db, t) => RangeOf(G) \notin d.dismissed
             /\ Good([r EXCEPT !.db.members = d.members], d, {t})
             /\ [r EXCEPT !.db.members = d.members].end = "done"
             /\ [r EXCEPT !.db.members = d.members].db.things = r.db.things
  <1> DEFINE r == Suggest(d, G, t)
             x == Suggested(RangeOf(G))
             e == [d EXCEPT !.things[t] = x]
             A == Shots(d, G)
  <1>1. \E new : /\ r = Done(new) /\ new \in State /\ Sound(new) /\ new.dismissed = d.dismissed
                 /\ new.assets = d.assets
                 /\ \A u \in Thing \ {t} : There(new, u) <=> There(d, u)
                 /\ There(d, t) => There(new, t)
                 /\ ~There(d, t) /\ There(new, t) => RangeOf(G) \notin d.dismissed
    <2>1. CASE RangeOf(G) \in d.dismissed
      <3>1. r = Done(d)
        BY <2>1 DEF Suggest
      <3> QED BY <3>1
    <2>2. CASE RangeOf(G) \notin d.dismissed /\ There(d, t)
      <3>1. r = Done(Joined(d, t, A))
        BY <2>2 DEF Suggest
      <3> DEFINE f == Joined(d, t, A)
      <3>2. f \in State /\ Sound(f) /\ f.things = d.things /\ f.dismissed = d.dismissed /\ f.assets = d.assets
        BY <2>2, JoinedRows
      <3> HIDE DEF f
      <3>3. \A u \in Thing : There(f, u) <=> There(d, u)
        BY <3>2 DEF There
      <3> QED BY <2>2, <3>1, <3>2, <3>3 DEF f
    <2>3. CASE RangeOf(G) \notin d.dismissed /\ ~There(d, t)
      <3>1. r = Done(Joined(e, t, A))
        BY <2>3 DEF Suggest
      <3>2. x \in Row /\ Dated(x)
        BY GroupRange, SuggestedRow
      <3> HIDE DEF x
      <3>3. /\ e \in State /\ Sound(e) /\ There(e, t) /\ e.dismissed = d.dismissed /\ e.assets = d.assets
            /\ \A u \in Thing \ {t} : There(e, u) <=> There(d, u)
        BY <3>2, WithThing
      <3> HIDE DEF e
      <3> DEFINE f == Joined(e, t, A)
      <3>4. f \in State /\ Sound(f) /\ f.things = e.things /\ f.dismissed = e.dismissed /\ f.assets = e.assets
        BY <3>3, JoinedRows
      <3> HIDE DEF f
      <3>5. \A u \in Thing : There(f, u) <=> There(e, u)
        BY <3>4 DEF There
      <3> QED BY <2>3, <3>1, <3>3, <3>4, <3>5 DEF f
    <2> QED BY <2>1, <2>2, <2>3
  <1>2. PICK new :
          /\ r = Done(new) /\ new \in State /\ Sound(new) /\ new.dismissed = d.dismissed
          /\ new.assets = d.assets
          /\ \A u \in Thing \ {t} : There(new, u) <=> There(d, u)
          /\ There(d, t) => There(new, t)
          /\ ~There(d, t) /\ There(new, t) => RangeOf(G) \notin d.dismissed
    BY <1>1
  <1>3. Good(r, d, {t}) /\ r.end = "done" /\ r.db = new
    BY <1>2, Outcomes DEF Good
  <1> DEFINE bare == [new EXCEPT !.members = d.members]
  <1>4. d.members \in SUBSET (Thing \X Asset)
    BY Fields
  <1>5. /\ bare \in State /\ bare.members = d.members /\ bare.things = new.things
        /\ bare.assets = new.assets /\ bare.dismissed = new.dismissed
    BY <1>2, <1>4, WithMembers
  <1>6. [r EXCEPT !.db.members = d.members] = Done(bare)
    BY <1>2 DEF Done
  <1> HIDE DEF bare, r
  <1>7. \A m \in d.members : m[1] \in Thing
    BY <1>4
  <1>8. \A u \in Thing : There(d, u) => There(new, u)
    BY <1>2
  <1>9. Sound(bare)
    BY <1>2, <1>5, <1>7, <1>8 DEF Sound, There
  <1>10. \A u \in Thing : There(bare, u) <=> There(new, u)
    BY <1>5 DEF There
  <1>11. Good(Done(bare), d, {t})
    BY <1>2, <1>5, <1>9, <1>10, Outcomes DEF Good
  <1>12. Done(bare).end = "done" /\ Done(bare).db.things = r.db.things
    BY <1>3, <1>5, Outcomes
  <1> QED BY <1>2, <1>3, <1>6, <1>11, <1>12 DEF r

LEMMA GoodApprove ==
  ASSUME NEW d \in State, Sound(d), NEW t \in Thing
  PROVE  Good(Approve(d, t), d, {})
  <1>1. CASE There(d, t) /\ d.things[t].suggested
    <2> DEFINE y == [d.things[t] EXCEPT !.suggested = FALSE, !.range = None]
               e == [d EXCEPT !.things[t] = y]
    <2>1. y \in Row /\ Dated(y)
      <3>1. d.things[t] \in Row
        BY <1>1, Fields DEF There
      <3> QED BY <3>1 DEF Row, Dated
    <2>2. Approve(d, t) = Done(e)
      BY <1>1 DEF Approve, State
    <2> HIDE DEF y
    <2>3. /\ e \in State /\ Sound(e) /\ e.dismissed = d.dismissed
          /\ \A u \in Thing \ {t} : There(e, u) <=> There(d, u)
      BY <2>1, WithThing
    <2> HIDE DEF e
    <2>4. Good(Done(e), d, {})
      BY <1>1, <2>3, Outcomes DEF Good
    <2> QED BY <2>2, <2>4
  <1>2. CASE ~(There(d, t) /\ d.things[t].suggested)
    BY <1>2, GoodUnchanged DEF Approve
  <1> QED BY <1>1, <1>2

\* A dismissed suggestion goes, and its range is noted.
LEMMA GoodDismiss ==
  ASSUME NEW d \in State, Sound(d), NEW t \in Thing, ~Fixed
  PROVE  LET r == Dismiss(d, t)
         IN  Good(r, d, {}) /\ r.end # "raised" /\ (r.end = "done" => d.things[t].range \in r.db.dismissed)
  <1>1. CASE There(d, t) /\ d.things[t].suggested
    <2> DEFINE D == d.dismissed \cup {d.things[t].range}
               e == [d EXCEPT !.dismissed = D]
               f == Without(e, t)
    <2>1. d.things[t] \in Row /\ d.things[t].suggested = TRUE
      BY <1>1, Fields DEF There, Row
    <2>2. D \subseteq Spans
      BY <1>1, <2>1, Fields DEF Sound, Dated
    <2>3. Dismiss(d, t) = Done(f)
      BY <1>1 DEF Dismiss
    <2>4. d.things[t].range \in D /\ d.dismissed \subseteq D
      OBVIOUS
    <2> HIDE DEF D
    <2>5. /\ e \in State /\ e.dismissed = D /\ e.things = d.things /\ e.members = d.members
          /\ e.assets = d.assets
      BY <2>2 DEF State
    <2>6. Sound(e)
      BY <2>5 DEF Sound, There
    <2> HIDE DEF e
    <2>7. f \in State /\ Sound(f) /\ f.dismissed = D /\ \A u \in Thing : There(f, u) => There(e, u)
      BY <2>5, <2>6, WithoutThing
    <2>8. \A u \in Thing : There(e, u) => There(d, u)
      BY <2>5 DEF There
    <2> HIDE DEF f
    <2>9. Good(Done(f), d, {})
      BY <2>4, <2>7, <2>8, Outcomes DEF Good
    <2> QED BY <2>3, <2>4, <2>7, <2>9, Outcomes
  <1>2. CASE ~(There(d, t) /\ d.things[t].suggested)
    BY <1>2, GoodUnchanged, Outcomes DEF Dismiss
  <1> QED BY <1>1, <1>2

-------------------------------------------------------------------------------
(***************************************************************************)
(* The connections.                                                        *)
(***************************************************************************)
LEMMA NowSound ==
  ASSUME ConnectionInv
  PROVE  /\ Now \in State /\ Sound(Now)
         /\ MayWrite => /\ Now.things = db.things /\ Now.dismissed = db.dismissed
                        /\ Now = db \/ kind = "album"
  BY DEF ConnectionInv, Now, MayWrite

\* What a write may change.
Advances(S) ==
  /\ kind' = kind /\ db.dismissed \subseteq db'.dismissed
  /\ \A u \in Thing \ S : There(db', u) => There(db, u)

LEMMA WritesStep ==
  ASSUME ConnectionInv, NEW S, NEW r, Good(r, Now, S), Quiet(r)
  PROVE  /\ ConnectionInv' /\ Advances(S)
         /\ \/ db' = db
            \/ /\ db' = r.db /\ r.end = "done"
               /\ Now.things = db.things /\ Now.dismissed = db.dismissed
  <1>0. UNCHANGED <<kind, held>>
    BY DEF Quiet
  <1>1. CASE r.end = "refused" /\ said' = "failed" /\ UNCHANGED <<db, view, tx, stale, late>>
    BY <1>0, <1>1 DEF ConnectionInv, Sound, Fixed, Dated, There, Advances
  <1>2. CASE r.end = "raised" /\ MayWrite /\ said' = "failed"
             /\ tx' = "writing" /\ view' = r.db /\ stale' = FALSE /\ UNCHANGED <<db, late>>
    <2>1. /\ view' \in State /\ view'.things = db.things /\ view'.dismissed = db.dismissed
          /\ view' = db \/ kind = "album"
      BY <1>2, NowSound DEF Good
    <2>2. Sound(view)' /\ Sound(db)'
      BY <1>0, <1>2 DEF Good, ConnectionInv, Sound, Fixed, Dated, There
    <2>3. held = FALSE
      BY <1>2 DEF MayWrite, ConnectionInv
    <2> QED BY <1>0, <1>2, <2>1, <2>2, <2>3 DEF ConnectionInv, Advances, There
  <1>3. CASE r.end = "done" /\ MayWrite /\ Commit(r.db) /\ said' = "done" /\ UNCHANGED late
    <2>1. db' = r.db /\ tx' = "none" /\ view' = None /\ stale' = FALSE
      BY <1>3 DEF Commit
    <2>2. Sound(db)' /\ db' \in State
      BY <1>0, <2>1 DEF Good, Sound, Fixed, Dated, There
    <2>3. Advances(S) /\ Now.things = db.things /\ Now.dismissed = db.dismissed
      BY <1>0, <1>3, <2>1, NowSound DEF Advances, Good, There
    <2> QED BY <1>0, <1>3, <2>1, <2>2, <2>3 DEF ConnectionInv
  <1>4. CASE r.end # "refused" /\ ~MayWrite /\ said' = "failed"
             /\ late' = TRUE /\ tx' = (IF tx = "none" THEN "open" ELSE tx) /\ UNCHANGED <<db, view, stale>>
    <2>1. tx # "writing"
      BY <1>4 DEF ConnectionInv, MayWrite
    <2> QED BY <1>0, <1>4, <2>1 DEF ConnectionInv, Sound, Fixed, Dated, There, Advances
  <1> QED BY <1>1, <1>2, <1>3, <1>4 DEF Quiet, Writes

LEMMA HalfStep ==
  ASSUME ConnectionInv, NEW S, NEW r, Good(r, Now, S), Half(r)
  PROVE  /\ ConnectionInv' /\ Advances(S)
         /\ db' = r.db /\ r.end = "done" /\ Now.things = db.things /\ Now.dismissed = db.dismissed
  <1>1. /\ r.end = "done" /\ MayWrite /\ said' = "failed" /\ late' = TRUE
        /\ db' = r.db /\ tx' = "open" /\ view' = None /\ stale' = FALSE
        /\ UNCHANGED <<kind, held>>
    BY DEF Half
  <1>2. Sound(db)' /\ db' \in State
    BY <1>1 DEF Good, Sound, Fixed, Dated, There
  <1>3. Advances(S) /\ Now.things = db.things /\ Now.dismissed = db.dismissed
    BY <1>1, NowSound DEF Advances, Good, There
  <1> QED BY <1>1, <1>2, <1>3 DEF ConnectionInv

LEMMA DeskStep ==
  ASSUME ConnectionInv, NEW S, NEW r, Good(r, Now, S), Desk(r)
  PROVE  /\ ConnectionInv' /\ Advances(S)
         /\ \/ db' = db
            \/ /\ db' = r.db /\ r.end = "done"
               /\ Now.things = db.things /\ Now.dismissed = db.dismissed
  BY WritesStep, HalfStep DEF Desk

\* Somebody else's commit.
LEMMA WebStep ==
  ASSUME ConnectionInv, NEW S, NEW r, Good(r, db, S), Web(r)
  PROVE  ConnectionInv' /\ Advances(S) /\ db' = r.db
  <1>1. /\ r.end = "done" /\ ~held /\ tx # "writing"
        /\ db' = r.db /\ stale' = (stale \/ tx = "reading")
        /\ UNCHANGED <<kind, view, tx, held, said, late>>
    BY DEF Web, Commits
  <1>2. Sound(db)' /\ db' \in State
    BY <1>1 DEF Good, Sound, Fixed, Dated, There
  <1>3. Advances(S)
    BY <1>1 DEF Advances, Good
  <1>4. tx = "reading" => Sound(view)' /\ stale' = TRUE
    BY <1>1 DEF ConnectionInv, Sound, Fixed, Dated, There
  <1>5. stale' \in BOOLEAN /\ (stale' = TRUE => late = TRUE)
    BY <1>1 DEF ConnectionInv
  <1> QED BY <1>1, <1>2, <1>3, <1>4, <1>5 DEF ConnectionInv

-------------------------------------------------------------------------------
(***************************************************************************)
(* The steps.                                                              *)
(***************************************************************************)
\* What each step has to be shown to keep.
StaysAway == \A t \in Thing : ~There(db, t) /\ There(db', t) => made'[t] \notin refused
Kept == OrganisationInv' /\ StaysAway

\* Nothing is made, and no suggestion is dismissed.
LEMMA NothingMade ==
  ASSUME OrganisationInv, ConnectionInv', Advances({}), Same
  PROVE  Kept
  BY DEF OrganisationInv, NotesInv, Advances, Same, Kept, StaysAway, There

\* A thing is made, and it is noted.
LEMMA SomethingMade ==
  ASSUME OrganisationInv, NEW t \in Thing, ConnectionInv', Advances({t}), UNCHANGED refused,
         made' = made \/ \E x \in {<<0, 0>>} \cup Spans : made' = [made EXCEPT ![t] = x],
         There(db', t) => made'[t] # None,
         ~There(db, t) /\ There(db', t) => made'[t] \notin refused
  PROVE  Kept
  <1> USE OrganisationConstants
  <1>1. made' \in [Thing -> {None, <<0, 0>>} \cup Spans]
    BY DEF OrganisationInv, NotesInv
  <1>2. \A u \in Thing \ {t} : made'[u] = made[u]
    BY DEF OrganisationInv, NotesInv
  <1>3. \A u \in Thing \ {t} : There(db', u) => There(db, u)
    BY DEF Advances
  <1>4. kind' = kind /\ refused' = refused /\ refused' \subseteq db'.dismissed
    BY DEF Advances, OrganisationInv, NotesInv
  <1>5. kind' = "event" => \A u \in Thing : There(db', u) => made'[u] # None
    BY <1>2, <1>3, <1>4 DEF OrganisationInv, NotesInv
  <1>6. NotesInv'
    BY <1>1, <1>4, <1>5 DEF NotesInv, There
  <1> QED BY <1>3, <1>6 DEF OrganisationInv, Kept, StaysAway

LEMMA DeskKept ==
  ASSUME OrganisationInv, NEW r, Good(r, Now, {}), Desk(r), Same
  PROVE  Kept
  BY DeskStep, NothingMade DEF OrganisationInv

LEMMA QuietKept ==
  ASSUME OrganisationInv, NEW r, Good(r, Now, {}), Quiet(r), Same
  PROVE  Kept
  BY WritesStep, NothingMade DEF OrganisationInv

LEMMA WebKept ==
  ASSUME OrganisationInv, NEW r, Good(r, db, {}), Web(r), Same
  PROVE  Kept
  BY WebStep, NothingMade DEF OrganisationInv

\* <<0, 0>> is no range that could have been dismissed.
LEMMA MakesKept ==
  ASSUME OrganisationInv, NEW t \in Fresh, NEW r, Good(r, Now, {t}), Desk(r) \/ Half(r),
         made' = IF db'.things[t] # None THEN [made EXCEPT ![t] = <<0, 0>>] ELSE made,
         UNCHANGED refused
  PROVE  Kept
  <1>1. t \in Thing
    BY DEF Fresh
  <1>2. ConnectionInv' /\ Advances({t})
    BY DeskStep, HalfStep DEF OrganisationInv
  <1>3. There(db', t) => made'[t] = <<0, 0>>
    BY <1>1 DEF There, OrganisationInv, NotesInv
  <1>4. <<0, 0>> \notin refused /\ <<0, 0>> # None
    <2>1. <<0, 0>> \notin Spans
      BY OrganisationConstants DEF Spans
    <2>2. refused \subseteq Spans
      BY Fields DEF OrganisationInv, NotesInv, ConnectionInv
    <2> QED BY <2>1, <2>2, OrganisationConstants
  <1>5. made' = made \/ \E x \in {<<0, 0>>} \cup Spans : made' = [made EXCEPT ![t] = x]
    OBVIOUS
  <1> QED BY <1>1, <1>2, <1>3, <1>4, <1>5, SomethingMade

LEMMA RowsGiven == Rows \subseteq Given
  <1>1. (IF kind = "event" THEN Ranges ELSE {None}) \subseteq Spans \cup {None}
    BY DEF Spans
  <1>2. ASSUME NEW R \in SUBSET (Spans \cup {None})
        PROVE  [name : Title, range : R, suggested : {FALSE}] \subseteq Given
    BY DEF Given
  <1> QED BY <1>1, <1>2 DEF Rows

\* The form of a thing gives it a range if it is a suggestion.
LEMMA FormGiven ==
  ASSUME NEW d \in State, Sound(d), NEW t \in Thing, There(d, t), NEW x \in Edited(d.things[t])
  PROVE  x \in Given /\ Dated([d.things[t] EXCEPT !.range = x.range])
  <1> DEFINE y == d.things[t]
  <1>1. y \in Row /\ Dated(y)
    BY Fields DEF There, Sound
  <1>2. /\ x.name \in Title \cup {y.name} /\ x.suggested = FALSE
        /\ x = [name |-> x.name, suggested |-> x.suggested, range |-> x.range]
        /\ x.range \in IF kind = "event" THEN Ranges \cup {y.range} ELSE {None}
    BY DEF Edited
  <1> HIDE DEF y
  <1>3. x.range \in Spans \cup {None} /\ x.name \in Title \cup ({"Suggested"} \X Spans) \cup {None}
    BY <1>1, <1>2 DEF Row, Spans
  <1>4. x \in Given
    BY <1>2, <1>3 DEF Given
  <1>5. [y EXCEPT !.range = x.range].suggested = y.suggested /\ [y EXCEPT !.range = x.range].range = x.range
    BY <1>1 DEF Row
  <1>6. y.suggested = TRUE => x.range \in Spans
    BY <1>1, <1>2 DEF Dated, Spans
  <1>7. Dated([y EXCEPT !.range = x.range])
    BY <1>1, <1>5, <1>6 DEF Dated
  <1> QED BY <1>4, <1>7 DEF y

LEMMA FormNow ==
  ASSUME ConnectionInv, NEW t \in Thing, NEW x \in Form(t)
  PROVE  x \in Given /\ (There(Now, t) => Dated([Now.things[t] EXCEPT !.range = x.range]))
  BY RowsGiven, FormGiven, NowSound DEF Form

LEMMA MakesThing ==
  ASSUME OrganisationInv, NEW t \in Fresh, NEW r, Good(r, Now, {t}), NEW range, Makes(r, t, range)
  PROVE  Kept
  <1> DEFINE new == WithRange(r.db, t, range)
             q == [r EXCEPT !.db = IF r.end = "done" THEN new ELSE r.db]
  <1>1. /\ Desk(q) \/ Half(r)
        /\ made' = IF db'.things[t] # None THEN [made EXCEPT ![t] = <<0, 0>>] ELSE made
        /\ UNCHANGED refused
    BY DEF Makes
  <1>2. new = r.db \/ (There(r.db, t) /\ \E A : new = Joined(r.db, t, A))
    BY DEF WithRange
  <1>3. t \in Thing /\ Now \in State
    BY NowSound DEF Fresh, OrganisationInv
  <1> HIDE DEF new
  <1>4. Good(q, Now, {t})
    BY <1>2, <1>3, GoodThenJoined
  <1> HIDE DEF q
  <1>5. CASE Desk(q)
    BY <1>1, <1>4, <1>5, MakesKept
  <1>6. CASE Half(r)
    BY <1>1, <1>6, MakesKept
  <1> QED BY <1>1, <1>5, <1>6

LEMMA CreateSteps ==
  ASSUME OrganisationInv, CreateEvent \/ CreateTag \/ CreateManualPlace \/ CreatePerson \/ CreateUserCollection
  PROVE  Kept
  <1>1. ASSUME NEW t \in Fresh, NEW x \in Rows
        PROVE  /\ Good(create_event(Now, t, x), Now, {t}) /\ Good(create_tag(Now, t, x), Now, {t})
               /\ Good(create_place(Now, t, x), Now, {t}) /\ Good(create_person(Now, t, x), Now, {t})
               /\ Good(create_user_collection(Now, t, x), Now, {t})
    <2>1. t \in Thing /\ x \in Given /\ Now \in State /\ Sound(Now)
      BY RowsGiven, NowSound DEF Fresh, OrganisationInv
    <2> QED BY <2>1, GoodCreates
  <1>2. PICK t \in Fresh, x \in Rows : \E r, range : Good(r, Now, {t}) /\ Makes(r, t, range)
    BY <1>1 DEF CreateEvent, CreateTag, CreateManualPlace, CreatePerson, CreateUserCollection
  <1> QED BY <1>2, MakesThing

LEMMA BatchStep ==
  ASSUME OrganisationInv, CreateEventFromAndroidBatch
  PROVE  Kept
  <1>1. PICK t \in Fresh, n \in Title, A \in Picked :
          LET r == create_event(Now, t, [Blank EXCEPT !.name = n])
          IN  /\ Desk([r EXCEPT !.db = IF r.end = "done" THEN Joined(r.db, t, A) ELSE r.db]) \/ Half(r)
              /\ made' = IF db'.things[t] # None THEN [made EXCEPT ![t] = <<0, 0>>] ELSE made
    BY DEF CreateEventFromAndroidBatch
  <1>2. UNCHANGED refused
    BY DEF CreateEventFromAndroidBatch
  <1> DEFINE x == [Blank EXCEPT !.name = n]
             r == create_event(Now, t, x)
             new == IF r.end = "done" THEN Joined(r.db, t, A) ELSE r.db
             q == [r EXCEPT !.db = IF r.end = "done" THEN new ELSE r.db]
  <1>3. x \in Given
    BY DEF Blank, Given
  <1>4. t \in Thing /\ Now \in State /\ Sound(Now)
    BY NowSound DEF Fresh, OrganisationInv
  <1> HIDE DEF x
  <1>5. Good(r, Now, {t})
    BY <1>3, <1>4, GoodCreates
  <1>6. r.end = "done" => There(r.db, t)
    BY <1>3, <1>4, FilledThere, Outcomes DEF create_event
  <1>7. Desk(q) \/ Half(r)
    BY <1>1 DEF x
  <1> HIDE DEF r
  <1>8. new = r.db \/ (There(r.db, t) /\ \E B : new = Joined(r.db, t, B))
    BY <1>6
  <1> HIDE DEF new
  <1>9. Good(q, Now, {t})
    BY <1>4, <1>5, <1>8, GoodThenJoined
  <1> HIDE DEF q
  <1>10. CASE Desk(q)
    BY <1>1, <1>2, <1>9, <1>10, MakesKept
  <1>11. CASE Half(r)
    BY <1>1, <1>2, <1>5, <1>11, MakesKept
  <1> QED BY <1>7, <1>10, <1>11

LEMMA ChangeSteps ==
  ASSUME OrganisationInv,
    \/ UpdateEvent \/ RenameTag \/ UpdateManualPlace \/ RenamePerson
    \/ DeleteEvent \/ DeleteTag \/ DeleteManualPlace \/ DeletePerson
  PROVE  Kept
  <1>0. Now \in State /\ Sound(Now) /\ ConnectionInv
    BY NowSound DEF OrganisationInv
  <1>1. ASSUME NEW t \in Thing, NEW x \in Form(t)
        PROVE  /\ Good(update_event(Now, t, x), Now, {}) /\ Good(rename_tag(Now, t, x), Now, {})
               /\ Good(update_place(Now, t, x), Now, {}) /\ Good(rename_person(Now, t, x), Now, {})
    <2>1. x \in Given /\ (There(Now, t) => Dated([Now.things[t] EXCEPT !.range = x.range]))
      BY <1>0, FormNow
    <2> QED BY <1>0, <2>1, GoodRenames
  <1>2. CASE UpdateEvent \/ RenameTag \/ UpdateManualPlace \/ RenamePerson
    <2>1. \E r : Good(r, Now, {}) /\ Desk(r) /\ Same
      BY <1>1, <1>2 DEF UpdateEvent, RenameTag, UpdateManualPlace, RenamePerson
    <2> QED BY <2>1, DeskKept
  <1>3. CASE DeleteEvent \/ DeleteTag \/ DeleteManualPlace \/ DeletePerson
    <2>1. ~Fixed
      BY <1>3 DEF DeleteEvent, DeleteTag, DeleteManualPlace, DeletePerson, Fixed
    <2>2. PICK t \in Thing : /\ Same
                             /\ \/ Desk(delete_event(Now, t)) \/ Desk(delete_tag(Now, t))
                                \/ Desk(delete_place(Now, t)) \/ Desk(delete_person(Now, t))
      BY <1>3 DEF DeleteEvent, DeleteTag, DeleteManualPlace, DeletePerson, Deletes
    <2>3. /\ Good(delete_event(Now, t), Now, {}) /\ Good(delete_tag(Now, t), Now, {})
          /\ Good(delete_place(Now, t), Now, {}) /\ Good(delete_person(Now, t), Now, {})
      BY <1>0, <2>1, GoodDeletes
    <2> QED BY <2>2, <2>3, DeskKept
  <1> QED BY <1>2, <1>3

LEMMA AssignSteps ==
  ASSUME OrganisationInv,
    \/ AssignSelectedEvent \/ AssignSelectedTag \/ AssignSelectedPlace \/ AssignSelectedPerson
    \/ AssignViewerEvent \/ AssignViewerTag \/ AssignViewerPlace \/ AssignViewerPerson
    \/ AddSelectedToCollection \/ AddViewerToCollection
    \/ RemoveSelectedEvent \/ RemoveSelectedTag \/ ClearSelectedPlace \/ RemoveSelectedPerson
    \/ RemoveEventDetailSelection
  PROVE  Kept
  <1>0. Now \in State /\ Sound(Now)
    BY NowSound DEF OrganisationInv
  <1>1. ASSUME NEW t \in Thing, NEW A
        PROVE  /\ Good(add_assets_to_event(Now, t, A), Now, {}) /\ Good(assign_place(Now, t, A), Now, {})
               /\ Good(assign_person(Now, t, A), Now, {}) /\ Good(assign_tags(Now, t, A), Now, {})
               /\ kind = "album" => Good(add_to_user_collection(Now, t, A), Now, {})
               /\ Good(remove_assets_from_event(Now, t, A), Now, {}) /\ Good(remove_place(Now, t, A), Now, {})
               /\ Good(remove_tags(Now, t, A), Now, {}) /\ Good(remove_person(Now, t, A), Now, {})
    BY <1>0, GoodAdds, GoodRemoves
  <1>2. CASE \/ AssignSelectedEvent \/ AssignSelectedTag \/ AssignSelectedPlace \/ AssignSelectedPerson
             \/ AddSelectedToCollection
             \/ RemoveSelectedEvent \/ RemoveSelectedTag \/ ClearSelectedPlace \/ RemoveSelectedPerson
    <2>1. PICK t \in Thing, A \in Picked : \E r : Good(r, Now, {}) /\ Desk(r) /\ Same
      BY <1>1, <1>2
         DEF AssignSelectedEvent, AssignSelectedTag, AssignSelectedPlace, AssignSelectedPerson,
             AddSelectedToCollection, RemoveSelectedEvent, RemoveSelectedTag, ClearSelectedPlace,
             RemoveSelectedPerson, To
    <2> QED BY <2>1, DeskKept
  <1>3. CASE \/ AssignViewerEvent \/ AssignViewerTag \/ AssignViewerPlace \/ AssignViewerPerson
             \/ AddViewerToCollection
    <2>1. PICK t \in Thing, a \in Asset : \E r : Good(r, Now, {}) /\ Quiet(r) /\ Same
      BY <1>1, <1>3
         DEF AssignViewerEvent, AssignViewerTag, AssignViewerPlace, AssignViewerPerson,
             AddViewerToCollection, ViewerTo
    <2> QED BY <2>1, QuietKept
  <1>4. CASE RemoveEventDetailSelection
    BY <1>1, <1>4, QuietKept DEF RemoveEventDetailSelection
  <1> QED BY <1>2, <1>3, <1>4

LEMMA ReviewSteps ==
  ASSUME OrganisationInv,
    \/ ApplySelectedReview \/ ApplySelectedRating \/ ApplyViewerReview \/ ApplyViewerRating
    \/ SetFavourite \/ RemoveFavourite \/ ToggleViewerFavourite \/ ToggleSelectedLibraryFavourites
  PROVE  Kept
  <1>0. Now \in State /\ Sound(Now)
    BY NowSound DEF OrganisationInv
  <1>1. Fixed
    BY DEF Fixed, ApplySelectedReview, ApplySelectedRating, ApplyViewerReview, ApplyViewerRating,
           SetFavourite, RemoveFavourite, ToggleViewerFavourite, ToggleSelectedLibraryFavourites
  <1>2. ASSUME NEW t \in Thing, NEW a, NEW A
        PROVE  /\ Good(set_review(Now, t, A), Now, {}) /\ Good(set_favourite(Now, t, a), Now, {})
               /\ Good(remove_favourite(Now, t, a), Now, {})
    BY <1>0, <1>1, GoodAdds, GoodRemoves, GoodFavourite
  <1>3. \A A : Good(set_rating(Now, A), Now, {})
    BY <1>0, GoodRating
  <1>4. CASE ApplySelectedReview \/ ApplyViewerReview
    <2>1. PICK t \in Thing : \E A : Quiet(set_review(Now, t, A)) /\ Same
      BY <1>4 DEF ApplySelectedReview, ApplyViewerReview, ViewerTo
    <2> QED BY <1>2, <2>1, QuietKept
  <1>5. CASE ApplySelectedRating \/ ApplyViewerRating
    <2>1. PICK A : Quiet(set_rating(Now, A)) /\ Same
      BY <1>5 DEF ApplySelectedRating, ApplyViewerRating
    <2> QED BY <1>3, <2>1, QuietKept
  <1>6. CASE SetFavourite \/ RemoveFavourite \/ ToggleViewerFavourite \/ ToggleSelectedLibraryFavourites
    <2>1. PICK t \in Thing, a \in Asset :
            \E r \in {set_favourite(Now, t, a), remove_favourite(Now, t, a)} : (Desk(r) \/ Quiet(r)) /\ Same
      BY <1>6 DEF SetFavourite, RemoveFavourite, ToggleViewerFavourite, ToggleSelectedLibraryFavourites
    <2> QED BY <1>2, <2>1, DeskKept, QuietKept
  <1> QED BY <1>4, <1>5, <1>6

LEMMA SuggestStep ==
  ASSUME OrganisationInv, SuggestEvents
  PROVE  Kept
  <1> USE OrganisationConstants
  <1>1. kind = "event" /\ UNCHANGED refused
    BY DEF SuggestEvents
  <1>2. PICK G \in Groups(Now) : \E t \in EventFor(Now, G) :
          /\ \/ Desk(Suggest(Now, G, t))
             \/ Half([Suggest(Now, G, t) EXCEPT !.db.members = Now.members])
          /\ made' = IF made[t] = None /\ db'.things[t] # None THEN [made EXCEPT ![t] = RangeOf(G)] ELSE made
    BY DEF SuggestEvents
  <1>3. PICK t \in EventFor(Now, G) :
          /\ \/ Desk(Suggest(Now, G, t))
             \/ Half([Suggest(Now, G, t) EXCEPT !.db.members = Now.members])
          /\ made' = IF made[t] = None /\ db'.things[t] # None THEN [made EXCEPT ![t] = RangeOf(G)] ELSE made
    BY <1>2
  <1>4. Now \in State /\ Sound(Now) /\ ConnectionInv
    BY NowSound DEF OrganisationInv
  <1>5. t \in Thing /\ (There(Now, t) \/ made[t] = None)
    BY EventForThing
  <1>6. RangeOf(G) \in Spans
    BY <1>4, GroupRange
  <1> DEFINE r == Suggest(Now, G, t)
             h == [r EXCEPT !.db.members = Now.members]
  <1>7. /\ Good(r, Now, {t}) /\ Good(h, Now, {t}) /\ h.db.things = r.db.things
        /\ ~There(Now, t) /\ There(r.db, t) => RangeOf(G) \notin Now.dismissed
    BY <1>1, <1>4, <1>5, GoodSuggest
  <1>8. Desk(r) \/ Half(h)
    BY <1>3
  <1>9. made' = IF made[t] = None /\ db'.things[t] # None THEN [made EXCEPT ![t] = RangeOf(G)] ELSE made
    BY <1>3
  <1> HIDE DEF r, h
  <1>10. /\ ConnectionInv' /\ Advances({t})
         /\ \/ db' = db
            \/ /\ db'.things = r.db.things /\ Now.things = db.things /\ Now.dismissed = db.dismissed
    <2>1. CASE Desk(r)
      BY <1>4, <1>7, <2>1, DeskStep
    <2>2. CASE Half(h)
      BY <1>4, <1>7, <2>2, HalfStep
    <2> QED BY <1>8, <2>1, <2>2
  <1>11. made' = made \/ \E x \in {<<0, 0>>} \cup Spans : made' = [made EXCEPT ![t] = x]
    BY <1>6, <1>9
  <1>12. There(db', t) => made'[t] # None
    BY <1>5, <1>6, <1>9 DEF There, OrganisationInv, NotesInv
  <1>13. ASSUME ~There(db, t), There(db', t)
         PROVE  made'[t] \notin refused
    <2>1. db'.things = r.db.things /\ Now.things = db.things /\ Now.dismissed = db.dismissed
      BY <1>10, <1>13
    <2>2. ~There(Now, t) /\ There(r.db, t)
      BY <1>13, <2>1 DEF There
    <2>3. RangeOf(G) \notin refused
      BY <1>7, <2>1, <2>2 DEF OrganisationInv, NotesInv
    <2>4. made[t] = None
      BY <1>5, <2>2
    <2>5. made'[t] = RangeOf(G)
      BY <1>5, <1>9, <1>13, <2>4 DEF There, OrganisationInv, NotesInv
    <2> QED BY <2>3, <2>5
  <1> QED BY <1>1, <1>5, <1>10, <1>11, <1>12, <1>13, SomethingMade

LEMMA ApproveStep ==
  ASSUME OrganisationInv, ApproveSuggestion
  PROVE  Kept
  <1>1. PICK t \in Thing : Desk(Approve(Now, t)) /\ Same
    BY DEF ApproveSuggestion
  <1>2. Good(Approve(Now, t), Now, {})
    BY GoodApprove, NowSound DEF OrganisationInv
  <1> QED BY <1>1, <1>2, DeskKept

LEMMA DismissStep ==
  ASSUME OrganisationInv, DismissSuggestion
  PROVE  Kept
  <1>1. PICK t \in Thing :
          /\ kind = "event" /\ Desk(Dismiss(Now, t))
          /\ refused' = IF There(db, t) /\ db'.things[t] = None /\ db.things[t].range = made[t]
                        THEN refused \cup {made[t]} ELSE refused
          /\ UNCHANGED made
    BY DEF DismissSuggestion
  <1>2. Now \in State /\ Sound(Now) /\ ConnectionInv /\ NotesInv
    BY NowSound DEF OrganisationInv
  <1>3. ~Fixed
    BY <1>1 DEF Fixed
  <1> DEFINE r == Dismiss(Now, t)
  <1>4. Good(r, Now, {}) /\ (r.end = "done" => Now.things[t].range \in r.db.dismissed)
    BY <1>2, <1>3, GoodDismiss
  <1> HIDE DEF r
  <1>5. /\ ConnectionInv' /\ Advances({})
        /\ \/ db' = db
           \/ db' = r.db /\ r.end = "done" /\ Now.things = db.things /\ Now.dismissed = db.dismissed
    BY <1>1, <1>2, <1>4, DeskStep DEF r
  <1>6. refused' \subseteq db'.dismissed
    <2>1. refused \subseteq db'.dismissed
      BY <1>2, <1>5 DEF NotesInv, Advances
    <2>2. ASSUME There(db, t), db'.things[t] = None, db.things[t].range = made[t]
          PROVE  made[t] \in db'.dismissed
      <3>1. db' # db
        BY <2>2 DEF There
      <3> QED BY <1>4, <1>5, <2>2, <3>1
    <2> QED BY <1>1, <2>1, <2>2
  <1>7. NotesInv'
    BY <1>1, <1>2, <1>5, <1>6 DEF NotesInv, Advances, There
  <1>8. StaysAway
    BY <1>5 DEF StaysAway, Advances
  <1> QED BY <1>5, <1>7, <1>8 DEF Kept, OrganisationInv

LEMMA RefreshStep ==
  ASSUME OrganisationInv, Refresh
  PROVE  Kept
  BY GoodUnchanged, NowSound, DeskKept DEF Refresh, OrganisationInv

LEMMA LookStep ==
  ASSUME OrganisationInv, Look \/ LockTaken \/ LockReleased
  PROVE  Kept
  <1>1. ConnectionInv'
    <2>1. CASE Look
      BY <2>1 DEF Look, OrganisationInv, ConnectionInv, Sound, Fixed, Dated, There
    <2>2. CASE LockTaken
      BY <2>2 DEF LockTaken, OrganisationInv, ConnectionInv, Sound, Fixed, Dated, There
    <2>3. CASE LockReleased
      <3>1. /\ held /\ held' = FALSE /\ stale' = (stale \/ tx = "reading")
            /\ UNCHANGED <<kind, db, view, tx, said, late, made, refused>>
        BY <2>3 DEF LockReleased
      <3>2. stale' \in BOOLEAN /\ (tx = "reading" => stale' = TRUE) /\ (stale' = TRUE => late = TRUE)
        BY <3>1 DEF OrganisationInv, ConnectionInv
      <3> QED BY <3>1, <3>2 DEF OrganisationInv, ConnectionInv, Sound, Fixed, Dated, There
    <2> QED BY <2>1, <2>2, <2>3
  <1>2. Advances({}) /\ Same
    BY DEF Look, LockTaken, LockReleased, Advances, Same, There
  <1> QED BY <1>1, <1>2, NothingMade

LEMMA WebSteps ==
  ASSUME OrganisationInv,
         WebCreateTopic \/ WebUpdateTopic \/ WebDeleteTopic \/ WebAddPhotos \/ WebRemovePhotos
  PROVE  Kept
  <1>0. db \in State /\ Sound(db) /\ ConnectionInv
    BY DEF OrganisationInv, ConnectionInv
  <1>1. CASE WebCreateTopic
    <2>1. PICK t \in Fresh, x \in Rows :
            /\ Web(create_event(db, t, x)) /\ made' = [made EXCEPT ![t] = <<0, 0>>] /\ UNCHANGED refused
      BY <1>1 DEF WebCreateTopic
    <2>2. t \in Thing /\ x \in Given
      BY RowsGiven DEF Fresh
    <2>3. Good(create_event(db, t, x), db, {t})
      BY <1>0, <2>2, GoodCreates
    <2>4. ConnectionInv' /\ Advances({t})
      BY <1>0, <2>1, <2>3, WebStep
    <2>5. made'[t] = <<0, 0>>
      BY <2>1, <2>2 DEF OrganisationInv, NotesInv
    <2>6. <<0, 0>> \notin refused /\ <<0, 0>> # None
      <3>1. <<0, 0>> \notin Spans
        BY OrganisationConstants DEF Spans
      <3>2. refused \subseteq Spans
        BY <1>0, Fields DEF OrganisationInv, NotesInv
      <3> QED BY <3>1, <3>2, OrganisationConstants
    <2> QED BY <2>1, <2>2, <2>4, <2>5, <2>6, SomethingMade
  <1>2. CASE WebUpdateTopic
    <2>1. PICK t \in Thing : There(db, t) /\ Same /\ \E x \in Edited(db.things[t]) : Web(update_event(db, t, x))
      BY <1>2 DEF WebUpdateTopic
    <2>2. PICK x \in Edited(db.things[t]) : Web(update_event(db, t, x))
      BY <2>1
    <2>3. x \in Given /\ Dated([db.things[t] EXCEPT !.range = x.range])
      BY <1>0, <2>1, FormGiven
    <2>4. Good(update_event(db, t, x), db, {})
      BY <1>0, <2>3, GoodRenames
    <2> QED BY <2>1, <2>2, <2>4, WebKept
  <1>3. CASE WebDeleteTopic
    <2>1. PICK t \in Thing : kind = "event" /\ Web(delete_event(db, t)) /\ Same
      BY <1>3 DEF WebDeleteTopic
    <2>2. ~Fixed
      BY <2>1 DEF Fixed
    <2>3. Good(delete_event(db, t), db, {})
      BY <1>0, <2>2, GoodDeletes
    <2> QED BY <2>1, <2>3, WebKept
  <1>4. CASE WebAddPhotos \/ WebRemovePhotos
    <2>1. PICK t \in Thing, A \in Picked :
            /\ Same
            /\ Web(add_assets_to_event(db, t, A)) \/ Web(remove_assets_from_event(db, t, A))
      BY <1>4 DEF WebAddPhotos, WebRemovePhotos
    <2>2. Good(add_assets_to_event(db, t, A), db, {}) /\ Good(remove_assets_from_event(db, t, A), db, {})
      BY <1>0, GoodAdds, GoodRemoves
    <2> QED BY <2>1, <2>2, WebKept
  <1> QED BY <1>1, <1>2, <1>3, <1>4

\* A scan takes an asset with its members, or adds one.
LEMMA AssetSteps ==
  ASSUME OrganisationInv, AssetGoes \/ AssetComes
  PROVE  Kept
  <1>0. db \in State /\ Sound(db) /\ ConnectionInv
    BY DEF OrganisationInv, ConnectionInv
  <1>1. ASSUME NEW A \in SUBSET Asset, NEW M \in SUBSET db.members, \A m \in M : m[2] \in A,
               NEW e, e = [db EXCEPT !.assets = A, !.members = M], Commits(e), Same
        PROVE  Kept
    <2>1. M \subseteq Thing \X Asset
      BY <1>0, Fields
    <2>2. /\ e.assets = A /\ e.members = M /\ e.things = db.things /\ e.dismissed = db.dismissed
          /\ e \in State
      BY <1>0, <1>1, <2>1 DEF State
    <2>3. Sound(e)
      BY <1>0, <1>1, <2>2 DEF Sound, There
    <2>4. Good(Done(e), db, {})
      BY <2>2, <2>3, Outcomes DEF Good, There
    <2>5. Web(Done(e))
      BY <1>1, Outcomes DEF Web
    <2> QED BY <1>1, <2>4, <2>5, WebKept
  <1>2. CASE AssetGoes
    <2>1. PICK a \in db.assets :
            Commits([db EXCEPT !.assets = db.assets \ {a}, !.members = {m \in db.members : m[2] # a}]) /\ Same
      BY <1>2 DEF AssetGoes
    <2> DEFINE A == db.assets \ {a}
               M == {m \in db.members : m[2] # a}
    <2>2. A \in SUBSET Asset /\ M \in SUBSET db.members /\ \A m \in M : m[2] \in A
      BY <1>0, Fields DEF Sound
    <2> HIDE DEF A, M
    <2> QED BY <1>1, <2>1, <2>2 DEF A, M
  <1>3. CASE AssetComes
    <2>1. PICK a \in Asset \ db.assets : Commits([db EXCEPT !.assets = db.assets \cup {a}]) /\ Same
      BY <1>3 DEF AssetComes
    <2> DEFINE A == db.assets \cup {a}
    <2>2. A \in SUBSET Asset /\ \A m \in db.members : m[2] \in A
      BY <1>0, Fields DEF Sound
    <2>3. [db EXCEPT !.assets = A] = [db EXCEPT !.assets = A, !.members = db.members]
      BY <1>0 DEF State
    <2> HIDE DEF A
    <2> QED BY <1>1, <2>1, <2>2, <2>3 DEF A
  <1> QED BY <1>2, <1>3

-------------------------------------------------------------------------------
LEMMA OrganisationInitInv == OrganisationInit => OrganisationInv
  <1> SUFFICES ASSUME OrganisationInit
               PROVE  OrganisationInv
    OBVIOUS
  <1>1. Blank \in Row /\ Blank # None /\ Blank.suggested = FALSE
    <2>1. Blank \in Row
      BY DEF Blank, Row
    <2> QED BY <2>1, OrganisationConstants DEF Blank
  <1> USE OrganisationConstants DEF OrganisationInit
  <1>2. db \in State
    BY <1>1 DEF State
  <1>3. Sound(db)
    BY <1>1 DEF Sound, There, Dated
  <1>4. NotesInv
    BY DEF NotesInv, There, Fixed
  <1> QED BY <1>2, <1>3, <1>4 DEF OrganisationInv, ConnectionInv

LEMMA OrganisationSteps ==
  ASSUME OrganisationInv, OrganisationNext
  PROVE  Kept
  BY CreateSteps, BatchStep, ChangeSteps, AssignSteps, ReviewSteps, SuggestStep, ApproveStep,
     DismissStep, RefreshStep, LookStep, WebSteps, AssetSteps
     DEF OrganisationNext

LEMMA OrganisationStepInv == OrganisationInv /\ [OrganisationNext]_organisationVars => OrganisationInv'
  <1> SUFFICES ASSUME OrganisationInv, [OrganisationNext]_organisationVars
               PROVE  OrganisationInv'
    OBVIOUS
  <1>1. CASE OrganisationNext
    BY <1>1, OrganisationSteps DEF Kept
  <1>2. CASE UNCHANGED organisationVars
    BY <1>2 DEF organisationVars, OrganisationInv, ConnectionInv, NotesInv, Sound, Fixed, Dated, There
  <1> QED BY <1>1, <1>2

LEMMA OrganisationInvLock ==
  ASSUME OrganisationInv
  PROVE  LockIsAFailures
  BY DEF OrganisationInv, ConnectionInv, Sound, LockIsAFailures

LEMMA OrganisationInvTyped ==
  ASSUME OrganisationInv
  PROVE  OrganisationTypeOK
  <1>1. refused \subseteq Spans
    BY Fields DEF OrganisationInv, ConnectionInv, NotesInv
  <1> QED BY <1>1 DEF OrganisationInv, ConnectionInv, NotesInv, OrganisationTypeOK
===============================================================================
