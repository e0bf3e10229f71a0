------------------------------ MODULE Organisation ------------------------------
(***************************************************************************)
(* The organisation of the library: events (the web's topics), tags,       *)
(* places, people, albums, reviews and favourites, and the connections     *)
(* that write them.                                                        *)
(*                                                                         *)
(* A web request opens a connection and closes it, so one that fails       *)
(* leaves nothing.  The window has one connection for as long as it is     *)
(* open.  sqlite3 begins a transaction before a first write and nothing in *)
(* the window ever rolls back: a handler that raises after a write leaves  *)
(* the transaction, and the catalog's write lock, to the next handler that *)
(* commits; one that waited in vain for the lock leaves a transaction in   *)
(* which the next query fixes what the window sees.                        *)
(*                                                                         *)
(* Abstractions.  One kind of thing at a time: kinds share the connection  *)
(* and no rows.  A review is the thing that its asset is a member of.  A   *)
(* photo is an asset with one location.  A web request is one step: what   *)
(* changes between its check and its write makes it fail.  Refresh is the  *)
(* window's own write at the end of most handlers, which always commits.   *)
(***************************************************************************)
EXTENDS Naturals, FiniteSets

CONSTANTS
  Kinds,  \* kinds of things that are looked at
  Thing,  \* ids of things; an id is used once
  Title,  \* names that users give
  Day,    \* the day each asset was captured
  Ranges, \* ranges of days that users give to events
  None    \* nothing

VARIABLES
  kind,    \* the kind of thing
  db,      \* what is committed
  view,    \* what the window's transaction sees, if it has read or written
  tx,      \* the window's transaction: "none", "open", "reading" or "writing"
  stale,   \* something was committed after the window's transaction first read
  held,    \* another program holds the write lock
  said,    \* the label of the last handler: "done" or "failed"
  late,    \* history: a statement of the window has waited in vain
  made,    \* history: ids that were used, with the range a suggestion was made for
  refused  \* history: ranges of suggestions that were dismissed as they were made

organisationVars == <<kind, db, view, tx, stale, held, said, late, made, refused>>

Asset == DOMAIN Day

\* Kinds of which every thing is there from the start.
Fixed == kind \in {"review", "favourite"}

Blank == [name |-> None, range |-> None, suggested |-> FALSE]

OrganisationInit ==
  /\ kind \in Kinds
  /\ db = [things |-> [t \in Thing |-> IF Fixed THEN Blank ELSE None],
           members |-> {}, assets |-> Asset, dismissed |-> {}]
  /\ view = None /\ tx = "none" /\ stale = FALSE /\ held = FALSE
  /\ said = "done" /\ late = FALSE
  /\ made = [t \in Thing |-> None] /\ refused = {}

-------------------------------------------------------------------------------
(***************************************************************************)
(* What the functions of the catalog do.  One ends "done" and commits, is  *)
(* "refused" before its first write, or is "raised" after it with the rows *)
(* it has written so far.                                                  *)
(***************************************************************************)
Done(new) == [end |-> "done", db |-> new]
Refused(d) == [end |-> "refused", db |-> d]
Raised(new) == [end |-> "raised", db |-> new]

There(d, t) == d.things[t] # None
Named(d, n) == {t \in Thing : There(d, t) /\ d.things[t].name = n}

\* The next id.
Fresh == LET unused == {t \in Thing : made[t] = None} IN
  IF unused = {} THEN {} ELSE {CHOOSE t \in unused : TRUE}

\* ON DELETE CASCADE.
Without(d, t) == [d EXCEPT !.things[t] = None, !.members = {m \in @ : m[1] # t}]

\* Only a suggestion's range is read again.
Filled(d, t, x) == [d EXCEPT !.things[t] = [x EXCEPT !.range = None]]

\* A name that is taken: no event and no album is made, the tag or place of that
\* name is returned, and people may have one name.
create_event(d, t, x) == IF Named(d, x.name) # {} THEN Raised(d) ELSE Done(Filled(d, t, x))
create_user_collection(d, t, x) == IF Named(d, x.name) # {} THEN Raised(d) ELSE Done(Filled(d, t, x))
create_tag(d, t, x) == IF Named(d, x.name) # {} THEN Done(d) ELSE Done(Filled(d, t, x))
create_place(d, t, x) == IF Named(d, x.name) # {} THEN Done(d) ELSE Done(Filled(d, t, x))
create_person(d, t, x) == Done(Filled(d, t, x))

Renamed(d, t, x) ==
  [d EXCEPT !.things[t].name = x.name, !.things[t].range = IF d.things[t].suggested THEN x.range ELSE None]
FreeFor(d, t, n) == There(d, t) /\ Named(d, n) \subseteq {t}
update_event(d, t, x) == IF FreeFor(d, t, x.name) THEN Done(Renamed(d, t, x)) ELSE Raised(d)
rename_tag(d, t, x) == IF FreeFor(d, t, x.name) THEN Done(Renamed(d, t, x)) ELSE Raised(d)
update_place(d, t, x) == IF FreeFor(d, t, x.name) THEN Done(Renamed(d, t, x)) ELSE Raised(d)
rename_person(d, t, x) == IF There(d, t) THEN Done(Renamed(d, t, x)) ELSE Raised(d)

Delete(d, t) == IF There(d, t) THEN Done(Without(d, t)) ELSE Raised(d)
delete_event(d, t) == Delete(d, t)
delete_tag(d, t) == Delete(d, t)
delete_place(d, t) == Delete(d, t)
delete_person(d, t) == Delete(d, t)

\* An asset is at one place and has one review.
Single == kind \in {"place", "review"}

Joined(d, t, A) ==
  LET new == A \cap d.assets IN
  [d EXCEPT !.members = (IF Single THEN {m \in @ : m[2] \notin new} ELSE @) \cup ({t} \X new)]

\* Assets that are gone are passed over; in an album the first one of them
\* raises, and what comes before it is written.
add_assets_to_event(d, t, A) == IF There(d, t) THEN Done(Joined(d, t, A)) ELSE Refused(d)
assign_place(d, t, A) == IF There(d, t) THEN Done(Joined(d, t, A)) ELSE Refused(d)
assign_person(d, t, A) == IF There(d, t) THEN Done(Joined(d, t, A)) ELSE Refused(d)
assign_tags(d, t, A) == IF There(d, t) THEN Done(Joined(d, t, A)) ELSE Raised(d)
add_to_user_collection(d, t, A) ==
  CASE ~There(d, t) -> Refused(d)
    [] There(d, t) /\ A \subseteq d.assets -> Done(Joined(d, t, A))
    [] OTHER -> Raised(Joined(d, t, {a \in A : \A b \in A \ d.assets : Day[a] < Day[b]}))

\* Taking away what is not there is no error.
RemoveFrom(d, t, A) == Done([d EXCEPT !.members = @ \ ({t} \X A)])
remove_assets_from_event(d, t, A) == RemoveFrom(d, t, A)
remove_place(d, t, A) == RemoveFrom(d, t, A)
remove_tags(d, t, A) == RemoveFrom(d, t, A)
remove_person(d, t, A) == RemoveFrom(d, t, A)
remove_favourite(d, t, a) == RemoveFrom(d, t, {a})

\* A review is the status; a rating writes the review as well, and the status
\* that was not given is the default one.
set_review(d, t, A) == Done(Joined(d, t, A))
set_rating(d, A) == Done([d EXCEPT !.members = {m \in @ : m[2] \notin A}])

\* A favourite of an asset that is gone is refused.
set_favourite(d, t, a) == IF a \in d.assets THEN Done(Joined(d, t, {a})) ELSE Refused(d)

-------------------------------------------------------------------------------
(***************************************************************************)
(* Suggestions: the days with photos, cut where more than max_gap_days are *)
(* without.  A suggestion is found again by its name.                      *)
(***************************************************************************)
DaysOf(d) == {Day[a] : a \in d.assets}
First(d, x) == \A y \in DaysOf(d) : y < x => x - y > 2
GroupOf(d, x) == {y \in DaysOf(d) : x <= y /\ \A z \in DaysOf(d) : First(d, z) /\ z > x => y < z}
Shots(d, G) == {a \in d.assets : Day[a] \in G}
Groups(d) == {G \in {GroupOf(d, x) : x \in {y \in DaysOf(d) : First(d, y)}} : Cardinality(Shots(d, G)) >= 2}
RangeOf(G) == <<CHOOSE x \in G : \A y \in G : x <= y, CHOOSE x \in G : \A y \in G : y <= x>>
Suggested(r) == [name |-> <<"Suggested", r>>, range |-> r, suggested |-> TRUE]

\* A group that was dismissed is passed over; an event of its name gets its
\* photos, whatever the user has made of the event since.
Suggest(d, G, t) ==
  LET r == RangeOf(G) IN
  CASE r \in d.dismissed -> Done(d)
    [] r \notin d.dismissed /\ There(d, t) -> Done(Joined(d, t, Shots(d, G)))
    [] OTHER -> Done(Joined([d EXCEPT !.things[t] = Suggested(r)], t, Shots(d, G)))

\* The event of a group, or an id for it.
EventFor(d, G) ==
  LET old == Named(d, Suggested(RangeOf(G)).name) IN
  IF old # {} THEN old ELSE Fresh

Approve(d, t) ==
  IF There(d, t) /\ d.things[t].suggested
  THEN Done([d EXCEPT !.things[t].suggested = FALSE, !.things[t].range = None])
  ELSE Raised(d)

\* Mutant: the range that is noted is not looked at by the next suggestions.
DismissOnly(d, t) ==
  IF There(d, t) /\ d.things[t].suggested THEN Done(Without(d, t)) ELSE Refused(d)

\* The range the event has now is noted.
Dismiss(d, t) ==
  IF There(d, t) /\ d.things[t].suggested
  THEN Done(Without([d EXCEPT !.dismissed = @ \cup {d.things[t].range}], t))
  ELSE Refused(d)

-------------------------------------------------------------------------------
(***************************************************************************)
(* The window.                                                             *)
(***************************************************************************)
Now == IF tx \in {"reading", "writing"} THEN view ELSE db

\* A transaction that has read and been overtaken can never write.
MayWrite == ~held /\ (tx = "reading" => ~stale)

Commit(new) == db' = new /\ tx' = "none" /\ view' = None /\ stale' = FALSE

\* A query of a transaction that has not read yet.
Look ==
  /\ tx = "open"
  /\ tx' = "reading" /\ view' = db
  /\ UNCHANGED <<kind, db, stale, held, said, late, made, refused>>

\* Mutant: a handler that has written does not commit.
DeskForgets(r) ==
  /\ MayWrite
  /\ tx' = "writing" /\ view' = r.db /\ stale' = FALSE
  /\ said' = IF r.end = "done" THEN "done" ELSE "failed"
  /\ UNCHANGED <<db, late>>
  /\ UNCHANGED <<kind, held>>

\* A handler's label says how it ended, or that another program had the lock for
\* too long.
Writes(r) ==
  \/ r.end = "refused" /\ said' = "failed" /\ UNCHANGED <<db, view, tx, stale, late>>
  \/ r.end = "raised" /\ MayWrite /\ said' = "failed"
     /\ tx' = "writing" /\ view' = r.db /\ stale' = FALSE /\ UNCHANGED <<db, late>>
  \/ r.end = "done" /\ MayWrite /\ Commit(r.db) /\ said' = "done" /\ UNCHANGED late
  \/ r.end # "refused" /\ ~MayWrite /\ said' = "failed"
     /\ late' = TRUE /\ tx' = (IF tx = "none" THEN "open" ELSE tx) /\ UNCHANGED <<db, view, stale>>

\* The first commit is made, and what follows it waits in vain.
Half(r) ==
  /\ r.end = "done" /\ MayWrite /\ said' = "failed" /\ late' = TRUE
  /\ db' = r.db /\ tx' = "open" /\ view' = None /\ stale' = FALSE
  /\ UNCHANGED <<kind, held>>

\* A handler of the viewer, and one that refreshes the window when it is done.
Quiet(r) == Writes(r) /\ UNCHANGED <<kind, held>>
Desk(r) == Quiet(r) \/ Half(r)

Same == UNCHANGED <<made, refused>>

Rows == [name : Title, range : IF kind = "event" THEN Ranges ELSE {None}, suggested : {FALSE}]
Edited(x) == [name : Title \cup {x.name}, suggested : {FALSE},
              range : IF kind = "event" THEN Ranges \cup {x.range} ELSE {None}]
Picked == SUBSET Asset \ {{}}

\* An event that is made with a range gets the photos of its days.
WithRange(d, t, r) ==
  IF ~There(d, t) \/ r = None THEN d
  ELSE Joined(d, t, {a \in Asset : r[1] <= Day[a] /\ Day[a] <= r[2]})

Makes(r, t, range) ==
  /\ Desk([r EXCEPT !.db = IF r.end = "done" THEN WithRange(@, t, range) ELSE @]) \/ Half(r)
  /\ made' = IF db'.things[t] # None THEN [made EXCEPT ![t] = <<0, 0>>] ELSE made
  /\ UNCHANGED refused

CreateEvent == kind = "event" /\ \E t \in Fresh, x \in Rows : Makes(create_event(Now, t, x), t, x.range)
CreateTag == kind = "tag" /\ \E t \in Fresh, x \in Rows : Makes(create_tag(Now, t, x), t, None)
CreateManualPlace == kind = "place" /\ \E t \in Fresh, x \in Rows : Makes(create_place(Now, t, x), t, None)
CreatePerson == kind = "person" /\ \E t \in Fresh, x \in Rows : Makes(create_person(Now, t, x), t, None)
CreateUserCollection ==
  kind = "album" /\ \E t \in Fresh, x \in Rows : Makes(create_user_collection(Now, t, x), t, None)

\* The event of the latest import batch, with its photos.
CreateEventFromAndroidBatch ==
  /\ kind = "event"
  /\ \E t \in Fresh, n \in Title, A \in Picked :
       LET r == create_event(Now, t, [Blank EXCEPT !.name = n]) IN
       /\ Desk([r EXCEPT !.db = IF r.end = "done" THEN Joined(@, t, A) ELSE @]) \/ Half(r)
       /\ made' = IF db'.things[t] # None THEN [made EXCEPT ![t] = <<0, 0>>] ELSE made
  /\ UNCHANGED refused

\* The form keeps the name it was loaded with, or has another.
Form(t) == IF There(Now, t) THEN Edited(Now.things[t]) ELSE Rows
UpdateEvent == kind = "event" /\ (\E t \in Thing : \E x \in Form(t) : Desk(update_event(Now, t, x))) /\ Same
RenameTag == kind = "tag" /\ (\E t \in Thing : \E x \in Form(t) : Desk(rename_tag(Now, t, x))) /\ Same
UpdateManualPlace ==
  kind = "place" /\ (\E t \in Thing : \E x \in Form(t) : Desk(update_place(Now, t, x))) /\ Same
RenamePerson ==
  kind = "person" /\ (\E t \in Thing : \E x \in Form(t) : Desk(rename_person(Now, t, x))) /\ Same

Deletes(Op(_, _)) == (\E t \in Thing : Desk(Op(Now, t))) /\ Same
DeleteEvent == kind = "event" /\ Deletes(delete_event)
DeleteTag == kind = "tag" /\ Deletes(delete_tag)
DeleteManualPlace == kind = "place" /\ Deletes(delete_place)
DeletePerson == kind = "person" /\ Deletes(delete_person)

\* What the selection of the library, or the viewer's photo, is added to.
To(Op(_, _, _)) == (\E t \in Thing, A \in Picked : Desk(Op(Now, t, A))) /\ Same
ViewerTo(Op(_, _, _)) == (\E t \in Thing, a \in Asset : Quiet(Op(Now, t, {a}))) /\ Same

AssignSelectedEvent == kind = "event" /\ To(add_assets_to_event)
AssignSelectedTag == kind = "tag" /\ To(assign_tags)
AssignSelectedPlace == kind = "place" /\ To(assign_place)
AssignSelectedPerson == kind = "person" /\ To(assign_person)
AddSelectedToCollection == kind = "album" /\ To(add_to_user_collection)
AssignViewerEvent == kind = "event" /\ ViewerTo(add_assets_to_event)
AssignViewerTag == kind = "tag" /\ ViewerTo(assign_tags)
AssignViewerPlace == kind = "place" /\ ViewerTo(assign_place)
AssignViewerPerson == kind = "person" /\ ViewerTo(assign_person)
AddViewerToCollection == kind = "album" /\ ViewerTo(add_to_user_collection)

RemoveSelectedEvent == kind = "event" /\ To(remove_assets_from_event)
RemoveSelectedTag == kind = "tag" /\ To(remove_tags)
ClearSelectedPlace == kind = "place" /\ To(remove_place)
RemoveSelectedPerson == kind = "person" /\ To(remove_person)
RemoveEventDetailSelection ==
  kind = "event" /\ (\E t \in Thing, A \in Picked : Quiet(remove_assets_from_event(Now, t, A))) /\ Same

\* Reviews and ratings do not refresh the window.
ApplySelectedReview ==
  kind = "review" /\ (\E t \in Thing, A \in Picked : Quiet(set_review(Now, t, A))) /\ Same
ApplySelectedRating ==
  kind = "review" /\ (\E A \in Picked : Quiet(set_rating(Now, A \cap Now.assets))) /\ Same
ApplyViewerReview == kind = "review" /\ ViewerTo(set_review)
ApplyViewerRating ==
  kind = "review" /\ (\E a \in Now.assets : Quiet(set_rating(Now, {a}))) /\ Same

\* A favourite is one asset's, and each of a selection's is a commit of its own.
SetFavourite == kind = "favourite" /\ (\E t \in Thing, a \in Asset : Desk(set_favourite(Now, t, a))) /\ Same
RemoveFavourite ==
  kind = "favourite" /\ (\E t \in Thing, a \in Asset : Desk(remove_favourite(Now, t, a))) /\ Same
ToggleViewerFavourite ==
  /\ kind = "favourite"
  /\ \E t \in Thing, a \in Asset :
       Quiet(IF <<t, a>> \in Now.members THEN remove_favourite(Now, t, a) ELSE set_favourite(Now, t, a))
  /\ Same

\* The selection loses its favourites if all of it are, and else has them all.
ToggleSelectedLibraryFavourites ==
  /\ kind = "favourite"
  /\ \E t \in Thing, a \in Asset :
       \/ <<t, a>> \in Now.members /\ Quiet(remove_favourite(Now, t, a))
       \/ Quiet(set_favourite(Now, t, a))
  /\ Same

SuggestEvents ==
  /\ kind = "event"
  /\ \E G \in Groups(Now) : \E t \in EventFor(Now, G) :
       /\ \/ Desk(Suggest(Now, G, t))
          \/ Half([Suggest(Now, G, t) EXCEPT !.db.members = Now.members])
       /\ made' = IF made[t] = None /\ db'.things[t] # None THEN [made EXCEPT ![t] = RangeOf(G)] ELSE made
  /\ UNCHANGED refused

ApproveSuggestion == \E t \in Thing : kind = "event" /\ Desk(Approve(Now, t)) /\ Same

DismissSuggestion == \E t \in Thing :
  /\ kind = "event" /\ Desk(Dismiss(Now, t))
  /\ refused' = IF There(db, t) /\ db'.things[t] = None /\ db.things[t].range = made[t]
                THEN refused \cup {made[t]} ELSE refused
  /\ UNCHANGED made

\* The window's write when something else in it ends.
Refresh == Desk(Done(Now)) /\ Same

-------------------------------------------------------------------------------
(***************************************************************************)
(* Everybody else.                                                         *)
(***************************************************************************)
Commits(new) ==
  /\ ~held /\ tx # "writing"
  /\ db' = new /\ stale' = (stale \/ tx = "reading")
  /\ UNCHANGED <<kind, view, tx, held, said, late>>

\* A request that does not end well rolls back when its connection is closed.
Web(r) == r.end = "done" /\ Commits(r.db)

WebCreateTopic == \E t \in Fresh, x \in Rows :
  /\ kind = "event" /\ Web(create_event(db, t, x))
  /\ made' = [made EXCEPT ![t] = <<0, 0>>] /\ UNCHANGED refused

WebUpdateTopic == \E t \in Thing :
  /\ kind = "event" /\ There(db, t)
  /\ \E x \in Edited(db.things[t]) : Web(update_event(db, t, x))
  /\ Same

WebDeleteTopic == \E t \in Thing : kind = "event" /\ Web(delete_event(db, t)) /\ Same
WebAddPhotos == \E t \in Thing, A \in Picked : kind = "event" /\ Web(add_assets_to_event(db, t, A)) /\ Same
WebRemovePhotos == \E t \in Thing, A \in Picked : kind = "event" /\ Web(remove_assets_from_event(db, t, A)) /\ Same

\* A scan has an asset removed, with all that refers to it, or catalogued.
AssetGoes == \E a \in db.assets :
  Commits([db EXCEPT !.assets = @ \ {a}, !.members = {m \in @ : m[2] # a}]) /\ Same
AssetComes == \E a \in Asset \ db.assets : Commits([db EXCEPT !.assets = @ \cup {a}]) /\ Same

\* Another program's transaction, for longer than a statement waits.
LockTaken ==
  /\ ~held /\ tx # "writing" /\ held' = TRUE
  /\ UNCHANGED <<kind, db, view, tx, stale, said, late, made, refused>>
LockReleased ==
  /\ held /\ held' = FALSE /\ stale' = (stale \/ tx = "reading")
  /\ UNCHANGED <<kind, db, view, tx, said, late, made, refused>>

OrganisationNext ==
  \/ Look \/ Refresh
  \/ CreateEvent \/ CreateTag \/ CreateManualPlace \/ CreatePerson \/ CreateUserCollection
  \/ CreateEventFromAndroidBatch
  \/ UpdateEvent \/ RenameTag \/ UpdateManualPlace \/ RenamePerson
  \/ DeleteEvent \/ DeleteTag \/ DeleteManualPlace \/ DeletePerson
  \/ AssignSelectedEvent \/ AssignSelectedTag \/ AssignSelectedPlace \/ AssignSelectedPerson
  \/ AssignViewerEvent \/ AssignViewerTag \/ AssignViewerPlace \/ AssignViewerPerson
  \/ AddSelectedToCollection \/ AddViewerToCollection
  \/ RemoveSelectedEvent \/ RemoveSelectedTag \/ ClearSelectedPlace \/ RemoveSelectedPerson
  \/ RemoveEventDetailSelection
  \/ ApplySelectedReview \/ ApplySelectedRating \/ ApplyViewerReview \/ ApplyViewerRating
  \/ SetFavourite \/ RemoveFavourite \/ ToggleViewerFavourite \/ ToggleSelectedLibraryFavourites
  \/ SuggestEvents \/ ApproveSuggestion \/ DismissSuggestion
  \/ WebCreateTopic \/ WebUpdateTopic \/ WebDeleteTopic \/ WebAddPhotos \/ WebRemovePhotos
  \/ AssetGoes \/ AssetComes \/ LockTaken \/ LockReleased

OrganisationSpec == OrganisationInit /\ [][OrganisationNext]_organisationVars

-------------------------------------------------------------------------------
Spans == Ranges \cup {<<Day[a], Day[b]>> : a, b \in Asset}
Row == [name : Title \cup ({"Suggested"} \X Spans) \cup {None}, range : Spans \cup {None},
        suggested : BOOLEAN]
State == [things : [Thing -> {None} \cup Row],
          members : SUBSET (Thing \X Asset), assets : SUBSET Asset, dismissed : SUBSET Spans]

\* Days are counted from 1.
ASSUME OrganisationConstants ==
  /\ IsFiniteSet(Asset) /\ Day \in [Asset -> Nat \ {0}]
  /\ <<0, 0>> \notin Ranges /\ None \notin Row /\ None \notin {<<0, 0>>} \cup Spans

OrganisationTypeOK ==
  /\ kind \in Kinds /\ db \in State /\ view \in State \cup {None}
  /\ tx \in {"none", "open", "reading", "writing"} /\ said \in {"done", "failed"}
  /\ stale \in BOOLEAN /\ held \in BOOLEAN /\ late \in BOOLEAN /\ refused \subseteq Spans
  /\ made \in [Thing -> {None, <<0, 0>>} \cup Spans]

\* The window has the catalog's lock between two handlers only after one that
\* said it failed, and holds back nothing but photos of an album; and what it
\* sees is fixed, and it can write no more, only after a wait for the lock.
LockIsAFailures ==
  /\ tx = "writing" => /\ said = "failed" /\ ~held
                       /\ view # db => kind = "album" /\ view.things = db.things
  /\ tx \in {"open", "reading"} \/ stale => late
  /\ \A m \in db.members : There(db, m[1]) /\ m[2] \in db.assets

\* A suggestion that the user dismissed as it was made is not made again, over
\* approvals, edits, deletions by the web, and photos that come and go.
DismissedStaysAway ==
  [][\A t \in Thing : ~There(db, t) /\ There(db', t) => made'[t] \notin refused]_organisationVars
===============================================================================
