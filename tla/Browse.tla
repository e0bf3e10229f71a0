--------------------------------- MODULE Browse ----------------------------------
(***************************************************************************)
(* Reading page by page.  The web page asks the server for what follows    *)
(* the last photo it has; the window shows the first page of the library   *)
(* only (its Next and Previous are hidden and do nothing); a backup lists  *)
(* a folder of the phone by asking for what follows the first n photos.    *)
(* Meanwhile photos are rejected and restored elsewhere, or deleted and    *)
(* taken on the phone, the user changes the filter while a page is being   *)
(* loaded, and requests fail.                                              *)
(*                                                                         *)
(* Abstractions.  A time is the number of its moment, two moments a day,   *)
(* and 0 stands for a text SQLite cannot read as a date.  Two filters      *)
(* stand for all of them: none, and one topic.  Thumbnails, facets, folded *)
(* days, collections and the other sort orders are left out.  `rejected'   *)
(* is, of the phone, what is not on it.                                    *)
(***************************************************************************)
EXTENDS Integers, Sequences, FiniteSets

CONSTANTS
  Entries,   \* number of locations in the catalog, in the order of their paths
  Stamps,    \* capture times they may have
  InTopic,   \* entries whose asset is in the topic
  PageSize,  \* photos on a page
  MaxListed, \* bound: photos listed before the web page asks for no more
  MaxReviews \* bound: changes of what is rejected

\* A moment that is moved is a moment.
ASSUME BrowseConstants ==
  /\ Entries \in Nat /\ PageSize \in Nat \ {0} /\ MaxReviews \in Nat
  /\ InTopic \subseteq 1..Entries
  /\ Stamps \subseteq [at : Nat, t : BOOLEAN, shift : Int]
  /\ \A s \in Stamps : s.at # 0 => s.at + s.shift > 0

VARIABLES
  reader,   \* who reads: "web", "window" or "phone"
  taken,    \* the capture time of each entry: moment, "T" before the clock, offset of its source
  twins,    \* entries 1 and 2 are locations of one asset
  rejected, \* entries whose asset is rejected
  filter,   \* state.filters, or the filters of the window
  cursor,   \* state.cursor
  asked,    \* the request under way
  drawn,    \* the button for more is on the page
  listed,   \* state.data.items, or the rows of the window
  more,     \* state.hasMore, the window has shown a part of its total, or the
            \* folder has not been listed to its end
  stay,     \* history: entries that matched all filters `listed' was read with,
            \* ever since it began
  again,    \* history: a page was read from the start again, or a photo was taken
            \* before the place that the listing of the phone had reached
  skipped,  \* history: photos deleted before that place
  reviews   \* history: changes so far, of the phone too

browseVars == <<reader, taken, twins, rejected, filter, cursor, asked, drawn, listed, more,
                stay, again, skipped, reviews>>

Entry == 1..Entries
Filter == {"all", "topic"}
NoCursor == [display |-> 0, asset |-> 0]
Idle == [way |-> "idle", filter |-> "all", cursor |-> NoCursor]

\* Asset ids are in another order than paths.
AssetOf(e) == Entries + 1 - (IF twins /\ e = 2 THEN 1 ELSE e)

\* How the text of a moment compares: "T" comes after the blank of the same day.
Text(at, t) ==
  IF at = 0 THEN 0
  ELSE 4 * ((at - 1) \div 2) + (IF t THEN 2 ELSE 0) + ((at - 1) % 2) + 1

\* The text in the catalog, and the one the library shows and sorts by.
Raw(e) == Text(taken[e].at, taken[e].t)
Display(e) == IF taken[e].at = 0 THEN 0 ELSE Text(taken[e].at + taken[e].shift, FALSE)

Matching(f, unwanted) == (IF f = "topic" THEN InTopic ELSE Entry) \ unwanted
count_library_items(f, unwanted) == Cardinality(Matching(f, unwanted))

\* Rows the catalog leaves unordered come in the order of their paths.
Precedes(e, q) ==
  \/ Display(e) > Display(q)
  \/ /\ Display(e) = Display(q)
     /\ \/ reader = "web" /\ AssetOf(e) < AssetOf(q)
        \/ (reader = "web" => AssetOf(e) = AssetOf(q)) /\ e < q
Before(S, e) == {q \in S : Precedes(q, e)}
InOrder(S) ==
  [n \in 1..Cardinality(S) |-> CHOOSE e \in S : Cardinality(Before(S, e)) = n - 1]

\* A page: the photos behind the first ones, as many as LIMIT allows.
Slice(found, offset) ==
  SubSeq(found, offset + 1, IF offset + PageSize < Len(found) THEN offset + PageSize ELSE Len(found))

BrowseInit ==
  /\ reader \in {"web", "window", "phone"}
  /\ taken \in [Entry -> Stamps] /\ twins \in BOOLEAN
  /\ reader = "phone" => ~twins /\ \A e \in Entry : ~taken[e].t /\ taken[e].shift = 0
  /\ rejected \in IF reader = "phone" THEN SUBSET Entry ELSE {{}}
  /\ filter = "all" /\ cursor = NoCursor /\ drawn = FALSE
  /\ asked = IF reader = "web" THEN [Idle EXCEPT !.way = "first"] ELSE Idle
  /\ listed = <<>> /\ more = FALSE
  /\ stay = {} /\ again = FALSE /\ skipped = 0 /\ reviews = 0

-------------------------------------------------------------------------------
(***************************************************************************)
(* The server.  The place of the cursor is compared with the text in the   *)
(* catalog, the order is that of the text shown.                           *)
(***************************************************************************)
\* Mutant: of the photos of one moment only those before the end of a page are shown.
TiesAreLost(e, c) == c = NoCursor \/ (c.display # 0 /\ Raw(e) < c.display)
Follows(e, c) ==
  \/ c = NoCursor
  \/ c.display # 0 /\ (Raw(e) < c.display \/ (Raw(e) = c.display /\ AssetOf(e) > c.asset))

CursorAt(e) == [display |-> Display(e), asset |-> AssetOf(e)]

LibraryPage(f, c) ==
  LET found == InOrder({e \in Matching(f, rejected) : Follows(e, c)})
      items == Slice(found, 0)
      further == Len(found) > PageSize
  IN [items |-> items, more |-> further,
      next |-> IF further THEN CursorAt(items[Len(items)]) ELSE NoCursor]

-------------------------------------------------------------------------------
(***************************************************************************)
(* The web page.                                                           *)
(***************************************************************************)
\* A filter is chosen; the controls that keep the cursor do not use it either.
Navigate(f) ==
  /\ reader = "web" /\ asked = Idle
  /\ filter' = f /\ cursor' = NoCursor
  /\ asked' = [way |-> "first", filter |-> f, cursor |-> NoCursor]
  /\ UNCHANGED <<reader, taken, twins, rejected, drawn, listed, more, stay, again,
                 skipped, reviews>>

\* While a page is loaded a second load is dropped, and its filter stays.
NavigateWhileLoading(f) ==
  /\ reader = "web" /\ asked # Idle
  /\ filter' = f /\ cursor' = NoCursor
  /\ UNCHANGED <<reader, taken, twins, rejected, asked, drawn, listed, more, stay,
                 again, skipped, reviews>>

\* The Topics tab clears filter and cursor, and draws what was listed before.
OpenTopicsTab ==
  /\ reader = "web"
  /\ filter' = "all" /\ cursor' = NoCursor /\ drawn' = TRUE
  /\ UNCHANGED <<reader, taken, twins, rejected, asked, listed, more, stay, again,
                 skipped, reviews>>

LoadMore ==
  /\ reader = "web" /\ drawn /\ more /\ asked = Idle /\ Len(listed) < MaxListed
  /\ asked' = [way |-> "more", filter |-> filter, cursor |-> cursor]
  /\ UNCHANGED <<reader, taken, twins, rejected, filter, cursor, drawn, listed, more,
                 stay, again, skipped, reviews>>

Answer ==
  LET page == LibraryPage(asked.filter, asked.cursor) IN
  /\ reader = "web"
  /\ \/ /\ asked.way = "first"
        /\ listed' = page.items
        /\ stay' = Matching(asked.filter, rejected) /\ again' = FALSE
     \/ /\ asked.way = "more"
        /\ listed' = listed \o page.items
        /\ stay' = stay \cap Matching(asked.filter, rejected)
        /\ again' = (again \/ asked.cursor = NoCursor)
  /\ cursor' = page.next /\ more' = page.more
  /\ asked' = Idle /\ drawn' = TRUE
  /\ UNCHANGED <<reader, taken, twins, rejected, filter, skipped, reviews>>

\* The error takes the place of the photos; what was loaded is kept behind it.
AnswerFails ==
  /\ asked # Idle
  /\ asked' = Idle /\ drawn' = FALSE
  /\ UNCHANGED <<reader, taken, twins, rejected, filter, cursor, listed, more, stay,
                 again, skipped, reviews>>

-------------------------------------------------------------------------------
(***************************************************************************)
(* The window.                                                             *)
(***************************************************************************)
\* _refresh_library with the filter f.
ShowPage(f, unwanted) ==
  LET found == InOrder(Matching(f, unwanted))
      items == Slice(found, 0)
  IN /\ filter' = f /\ listed' = items
     /\ more' = (Len(items) < count_library_items(f, unwanted))
     /\ stay' = Matching(f, unwanted)
     /\ UNCHANGED <<reader, taken, twins, cursor, asked, drawn, again, skipped>>

InWindow == reader = "window" /\ UNCHANGED <<rejected, reviews>>

ResetPage(f) == InWindow /\ ShowPage(f, rejected)
Refreshed == InWindow /\ ShowPage(filter, rejected)

\* A photo on the page is rejected or restored there.
ReviewShown(e) ==
  LET changed == IF e \in rejected THEN rejected \ {e} ELSE rejected \union {e} IN
  /\ reader = "window" /\ reviews < MaxReviews
  /\ \E i \in DOMAIN listed : listed[i] = e
  /\ rejected' = changed /\ reviews' = reviews + 1
  /\ ShowPage(filter, changed)

\* Somebody else rejects or restores a photo: another window or a command.
ReviewElsewhere(e) ==
  /\ reader # "phone" /\ reviews < MaxReviews /\ reviews' = reviews + 1
  /\ rejected' = IF e \in rejected THEN rejected \ {e} ELSE rejected \union {e}
  /\ stay' = stay \ {e}
  /\ UNCHANGED <<reader, taken, twins, filter, cursor, asked, drawn, listed, more, again, skipped>>

-------------------------------------------------------------------------------
(***************************************************************************)
(* The folder of the phone, the photo that was modified last first.        *)
(***************************************************************************)
ListFolder ==
  /\ reader = "phone" /\ asked = Idle
  /\ asked' = [Idle EXCEPT !.way = "first"]
  /\ listed' = <<>> /\ more' = TRUE
  /\ UNCHANGED <<reader, taken, twins, rejected, filter, cursor, drawn, stay, again,
                 skipped, reviews>>

list_folder_page(offset) ==
  Slice(InOrder(Matching("all", rejected)), offset)

\* iter_folder goes on after a full page, behind as many photos as it has.
IterFolder ==
  LET page == list_folder_page(Len(listed)) IN
  /\ reader = "phone" /\ asked # Idle
  /\ listed' = listed \o page
  /\ more' = (Len(page) = PageSize)
  /\ asked' = IF more' THEN [Idle EXCEPT !.way = "more"] ELSE Idle
  /\ IF asked.way = "first"
     THEN stay' = Matching("all", rejected) /\ again' = FALSE /\ skipped' = 0
     ELSE UNCHANGED <<stay, again, skipped>>
  /\ UNCHANGED <<reader, taken, twins, rejected, filter, cursor, drawn, reviews>>

\* The photo comes before as many photos of the folder as have been listed.
Passed(e) == Cardinality(Before(Matching("all", rejected), e)) < Len(listed)

\* A photo is taken or deleted on the phone.
PhoneChanges(e) ==
  /\ reader = "phone" /\ reviews < MaxReviews /\ reviews' = reviews + 1
  /\ rejected' = IF e \in rejected THEN rejected \ {e} ELSE rejected \union {e}
  /\ stay' = stay \ {e}
  /\ again' = (again \/ (Passed(e) /\ e \in rejected))
  /\ skipped' = IF Passed(e) /\ e \notin rejected THEN skipped + 1 ELSE skipped
  /\ UNCHANGED <<reader, taken, twins, filter, cursor, asked, drawn, listed, more>>

BrowseNext ==
  \/ \E f \in Filter : Navigate(f) \/ NavigateWhileLoading(f)
  \/ OpenTopicsTab \/ LoadMore \/ Answer \/ AnswerFails
  \/ \E f \in Filter : ResetPage(f)
  \/ Refreshed
  \/ \E e \in Entry : ReviewShown(e) \/ ReviewElsewhere(e)
  \/ ListFolder \/ IterFolder \/ \E e \in Entry : PhoneChanges(e)

BrowseSpec == BrowseInit /\ [][BrowseNext]_browseVars

-------------------------------------------------------------------------------
BrowseTypeOK ==
  /\ reader \in {"web", "window", "phone"} /\ twins \in BOOLEAN /\ taken \in [Entry -> Stamps]
  /\ rejected \subseteq Entry /\ stay \subseteq Entry /\ filter \in Filter
  /\ cursor \in [display : Nat, asset : 0..Entries]
  /\ asked \in [way : {"idle", "first", "more"}, filter : Filter,
                cursor : [display : Nat, asset : 0..Entries]]
  /\ listed \in Seq(Entry) /\ reviews \in 0..MaxReviews
  /\ {drawn, more, again} \subseteq BOOLEAN /\ skipped \in Nat

Times(e) == Cardinality({i \in DOMAIN listed : listed[i] = e})

\* The photos that pages of the web end with, where the next page goes on.
PageEnds ==
  {listed[n * PageSize] : n \in {i \in 1..Len(listed) : i * PageSize <= Len(listed)}}

\* What the comparison of the cursor with the text in the catalog passes over: the
\* text an entry is compared by begins after the end of a page and the one it is
\* sorted by does not (a "T" against a blank, on one day); another location of its
\* asset has its time; or no date can be read.
Straddled(e) ==
  reader = "web" /\ \E q \in PageEnds :
    /\ Display(e) <= Display(q) /\ Display(q) <= Raw(e)
    /\ Display(e) # Raw(e) \/ Raw(e) = 0 \/ AssetOf(q) = AssetOf(e)

(***************************************************************************)
(* Pages put together show each photo once.  None is shown twice while no  *)
(* source moves its times forward, unless the web page starts again (the   *)
(* Topics tab clears the cursor, not the list) or a photo is taken before  *)
(* the place that the listing of the phone has reached.  When there is no  *)
(* more, of the photos that matched ever since, whatever was rejected,     *)
(* restored, filtered or failed in between, the web lacks only those that  *)
(* its cursor passes over at the end of a page, the window none, and a     *)
(* backup at most as many as were deleted before the place it had reached. *)
(***************************************************************************)
PagesShowEachOnce ==
  /\ ~again /\ (\A q \in Entry : Display(q) <= Raw(q)) => \A e \in stay : Times(e) < 2
  /\ ~more /\ asked = Idle =>
       Cardinality({e \in stay : Times(e) = 0 /\ ~Straddled(e)}) <= skipped
===============================================================================
