-------------------------------- MODULE Culling ---------------------------------
(***************************************************************************)
(* Picks and rejects of one topic: the pages of culling.js that are open,  *)
(* and the decisions the web server keeps for them.  A page shows a choice *)
(* at once and sends it later, one request after the other; a request that *)
(* fails is followed by a query for what the server has.  Requests and     *)
(* answers may be lost, a request may take effect after the page has given *)
(* it up, photos leave the topic and return, and the topic may be deleted  *)
(* meanwhile.                                                              *)
(*                                                                         *)
(* Abstractions.  Sections, previews and the pages of the grid are left    *)
(* out.                                                                    *)
(***************************************************************************)
EXTENDS Naturals, Sequences, FiniteSets

CONSTANTS
  Page,      \* pages that are open
  Photo,     \* photos of the topic
  MaxClicks, \* bound: choices of a page
  MaxFaults, \* bound: requests and answers that are lost or given up
  MaxChanges \* bound: changes of the topic by others

VARIABLES
  topic,    \* the topic exists
  members,  \* event_assets
  decided,  \* topic_culling: "pick", "reject" or "clear" for no row
  picks,    \* model.decisions of each page
  queue,    \* model.queue of each page: choices that are not settled
  request,  \* what has become of the first of them
  fresh,    \* the answer to the query after a failure
  clicks,   \* choices made on each page
  strays,   \* requests a page has given up and the server has not: waiting for the lock
  astray,   \* history: photos on which a page may be wrong since it last asked
  faults,   \* history: losses so far
  changes   \* history: changes by others so far

cullingVars == <<topic, members, decided, picks, queue, request, fresh, clicks, strays, astray,
          faults, changes>>

Decision == {"pick", "reject", "clear"}
Nothing == [p \in Photo |-> "clear"]

\* What the server tells of the decisions: those on photos of the topic.
Told == [p \in Photo |-> IF p \in members THEN decided[p] ELSE "clear"]

CullingInit ==
  /\ topic = TRUE /\ members = Photo /\ decided = Nothing
  /\ picks = [g \in Page |-> Nothing] /\ queue = [g \in Page |-> <<>>]
  /\ request = [g \in Page |-> "none"] /\ fresh = [g \in Page |-> Nothing]
  /\ clicks = [g \in Page |-> 0] /\ strays = {} /\ astray = [g \in Page |-> {}]
  /\ faults = 0 /\ changes = 0

-------------------------------------------------------------------------------
(***************************************************************************)
(* A page.                                                                 *)
(***************************************************************************)
\* A fault; a request that is given up is told from others by the number of it.
Fault == faults < MaxFaults /\ faults' = faults + 1
GivenUp(g) ==
  LET c == Head(queue[g]) IN
  strays' = strays \cup {[nr |-> faults, photo |-> c.photo, next |-> c.next,
                     looked |-> request[g] = "checked"]}
UnderWay(g) == request[g] \in {"sent", "checked"}

\* Reloading the page forgets what was not sent, and gives up what was.
Boot(g) ==
  /\ topic /\ clicks[g] > 0
  /\ IF UnderWay(g) THEN Fault /\ GivenUp(g) ELSE UNCHANGED <<strays, faults>>
  /\ picks' = [picks EXCEPT ![g] = Told] /\ queue' = [queue EXCEPT ![g] = <<>>]
  /\ request' = [request EXCEPT ![g] = "none"] /\ fresh' = [fresh EXCEPT ![g] = Nothing]
  /\ astray' = [astray EXCEPT ![g] = {}]
  /\ UNCHANGED <<topic, members, decided, clicks, changes>>

\* A choice that is made a second time is taken back.
DecisionFor(current, action) == IF current = action THEN "clear" ELSE action

Decide(g, p, action) ==
  LET next == DecisionFor(picks[g][p], action) IN
  /\ clicks[g] < MaxClicks
  /\ clicks' = [clicks EXCEPT ![g] = @ + 1]
  /\ picks' = [picks EXCEPT ![g][p] = next]
  /\ queue' = [queue EXCEPT ![g] = Append(@, [photo |-> p, next |-> next, previous |-> picks[g][p]])]
  /\ request' = [request EXCEPT ![g] = IF @ = "none" THEN "waiting" ELSE @]
  /\ UNCHANGED <<topic, members, decided, fresh, strays, astray, faults, changes>>

Step(g, from, to) == request[g] = from /\ request' = [request EXCEPT ![g] = to]

Send(g) ==
  /\ Step(g, "waiting", "sent")
  /\ UNCHANGED <<topic, members, decided, picks, queue, fresh, clicks, strays, astray, faults, changes>>

\* The choice at the head is settled, and the next one waits to be sent.
Settled(g) ==
  /\ queue' = [queue EXCEPT ![g] = Tail(@)]
  /\ request' = [request EXCEPT ![g] = IF Len(queue[g]) = 1 THEN "none" ELSE "waiting"]

Saved(g) ==
  /\ request[g] = "done" /\ Settled(g)
  /\ UNCHANGED <<topic, members, decided, picks, fresh, clicks, strays, astray, faults, changes>>

\* The photos of the choices that wait behind the one at the head.
Behind(g) == {queue[g][i].photo : i \in 2..Len(queue[g])}

\* Mutant: after a failure the page keeps what it shows.
KeepShown(g) ==
  /\ request[g] = "answered" /\ Settled(g) /\ fresh' = [fresh EXCEPT ![g] = Nothing]
  /\ astray' = [astray EXCEPT ![g] = @ \cup Behind(g)]
  /\ UNCHANGED <<topic, members, decided, picks, clicks, strays, faults, changes>>

\* The decisions that were asked for replace those that are shown, later choices
\* of the user included.
TakeFresh(g) ==
  /\ request[g] = "answered" /\ Settled(g)
  /\ picks' = [picks EXCEPT ![g] = fresh[g]] /\ fresh' = [fresh EXCEPT ![g] = Nothing]
  /\ astray' = [astray EXCEPT ![g] = @ \cup Behind(g)]
  /\ UNCHANGED <<topic, members, decided, clicks, strays, faults, changes>>

\* The query fails as well: what the photo had before the choice is shown, also
\* over a later choice for it.
TakePrevious(g) ==
  LET c == Head(queue[g]) IN
  /\ request[g] = "failed" /\ Settled(g)
  /\ picks' = [picks EXCEPT ![g][c.photo] = c.previous]
  /\ astray' = [astray EXCEPT ![g] = @ \cup (Behind(g) \cap {c.photo})]
  /\ UNCHANGED <<topic, members, decided, fresh, clicks, strays, faults, changes>>

-------------------------------------------------------------------------------
(***************************************************************************)
(* The server.                                                             *)
(***************************************************************************)
\* require_topic and the photo's membership are looked up before the row is
\* written.
Check(g) ==
  /\ Step(g, "sent", IF topic /\ Head(queue[g]).photo \in members THEN "checked" ELSE "failed")
  /\ UNCHANGED <<topic, members, decided, picks, queue, fresh, clicks, strays, astray, faults, changes>>

\* The row refers to the topic.
Write(c) == decided' = IF topic THEN [decided EXCEPT ![c.photo] = c.next] ELSE decided

SetDecision(g) ==
  LET c == Head(queue[g]) IN
  /\ Step(g, "checked", IF topic \/ c.next = "clear" THEN "done" ELSE "failed")
  /\ Write(c)
  /\ astray' = [h \in Page |-> IF h = g THEN astray[h] ELSE astray[h] \cup {c.photo}]
  /\ UNCHANGED <<topic, members, picks, queue, fresh, clicks, strays, faults, changes>>

\* The request does not arrive, or the catalog is locked for too long.
Lose(g) ==
  /\ UnderWay(g) /\ Step(g, request[g], "failed") /\ Fault
  /\ UNCHANGED <<topic, members, decided, picks, queue, fresh, clicks, strays, astray, changes>>

\* The choice is kept and the page is not told.
LoseAnswer(g) ==
  /\ Step(g, "done", "failed") /\ Fault
  /\ astray' = [astray EXCEPT ![g] = @ \cup {Head(queue[g]).photo}]
  /\ UNCHANGED <<topic, members, decided, picks, queue, fresh, clicks, strays, changes>>

\* The connection breaks and the server's thread goes on.
GiveUp(g) ==
  /\ UnderWay(g) /\ Step(g, request[g], "failed") /\ Fault /\ GivenUp(g)
  /\ UNCHANGED <<topic, members, decided, picks, queue, fresh, clicks, astray, changes>>

CheckStray(l) ==
  /\ ~l.looked
  /\ strays' = (strays \ {l}) \cup
             {k \in {[l EXCEPT !.looked = TRUE]} : topic /\ l.photo \in members}
  /\ UNCHANGED <<topic, members, decided, picks, queue, request, fresh, clicks, astray, faults,
                 changes>>

SetStray(l) ==
  /\ l.looked /\ strays' = strays \ {l}
  /\ Write(l)
  /\ astray' = [g \in Page |-> astray[g] \cup {l.photo}]
  /\ UNCHANGED <<topic, members, picks, queue, request, fresh, clicks, faults, changes>>

\* The page asks, and is right again with what it is told.
Decisions(g) ==
  /\ topic /\ Step(g, "failed", "answered")
  /\ fresh' = [fresh EXCEPT ![g] = Told] /\ astray' = [astray EXCEPT ![g] = {}]
  /\ UNCHANGED <<topic, members, decided, picks, queue, clicks, strays, faults, changes>>

Others(changed) ==
  /\ topic /\ changes < MaxChanges /\ changes' = changes + 1
  /\ astray' = [g \in Page |-> astray[g] \cup changed]
  /\ UNCHANGED <<picks, queue, request, fresh, clicks, strays, faults>>

\* The decision outlives the membership.
RemovePhoto(p) ==
  Others({p}) /\ p \in members /\ members' = members \ {p} /\ UNCHANGED <<topic, decided>>
AddPhoto(p) ==
  Others({p}) /\ p \notin members /\ members' = members \cup {p} /\ UNCHANGED <<topic, decided>>
DeleteTopic == Others(Photo) /\ topic' = FALSE /\ members' = {} /\ decided' = Nothing

CullingNext ==
  \/ \E g \in Page :
       \/ Boot(g) \/ Send(g) \/ Saved(g) \/ TakeFresh(g) \/ TakePrevious(g)
       \/ Check(g) \/ SetDecision(g) \/ Decisions(g)
       \/ Lose(g) \/ LoseAnswer(g) \/ GiveUp(g)
       \/ \E p \in Photo, action \in {"pick", "reject"} : Decide(g, p, action)
  \/ \E l \in strays : CheckStray(l) \/ SetStray(l)
  \/ \E p \in Photo : RemovePhoto(p) \/ AddPhoto(p)
  \/ DeleteTopic

CullingSpec == CullingInit /\ [][CullingNext]_cullingVars

-------------------------------------------------------------------------------
Choice == [photo : Photo, next : Decision, previous : Decision]
Stray == [nr : Nat, photo : Photo, next : Decision, looked : BOOLEAN]
Request == {"none", "waiting", "sent", "checked", "done", "failed", "answered"}

CullingTypeOK ==
  /\ topic \in BOOLEAN /\ members \subseteq Photo /\ decided \in [Photo -> Decision]
  /\ picks \in [Page -> [Photo -> Decision]] /\ fresh \in [Page -> [Photo -> Decision]]
  /\ queue \in [Page -> Seq(Choice)] /\ request \in [Page -> Request]
  /\ strays \subseteq Stray /\ astray \in [Page -> SUBSET Photo] /\ faults \in Nat

\* Picks are server-backed: once a page has nothing pending it shows of every photo
\* what the server has, whatever was lost, taken back and chosen again, in the
\* topic and out of it.  A page may be wrong, until it asks the next time, on a
\* photo whose decision or membership somebody else changed since it last asked; on
\* one that was chosen while an earlier request failed; on one whose choice was kept
\* when both the answer and the query after it were lost; and on one whose choice
\* was kept after the page had given it up.
PicksAreServerBacked ==
  \A g \in Page : queue[g] = <<>> => \A p \in Photo \ astray[g] : picks[g][p] = Told[p]
===============================================================================
