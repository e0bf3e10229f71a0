-------------------------------- MODULE Pairing --------------------------------
(***************************************************************************)
(* Pairing of the desktop with a phone and the sessions that follow from   *)
(* it: AndroidCompanionWifiSource and the web server's handlers on one     *)
(* side, MediaServer, NoisePairingResponder and SharingService on the      *)
(* other, and what each of them keeps.                                     *)
(*                                                                         *)
(* A pairing is three requests of one handler, a comparison of numbers by  *)
(* the user, a confirmation on each device and two commits.  Any request   *)
(* or its answer may be lost; the phone's timers, its Forget button and    *)
(* the death of either process come at any point between the requests, and *)
(* between the three looks the phone takes at a session before it answers. *)
(*                                                                         *)
(* Abstractions.  One desktop and one installation of the companion, whose *)
(* keys and device_id do not change.  A session's number, fingerprint and  *)
(* token are the session itself.  A time that has passed is an action.     *)
(* The desktop asks again only when the phone is done with its request.    *)
(* The rate limit (five pairings a minute) is above Session's size.        *)
(***************************************************************************)
EXTENDS Naturals, FiniteSets

CONSTANTS
  Session,    \* pairings the desktop may start
  MaxWindows, \* bound: presses of "Pair new computer"
  MaxTrouble, \* bound: losses, deaths, restarts, expiries, forgets and revocations
  Nobody      \* no session

ASSUME PairingConstants ==
  MaxWindows \in Nat /\ MaxTrouble \in Nat /\ Session \cap {Nobody, "again"} = {}

VARIABLES
  listening,  \* the phone's server accepts connections
  pairing,    \* pairingEnabled of the newest server object
  timers,     \* posted callbacks that will end a pairing window
  sess,       \* the phone's end of each pairing; `there': it is in pairingSessions
  latest,     \* latestPairingSession
  known,      \* the desktop is in trusted_desktop_fingerprints
  stored,     \* and so it is in the file of the preferences
  tokens,     \* transferSessions; "again": of a reconnection
  checked,    \* a reconnection has passed knownDesktop and not got its token
  answer,     \* the thread that answers a desktop's confirmation: how far it is, whether
              \* it remembered the desktop, whether its server is the newest
  step,       \* how far the desktop has come with each pairing
  remembered, \* android_pairings of the web server
  link,       \* the token the desktop sends
  row,        \* android_pairing_sessions
  trust,      \* trusted_android_devices: "no", "yes" or "revoked"
  phoneYes,   \* history: sessions confirmed on the phone
  deskYes,    \* history: sessions confirmed on the desktop
  parted,     \* history: why the phone may not have the desktop in its list since it
              \* was last entered
  trouble     \* history: faults and changes of mind so far

app == <<listening, pairing, timers, sess, latest, known, stored, tokens, checked, answer>>
desktop == <<step, remembered, link, row, trust>>
history == <<phoneYes, deskYes, parted, trouble>>
pairingVars == <<app, desktop, history>>

NoSess == [seen |-> "none", local |-> FALSE, desk |-> FALSE, live |-> TRUE, there |-> FALSE]
NoAnswer == [at |-> "none", kept |-> FALSE, here |-> TRUE]

PairingInit ==
  /\ listening = FALSE /\ pairing = FALSE /\ timers = 0
  /\ sess = [s \in Session |-> NoSess] /\ latest = Nobody
  /\ known = FALSE /\ stored = FALSE /\ tokens = {} /\ checked = FALSE
  /\ answer = [s \in Session |-> NoAnswer]
  /\ step = [s \in Session |-> "none"] /\ remembered = {} /\ link = Nobody
  /\ row = [s \in Session |-> "none"] /\ trust = "no"
  /\ phoneYes = {} /\ deskYes = {} /\ parted = {} /\ trouble = 0

Trouble == trouble < MaxTrouble /\ trouble' = trouble + 1

-------------------------------------------------------------------------------
(***************************************************************************)
(* The phone.                                                              *)
(***************************************************************************)
\* What pairingSessions loses may still be in a thread's hands.
Removed(s) == [sess EXCEPT ![s].there = FALSE]
Cleared == [s \in Session |-> [sess[s] EXCEPT !.there = FALSE]]

\* A new server object has no pairings and no tokens; a callback that was posted
\* for an old one acts on the new one, and what a thread of the old one grants is
\* looked for in the new one.
StartSharing ==
  /\ \/ ~listening /\ UNCHANGED trouble
     \/ listening /\ Trouble
  /\ listening' = TRUE /\ pairing' = FALSE
  /\ sess' = Cleared /\ latest' = Nobody
  /\ tokens' = {} /\ checked' = FALSE
  /\ answer' = [s \in Session |-> IF answer[s].at = "none" THEN NoAnswer
                                   ELSE [answer[s] EXCEPT !.here = FALSE]]
  /\ UNCHANGED <<timers, known, stored, desktop, phoneYes, deskYes, parted>>

\* The socket is closed; the server object stays where the buttons find it.
StopSharing ==
  /\ listening /\ Trouble
  /\ listening' = FALSE
  /\ UNCHANGED <<pairing, timers, sess, latest, known, stored, tokens, checked, answer, desktop,
                 phoneYes, deskYes, parted>>

EnablePairing ==
  /\ listening /\ timers < MaxWindows
  /\ pairing' = TRUE /\ timers' = timers + 1
  /\ UNCHANGED <<listening, sess, latest, known, stored, tokens, checked, answer, desktop, history>>

\* The callback ends whatever window is open and forgets its pairings.
WindowEnds ==
  /\ timers > 0 /\ Trouble
  /\ timers' = timers - 1 /\ pairing' = FALSE
  /\ sess' = Cleared
  /\ UNCHANGED <<listening, latest, known, stored, tokens, checked, answer, desktop,
                 phoneYes, deskYes, parted>>

Expire(s) ==
  /\ sess[s].there /\ sess[s].live /\ Trouble
  /\ sess' = [sess EXCEPT ![s].live = FALSE]
  /\ UNCHANGED <<listening, pairing, timers, latest, known, stored, tokens, checked, answer, desktop,
                 phoneYes, deskYes, parted>>

Complete(s) == sess[s].seen = "complete"

\* Mutant: the confirmation on the desktop is enough.
PairedByDesktop(s) == Complete(s) /\ sess[s].desk

Paired(s) == Complete(s) /\ sess[s].local /\ sess[s].desk

\* The user confirms the newest pairing on the phone, if its handshake is done.
ConfirmOnPhone ==
  /\ latest # Nobody /\ sess[latest].there /\ Complete(latest)
  /\ IF sess[latest].live
     THEN sess' = [sess EXCEPT ![latest].local = TRUE] /\ phoneYes' = phoneYes \cup {latest}
     ELSE sess' = Removed(latest) /\ UNCHANGED phoneYes
  /\ UNCHANGED <<listening, pairing, timers, latest, known, stored, tokens, checked, answer, desktop,
                 deskYes, parted, trouble>>

ForgetDesktops ==
  /\ known /\ Trouble
  /\ known' = FALSE /\ tokens' = {} /\ parted' = parted \cup {"forgotten"}
  /\ UNCHANGED <<listening, pairing, timers, sess, latest, stored, checked, answer, desktop,
                 phoneYes, deskYes>>

\* SharedPreferences.apply writes the file later.
FlushPreferences ==
  /\ stored # known
  /\ stored' = known
  /\ UNCHANGED <<listening, pairing, timers, sess, latest, known, tokens, checked, answer, desktop,
                 history>>

PhoneDies ==
  /\ listening \/ latest # Nobody
  /\ Trouble
  /\ listening' = FALSE /\ pairing' = FALSE /\ timers' = 0
  /\ sess' = [s \in Session |-> NoSess] /\ latest' = Nobody
  /\ tokens' = {} /\ checked' = FALSE /\ answer' = [s \in Session |-> NoAnswer]
  /\ known' = stored
  /\ parted' = IF known /\ ~stored THEN parted \cup {"unwritten"} ELSE parted
  /\ UNCHANGED <<stored, desktop, phoneYes, deskYes>>

TokenExpires(k) ==
  /\ k \in tokens /\ Trouble
  /\ tokens' = tokens \ {k}
  /\ UNCHANGED <<listening, pairing, timers, sess, latest, known, stored, checked, answer, desktop,
                 phoneYes, deskYes, parted>>

-------------------------------------------------------------------------------
(***************************************************************************)
(* Requests.  A pairing request reaches the phone while it listens and its *)
(* window is open; the desktop fails unless the answer comes back.         *)
(***************************************************************************)
Reach == listening /\ pairing
PhoneOnly(s) == UNCHANGED <<listening, pairing, timers, stored, checked, row, trust, phoneYes>>

\* The answer arrives, and the pairing goes on, or it is lost.
Answered(s, next) ==
  \/ step' = [step EXCEPT ![s] = next] /\ UNCHANGED trouble
  \/ step' = [step EXCEPT ![s] = "failed"] /\ Trouble

Rejected(s) == step' = [step EXCEPT ![s] = "failed"] /\ UNCHANGED trouble

PairStart(s) ==
  /\ step[s] = "none"
  /\ IF Reach
     THEN /\ sess' = [r \in Session |->
                        IF r = s THEN [NoSess EXCEPT !.seen = "started", !.there = TRUE]
                        ELSE [sess[r] EXCEPT !.there = @ /\ sess[r].live]]
          /\ latest' = s
          /\ Answered(s, "started")
     ELSE Rejected(s) /\ UNCHANGED <<sess, latest>>
  /\ UNCHANGED <<known, tokens, answer, remembered, link, deskYes, parted>> /\ PhoneOnly(s)

\* A handshake message of a session that is there and has not expired.
Message(s, from, to) ==
  /\ step[s] = from
  /\ IF Reach /\ sess[s].there /\ sess[s].seen = from /\ sess[s].live
     THEN sess' = [sess EXCEPT ![s].seen = to] /\ Answered(s, to)
     ELSE /\ sess' = IF Reach THEN Removed(s) ELSE sess
          /\ Rejected(s)

FirstMessage(s) ==
  /\ Message(s, "started", "first")
  /\ UNCHANGED <<latest, known, tokens, answer, remembered, link, deskYes, parted>> /\ PhoneOnly(s)

\* The third message completes the handshake; the phone shows the number, and
\* the web server keeps the source and records the pairing.
LastMessage(s) ==
  /\ Message(s, "first", "complete")
  /\ remembered' = IF step'[s] = "complete" THEN remembered \cup {s} ELSE remembered
  /\ row' = IF step'[s] = "complete" THEN [row EXCEPT ![s] = "AWAITING_NUMERIC_CONFIRMATION"] ELSE row
  /\ UNCHANGED <<listening, pairing, timers, latest, known, stored, tokens, checked, answer, link,
                 trust, phoneYes, deskYes, parted>>

\* The desktop's confirmation reaches the phone, and a thread takes it up.
Confirm(s) ==
  /\ step[s] = "complete" /\ s \in remembered /\ answer[s].at = "none"
  /\ deskYes' = deskYes \cup {s}
  /\ IF Reach /\ sess[s].there /\ sess[s].live
     THEN /\ sess' = [sess EXCEPT ![s].desk = TRUE]
          /\ answer' = [answer EXCEPT ![s].at = "asked"]
     ELSE /\ sess' = IF Reach THEN Removed(s) ELSE sess
          /\ UNCHANGED answer
  /\ UNCHANGED <<latest, known, tokens, step, remembered, link, parted, trouble>> /\ PhoneOnly(s)

\* The thread looks whether the session is paired three times, without a lock, and
\* the user may confirm on the phone in between.  First: it remembers the desktop,
\* and an exception in that is ignored.
RememberDesktop(s) ==
  /\ answer[s].at = "asked"
  /\ \/ /\ Paired(s)
        /\ known' = TRUE /\ parted' = {}
        /\ answer' = [answer EXCEPT ![s].at = "remembered", ![s].kept = TRUE]
        /\ UNCHANGED trouble
     \/ /\ (~Paired(s) /\ UNCHANGED trouble) \/ (Paired(s) /\ Trouble)
        /\ answer' = [answer EXCEPT ![s].at = "remembered"]
        /\ UNCHANGED <<known, parted>>
  /\ UNCHANGED <<sess, latest, tokens, step, remembered, link, deskYes>> /\ PhoneOnly(s)

\* A session is taken for paired, and the desktop was not remembered for it.
Unremembered(s) ==
  IF Paired(s) /\ ~answer[s].kept /\ ~known THEN parted \cup {"unremembered"} ELSE parted

\* Second: it opens a transfer session.
OpenTransfer(s) ==
  /\ answer[s].at = "remembered"
  /\ tokens' = IF Paired(s) /\ answer[s].here THEN tokens \cup {s} ELSE tokens
  /\ parted' = Unremembered(s)
  /\ answer' = [answer EXCEPT ![s].at = "opened"]
  /\ UNCHANGED <<sess, latest, known, step, remembered, link, deskYes, trouble>> /\ PhoneOnly(s)

\* Third: it answers.  An answer that says "not paired", or none, leaves the button
\* of the desktop where it was.
AnswerConfirm(s) ==
  /\ answer[s].at = "opened"
  /\ answer' = [answer EXCEPT ![s] = NoAnswer]
  /\ \/ /\ Paired(s) /\ step[s] = "complete"
        /\ step' = [step EXCEPT ![s] = "paired"] /\ link' = s
        /\ parted' = Unremembered(s)
        /\ UNCHANGED trouble
     \/ /\ (~(Paired(s) /\ step[s] = "complete") /\ UNCHANGED trouble) \/ Trouble
        /\ UNCHANGED <<step, link, parted>>
  /\ UNCHANGED <<sess, latest, known, tokens, remembered, deskYes>> /\ PhoneOnly(s)

\* The commits of the confirmation.
TrustDevice(s) ==
  /\ step[s] = "paired"
  /\ trust' = "yes"
  /\ step' = [step EXCEPT ![s] = "trusted"]
  /\ UNCHANGED <<app, remembered, link, row, history>>

RecordPaired(s) ==
  /\ step[s] = "trusted"
  /\ row' = [row EXCEPT ![s] = "PAIRED"]
  /\ step' = [step EXCEPT ![s] = "done"]
  /\ UNCHANGED <<app, remembered, link, trust, history>>

-------------------------------------------------------------------------------
(***************************************************************************)
(* Afterwards.                                                             *)
(***************************************************************************)
\* A request with a token the phone has dropped is answered 401, and tried
\* once more after a reconnection, which needs no window: the phone looks for
\* the desktop in its list, and then opens a transfer session.
Reconnect ==
  /\ trust = "yes" /\ listening /\ link \notin tokens /\ known
  /\ checked' = TRUE
  /\ UNCHANGED <<listening, pairing, timers, sess, latest, known, stored, tokens, answer, desktop,
                 history>>

GrantSession ==
  /\ checked
  /\ checked' = FALSE
  /\ tokens' = tokens \cup {"again"}
  /\ \/ link' = "again" /\ UNCHANGED trouble
     \/ Trouble /\ UNCHANGED link
  /\ UNCHANGED <<listening, pairing, timers, sess, latest, known, stored, answer, step, remembered,
                 row, trust, phoneYes, deskYes, parted>>

RevokeDevice ==
  /\ trust = "yes" /\ Trouble
  /\ trust' = "revoked"
  /\ UNCHANGED <<app, step, remembered, link, row, phoneYes, deskYes, parted>>

\* The pairings in progress are lost with the web server; the catalog is not.
ServerDies ==
  /\ \E s \in Session : step[s] \notin {"none", "failed"}
  /\ Trouble
  /\ remembered' = {} /\ link' = Nobody
  /\ step' = [s \in Session |-> IF step[s] = "none" THEN "none" ELSE "failed"]
  /\ UNCHANGED <<app, row, trust, phoneYes, deskYes, parted>>

PairingNext ==
  \/ StartSharing \/ StopSharing \/ EnablePairing \/ WindowEnds \/ ConfirmOnPhone
  \/ ForgetDesktops \/ FlushPreferences \/ PhoneDies
  \/ \E s \in Session :
       \/ Expire(s) \/ PairStart(s) \/ FirstMessage(s) \/ LastMessage(s)
       \/ Confirm(s) \/ RememberDesktop(s) \/ OpenTransfer(s) \/ AnswerConfirm(s)
       \/ TrustDevice(s) \/ RecordPaired(s)
  \/ \E k \in Session \cup {"again"} : TokenExpires(k)
  \/ Reconnect \/ GrantSession \/ RevokeDevice \/ ServerDies

PairingSpec == PairingInit /\ [][PairingNext]_pairingVars

-------------------------------------------------------------------------------
Sess == [seen : {"none", "started", "first", "complete"},
         local : BOOLEAN, desk : BOOLEAN, live : BOOLEAN, there : BOOLEAN]
Answer == [at : {"none", "asked", "remembered", "opened"}, kept : BOOLEAN, here : BOOLEAN]

PairingTypeOK ==
  /\ listening \in BOOLEAN /\ pairing \in BOOLEAN /\ checked \in BOOLEAN
  /\ known \in BOOLEAN /\ stored \in BOOLEAN /\ parted \subseteq {"forgotten", "unwritten", "unremembered"}
  /\ timers \in 0..MaxWindows /\ trouble \in 0..MaxTrouble
  /\ sess \in [Session -> Sess] /\ answer \in [Session -> Answer]
  /\ latest \in Session \cup {Nobody} /\ link \in Session \cup {Nobody, "again"}
  /\ tokens \subseteq Session \cup {"again"}
  /\ step \in [Session -> {"none", "started", "first", "complete", "paired", "trusted", "done", "failed"}]
  /\ remembered \subseteq Session /\ phoneYes \subseteq Session /\ deskYes \subseteq Session
  /\ row \in [Session -> {"none", "AWAITING_NUMERIC_CONFIRMATION", "PAIRED"}]
  /\ trust \in {"no", "yes", "revoked"}

\* Trust is mutual, over lost answers, repeated confirmations, windows that close
\* and either side's death.  Whatever rests on a pairing, on either side, rests on
\* one that both users confirmed.  The phone the desktop trusts has the desktop in
\* its list, and a phone honours a session only of a desktop in its list, unless
\* the user made it forget the desktop or confirmed between its looks at the
\* session; the list may also be lost with the phone, and its sessions with it.
TrustIsMutual ==
  LET both == phoneYes \cap deskYes IN
  /\ {s \in Session : row[s] = "PAIRED"} \cup ((tokens \cup {link}) \cap Session) \subseteq both
  /\ known \/ trust # "no" => both # {}
  /\ trust = "yes" => known \/ parted # {}
  /\ tokens # {} => known \/ parted \cap {"forgotten", "unremembered"} # {}
===============================================================================
