----------------------------- MODULE BackupHistory -----------------------------
(***************************************************************************)
(* What the backup history of a profile promises, whoever runs the         *)
(* backups: a run is opened once and closed at most once, it is called     *)
(* completed only when every item it selected is kept, what is kept is     *)
(* never given up, and the profile's last completed run is a run that      *)
(* completed.  A process may die at any point: its run stays open.         *)
(***************************************************************************)
EXTENDS FiniteSets

CONSTANTS
  Run,   \* backup runs
  Item   \* the items a run selects

VARIABLES
  state,  \* of each run: "none", "RUNNING" or how it was closed
  kept,   \* items with a verified import on record
  last    \* the runs the profile may name as its last completed one

vars == <<state, kept, last>>

Closed == {"COMPLETED", "CANCELLED", "FAILED"}

Init ==
  /\ state = [r \in Run |-> "none"]
  /\ kept = {}
  /\ last = {}

Open(r) ==
  /\ state[r] = "none"
  /\ state' = [state EXCEPT ![r] = "RUNNING"]
  /\ UNCHANGED <<kept, last>>

Keep(i) ==
  /\ kept' = kept \cup {i}
  /\ UNCHANGED <<state, last>>

Close(r, how) ==
  /\ state[r] = "RUNNING"
  /\ how = "COMPLETED" => kept = Item
  /\ state' = [state EXCEPT ![r] = how]
  /\ last' = IF how = "COMPLETED" THEN {r} ELSE last
  /\ UNCHANGED kept

Next ==
  \/ \E r \in Run : Open(r) \/ \E how \in Closed : Close(r, how)
  \/ \E i \in Item : Keep(i)

Spec == Init /\ [][Next]_vars
===============================================================================
