--------------------------------- MODULE Schema --------------------------------
(***************************************************************************)
(* The catalog's schema and the processes that open it: MIGRATIONS and     *)
(* apply_migrations.  A version is a script.  executescript commits what   *)
(* is pending and then runs statement after statement, each committed on   *)
(* its own; the row that records the version starts a transaction that the *)
(* next script or the end commits.  A process may die between any two      *)
(* statements, and two processes may open one catalog at the same time.    *)
(*                                                                         *)
(* Abstractions.  The schema is the set of the names of its tables, added  *)
(* columns and indexes.  Version 22 rebuilds asset_locations, so the rows  *)
(* of that table are kept; no other script touches rows.                   *)
(***************************************************************************)
EXTENDS Naturals, Sequences, FiniteSets, SequencesExt

CONSTANTS
  Process,    \* programs that open the catalog
  Releases,   \* versions the catalog may be at when the first of them does
  MaxMishaps  \* bound: deaths and lock failures

VARIABLES
  objects,  \* tables, added columns and indexes
  rows,     \* rows of asset_locations and of asset_locations_v22
  recorded, \* schema_migrations
  proc,     \* the processes
  added,    \* history: rows that have been committed
  rebuilt,  \* history: a process has renamed asset_locations_v22
  raced,    \* history: another one has begun version 22 after that
  mishaps   \* history: deaths and lock failures so far

schemaVars == <<objects, rows, recorded, proc, added, rebuilt, raced, mishaps>>

-------------------------------------------------------------------------------
(***************************************************************************)
(* The scripts.                                                            *)
(***************************************************************************)
Creates(names) == [i \in DOMAIN names |-> <<"create", names[i]>>]

Main == "asset_locations"
Copy == "asset_locations_v22"
MainIndexes == {"idx_asset_locations_volume", "idx_asset_locations_asset",
                "idx_asset_locations_size", "idx_asset_locations_source"}

\* Volumes, assets, their files and hashes, backup sets and the journal.
Integrity == <<
  Creates(<<"volumes", "assets", Main, "scan_sessions", "scan_errors", "idx_asset_locations_volume",
           "idx_asset_locations_asset", "idx_asset_locations_size", "idx_scan_sessions_volume">>),
  Creates(<<"exact_hashes", "idx_exact_hashes_sha256">>),
  Creates(<<"backup_sets", "backup_set_members", "idx_backup_members_set", "idx_backup_members_volume">>),
  Creates(<<"operations", "operation_items", "verification_history", "idx_operations_status",
           "idx_operation_items_operation", "idx_verification_history_asset">>) >>

\* What is derived from the files.
Derived == <<
  Creates(<<"media_metadata", "gps_metadata", "thumbnails", "idx_media_metadata_capture",
           "idx_gps_metadata_coordinates">>),
  Creates(<<"perceptual_hashes", "idx_perceptual_hashes_lookup", "duplicate_groups",
           "duplicate_group_members", "idx_duplicate_group_members_asset">>),
  Creates(<<"place_clusters", "place_cluster_members", "idx_place_cluster_members_asset">>),
  Creates(<<"embeddings", "idx_embeddings_model">>) >>

\* Sources, imports and backup profiles; favourites.
Sources == <<
  Creates(<<"source_profiles", "source_items", "idx_source_items_source">>),
  Creates(<<"source_imports", "idx_source_imports_lookup">>),
  Creates(<<"android_backup_profiles", "idx_android_backup_profiles_source",
           "android_backup_snapshots", "idx_android_backup_snapshots_profile">>),
  Creates(<<"asset_favourites", "idx_asset_favourites_updated">>),
  Creates(<<"android_backup_profile_folders", "idx_android_backup_profile_folders_profile">>) >>

\* Places of the sources, people, categories and albums.
Views == <<
  Creates(<<"source_items.latitude", "source_items.longitude", "source_imports.latitude",
           "source_imports.longitude", "gps_metadata.location_source">>),
  Creates(<<"people", "person_members", "idx_person_members_asset">>),
  Creates(<<"image_categories", "idx_image_categories_label">>),
  Creates(<<"user_collections", "user_collection_members", "idx_user_collection_members_asset">>) >>

\* Events, tags, places and reviews; batches, dismissals, failed thumbnails.
Organisation == <<
  Creates(<<"source_profiles.source_type", "source_profiles.persistent_device_id",
           "source_profiles.time_offset_seconds", "source_profiles.metadata_json",
           "asset_locations.source_id", "events", "event_assets", "idx_events_dates",
           "idx_event_assets_asset", "tags", "asset_tags", "idx_asset_tags_tag", "places",
           "asset_places", "idx_asset_places_place", "asset_reviews", "idx_asset_reviews_status",
           "idx_asset_reviews_rating", "idx_asset_locations_source">>),
  Creates(<<"import_batches", "source_imports.batch_id", "idx_import_batches_source",
           "idx_import_batches_destination", "idx_source_imports_batch">>),
  Creates(<<"dismissed_event_suggestions">>),
  Creates(<<"thumbnail_failures">>) >>

\* asset_locations again, with another unique key.
Rebuild == <<
  <<"create", Copy>>, <<"copy", Copy>>, <<"drop", Main>>, <<"rename", Copy>>,
  <<"create", "idx_asset_locations_volume">>, <<"create", "idx_asset_locations_asset">>,
  <<"create", "idx_asset_locations_size">>, <<"create", "idx_asset_locations_source">> >>

\* Pairings and topics.
Devices == <<
  Rebuild,
  Creates(<<"trusted_android_devices", "idx_trusted_android_source", "android_pairing_sessions",
           "idx_android_pairing_sessions_expiry">>),
  Creates(<<"android_pairing_requests_v2", "idx_android_pairing_v2_active_device",
           "idx_android_pairing_v2_expiry">>),
  Creates(<<"topic_sections", "topic_section_assets", "idx_topic_sections_topic",
           "idx_topic_section_assets_asset">>) >>

Culling == << Creates(<<"topic_culling">>) >>

Migrations == Integrity \o Derived \o Sources \o Views \o Organisation \o Devices \o Culling
Version == DOMAIN Migrations

\* What a version leaves behind.
Made(v) == {s[2] : s \in Range(Migrations[v])} \ {Copy}

-------------------------------------------------------------------------------
Closed == [pc |-> "closed", applied |-> {}, version |-> 0, at |-> 0, pending |-> 0]

SchemaInit ==
  \E k \in Releases :
    /\ recorded = 1..k
    /\ objects = UNION {Made(v) : v \in 1..k}
    /\ rows = [t \in {Main, Copy} |-> IF t = Main /\ k > 0 THEN {"old"} ELSE {}]
    /\ added = rows[Main]
    /\ proc = [p \in Process |-> Closed]
    /\ rebuilt = (k >= 22) /\ raced = FALSE /\ mishaps = 0

\* A row of schema_migrations that is not committed yet holds the write lock.
Free(p) == \A q \in Process \ {p} : proc[q].pending = 0

\* The connection of a process that has raised is closed, and rolls back.
Raises(p) == proc' = [proc EXCEPT ![p] = [Closed EXCEPT !.pc = "failed"]]

Open(p) ==
  /\ proc[p].pc = "closed"
  /\ proc' = [proc EXCEPT ![p] = [Closed EXCEPT !.pc = "next", !.applied = recorded]]
  /\ UNCHANGED <<objects, rows, recorded, added, rebuilt, raced, mishaps>>

Todo(p) == Version \ (proc[p].applied \cup 1..proc[p].version)

\* Mutant: the version is recorded with the script's first statement.
RecordFirst(p) ==
  /\ proc[p].pc = "next" /\ Todo(p) # {}
  /\ LET v == CHOOSE v \in Todo(p) : \A w \in Todo(p) : v <= w IN
     /\ proc' = [proc EXCEPT ![p].pc = "script", ![p].at = 1, ![p].pending = 0, ![p].version = v]
     /\ recorded' = recorded \cup {v}
  /\ UNCHANGED <<objects, rows, added, rebuilt, raced, mishaps>>

\* executescript: what is pending is committed.
BeginScript(p) ==
  /\ proc[p].pc = "next" /\ Todo(p) # {}
  /\ proc' = [proc EXCEPT ![p].pc = "script", ![p].at = 1, ![p].pending = 0,
                          ![p].version = CHOOSE v \in Todo(p) : \A w \in Todo(p) : v <= w]
  /\ recorded' = recorded \cup ({proc[p].pending} \ {0})
  /\ UNCHANGED <<objects, rows, added, rebuilt, raced, mishaps>>

Current(p) == Migrations[proc[p].version][proc[p].at]

\* What SQLite refuses: a name that is there, a table that is not.
Possible(s) ==
  CASE s[1] = "create" -> s[2] \notin objects /\ (s[2] \in MainIndexes => Main \in objects)
    [] s[1] = "rename" -> Copy \in objects /\ Main \notin objects
    [] OTHER -> Main \in objects /\ (s[1] = "copy" => Copy \in objects)

Effect(s) ==
  /\ objects' = CASE s[1] = "create" -> objects \cup {s[2]}
                  [] s[1] = "drop" -> objects \ ({Main} \cup MainIndexes)
                  [] s[1] = "rename" -> (objects \ {Copy}) \cup {Main}
                  [] OTHER -> objects
  /\ rows' = CASE s[1] = "copy" -> [rows EXCEPT ![Copy] = rows[Main]]
               [] s[1] = "drop" -> [rows EXCEPT ![Main] = {}]
               [] s[1] = "rename" -> [rows EXCEPT ![Main] = rows[Copy], ![Copy] = {}]
               [] OTHER -> rows
  /\ rebuilt' = (rebuilt \/ s[1] = "rename")
  /\ raced' = (raced \/ (s = <<"create", Copy>> /\ rebuilt))

Statement(p) ==
  /\ proc[p].pc = "script" /\ proc[p].at <= Len(Migrations[proc[p].version])
  /\ Free(p)
  /\ IF Possible(Current(p))
     THEN Effect(Current(p)) /\ proc' = [proc EXCEPT ![p].at = @ + 1]
     ELSE Raises(p) /\ UNCHANGED <<objects, rows, rebuilt, raced>>
  /\ UNCHANGED <<recorded, added, mishaps>>

\* The row of the version opens a transaction; a second one of it is refused.
Record(p) ==
  /\ proc[p].pc = "script" /\ proc[p].at > Len(Migrations[proc[p].version])
  /\ Free(p)
  /\ IF proc[p].version \in recorded
     THEN Raises(p)
     ELSE proc' = [proc EXCEPT ![p].pc = "next", ![p].pending = proc[p].version]
  /\ UNCHANGED <<objects, rows, recorded, added, rebuilt, raced, mishaps>>

\* Mutant: a version is recorded though none is pending.
ReadyRecords(p) ==
  /\ proc[p].pc = "next" /\ Todo(p) = {}
  /\ proc' = [proc EXCEPT ![p].pc = "ready", ![p].pending = 0]
  /\ recorded' = recorded \cup {proc[p].pending}
  /\ UNCHANGED <<objects, rows, added, rebuilt, raced, mishaps>>

Ready(p) ==
  /\ proc[p].pc = "next" /\ Todo(p) = {}
  /\ proc' = [proc EXCEPT ![p].pc = "ready", ![p].pending = 0]
  /\ recorded' = recorded \cup ({proc[p].pending} \ {0})
  /\ UNCHANGED <<objects, rows, added, rebuilt, raced, mishaps>>

\* A process that is ready catalogues a file.
AddRow(p) ==
  /\ proc[p].pc = "ready" /\ Free(p) /\ Main \in objects
  /\ rows' = [rows EXCEPT ![Main] = @ \cup {"new"}]
  /\ added' = added \cup {"new"}
  /\ UNCHANGED <<objects, recorded, proc, rebuilt, raced, mishaps>>

\* The catalog stays locked by a program that is ready for longer than a
\* statement waits, or the process dies: what was pending is not recorded.
LockedOut(p) ==
  /\ mishaps < MaxMishaps /\ proc[p].pc = "script"
  /\ \E q \in Process \ {p} : proc[q].pc = "ready"
  /\ Raises(p)
  /\ mishaps' = mishaps + 1
  /\ UNCHANGED <<objects, rows, recorded, added, rebuilt, raced>>

Die(p) ==
  /\ mishaps < MaxMishaps /\ proc[p].pc # "closed"
  /\ proc' = [proc EXCEPT ![p] = Closed]
  /\ mishaps' = mishaps + 1
  /\ UNCHANGED <<objects, rows, recorded, added, rebuilt, raced>>

SchemaNext == \E p \in Process :
  \/ Open(p) \/ BeginScript(p) \/ Statement(p) \/ Record(p) \/ Ready(p)
  \/ AddRow(p) \/ LockedOut(p) \/ Die(p)

SchemaSpec == SchemaInit /\ [][SchemaNext]_schemaVars

-------------------------------------------------------------------------------
ASSUME SchemaConstants == Releases \subseteq {0} \cup Version /\ MaxMishaps \in Nat

SchemaTypeOK ==
  /\ objects \subseteq (UNION {Made(v) : v \in Version}) \cup {Copy}
  /\ rows \in [{Main, Copy} -> SUBSET {"old", "new"}] /\ added \subseteq {"old", "new"}
  /\ recorded \subseteq Version /\ mishaps \in 0..MaxMishaps
  /\ rebuilt \in BOOLEAN /\ raced \in BOOLEAN
  /\ proc \in [Process -> [pc : {"closed", "next", "script", "ready", "failed"},
                           applied : SUBSET Version, version : Version \cup {0},
                           at : Nat, pending : Version \cup {0}]]

\* A catalog whose next version would be refused on the next opening.
Broken == \E v \in Version \ recorded :
  (\A w \in Version \ recorded : v <= w) /\ ~Possible(Migrations[v][1])

\* A recorded version is there in full and a ready process has all of them, no
\* committed row is in neither table, and only an interrupted upgrade breaks a
\* catalog: whichever statement a process dies at and whoever opens it meanwhile,
\* unless a second process begins version 22 after a first has done it.
SchemaIsWhole ==
  ~raced =>
    /\ \A v \in recorded :
         Made(v) \subseteq objects \cup IF 22 \in recorded THEN {} ELSE {Main} \cup MainIndexes
    /\ (\E p \in Process : proc[p].pc = "ready") => recorded = Version
    /\ added \subseteq rows[Main] \cup rows[Copy]
    /\ Broken => mishaps > 0 \/ \E p \in Process : proc[p].pc \in {"next", "script"}
===============================================================================
