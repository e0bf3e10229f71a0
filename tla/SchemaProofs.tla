---------------------------- MODULE SchemaProofs ----------------------------
(***************************************************************************)
(* Proofs about Schema, for every set of processes, every release the      *)
(* catalog may come from and any number of deaths: recorded versions are   *)
(* there in full and no committed row is lost, as long as no one begins    *)
(* version 22 again after it has been done.                                *)
(***************************************************************************)
EXTENDS Schema, NaturalsInduction, WellFoundedInduction, TLAPS

-------------------------------------------------------------------------------
\* Two sequences joined.
LEMMA JoinedSequences ==
  ASSUME NEW S, NEW s \in Seq(S), NEW t \in Seq(S)
  PROVE  /\ s \o t \in Seq(S) /\ Len(s \o t) = Len(s) + Len(t)
         /\ \A i \in 1..Len(s) + Len(t) : (s \o t)[i] = IF i <= Len(s) THEN s[i] ELSE t[i - Len(s)]
  OBVIOUS
\* The scripts of all parts.
Script ==
  UNION {{g[i] : i \in 1..Len(g)} :
           g \in {Integrity, Derived, Sources, Views, Organisation, Devices, Culling}}

\* The parts of the list, as sequences of scripts.
LEMMA PartsAre ==
  /\ Integrity \in Seq(Script) /\ Len(Integrity) = 4
  /\ Derived \in Seq(Script) /\ Len(Derived) = 4
  /\ Sources \in Seq(Script) /\ Len(Sources) = 5
  /\ Views \in Seq(Script) /\ Len(Views) = 4
  /\ Organisation \in Seq(Script) /\ Len(Organisation) = 4
  /\ Devices \in Seq(Script) /\ Len(Devices) = 4
  /\ Culling \in Seq(Script) /\ Len(Culling) = 1
<1>1. ASSUME NEW a, NEW b, NEW c, NEW d
      PROVE  Len(<<a, b, c, d>>) = 4 /\ <<a, b, c, d>> \in Seq({<<a, b, c, d>>[i] : i \in 1..4})
  OBVIOUS
<1>2. ASSUME NEW a, NEW b, NEW c, NEW d, NEW e
      PROVE  Len(<<a, b, c, d, e>>) = 5 /\ <<a, b, c, d, e>> \in Seq({<<a, b, c, d, e>>[i] : i \in 1..5})
  OBVIOUS
<1>3. ASSUME NEW S, NEW s \in Seq(S), NEW T, S \subseteq T
      PROVE  s \in Seq(T)
  BY <1>3
<1>4. Integrity \in Seq({Integrity[i] : i \in 1..4}) /\ Len(Integrity) = 4
  BY <1>1 DEF Integrity
<1>5. Derived \in Seq({Derived[i] : i \in 1..4}) /\ Len(Derived) = 4
  BY <1>1 DEF Derived
<1>6. Sources \in Seq({Sources[i] : i \in 1..5}) /\ Len(Sources) = 5
  BY <1>2 DEF Sources
<1>7. Views \in Seq({Views[i] : i \in 1..4}) /\ Len(Views) = 4
  BY <1>1 DEF Views
<1>8. Organisation \in Seq({Organisation[i] : i \in 1..4}) /\ Len(Organisation) = 4
  BY <1>1 DEF Organisation
<1>9. Devices \in Seq({Devices[i] : i \in 1..4}) /\ Len(Devices) = 4
  BY <1>1 DEF Devices
<1>10. Culling \in Seq({Culling[i] : i \in 1..1}) /\ Len(Culling) = 1
  BY DEF Culling
<1>11. \A g \in {Integrity, Derived, Sources, Views, Organisation, Devices, Culling} :
         {g[i] : i \in 1..Len(g)} \subseteq Script
  BY DEF Script
<1> HIDE DEF Script
<1> QED BY <1>3, <1>4, <1>5, <1>6, <1>7, <1>8, <1>9, <1>10, <1>11

\* What each version is: the list is the parts one after the other.
LEMMA MigrationsAre ==
  /\ Version = 1..26
  /\ \A i \in 1..4 : Migrations[i] = Integrity[i]
  /\ \A i \in 5..8 : Migrations[i] = Derived[i - 4]
  /\ \A i \in 9..13 : Migrations[i] = Sources[i - 8]
  /\ \A i \in 14..17 : Migrations[i] = Views[i - 13]
  /\ \A i \in 18..21 : Migrations[i] = Organisation[i - 17]
  /\ \A i \in 22..25 : Migrations[i] = Devices[i - 21]
  /\ \A i \in 26..26 : Migrations[i] = Culling[i - 25]
<1> DEFINE a == Integrity \o Derived
           b == a \o Sources
           c == b \o Views
           d == c \o Organisation
           e == d \o Devices
           f == e \o Culling
<1>1. a \in Seq(Script) /\ Len(a) = 8
  <2>1. Integrity \in Seq(Script) /\ Derived \in Seq(Script)
    BY PartsAre
  <2>2. a \in Seq(Script) /\ Len(a) = Len(Integrity) + Len(Derived)
    BY <2>1, JoinedSequences
  <2> HIDE DEF a
  <2> QED BY <2>2, PartsAre
<1>2. \A i \in 1..8 : a[i] = IF i <= 4 THEN Integrity[i] ELSE Derived[i - 4]
  <2>1. Integrity \in Seq(Script) /\ Derived \in Seq(Script)
    BY PartsAre
  <2>2. \A i \in 1..Len(Integrity) + Len(Derived) : a[i] = IF i <= Len(Integrity) THEN Integrity[i]
                                                 ELSE Derived[i - Len(Integrity)]
    BY <2>1, JoinedSequences
  <2> HIDE DEF a
  <2>3. Len(Integrity) = 4 /\ Len(Derived) = 4
    BY PartsAre
  <2> QED BY <2>2, <2>3
<1> HIDE DEF a
<1>3. b \in Seq(Script) /\ Len(b) = 13
  <2>1. a \in Seq(Script) /\ Sources \in Seq(Script)
    BY <1>1, PartsAre
  <2>2. b \in Seq(Script) /\ Len(b) = Len(a) + Len(Sources)
    BY <2>1, JoinedSequences
  <2> HIDE DEF b
  <2> QED BY <1>1, <2>2, PartsAre
<1>4. \A i \in 1..13 : b[i] = IF i <= 8 THEN a[i] ELSE Sources[i - 8]
  <2>1. a \in Seq(Script) /\ Sources \in Seq(Script)
    BY <1>1, PartsAre
  <2>2. \A i \in 1..Len(a) + Len(Sources) : b[i] = IF i <= Len(a) THEN a[i] ELSE Sources[i - Len(a)]
    BY <2>1, JoinedSequences
  <2> HIDE DEF b
  <2>3. Len(a) = 8 /\ Len(Sources) = 5
    BY <1>1, PartsAre
  <2> QED BY <2>2, <2>3
<1> HIDE DEF b
<1>5. c \in Seq(Script) /\ Len(c) = 17
  <2>1. b \in Seq(Script) /\ Views \in Seq(Script)
    BY <1>3, PartsAre
  <2>2. c \in Seq(Script) /\ Len(c) = Len(b) + Len(Views)
    BY <2>1, JoinedSequences
  <2> HIDE DEF c
  <2> QED BY <1>3, <2>2, PartsAre
<1>6. \A i \in 1..17 : c[i] = IF i <= 13 THEN b[i] ELSE Views[i - 13]
  <2>1. b \in Seq(Script) /\ Views \in Seq(Script)
    BY <1>3, PartsAre
  <2>2. \A i \in 1..Len(b) + Len(Views) : c[i] = IF i <= Len(b) THEN b[i] ELSE Views[i - Len(b)]
    BY <2>1, JoinedSequences
  <2> HIDE DEF c
  <2>3. Len(b) = 13 /\ Len(Views) = 4
    BY <1>3, PartsAre
  <2> QED BY <2>2, <2>3
<1> HIDE DEF c
<1>7. d \in Seq(Script) /\ Len(d) = 21
  <2>1. c \in Seq(Script) /\ Organisation \in Seq(Script)
    BY <1>5, PartsAre
  <2>2. d \in Seq(Script) /\ Len(d) = Len(c) + Len(Organisation)
    BY <2>1, JoinedSequences
  <2> HIDE DEF d
  <2> QED BY <1>5, <2>2, PartsAre
<1>8. \A i \in 1..21 : d[i] = IF i <= 17 THEN c[i] ELSE Organisation[i - 17]
  <2>1. c \in Seq(Script) /\ Organisation \in Seq(Script)
    BY <1>5, PartsAre
  <2>2. \A i \in 1..Len(c) + Len(Organisation) : d[i] = IF i <= Len(c) THEN c[i] ELSE Organisation[i - Len(c)]
    BY <2>1, JoinedSequences
  <2> HIDE DEF d
  <2>3. Len(c) = 17 /\ Len(Organisation) = 4
    BY <1>5, PartsAre
  <2> QED BY <2>2, <2>3
<1> HIDE DEF d
<1>9. e \in Seq(Script) /\ Len(e) = 25
  <2>1. d \in Seq(Script) /\ Devices \in Seq(Script)
    BY <1>7, PartsAre
  <2>2. e \in Seq(Script) /\ Len(e) = Len(d) + Len(Devices)
    BY <2>1, JoinedSequences
  <2> HIDE DEF e
  <2> QED BY <1>7, <2>2, PartsAre
<1>10. \A i \in 1..25 : e[i] = IF i <= 21 THEN d[i] ELSE Devices[i - 21]
  <2>1. d \in Seq(Script) /\ Devices \in Seq(Script)
    BY <1>7, PartsAre
  <2>2. \A i \in 1..Len(d) + Len(Devices) : e[i] = IF i <= Len(d) THEN d[i] ELSE Devices[i - Len(d)]
    BY <2>1, JoinedSequences
  <2> HIDE DEF e
  <2>3. Len(d) = 21 /\ Len(Devices) = 4
    BY <1>7, PartsAre
  <2> QED BY <2>2, <2>3
<1> HIDE DEF e
<1>11. f \in Seq(Script) /\ Len(f) = 26
  <2>1. e \in Seq(Script) /\ Culling \in Seq(Script)
    BY <1>9, PartsAre
  <2>2. f \in Seq(Script) /\ Len(f) = Len(e) + Len(Culling)
    BY <2>1, JoinedSequences
  <2> HIDE DEF f
  <2> QED BY <1>9, <2>2, PartsAre
<1>12. \A i \in 1..26 : f[i] = IF i <= 25 THEN e[i] ELSE Culling[i - 25]
  <2>1. e \in Seq(Script) /\ Culling \in Seq(Script)
    BY <1>9, PartsAre
  <2>2. \A i \in 1..Len(e) + Len(Culling) : f[i] = IF i <= Len(e) THEN e[i] ELSE Culling[i - Len(e)]
    BY <2>1, JoinedSequences
  <2> HIDE DEF f
  <2>3. Len(e) = 25 /\ Len(Culling) = 1
    BY <1>9, PartsAre
  <2> QED BY <2>2, <2>3
<1> HIDE DEF f
<1>13. Migrations = f
  BY DEF a, b, c, d, e, f, Migrations
<1>14. \A i \in 1..4 : f[i] = Integrity[i]
  BY <1>2, <1>4, <1>6, <1>8, <1>10, <1>12
<1>15. \A i \in 5..8 : f[i] = Derived[i - 4]
  BY <1>2, <1>4, <1>6, <1>8, <1>10, <1>12
<1>16. \A i \in 9..13 : f[i] = Sources[i - 8]
  BY <1>4, <1>6, <1>8, <1>10, <1>12
<1>17. \A i \in 14..17 : f[i] = Views[i - 13]
  BY <1>6, <1>8, <1>10, <1>12
<1>18. \A i \in 18..21 : f[i] = Organisation[i - 17]
  BY <1>8, <1>10, <1>12
<1>19. \A i \in 22..25 : f[i] = Devices[i - 21]
  BY <1>10, <1>12
<1>20. \A i \in 26..26 : f[i] = Culling[i - 25]
  BY <1>12
<1>21. DOMAIN f = 1..26
  BY <1>11
<1> QED BY <1>13, <1>21, <1>14, <1>15, <1>16, <1>17, <1>18, <1>19, <1>20 DEF Version

-------------------------------------------------------------------------------
\* The names that each part of the list creates, but for those of version 22.
IntegrityNames == {"volumes", "assets", "asset_locations", "scan_sessions", "scan_errors",
    "idx_asset_locations_volume", "idx_asset_locations_asset", "idx_asset_locations_size",
    "idx_scan_sessions_volume", "exact_hashes", "idx_exact_hashes_sha256", "backup_sets",
    "backup_set_members", "idx_backup_members_set", "idx_backup_members_volume", "operations",
    "operation_items", "verification_history", "idx_operations_status",
    "idx_operation_items_operation", "idx_verification_history_asset"}
DerivedNames == {"media_metadata", "gps_metadata", "thumbnails", "idx_media_metadata_capture",
    "idx_gps_metadata_coordinates", "perceptual_hashes", "idx_perceptual_hashes_lookup",
    "duplicate_groups", "duplicate_group_members", "idx_duplicate_group_members_asset",
    "place_clusters", "place_cluster_members", "idx_place_cluster_members_asset", "embeddings",
    "idx_embeddings_model"}
SourcesNames == {"source_profiles", "source_items", "idx_source_items_source",
    "source_imports", "idx_source_imports_lookup", "android_backup_profiles",
    "idx_android_backup_profiles_source", "android_backup_snapshots",
    "idx_android_backup_snapshots_profile", "asset_favourites", "idx_asset_favourites_updated",
    "android_backup_profile_folders", "idx_android_backup_profile_folders_profile"}
ViewsNames == {"source_items.latitude", "source_items.longitude", "source_imports.latitude",
    "source_imports.longitude", "gps_metadata.location_source", "people", "person_members",
    "idx_person_members_asset", "image_categories", "idx_image_categories_label",
    "user_collections", "user_collection_members", "idx_user_collection_members_asset"}
OrganisationNames == {"source_profiles.source_type", "source_profiles.persistent_device_id",
    "source_profiles.time_offset_seconds", "source_profiles.metadata_json",
    "asset_locations.source_id", "events", "event_assets", "idx_events_dates",
    "idx_event_assets_asset", "tags", "asset_tags", "idx_asset_tags_tag", "places",
    "asset_places", "idx_asset_places_place", "asset_reviews", "idx_asset_reviews_status",
    "idx_asset_reviews_rating", "idx_asset_locations_source", "import_batches",
    "source_imports.batch_id", "idx_import_batches_source", "idx_import_batches_destination",
    "idx_source_imports_batch", "dismissed_event_suggestions", "thumbnail_failures"}
DevicesNames == {"trusted_android_devices", "idx_trusted_android_source",
    "android_pairing_sessions", "idx_android_pairing_sessions_expiry",
    "android_pairing_requests_v2", "idx_android_pairing_v2_active_device",
    "idx_android_pairing_v2_expiry", "topic_sections", "topic_section_assets",
    "idx_topic_sections_topic", "idx_topic_section_assets_asset"}
CullingNames == {"topic_culling"}

\* The part of a version, and the names of a part.
Part(v) == CASE v \in 1..4 -> 1 [] v \in 5..8 -> 2 [] v \in 9..13 -> 3 [] v \in 14..17 -> 4
             [] v \in 18..21 -> 5 [] v \in 23..25 -> 6 [] v = 26 -> 7
NamesIn(v) == CASE Part(v) = 1 -> IntegrityNames [] Part(v) = 2 -> DerivedNames
                [] Part(v) = 3 -> SourcesNames [] Part(v) = 4 -> ViewsNames
                [] Part(v) = 5 -> OrganisationNames [] Part(v) = 6 -> DevicesNames
                [] Part(v) = 7 -> CullingNames
\* Scripts a to b of a part have statements, which create names of a set, each once.
AreScripts(g, a, b, names) ==
  /\ \A v \in a..b : /\ Len(g[v]) \in Nat \ {0} /\ DOMAIN g[v] = 1..Len(g[v])
                     /\ \A i \in DOMAIN g[v] : /\ g[v][i] = <<"create", g[v][i][2]>>
                                             /\ g[v][i][2] \in names
  /\ \A v, w \in a..b : \A i \in DOMAIN g[v], j \in DOMAIN g[w] :
       g[v][i][2] = g[w][j][2] => v = w /\ i = j

\* Each part creates names of its own, none of them twice.
LEMMA IntegrityScripts == AreScripts(Integrity, 1, 4, IntegrityNames)
<1>1. \A v \in 1..4 : Len(Integrity[v]) \in Nat \ {0} /\ DOMAIN Integrity[v] = 1..Len(Integrity[v])
  BY DEF Integrity, Creates, Main
<1>2. \A v \in 1..4 : \A i \in DOMAIN Integrity[v] : Integrity[v][i] = <<"create", Integrity[v][i][2]>>
  BY SMTT(30) DEF Integrity, Creates, Main
<1>3. \A v \in 1..4 : \A i \in DOMAIN Integrity[v] : Integrity[v][i][2] \in IntegrityNames
  BY SMTT(30) DEF Integrity, Creates, IntegrityNames, Main
<1>4. \A v, w \in 1..4 : \A i \in DOMAIN Integrity[v], j \in DOMAIN Integrity[w] :
        Integrity[v][i][2] = Integrity[w][j][2] => v = w /\ i = j
  BY SMTT(30) DEF Integrity, Creates, Main
<1> QED BY <1>1, <1>2, <1>3, <1>4 DEF AreScripts

\* The same of Derived.
LEMMA DerivedScripts == AreScripts(Derived, 1, 4, DerivedNames)
<1>1. \A v \in 1..4 : Len(Derived[v]) \in Nat \ {0} /\ DOMAIN Derived[v] = 1..Len(Derived[v])
  BY DEF Derived, Creates
<1>2. \A v \in 1..4 : \A i \in DOMAIN Derived[v] : Derived[v][i] = <<"create", Derived[v][i][2]>>
  BY SMTT(30) DEF Derived, Creates
<1>3. \A v \in 1..4 : \A i \in DOMAIN Derived[v] : Derived[v][i][2] \in DerivedNames
  BY SMTT(30) DEF Derived, Creates, DerivedNames
<1>4. \A v, w \in 1..4 : \A i \in DOMAIN Derived[v], j \in DOMAIN Derived[w] :
        Derived[v][i][2] = Derived[w][j][2] => v = w /\ i = j
  BY SMTT(30) DEF Derived, Creates
<1> QED BY <1>1, <1>2, <1>3, <1>4 DEF AreScripts

\* The same of Sources.
LEMMA SourcesScripts == AreScripts(Sources, 1, 5, SourcesNames)
<1>1. \A v \in 1..5 : Len(Sources[v]) \in Nat \ {0} /\ DOMAIN Sources[v] = 1..Len(Sources[v])
  BY DEF Sources, Creates
<1>2. \A v \in 1..5 : \A i \in DOMAIN Sources[v] : Sources[v][i] = <<"create", Sources[v][i][2]>>
  BY SMTT(30) DEF Sources, Creates
<1>3. \A v \in 1..5 : \A i \in DOMAIN Sources[v] : Sources[v][i][2] \in SourcesNames
  BY SMTT(30) DEF Sources, Creates, SourcesNames
<1>4. \A v, w \in 1..5 : \A i \in DOMAIN Sources[v], j \in DOMAIN Sources[w] :
        Sources[v][i][2] = Sources[w][j][2] => v = w /\ i = j
  BY SMTT(30) DEF Sources, Creates
<1> QED BY <1>1, <1>2, <1>3, <1>4 DEF AreScripts

\* The same of Views.
LEMMA ViewsScripts == AreScripts(Views, 1, 4, ViewsNames)
<1>1. \A v \in 1..4 : Len(Views[v]) \in Nat \ {0} /\ DOMAIN Views[v] = 1..Len(Views[v])
  BY DEF Views, Creates
<1>2. \A v \in 1..4 : \A i \in DOMAIN Views[v] : Views[v][i] = <<"create", Views[v][i][2]>>
  BY SMTT(30) DEF Views, Creates
<1>3. \A v \in 1..4 : \A i \in DOMAIN Views[v] : Views[v][i][2] \in ViewsNames
  BY SMTT(30) DEF Views, Creates, ViewsNames
<1>4. \A v, w \in 1..4 : \A i \in DOMAIN Views[v], j \in DOMAIN Views[w] :
        Views[v][i][2] = Views[w][j][2] => v = w /\ i = j
  BY SMTT(30) DEF Views, Creates
<1> QED BY <1>1, <1>2, <1>3, <1>4 DEF AreScripts

\* The same of Organisation.
LEMMA OrganisationScripts == AreScripts(Organisation, 1, 4, OrganisationNames)
<1>1. \A v \in 1..4 : Len(Organisation[v]) \in Nat \ {0} /\ DOMAIN Organisation[v] = 1..Len(Organisation[v])
  BY SMTT(30) DEF Organisation, Creates
<1>2. \A v \in 1..4 : \A i \in DOMAIN Organisation[v] : Organisation[v][i] = <<"create", Organisation[v][i][2]>>
  BY SMTT(30) DEF Organisation, Creates
<1>3. \A v \in 1..4 : \A i \in DOMAIN Organisation[v] : Organisation[v][i][2] \in OrganisationNames
  BY SMTT(30) DEF Organisation, Creates, OrganisationNames
<1>4. \A v, w \in 1..4 : \A i \in DOMAIN Organisation[v], j \in DOMAIN Organisation[w] :
        Organisation[v][i][2] = Organisation[w][j][2] => v = w /\ i = j
  BY SMTT(30) DEF Organisation, Creates
<1> QED BY <1>1, <1>2, <1>3, <1>4 DEF AreScripts

\* The same of Devices.
LEMMA DevicesScripts == AreScripts(Devices, 2, 4, DevicesNames)
<1>1. \A v \in 2..4 : Len(Devices[v]) \in Nat \ {0} /\ DOMAIN Devices[v] = 1..Len(Devices[v])
  BY DEF Devices, Creates
<1>2. \A v \in 2..4 : \A i \in DOMAIN Devices[v] : Devices[v][i] = <<"create", Devices[v][i][2]>>
  BY SMTT(30) DEF Devices, Creates
<1>3. \A v \in 2..4 : \A i \in DOMAIN Devices[v] : Devices[v][i][2] \in DevicesNames
  BY SMTT(30) DEF Devices, Creates, DevicesNames
<1>4. \A v, w \in 2..4 : \A i \in DOMAIN Devices[v], j \in DOMAIN Devices[w] :
        Devices[v][i][2] = Devices[w][j][2] => v = w /\ i = j
  BY SMTT(30) DEF Devices, Creates
<1> QED BY <1>1, <1>2, <1>3, <1>4 DEF AreScripts

\* The same of Culling.
LEMMA CullingScripts == AreScripts(Culling, 1, 1, CullingNames)
<1>1. \A v \in 1..1 : Len(Culling[v]) \in Nat \ {0} /\ DOMAIN Culling[v] = 1..Len(Culling[v])
  BY DEF Culling, Creates
<1>2. \A v \in 1..1 : \A i \in DOMAIN Culling[v] : Culling[v][i] = <<"create", Culling[v][i][2]>>
  BY SMTT(30) DEF Culling, Creates
<1>3. \A v \in 1..1 : \A i \in DOMAIN Culling[v] : Culling[v][i][2] \in CullingNames
  BY SMTT(30) DEF Culling, Creates, CullingNames
<1>4. \A v, w \in 1..1 : \A i \in DOMAIN Culling[v], j \in DOMAIN Culling[w] :
        Culling[v][i][2] = Culling[w][j][2] => v = w /\ i = j
  BY SMTT(30) DEF Culling, Creates
<1> QED BY <1>1, <1>2, <1>3, <1>4 DEF AreScripts

\* No two parts create the same name.
LEMMA NamesApart ==
  /\ IntegrityNames \cap DerivedNames = {}
  /\ IntegrityNames \cap SourcesNames = {}
  /\ IntegrityNames \cap ViewsNames = {}
  /\ IntegrityNames \cap OrganisationNames = {}
  /\ IntegrityNames \cap DevicesNames = {}
  /\ IntegrityNames \cap CullingNames = {}
  /\ DerivedNames \cap SourcesNames = {}
  /\ DerivedNames \cap ViewsNames = {}
  /\ DerivedNames \cap OrganisationNames = {}
  /\ DerivedNames \cap DevicesNames = {}
  /\ DerivedNames \cap CullingNames = {}
  /\ SourcesNames \cap ViewsNames = {}
  /\ SourcesNames \cap OrganisationNames = {}
  /\ SourcesNames \cap DevicesNames = {}
  /\ SourcesNames \cap CullingNames = {}
  /\ ViewsNames \cap OrganisationNames = {}
  /\ ViewsNames \cap DevicesNames = {}
  /\ ViewsNames \cap CullingNames = {}
  /\ OrganisationNames \cap DevicesNames = {}
  /\ OrganisationNames \cap CullingNames = {}
  /\ DevicesNames \cap CullingNames = {}
<1>1. /\ IntegrityNames \cap DerivedNames = {}
      /\ IntegrityNames \cap SourcesNames = {}
      /\ IntegrityNames \cap ViewsNames = {}
      /\ IntegrityNames \cap OrganisationNames = {}
      /\ IntegrityNames \cap DevicesNames = {}
      /\ IntegrityNames \cap CullingNames = {}
  BY DEF IntegrityNames, DerivedNames, SourcesNames, ViewsNames, OrganisationNames, DevicesNames, CullingNames
<1>2. /\ DerivedNames \cap SourcesNames = {}
      /\ DerivedNames \cap ViewsNames = {}
      /\ DerivedNames \cap OrganisationNames = {}
      /\ DerivedNames \cap DevicesNames = {}
      /\ DerivedNames \cap CullingNames = {}
  BY DEF DerivedNames, SourcesNames, ViewsNames, OrganisationNames, DevicesNames, CullingNames
<1>3. /\ SourcesNames \cap ViewsNames = {}
      /\ SourcesNames \cap OrganisationNames = {}
      /\ SourcesNames \cap DevicesNames = {}
      /\ SourcesNames \cap CullingNames = {}
  BY DEF SourcesNames, ViewsNames, OrganisationNames, DevicesNames, CullingNames
<1>4. /\ ViewsNames \cap OrganisationNames = {}
      /\ ViewsNames \cap DevicesNames = {}
      /\ ViewsNames \cap CullingNames = {}
  BY DEF ViewsNames, OrganisationNames, DevicesNames, CullingNames
<1>5. OrganisationNames \cap DevicesNames = {} /\ OrganisationNames \cap CullingNames = {}
  BY DEF OrganisationNames, DevicesNames, CullingNames
<1>6. DevicesNames \cap CullingNames = {}
  BY DEF DevicesNames, CullingNames
<1> QED BY <1>1, <1>2, <1>3, <1>4, <1>5, <1>6

\* What version 22 builds again, and the versions that only create.
M == {Main} \cup MainIndexes
Plain == Version \ {22}

\* What statement i of a version names.
Name(v, i) == Migrations[v][i][2]
Statements(v) == DOMAIN Migrations[v]

\* The versions; all but one of them only create.
LEMMA Versions == Version = 1..26 /\ Plain = 1..21 \cup 23..26 /\ Migrations[22] = Rebuild
<1>1. Version = 1..26
  BY MigrationsAre
<1>2. Migrations[22] = Devices[1]
  BY MigrationsAre
<1> QED BY <1>1, <1>2 DEF Plain, Devices

\* Versions o + a to o + b are scripts a to b of the part g.
IsPart(g, o, a, b) == \A w \in o + a..o + b : Migrations[w] = g[w - o]
AreVersions(o, a, b, names) == \A v \in o + a..o + b :
  /\ Len(Migrations[v]) \in Nat \ {0} /\ Statements(v) = 1..Len(Migrations[v])
  /\ \A i \in Statements(v) : Migrations[v][i] = <<"create", Name(v, i)>> /\ Name(v, i) \in names
  /\ \A w \in o + a..o + b : \A i \in Statements(v), j \in Statements(w) :
       Name(v, i) = Name(w, j) => v = w /\ i = j

\* What holds of a part holds of its versions.
LEMMA OfPart ==
  ASSUME NEW g, NEW o \in Nat, NEW a \in Nat, NEW b \in Nat, NEW names, AreScripts(g, a, b, names),
         IsPart(g, o, a, b)
  PROVE  AreVersions(o, a, b, names)
<1> SUFFICES ASSUME NEW v \in o + a..o + b
             PROVE  /\ Len(Migrations[v]) \in Nat \ {0} /\ Statements(v) = 1..Len(Migrations[v])
                    /\ \A i \in Statements(v) : Migrations[v][i] = <<"create", Name(v, i)>> /\ Name(v, i) \in names
                    /\ \A w \in o + a..o + b : \A i \in Statements(v), j \in Statements(w) :
                         Name(v, i) = Name(w, j) => v = w /\ i = j
  BY DEF AreVersions
<1> USE DEF IsPart
<1>1. \A w \in o + a..o + b : w - o \in a..b
  OBVIOUS
<1>2. Len(Migrations[v]) \in Nat \ {0} /\ Statements(v) = 1..Len(Migrations[v])
  BY <1>1 DEF AreScripts, Statements
<1>3. ASSUME NEW i \in Statements(v)
      PROVE  Migrations[v][i] = <<"create", Name(v, i)>> /\ Name(v, i) \in names
  BY <1>1, <1>3 DEF AreScripts, Statements, Name
<1>4. ASSUME NEW w \in o + a..o + b, NEW i \in Statements(v), NEW j \in Statements(w), Name(v, i) = Name(w, j)
      PROVE  v = w /\ i = j
  <2>1. v - o \in a..b /\ w - o \in a..b /\ Migrations[v] = g[v - o] /\ Migrations[w] = g[w - o]
    BY <1>1
  <2>2. i \in DOMAIN g[v - o] /\ j \in DOMAIN g[w - o] /\ g[v - o][i][2] = g[w - o][j][2]
    BY <1>4, <2>1 DEF Statements, Name
  <2>3. v - o = w - o /\ i = j
    BY <2>1, <2>2 DEF AreScripts
  <2> QED BY <2>3
<1> QED BY <1>2, <1>3, <1>4

\* What a version of the list creates is one of the names of its part.
LEMMA Scripts ==
  ASSUME NEW v \in Plain
  PROVE  /\ Len(Migrations[v]) \in Nat \ {0} /\ Statements(v) = 1..Len(Migrations[v])
         /\ \A i \in Statements(v) : Migrations[v][i] = <<"create", Name(v, i)>> /\ Name(v, i) \in NamesIn(v)
         /\ \A w \in Plain : Part(v) = Part(w) =>
              \A i \in Statements(v), j \in Statements(w) : Name(v, i) = Name(w, j) => v = w /\ i = j
<1>1. CASE v \in 1..4
  <2>1. IsPart(Integrity, 0, 1, 4)
    BY MigrationsAre DEF IsPart
  <2>2. v \in 0 + 1..0 + 4 /\ Part(v) = 1 /\ NamesIn(v) = IntegrityNames
    BY <1>1 DEF Part, NamesIn
  <2>3. \A w \in Plain : Part(w) = 1 => w \in 0 + 1..0 + 4
    BY Versions DEF Part
  <2>4. AreVersions(0, 1, 4, IntegrityNames)
    BY <2>1, IntegrityScripts, OfPart
  <2> QED BY <2>2, <2>3, <2>4 DEF AreVersions
<1>2. CASE v \in 5..8
  <2>1. IsPart(Derived, 4, 1, 4)
    BY MigrationsAre DEF IsPart
  <2>2. v \in 4 + 1..4 + 4 /\ Part(v) = 2 /\ NamesIn(v) = DerivedNames
    BY <1>2 DEF Part, NamesIn
  <2>3. \A w \in Plain : Part(w) = 2 => w \in 4 + 1..4 + 4
    BY Versions DEF Part
  <2>4. AreVersions(4, 1, 4, DerivedNames)
    BY <2>1, DerivedScripts, OfPart
  <2> QED BY <2>2, <2>3, <2>4 DEF AreVersions
<1>3. CASE v \in 9..13
  <2>1. IsPart(Sources, 8, 1, 5)
    BY MigrationsAre DEF IsPart
  <2>2. v \in 8 + 1..8 + 5 /\ Part(v) = 3 /\ NamesIn(v) = SourcesNames
    BY <1>3 DEF Part, NamesIn
  <2>3. \A w \in Plain : Part(w) = 3 => w \in 8 + 1..8 + 5
    BY Versions DEF Part
  <2>4. AreVersions(8, 1, 5, SourcesNames)
    BY <2>1, SourcesScripts, OfPart
  <2> QED BY <2>2, <2>3, <2>4 DEF AreVersions
<1>4. CASE v \in 14..17
  <2>1. IsPart(Views, 13, 1, 4)
    BY MigrationsAre DEF IsPart
  <2>2. v \in 13 + 1..13 + 4 /\ Part(v) = 4 /\ NamesIn(v) = ViewsNames
    BY <1>4 DEF Part, NamesIn
  <2>3. \A w \in Plain : Part(w) = 4 => w \in 13 + 1..13 + 4
    BY Versions DEF Part
  <2>4. AreVersions(13, 1, 4, ViewsNames)
    BY <2>1, ViewsScripts, OfPart
  <2> QED BY <2>2, <2>3, <2>4 DEF AreVersions
<1>5. CASE v \in 18..21
  <2>1. IsPart(Organisation, 17, 1, 4)
    BY MigrationsAre DEF IsPart
  <2>2. v \in 17 + 1..17 + 4 /\ Part(v) = 5 /\ NamesIn(v) = OrganisationNames
    BY <1>5 DEF Part, NamesIn
  <2>3. \A w \in Plain : Part(w) = 5 => w \in 17 + 1..17 + 4
    BY Versions DEF Part
  <2>4. AreVersions(17, 1, 4, OrganisationNames)
    BY <2>1, OrganisationScripts, OfPart
  <2> QED BY <2>2, <2>3, <2>4 DEF AreVersions
<1>6. CASE v \in 23..25
  <2>1. IsPart(Devices, 21, 2, 4)
    BY MigrationsAre DEF IsPart
  <2>2. v \in 21 + 2..21 + 4 /\ Part(v) = 6 /\ NamesIn(v) = DevicesNames
    BY <1>6 DEF Part, NamesIn
  <2>3. \A w \in Plain : Part(w) = 6 => w \in 21 + 2..21 + 4
    BY Versions DEF Part
  <2>4. AreVersions(21, 2, 4, DevicesNames)
    BY <2>1, DevicesScripts, OfPart
  <2> QED BY <2>2, <2>3, <2>4 DEF AreVersions
<1>7. CASE v \in 26..26
  <2>1. IsPart(Culling, 25, 1, 1)
    BY MigrationsAre DEF IsPart
  <2>2. v \in 25 + 1..25 + 1 /\ Part(v) = 7 /\ NamesIn(v) = CullingNames
    BY <1>7 DEF Part, NamesIn
  <2>3. \A w \in Plain : Part(w) = 7 => w \in 25 + 1..25 + 1
    BY Versions DEF Part
  <2>4. AreVersions(25, 1, 1, CullingNames)
    BY <2>1, CullingScripts, OfPart
  <2> QED BY <2>2, <2>3, <2>4 DEF AreVersions
<1>8. v \in 1..4 \/ v \in 5..8 \/ v \in 9..13 \/ v \in 14..17 \/ v \in 18..21 \/ v \in 23..25 \/ v \in 26..26
  BY Versions
<1> QED BY <1>1, <1>2, <1>3, <1>4, <1>5, <1>6, <1>7, <1>8

\* No name is created twice, but for those that version 22 creates again.
LEMMA NamesDiffer ==
  ASSUME NEW v \in Plain, NEW w \in Plain, NEW i \in Statements(v), NEW j \in Statements(w),
         Name(v, i) = Name(w, j)
  PROVE  v = w /\ i = j
<1>1. Name(v, i) \in NamesIn(v) \cap NamesIn(w)
  BY Scripts
<1>2. Part(v) \in 1..7 /\ Part(w) \in 1..7
  BY Versions DEF Part
<1>3. Part(v) = Part(w)
  BY <1>1, <1>2, NamesApart DEF NamesIn
<1> QED BY <1>3, Scripts
-------------------------------------------------------------------------------
\* The main table and its indexes come from versions 1 and 18, and from 22 again.
LEMMA MainNames ==
  /\ 1 \in Plain /\ 18 \in Plain /\ {3, 6, 7, 8} \subseteq Statements(1) /\ 19 \in Statements(18)
  /\ Name(1, 3) = Main /\ MainIndexes = {Name(1, 6), Name(1, 7), Name(1, 8), Name(18, 19)}
<1>1. Migrations[1] = Integrity[1] /\ Migrations[18] = Organisation[1]
  BY MigrationsAre
<1>2. /\ {3, 6, 7, 8} \subseteq DOMAIN Integrity[1]
      /\ Integrity[1][3][2] = Main /\ Integrity[1][6][2] = "idx_asset_locations_volume"
      /\ Integrity[1][7][2] = "idx_asset_locations_asset" /\ Integrity[1][8][2] = "idx_asset_locations_size"
  <2>1. DOMAIN Integrity[1] = 1..9
    BY DEF Integrity, Creates
  <2>2. Integrity[1][3][2] = Main
    BY DEF Integrity, Creates
  <2>3. Integrity[1][6][2] = "idx_asset_locations_volume"
    BY DEF Integrity, Creates
  <2>4. Integrity[1][7][2] = "idx_asset_locations_asset"
    BY DEF Integrity, Creates
  <2>5. Integrity[1][8][2] = "idx_asset_locations_size"
    BY DEF Integrity, Creates
  <2> QED BY <2>1, <2>2, <2>3, <2>4, <2>5
<1>3. 19 \in DOMAIN Organisation[1] /\ Organisation[1][19][2] = "idx_asset_locations_source"
  BY SMTT(30) DEF Organisation, Creates
<1> QED BY <1>1, <1>2, <1>3, Versions DEF Name, Statements, MainIndexes

\* The names that version 22 takes away are those of versions 1 and 18, and
\* neither creates one of them first.
LEMMA WhoseNames ==
  ASSUME NEW v \in Plain, NEW i \in Statements(v)
  PROVE  /\ Name(v, i) # Copy
         /\ Name(v, i) \in M => v \in {1, 18} /\ i > 1
         /\ Name(v, i) \in MainIndexes => v = 18 \/ i > 3
<1>1. Name(v, i) # Copy
  <2>1. Name(v, i) \in NamesIn(v)
    BY Scripts
  <2>2. Part(v) \in 1..7
    BY Versions DEF Part
  <2>3. /\ Copy \notin IntegrityNames /\ Copy \notin DerivedNames /\ Copy \notin SourcesNames
        /\ Copy \notin ViewsNames /\ Copy \notin OrganisationNames /\ Copy \notin DevicesNames
        /\ Copy \notin CullingNames
    BY DEF Copy, IntegrityNames, DerivedNames, SourcesNames, ViewsNames, OrganisationNames,
           DevicesNames, CullingNames
  <2> QED BY <2>1, <2>2, <2>3 DEF NamesIn
<1>2. Name(v, i) = Main => v = 1 /\ i = 3
  BY MainNames, NamesDiffer
<1>3. Name(v, i) \in MainIndexes => \/ v = 1 /\ i \in {6, 7, 8}
                                    \/ v = 18 /\ i = 19
  BY MainNames, NamesDiffer
<1> QED BY <1>1, <1>2, <1>3 DEF M

\* The statements of version 22.
LEMMA RebuildIs ==
  /\ Len(Rebuild) = 8 /\ DOMAIN Rebuild = 1..8
  /\ Rebuild[1] = <<"create", Copy>> /\ Rebuild[2] = <<"copy", Copy>>
  /\ Rebuild[3] = <<"drop", Main>> /\ Rebuild[4] = <<"rename", Copy>>
  /\ \A i \in 5..8 : Rebuild[i] = <<"create", Rebuild[i][2]>>
  /\ MainIndexes = {Rebuild[i][2] : i \in 5..8}
  /\ \A i, j \in 5..8 : Rebuild[i][2] = Rebuild[j][2] => i = j
  /\ Main \notin MainIndexes /\ Copy \notin M
<1>1. Len(Rebuild) = 8 /\ DOMAIN Rebuild = 1..8
  BY DEF Rebuild
<1>2. \A i \in 5..8 : Rebuild[i] = <<"create", Rebuild[i][2]>>
  BY DEF Rebuild
<1>3. MainIndexes = {Rebuild[i][2] : i \in 5..8}
  <2>1. /\ Rebuild[5][2] = "idx_asset_locations_volume" /\ Rebuild[6][2] = "idx_asset_locations_asset"
        /\ Rebuild[7][2] = "idx_asset_locations_size" /\ Rebuild[8][2] = "idx_asset_locations_source"
    BY DEF Rebuild
  <2>2. 5..8 = {5, 6, 7, 8}
    OBVIOUS
  <2> QED BY <2>1, <2>2 DEF MainIndexes
<1>4. \A i, j \in 5..8 : Rebuild[i][2] = Rebuild[j][2] => i = j
  BY DEF Rebuild
<1>5. /\ Rebuild[1] = <<"create", Copy>> /\ Rebuild[2] = <<"copy", Copy>>
      /\ Rebuild[3] = <<"drop", Main>> /\ Rebuild[4] = <<"rename", Copy>>
  BY DEF Rebuild
<1>6. Main \notin MainIndexes /\ Copy \notin M
  BY DEF Main, Copy, MainIndexes, M
<1> QED BY <1>1, <1>2, <1>3, <1>4, <1>5, <1>6

\* What a version leaves behind.
LEMMA WhatIsMade ==
  /\ \A v \in Plain : Made(v) = {Name(v, i) : i \in Statements(v)}
  /\ Made(22) = M
<1>1. ASSUME NEW v \in Plain
      PROVE  Made(v) = {Name(v, i) : i \in Statements(v)}
  BY WhoseNames DEF Made, Range, Name, Statements
<1>2. Made(22) = M
  <2>1. {s[2] : s \in Range(Rebuild)} = {Rebuild[i][2] : i \in 1..8}
    BY RebuildIs DEF Range
  <2>2. 1..8 = {1, 2, 3, 4} \cup 5..8
    OBVIOUS
  <2>3. {Rebuild[i][2] : i \in 1..8} = {Copy, Main} \cup {Rebuild[i][2] : i \in 5..8}
    BY <2>2, RebuildIs
  <2> QED BY <2>1, <2>3, RebuildIs, Versions DEF Made, M
<1> QED BY <1>1, <1>2

-------------------------------------------------------------------------------
\* Versions are numbers, and 22 is the one that does not only create.
LEMMA Numbers ==
  /\ Version \subseteq Nat \ {0} /\ 22 \in Version /\ Plain \subseteq Version /\ 22 \notin Plain
  /\ \A v \in Version : v # 22 => v \in Plain
  BY Versions DEF Plain

\* Version 22 has begun, in this process or another, or has been there.
Begun == Copy \in objects \/ rebuilt
\* What may be missing then.
Lost == IF Begun THEN M ELSE {}

\* Who has run the first statement of a version goes on alone.
Owns(p, v) == \/ proc[p].pc = "script" /\ proc[p].version = v /\ proc[p].at > 1
              \/ proc[p].pending = v

\* Statements of the version that the process has run.
Ran(p, v) == IF proc[p].pending = v THEN Statements(v) ELSE {i \in Statements(v) : i < proc[p].at}

\* A process knows of nothing that is not recorded, and takes versions in their order.
Local(p) ==
  /\ proc[p].applied \subseteq recorded
  /\ proc[p].pc # "next" => proc[p].pending = 0
  /\ proc[p].pc = "next" => /\ proc[p].pending \in {0, proc[p].version}
                            /\ 1..proc[p].version \subseteq recorded \cup {proc[p].pending}
  /\ proc[p].pc = "script" => /\ proc[p].version \in Version
                              /\ 1..(proc[p].version - 1) \subseteq recorded
                              /\ proc[p].at \in 1..Len(Migrations[proc[p].version]) + 1
  /\ proc[p].pc = "ready" => recorded = Version
  /\ proc[p].pending # 0 => 1..(proc[p].pending - 1) \subseteq recorded

ProcessInv == \A p \in Process : Local(p)

\* One process owns a version, before it is recorded; what it has run is there.
OwnerInv ==
  \A p \in Process, v \in Version : Owns(p, v) =>
    /\ v \notin recorded
    /\ \A q \in Process : Owns(q, v) => q = p
    /\ v # 22 => \A i \in Ran(p, v) : Name(v, i) \in objects \cup Lost

\* Recorded versions come without a gap, and are there but for what 22 takes away.
RecordedInv ==
  \A v \in recorded :
    /\ 1..v \subseteq recorded
    /\ v # 22 => \A i \in Statements(v) : Name(v, i) \in objects \cup Lost
    /\ v = 22 => rebuilt /\ M \subseteq objects

\* The statement of version 22 that its owner runs next.
Next22(p) == IF proc[p].pending = 22 THEN 9 ELSE proc[p].at
\* Committed rows are in the table that is not to be dropped next.
RebuildInv ==
  /\ rebuilt => Copy \notin objects
  /\ added \subseteq rows[Main] \cup rows[Copy]
  /\ ~Begun => added \subseteq rows[Main]
  /\ \A p \in Process : Owns(p, 22) =>
       /\ Next22(p) <= 4 => Copy \in objects
       /\ Next22(p) \in {2, 3} => M \subseteq objects
       /\ Next22(p) = 2 => added \subseteq rows[Main]
       /\ Next22(p) \in {3, 4} => added \subseteq rows[Copy]
       /\ Next22(p) = 4 => M \cap objects = {}
       /\ Next22(p) > 4 => /\ rebuilt /\ Main \in objects
                           /\ \A i \in 5..8 : i < Next22(p) <=> Name(22, i) \in objects

\* Until something dies or waits in vain, what is there is recorded or owned.
CalmInv ==
  mishaps = 0 =>
    /\ \A v \in Plain : \A i \in Statements(v) : Name(v, i) \in objects =>
         v \in recorded \/ \E p \in Process : Owns(p, v) /\ i \in Ran(p, v)
    /\ Begun => 22 \in recorded \/ \E p \in Process : Owns(p, 22)

\* All this as long as no process begins version 22 after another has done it.
UpgradeInv == ProcessInv /\ OwnerInv /\ RecordedInv /\ RebuildInv /\ CalmInv

\* This much of the types needs more than the types, and holds in any case.
ScriptInv == \A p \in Process : proc[p].pc = "script" => proc[p].version \in Version /\ proc[p].at # 0
\* The inductive invariant.
SchemaInv == SchemaTypeOK /\ ScriptInv /\ (raced = FALSE => UpgradeInv)

\* No other process moves.
OthersStand(p) == \A q \in Process \ {p} : proc'[q] = proc[q]
-------------------------------------------------------------------------------
\* What another process owns and has run is not changed.
LEMMA StandStill ==
  ASSUME NEW p, OthersStand(p), NEW q \in Process \ {p}
  PROVE  /\ \A v : (Owns(q, v)' <=> Owns(q, v)) /\ Ran(q, v)' = Ran(q, v)
         /\ Next22(q)' = Next22(q)
  BY DEF OthersStand, Owns, Ran, Next22

\* A step of one process leaves what is known of the others.
LEMMA LastsThrough ==
  ASSUME ProcessInv, NEW p \in Process, OthersStand(p), recorded \subseteq recorded', recorded' \subseteq Version,
         Local(p)'
  PROVE  ProcessInv'
<1>1. ASSUME NEW q \in Process \ {p}
      PROVE  Local(q)'
  <2>1. Local(q) /\ proc'[q] = proc[q]
    BY DEF ProcessInv, Local, OthersStand
  <2> QED BY <2>1 DEF Local
<1>2. \A q \in Process : Local(q)'
  BY <1>1
<1> QED BY <1>2 DEF ProcessInv, Local

\* A process that owns nothing any more, and the tables as they were.
LEMMA Leaves ==
  ASSUME SchemaTypeOK, UpgradeInv, NEW p \in Process, OthersStand(p), Local(p)',
         \A v \in Version : ~Owns(p, v)',
         UNCHANGED <<objects, rows, recorded, added, rebuilt>>,
         mishaps' # 0 \/ (mishaps' = mishaps /\ \A v \in Version : ~Owns(p, v))
  PROVE  UpgradeInv'
<1> USE StandStill DEF UpgradeInv
<1>1. ProcessInv'
  BY LastsThrough DEF SchemaTypeOK
<1>2. OwnerInv'
  BY DEF OwnerInv, Lost, Begun
<1>3. RecordedInv'
  BY DEF RecordedInv, Lost, Begun
<1>4. RebuildInv'
  BY Versions DEF RebuildInv, Begun, Plain
<1>5. CalmInv'
  <2> SUFFICES ASSUME mishaps' = 0
               PROVE  CalmInv'
    BY DEF CalmInv
  <2>1. mishaps = 0 /\ \A q \in Process, v \in Version : Owns(q, v) => q # p
    OBVIOUS
  <2>2. \A q \in Process, v \in Version : Owns(q, v) => Owns(q, v)' /\ Ran(q, v)' = Ran(q, v)
    BY <2>1
  <2> QED BY <2>1, <2>2, Versions DEF CalmInv, Begun, Plain
<1> QED BY <1>1, <1>2, <1>3, <1>4, <1>5

\* What is pending is committed.
LEMMA Commits22 ==
  ASSUME SchemaTypeOK, UpgradeInv, NEW p \in Process, OthersStand(p), Local(p)',
         \A v \in Version : ~Owns(p, v)',
         proc[p].pc = "next", NEW w, w = proc[p].pending, recorded' = recorded \cup ({w} \ {0}),
         UNCHANGED <<objects, rows, added, rebuilt, mishaps>>
  PROVE  UpgradeInv'
<1> USE StandStill DEF UpgradeInv
<1>0. /\ w = 0 \/ (w \in Version /\ Owns(p, w) /\ 1..w - 1 \subseteq recorded /\ Ran(p, w) = Statements(w))
      /\ \A v \in Version : Owns(p, v) => v = w
  BY DEF ProcessInv, Local, Owns, Ran, SchemaTypeOK
<1>1. ProcessInv'
  BY <1>0, LastsThrough DEF SchemaTypeOK
<1>2. OwnerInv'
  BY <1>0 DEF OwnerInv, Lost, Begun
<1>3. RecordedInv'
  <2>1. ASSUME w \in Version
        PROVE  /\ 1..w \subseteq recorded'
               /\ w # 22 => \A i \in Statements(w) : Name(w, i) \in (objects \cup Lost)'
               /\ w = 22 => rebuilt' /\ M \subseteq objects'
    <3>1. 1..w \subseteq recorded'
      BY <1>0, <2>1, Versions
    <3>2. w # 22 => \A i \in Statements(w) : Name(w, i) \in (objects \cup Lost)'
      BY <1>0, <2>1, Versions DEF OwnerInv, Lost, Begun
    <3>3. w = 22 => rebuilt' /\ M \subseteq objects'
      <4> SUFFICES ASSUME w = 22
                   PROVE  rebuilt /\ M \subseteq objects
        OBVIOUS
      <4>1. Owns(p, 22) /\ Next22(p) = 9
        BY <1>0, <2>1 DEF Next22
      <4>2. rebuilt /\ Main \in objects /\ \A i \in 5..8 : i < 9 <=> Name(22, i) \in objects
        BY <4>1 DEF RebuildInv
      <4>3. \A i \in 5..8 : Name(22, i) \in objects
        BY <4>2
      <4> QED BY <4>2, <4>3, RebuildIs, Versions DEF M, Name
    <3> QED BY <3>1, <3>2, <3>3
  <2>2. \A v \in recorded : 1..v \subseteq recorded'
    BY DEF RecordedInv
  <2>3. Lost' = Lost
    BY DEF Lost, Begun
  <2>4. \A v \in recorded' : v \in recorded \/ (v = w /\ w \in Version)
    BY ONLY <1>0, recorded' = recorded \cup ({w} \ {0})
  <2> QED BY <2>1, <2>2, <2>3, <2>4 DEF RecordedInv
<1>4. RebuildInv'
  BY Versions DEF RebuildInv, Begun, Plain
<1>5. CalmInv'
  <2>1. \A q \in Process, v \in Version : Owns(q, v) =>
          v \in recorded' \/ (Owns(q, v)' /\ Ran(q, v)' = Ran(q, v))
    <3>1. ASSUME NEW v \in Version, Owns(p, v)
          PROVE  v \in recorded'
      <4>1. v = w /\ w \in Version /\ w # 0
        BY <1>0, <3>1, Versions
      <4> QED BY <4>1
    <3>2. \A q \in Process \ {p}, v \in Version : Owns(q, v) => Owns(q, v)' /\ Ran(q, v)' = Ran(q, v)
      OBVIOUS
    <3> QED BY <3>1, <3>2
  <2> QED BY <2>1, Versions DEF CalmInv, Begun, Plain
<1> QED BY <1>1, <1>2, <1>3, <1>4, <1>5

\* The next version of a process comes after those it knows.
LEMMA Least ==
  ASSUME NEW T \in SUBSET Nat, T # {}
  PROVE  LET v == CHOOSE u \in T : \A w \in T : u <= w IN v \in T /\ \A w \in T : v <= w
<1>1. IsWellFoundedOn({ss \in Nat \X Nat : ss[1] < ss[2]}, Nat)
  BY NatLessThanWellFounded DEF OpToRel
<1>2. \E n \in T : \A m \in T : ~(<<m, n>> \in {ss \in Nat \X Nat : ss[1] < ss[2]})
  BY <1>1, WFMin
<1>3. PICK n \in T : \A m \in T : ~(m < n)
  BY <1>2
<1>4. \A m \in T : n <= m
  BY <1>3
<1>5. \E u \in T : \A w \in T : u <= w
  BY <1>4
<1> QED BY <1>5

\* The next version of a process comes after those it knows.
LEMMA NextVersion ==
  ASSUME SchemaTypeOK, ProcessInv, NEW p \in Process, proc[p].pc = "next", Todo(p) # {},
         NEW v, v = CHOOSE u \in Todo(p) : \A w \in Todo(p) : u <= w
  PROVE  v \in Version /\ 1..v - 1 \subseteq recorded \cup ({proc[p].pending} \ {0})
<1>1. Todo(p) \in SUBSET Nat /\ Todo(p) \subseteq Version
  BY Versions DEF Todo
<1>2. v \in Todo(p) /\ \A w \in Todo(p) : v <= w
  BY <1>1, Least
<1>3. proc[p].applied \subseteq recorded /\ 1..proc[p].version \subseteq recorded \cup {proc[p].pending}
  BY DEF ProcessInv, Local
<1>4. ASSUME NEW u \in 1..v - 1
      PROVE  u \in recorded \cup ({proc[p].pending} \ {0})
  <2>1. u \in Version /\ u \notin Todo(p) /\ u # 0
    BY <1>1, <1>2, Versions
  <2> QED BY <2>1, <1>3 DEF Todo
<1> QED BY <1>1, <1>2, <1>4

\* A process opens the catalog: it knows what is recorded and owns nothing.
LEMMA OpenStep ==
  ASSUME SchemaTypeOK, UpgradeInv, NEW p \in Process, Open(p)
  PROVE  UpgradeInv'
<1>1. OthersStand(p) /\ proc'[p] = [Closed EXCEPT !.pc = "next", !.applied = recorded]
  BY DEF Open, SchemaTypeOK, OthersStand
<1>2. Local(p)'
  <2>1. /\ proc'[p].pc = "next" /\ proc'[p].applied = recorded /\ proc'[p].version = 0
        /\ proc'[p].pending = 0 /\ recorded' = recorded
    BY <1>1 DEF Open, Closed
  <2>2. 1..0 = {}
    OBVIOUS
  <2> QED BY <2>1, <2>2 DEF Local
<1>3. \A v \in Version : ~Owns(p, v)'
  BY <1>1, Versions DEF Owns, Closed
<1>4. \A v \in Version : ~Owns(p, v)
  <2>1. proc[p].pc = "closed" /\ proc[p].pending = 0
    BY DEF Open, UpgradeInv, ProcessInv, Local
  <2> QED BY <2>1, Versions DEF Owns
<1> QED BY <1>1, <1>2, <1>3, <1>4, Leaves DEF Open

\* A process dies or gives up: what it owned is left as it is.
LEMMA EndStep ==
  ASSUME SchemaTypeOK, UpgradeInv, NEW p \in Process, LockedOut(p) \/ Die(p)
  PROVE  UpgradeInv'
<1>1. OthersStand(p) /\ proc'[p] \in {Closed, [Closed EXCEPT !.pc = "failed"]}
  BY DEF LockedOut, Die, Raises, SchemaTypeOK, OthersStand
<1>2. Local(p)'
  BY <1>1 DEF Local, Closed
<1>3. \A v \in Version : ~Owns(p, v)'
  BY <1>1, Versions DEF Owns, Closed
<1>4. mishaps' # 0 /\ UNCHANGED <<objects, rows, recorded, added, rebuilt>>
  BY DEF LockedOut, Die, SchemaTypeOK
<1> QED BY <1>1, <1>2, <1>3, <1>4, Leaves

\* The next script: what was pending is recorded.
LEMMA BeginScriptStep ==
  ASSUME SchemaTypeOK, UpgradeInv, NEW p \in Process, BeginScript(p)
  PROVE  UpgradeInv'
<1> DEFINE v == CHOOSE u \in Todo(p) : \A w \in Todo(p) : u <= w
<1>1. v \in Version /\ 1..v - 1 \subseteq recorded'
  BY NextVersion DEF BeginScript, UpgradeInv
<1>2. OthersStand(p)
  BY DEF BeginScript, SchemaTypeOK, OthersStand
<1>3. /\ proc'[p].pc = "script" /\ proc'[p].at = 1 /\ proc'[p].pending = 0 /\ proc'[p].version = v
      /\ proc'[p].applied = proc[p].applied
  BY DEF BeginScript, SchemaTypeOK
<1> HIDE DEF v
<1>4. Len(Migrations[v]) \in Nat
  BY <1>1, Scripts, Versions, RebuildIs DEF Plain
<1>5. Local(p)'
  <2>1. proc[p].applied \subseteq recorded /\ recorded \subseteq recorded'
    BY DEF BeginScript, UpgradeInv, ProcessInv, Local
  <2>2. 1 \in 1..Len(Migrations[v]) + 1
    BY <1>4
  <2> QED BY <1>1, <1>3, <2>1, <2>2 DEF Local
<1>6. \A u \in Version : ~Owns(p, u)'
  BY <1>3, Versions DEF Owns
<1> QED BY <1>2, <1>5, <1>6, Commits22 DEF BeginScript

\* All versions are known, and the last one is recorded.
LEMMA ReadyStep ==
  ASSUME SchemaTypeOK, UpgradeInv, NEW p \in Process, Ready(p)
  PROVE  UpgradeInv'
<1>1. OthersStand(p) /\ proc'[p] = [proc[p] EXCEPT !.pc = "ready", !.pending = 0]
  BY DEF Ready, SchemaTypeOK, OthersStand
<1>2. /\ proc'[p].pc = "ready" /\ proc'[p].pending = 0 /\ proc'[p].applied = proc[p].applied
  BY <1>1 DEF SchemaTypeOK
<1>3. recorded' = Version
  <2>1. Version \subseteq proc[p].applied \cup 1..proc[p].version
    BY DEF Ready, Todo
  <2>2. proc[p].applied \subseteq recorded /\ 1..proc[p].version \subseteq recorded \cup {proc[p].pending}
    BY DEF Ready, UpgradeInv, ProcessInv, Local
  <2>3. proc[p].pending \in Version \cup {0} /\ 0 \notin Version /\ recorded \subseteq Version
    BY Versions DEF SchemaTypeOK
  <2> QED BY <2>1, <2>2, <2>3 DEF Ready
<1>4. Local(p)'
  BY <1>2, <1>3 DEF UpgradeInv, ProcessInv, Local, SchemaTypeOK
<1>5. \A u \in Version : ~Owns(p, u)'
  BY <1>2, Versions DEF Owns
<1> QED BY <1>1, <1>4, <1>5, Commits22 DEF Ready

\* A row is added when all is recorded: no one is in version 22.
LEMMA AddStep ==
  ASSUME SchemaTypeOK, UpgradeInv, NEW p \in Process, AddRow(p)
  PROVE  UpgradeInv'
<1>1. rows'[Main] = rows[Main] \cup {"new"} /\ rows'[Copy] = rows[Copy] /\ added' = added \cup {"new"}
  BY DEF AddRow, SchemaTypeOK, Main, Copy
<1>2. \A q \in Process : ~Owns(q, 22)
  <2>1. recorded = Version /\ 22 \in Version
    BY Versions DEF AddRow, UpgradeInv, ProcessInv, Local
  <2> QED BY <2>1 DEF UpgradeInv, OwnerInv
<1>3. ProcessInv' /\ OwnerInv' /\ RecordedInv' /\ CalmInv'
  BY DEF AddRow, UpgradeInv, ProcessInv, Local, OwnerInv, RecordedInv, CalmInv, Owns, Ran, Lost, Begun
<1>4. RebuildInv'
  BY <1>1, <1>2 DEF AddRow, UpgradeInv, RebuildInv, Owns, Next22, Begun
<1> QED BY <1>3, <1>4 DEF UpgradeInv

\* Scripts have statements.
LEMMA Lengths ==
  ASSUME NEW v \in Version
  PROVE  Len(Migrations[v]) \in Nat \ {0} /\ Statements(v) = 1..Len(Migrations[v])
<1>1. CASE v = 22
  BY <1>1, Versions, RebuildIs DEF Statements
<1>2. CASE v # 22
  BY <1>2, Scripts DEF Plain
<1> QED BY <1>1, <1>2

\* A script is over: its row is pending.
LEMMA RecordStep ==
  ASSUME SchemaTypeOK, UpgradeInv, NEW p \in Process, Record(p),
         NEW v, v = proc[p].version, NEW n, n = Len(Migrations[v])
  PROVE  UpgradeInv'
<1>0. /\ v \in Version /\ n \in Nat \ {0} /\ proc[p].at \in 1..n + 1 /\ proc[p].at > n
      /\ Statements(v) = 1..n /\ proc[p].pc = "script" /\ proc[p].pending = 0
      /\ 1..v - 1 \subseteq recorded
  BY Lengths DEF Record, UpgradeInv, ProcessInv, Local
<1>1. Owns(p, v) /\ v \notin recorded /\ \A u \in Version : Owns(p, u) <=> u = v
  <2>0. proc[p].at > 1 /\ 0 \notin Version
    BY <1>0, Versions
  <2>1. \A u \in Version : Owns(p, u) <=> u = v
    BY <1>0, <2>0 DEF Owns
  <2> QED BY <1>0, <2>1 DEF UpgradeInv, OwnerInv
<1>2. /\ OthersStand(p) /\ proc'[p].pc = "next" /\ proc'[p].pending = v /\ proc'[p].version = v
      /\ proc'[p].at = proc[p].at /\ proc'[p].applied = proc[p].applied
  BY <1>1 DEF Record, SchemaTypeOK, OthersStand
<1>3. Ran(p, v) = Statements(v) /\ Ran(p, v)' = Statements(v)
  <2>1. 0 \notin Version
    BY Versions
  <2>2. Ran(p, v) = {i \in 1..n : i < proc[p].at}
    BY <1>0, <2>1 DEF Ran
  <2>3. Ran(p, v)' = Statements(v)
    BY <1>2 DEF Ran
  <2> QED BY <1>0, <2>2, <2>3
<1>4. v = 22 => Next22(p) = 9 /\ Next22(p)' = 9
  <2> SUFFICES ASSUME v = 22
               PROVE  Next22(p) = 9 /\ Next22(p)' = 9
    OBVIOUS
  <2>1. n = 8
    BY Versions, RebuildIs
  <2>2. proc[p].at = 9
    <3>1. proc[p].at \in 1..n + 1 /\ proc[p].at > n
      BY <1>0
    <3> QED BY ONLY <2>1, <3>1
  <2> QED BY <1>0, <1>2, <2>2 DEF Next22
<1>5. \A u \in Version : Owns(p, u)' <=> u = v
  BY <1>0, <1>2, Versions DEF Owns
<1>6. UNCHANGED <<objects, rows, recorded, added, rebuilt, mishaps>>
  BY DEF Record
<1>7. Local(p)'
  <2>1. proc[p].applied \subseteq recorded /\ v \in Nat /\ v # 0
    <3>1. proc[p].applied \subseteq recorded
      BY DEF UpgradeInv, ProcessInv, Local
    <3> QED BY <3>1, <1>0, Numbers
  <2>2. 1..v \subseteq (1..v - 1) \cup {v}
    BY <2>1
  <2> QED BY <1>0, <1>2, <1>6, <2>1, <2>2 DEF Local
<1>8. \A q \in Process, u \in Version :
        (Owns(q, u)' <=> Owns(q, u)) /\ (Owns(q, u) => Ran(q, u)' = Ran(q, u))
  <2>1. \A u \in Version : (Owns(p, u)' <=> Owns(p, u)) /\ (Owns(p, u) => Ran(p, u)' = Ran(p, u))
    BY <1>1, <1>3, <1>5
  <2>2. \A q \in Process \ {p}, u \in Version : (Owns(q, u)' <=> Owns(q, u)) /\ Ran(q, u)' = Ran(q, u)
    BY <1>2, StandStill
  <2> QED BY <2>1, <2>2
<1>9. \A q \in Process : Owns(q, 22) => Next22(q)' = Next22(q)
  <2>1. Owns(p, 22) => v = 22
    BY <1>1, Versions
  <2>2. \A q \in Process \ {p} : Next22(q)' = Next22(q)
    BY <1>2, StandStill
  <2> QED BY <1>4, <2>1, <2>2
<1>10. ProcessInv'
  BY <1>2, <1>6, <1>7, LastsThrough DEF SchemaTypeOK, UpgradeInv
<1>11. OwnerInv'
  BY <1>6, <1>8 DEF UpgradeInv, OwnerInv, Lost, Begun
<1>12. RecordedInv'
  BY <1>6 DEF UpgradeInv, RecordedInv, Lost, Begun
<1>13. RebuildInv'
  <2>1. \A q \in Process : Owns(q, 22)' => Owns(q, 22) /\ Next22(q)' = Next22(q)
    BY <1>8, <1>9, Numbers
  <2>2. RebuildInv
    BY DEF UpgradeInv
  <2> QED BY <1>6, <2>1, <2>2 DEF RebuildInv, Begun
<1>14. CalmInv'
  <2>1. \A q \in Process, u \in Version : Owns(q, u) => Owns(q, u)' /\ Ran(q, u)' = Ran(q, u)
    BY <1>8
  <2>2. CalmInv
    BY DEF UpgradeInv
  <2> QED BY <1>6, <2>1, <2>2, Numbers DEF CalmInv, Begun
<1> QED BY <1>10, <1>11, <1>12, <1>13, <1>14 DEF UpgradeInv

\* Where a process is in its script.
LEMMA AtStatement ==
  ASSUME SchemaTypeOK, UpgradeInv, NEW p \in Process, Statement(p),
         NEW v, v = proc[p].version, NEW i, i = proc[p].at
  PROVE  /\ v \in Version /\ i \in Statements(v) /\ i \in Nat \ {0} /\ Current(p) = Migrations[v][i]
         /\ proc[p].pc = "script" /\ proc[p].pending = 0 /\ 1..v - 1 \subseteq recorded
         /\ \A u \in Version : Owns(p, u) <=> u = v /\ i > 1
         /\ i > 1 => v \notin recorded
         /\ Ran(p, v) = {j \in Statements(v) : j < i} /\ Next22(p) = i
<1>1. /\ v \in Version /\ proc[p].pc = "script" /\ proc[p].pending = 0 /\ 1..v - 1 \subseteq recorded
      /\ i \in 1..Len(Migrations[v]) + 1 /\ i <= Len(Migrations[v])
  BY DEF Statement, UpgradeInv, ProcessInv, Local
<1>2. i \in Statements(v) /\ i \in Nat \ {0}
  BY <1>1, Lengths
<1>3. \A u \in Version : Owns(p, u) <=> u = v /\ i > 1
  <2>1. 0 \notin Version
    BY Numbers
  <2> QED BY <1>1, <2>1 DEF Owns
<1>4. i > 1 => v \notin recorded
  BY <1>1, <1>3 DEF UpgradeInv, OwnerInv
<1>5. Ran(p, v) = {j \in Statements(v) : j < i} /\ Next22(p) = i
  <2>1. 0 \notin Version /\ proc[p].pending # v /\ proc[p].pending # 22
    BY <1>1, Numbers
  <2> QED BY <1>1, <2>1 DEF Ran, Next22
<1> QED BY <1>1, <1>2, <1>3, <1>4, <1>5 DEF Current

\* A statement that SQLite refuses.
LEMMA RaiseStep ==
  ASSUME SchemaTypeOK, UpgradeInv, NEW p \in Process, Statement(p), ~Possible(Current(p)),
         proc[p].at = 1 \/ mishaps # 0
  PROVE  UpgradeInv'
<1>1. OthersStand(p) /\ proc'[p] = [Closed EXCEPT !.pc = "failed"]
      /\ UNCHANGED <<objects, rows, recorded, added, rebuilt, mishaps>>
  BY DEF Statement, Raises, SchemaTypeOK, OthersStand
<1>2. Local(p)'
  BY <1>1 DEF Local, Closed
<1>3. \A v \in Version : ~Owns(p, v)'
  BY <1>1, Versions DEF Owns, Closed
<1>4. proc[p].at = 1 => \A v \in Version : ~Owns(p, v)
  BY AtStatement
<1> QED BY <1>1, <1>2, <1>3, <1>4, Leaves

\* The process goes on in its script.
LEMMA GoesOn ==
  ASSUME SchemaTypeOK, UpgradeInv, NEW p \in Process, Statement(p), Possible(Current(p)),
         NEW v, v = proc[p].version, NEW i, i = proc[p].at
  PROVE  /\ OthersStand(p) /\ Effect(Current(p)) /\ UNCHANGED <<recorded, added, mishaps>> /\ ProcessInv'
         /\ \A u \in Version : Owns(p, u)' <=> u = v
         /\ Ran(p, v)' = Ran(p, v) \cup {i} /\ Next22(p)' = i + 1
         /\ \A q \in Process, u \in Version : Owns(q, u) => Owns(q, u)'
         /\ \A q \in Process, u \in Version : Owns(q, u)' => Owns(q, u) \/ (q = p /\ u = v /\ i = 1)
<1>0. /\ v \in Version /\ i \in Statements(v) /\ i \in Nat \ {0}
      /\ proc[p].pc = "script" /\ proc[p].pending = 0 /\ 1..v - 1 \subseteq recorded
      /\ \A u \in Version : Owns(p, u) <=> u = v /\ i > 1
      /\ Ran(p, v) = {j \in Statements(v) : j < i}
  BY AtStatement
<1>1. /\ OthersStand(p) /\ proc' = [proc EXCEPT ![p].at = i + 1] /\ Effect(Current(p))
      /\ UNCHANGED <<recorded, added, mishaps>>
  BY DEF Statement, OthersStand, SchemaTypeOK
<1>2. /\ proc'[p].pc = "script" /\ proc'[p].pending = 0 /\ proc'[p].version = v /\ proc'[p].at = i + 1
      /\ proc'[p].applied = proc[p].applied
  BY <1>0, <1>1 DEF SchemaTypeOK
<1>3. Local(p)'
  <2>1. i + 1 \in 1..Len(Migrations[v]) + 1
    BY <1>0, Lengths
  <2>2. proc[p].applied \subseteq recorded
    BY DEF UpgradeInv, ProcessInv, Local
  <2> QED BY <1>0, <1>1, <1>2, <2>1, <2>2 DEF Local
<1>4. ProcessInv'
  BY <1>1, <1>3, LastsThrough DEF UpgradeInv, SchemaTypeOK
<1>5. \A u \in Version : Owns(p, u)' <=> u = v
  BY <1>0, <1>2, Versions DEF Owns
<1>6. Ran(p, v)' = Ran(p, v) \cup {i}
  <2>1. Ran(p, v)' = {j \in Statements(v) : j < i + 1}
    BY <1>0, <1>2, Versions DEF Ran
  <2>2. \A j \in Statements(v) : j < i + 1 <=> j < i \/ j = i
    BY <1>0, Lengths
  <2> QED BY <1>0, <2>1, <2>2
<1>7. Next22(p)' = i + 1
  BY <1>2 DEF Next22
<1> QED BY <1>0, <1>1, <1>4, <1>5, <1>6, <1>7, StandStill

\* The owner of a script is refused nothing unless something has died.
LEMMA BegunMeans ==
  ASSUME UpgradeInv, mishaps = 0, Begun
  PROVE  \A v \in 1..21 : v \in recorded
<1>1. CASE 22 \in recorded
  <2>1. 1..22 \subseteq recorded
    BY <1>1 DEF UpgradeInv, RecordedInv
  <2> QED BY <2>1
<1>2. ASSUME NEW p \in Process, Owns(p, 22)
      PROVE  1..21 \subseteq recorded
  <2>1. 1..22 - 1 \subseteq recorded
    <3>1. CASE proc[p].pending = 22
      <4>1. proc[p].pending # 0 => 1..proc[p].pending - 1 \subseteq recorded
        BY DEF UpgradeInv, ProcessInv, Local
      <4> QED BY <3>1, <4>1
    <3>2. CASE proc[p].pending # 22
      <4>1. proc[p].pc = "script" /\ proc[p].version = 22
        BY <1>2, <3>2 DEF Owns
      <4> QED BY <4>1 DEF UpgradeInv, ProcessInv, Local
    <3> QED BY <3>1, <3>2
  <2> QED BY <2>1
<1> QED BY <1>1, <1>2 DEF UpgradeInv, CalmInv

\* Whoever is in version 22 owns it; there is one.
LEMMA Owner22 ==
  ASSUME SchemaTypeOK, UpgradeInv, NEW p \in Process, Owns(p, 22)
  PROVE  1..21 \subseteq recorded /\ 22 \notin recorded /\ Next22(p) \in 2..9 /\ Begun
         /\ \A q \in Process : Owns(q, 22) => q = p
<1>1. CASE proc[p].pending = 22
  <2>0. 1..22 - 1 \subseteq recorded
    <3>1. proc[p].pending # 0 => 1..proc[p].pending - 1 \subseteq recorded
      BY DEF UpgradeInv, ProcessInv, Local
    <3> QED BY <1>1, <3>1
  <2>1. 1..21 \subseteq recorded /\ Next22(p) = 9
    BY <1>1, <2>0 DEF Next22
  <2>2. rebuilt
    BY <2>1 DEF UpgradeInv, RebuildInv
  <2> QED BY <2>1, <2>2, Numbers DEF UpgradeInv, OwnerInv, Begun
<1>2. CASE proc[p].pending # 22
  <2>1. proc[p].pc = "script" /\ proc[p].version = 22 /\ proc[p].at > 1
    BY <1>2 DEF Owns
  <2>2. 1..22 - 1 \subseteq recorded /\ proc[p].at \in 1..Len(Migrations[22]) + 1
    BY <2>1 DEF UpgradeInv, ProcessInv, Local
  <2>3. Len(Migrations[22]) = 8
    BY Versions, RebuildIs
  <2>4. proc[p].at \in 1..8 + 1
    BY <2>2, <2>3
  <2>5. Next22(p) \in 2..9
    BY <1>2, <2>1, <2>4 DEF Next22
  <2>6. Begun
    BY <2>5 DEF UpgradeInv, RebuildInv, Begun
  <2> QED BY <2>2, <2>5, <2>6, Numbers DEF UpgradeInv, OwnerInv
<1> QED BY <1>1, <1>2

\* What is refused to the owner of a version.
LEMMA NotRefused ==
  ASSUME SchemaTypeOK, UpgradeInv, NEW p \in Process, Statement(p), proc[p].at # 1, mishaps = 0
  PROVE  Possible(Current(p))
<1> DEFINE v == proc[p].version
           i == proc[p].at
<1>0. /\ v \in Version /\ i \in Statements(v) /\ i \in Nat /\ i > 1 /\ Current(p) = Migrations[v][i]
      /\ Owns(p, v) /\ v \notin recorded /\ 1..v - 1 \subseteq recorded
      /\ Ran(p, v) = {j \in Statements(v) : j < i} /\ Next22(p) = i
  BY AtStatement
<1> HIDE DEF v, i
<1>1. CASE v # 22
  <2>1. v \in Plain /\ Current(p) = <<"create", Name(v, i)>>
    BY <1>0, <1>1, Numbers, Scripts
  <2>2. Name(v, i) \notin objects
    <3>1. \A q \in Process : Owns(q, v) => q = p
      BY <1>0 DEF UpgradeInv, OwnerInv
    <3>2. i \notin Ran(p, v)
      BY <1>0
    <3> QED BY <1>0, <2>1, <3>1, <3>2 DEF UpgradeInv, CalmInv
  <2>3. ASSUME Name(v, i) \in MainIndexes
        PROVE  Main \in objects
    <3>1. v \in {1, 18} /\ (v = 18 \/ i > 3)
      BY <1>0, <2>1, <2>3, WhoseNames DEF M
    <3>2. ~Begun
      BY <1>0, <3>1, BegunMeans
    <3>3. CASE v = 1
      <4>1. 3 \in Ran(p, v)
        BY <1>0, <3>1, <3>3, MainNames
      <4> QED BY <1>0, <1>1, <3>2, <3>3, <4>1, MainNames DEF UpgradeInv, OwnerInv, Lost
    <3>4. CASE v = 18
      <4>1. 1 \in recorded
        BY <1>0, <3>4
      <4> QED BY <3>2, <4>1, MainNames DEF UpgradeInv, RecordedInv, Lost
    <3> QED BY <3>1, <3>3, <3>4
  <2> QED BY <2>1, <2>2, <2>3 DEF Possible
<1>2. CASE v = 22
  <2>1. i \in 2..8 /\ Current(p) = Rebuild[i]
    BY <1>0, <1>2, Versions, RebuildIs DEF Statements
  <2>2. Owns(p, 22) /\ Next22(p) = i
    BY <1>0, <1>2
  <2>3. CASE i = 2 \/ i = 3
    <3>1. M \subseteq objects /\ Copy \in objects /\ Main \in M
      BY <2>2, <2>3 DEF UpgradeInv, RebuildInv, M
    <3>2. Current(p) = <<"copy", Copy>> \/ Current(p) = <<"drop", Main>>
      BY <2>1, <2>3, RebuildIs
    <3> QED BY <3>1, <3>2 DEF Possible
  <2>4. CASE i = 4
    <3>1. M \cap objects = {} /\ Copy \in objects /\ Main \in M
      BY <2>2, <2>4 DEF UpgradeInv, RebuildInv, M
    <3>2. Current(p) = <<"rename", Copy>>
      BY <2>1, <2>4, RebuildIs
    <3> QED BY <3>1, <3>2 DEF Possible
  <2>5. CASE i \in 5..8
    <3>1. Main \in objects /\ Name(22, i) \notin objects
      BY <2>2, <2>5 DEF UpgradeInv, RebuildInv
    <3>2. Current(p) = <<"create", Name(22, i)>>
      BY <2>1, <2>5, RebuildIs, Versions DEF Name
    <3> QED BY <3>1, <3>2 DEF Possible
  <2> QED BY <2>1, <2>3, <2>4, <2>5
<1> QED BY <1>1, <1>2

\* A statement of any version but 22.
LEMMA PlainStep ==
  ASSUME SchemaTypeOK, UpgradeInv, NEW p \in Process, Statement(p), Possible(Current(p)),
         NEW v, v = proc[p].version, v # 22, NEW i, i = proc[p].at, NEW n, n = Name(v, i)
  PROVE  UpgradeInv'
<1>0. /\ v \in Plain /\ i \in Statements(v) /\ i \in Nat \ {0} /\ Current(p) = <<"create", n>>
      /\ 1..v - 1 \subseteq recorded
      /\ i > 1 => Owns(p, v) /\ v \notin recorded
      /\ n # Copy /\ (n \in M => v \in {1, 18} /\ i > 1)
  <2>1. /\ v \in Version /\ i \in Statements(v) /\ i \in Nat \ {0} /\ Current(p) = Migrations[v][i]
        /\ 1..v - 1 \subseteq recorded /\ (i > 1 => Owns(p, v) /\ v \notin recorded)
    BY AtStatement
  <2>2. v \in Plain
    BY <2>1, Numbers
  <2> QED BY <2>1, <2>2, Scripts, WhoseNames
<1>1. /\ OthersStand(p) /\ Effect(Current(p)) /\ UNCHANGED <<recorded, added, mishaps>> /\ ProcessInv'
      /\ \A u \in Version : Owns(p, u)' <=> u = v
      /\ Ran(p, v)' = Ran(p, v) \cup {i}
      /\ \A q \in Process, u \in Version : Owns(q, u) => Owns(q, u)'
      /\ \A q \in Process, u \in Version : Owns(q, u)' => Owns(q, u) \/ (q = p /\ u = v /\ i = 1)
  BY GoesOn
<1>2. n \notin objects /\ Ran(p, v) = {j \in Statements(v) : j < i}
  BY <1>0, AtStatement DEF Possible
<1>3. objects' = objects \cup {n} /\ rows' = rows /\ rebuilt' = rebuilt
  <2>1. Effect(<<"create", n>>)
    BY <1>0, <1>1
  <2>2. objects' = objects \cup {n} /\ rows' = rows
    BY <2>1 DEF Effect
  <2>3. rebuilt' = (rebuilt \/ <<"create", n>>[1] = "rename")
    BY <2>1 DEF Effect
  <2>4. rebuilt \in BOOLEAN
    BY DEF SchemaTypeOK
  <2> QED BY <2>2, <2>3, <2>4
<1>4. Lost' = Lost /\ (Begun' <=> Begun)
  BY <1>0, <1>3 DEF Lost, Begun
<1>5. i = 1 => v \notin recorded /\ \A q \in Process : ~Owns(q, v)
  <2> SUFFICES ASSUME i = 1
               PROVE  v \notin recorded /\ \A q \in Process : ~Owns(q, v)
    OBVIOUS
  <2>1. Name(v, 1) \notin objects \cup Lost
    BY <1>0, <1>2 DEF Lost
  <2>2. v \notin recorded
    BY <1>0, <2>1, Numbers DEF UpgradeInv, RecordedInv
  <2>3. ASSUME NEW q \in Process, Owns(q, v)
        PROVE  1 \in Ran(q, v)
    BY <1>0, <2>3 DEF Owns, Ran
  <2>4. ASSUME NEW q \in Process, Owns(q, v)
        PROVE  FALSE
    BY <1>0, <2>1, <2>3, <2>4, Numbers DEF UpgradeInv, OwnerInv
  <2> QED BY <2>2, <2>4
<1>6. \A q \in Process \ {p} : \A u : Ran(q, u)' = Ran(q, u)
  BY <1>1, StandStill
<1>7. v \notin recorded /\ \A q \in Process : Owns(q, v) => q = p
  <2>1. CASE i = 1
    BY <1>5, <2>1
  <2>2. CASE i # 1
    <3>1. Owns(p, v) /\ v \in Version
      BY <1>0, <2>2, Numbers
    <3> QED BY <3>1 DEF UpgradeInv, OwnerInv
  <2> QED BY <2>1, <2>2
<1>8. OwnerInv'
  <2> SUFFICES ASSUME NEW q \in Process, NEW u \in Version, Owns(q, u)'
               PROVE  /\ u \notin recorded'
                      /\ \A r \in Process : Owns(r, u)' => r = q
                      /\ u # 22 => \A j \in Ran(q, u)' : Name(u, j) \in (objects \cup Lost)'
    BY DEF OwnerInv
  <2>1. CASE q = p
    <3>1. u = v
      BY <1>1, <2>1
    <3>2. \A j \in Ran(p, v) : Name(v, j) \in objects \cup Lost
      <4>1. CASE i = 1
        BY <1>0, <1>2, <4>1, Scripts
      <4>2. CASE i # 1
        <5>1. Owns(p, v) /\ v \in Version
          BY <1>0, <4>2, Numbers
        <5> QED BY <5>1, v # 22 DEF UpgradeInv, OwnerInv
      <4> QED BY <4>1, <4>2
    <3>3. \A j \in Ran(p, v)' : Name(v, j) \in (objects \cup Lost)'
      BY <1>1, <1>3, <1>4, <3>2
    <3>4. \A r \in Process : Owns(r, v)' => r = p
      BY <1>0, <1>1, <1>7, Numbers
    <3> QED BY <1>1, <1>7, <2>1, <3>1, <3>3, <3>4
  <2>2. CASE q # p
    <3>1. Owns(q, u) /\ u # v
      BY <1>1, <1>7, <2>2
    <3> QED BY <1>1, <1>3, <1>4, <1>6, <2>2, <3>1 DEF UpgradeInv, OwnerInv
  <2> QED BY <2>1, <2>2
<1>9. RecordedInv'
  BY <1>1, <1>3, <1>4 DEF UpgradeInv, RecordedInv
<1>10. RebuildInv'
  <2>1. ASSUME NEW q \in Process, Owns(q, 22)'
        PROVE  Owns(q, 22) /\ Next22(q)' = Next22(q) /\ n \notin M
    <3>1. Owns(q, 22) /\ q # p
      BY <1>0, <1>1, <2>1, Numbers
    <3>2. 1..21 \subseteq recorded
      BY <3>1, Owner22
    <3> QED BY <1>0, <1>1, <1>7, <3>1, <3>2, StandStill
  <2>2. Main \in M /\ \A j \in 5..8 : Name(22, j) \in M
    BY RebuildIs, Versions DEF M, Name
  <2> QED BY <1>0, <1>1, <1>3, <1>4, <2>1, <2>2 DEF UpgradeInv, RebuildInv
<1>11. CalmInv'
  <2> SUFFICES ASSUME mishaps = 0
               PROVE  CalmInv'
    BY <1>1 DEF CalmInv
  <2>1. ASSUME NEW u \in Plain, NEW j \in Statements(u), Name(u, j) \in objects'
        PROVE  u \in recorded' \/ \E q \in Process : Owns(q, u)' /\ j \in Ran(q, u)'
    <3>1. CASE Name(u, j) = n
      <4>1. u = v /\ j = i
        BY <1>0, <3>1, NamesDiffer
      <4>2. Owns(p, v)' /\ i \in Ran(p, v)'
        BY <1>0, <1>1, Numbers
      <4> QED BY <4>1, <4>2
    <3>2. CASE Name(u, j) \in objects
      <4>1. u \in recorded \/ \E q \in Process : Owns(q, u) /\ j \in Ran(q, u)
        BY <3>2 DEF UpgradeInv, CalmInv
      <4>2. \A q \in Process : Owns(q, u) => Owns(q, u)' /\ Ran(q, u) \subseteq Ran(q, u)'
        <5>1. Owns(p, u) => u = v
          BY <1>1, Numbers
        <5>2. \A q \in Process : Owns(q, u) => Owns(q, u)'
          BY <1>1, Numbers
        <5>3. Owns(p, u) => Ran(p, u) \subseteq Ran(p, u)'
          BY <1>1, <5>1
        <5> QED BY <1>6, <5>2, <5>3
      <4> QED BY <1>1, <4>1, <4>2
    <3> QED BY <1>3, <2>1, <3>1, <3>2
  <2> QED BY <1>1, <1>4, <2>1, Numbers DEF UpgradeInv, CalmInv
<1> QED BY <1>1, <1>8, <1>9, <1>10, <1>11 DEF UpgradeInv

\* Another process does not own version 22 while this one runs it.
LEMMA Alone22 ==
  ASSUME SchemaTypeOK, UpgradeInv, NEW p \in Process, Statement(p), Possible(Current(p)),
         proc[p].version = 22, NEW i, i = proc[p].at, i > 1
  PROVE  /\ i \in 2..8 /\ Owns(p, 22) /\ Next22(p) = i /\ Current(p) = Rebuild[i]
         /\ OthersStand(p) /\ Effect(Current(p)) /\ UNCHANGED <<recorded, added, mishaps>> /\ ProcessInv'
         /\ Owns(p, 22)' /\ Next22(p)' = i + 1
         /\ \A q \in Process, u \in Version : Owns(q, u)' <=> Owns(q, u)
         /\ \A q \in Process : Owns(q, 22) => q = p
         /\ \A q \in Process, u \in Plain : Owns(q, u) => Ran(q, u)' = Ran(q, u)
         /\ 1..21 \subseteq recorded /\ 22 \notin recorded /\ Begun
<1>0. /\ i \in Statements(22) /\ i \in Nat /\ Owns(p, 22) /\ Next22(p) = i /\ Current(p) = Migrations[22][i]
      /\ \A u \in Version : Owns(p, u) <=> u = 22 /\ i > 1
  BY AtStatement, Numbers
<1>1. /\ OthersStand(p) /\ Effect(Current(p)) /\ UNCHANGED <<recorded, added, mishaps>> /\ ProcessInv'
      /\ (\A u \in Version : Owns(p, u)' <=> u = 22) /\ Next22(p)' = i + 1
  BY GoesOn
<1>2. i \in 2..8 /\ Current(p) = Rebuild[i]
  <2>1. Statements(22) = 1..8 /\ Migrations[22] = Rebuild
    BY Versions, RebuildIs DEF Statements
  <2>2. i \in 1..8
    BY <1>0, <2>1
  <2> QED BY <1>0, <2>1, <2>2
<1>3. 1..21 \subseteq recorded /\ 22 \notin recorded /\ Begun /\ \A q \in Process : Owns(q, 22) => q = p
  BY <1>0, Owner22
<1>4. \A q \in Process, u \in Version : Owns(q, u)' <=> Owns(q, u)
  BY <1>0, <1>1, StandStill
<1>5. \A q \in Process, u \in Plain : Owns(q, u) => Ran(q, u)' = Ran(q, u)
  <2>1. \A u \in Plain : ~Owns(p, u)
    BY <1>0, Numbers
  <2> QED BY <1>1, <2>1, StandStill
<1> QED BY <1>0, <1>1, <1>2, <1>3, <1>4, <1>5, Numbers

\* Version 22 goes on: the names that it takes and gives back are those it makes.
LEMMA Goes22 ==
  ASSUME SchemaTypeOK, UpgradeInv, NEW p \in Process, Statement(p), Possible(Current(p)),
         proc[p].version = 22, proc[p].at > 1, objects \ M \subseteq objects' \cup {Copy},
         objects' \subseteq objects \cup M, Begun', RebuildInv'
  PROVE  UpgradeInv'
<1>1. /\ UNCHANGED <<recorded, added, mishaps>> /\ ProcessInv'
      /\ \A q \in Process, u \in Version : Owns(q, u)' <=> Owns(q, u)
      /\ \A q \in Process, u \in Plain : Owns(q, u) => Ran(q, u)' = Ran(q, u)
      /\ 1..21 \subseteq recorded /\ 22 \notin recorded /\ Begun /\ Owns(p, 22)'
  BY Alone22
<1>2. Lost = M /\ Lost' = M
  BY <1>1 DEF Lost
<1>3. ASSUME NEW u \in Plain, NEW j \in Statements(u), Name(u, j) \in objects \cup Lost
      PROVE  Name(u, j) \in (objects \cup Lost)'
  BY <1>2, <1>3, WhoseNames
<1>4. OwnerInv'
  <2> SUFFICES ASSUME NEW q \in Process, NEW u \in Version, Owns(q, u)'
               PROVE  /\ u \notin recorded'
                      /\ \A r \in Process : Owns(r, u)' => r = q
                      /\ u # 22 => \A j \in Ran(q, u)' : Name(u, j) \in (objects \cup Lost)'
    BY DEF OwnerInv
  <2>1. Owns(q, u)
    BY <1>1
  <2>2. u \notin recorded' /\ \A r \in Process : Owns(r, u)' => r = q
    BY <1>1, <2>1 DEF UpgradeInv, OwnerInv
  <2>3. ASSUME u # 22, NEW j \in Ran(q, u)'
        PROVE  Name(u, j) \in (objects \cup Lost)'
    <3>1. u \in Plain /\ j \in Ran(q, u) /\ j \in Statements(u)
      BY <1>1, <2>1, <2>3, Numbers DEF Ran
    <3>2. Name(u, j) \in objects \cup Lost
      BY <2>1, <2>3, <3>1 DEF UpgradeInv, OwnerInv
    <3> QED BY <1>3, <3>1, <3>2
  <2> QED BY <2>2, <2>3
<1>5. RecordedInv'
  <2> SUFFICES ASSUME NEW u \in recorded
               PROVE  /\ 1..u \subseteq recorded
                      /\ u # 22 => \A j \in Statements(u) : Name(u, j) \in (objects \cup Lost)'
                      /\ u = 22 => rebuilt' /\ M \subseteq objects'
    BY <1>1 DEF RecordedInv
  <2>1. 1..u \subseteq recorded /\ u # 22
    BY <1>1 DEF UpgradeInv, RecordedInv
  <2>2. u \in Plain
    BY <2>1, Numbers DEF SchemaTypeOK
  <2>3. \A j \in Statements(u) : Name(u, j) \in objects \cup Lost
    BY <2>1 DEF UpgradeInv, RecordedInv
  <2> QED BY <1>3, <2>1, <2>2, <2>3
<1>6. CalmInv'
  <2> SUFFICES ASSUME mishaps = 0
               PROVE  CalmInv'
    BY <1>1 DEF CalmInv
  <2>1. ASSUME NEW u \in Plain, NEW j \in Statements(u), Name(u, j) \in objects'
        PROVE  u \in recorded' \/ \E q \in Process : Owns(q, u)' /\ j \in Ran(q, u)'
    <3>1. CASE Name(u, j) \in M
      BY <1>1, <3>1, WhoseNames
    <3>2. CASE Name(u, j) \in objects
      <4>1. u \in recorded \/ \E q \in Process : Owns(q, u) /\ j \in Ran(q, u)
        BY <3>2 DEF UpgradeInv, CalmInv
      <4> QED BY <1>1, <4>1, Numbers
    <3> QED BY <2>1, <3>1, <3>2
  <2> QED BY <1>1, <2>1 DEF CalmInv
<1> QED BY <1>1, <1>4, <1>5, <1>6 DEF UpgradeInv

\* A statement of version 22, but the first.
LEMMA Step22 ==
  ASSUME SchemaTypeOK, UpgradeInv, NEW p \in Process, Statement(p), Possible(Current(p)),
         proc[p].version = 22, NEW i, i = proc[p].at, i > 1
  PROVE  UpgradeInv'
<1>1. /\ i \in 2..8 /\ Owns(p, 22) /\ Next22(p) = i /\ Current(p) = Rebuild[i] /\ Effect(Rebuild[i])
      /\ UNCHANGED <<recorded, added, mishaps>>
      /\ Next22(p)' = i + 1 /\ Begun
  BY Alone22
<1>2. \A q \in Process : Owns(q, 22)' <=> q = p
  BY Alone22, Numbers
<1>3. /\ Next22(p) <= 4 => Copy \in objects
      /\ Next22(p) \in {2, 3} => M \subseteq objects
      /\ Next22(p) = 2 => added \subseteq rows[Main]
      /\ Next22(p) \in {3, 4} => added \subseteq rows[Copy]
      /\ Next22(p) = 4 => M \cap objects = {}
      /\ Next22(p) > 4 => /\ rebuilt /\ Main \in objects
                          /\ \A j \in 5..8 : j < Next22(p) <=> Name(22, j) \in objects
  BY <1>1 DEF UpgradeInv, RebuildInv
<1>4. (rebuilt => Copy \notin objects) /\ added \subseteq rows[Main] \cup rows[Copy]
  BY DEF UpgradeInv, RebuildInv
<1>5. rebuilt \in BOOLEAN /\ rows \in [{Main, Copy} -> SUBSET {"old", "new"}] /\ Main # Copy /\ Main \in M
  BY DEF SchemaTypeOK, Main, Copy, M
<1>6. Copy \notin M /\ M = {Main} \cup MainIndexes
  BY RebuildIs DEF M
<1>7. CASE i = 2
  <2>1. objects' = objects /\ rows'[Main] = rows[Main] /\ rows'[Copy] = rows[Main] /\ rebuilt' = rebuilt
    <3>1. Effect(<<"copy", Copy>>)
      BY <1>1, <1>7, RebuildIs
    <3> QED BY <3>1, <1>5 DEF Effect
  <2>2. RebuildInv'
    BY <1>1, <1>2, <1>3, <1>4, <1>7, <2>1 DEF RebuildInv, Begun
  <2> QED BY <1>1, <1>7, <2>1, <2>2, Goes22 DEF Begun
<1>8. CASE i = 3
  <2>1. objects' = objects \ M /\ rows'[Main] = {} /\ rows'[Copy] = rows[Copy] /\ rebuilt' = rebuilt
    <3>1. Effect(<<"drop", Main>>)
      BY <1>1, <1>8, RebuildIs
    <3>2. objects' = objects \ M
      BY <3>1, <1>6 DEF Effect
    <3> QED BY <3>1, <3>2, <1>5 DEF Effect
  <2>2. Copy \in objects'
    BY <1>1, <1>3, <1>6, <1>8, <2>1
  <2>3. M \cap objects' = {} /\ ~rebuilt'
    BY <1>1, <1>3, <1>4, <1>8, <2>1
  <2>4. RebuildInv'
    BY <1>1, <1>2, <1>3, <1>4, <1>8, <2>1, <2>2, <2>3 DEF RebuildInv, Begun
  <2> QED BY <1>1, <1>8, <2>1, <2>2, <2>4, Goes22 DEF Begun
<1>9. CASE i = 4
  <2>1. /\ objects' = (objects \ {Copy}) \cup {Main} /\ rows'[Main] = rows[Copy] /\ rows'[Copy] = {}
        /\ rebuilt' = TRUE
    <3>1. Effect(<<"rename", Copy>>)
      BY <1>1, <1>9, RebuildIs
    <3> QED BY <3>1, <1>5 DEF Effect
  <2>2. \A j \in 5..8 : Name(22, j) \notin objects'
    <3>1. \A j \in 5..8 : Name(22, j) \in MainIndexes
      BY RebuildIs, Versions DEF Name
    <3> QED BY <1>1, <1>3, <1>6, <1>9, <2>1, <3>1, RebuildIs
  <2>3. RebuildInv'
    BY <1>1, <1>2, <1>3, <1>5, <1>9, <2>1, <2>2 DEF RebuildInv, Begun
  <2> QED BY <1>1, <1>5, <1>9, <2>1, <2>3, Goes22 DEF Begun
<1>10. CASE i \in 5..8
  <2>1. objects' = objects \cup {Name(22, i)} /\ rows' = rows /\ rebuilt' = rebuilt
    <3>1. Effect(<<"create", Name(22, i)>>)
      BY <1>1, <1>10, RebuildIs, Versions DEF Name
    <3> QED BY <3>1, <1>5 DEF Effect
  <2>2. Name(22, i) \in M
    BY <1>10, <1>6, RebuildIs, Versions DEF Name
  <2>3. \A j \in 5..8 : j < i + 1 <=> Name(22, j) \in objects'
    <3>1. \A j \in 5..8 : j < i <=> Name(22, j) \in objects
      BY <1>1, <1>3, <1>10
    <3>2. \A j \in 5..8 : Name(22, j) = Name(22, i) => j = i
      BY <1>10, RebuildIs, Versions DEF Name
    <3>3. \A j \in 5..8 : j < i + 1 <=> j < i \/ j = i
      BY <1>10
    <3> QED BY <2>1, <3>1, <3>2, <3>3
  <2>4. RebuildInv'
    BY <1>1, <1>2, <1>3, <1>4, <1>6, <1>10, <2>1, <2>2, <2>3 DEF RebuildInv, Begun
  <2> QED BY <1>1, <1>10, <2>1, <2>2, <2>4, Goes22 DEF Begun
<1> QED BY <1>1, <1>7, <1>8, <1>9, <1>10

\* The first statement of version 22, which only one process gets past.
LEMMA First22 ==
  ASSUME SchemaTypeOK, UpgradeInv, NEW p \in Process, Statement(p), Possible(Current(p)),
         proc[p].version = 22, proc[p].at = 1, raced' = FALSE
  PROVE  UpgradeInv'
<1>1. Current(p) = <<"create", Copy>> /\ 1..21 \subseteq recorded
  <2>1. Current(p) = Migrations[22][1] /\ 1..22 - 1 \subseteq recorded
    BY AtStatement
  <2> QED BY <2>1, Versions, RebuildIs
<1>2. /\ OthersStand(p) /\ Effect(<<"create", Copy>>) /\ UNCHANGED <<recorded, added, mishaps>> /\ ProcessInv'
      /\ (\A u \in Version : Owns(p, u)' <=> u = 22) /\ Next22(p)' = 2
      /\ \A q \in Process, u \in Version : Owns(q, u)' => Owns(q, u) \/ (q = p /\ u = 22)
      /\ \A u \in Version : ~Owns(p, u)
  <2>1. 1 + 1 = 2
    OBVIOUS
  <2>2. \A u \in Version : ~Owns(p, u)
    BY AtStatement
  <2> QED BY <1>1, <2>1, <2>2, GoesOn
<1>3. Copy \notin objects /\ ~rebuilt
  <2>1. Copy \notin objects
    BY <1>1 DEF Possible
  <2>2. raced' = (raced \/ (<<"create", Copy>> = <<"create", Copy>> /\ rebuilt))
    BY <1>2 DEF Effect
  <2> QED BY <2>1, <2>2 DEF SchemaTypeOK
<1>4. objects' = objects \cup {Copy} /\ rows' = rows /\ rebuilt' = rebuilt
  <2>1. objects' = objects \cup {Copy} /\ rows' = rows
    BY <1>2 DEF Effect
  <2>2. rebuilt' = (rebuilt \/ <<"create", Copy>>[1] = "rename")
    BY <1>2 DEF Effect
  <2> QED BY <2>1, <2>2 DEF SchemaTypeOK
<1>5. Lost = {} /\ ~Begun /\ Begun'
  BY <1>3, <1>4 DEF Lost, Begun
<1>6. 22 \notin recorded /\ \A q \in Process : ~Owns(q, 22)
  BY <1>3, <1>5, Owner22 DEF UpgradeInv, RecordedInv
<1>7. M \subseteq objects
  <2>1. 1 \in recorded /\ 18 \in recorded
    BY <1>1
  <2>2. (\A j \in Statements(1) : Name(1, j) \in objects) /\ (\A j \in Statements(18) : Name(18, j) \in objects)
    BY <1>5, <2>1 DEF UpgradeInv, RecordedInv
  <2> QED BY <2>2, MainNames DEF M
<1>8. \A q \in Process, u \in Plain : Owns(q, u)' => Owns(q, u) /\ Ran(q, u)' = Ran(q, u) /\ q # p
  BY <1>2, StandStill, Numbers
<1>9. \A q \in Process, u \in Plain : Owns(q, u) => Owns(q, u)' /\ Ran(q, u)' = Ran(q, u)
  BY <1>2, StandStill, Numbers
<1>10. OwnerInv'
  <2> SUFFICES ASSUME NEW q \in Process, NEW u \in Version, Owns(q, u)'
               PROVE  /\ u \notin recorded'
                      /\ \A r \in Process : Owns(r, u)' => r = q
                      /\ u # 22 => \A j \in Ran(q, u)' : Name(u, j) \in (objects \cup Lost)'
    BY DEF OwnerInv
  <2>1. CASE u = 22
    BY <1>2, <1>6, <2>1, Numbers
  <2>2. CASE u # 22
    <3>1. u \in Plain /\ Owns(q, u) /\ Ran(q, u)' = Ran(q, u)
      BY <1>8, <2>2, Numbers
    <3>2. \A r \in Process : Owns(r, u)' => Owns(r, u)
      BY <1>8, <3>1
    <3> QED BY <1>2, <1>4, <1>5, <2>2, <3>1, <3>2 DEF UpgradeInv, OwnerInv
  <2> QED BY <2>1, <2>2
<1>11. RecordedInv'
  BY <1>2, <1>4, <1>5, <1>6 DEF UpgradeInv, RecordedInv
<1>12. RebuildInv'
  <2>1. \A q \in Process : Owns(q, 22)' => q = p
    BY <1>2, <1>6, Numbers
  <2>2. added \subseteq rows[Main] /\ added \subseteq rows[Main] \cup rows[Copy]
    BY <1>5 DEF UpgradeInv, RebuildInv
  <2> QED BY <1>2, <1>3, <1>4, <1>5, <1>7, <2>1, <2>2 DEF RebuildInv
<1>13. CalmInv'
  <2> SUFFICES ASSUME mishaps = 0
               PROVE  CalmInv'
    BY <1>2 DEF CalmInv
  <2>1. ASSUME NEW u \in Plain, NEW j \in Statements(u), Name(u, j) \in objects'
        PROVE  u \in recorded' \/ \E q \in Process : Owns(q, u)' /\ j \in Ran(q, u)'
    <3>1. Name(u, j) \in objects
      BY <1>4, <2>1, WhoseNames
    <3>2. u \in recorded \/ \E q \in Process : Owns(q, u) /\ j \in Ran(q, u)
      BY <3>1 DEF UpgradeInv, CalmInv
    <3> QED BY <1>2, <1>9, <3>2
  <2> QED BY <1>2, <2>1, Numbers DEF CalmInv
<1> QED BY <1>2, <1>10, <1>11, <1>12, <1>13 DEF UpgradeInv

\* A statement, of any version.
LEMMA StatementStep ==
  ASSUME SchemaTypeOK, UpgradeInv, NEW p \in Process, Statement(p), raced' = FALSE
  PROVE  UpgradeInv'
<1>1. CASE ~Possible(Current(p))
  BY <1>1, NotRefused, RaiseStep
<1>2. CASE Possible(Current(p)) /\ proc[p].version # 22
  BY <1>2, PlainStep
<1>3. CASE Possible(Current(p)) /\ proc[p].version = 22
  <2>1. proc[p].at \in Nat \ {0}
    BY AtStatement
  <2>2. proc[p].at = 1 \/ proc[p].at > 1
    BY <2>1
  <2> QED BY <1>3, <2>2, First22, Step22
<1> QED BY <1>1, <1>2, <1>3

-------------------------------------------------------------------------------
\* The catalog as a release left it.
LEMMA SchemaInitInv == SchemaInit => SchemaInv
<1> SUFFICES ASSUME SchemaInit
             PROVE  SchemaInv
  OBVIOUS
<1>1. PICK k \in Releases :
        /\ recorded = 1..k
        /\ objects = UNION {Made(v) : v \in 1..k}
        /\ rows = [t \in {Main, Copy} |-> IF t = Main /\ k > 0 THEN {"old"} ELSE {}]
        /\ added = rows[Main]
        /\ proc = [p \in Process |-> Closed]
        /\ rebuilt = (k >= 22) /\ raced = FALSE /\ mishaps = 0
  BY DEF SchemaInit
<1>2. k \in 0..26 /\ 1..k \subseteq Version
  BY SchemaConstants, Versions
<1> DEFINE late == k >= 22
<1>0. rebuilt \in BOOLEAN /\ (rebuilt <=> late)
  <2>1. rebuilt = late
    BY <1>1
  <2>2. late \in BOOLEAN
    OBVIOUS
  <2> HIDE DEF late
  <2> QED BY <2>1, <2>2, Zenon
<1>3. \A p \in Process : proc[p].pc = "closed" /\ proc[p].pending = 0 /\ proc[p].applied = {}
  BY <1>1 DEF Closed
<1>4. \A p \in Process, v \in Version : ~Owns(p, v)
  BY <1>3, Numbers DEF Owns
<1>5. SchemaTypeOK
  <2>1. objects \subseteq (UNION {Made(v) : v \in Version}) \cup {Copy}
    BY <1>1, <1>2
  <2>2. proc \in [Process -> [pc : {"closed", "next", "script", "ready", "failed"},
                              applied : SUBSET Version, version : Version \cup {0},
                              at : Nat, pending : Version \cup {0}]]
    BY <1>1 DEF Closed
  <2>3. rows \in [{Main, Copy} -> SUBSET {"old", "new"}] /\ added \subseteq {"old", "new"}
    BY <1>1
  <2>4. mishaps \in 0..MaxMishaps /\ rebuilt \in BOOLEAN /\ raced \in BOOLEAN
    <3>1. MaxMishaps \in Nat
      BY SchemaConstants
    <3>2. mishaps = 0 /\ raced = FALSE
      BY <1>1
    <3>3. mishaps \in 0..MaxMishaps
      BY <3>1, <3>2
    <3>4. rebuilt \in BOOLEAN
      BY <1>0, Zenon
    <3> QED BY <3>2, <3>3, <3>4
  <2> QED BY <1>1, <1>2, <2>1, <2>2, <2>3, <2>4 DEF SchemaTypeOK
<1>6. Copy \notin objects
  <2>1. \A v \in Version : Copy \notin Made(v)
    BY DEF Made
  <2> QED BY <1>1, <1>2, <2>1
<1>7. \A v \in 1..k : Made(v) \subseteq objects
  BY <1>1
<1>8. ProcessInv /\ OwnerInv
  BY <1>3, <1>4 DEF ProcessInv, Local, OwnerInv
<1>9. RecordedInv
  <2> SUFFICES ASSUME NEW v \in recorded
               PROVE  /\ 1..v \subseteq recorded
                      /\ v # 22 => \A i \in Statements(v) : Name(v, i) \in objects \cup Lost
                      /\ v = 22 => rebuilt /\ M \subseteq objects
    BY DEF RecordedInv
  <2>1. v \in 1..k /\ Made(v) \subseteq objects
    BY <1>1, <1>7
  <2>2. v # 22 => v \in Plain
    BY <1>2, <2>1, Numbers
  <2>3. v = 22 => rebuilt
    BY <1>0, <1>2, <2>1
  <2>4. 1..v \subseteq recorded
    <3>1. 1..v \subseteq 1..k
      BY <1>2, <2>1
    <3> QED BY <1>1, <3>1
  <2> QED BY <2>1, <2>2, <2>3, <2>4, WhatIsMade
<1>10. RebuildInv
  BY <1>1, <1>4, <1>6, Numbers DEF RebuildInv, Main, Copy
<1>11. CalmInv
  <2>1. ASSUME NEW u \in Plain, NEW j \in Statements(u), Name(u, j) \in objects
        PROVE  u \in recorded
    <3>1. PICK w \in 1..k : Name(u, j) \in Made(w)
      BY <1>1, <2>1
    <3>2. CASE w = 22
      <4>1. u \in {1, 18}
        BY <3>1, <3>2, WhatIsMade, WhoseNames
      <4> QED BY <1>1, <1>2, <3>2, <4>1
    <3>3. CASE w # 22
      <4>1. w \in Plain
        BY <1>2, <3>3, Numbers
      <4>2. PICK h \in Statements(w) : Name(u, j) = Name(w, h)
        BY <3>1, <4>1, WhatIsMade
      <4> QED BY <1>1, <4>1, <4>2, NamesDiffer
    <3> QED BY <3>2, <3>3
  <2>2. Begun => 22 \in recorded
    BY <1>0, <1>1, <1>2, <1>6 DEF Begun
  <2> QED BY <2>1, <2>2 DEF CalmInv
<1>12. ScriptInv
  BY <1>3 DEF ScriptInv
<1> QED BY <1>5, <1>8, <1>9, <1>10, <1>11, <1>12 DEF SchemaInv, UpgradeInv

\* Types.
Proc == [pc : {"closed", "next", "script", "ready", "failed"}, applied : SUBSET Version,
         version : Version \cup {0}, at : Nat, pending : Version \cup {0}]

\* A process that is given new values of its type.
LEMMA ProcTypes ==
  ASSUME SchemaTypeOK, ScriptInv, NEW p \in Process, NEW r \in Proc, proc' = [proc EXCEPT ![p] = r],
         r.pc = "script" => r.version \in Version /\ r.at # 0
  PROVE  /\ proc' \in [Process -> [pc : {"closed", "next", "script", "ready", "failed"},
                                   applied : SUBSET Version, version : Version \cup {0},
                                   at : Nat, pending : Version \cup {0}]]
         /\ ScriptInv'
<1>1. proc \in [Process -> Proc]
  BY DEF SchemaTypeOK, Proc
<1>2. proc' \in [Process -> Proc]
  BY <1>1
<1>3. ScriptInv'
  BY <1>1 DEF ScriptInv
<1> QED BY <1>2, <1>3 DEF Proc

\* A statement leaves the types.
LEMMA RowTypes ==
  ASSUME SchemaTypeOK, ScriptInv, NEW p \in Process, Statement(p), Possible(Current(p))
  PROVE  SchemaTypeOK' /\ ScriptInv'
<1> DEFINE v == proc[p].version
           s == Current(p)
<1>1. v \in Version /\ proc[p].at \in DOMAIN Migrations[v] /\ s = Migrations[v][proc[p].at]
  BY Lengths DEF Statement, ScriptInv, Current, Statements, SchemaTypeOK
<1>2. /\ proc' = [proc EXCEPT ![p].at = @ + 1] /\ Effect(s) /\ UNCHANGED <<recorded, added, mishaps>>
  BY DEF Statement
<1>3. s[2] = Copy \/ s[2] \in Made(v)
  BY <1>1 DEF Made, Range
<1>4. Main \in Made(22) /\ Main # Copy
  BY WhatIsMade DEF M, Main, Copy
<1>5. proc \in [Process -> Proc] /\ proc[p] \in Proc
  BY DEF SchemaTypeOK, Proc
<1>6. /\ proc' \in [Process -> [pc : {"closed", "next", "script", "ready", "failed"},
                                applied : SUBSET Version, version : Version \cup {0},
                                at : Nat, pending : Version \cup {0}]]
      /\ ScriptInv'
  <2> DEFINE r == [proc[p] EXCEPT !.at = proc[p].at + 1]
  <2>1. r \in Proc /\ r.version \in Version /\ r.at # 0
    BY <1>1, <1>5 DEF Proc
  <2>2. proc' = [proc EXCEPT ![p] = r]
    BY <1>2, <1>5
  <2> HIDE DEF r
  <2> QED BY <2>1, <2>2, ProcTypes
<1> HIDE DEF v, s
<1>7. objects' \subseteq (UNION {Made(w) : w \in Version}) \cup {Copy}
  <2>1. objects' \subseteq objects \cup {s[2], Main}
    BY <1>2 DEF Effect
  <2>2. s[2] \in (UNION {Made(w) : w \in Version}) \cup {Copy}
    BY <1>1, <1>3
  <2>3. Main \in UNION {Made(w) : w \in Version}
    BY <1>4, Numbers
  <2>4. objects \subseteq (UNION {Made(w) : w \in Version}) \cup {Copy}
    BY DEF SchemaTypeOK
  <2> QED BY <2>1, <2>2, <2>3, <2>4
<1>8. rows' \in [{Main, Copy} -> SUBSET {"old", "new"}]
  BY <1>2, <1>4 DEF Effect, SchemaTypeOK
<1>9. rebuilt' \in BOOLEAN /\ raced' \in BOOLEAN
  <2>1. /\ rebuilt' = (rebuilt \/ s[1] = "rename")
        /\ raced' = (raced \/ (s = <<"create", Copy>> /\ rebuilt))
    BY <1>2 DEF Effect
  <2> QED BY <2>1
<1> QED BY <1>2, <1>6, <1>7, <1>8, <1>9 DEF SchemaTypeOK

\* A step leaves the types, whoever has raced.
LEMMA SchemaTypes ==
  ASSUME SchemaTypeOK, ScriptInv, NEW p \in Process,
         \/ Open(p) \/ BeginScript(p) \/ Statement(p) \/ Record(p) \/ Ready(p)
         \/ AddRow(p) \/ LockedOut(p) \/ Die(p)
  PROVE  SchemaTypeOK' /\ ScriptInv'
<1>0. proc \in [Process -> Proc] /\ proc[p] \in Proc
  BY DEF SchemaTypeOK, Proc
<1>1. Closed \in Proc /\ [Closed EXCEPT !.pc = "failed"] \in Proc
      /\ [Closed EXCEPT !.pc = "next", !.applied = recorded] \in Proc
  BY DEF Closed, Proc, SchemaTypeOK
<1>2. ASSUME NEW r \in Proc, proc' = [proc EXCEPT ![p] = r],
             r.pc = "script" => r.version \in Version /\ r.at # 0,
             UNCHANGED <<objects, rows, added, rebuilt, raced>>,
             recorded' \subseteq Version, mishaps' \in 0..MaxMishaps
      PROVE  SchemaTypeOK' /\ ScriptInv'
  <2>1. /\ proc' \in [Process -> [pc : {"closed", "next", "script", "ready", "failed"},
                                 applied : SUBSET Version, version : Version \cup {0},
                                 at : Nat, pending : Version \cup {0}]]
        /\ ScriptInv'
    BY <1>2, ProcTypes
  <2> QED BY <1>2, <2>1 DEF SchemaTypeOK
<1>3. recorded \subseteq Version /\ mishaps \in 0..MaxMishaps /\ MaxMishaps \in Nat
  BY SchemaConstants DEF SchemaTypeOK
<1>4. recorded \cup ({proc[p].pending} \ {0}) \subseteq Version
  BY <1>0, <1>3 DEF Proc
<1>5. CASE Open(p)
  BY <1>1, <1>2, <1>3, <1>5 DEF Open, Closed
<1>6. CASE BeginScript(p)
  <2> DEFINE v == CHOOSE u \in Todo(p) : \A w \in Todo(p) : u <= w
             r == [proc[p] EXCEPT !.pc = "script", !.at = 1, !.pending = 0, !.version = v]
  <2>1. v \in Version
    <3>1. Todo(p) \in SUBSET Nat /\ Todo(p) # {} /\ Todo(p) \subseteq Version
      BY <1>6, Numbers DEF BeginScript, Todo
    <3> QED BY <3>1, Least
  <2>0. /\ proc' = [proc EXCEPT ![p].pc = "script", ![p].at = 1, ![p].pending = 0,
                                ![p].version = v]
        /\ recorded' = recorded \cup ({proc[p].pending} \ {0})
        /\ UNCHANGED <<objects, rows, added, rebuilt, raced, mishaps>>
    BY <1>6 DEF BeginScript
  <2> HIDE DEF v
  <2>2. proc' = [proc EXCEPT ![p] = r]
    BY <1>0, <2>0
  <2>3. r \in Proc /\ r.version \in Version /\ r.at # 0
    <3>1. r \in Proc
      BY <1>0, <2>1 DEF Proc
    <3>2. r.version = v /\ r.at = 1
      BY <1>0 DEF Proc
    <3> QED BY <2>1, <3>1, <3>2
  <2>4. recorded' \subseteq Version /\ mishaps' \in 0..MaxMishaps
    BY <1>3, <1>4, <2>0
  <2> HIDE DEF r
  <2> HIDE DEF r
  <2> QED BY <1>2, <2>0, <2>2, <2>3, <2>4
<1>7. CASE Statement(p)
  <2>1. CASE Possible(Current(p))
    BY <1>7, <2>1, RowTypes
  <2>2. CASE ~Possible(Current(p))
    BY <1>1, <1>2, <1>3, <1>7, <2>2 DEF Statement, Raises, Closed
  <2> QED BY <2>1, <2>2
<1>8. CASE Record(p)
  <2>1. CASE proc[p].version \in recorded
    BY <1>1, <1>2, <1>3, <1>8, <2>1 DEF Record, Raises, Closed
  <2>2. CASE proc[p].version \notin recorded
    <3> DEFINE r == [proc[p] EXCEPT !.pc = "next", !.pending = proc[p].version]
    <3>1. r \in Proc /\ r.pc = "next"
      BY <1>0 DEF Proc
    <3>2. proc' = [proc EXCEPT ![p] = r]
      BY <1>0, <1>8, <2>2 DEF Record
    <3> HIDE DEF r
    <3> QED BY <1>2, <1>3, <1>8, <3>1, <3>2 DEF Record
  <2> QED BY <2>1, <2>2
<1>9. CASE Ready(p)
  <2> DEFINE r == [proc[p] EXCEPT !.pc = "ready", !.pending = 0]
  <2>1. r \in Proc /\ r.pc = "ready"
    BY <1>0 DEF Proc
  <2>2. proc' = [proc EXCEPT ![p] = r]
    BY <1>0, <1>9 DEF Ready
  <2> HIDE DEF r
  <2> QED BY <1>2, <1>3, <1>4, <1>9, <2>1, <2>2 DEF Ready
<1>10. CASE AddRow(p)
  <2>1. rows' \in [{Main, Copy} -> SUBSET {"old", "new"}]
    BY <1>10 DEF AddRow, SchemaTypeOK
  <2> QED BY <1>10, <2>1 DEF AddRow, SchemaTypeOK, ScriptInv
<1>11. CASE LockedOut(p)
  <2>1. mishaps' \in 0..MaxMishaps
    BY <1>3, <1>11 DEF LockedOut
  <2> QED BY <1>1, <1>2, <1>3, <1>11, <2>1 DEF LockedOut, Raises, Closed
<1>12. CASE Die(p)
  <2>1. mishaps' \in 0..MaxMishaps
    BY <1>3, <1>12 DEF Die
  <2> QED BY <1>1, <1>2, <1>3, <1>12, <2>1 DEF Die, Closed
<1> QED BY <1>5, <1>6, <1>7, <1>8, <1>9, <1>10, <1>11, <1>12

\* The invariant is inductive.
LEMMA SchemaStepInv == SchemaInv /\ [SchemaNext]_schemaVars => SchemaInv'
<1> SUFFICES ASSUME SchemaInv, [SchemaNext]_schemaVars
             PROVE  SchemaInv'
  OBVIOUS
<1>1. ASSUME NEW p \in Process,
             \/ Open(p) \/ BeginScript(p) \/ Statement(p) \/ Record(p) \/ Ready(p)
             \/ AddRow(p) \/ LockedOut(p) \/ Die(p)
      PROVE  SchemaInv'
  <2>1. SchemaTypeOK /\ SchemaTypeOK' /\ ScriptInv'
    BY <1>1, SchemaTypes DEF SchemaInv
  <2>2. ASSUME raced' = FALSE
        PROVE  UpgradeInv'
    <3>1. raced = FALSE
      <4>1. CASE Statement(p)
        <5>1. raced' = raced \/ raced' = (raced \/ (Current(p) = <<"create", Copy>> /\ rebuilt))
          BY <4>1 DEF Statement, Effect
        <5> QED BY <2>1, <2>2, <5>1 DEF SchemaTypeOK
      <4>2. CASE ~Statement(p)
        BY <1>1, <2>2, <4>2 DEF Open, BeginScript, Record, Ready, AddRow, LockedOut, Die
      <4> QED BY <4>1, <4>2
    <3>2. UpgradeInv
      BY <3>1 DEF SchemaInv
    <3> QED BY <1>1, <2>1, <2>2, <3>2, OpenStep, BeginScriptStep, StatementStep, RecordStep, ReadyStep,
               AddStep, EndStep
  <2> QED BY <2>1, <2>2 DEF SchemaInv
<1>2. CASE UNCHANGED schemaVars
  BY <1>2 DEF schemaVars, SchemaInv, SchemaTypeOK, ScriptInv, UpgradeInv, ProcessInv, Local, OwnerInv,
              RecordedInv, RebuildInv, CalmInv, Owns, Ran, Next22, Lost, Begun
<1> QED BY <1>1, <1>2 DEF SchemaNext

\* The invariant says that the schema is whole.
LEMMA SchemaInvWhole ==
  ASSUME SchemaInv
  PROVE  SchemaIsWhole
<1> SUFFICES ASSUME ~raced
             PROVE  /\ \A v \in recorded :
                         Made(v) \subseteq objects \cup IF 22 \in recorded THEN {} ELSE {Main} \cup MainIndexes
                    /\ (\E p \in Process : proc[p].pc = "ready") => recorded = Version
                    /\ added \subseteq rows[Main] \cup rows[Copy]
                    /\ Broken => mishaps > 0 \/ \E p \in Process : proc[p].pc \in {"next", "script"}
  BY DEF SchemaIsWhole
<1>1. SchemaTypeOK /\ UpgradeInv
  BY DEF SchemaInv, SchemaTypeOK
<1>2. ASSUME NEW v \in recorded
      PROVE  Made(v) \subseteq objects \cup IF 22 \in recorded THEN {} ELSE {Main} \cup MainIndexes
  <2>1. 22 \in recorded => M \subseteq objects
    BY <1>1 DEF UpgradeInv, RecordedInv
  <2>2. CASE v = 22
    BY <2>1, <2>2, WhatIsMade
  <2>3. CASE v # 22
    <3>1. v \in Plain
      BY <1>1, <2>3, Numbers DEF SchemaTypeOK
    <3>2. \A i \in Statements(v) : Name(v, i) \in objects \cup M
      BY <1>1, <2>3 DEF UpgradeInv, RecordedInv, Lost
    <3> QED BY <2>1, <3>1, <3>2, WhatIsMade DEF M
  <2> QED BY <2>2, <2>3
<1>3. (\E p \in Process : proc[p].pc = "ready") => recorded = Version
  BY <1>1 DEF UpgradeInv, ProcessInv, Local
<1>4. added \subseteq rows[Main] \cup rows[Copy]
  BY <1>1 DEF UpgradeInv, RebuildInv
<1>5. ASSUME Broken, ~(mishaps > 0), \A p \in Process : proc[p].pc \notin {"next", "script"}
      PROVE  FALSE
  <2>1. mishaps = 0
    BY <1>1, <1>5, SchemaConstants DEF SchemaTypeOK
  <2>2. \A p \in Process, v \in Version : ~Owns(p, v)
    BY <1>1, <1>5, Numbers DEF UpgradeInv, ProcessInv, Local, Owns
  <2>3. PICK v \in Version \ recorded : ~Possible(Migrations[v][1])
    BY <1>5 DEF Broken
  <2>4. CASE v = 22
    <3>1. Copy \notin objects
      BY <1>1, <2>1, <2>2, <2>3, <2>4, Numbers DEF UpgradeInv, CalmInv, Begun
    <3>2. Migrations[v][1] = <<"create", Copy>> /\ Copy \notin MainIndexes
      BY <2>4, Versions, RebuildIs DEF M
    <3> QED BY <2>3, <3>1, <3>2 DEF Possible
  <2>5. CASE v # 22
    <3>1. v \in Plain /\ 1 \in Statements(v)
      BY <2>3, <2>5, Numbers, Lengths
    <3>2. Name(v, 1) \notin objects
      BY <1>1, <2>1, <2>2, <2>3, <3>1, Numbers DEF UpgradeInv, CalmInv
    <3>3. Migrations[v][1] = <<"create", Name(v, 1)>> /\ Name(v, 1) \notin MainIndexes
      BY <3>1, Scripts, WhoseNames DEF M
    <3> QED BY <2>3, <3>2, <3>3 DEF Possible
  <2> QED BY <2>4, <2>5
<1> QED BY <1>2, <1>3, <1>4, <1>5
===============================================================================
