CONSTANTS
  Session = {s1, s2}
  MaxWindows = 2
  MaxTrouble = 1
  Lanes = {"scan", "discovery", "companion", "thumbnails", "categories", "recovery", "operation"}
  MaxStarts = 3
  Process = {p1, p2}
  Releases = {0, 21, 25}
  MaxMishaps = 1
  Folders = 2
  Date = {d1, d2}
  Size = {1, 2}
  MaxFiles = 2
  MaxLooks = 2
  MaxNews = 1
  Absent = Absent
  Kinds = {"event", "tag", "place", "person", "album", "review", "favourite"}
  Thing = {t1, t2}
  Title = {n1}
  Day <- Days
  Ranges <- UserRanges
  Page = {g1}
  Photo = {x1, x2}
  MaxClicks = 3
  MaxFaults = 1
  MaxChanges = 1
  None = None
  Nobody = Nobody
SPECIFICATION Spec
INVARIANTS
  TypeOK
  TrustIsMutual
  LaneIsSound
  SchemaIsWhole
  ConsolidationKeepsFiles
  LockIsAFailures
  PicksAreServerBacked
PROPERTIES
  DismissedStaysAway
CHECK_DEADLOCK FALSE
