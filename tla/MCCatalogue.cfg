CONSTANTS
  v1 = v1
  v2 = v2
  v3 = v3
  p1 = p1
  p2 = p2
  Absent = Absent
  None = None
  Volume = {v1, v2, v3}
  Path = {p1, p2}
  Place <- UsedPlaces
  Content = {a, b}
  Busy = {v1}
  MaxRuns = 2
  MaxEvents = 1
  Odd <- OddPlaces
  Member = {v1, v2, v3}
  Primary = v1
  InScope <- UsedPlaces
  Alike <- LikeNames
  Required = 2
  Entries = 3
  Stamps <- CaptureTimes
  InTopic = {1, 2}
  PageSize = 1
  MaxListed = 3
  MaxReviews = 1
SPECIFICATION CatalogueSpec
INVARIANTS
  CatalogueTypeOK
  CachedHashIsTrue
  ActiveViewIsExact
  SafeFolderLosesNothing
  AuditTellsTheTruth
  PagesShowEachOnce
PROPERTIES
  PresentFilesStayInView
  DeletedAssetsAreUnused
SYMMETRY Symmetry
CHECK_DEADLOCK FALSE
