\* Two syncs, a reader of the cache and a request, while the sheet is edited.
SPECIFICATION FairSpec
CONSTANTS
  c1 = c1
  s1 = s1
  s2 = s2
  g1 = g1
  Syncs = {s1, s2}
  Readers = {g1}
  Creators = {c1}
  BodyOf <- CreatorBodies
  Bodies <- OneOfEach
  Sheets <- SheetContents
  Seed <- SeededPayload
  MaxEdits = 1
  MaxFailed = 1
INVARIANTS
  TypeOK
  ActiveIsLatestSuccess
  GlobalBlockSurvives
  PinnedConfigServesJob
  CatalogueIsHonest
PROPERTIES
  ActiveFollowsSheet
  CacheFollowsSheet
\* The sheet is left invalid, and no sync has anything to record.
CHECK_DEADLOCK FALSE
