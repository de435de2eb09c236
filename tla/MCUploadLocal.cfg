SPECIFICATION FairSpec
CONSTANTS
  d1 = d1  d2 = d2  d3 = d3  g1 = g1  g2 = g2  s1 = s1  s2 = s2  NoDoc = NoDoc
  Docs <- LocalDocs
  Workers = {g1, g2}
  Servers = {s1}
  Home <- LocalHome
  Blank = {d3}
  ValkeyQueue = FALSE
  R2Storage = FALSE
  SQLiteStore = TRUE
  MaxFaults = 2
  MaxCrashes = 1
  MaxReruns = 0
INVARIANTS TypeOK ProcessedHasChunks FailedHasNoChunks StrandedOnlyByFault
PROPERTIES ImplementsLifecycle UploadsSettle
CHECK_DEADLOCK FALSE
