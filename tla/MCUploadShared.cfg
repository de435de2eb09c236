SPECIFICATION FairSpec
CONSTANTS
  d1 = d1  d2 = d2  d3 = d3  g1 = g1  g2 = g2  s1 = s1  s2 = s2  NoDoc = NoDoc
  Docs <- SharedDocs
  Workers = {g1, g2}
  Servers = {s1, s2}
  Home <- SharedHome
  Blank = {d2}
  ValkeyQueue = TRUE
  R2Storage = TRUE
  SQLiteStore = FALSE
  MaxFaults = 1
  MaxCrashes = 1
  MaxReruns = 2
INVARIANTS ChunksBoundedByJobs HiddenChunksAreExplained
PROPERTIES JobsDrain
CHECK_DEADLOCK FALSE
