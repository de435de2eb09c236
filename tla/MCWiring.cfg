SPECIFICATION StartSpec
CONSTANTS
  Settings <- MCSettings
  Emails = {a, b}
  AccessTTL = 1
  RefreshTTL = 2
  MaxStarts = 2
  MaxNow = 2
  MaxDocuments = 1
  None = None
  Int32 = 16
  Int64 = 64
  MegaByte = 4
  PoolConns = 4
  Refused = Refused
  LegacyDatabases <- LegacyFiles
  Texts = {"a"}
  MaxFaults = 2
INVARIANTS AcceptedConfigIsUsable OneDatabase OwnDocuments StartKeepsData
PROPERTIES RequestsAreFresh SignalStops
CHECK_DEADLOCK FALSE
