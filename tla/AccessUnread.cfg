SPECIFICATION AccessSpec
CONSTANTS
  AccessCalls = {c1}
  AccessPlayers = {u1}
  Rules <- FileRule
  CacheTTL = 1
  ErrorTTL = 1
  FileStatInterval = 2
  FetchTime = 1
  MaxCachedEntries = 1
  MaxEdits = 2
  MaxAccessClock = 5
CHECK_DEADLOCK FALSE
INVARIANTS UnreadableCloses
