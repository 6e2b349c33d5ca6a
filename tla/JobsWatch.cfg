SPECIFICATION FairSpec
CONSTANTS
  Owners = {o1}
  Revocable = {o1}
  Keys = {k1}
  NoKey = NoKey
  Commands = {c1}
  Ids = {j1}
  Clients = {w1}
  None = None
  MaxConcurrent = 1
  MaxJobs = 1
  MaxLog = 2
  MaxPending = 1
  MaxFaults = 1
  MaxCuts = 2
INVARIANTS WatchComplete
PROPERTIES WatchEnds RevokedStops
