SPECIFICATION Spec
CONSTANTS
  Owners = {o1}
  Revocable = {o1}
  Keys = {k1}
  NoKey = NoKey
  Commands = {c1}
  Ids = {j1}
  Clients = {}
  None = None
  MaxConcurrent = 1
  MaxJobs = 1
  MaxLog = 2
  MaxPending = 1
  MaxFaults = 1
  MaxCuts = 1
INVARIANTS UnfinishedRecovers
