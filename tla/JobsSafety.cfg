SPECIFICATION Spec
CONSTANTS
  Owners = {o1, o2}
  Revocable = {}
  Keys = {k1}
  NoKey = NoKey
  Commands = {c1, c2}
  Ids = {j1, j2}
  Clients = {}
  None = None
  MaxConcurrent = 1
  MaxJobs = 2
  MaxLog = 1
  MaxPending = 1
  MaxFaults = 1
  MaxCuts = 1
SYMMETRY Permuted
INVARIANTS TypeOK OneJobPerKey AnsweredOnDisk SuccessTrue
PROPERTIES FinalForever
