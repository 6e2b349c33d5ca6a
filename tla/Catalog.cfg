SPECIFICATION MCSpec
CONSTANTS
  Builds = {b1, b2}
  Ids = {r1, r2}
  Flat = Flat
  None = None
  Requests = {s1, s2}
  MaxChanges = 2
  MaxAway = 1
  MaxCrashes = 1
INVARIANTS HolderCanDownload
PROPERTIES KeptWhileReachable NeverOlder Converges
