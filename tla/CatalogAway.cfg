SPECIFICATION Spec
CONSTANTS
  Builds = {b1}
  Ids = {r1, r2}
  Flat = Flat
  None = None
  Requests = {s1}
  MaxChanges = 2
  MaxAway = 1
  MaxCrashes = 0
PROPERTIES KeptUnlessDeleted
