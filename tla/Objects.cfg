SPECIFICATION Spec
CONSTANTS
  Files = {f1, f2}
  Contents = {c1, c2, c3}
  Callers = {p1, p2}
  None = None
  MaxEdits = 2
  MaxCrashes = 1
SYMMETRY Permuted
INVARIANTS ReferencedIntact WrongReported
