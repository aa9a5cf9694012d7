\* A refresh on its way while an outdated token of the same login is shown.
CONSTANTS
  a1 = a1  a2 = a2  a3 = a3  a4 = a4
  NoOne = NoOne
  Attempts = {a1, a2, a3, a4}
  MaxVersion = 1
SPECIFICATION Spec
SYMMETRY AttemptSymmetry
INVARIANTS ReuseEndsTheFamily
CHECK_DEADLOCK FALSE
