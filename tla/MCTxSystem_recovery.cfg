SPECIFICATION UndisturbedSpec
CONSTANTS
  Clients = {c1, c2}
  Sys = sys
  Blocks = {a, b}
  Values = {0, 1}
  InitVal = 0
  NoVal = NoVal
  None = None
  NumBuffs = 1
  MaxLog = 6
  MaxCrashes = 1
SYMMETRY MCSymmetry
INVARIANTS Recoverable ReadsCommittedOrOwn ChangesAreLocked
