SPECIFICATION Spec
CONSTANTS
  t1 = t1
  t2 = t2
  Threads <- OneThread
  Readers <- OneThread
  BlockSize = 20
  IntSize = 4
  RecSizes <- Small
  MaxRecs = 3
  MaxCrashes = 1
  CrashPoints <- EveryLabel
INVARIANTS
  LogReadable
