SPECIFICATION UndisturbedSpec
CONSTANTS
  t1 = t1
  t2 = t2
  Threads <- TwoThreads
  Readers <- TwoThreads
  BlockSize = 20
  IntSize = 4
  RecSizes <- SmallAndLarge
  MaxRecs = 5
  MaxCrashes = 2
  CrashPoints <- EveryLabel
INVARIANTS
  TypeOK
  SavedIsOnFile
  FileIsPrefix
  IterationComplete
PROPERTIES
  ImplementsLog
