SPECIFICATION FairSpec
CONSTANTS
  Clients = {c1}
  Sys = sys
  Blocks = {a, b}
  Values = {0, 1}
  InitVal = 0
  NoVal = NoVal
  None = None
  NumBuffs = 1
  MaxLog = 8
  MaxCrashes = 2
CONSTRAINT OneBlockAtFirst
INVARIANTS TypeOK
PROPERTIES AtomicAndDurable CallsEnd
