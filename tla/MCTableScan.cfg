SPECIFICATION Spec
CONSTANTS
  Txs = {t1, t2}
  Scans = {s1, s2}
  Vals = {0, 1}
  Blank = 0
  None = None
  InitFiles <- MCInitFiles
  NumSlots = 2
  MaxBlocks = 2
  MaxLog = 2
  MaxTxs = 2
SYMMETRY MCSymmetry
INVARIANTS TypeOK PassExact PinsMatchScans
PROPERTY ImplementsRecords
