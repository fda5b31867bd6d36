SPECIFICATION Spec
CONSTANTS
  t1 = t1
  t2 = t2
  b1 = b1
  b2 = b2
  b3 = b3
  None = None
  Txs <- TwoTxs
  Blocks <- ThreeBlocks
  NumBuffs = 2
  MaxPins = 1
  ReadsMayFail = FALSE
SYMMETRY Symmetry
INVARIANTS
  TypeOK
  AvailableCount
  OneBufferPerBlock
  PinsAccounted
  PinnedBufferStays
  Coherent

PROPERTY
  NoLostModification
