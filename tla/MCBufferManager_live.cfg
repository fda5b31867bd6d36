SPECIFICATION FairSpec
CONSTANTS
  t1 = t1
  t2 = t2
  b1 = b1
  b2 = b2
  b3 = b3
  None = None
  Txs <- TwoTxs
  Blocks <- TwoBlocks
  NumBuffs = 1
  MaxPins = 1
  ReadsMayFail = TRUE
PROPERTIES
  PinReturns
  UnpinAllEnds
