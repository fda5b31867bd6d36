SPECIFICATION FairSpec
CONSTANTS
  t1 = t1
  t2 = t2
  Txs <- TwoTxs
  Blocks <- TwoBlocks
INVARIANTS
  TypeOK
  TableMatchesHolders
  Exclusion
  SharedWaiterBlocked
PROPERTIES
  StrictTwoPhase
  AbortHasRival
  RequestReturns
  ReleaseEnds
