SPECIFICATION Spec
CONSTANTS
  Error = Error
  None = None
  RecsPerBlock = 1
  Available = 4
  Schema <- MCSchema
  Contents <- MCContents
  IndexSets <- MCIndexSets
  Queries <- MCQueries
  Views <- MCViews
  NameOrder <- MCNameOrder
  Sorts <- MCSorts
  Basic = {TRUE, FALSE}
  MaxQueries = 2
INVARIANTS TypeOK RowsExact ErrorsExplained
PROPERTY QueryReturns
