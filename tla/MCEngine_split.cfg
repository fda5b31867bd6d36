SPECIFICATION Spec
CONSTANTS
  None = None
  BlockSize = 144
  IntMin <- MCIntMin
  Schema <- MCSchema
  KeySize <- MCKeySize
  Indexes <- MCIndexes
  Statements <- MCStatements
  Databases <- MCDatabases
  Basic = {TRUE, FALSE}
  RecsPerBlock = 2
  MaxStatements = 4
  MaxThrows = 0
  MaxCrashes = 0
INVARIANT OverflowHoldsTheRest
