SPECIFICATION ReaderSpec
CONSTANTS
  a = a
  b = b
  nan = nan
  null = null
  Primitives = {a, b, nan, null}
  NaNs = {nan}
  Null = null
  ClassNames <- MCClassNames
  Foreign <- MCForeign
  Values <- MCValues
  Met <- MCMet
  Tables <- MCTables
  Second <- MCSecond
  MaxCalls = 2
  Archives <- MCArchives
  Types <- MCTypes
  MaxArchiveDepth = 5
  MaxReads = 3
  MaxReadsBefore = 1
INVARIANTS
  TypeOK
  IndexSound
  NoDuplicates
  BackwardReferences
  RoundTrip
  WalksHonest
PROPERTIES
  SameAsLinearScan
