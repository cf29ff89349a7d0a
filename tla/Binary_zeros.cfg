SPECIFICATION BinarySpec
CONSTANTS
  Base = 3
  CountMask = 3
  MaxASCII = 1
  MaxBMP = 2
  DateGrain = 2
  Nodes = {1, 2}
  Plists <- MCPlists
  Pieces = {0, 1, 3}
  Ids = {1, 2, 3, 4}
  Offsets = {1, 2, 3, 4}
  BadRef = 0
  Beyond = 0
  MaxNesting = 3
  Documents <- NestingDocuments
  Streams <- DecoderDocuments
  Unresolved = nil
  Free = 3
  Factor = 2
  MaxCalls = 3
  Parts = {"generator"}
INVARIANT FloatsUnchanged
