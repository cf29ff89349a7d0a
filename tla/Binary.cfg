SPECIFICATION FairBinarySpec
CONSTANTS
  Base = 3
  CountMask = 3
  MaxASCII = 1
  MaxBMP = 2
  DateGrain = 2
  Nodes = {1, 2}
  Plists <- MCPlists
  Pieces = {0, 1, 3}
  Ids = {1, 2, 3, 4}
  Offsets = {1, 2, 3, 4}
  BadRef = 0
  Beyond = 0
  MaxNesting = 3
  Documents <- ParserDocuments
  Streams <- DecoderDocuments
  Unresolved = nil
  Free = 3
  Factor = 2
  MaxCalls = 3
  Parts = {"generator", "parser", "decoder"}
INVARIANTS
  TypeOK
  ContainerStackExact
  ParsedOnce
  ChildrenFirst
  TablesTyped
  MapsSound
  UniqueObjects
  OffsetsExact
  NothingLost
  RoundTrip
  ExpansionBounded
  TreesAccepted
  FormatTruthful
PROPERTIES
  ImplementsPromise
  Termination
