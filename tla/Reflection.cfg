SPECIFICATION FairReflectionSpec
CONSTANTS
  Goroutines = {g1, g2}
  Structs = {"Outer", "Middle", "Inner"}
  Layout <- MCLayout
  Gathered <- MCGathered
  Pointers = {p1, p2, p3, p4, p5, p6}
  NoInfo = nil
  MaxCalls = 3
  WordBits = 4
  ByteBits = 2
  MaxDecodes = 2
  Parts = {"cache", "conversion"}
INVARIANTS
  TypeOK
  CacheCorrect
  DecodeMerges
  StrictExact
  DictionaryAgrees
PROPERTIES
  PublishedFrozen
  EveryCallReturns
