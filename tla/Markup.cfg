SPECIFICATION FairMarkupSpec
CONSTANTS
  Documents <- MCDocuments
  XMLDocs <- MCXMLDocs
  RealTexts <- MCRealTexts
  DateTexts <- MCDateTexts
  XMLRealTexts <- MCXMLRealTexts
  XMLDateTexts <- MCXMLDateTexts
  Bits = 8
  MaxNesting = 4
  Parts = {"text", "xml"}
INVARIANTS
  TypeOK
  NestingBounded
  RoundTrip
  CutOffDetected
  FormatTold
  ElementsTyped
  ElementsBounded
  XMLRoundTrip
  MeaningRead
  CutOffHarmless
PROPERTY
  TextTerminates
