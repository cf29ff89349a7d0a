SPECIFICATION MarkupSpec
CONSTANTS
  Documents <- MCDocuments
  XMLDocs <- AnyStrings
  RealTexts <- MCRealTexts
  DateTexts <- MCDateTexts
  XMLRealTexts <- MCXMLRealTexts
  XMLDateTexts <- MCXMLDateTexts
  Bits = 8
  MaxNesting = 4
  Parts = {"xml"}
INVARIANT XMLStringsUnchanged
