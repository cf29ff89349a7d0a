SPECIFICATION MarkupSpec
CONSTANTS
  Documents <- StringDocuments
  XMLDocs <- MCXMLDocs
  RealTexts <- MCRealTexts
  DateTexts <- MCDateTexts
  XMLRealTexts <- MCXMLRealTexts
  XMLDateTexts <- MCXMLDateTexts
  Bits = 8
  MaxNesting = 4
  Parts = {"text"}
INVARIANT StringsUnchanged
