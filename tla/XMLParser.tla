------------------------------- MODULE XMLParser --------------------------------
(***************************************************************************)
(* xmlPlistParser.parseDocument: the recursive descent through the tokens  *)
(* of an XML document, with its table of IDs, and its verdict, by which    *)
(* the Decoder knows whether to try the text formats.                      *)
(*                                                                         *)
(* xmlStack holds the calls of parseXMLElement that read a plist, dict or  *)
(* array element, outermost first.  xmlPc is "document" in the loop of     *)
(* parseDocument, "element" when parseXMLElement is called, "content" in   *)
(* the loop of the call on top, and "return" when a call has returned      *)
(* xmlRet.                                                                 *)
(***************************************************************************)
EXTENDS XMLMeaning, XMLDocuments

VARIABLES
  xmlDoc,                      \* the document; never changes
  xmlPos, limit,               \* the decoder: the next token, and the one it fails at
  ntags, idrefs, xmlDepth,     \* fields of the parser
  xmlStack, xmlPc,
  xmlRet                       \* the value the last call returned

xmlVars == <<xmlDoc, xmlPos, limit, ntags, idrefs, xmlDepth, xmlStack, xmlPc, xmlRet>>
decoder == <<xmlDoc, limit>>

XMLAtStart ==
  /\ xmlPos = 1 /\ limit = FailsAt(xmlDoc.tokens)
  /\ ntags = 0 /\ idrefs = NoIDs /\ xmlDepth = 0
  /\ xmlStack = << >> /\ xmlPc = "document" /\ xmlRet = Nil
XMLInit == xmlDoc \in XMLDocs /\ XMLAtStart

TopElement == Last(xmlStack)
NoToken == xmlPos = limit
XMLToken == xmlDoc.tokens[xmlPos]
AtToken(where) == xmlPc = where /\ ~NoToken
Starts == Is("start", XMLToken)
EndsTop == Is("end", XMLToken) /\ XMLToken.end = TopElement.kind

Stop(verdict) ==
  /\ xmlPc' = verdict
  /\ UNCHANGED <<decoder, xmlPos, ntags, idrefs, xmlDepth, xmlStack, xmlRet>>
GotoToken(where, p) == xmlPc' = where /\ xmlPos' = p

--------------------------------------------------------------------------------
\* parseDocument.
NotXML == xmlPc = "document" /\ NoToken /\ Stop("invalid")
SkipProlog ==
  /\ AtToken("document") /\ ~Starts
  /\ GotoToken("document", xmlPos + 1)
  /\ UNCHANGED <<decoder, ntags, idrefs, xmlDepth, xmlStack, xmlRet>>
Root ==
  /\ AtToken("document") /\ Starts
  /\ GotoToken("element", xmlPos)
  /\ UNCHANGED <<decoder, ntags, idrefs, xmlDepth, xmlStack, xmlRet>>
\* What follows the root element is not read.  A call that returned has counted a tag.
FinishXML == xmlPc = "return" /\ xmlStack = << >> /\ Stop("done")

--------------------------------------------------------------------------------
\* parseXMLElement, called with the start tag at xmlPos.
ElementFrame(tag) ==
  [kind |-> tag.start, attrs |-> tag.attrs, keys |-> << >>, values |-> << >>, key |-> << >>]

ElementTooDeepLate == xmlDepth > MaxNesting
ElementTooDeep == xmlDepth >= MaxNesting
ElementsExceeded == xmlPc = "element" /\ ElementTooDeep /\ Stop("error")
Element == xmlPc = "element" /\ ~ElementTooDeep

OpenElement ==
  /\ Element /\ XMLToken.start \in Containers
  /\ xmlStack' = Append(xmlStack, ElementFrame(XMLToken))
  /\ xmlDepth' = xmlDepth + 1 /\ ntags' = ntags + 1
  /\ GotoToken("content", xmlPos + 1)
  /\ UNCHANGED <<decoder, idrefs, xmlRet>>

\* storeOrFindXMLElementValue, and the return of its result.
ReturnStored(attrs, value) ==
  /\ idrefs' = Stored(attrs, value, idrefs)
  /\ xmlRet' = Found(attrs, value, idrefs)
  /\ xmlPc' = "return"
After(last) == IF last < limit THEN last + 1 ELSE limit

Scalar ==
  /\ Element /\ XMLToken.start \in Scalars
  /\ \E last \in {EndOf(xmlDoc.tokens, xmlPos)} :
       /\ last < limit
       /\ \E scanned \in {ScalarValue(XMLToken.start, TextWithin(xmlDoc.tokens, xmlPos, last))} :
            IF scanned.ok
            THEN ReturnStored(XMLToken.attrs, scanned.value) /\ ntags' = ntags + 1 /\ xmlPos' = last + 1
            ELSE xmlPc' = "error" /\ UNCHANGED <<ntags, xmlPos, idrefs, xmlRet>>
  /\ UNCHANGED <<decoder, xmlDepth, xmlStack>>
ScalarCutOff ==
  Element /\ XMLToken.start \in Scalars /\ EndOf(xmlDoc.tokens, xmlPos) >= limit /\ Stop("error")
\* The content of a boolean is skipped, and so is the error of doing so.
Truth ==
  /\ Element /\ XMLToken.start \in Booleans
  /\ ReturnStored(XMLToken.attrs, Boolean(XMLToken.start = "true"))
  /\ ntags' = ntags + 1 /\ xmlPos' = After(EndOf(xmlDoc.tokens, xmlPos))
  /\ UNCHANGED <<decoder, xmlDepth, xmlStack>>
Unknown ==
  /\ Element /\ XMLToken.start \notin Containers \cup Scalars \cup Booleans
  /\ Stop(IF ntags = 0 THEN "invalid" ELSE "error")

--------------------------------------------------------------------------------
\* The loops of the containers.
ContentEndsCutOff ==
  /\ xmlPc = "content" /\ NoToken /\ TopElement.kind # "plist"
  /\ ReturnStored(TopElement.attrs, IF TopElement.kind = "array" THEN Array(TopElement.values)
                                    ELSE Dictionary(TopElement.keys, TopElement.values))
  /\ xmlStack' = Front(xmlStack) /\ xmlDepth' = xmlDepth - 1
  /\ UNCHANGED <<decoder, xmlPos, ntags>>
ContentCutOff == xmlPc = "content" /\ NoToken /\ Stop("error")
\* Text, comments, and the end tags a plist element inside left behind.
SkipToken ==
  /\ AtToken("content") /\ ~Starts /\ ~EndsTop
  /\ GotoToken("content", xmlPos + 1)
  /\ UNCHANGED <<decoder, ntags, idrefs, xmlDepth, xmlStack, xmlRet>>

Child ==
  /\ AtToken("content") /\ Starts
  /\ GotoToken("element", xmlPos)
  /\ UNCHANGED <<decoder, ntags, idrefs, xmlDepth>>
PlistChild == Child /\ TopElement.kind = "plist" /\ UNCHANGED <<xmlStack, xmlRet>>
ArrayChild == Child /\ TopElement.kind = "array" /\ UNCHANGED <<xmlStack, xmlRet>>
ChangeTop(keys, values, key) ==
  xmlStack' = [xmlStack EXCEPT ![Len(xmlStack)] =
                 [kind |-> @.kind, attrs |-> @.attrs, keys |-> keys, values |-> values, key |-> key]]
\* The key is kept, and marked as used, until its value is complete.
DictValue ==
  /\ Child /\ TopElement.kind = "dict" /\ XMLToken.start # "key" /\ TopElement.key # << >>
  /\ ChangeTop(Append(TopElement.keys, TopElement.key[1]), TopElement.values, << >>)
  /\ UNCHANGED xmlRet
KeyMissing ==
  /\ AtToken("content") /\ Starts
  /\ TopElement.kind = "dict" /\ XMLToken.start # "key" /\ TopElement.key = << >>
  /\ Stop("error")
\* A key replaces one that has no value.  Its error is ignored, and comes again.
KeyChild ==
  /\ AtToken("content") /\ Starts /\ TopElement.kind = "dict" /\ XMLToken.start = "key"
  /\ \E last \in {EndOf(xmlDoc.tokens, xmlPos)} :
       /\ ChangeTop(TopElement.keys, TopElement.values,
                    <<IF last < limit THEN TextWithin(xmlDoc.tokens, xmlPos, last) ELSE << >>>>)
       /\ xmlPos' = After(last)
  /\ UNCHANGED <<decoder, ntags, idrefs, xmlDepth, xmlPc, xmlRet>>

\* The call on top returns.
Pop == xmlStack' = Front(xmlStack) /\ xmlDepth' = xmlDepth - 1
CollectionOf(frame) ==
  IF frame.kind = "array" THEN Array(frame.values) ELSE MaybeUID(frame.keys, frame.values, FALSE)
CloseElement ==
  /\ AtToken("content") /\ EndsTop /\ TopElement.kind # "plist" /\ TopElement.key = << >>
  /\ ReturnStored(TopElement.attrs, CollectionOf(TopElement)) /\ Pop
  /\ xmlPos' = xmlPos + 1
  /\ UNCHANGED <<decoder, ntags>>
ValueMissing == AtToken("content") /\ EndsTop /\ TopElement.key # << >> /\ Stop("error")
CloseEmptyPlist ==
  /\ AtToken("content") /\ EndsTop /\ TopElement.kind = "plist"
  /\ xmlRet' = Nil /\ Pop
  /\ GotoToken("return", xmlPos + 1)
  /\ UNCHANGED <<decoder, ntags, idrefs>>

\* The call on top goes on with the value of its child; a plist element returns it and
\* leaves the rest of its content, with its end tag, unread.
Returned == xmlPc = "return" /\ xmlStack # << >>
GotPlistValue ==
  /\ Returned /\ TopElement.kind = "plist"
  /\ Pop
  /\ UNCHANGED <<decoder, xmlPos, ntags, idrefs, xmlPc, xmlRet>>
GotValueUnlessNil ==
  /\ Returned /\ TopElement.kind # "plist"
  /\ ChangeTop(TopElement.keys, IF xmlRet = Nil THEN TopElement.values ELSE Append(TopElement.values, xmlRet), TopElement.key)
  /\ xmlPc' = "content"
  /\ UNCHANGED <<decoder, xmlPos, ntags, idrefs, xmlDepth, xmlRet>>
GotValue ==
  /\ Returned /\ TopElement.kind # "plist"
  /\ ChangeTop(TopElement.keys, Append(TopElement.values, xmlRet), TopElement.key)
  /\ xmlPc' = "content"
  /\ UNCHANGED <<decoder, xmlPos, ntags, idrefs, xmlDepth, xmlRet>>

XMLNext ==
  \/ NotXML \/ SkipProlog \/ Root \/ FinishXML
  \/ ElementsExceeded \/ OpenElement \/ Scalar \/ ScalarCutOff \/ Truth \/ Unknown
  \/ ContentCutOff \/ SkipToken \/ PlistChild \/ ArrayChild \/ DictValue \/ KeyMissing \/ KeyChild
  \/ CloseElement \/ ValueMissing \/ CloseEmptyPlist \/ GotPlistValue \/ GotValue
XMLSpec == XMLInit /\ [][XMLNext]_xmlVars

XMLEnded == xmlPc \in {"done", "invalid", "error"}

--------------------------------------------------------------------------------
(***************************************************************************)
(* Properties.                                                             *)
(***************************************************************************)
\* The parser's fields have their types, and a dictionary that waits for a key has a
\* value for each key it has.
ElementsTyped ==
  /\ xmlPos \in 1 .. limit /\ limit \in 1 .. Len(xmlDoc.tokens) + 1
  /\ xmlPc \in {"document", "element", "content", "return", "done", "invalid", "error"}
  /\ \A i \in DOMAIN xmlStack :
       /\ xmlStack[i].kind \in Containers
       /\ xmlStack[i].kind = "dict" =>
            Len(xmlStack[i].keys) - Len(xmlStack[i].values)
              \in (IF i = Len(xmlStack) /\ xmlPc = "content" THEN {0} ELSE {0, 1})

\* However deep a document nests, no more than maxNestingDepth elements are open, so the
\* goroutine's stack is bounded.
ElementsBounded == Len(xmlStack) <= MaxNesting

\* A document that means something and is not nested too deeply is read, and gives what it
\* means: every value comes from the place it stands at, and an IDREF is the element of its ID
\* that was completed last, also when elements with IDs nest or share one.
MeaningRead == XMLEnded /\ Readable(xmlDoc.tokens) => xmlPc = "done" /\ xmlRet = MeaningOf(xmlDoc.tokens)

\* A document that is cut off, anywhere, is an error or its whole value, never a shorter
\* one.
CutOffHarmless ==
  xmlPc = "done" /\ Begins(xmlDoc.tokens, xmlDoc.whole) /\ Sound(xmlDoc.whole) => xmlRet = MeaningOf(xmlDoc.whole)
================================================================================
