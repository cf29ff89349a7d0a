-------------------------------- MODULE MCMarkup --------------------------------
(***************************************************************************)
(* The parsers of text and of XML property lists, each on the documents    *)
(* its generator writes for small values, with the value they were written *)
(* for, and on all short documents of what means something to it, which no *)
(* value stands for.  The two share nothing, so they stand side by side in *)
(* one run: part says which of them a behaviour is about, and the other    *)
(* keeps its initial state.                                                *)
(***************************************************************************)
EXTENDS TextParser, TextGenerator, XMLParser, XMLSamples

CONSTANT Parts      \* the machines to run: "text", "xml"

VARIABLE part

markupVars == <<part, vars, xmlVars>>

--------------------------------------------------------------------------------
\* Text documents.

MCRealTexts == {<<48, 46, 53>>}     \* 0.5
MCDateTexts ==                       \* 2001-01-01 00:00:00 +0000
  {<<50, 48, 48, 49, 45, 48, 49, 45, 48, 49, 32, 48, 48, 58, 48, 48, 58, 48, 48, 32,
     43, 48, 48, 48, 48>>}

\* A plain letter, a digit that could go on an escape, and one character of each
\* sort the generator treats in its own way.
Letters == {65, 53, 36, Quote, Backslash, Semicolon, Slash, Star, Space, 0, 7, 233, 9731, 128512}
Strings(n) == {Text(s) : s \in BoundedSeq(Letters, n)}

TextScalars ==
  {Number(5), Number(-40), Number(0), Boolean(TRUE), Boolean(FALSE), UID(7),
   Data(<< >>), Data(<<0, 255, 16, 1>>), Data(<<1, 2, 3, 4, 171>>)}
    \cup {Real(t) : t \in MCRealTexts} \cup {Date(t) : t \in MCDateTexts}
Nested ==
  {Array(<< >>), Dictionary(<< >>, << >>),
   Array(<<Array(<<Array(<< >>)>>), Text(<< >>), Text(A), Array(<< >>), Text(<< >>)>>),
   Dictionary(<<B, << >>, A>>,
              <<Array(<<Dictionary(<< >>, << >>)>>), Dictionary(<<A>>, <<Data(<<1>>)>>), Number(3)>>)}
Holding(v) == {v, Array(<<v, Text(A), v>>)} \cup (IF Is("string", v) THEN {Dictionary(<<v.string>>, <<v>>)}
                                                   ELSE {Dictionary(<<A, B>>, <<v, v>>)})
TooNested == Array(<<Array(<<Array(<<Array(<<Array(<< >>)>>)>>)>>)>>)
Compact == Nested \cup {TooNested} \cup UNION {Holding(v) : v \in Strings(2) \cup TextScalars}
Indented == Nested \cup UNION {Holding(v) : v \in Strings(1) \cup TextScalars}

Document(bytes, value, fmt) == [bytes |-> bytes, value |-> value, format |-> fmt]
WrittenWith(indent, values) ==
  {Document(Write(v, f, indent, 0), v, f) : v \in values, f \in {"OpenStep", "GNUStep"}}
Written == WrittenWith(<< >>, Compact) \cup WrittenWith(<<9>>, Indented)

\* Strings alone, without NUL.
StringDocuments ==
  WrittenWith(<< >>, {Text(s) : s \in BoundedSeq(Letters \ {0}, 2)})

\* A dictionary without its braces is a strings file.
StringsFiles ==
  {Document(SubSeq(Write(v, f, << >>, 0), 2, Len(Write(v, f, << >>, 0)) - 1), v, f) :
     v \in {v \in Nested : Is("keys", v)} \cup {Dictionary(<<A, B>>, <<v, v>>) : v \in TextScalars},
     f \in {"OpenStep", "GNUStep"}}

\* Documents of collections that end too early.
Cut == Text(<<-2>>)
Truncated ==
  UNION {LET s == Write(v, "GNUStep", << >>, 0)
         IN  {Document(SubSeq(s, 1, n), Cut, "none") : n \in 1 .. Len(s) - 1} :
           v \in Nested \cup {Dictionary(<<A>>, <<v>>) : v \in TextScalars}}

ASSUME TruncatedUnclosed ==
  \A d \in Truncated : At(d.bytes, 1) \in Opening /\ Unclosed(d.bytes, 1) > 0
ASSUME WrittenClosed ==
  \A d \in Written : d.value \in Nested => At(d.bytes, 1) \in Opening /\ Unclosed(d.bytes, 1) = 0

\* With and without a byte order mark, and in UTF-16.
Marked ==
  LET s == Write(Array(<<Text(A)>>), "OpenStep", << >>, 0)
      Big == FlattenSeq([i \in DOMAIN s |-> <<0, s[i]>>])
      Little == FlattenSeq([i \in DOMAIN s |-> <<s[i], 0>>])
  IN  {Document(b, Array(<<Text(A)>>), "OpenStep") :
         b \in {<<239, 187, 191>> \o s, <<254, 255>> \o Big, <<255, 254>> \o Little, Big, Little}}

Marks == {65, 49, Quote, Backslash, Semicolon, Equals, OpenBrace, CloseBrace, OpenParen, CloseParen,
          Comma, LessThan, GreaterThan, Star, Slash, OpenBracket, CloseBracket}
NoValue == Text(<<-1>>)
Short == {Document(s, NoValue, "none") : s \in BoundedSeq(Marks, 3)}
Longer ==      \* <*I1>, <*BY>, <*R1>, <*"">, <[AAAA]>, <[AA=A]>, {CF$UID=1;}, A; A=1; /*A*/
  {Document(s, NoValue, "none") : s \in
    {<<60, 42, 73, 49, 62>>, <<60, 42, 66, 89, 62>>, <<60, 42, 82, 49, 62>>, <<60, 42, 34, 34, 62>>,
     <<60, 91, 65, 65, 65, 65, 93, 62>>, <<60, 91, 65, 65, 61, 65, 93, 62>>,
     <<123>> \o UIDMagic \o <<61, 49, 59, 125>>, <<65, 59, 65, 61, 49, 59, 47, 42, 65, 42, 47>>}}
MCDocuments == Short \cup (Written \cup (Truncated \cup (StringsFiles \cup Marked \cup Longer)))
Generated == doc.value \notin {NoValue, Cut}

--------------------------------------------------------------------------------
\* A string that is written without quotes although it would be read as something else.
Misread(s, fmt) ==
  /\ s # << >> /\ QuotedString(s, fmt)[1] # Quote
  /\ \/ \E i \in DOMAIN s : s[i] = Semicolon
     \/ Len(s) > 1 /\ s[1] = Slash /\ s[2] \in {Slash, Star}

RECURSIVE Plain(_, _)
Plain(v, fmt) ==
  CASE Is("string", v) -> ~Misread(v.string, fmt)
    [] Is("array", v) -> \A i \in DOMAIN v.array : Plain(v.array[i], fmt)
    [] Is("keys", v) -> \A i \in DOMAIN v.keys : ~Misread(v.keys[i], fmt) /\ Plain(v.values[i], fmt)
    [] OTHER -> TRUE
\* A string that begins with NUL makes the whole document look like UTF-16.
Guessed(v) == Is("string", v) /\ v.string # << >> /\ v.string[1] = 0

Ended == pc \in {"done", "error"}
ReadBack ==
  /\ pc = "done" /\ ret = Meant(doc.value, doc.format)
  /\ doc.format = "OpenStep" => format = "OpenStep"
\* What the text generator writes, the text parser reads as the same value, but for
\* strings that are written without the quotes they need, and beyond the nesting limit;
\* and a dictionary without its braces as the same strings file.
RoundTrip ==
  /\ Ended /\ Generated /\ doc.value # TooNested /\ Plain(doc.value, doc.format) /\ ~Guessed(doc.value)
       => ReadBack

\* "Strings ... are encoded unchanged", and so they must come back unchanged.
StringsUnchanged == Ended /\ Generated /\ Is("string", doc.value) => ReadBack

--------------------------------------------------------------------------------
\* XML documents, in which reals and dates are written differently.
MCXMLRealTexts == {<<48>>, <<48, 46, 53>>, <<45, 105, 110, 102>>}     \* 0, 0.5, -inf
MCXMLDateTexts ==                             \* the zero time, 2001-01-01T00:00:00Z
  {<<48, 48, 48, 49, 45, 48, 49, 45, 48, 49, 84, 48, 48, 58, 48, 48, 58, 48, 48, 90>>,
   <<50, 48, 48, 49, 45, 48, 49, 45, 48, 49, 84, 48, 48, 58, 48, 48, 58, 48, 48, 90>>}

XMLReadBack == xmlPc = "done" /\ xmlRet = xmlDoc.value
\* What the XML generator writes, with or without an indent, is a document that means
\* something, and the XML parser reads it as the value that was written, with the keys of
\* its dictionaries in order.  The values hold no string or key that XML cannot carry.
XMLRoundTrip ==
  XMLEnded /\ xmlDoc.kind = "written" => Readable(xmlDoc.tokens) /\ XMLReadBack

\* "Strings ... are encoded unchanged", and so a string must come back as it was written,
\* as a value and as a key.
XMLStringsUnchanged == XMLEnded /\ xmlDoc.kind = "string" => XMLReadBack

--------------------------------------------------------------------------------
\* What the machine that does not run is about.
NoDocument == Document(<< >>, NoValue, "none")
NoXMLDocument == XMLDocument("any", << >>, Nil)
MarkupInit ==
  \/ part = "text" /\ part \in Parts /\ Init /\ xmlDoc = NoXMLDocument /\ XMLAtStart
  \/ part = "xml" /\ part \in Parts /\ XMLInit /\ doc = NoDocument /\ AtStart

RunText ==
  /\ part = "text"
  /\ Next \/ (pc \in {"done", "error", "unread"} /\ UNCHANGED vars)
  /\ UNCHANGED <<part, xmlVars>>
RunXML ==
  /\ part = "xml"
  /\ XMLNext \/ (XMLEnded /\ UNCHANGED xmlVars)
  /\ UNCHANGED <<part, vars>>

MarkupSpec == MarkupInit /\ [][RunText \/ RunXML]_markupVars
\* The text parser is one goroutine, which runs on.
FairMarkupSpec == MarkupSpec /\ WF_markupVars(RunText)

--------------------------------------------------------------------------------
\* Every text document, also one cut off anywhere, is parsed to a value or an error.
TextTerminates == part = "text" ~> pc \in {"done", "error", "unread"}
================================================================================
