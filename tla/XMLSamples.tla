------------------------------- MODULE XMLSamples -------------------------------
(***************************************************************************)
(* Documents for XMLParser: those the generator writes for small values,   *)
(* whole and cut off anywhere; arrays with every small arrangement of IDs  *)
(* and references to them; and all short sequences of tokens.              *)
(***************************************************************************)
EXTENDS XMLMeaning, XMLGenerator

XMLDocument(kind, tokens, value) == [kind |-> kind, tokens |-> tokens, whole |-> tokens, value |-> value]

--------------------------------------------------------------------------------
\* What is written.
XMLLetters == {65, Ampersand, LessThan, GreaterThan, CloseBracket, CarriageReturn, NewLine, 0, 128512}
LetterStrings == BoundedSeq(XMLLetters, 3)
\* The strings XML has characters for.  Keys are written as they are, but for & and <, so
\* that they carry no carriage return and no ]]> either.
Carried(s) == \A i \in DOMAIN s : IsCharacter(s[i])
KeyCarried(k) ==
  /\ Carried(k) /\ \A i \in DOMAIN k : k[i] # CarriageReturn
  /\ \A i \in 1 .. Len(k) - 2 : SubSeq(k, i, i + 2) # <<CloseBracket, CloseBracket, GreaterThan>>

A == <<65>>
B == <<66>>
SomeScalars ==
  {Number(5), Boolean(TRUE), Boolean(FALSE), UID(7), UID(255), Text(<< >>), Data(<< >>), Data(<<0, 255, 16, 1>>)}
    \cup {Real(t) : t \in XMLRealTexts} \cup {Date(t) : t \in XMLDateTexts}
Numbers == {Number(n) : n \in -128 .. 255}
Bytes(n) == Data([i \in 1 .. n |-> (37 * i) % 256])
LongData == {Bytes(n) : n \in {50, 51, 52, 102, 103}}
XMLNested ==
  {Array(<< >>), Dictionary(<< >>, << >>),
   Array(<<Array(<<Text(A)>>), Boolean(TRUE), Array(<< >>), Text(<< >>)>>),
   Array(<<Boolean(FALSE), Number(-5), UID(3)>>),
   Dictionary(<<B, << >>, A>>, <<Array(<<Boolean(TRUE)>>), Dictionary(<<A>>, <<Data(<<1>>)>>), Number(3)>>)}
XMLHolding(v) == {v, Array(<<v, Text(A), v>>), Dictionary(<<B, A>>, <<v, v>>)}
Values ==
  XMLNested \cup Numbers \cup LongData \cup UNION {XMLHolding(v) : v \in SomeScalars}
    \cup {Text(s) : s \in {s \in LetterStrings : Carried(s)}}
    \cup {Dictionary(<<k>>, <<Text(k)>>) : k \in {s \in LetterStrings : KeyCarried(s)}}
Indents == {<< >>, <<9>>}
WrittenDocuments ==
  {XMLDocument("written", WriteDocument(v, indent), KeysSorted(v)) : v \in Values, indent \in Indents}

AsTyped(s) == <<CharData([i \in DOMAIN s |-> Raw(s[i])])>>
\* Not what the generator writes, but what others do: <integer>0x1F</integer>,
\* <integer>-0x1F</integer>, a plist element in another, text in two pieces.
Foreign ==
  {XMLDocument("written", Tags("plist", Tags("integer", AsTyped(<<48, 120, 49, 70>>))), Number(31)),
   XMLDocument("written", Tags("plist", Tags("integer", AsTyped(<<45, 48, 120, 49, 70>>))), Number(-31)),
   XMLDocument("written", Tags("string", AsTyped(A) \o <<Markup>> \o AsTyped(B)), Text(A \o B)),
   XMLDocument("written", Tags("array", Tags("plist", Tags("true", << >>)) \o Tags("date", << >>)),
            Array(<<Boolean(TRUE), Date(ZeroDate)>>))}

\* Every beginning of a document, and every one whose last text is cut off.
Beginnings(tokens) ==
  {SubSeq(tokens, 1, n) : n \in 1 .. Len(tokens) - 1}
    \cup {Append(SubSeq(tokens, 1, n - 1), CharData(SubSeq(tokens[n].chars, 1, k))) :
            <<n, k>> \in {<<n, k>> \in (DOMAIN tokens) \X (0 .. 8) :
                            Is("chars", tokens[n]) /\ k < Len(tokens[n].chars)}}
CutShort ==
  UNION {{[kind |-> "cut", tokens |-> tokens, whole |-> WriteDocument(v, indent), value |-> Nil] :
            tokens \in Beginnings(WriteDocument(v, indent))} :
           v \in XMLNested \cup UNION {XMLHolding(w) : w \in SomeScalars}, indent \in Indents}

Deep(n) ==
  LET tokens[k \in Nat] == IF k = 0 THEN << >> ELSE Tags("array", tokens[k - 1]) IN tokens[n]
TooDeeplyNested == {XMLDocument("any", Tags("plist", Deep(n)), Nil) : n \in 1 .. 6}

--------------------------------------------------------------------------------
\* Arrays of numbers with names, and references to names.
None == "none"
Numbered(n, id) == [leaf |-> n, id |-> id]
Reference(id, ref) == [id |-> id, ref |-> ref]             \* <string ID="" IDREF=""/>
EarlyReference(id, ref) == [early |-> ref, named |-> id]    \* <string IDREF="" ID=""/>
List(id, kids) == [kids |-> kids, id |-> id]

Attrs(name, id) == IF id = None THEN << >> ELSE <<Attribute(name, id)>>
RECURSIVE TreeTokens(_)
TreeTokens(t) ==
  LET Tag(name, attrs, body) == <<StartTag(name, attrs)>> \o body \o <<EndTag(name)>>
  IN  CASE Is("leaf", t) -> Tag("integer", Attrs("ID", t.id), AsTyped(Decimal(t.leaf)))
        [] Is("ref", t) -> Tag("string", Attrs("ID", t.id) \o Attrs("IDREF", t.ref), << >>)
        [] Is("early", t) -> Tag("string", Attrs("IDREF", t.early) \o Attrs("ID", t.named), << >>)
        [] Is("kids", t) ->
             Tag("array", Attrs("ID", t.id), FlattenSeq([i \in DOMAIN t.kids |-> TreeTokens(t.kids[i])]))

Small == {Numbered(1, None), Numbered(1, "x"), Numbered(2, "x"), Numbered(2, "y"), Reference(None, "x"), Reference("y", "x"),
          Reference(None, "y"), EarlyReference("y", "x")}
Lists ==
  {List(id, kids) : id \in {None, "x"},
     kids \in BoundedSeq({Numbered(3, "x"), Reference(None, "x"), Reference(None, "y"), Numbered(4, "y")}, 2)}
Trees ==
  {List(None, kids) : kids \in
     BoundedSeq(Small \cup Lists, 2) \cup [1 .. 3 -> Small]
       \cup {<<a, b, c>> : a \in Lists, b \in Small, c \in {Reference(None, "x"), Reference(None, "y")}}
       \cup {<<b, a, c>> : a \in Lists, b \in Small, c \in {Reference(None, "x"), Reference(None, "y")}}}
Referring == {XMLDocument("references", TreeTokens(t), Nil) : t \in Trees}
\* MeaningRead is about them: what they are put together from means something.
ASSUME ReferringReadable ==
  \A part \in Small \cup Lists : Readable(TreeTokens(List(None, <<part, Reference(None, "x")>>)))

--------------------------------------------------------------------------------
\* ShortSequences sequences of tokens, and some longer ones that are wrong in one place.
Alphabet ==
  {StartTag(n, << >>) : n \in {"plist", "dict", "array", "key", "integer", "true", "bogus"}}
    \cup {EndTag(n) : n \in {"plist", "dict", "array", "key", "integer", "true"}}
    \cup {CharData(<<Raw(65)>>), Markup}
ShortSequences == {XMLDocument("any", s, Nil) : s \in BoundedSeq(Alphabet, 3)}
Wrong ==
  LET key == Tags("key", AsTyped(A))
  IN  {XMLDocument("any", tokens, Nil) : tokens \in
         {Tags("dict", body) : body \in
            {key, key \o key, key \o Tags("true", << >>) \o key, Tags("true", << >>),
             key \o Tags("bogus", << >>), key \o Tags("plist", << >>), key \o Tags("string", << >>),
             Tags("key", AsTyped(UIDMagic)) \o Tags("integer", AsTyped(<<45, 49>>)),
             <<StartTag("key", << >>), EndTag("dict")>>}}
         \cup {Tags("plist", Tags(name, AsTyped(s))) :
                 name \in {"integer", "real", "date", "data"},
                 s \in {<<45>>, <<43, 49>>, <<50, 53, 54>>, <<45, 49, 50, 57>>, <<48, 120>>, <<32>>, <<65>>}}}

MCXMLDocs ==
  Referring \cup (ShortSequences \cup (WrittenDocuments \cup (CutShort \cup (Foreign \cup TooDeeplyNested \cup Wrong))))

\* A string, and a dictionary of one key, whatever they hold.
AnyStrings ==
  {XMLDocument("string", WriteDocument(v, << >>), v) :
     v \in {Text(s) : s \in LetterStrings} \cup {Dictionary(<<s>>, <<Boolean(TRUE)>>) : s \in LetterStrings}}
================================================================================
