-------------------------------- MODULE XMLPlist --------------------------------
(***************************************************************************)
(* XML property lists below the level of their nesting: the tokens of      *)
(* encoding/xml, where its decoder gives up, character data with its       *)
(* escapes, and the conversion of the text of an element.                  *)
(***************************************************************************)
EXTENDS PlistValues

CONSTANTS
  XMLRealTexts,     \* what formatXMLFloat writes and is read back as the same float64
  XMLDateTexts      \* dates of whole seconds in the time layout of the format, in UTC

\* A raw document: start tags with their attributes, end tags, character data, and
\* everything else, which the parser ignores.  <x/> is a start tag and an end tag.
StartTag(name, attrs) == [start |-> name, attrs |-> attrs]
EndTag(name) == [end |-> name]
CharData(units) == [chars |-> units]
Markup == [markup |-> "comment, processing instruction or directive"]
Attribute(name, value) == [name |-> name, value |-> value]

\* A unit of character data: a character as it stands, or a reference to one.
Raw(c) == [raw |-> c]
Ref(c) == [ref |-> c]
CodeOf(u) == IF Is("raw", u) THEN u.raw ELSE u.ref

CarriageReturn == 13
Ampersand == 38
Replacement == 65533
IsCharacter(c) ==
  c \in {9, 10, 13} \/ c \in 32 .. 55295 \/ c \in 57344 .. 65533 \/ c \in 65536 .. 1114111

\* Writing: xml.EscapeText, and xmlKeyEscaper.
TextEscapes == {9, 10, 13, Quote, 39, Ampersand, LessThan, GreaterThan}
EscapeText(s) ==
  [i \in DOMAIN s |-> IF s[i] \in TextEscapes THEN Ref(s[i])
                      ELSE Raw(IF IsCharacter(s[i]) THEN s[i] ELSE Replacement)]
OnlyAmpersand == {Ampersand}
KeyEscapes == {Ampersand, LessThan}
EscapeKey(s) == [i \in DOMAIN s |-> IF s[i] \in KeyEscapes THEN Ref(s[i]) ELSE Raw(s[i])]

\* Reading: a character no document may hold, and ]]>, < and & as they stand, are errors;
\* a carriage return as it stands, also one before a line feed, is a line feed.
IllFormed(units) ==
  \/ \E i \in DOMAIN units :
       ~IsCharacter(CodeOf(units[i])) \/ units[i] \in {Raw(Ampersand), Raw(LessThan)}
  \/ \E i \in 1 .. Len(units) - 2 :
       SubSeq(units, i, i + 2) = <<Raw(CloseBracket), Raw(CloseBracket), Raw(GreaterThan)>>
Characters(units) ==
  FlattenSeq([i \in DOMAIN units |->
    CASE units[i] = Raw(CarriageReturn) -> <<NewLine>>
      [] units[i] = Raw(NewLine) /\ i > 1 /\ units[i - 1] = Raw(CarriageReturn) -> << >>
      [] OTHER -> <<CodeOf(units[i])>>])

--------------------------------------------------------------------------------
\* The names of the elements that are open after k tokens.
OpenAfter(tokens, k) ==
  LET open[n \in Nat] ==
        CASE n = 0 -> << >>
          [] n > 0 /\ Is("start", tokens[n]) -> Append(open[n - 1], tokens[n].start)
          [] n > 0 /\ Is("end", tokens[n]) /\ open[n - 1] # << >> -> Front(open[n - 1])
          [] OTHER -> open[n - 1]
  IN  open[k]
Mismatched(tokens, k) ==
  LET open == OpenAfter(tokens, k - 1)
  IN  open = << >> \/ Last(open) # tokens[k].end
\* Where Token fails, and keeps failing: at the first token that is not well-formed, or
\* at the end.
FailsAt(tokens) ==
  Min({Len(tokens) + 1}
        \cup {k \in DOMAIN tokens : \/ Is("end", tokens[k]) /\ Mismatched(tokens, k)
                                    \/ Is("chars", tokens[k]) /\ IllFormed(tokens[k].chars)})

\* The end tag of the element whose start tag is at p, if there is one.
Level(tokens, p, q) ==
  Cardinality({i \in p .. q : Is("start", tokens[i])}) - Cardinality({i \in p .. q : Is("end", tokens[i])})
EndOf(tokens, p) ==
  Min({Len(tokens) + 1} \cup {q \in p .. Len(tokens) : Level(tokens, p, q) = 0})
\* The text of an element, without that of the elements in it.
TextWithin(tokens, p, last) ==
  FlattenSeq([i \in 1 .. last - p |->
    IF Is("chars", tokens[p + i]) /\ Level(tokens, p, p + i) = 1
    THEN Characters(tokens[p + i].chars) ELSE << >>])

--------------------------------------------------------------------------------
\* The value of a scalar element with a text.
XMLInteger(t) ==
  LET negative == t[1] = Minus
      s == IF negative THEN Tail(t) ELSE t
      hex == Len(s) > 1 /\ s[1] = 48 /\ s[2] \in {88, 120}
      digits == IF hex THEN SubSeq(s, 3, Len(s)) ELSE s
      base == IF hex THEN 16 ELSE 10
  IN  CASE negative /\ IsNegativeIn(digits, base) -> Scanned(Number(-ValueOf(digits, base)), 0)
        [] ~negative /\ IsUnsignedIn(digits, base) -> Scanned(Number(ValueOf(digits, base)), 0)
        [] OTHER -> Panic

DataBlank == {9, 10, 13, 32}
XMLData(t) ==
  LET s == SelectSeq(t, LAMBDA c : c \notin DataBlank)
  IN  IF IsBase64(s) /\ \A i \in DOMAIN s : Sextet(s[i]) < 64
      THEN Scanned(Data(Base64Bytes(s)), 0) ELSE Panic

\* time.Time{}
ZeroDate ==
  <<48, 48, 48, 49, 45, 48, 49, 45, 48, 49, 84, 48, 48, 58, 48, 48, 58, 48, 48, 90>>
EmptyValue ==
  [string |-> Text(<< >>), integer |-> Number(0), real |-> Real(<<48>>), date |-> Date(ZeroDate),
   data |-> Data(<< >>)]
Scalars == DOMAIN EmptyValue
ScalarValue(name, t) ==
  CASE t = << >> -> Scanned(EmptyValue[name], 0)
    [] name = "string" /\ t # << >> -> Scanned(Text(t), 0)
    [] name = "integer" /\ t # << >> -> XMLInteger(t)
    [] name = "real" /\ t \in XMLRealTexts -> Scanned(Real(t), 0)
    [] name = "date" /\ t \in XMLDateTexts -> Scanned(Date(t), 0)
    [] name = "data" /\ t # << >> -> XMLData(t)
    [] OTHER -> Panic

--------------------------------------------------------------------------------
\* storeOrFindXMLElementValue: the attributes in their order; an ID names the value, and
\* an IDREF returns at once what its ID names so far.
NoIDs == [id \in {} |-> Nil]
References(attrs) == {i \in DOMAIN attrs : attrs[i].name = "IDREF"}
Named(attrs) ==
  {attrs[i].value : i \in {i \in DOMAIN attrs : attrs[i].name = "ID" /\ \A r \in References(attrs) : i < r}}
StoredOnce(attrs, value, idrefs) ==
  [id \in DOMAIN idrefs \cup Named(attrs) |-> IF id \in DOMAIN idrefs THEN idrefs[id] ELSE value]
Stored(attrs, value, idrefs) ==
  [id \in DOMAIN idrefs \cup Named(attrs) |-> IF id \in Named(attrs) THEN value ELSE idrefs[id]]
Found(attrs, value, idrefs) ==
  LET known == Stored(attrs, value, idrefs)
      id == attrs[Min(References(attrs))].value
  IN  CASE References(attrs) = {} -> value
        [] References(attrs) # {} /\ id \in DOMAIN known -> known[id]
        [] OTHER -> Nil
================================================================================
