------------------------------ MODULE XMLGenerator ------------------------------
(***************************************************************************)
(* xmlPlistGenerator: the tokens of the document that is written for a     *)
(* value.  An error of the writer ends the recursion and is passed on; it  *)
(* is left out.                                                            *)
(***************************************************************************)
EXTENDS XMLPlist

\* writeIndent, and the end of a line; without an indent there are neither.
Indentation(indent, depth) ==
  IF indent = << >> THEN << >>
  ELSE <<CharData(FlattenSeq([i \in 1 .. depth |-> [j \in DOMAIN indent |-> Raw(indent[j])]]))>>
EndLine(indent) == IF indent = << >> THEN << >> ELSE <<CharData(<<Raw(NewLine)>>)>>

Tags(name, body) == <<StartTag(name, << >>)>> \o body \o <<EndTag(name)>>
TextOf(s) == IF s = << >> THEN << >> ELSE <<CharData(EscapeText(s))>>
ScalarElement(name, s, indent, depth) ==
  Indentation(indent, depth) \o Tags(name, TextOf(s)) \o EndLine(indent)
KeyElement(s, indent, depth) ==
  Indentation(indent, depth)
    \o Tags("key", IF s = << >> THEN << >> ELSE <<CharData(EscapeKey(s))>>) \o EndLine(indent)

\* Data of more than LineLength characters is written in lines, if there is an indent.
LineLength == 68
DataElement(bytes, indent, depth) ==
  LET text == Base64Text(bytes)
      Line(i) == SubSeq(text, i, Min({i + LineLength - 1, Len(text)}))
      starts == [k \in 1 .. (Len(text) + LineLength - 1) \div LineLength |-> 1 + (k - 1) * LineLength]
      lines == FlattenSeq([k \in DOMAIN starts |->
                 Indentation(indent, depth) \o TextOf(Line(starts[k])) \o EndLine(indent)])
  IN  IF Len(text) > LineLength /\ indent # << >>
      THEN Indentation(indent, depth)
             \o Tags("data", EndLine(indent) \o lines \o Indentation(indent, depth)) \o EndLine(indent)
      ELSE ScalarElement("data", text, indent, depth)

RECURSIVE WriteValue(_, _, _)
WriteValue(v, indent, depth) ==
  LET Around(name, body) ==
        Indentation(indent, depth)
          \o Tags(name, IF body = << >> THEN << >>
                        ELSE EndLine(indent) \o body \o Indentation(indent, depth))
          \o EndLine(indent)
      Entry(d, i) == KeyElement(d.keys[i], indent, depth + 1) \o WriteValue(d.values[i], indent, depth + 1)
  IN  CASE Is("nil", v) -> << >>
        [] Is("string", v) -> ScalarElement("string", v.string, indent, depth)
        [] Is("number", v) -> ScalarElement("integer", Decimal(v.number), indent, depth)
        [] Is("real", v) -> ScalarElement("real", v.real, indent, depth)
        [] Is("boolean", v) -> ScalarElement(IF v.boolean THEN "true" ELSE "false", << >>, indent, depth)
        [] Is("data", v) -> DataElement(v.data, indent, depth)
        [] Is("date", v) -> ScalarElement("date", v.date, indent, depth)
        [] Is("uid", v) -> WriteValue(ToDict(v.uid), indent, depth)
        [] Is("array", v) ->
             Around("array", FlattenSeq([i \in DOMAIN v.array |-> WriteValue(v.array[i], indent, depth + 1)]))
        [] Is("keys", v) ->
             \* The keys are sorted first.
             LET d == Sorted(v)
             IN  Around("dict", FlattenSeq([i \in DOMAIN d.keys |-> Entry(d, i)]))

\* generateDocument: the header, the document type, and the value in a plist element.
WriteDocument(v, indent) ==
  <<Markup, Markup>>
    \o Tags("plist", EndLine(indent) \o WriteValue(v, indent, 1)) \o EndLine(indent)

--------------------------------------------------------------------------------
\* The value with the keys of its dictionaries in the order in which they are written.
RECURSIVE KeysSorted(_)
KeysSorted(v) ==
  CASE Is("array", v) -> Array([i \in DOMAIN v.array |-> KeysSorted(v.array[i])])
    [] Is("keys", v) ->
         LET d == Sorted(v)
         IN  Dictionary(d.keys, [i \in DOMAIN d.values |-> KeysSorted(d.values[i])])
    [] OTHER -> v
================================================================================
