------------------------------ MODULE TextGenerator ------------------------------
(***************************************************************************)
(* textPlistGenerator.writePlistValue: the document that is written for a  *)
(* value, and the value a reader of it is meant to get.  An error of the   *)
(* writer ends the recursion and is passed on; it is left out.             *)
(***************************************************************************)
EXTENDS TextPlist

WriteIndent(indent, depth) ==
  IF indent = << >> THEN << >>
  ELSE <<NewLine>> \o FlattenSeq([i \in 1 .. depth |-> indent])
Delimiter(indent) == IF indent = << >> THEN <<Equals>> ELSE <<Space, Equals, Space>>

RECURSIVE Write(_, _, _, _)
Write(v, format, indent, depth) ==
  LET Line == WriteIndent(indent, depth + 1)
      Element(w) == Line \o Write(w, format, indent, depth + 1) \o <<Comma>>
      Entry(d, i) ==
        Line \o QuotedString(d.keys[i], format) \o Delimiter(indent)
          \o Write(d.values[i], format, indent, depth + 1) \o <<Semicolon>>
      Within(open, body, close) == <<open>> \o body \o WriteIndent(indent, depth) \o <<close>>
  IN  CASE Is("array", v) ->
             Within(OpenParen, FlattenSeq([i \in DOMAIN v.array |-> Element(v.array[i])]), CloseParen)
        [] Is("keys", v) ->
             LET d == Sorted(v)
             IN  Within(OpenBrace, FlattenSeq([i \in DOMAIN d.keys |-> Entry(d, i)]), CloseBrace)
        [] Is("uid", v) -> Write(ToDict(v.uid), format, indent, depth)
        [] OTHER -> WriteScalar(v, format)

\* What comes back: dictionaries sorted, and in OpenStep, which has strings and data
\* only, every other scalar as its text.
RECURSIVE Meant(_, _)
Meant(v, format) ==
  CASE Is("array", v) -> Array([i \in DOMAIN v.array |-> Meant(v.array[i], format)])
    [] Is("keys", v) ->
         LET d == Sorted(v)
         IN  Dictionary(d.keys, [i \in DOMAIN d.values |-> Meant(d.values[i], format)])
    [] format = "GNUStep" \/ Is("string", v) \/ Is("data", v) \/ Is("uid", v) -> v
    [] Is("number", v) -> Text(Decimal(v.number))
    [] Is("real", v) -> Text(v.real)
    [] Is("boolean", v) -> Text(IF v.boolean THEN <<49>> ELSE <<48>>)
    [] Is("date", v) -> Text(v.date)
================================================================================
