------------------------------- MODULE TextPlist --------------------------------
(***************************************************************************)
(* The text formats, OpenStep and GNUStep, below the level of their        *)
(* nesting: the characters that need quotes, the escapes of quoted         *)
(* strings, comments, data and GNUStep's typed values, as the generator    *)
(* writes and the parser reads them.  A document is a sequence of bytes.   *)
(***************************************************************************)
EXTENDS PlistValues

CONSTANTS
  RealTexts,     \* what strconv formats a float64 as and reads back as the same one
  DateTexts      \* dates of whole seconds in the time layout of the format, in UTC

Whitespace == (8 .. 13) \cup {Space}
NewlineCharacters == {10, 13}
GSQuotable ==
  (0 .. 31) \cup {32, 34, 39, 40, 41, 44} \cup (59 .. 62) \cup (91 .. 93)
    \cup {96, 123, 125} \cup (127 .. 255)
OSQuotable ==
  (0 .. 35) \cup (37 .. 46) \cup {58} \cup (60 .. 64) \cup (91 .. 96) \cup (123 .. 255)
Quotable(format) == IF format = "GNUStep" THEN GSQuotable ELSE OSQuotable

\* utf16.EncodeRune and DecodeRune.
High(r) == 55296 + ((r - 65536) \div 1024)
Low(r) == 56320 + ((r - 65536) % 1024)
IsSurrogate(u) == u \in 55296 .. 57343
IsPair(h, l) == h \in 55296 .. 56319 /\ l \in 56320 .. 57343
Joined(h, l) == 65536 + (h - 55296) * 1024 + (l - 56320)
Rune(u) == IF IsSurrogate(u) THEN 65533 ELSE u

--------------------------------------------------------------------------------
\* Writing.
Escape(c) == <<Backslash, c>>
UnicodeEscape(u) == Escape(85) \o Numeral(u, 16, 4)
Escaped(r) ==
  CASE r > 65535 -> UnicodeEscape(High(r)) \o UnicodeEscape(Low(r))
    [] r \in 256 .. 65535 -> UnicodeEscape(r)
    [] r \in 128 .. 255 -> <<Backslash>> \o Numeral(r, 8, 3)
    [] r = 7 -> Escape(97)
    [] r = 8 -> Escape(98)
    [] r = 11 -> Escape(118)
    [] r = 12 -> Escape(102)
    [] r \in {Quote, Backslash} -> Escape(r)
    [] OTHER -> <<r>>

QuotedString(s, format) ==
  LET body == FlattenSeq([i \in DOMAIN s |-> Escaped(s[i])])
  IN  IF s # << >> /\ \A i \in DOMAIN s : s[i] <= 127 /\ s[i] \notin Quotable(format)
      THEN body
      ELSE <<Quote>> \o body \o <<Quote>>

\* Two digits for each byte, and a space after every fourth but the last.
HexDump(bytes) ==
  FlattenSeq([i \in DOMAIN bytes |->
    Numeral(bytes[i], 16, 2) \o (IF i % 4 = 0 /\ i < Len(bytes) THEN <<Space>> ELSE << >>)])

Typed(letter, text) == <<LessThan, Star, letter>> \o text \o <<GreaterThan>>
WriteScalar(v, format) ==
  LET gs == format = "GNUStep"
  IN  CASE Is("string", v) -> QuotedString(v.string, format)
        [] Is("number", v) -> IF gs THEN Typed(73, Decimal(v.number)) ELSE Decimal(v.number)
        [] Is("real", v) -> IF gs THEN Typed(82, v.real) ELSE v.real
        [] Is("boolean", v) ->
             IF gs THEN Typed(66, IF v.boolean THEN <<89>> ELSE <<78>>)
             ELSE IF v.boolean THEN <<49>> ELSE <<48>>
        [] Is("data", v) -> <<LessThan>> \o HexDump(v.data) \o <<GreaterThan>>
        [] Is("date", v) -> IF gs THEN Typed(68, v.date) ELSE QuotedString(v.date, format)

--------------------------------------------------------------------------------
\* Reading, at a position p of the document s.
At(s, p) == IF p \in DOMAIN s THEN s[p] ELSE EOF
FirstIn(s, p, set) ==
  LET scan[q \in Nat] == IF q > Len(s) \/ At(s, q) \in set THEN q ELSE scan[q + 1] IN scan[p]
FirstNotIn(s, p, set) ==
  LET scan[q \in Nat] == IF At(s, q) \in set THEN scan[q + 1] ELSE q IN scan[p]

\* skipWhitespaceAndComments: the next position, or 0 if a comment is not closed.
AfterBlank(s, p) ==
  LET skip[q \in Nat] ==
        LET r == FirstNotIn(s, q, Whitespace)
            closes == {c \in r .. Len(s) - 1 : s[c] = Star /\ s[c + 1] = Slash}
        IN  CASE At(s, r) = Slash /\ At(s, r + 1) = Slash -> skip[FirstIn(s, r, NewlineCharacters)]
              [] At(s, r) = Slash /\ At(s, r + 1) = Star ->
                   IF closes = {} THEN 0 ELSE skip[Min(closes) + 2]
              [] OTHER -> r
  IN  skip[p]

\* At most max digits of a base from p on.
Digits(s, p, max, base) ==
  LET scan[q \in Nat] == IF q < p + max /\ IsDigit(At(s, q), base) THEN scan[q + 1] ELSE q
      stop == scan[p]
  IN  [value |-> ValueOf(SubSeq(s, p, stop - 1), base), next |-> stop]

\* parseEscape, after the backslash.
SimpleEscapes ==
  [c \in {97, 98, 118, 102, 116, 114, 110, Backslash, Quote} |->
    CASE c = 97 -> 7 [] c = 98 -> 8 [] c = 118 -> 11 [] c = 102 -> 12 [] c = 116 -> 9
      [] c = 114 -> 13 [] c = 110 -> 10 [] OTHER -> c]
ReadUnicodeUnpaired(s, p) ==
  LET unit == Digits(s, p, 4, 16) IN [text |-> <<Rune(unit.value)>>, next |-> unit.next]
ReadUnicode(s, p) ==
  LET unit == Digits(s, p, 4, 16)
      low == Digits(s, unit.next + 2, 4, 16)
  IN  IF /\ At(s, unit.next) = Backslash /\ At(s, unit.next + 1) \in {85, 117}
         /\ IsPair(unit.value, low.value)
      THEN [text |-> <<Joined(unit.value, low.value)>>, next |-> low.next]
      ELSE [text |-> <<Rune(unit.value)>>, next |-> unit.next]
ReadEscape(s, p) ==
  LET c == At(s, p)
      hex == Digits(s, p + 1, 2, 16)
      octal == Digits(s, p, 3, 8)
  IN  CASE c \in DOMAIN SimpleEscapes -> [text |-> <<SimpleEscapes[c]>>, next |-> p + 1]
        [] c = 120 -> [text |-> <<hex.value>>, next |-> hex.next]
        [] c \in {85, 117} -> ReadUnicode(s, p + 1)
        [] IsDigit(c, 8) -> [text |-> <<octal.value>>, next |-> octal.next]
        [] OTHER -> [text |-> << >>, next |-> p]

\* parseQuotedString, after the opening quote: a quote that belongs to an escape does
\* not close the string.
ClosingQuote(s, p) ==
  LET close[q \in Nat] ==
        LET stop == FirstIn(s, q, {Quote, Backslash})
        IN  IF At(s, stop) = Backslash /\ stop < Len(s) THEN close[stop + 2] ELSE stop
  IN  close[p]
Unescaped(s, p, last) ==
  LET read[q \in Nat] ==
        IF q > last THEN << >>
        ELSE IF s[q] # Backslash THEN <<s[q]>> \o read[q + 1]
             ELSE ReadEscape(s, q + 1).text \o read[ReadEscape(s, q + 1).next]
  IN  read[p]
Quoted(s, p) ==
  LET close == ClosingQuote(s, p)
  IN  IF At(s, close) = Quote
      THEN Scanned(Text(Unescaped(s, p, close - 1)), close + 1)
      ELSE Panic

Unquoted(s, p) ==
  LET stop == FirstIn(s, p, GSQuotable)
  IN  IF stop = p THEN Panic ELSE Scanned(Text(SubSeq(s, p, stop - 1)), stop)

\* parseHexData, after the <.
HexBlank == {32, 9, 10, 13, 8232, 8233}
HexData(s, p) ==
  LET stop == FirstIn(s, p, {GreaterThan})
      digits == SelectSeq(SubSeq(s, p, stop - 1), LAMBDA c : c \notin HexBlank)
      bytes == [i \in 1 .. Len(digits) \div 2 |-> ValueOf(SubSeq(digits, 2 * i - 1, 2 * i), 16)]
  IN  IF At(s, stop) = EOF \/ Len(digits) % 2 = 1 \/ \E i \in DOMAIN digits : ~IsDigit(digits[i], 16)
      THEN Panic
      ELSE Scanned(Data(bytes), stop + 1)

\* parseGNUStepValue, after the <*.
GNUStepValue(s, p) ==
  LET start == IF At(s, p + 1) = Quote THEN p + 2 ELSE p + 1
      stop == FirstIn(s, start, {GreaterThan})
      inside == SubSeq(s, start, stop - 1)
      t == IF inside # << >> /\ Last(inside) = Quote THEN Front(inside) ELSE inside
      After(value) == Scanned(value, stop + 1)
  IN  IF At(s, stop) = EOF \/ t = << >> THEN Panic
      ELSE CASE At(s, p) = 73 /\ IsInteger(t) -> After(Number(IntegerOf(t)))
             [] At(s, p) = 82 /\ t \in RealTexts -> After(Real(t))
             [] At(s, p) = 66 -> After(Boolean(t[1] = 89))
             [] At(s, p) = 68 /\ t \in DateTexts -> After(Date(t))
             [] OTHER -> Panic

\* parseGNUStepBase64, after the <[: what is not a base64 character is ignored.
Base64(s, p) ==
  LET stop == FirstIn(s, p, {CloseBracket})
      t == SelectSeq(SubSeq(s, p, stop - 1), LAMBDA c : Sextet(c) < 64)
  IN  IF At(s, stop) = CloseBracket /\ At(s, stop + 1) = GreaterThan /\ IsBase64(t)
      THEN Scanned(Data(Base64Bytes(t)), stop + 2)
      ELSE Panic

--------------------------------------------------------------------------------
\* guessEncodingAndConvert, for bytes below 128 after a possible byte order mark: what
\* the parser reads, or a panic for half a unit.
Units(bytes, hi, lo) ==
  [i \in 1 .. Len(bytes) \div 2 |-> 256 * bytes[2 * i - hi] + bytes[2 * i - lo]]
UTF16(bytes, hi, lo) ==
  IF Len(bytes) % 2 = 1 THEN Panic ELSE Scanned(Text(Units(bytes, hi, lo)), 1)
Decoded(bytes) ==
  LET b1 == At(bytes, 1)
      b2 == At(bytes, 2)
      Rest(n) == SubSeq(bytes, n + 1, Len(bytes))
  IN  CASE b1 = 239 /\ b2 = 187 /\ At(bytes, 3) = 191 -> Scanned(Text(Rest(3)), 1)
        [] b1 = 254 /\ b2 = 255 -> UTF16(Rest(2), 1, 0)
        [] b1 = 255 /\ b2 = 254 -> UTF16(Rest(2), 0, 1)
        [] b1 = 0 /\ b2 > 0 -> UTF16(bytes, 1, 0)
        [] b1 > 0 /\ b2 = 0 -> UTF16(bytes, 0, 1)
        [] OTHER -> Scanned(Text(bytes), 1)
================================================================================
