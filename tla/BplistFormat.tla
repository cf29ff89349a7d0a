----------------------------- MODULE BplistFormat -----------------------------
(***************************************************************************)
(* The bytes of a binary property list: how bplist_generator.go writes     *)
(* integers, markers, strings and references, and how bplist_parser.go     *)
(* reads them back.  A file is a sequence of cells, one for each byte,     *)
(* numbered from 0 as in the code; the 32 bytes of the trailer are a       *)
(* record of their own.  A byte holds Base values instead of 256, so that  *)
(* the widths 1, 2, 4, 8 and 16 meet in small documents, and the count in  *)
(* a marker goes up to CountMask instead of 15.                            *)
(*                                                                         *)
(* A value is [kind, data]: data is a string's characters, the bytes of a  *)
(* data value, <<signed, value>> of a number, <<wide, value>> of a real,   *)
(* <<instant, zone>> of a date, <<n>> of a boolean or a UID, and <<node>>  *)
(* of a dictionary or an array, node standing for the pointer.             *)
(***************************************************************************)
EXTENDS SequencesExt, Integers

CONSTANTS
  Base,          \* how many values a byte has, 256 in the code
  CountMask,     \* the largest count nibble, 15 in the code
  MaxASCII,      \* characters up to this one are ASCII
  MaxBMP,        \* characters up to this one are one UTF-16 unit, others two
  DateGrain      \* how many instants a float64 of seconds does not tell apart

Word == Base ^ 8                  \* the values of a uint64
SignBit == Base ^ 8 \div 2
Cell(tag, low) == [tag |-> tag, low |-> low]
NoCell == Cell("none", 0)
At(cells, off) == IF off < Len(cells) THEN cells[off + 1] ELSE NoCell

MinimumIntSize(n) ==
  IF n < Base THEN 1 ELSE IF n < Base ^ 2 THEN 2 ELSE IF n < Base ^ 4 THEN 4 ELSE 8

SizedInt(n, size) == [j \in 1 .. size |-> Cell("byte", (n \div Base ^ (size - j)) % Base)]

\* writeIntTag: a large unsigned value takes 16 bytes, since 8 are signed.
IntWidth(signed, n) == IF n >= SignBit /\ ~signed THEN 16 ELSE MinimumIntSize(n)
IntTag(signed, n) == <<Cell("integer", IntWidth(signed, n))>> \o SizedInt(n, IntWidth(signed, n))

CountedTag(tag, count) ==
  IF count >= CountMask THEN <<Cell(tag, CountMask)>> \o IntTag(FALSE, count)
                        ELSE <<Cell(tag, count)>>

\* utf16.Encode and utf16.Decode: a character above MaxBMP is a surrogate pair,
\* written here as the numbers +-2c and +-(2c + 1); half a pair is not a character.
High(c) == 2 * c
Low(c) == 2 * c + 1
Encode(chars) ==
  FlattenSeq([i \in DOMAIN chars |->
    IF chars[i] > MaxBMP THEN <<High(chars[i]), Low(chars[i])>> ELSE <<chars[i]>>])
IsHigh(u) == u > 2 * MaxBMP + 1 /\ u % 2 = 0
DecodeUnits(units) ==
  LET Paired(i) == i < Len(units) /\ IsHigh(units[i]) /\ units[i + 1] = units[i] + 1
      Of(i) == IF units[i] <= MaxBMP THEN <<units[i]>>
               ELSE IF Paired(i) THEN <<units[i] \div 2>>
               ELSE IF i > 1 /\ Paired(i - 1) THEN << >>
               ELSE <<0 - 1>>                                    \* U+FFFD
  IN  FlattenSeq([i \in DOMAIN units |-> Of(i)])

IsASCII(chars) == \A i \in DOMAIN chars : chars[i] <= MaxASCII
Text(tag, codes) == [i \in DOMAIN codes |-> Cell(tag, codes[i])]
Units(codes) == FlattenSeq([i \in DOMAIN codes |-> <<Cell("high", codes[i]), Cell("low", codes[i])>>])

StringTagRunes(chars) ==
  IF IsASCII(chars) THEN CountedTag("ascii", Len(chars)) \o Text("char", chars)
  ELSE CountedTag("utf16", Len(chars)) \o Units(Encode(chars))
StringTag(chars) ==
  IF IsASCII(chars) THEN CountedTag("ascii", Len(chars)) \o Text("char", chars)
  ELSE CountedTag("utf16", Len(Encode(chars))) \o Units(Encode(chars))
DataTag(bytes) == CountedTag("data", Len(bytes)) \o Text("char", bytes)
UIDTag(n) == <<Cell("uid", MinimumIntSize(n))>> \o SizedInt(n, MinimumIntSize(n))

\* The bits of a real are carried by the cells after its marker as they are.  A date
\* is turned into a float64 of seconds, which keeps its instant up to a grain, and
\* back into the instant at which that grain begins.
FloatTag(tag, size, bits) == <<Cell(tag, size)>> \o [j \in 1 .. size |-> Cell("float", bits)]
Seconds(instant) == instant \div DateGrain
Instant(seconds) == seconds * DateGrain

Real(wide, value) == [kind |-> "real", data |-> <<wide, value>>]

ScalarTag(v) ==
  CASE v.kind = "string" -> StringTag(v.data)
    [] v.kind = "number" -> IntTag(v.data[1] = 1, v.data[2])
    [] v.kind = "real"   -> FloatTag("real", IF v.data[1] = 1 THEN 8 ELSE 4, v.data[2])
    [] v.kind = "bool"   -> <<Cell("bool", v.data[1])>>
    [] v.kind = "data"   -> DataTag(v.data)
    [] v.kind = "date"   -> FloatTag("date", 8, Seconds(v.data[1]))
    [] v.kind = "uid"    -> UIDTag(v.data[1])

--------------------------------------------------------------------------------
\* Reading.  A function that panics gives Bad.

Bad == [kind |-> "bad", data |-> << >>]

Unsigned(cells, off, size) ==
  FoldLeft(LAMBDA n, cell : n * Base + cell.low, 0, SubSeq(cells, off + 1, off + size))
IsInt(cells, off, size) ==
  /\ size \in {1, 2, 4, 8, 16}
  /\ \A j \in 0 .. size - 1 : At(cells, off + j).tag = "byte"

\* parseSizedInteger: the low 64 bits, and whether the high ones are all set.
IntLow(cells, off, size) == IF size = 16 THEN Unsigned(cells, off + 8, 8)
                                         ELSE Unsigned(cells, off, size)
IntSigned(cells, off, size) ==
  \/ size = 8 /\ Unsigned(cells, off, 8) >= SignBit
  \/ size = 16 /\ Unsigned(cells, off, 8) = Word - 1

\* countForTagAtOffset: the count and where the content starts, or count -1.
Count(cells, off) ==
  LET low == At(cells, off).low
      width == At(cells, off + 1).low
      long == IntLow(cells, off + 2, width)
  IN  IF low # CountMask THEN [count |-> low, start |-> off + 1]
      ELSE IF ~IsInt(cells, off + 2, width) \/ long > Len(cells)
           THEN [count |-> 0 - 1, start |-> off]
           ELSE [count |-> long, start |-> off + 2 + width]

Lows(cells, start, count, step) == [i \in 1 .. count |-> At(cells, start + step * (i - 1)).low]

\* parseTagAtOffset for everything but dictionaries and arrays; table is the
\* offset of the offset table, which the content may not reach into.
ReadNumber(cells, off) ==
  LET size == At(cells, off).low
  IN  IF ~IsInt(cells, off + 1, size) THEN Bad
      ELSE [kind |-> "number",
            data |-> <<IF IntSigned(cells, off + 1, size) THEN 1 ELSE 0,
                       IntLow(cells, off + 1, size)>>]
ReadUID(cells, off) ==
  LET size == At(cells, off).low
  IN  IF ~IsInt(cells, off + 1, size) THEN Bad
      ELSE [kind |-> "uid", data |-> <<IntLow(cells, off + 1, size)>>]
ReadCounted(cells, off, table, kind, step) ==
  LET c == Count(cells, off)
      codes == Lows(cells, c.start, c.count, step)
  IN  IF c.count < 0 \/ c.start + step * c.count > table THEN Bad
      ELSE [kind |-> kind, data |-> IF step = 2 THEN DecodeUnits(codes) ELSE codes]
ReadScalar(cells, off, table) ==
  LET cell == At(cells, off)
      bits == At(cells, off + 1).low
  IN  CASE cell.tag = "bool"    -> [kind |-> "bool", data |-> <<cell.low>>]
        [] cell.tag = "integer" -> ReadNumber(cells, off)
        [] cell.tag = "real"    -> Real(IF cell.low = 8 THEN 1 ELSE 0, bits)
        [] cell.tag = "date"    -> [kind |-> "date", data |-> <<Instant(bits), 0>>]
        [] cell.tag = "data"    -> ReadCounted(cells, off, table, "data", 1)
        [] cell.tag = "ascii"   -> ReadCounted(cells, off, table, "string", 1)
        [] cell.tag = "utf16"   -> ReadCounted(cells, off, table, "string", 2)
        [] cell.tag = "uid"     -> ReadUID(cells, off)
        [] OTHER -> Bad
--------------------------------------------------------------------------------
\* The trailer, with the arithmetic of the code: uint64, so modulo Word.

TrailerSize == 32
HeaderSize == 8

Wrap(n) == n % Word
TableSize(t) == Wrap(t.NumObjects * t.OffsetIntSize)

\* validateDocumentTrailer, one conjunct for each of its panics.
TrailerAccepted(t, trailerOffset) ==
  /\ t.OffsetTableOffset < trailerOffset
  /\ t.OffsetTableOffset >= 9
  /\ ~(trailerOffset > Wrap(TableSize(t) + t.OffsetTableOffset))
  /\ ~(Wrap(t.OffsetTableOffset + TableSize(t)) > trailerOffset)
  /\ ~(t.ObjectRefSize < 8 /\ t.NumObjects > Base ^ t.ObjectRefSize)
  /\ ~(t.OffsetIntSize < 8 /\ Base ^ t.OffsetIntSize <= t.OffsetTableOffset)
  /\ t.TopObject < t.NumObjects
===============================================================================
