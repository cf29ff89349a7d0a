---------------------------- MODULE BplistRoundTrip ----------------------------
(***************************************************************************)
(* What bplist_generator.go writes, read back by bplist_parser.go.  Meant  *)
(* for TLC: reading is recursive.  A value read or meant is                *)
(* [kind, data, kids], kids being the set of <<key, value>> pairs of a     *)
(* container, with the key <<i>> for the element i of an array; data of a  *)
(* dictionary says whether its keys stand in ascending order.              *)
(***************************************************************************)
EXTENDS BplistGenerator

Tree(kind, data, kids) == [kind |-> kind, data |-> data, kids |-> kids]
BadTree == Tree("bad", << >>, {})

\* What survives the format: the instant of a date, up to the grain of its float, and
\* whether a number is negative rather than whether its type was signed.
Kept(v) ==
  CASE v.kind = "number" -> <<IF v.data[1] = 1 /\ v.data[2] >= SignBit THEN 1 ELSE 0, v.data[2]>>
    [] v.kind = "date"   -> <<Instant(Seconds(v.data[1])), 0>>
    [] OTHER -> v.data

DropNil(entries) == SelectSeq(entries, LAMBDA e : e[2] # Nil)
RECURSIVE Meaning(_, _)
Meaning(v, in) ==
  IF ~IsContainer(v) THEN Tree(v.kind, Kept(v), {})
  ELSE LET kept == DropNil(in[v.data[1]])
           key(i) == IF v.kind = "dict" THEN kept[i][1] ELSE <<i>>
       IN  Tree(v.kind, IF v.kind = "dict" THEN <<1>> ELSE << >>,
                {<<key(i), Meaning(kept[i][2], in)>> : i \in DOMAIN kept})

Ascending(keys) == \A i \in 1 .. Len(keys) - 1 : KeyLess(keys[i].data, keys[i + 1].data)

\* parseArrayAtOffset and parseDictionaryAtOffset, from the members read.
Container(kind, all) ==
  LET half == Len(all) \div 2
      keys == SubSeq(all, 1, half)
  IN  IF \E i \in DOMAIN all : all[i] = BadTree THEN BadTree
      ELSE IF kind = "array"
           THEN Tree(kind, << >>, {<<<<i>>, all[i]>> : i \in DOMAIN all})
      ELSE IF \E i \in DOMAIN keys : keys[i].kind # "string" THEN BadTree
      ELSE Tree(kind, <<IF Ascending(keys) THEN 1 ELSE 0>>,
                {<<keys[i].data, all[half + i]>> : i \in DOMAIN keys})

\* objectAtIndex and what it calls; within is the containerStack.
RECURSIVE ReadObject(_, _)
ReadObject(index, within) ==
  LET at == trailer.OffsetTableOffset + index * trailer.OffsetIntSize
      off == Unsigned(out, at, trailer.OffsetIntSize)
      kind == At(out, off).tag
      c == Count(out, off)
      count == IF kind = "dict" THEN 2 * c.count ELSE c.count
      size == trailer.ObjectRefSize
      scalar == ReadScalar(out, off, trailer.OffsetTableOffset)
  IN  IF index >= trailer.NumObjects \/ off >= trailer.OffsetTableOffset THEN BadTree
      ELSE IF kind \notin {"dict", "array"} THEN Tree(scalar.kind, Kept(scalar), {})
      ELSE IF off \in within \/ c.count < 0
              \/ c.start + count * size > trailer.OffsetTableOffset THEN BadTree
      ELSE Container(kind, [i \in 1 .. count |->
             IF IsInt(out, c.start + size * (i - 1), size)
             THEN ReadObject(Unsigned(out, c.start + size * (i - 1), size), within \cup {off})
             ELSE BadTree])

\* A value that holds 0.0 and -0.0 in one width: objmap takes them for one.
BothZeros(p) == \E v, w \in In(p) : v # w /\ Hash(v) = Hash(w)

ReadsBack == ReadObject(trailer.TopObject, {}) = Meaning(given.root, given.heap)

\* Encode followed by Decode: a document written without an error has a trailer the
\* parser accepts, and reads back as the value it was made from, nils left out; a
\* value with both zeros reads back with one of them in place of both.
RoundTrip ==
  pc = "done" => TrailerAccepted(trailer, Len(out)) /\ (~BothZeros(given) => ReadsBack)

\* "Floats ... are encoded unchanged", and so must come back unchanged, the signs of
\* their zeros included.
FloatsUnchanged == pc = "done" /\ BothZeros(given) => ReadsBack
===============================================================================
