----------------------------- MODULE BplistTrailer -----------------------------
(***************************************************************************)
(* parseDocument up to the first object: read the file, check its header   *)
(* and its trailer, this with the arithmetic of the code, uint64, so       *)
(* modulo Word, and allocate the object table.                             *)
(***************************************************************************)
EXTENDS BplistFormat

CONSTANTS
  FileSizes,     \* the lengths of the files read
  Sizes          \* the sizes, 0 to 255 in the code, a trailer may state

VARIABLES header, trailer, trailerOffset, pc

trailerVars == <<header, trailer, trailerOffset, pc>>

\* The headers: no magic, and the magic with a version.
NoMagic == 0 - 1
Init ==
  /\ header \in {NoMagic, 0, 1, 2}
  /\ \E l \in FileSizes : trailerOffset = l - TrailerSize
  /\ trailer \in [OffsetIntSize : Sizes, ObjectRefSize : Sizes, NumObjects : 0 .. Word - 1,
                  TopObject : {0, 1}, OffsetTableOffset : {8, 9, 12, Word - 1}]
  /\ pc = "read"

TooShort == trailerOffset + TrailerSize < 40
HeaderAccepted == header # NoMagic /\ header <= 1
Accepted == ~TooShort /\ HeaderAccepted /\ TrailerAccepted(trailer, trailerOffset)
Refuse ==
  /\ pc = "read" /\ ~Accepted
  /\ pc' = "refused"
  /\ UNCHANGED <<header, trailer, trailerOffset>>
Allocate ==
  /\ pc = "read" /\ Accepted
  /\ pc' = "allocated"
  /\ UNCHANGED <<header, trailer, trailerOffset>>
Next == Refuse \/ Allocate
Spec == Init /\ [][Next]_trailerVars

\* After the check of the trailer "Entire offset table is before trailer": the
\* numbers, not their remainders modulo 2^64, put the table of NumObjects offsets
\* between OffsetTableOffset and the trailer.
TableBeforeTrailer ==
  pc = "allocated" =>
    trailer.OffsetTableOffset + trailer.NumObjects * trailer.OffsetIntSize <= trailerOffset
===============================================================================
