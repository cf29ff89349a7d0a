---------------------------- MODULE BplistDocument ----------------------------
(***************************************************************************)
(* The binary property list as the parser of bplist_parser.go sees it: an  *)
(* offset table that sends an object id to an offset, and at each offset   *)
(* one tagged object.  What is abstracted: the bytes of a scalar (only     *)
(* "string" is told apart, because dictionary keys must be strings) and    *)
(* every per-object size check, folded into the kind "illegal" and the     *)
(* flag fits of a collection.                                              *)
(***************************************************************************)
EXTENDS Naturals, Sequences, FiniteSets

CONSTANTS
  Ids,         \* the object ids below trailer.NumObjects
  Offsets,     \* the file offsets below trailer.OffsetTableOffset
  BadRef,      \* any reference that is not below NumObjects
  Beyond,      \* any offset that is not below OffsetTableOffset
  Documents,   \* the documents considered
  MaxNesting   \* maxNestingDepth

Collections == {"array", "dict"}
Kinds == {"scalar", "string", "illegal"} \cup Collections

\* What is stored at an offset: refs are the object ids of an array's elements,
\* or of a dictionary's keys followed by its values; fits says that the list
\* ends before the offset table.
Object == [kind : Kinds, refs : Seq(Ids \cup {BadRef}), fits : BOOLEAN]

Document == [top  : Ids,
             offs : [Ids -> Offsets \cup {Beyond}],
             objs : [Offsets -> Object]]

ASSUME NestingAssumption == MaxNesting \in Nat
ASSUME DocumentAssumption ==
  /\ IsFiniteSet(Ids)
  /\ BadRef \notin Ids
  /\ Beyond \notin Offsets
  /\ Documents \subseteq Document
  /\ \A d \in Documents : \A o \in Offsets :
       /\ d.objs[o].kind \notin Collections => d.objs[o].refs = << >>
       /\ d.objs[o].kind = "dict" => Len(d.objs[o].refs) % 2 = 0

-------------------------------------------------------------------------------
(***************************************************************************)
(* The meaning of a document, with no parser in sight.                     *)
(***************************************************************************)
IsPlaced(d, i) == i \in Ids /\ d.offs[i] \in Offsets
ObjectOf(d, i) == d.objs[d.offs[i]]
IsCollection(d, i) == IsPlaced(d, i) /\ ObjectOf(d, i).kind \in Collections

Children(d, i) ==
  IF IsCollection(d, i)
  THEN {ObjectOf(d, i).refs[k] : k \in DOMAIN ObjectOf(d, i).refs}
  ELSE {}

\* Level(d)[n]: the references that end a chain of n references from the top.
Level(d) ==
  LET L[n \in 0..Cardinality(Ids)] ==
        IF n = 0 THEN {d.top} ELSE UNION {Children(d, i) : i \in L[n - 1]}
  IN L

Reachable(d) == UNION {Level(d)[n] : n \in 0..Cardinality(Ids)}

\* A chain as long as the number of ids visits some id twice.
Cyclic(d) == Level(d)[Cardinality(Ids)] # {}

\* How many collections lie on the longest chain from the top.
NestingDepth(d) ==
  Cardinality({n \in 0..Cardinality(Ids) :
                 \E i \in Level(d)[n] : IsCollection(d, i)})

HasStringKeys(d, i) ==
  LET refs == ObjectOf(d, i).refs
  IN  \A k \in 1..(Len(refs) \div 2) :
        IsPlaced(d, refs[k]) /\ ObjectOf(d, refs[k]).kind = "string"

LegalObject(d, i) ==
  /\ IsPlaced(d, i)
  /\ ObjectOf(d, i).kind # "illegal"
  /\ IsCollection(d, i) => ObjectOf(d, i).fits
  /\ ObjectOf(d, i).kind = "dict" => HasStringKeys(d, i)

WellFormed(d) == ~Cyclic(d) /\ \A i \in Reachable(d) : LegalObject(d, i)
===============================================================================
