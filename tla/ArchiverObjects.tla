---------------------------- MODULE ArchiverObjects ----------------------------
(***************************************************************************)
(* The object table of keyed_archiver.go: Archiver.Objects, the index that *)
(* addObject keeps of the primitives in it, and the code outside the       *)
(* package that may replace the exported slice between two calls of        *)
(* Marshal.  An object's UID is its position, counted from 0.              *)
(***************************************************************************)
EXTENDS Integers, Sequences, FiniteSets

CONSTANTS
  Primitives,   \* the strings, integers, floats and booleans archived
  NaNs,         \* the floats among them that equal nothing, not even themselves
  Null,         \* the string "$null", the first object of every archive
  ClassNames,   \* the names of class descriptions
  Foreign       \* objects of other programs, that a caller may put into the table

\* What addObject is called with beside primitives: class descriptions and NS
\* objects, which refer to others by their UIDs.  A class description has no class.
Compounds ==
  Foreign \cup
  [kind  : {"class", "table", "slice", "object", "leaf"},
   data  : {""} \cup ClassNames \cup Primitives,
   names : Seq(Primitives),
   keys  : Seq(Nat),
   refs  : Seq(Nat),
   class : Int]

ASSUME ObjectsAssumption ==
  /\ NaNs \subseteq Primitives
  /\ Null \in Primitives \ NaNs
  /\ Primitives \cap Compounds = {}

Things == Primitives \cup Compounds
NoIndex == << >>      \* the nil map, and the empty one

VARIABLES
  objects,    \* Archiver.Objects
  index,      \* Archiver.primitiveIndex
  indexed,    \* Archiver.primitiveIndexed
  open,       \* a call of Marshal is under way
  handed      \* history: the argument and the result of the last call of
              \* addObject; turn changes with every call

tableVars == <<objects, index, indexed, open, handed>>

\* cmp.Equal
Equal(o, p) == o = p /\ o \notin NaNs

First(S) == CHOOSE i \in S : \A j \in S : i <= j

\* Where obj is found in objs, and where a linear scan with cmp.Equal finds it.
Positions(objs, obj) == {i \in 1..Len(objs) : Equal(objs[i], obj)}
ScanUid(objs, obj) ==
  IF Positions(objs, obj) = {} THEN Len(objs) ELSE First(Positions(objs, obj)) - 1
Scanned(objs, obj) ==
  IF Positions(objs, obj) = {} THEN Append(objs, obj) ELSE objs

-------------------------------------------------------------------------------
\* Mutant: an index is trusted once it exists.
StaleIfNil(objs, p) == index = NoIndex

\* What indexPrimitives concludes when the one entry it looks at is that of p.
Stale(objs, p) ==
  \/ index = NoIndex
  \/ indexed > Len(objs)
  \/ index[p] >= Len(objs)
  \/ objs[index[p] + 1] # p

\* The entry is whichever the map iteration yields first.
Verdicts(objs) ==
  IF index = NoIndex THEN {TRUE} ELSE {Stale(objs, p) : p \in DOMAIN index}

\* idx with the first occurrences in objs after the first from objects.
Extended(idx, from, objs) ==
  LET new == {objs[i] : i \in (from + 1)..Len(objs)} \cap (Primitives \ NaNs)
  IN  [p \in DOMAIN idx \cup new |->
         IF p \in DOMAIN idx THEN idx[p]
         ELSE First({i \in (from + 1)..Len(objs) : objs[i] = p}) - 1]

\* The index indexPrimitives leaves behind.
Indexed(objs, stale) ==
  IF stale THEN Extended(NoIndex, 0, objs) ELSE Extended(index, indexed, objs)

HandOut(obj, uid) == handed' = [obj |-> obj, uid |-> uid, turn |-> 1 - handed.turn]

\* Mutant: NaN is recorded like any other primitive.
RecordedNaN(idx, objs, p) ==
  [q \in DOMAIN idx \cup {p} |-> IF q = p THEN Len(objs) ELSE idx[q]]

\* idx once p has been appended to objs; NaN is never recorded.
Recorded(idx, objs, p) ==
  IF p \in NaNs THEN idx
  ELSE [q \in DOMAIN idx \cup {p} |-> IF q = p THEN Len(objs) ELSE idx[q]]

\* addObject of a primitive, objs being the table so far.
AddPrimitive(objs, p) ==
  \E stale \in Verdicts(objs) :
    LET idx == Indexed(objs, stale)
    IN  IF p \in DOMAIN idx
        THEN /\ objects' = objs
             /\ index' = idx
             /\ indexed' = Len(objs)
             /\ HandOut(p, idx[p])
        ELSE /\ objects' = Append(objs, p)
             /\ index' = Recorded(idx, objs, p)
             /\ indexed' = Len(objs) + 1
             /\ HandOut(p, Len(objs))

\* Mutant: the UID is the length after the append.
AddCompoundLate(o) ==
  /\ objects' = Scanned(objects, o)
  /\ HandOut(o, IF Positions(objects, o) = {} THEN Len(objects')
                ELSE ScanUid(objects, o))
  /\ UNCHANGED <<index, indexed>>

\* addObject of anything else.
AddCompound(o) ==
  /\ objects' = Scanned(objects, o)
  /\ HandOut(o, ScanUid(objects, o))
  /\ UNCHANGED <<index, indexed>>

-------------------------------------------------------------------------------
\* Mutant: Marshal writes into the table it finds.
BeginKept ==
  /\ ~open
  /\ open' = TRUE
  /\ AddPrimitive(objects, Null)

\* Marshal starts a new table, which begins with $null; the index is left over
\* from the call before.
Begin ==
  /\ ~open
  /\ open' = TRUE
  /\ AddPrimitive(<< >>, Null)

Add ==
  /\ open
  /\ \/ \E p \in Primitives : AddPrimitive(objects, p)
     \/ \E o \in Compounds : AddCompound(o)
  /\ UNCHANGED open

End ==
  /\ open
  /\ open' = FALSE
  /\ UNCHANGED <<objects, index, indexed, handed>>

\* The caller assigns Archiver.Objects, or reads an archive into it.
Replace(objs) ==
  /\ ~open
  /\ objects' = objs
  /\ UNCHANGED <<index, indexed, open, handed>>

TableInit ==
  /\ objects = << >>
  /\ index = NoIndex
  /\ indexed = 0
  /\ open = FALSE
  /\ handed = [obj |-> Null, uid |-> 0, turn |-> 0]

TableNext == Begin \/ Add \/ End \/ \E objs \in Seq(Things) : Replace(objs)

TableSpec == TableInit /\ [][TableNext]_tableVars

-------------------------------------------------------------------------------
(***************************************************************************)
(* Properties.                                                             *)
(***************************************************************************)

\* While an archive is being written the index sends a primitive exactly to its
\* first position in the part indexed so far, whatever happened to Objects and
\* to the index before Marshal was called.
IndexSound ==
  open =>
    /\ indexed \in 0..Len(objects)
    /\ DOMAIN index = {objects[i] : i \in 1..indexed} \cap (Primitives \ NaNs)
    /\ \A p \in DOMAIN index : index[p] = ScanUid(objects, p)

\* Two different UIDs never name equal objects in an archive being written.
NoDuplicates ==
  open => \A i, j \in 1..Len(objects) : Equal(objects[i], objects[j]) => i = j

\* addObject hands out exactly the UID that a linear scan of the table with
\* cmp.Equal would, and appends exactly when the scan would.
SameAsLinearScan ==
  [][handed' # handed /\ open =>
       /\ objects' = Scanned(objects, handed'.obj)
       /\ handed'.uid = ScanUid(objects, handed'.obj)]_tableVars
===============================================================================
