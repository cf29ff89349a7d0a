------------------------- MODULE KeyedArchiverProofs -------------------------
(***************************************************************************)
(* Theorems about ArchiverObjects and KeyedArchiver, for all primitives,   *)
(* all Go values and all external writes to the table.  The first half is  *)
(* about the table alone, under any calls of addObject; the second shows   *)
(* that the walk of marshal makes no other calls, and what it makes of     *)
(* the UIDs it gets.                                                       *)
(***************************************************************************)
EXTENDS KeyedArchiver, SequenceLemmas

--------------------------------------------------------------------------------
(***************************************************************************)
(* The object table.                                                       *)
(***************************************************************************)

Recordable == Primitives \ NaNs

\* Between calls the index may say anything, but it exists only after something
\* was indexed, which is what makes Marshal's new table find it stale.
Shape ==
  /\ objects \in Seq(Things)
  /\ indexed \in Nat
  /\ open \in BOOLEAN
  /\ index # NoIndex => indexed > 0
  /\ handed.turn \in {0, 1}

\* During a call the index is exact for the whole table, not only for the part
\* indexed: what follows that part are compounds.
Exact ==
  open =>
    /\ Null \in DOMAIN index
    /\ indexed <= Len(objects)
    /\ \A i \in 1..Len(objects) : i > indexed => objects[i] \notin Primitives
    /\ index = [p \in DOMAIN index |-> index[p]]
    /\ \A p \in DOMAIN index :
         /\ p \in Recordable
         /\ index[p] \in Nat
         /\ index[p] + 1 \in 1..Len(objects)
         /\ objects[index[p] + 1] = p
    /\ \A i \in 1..Len(objects) : objects[i] \in Recordable => objects[i] \in DOMAIN index

TInv == Shape /\ NoDuplicates /\ Exact

\* With no duplicates a position found is the one a scan finds.
LEMMA ScanFinds ==
  ASSUME NEW objs \in Seq(Things), NEW k \in 1..Len(objs), objs[k] \notin NaNs,
         \A i, j \in 1..Len(objs) : Equal(objs[i], objs[j]) => i = j
  PROVE  ScanUid(objs, objs[k]) = k - 1 /\ Scanned(objs, objs[k]) = objs
<1>1. Positions(objs, objs[k]) = {k}
  BY DEF Positions, Equal
<1>2. First({k}) = k
  BY DEF First
<1> QED
  BY <1>1, <1>2 DEF ScanUid, Scanned

LEMMA ScanMisses ==
  ASSUME NEW objs, NEW o, \A i \in 1..Len(objs) : ~Equal(objs[i], o)
  PROVE  ScanUid(objs, o) = Len(objs) /\ Scanned(objs, o) = Append(objs, o)
<1>1. Positions(objs, o) = {}
  BY DEF Positions
<1> QED
  BY <1>1 DEF ScanUid, Scanned

\* The invariant says what IndexSound says.
LEMMA ExactIsSound == TInv => IndexSound
<1> SUFFICES ASSUME TInv, open PROVE
      /\ indexed \in 0..Len(objects)
      /\ DOMAIN index = {objects[i] : i \in 1..indexed} \cap (Primitives \ NaNs)
      /\ \A p \in DOMAIN index : index[p] = ScanUid(objects, p)
  BY DEF IndexSound
<1>1. indexed \in 0..Len(objects)
  BY DEF TInv, Shape, Exact
<1>2. ASSUME NEW p \in DOMAIN index
      PROVE  p \in {objects[i] : i \in 1..indexed} \cap (Primitives \ NaNs)
  <2>1. index[p] + 1 \in 1..Len(objects) /\ objects[index[p] + 1] = p /\ p \in Recordable
    BY DEF TInv, Exact
  <2>2. index[p] + 1 \in 1..indexed
    BY <1>1, <2>1 DEF TInv, Exact, Recordable
  <2> QED
    BY <2>1, <2>2 DEF Recordable
<1>3. ASSUME NEW i \in 1..indexed, objects[i] \in Primitives \ NaNs
      PROVE  objects[i] \in DOMAIN index
  BY <1>1, <1>3 DEF TInv, Exact, Recordable
<1>4. ASSUME NEW p \in DOMAIN index PROVE index[p] = ScanUid(objects, p)
  <2> DEFINE k == index[p] + 1
  <2>1. k \in 1..Len(objects) /\ objects[k] = p /\ p \in Recordable
    BY DEF TInv, Exact
  <2>2. ScanUid(objects, objects[k]) = k - 1
    BY <2>1, ScanFinds DEF TInv, Shape, NoDuplicates, Recordable
  <2>3. index[p] \in Nat
    BY DEF TInv, Exact
  <2> QED
    BY <2>1, <2>2, <2>3
<1> QED
  BY <1>1, <1>2, <1>3, <1>4
-------------------------------------------------------------------------------
\* While a table is being written nothing is stale and nothing is missing.
LEMMA NothingStale ==
  ASSUME TInv, open
  PROVE  \A stale \in Verdicts(objects) : Indexed(objects, stale) = index
<1>1. index # NoIndex /\ Null \in DOMAIN index
  BY DEF TInv, Exact, NoIndex
<1>2. ASSUME NEW p \in DOMAIN index PROVE ~Stale(objects, p)
  <2>1. /\ index[p] \in Nat
        /\ index[p] + 1 \in 1..Len(objects)
        /\ objects[index[p] + 1] = p
        /\ indexed <= Len(objects)
    BY DEF TInv, Exact
  <2>2. ~(index[p] >= Len(objects)) /\ ~(indexed > Len(objects))
    BY <2>1 DEF TInv, Shape
  <2> QED
    BY <1>1, <2>1, <2>2 DEF Stale
<1>3. ASSUME NEW stale \in Verdicts(objects) PROVE ~stale
  <2>1. Verdicts(objects) = {Stale(objects, p) : p \in DOMAIN index}
    BY <1>1, Zenon DEF Verdicts
  <2>2. PICK p \in DOMAIN index : stale = Stale(objects, p)
    BY <2>1, Zenon
  <2> QED
    BY <1>2, <2>2, Zenon
<1>4. {objects[i] : i \in (indexed + 1)..Len(objects)} \cap (Primitives \ NaNs) = {}
  <2>1. \A i \in (indexed + 1)..Len(objects) :
          i \in 1..Len(objects) /\ i > indexed
    BY DEF TInv, Shape
  <2> QED
    BY <2>1 DEF TInv, Exact
<1>5. Extended(index, indexed, objects) = [p \in DOMAIN index |-> index[p]]
  BY <1>4 DEF Extended
<1>6. index = [p \in DOMAIN index |-> index[p]]
  BY DEF TInv, Exact
<1> QED
  BY <1>3, <1>5, <1>6 DEF Indexed

\* addObject of a primitive already recorded.
LEMMA FindPrimitive ==
  ASSUME TInv, open, open' = open, NEW p \in Primitives,
         p \in DOMAIN index, AddPrimitive(objects, p)
  PROVE  /\ TInv'
         /\ objects' = Scanned(objects, p)
         /\ handed'.obj = p
         /\ handed'.uid = ScanUid(objects, p)
<1>1. /\ objects' = objects
      /\ index' = index
      /\ indexed' = Len(objects)
      /\ handed' = [obj |-> p, uid |-> index[p], turn |-> 1 - handed.turn]
  BY NothingStale DEF AddPrimitive, HandOut
<1>2. /\ index[p] \in Nat
      /\ index[p] + 1 \in 1..Len(objects)
      /\ objects[index[p] + 1] = p
      /\ p \in Recordable
      /\ Len(objects) \in Nat
  BY DEF TInv, Exact, Shape
<1>3. ScanUid(objects, p) = index[p] + 1 - 1 /\ Scanned(objects, p) = objects
  BY <1>2, ScanFinds DEF TInv, Shape, NoDuplicates, Recordable
<1>4. Shape'
  BY <1>1, <1>2 DEF TInv, Shape
<1>5. NoDuplicates' /\ Exact'
  BY <1>1, <1>2 DEF TInv, NoDuplicates, Exact
<1> QED
  BY <1>1, <1>2, <1>3, <1>4, <1>5 DEF TInv

\* addObject of a primitive that is not recorded: a new one, or a NaN.
LEMMA AppendPrimitive ==
  ASSUME TInv, open, open' = open, NEW p \in Primitives,
         p \notin DOMAIN index, AddPrimitive(objects, p)
  PROVE  /\ TInv'
         /\ objects' = Scanned(objects, p)
         /\ handed'.obj = p
         /\ handed'.uid = ScanUid(objects, p)
<1> DEFINE n == Len(objects)
<1>1. /\ objects' = Append(objects, p)
      /\ index' = Recorded(index, objects, p)
      /\ indexed' = n + 1
      /\ handed' = [obj |-> p, uid |-> n, turn |-> 1 - handed.turn]
  BY NothingStale DEF AddPrimitive, HandOut
<1>2. objects \in Seq(Things) /\ n \in Nat /\ p \in Things
  BY DEF TInv, Shape, Things
<1>3. /\ objects' \in Seq(Things)
      /\ Len(objects') = n + 1
      /\ objects'[n + 1] = p
      /\ \A i \in 1..n : objects'[i] = objects[i]
      /\ \A i \in 1..(n + 1) : i = n + 1 \/ i \in 1..n
  BY <1>1, <1>2
<1>4. \A i \in 1..n : ~Equal(objects[i], p)
  BY DEF TInv, Exact, Equal, Recordable
<1>5. ScanUid(objects, p) = n /\ Scanned(objects, p) = Append(objects, p)
  BY <1>4, ScanMisses
<1>6. Shape'
  BY <1>1, <1>2, <1>3 DEF TInv, Shape
<1>7. NoDuplicates'
  <2> SUFFICES ASSUME NEW i \in 1..(n + 1), NEW j \in 1..(n + 1),
                      Equal(objects'[i], objects'[j])
               PROVE  i = j
    BY <1>3 DEF NoDuplicates
  <2>1. CASE i \in 1..n /\ j \in 1..n
    BY <1>3, <2>1 DEF TInv, NoDuplicates
  <2>2. CASE i \in 1..n /\ j = n + 1
    BY <1>3, <1>4, <2>2
  <2>3. CASE i = n + 1 /\ j \in 1..n
    BY <1>3, <1>4, <2>3 DEF Equal
  <2> QED
    BY <1>3, <2>1, <2>2, <2>3
<1>8. Exact'
  <2>1. CASE p \in NaNs
    <3>1. index' = index
      BY <1>1, <2>1 DEF Recorded
    <3> QED
      BY <1>1, <1>2, <1>3, <2>1, <3>1 DEF TInv, Exact, Recordable
  <2>2. CASE p \notin NaNs
    <3>1. index' = [q \in DOMAIN index \cup {p} |-> IF q = p THEN n ELSE index[q]]
      BY <1>1, <2>2 DEF Recorded
    <3>2. /\ DOMAIN index' = DOMAIN index \cup {p}
          /\ index' = [q \in DOMAIN index' |-> index'[q]]
          /\ index'[p] = n
          /\ \A q \in DOMAIN index : index'[q] = index[q]
      BY <3>1
    <3>3. ASSUME NEW q \in DOMAIN index'
          PROVE  /\ q \in Recordable
                 /\ index'[q] \in Nat
                 /\ index'[q] + 1 \in 1..(n + 1)
                 /\ objects'[index'[q] + 1] = q
      <4>1. CASE q = p
        BY <1>2, <1>3, <2>2, <3>2, <4>1 DEF Recordable
      <4>2. CASE q # p
        <5>1. q \in DOMAIN index /\ index'[q] = index[q]
          BY <3>2, <4>2
        <5> QED
          BY <1>2, <1>3, <5>1 DEF TInv, Exact
      <4> QED
        BY <4>1, <4>2
    <3>4. \A i \in 1..(n + 1) : objects'[i] \in Recordable => objects'[i] \in DOMAIN index'
      BY <1>3, <3>2 DEF TInv, Exact
    <3> QED
      BY <1>1, <1>2, <1>3, <3>2, <3>3, <3>4 DEF TInv, Exact
  <2> QED
    BY <2>1, <2>2
<1> QED
  BY <1>1, <1>5, <1>6, <1>7, <1>8 DEF TInv
LEMMA AddPrimitiveStep ==
  ASSUME TInv, open, open' = open, NEW p \in Primitives, AddPrimitive(objects, p)
  PROVE  /\ TInv'
         /\ objects' = Scanned(objects, p)
         /\ handed'.obj = p
         /\ handed'.uid = ScanUid(objects, p)
BY FindPrimitive, AppendPrimitive

\* addObject of a compound leaves the index behind, and nothing it should know.
LEMMA AddCompoundStep ==
  ASSUME TInv, open, open' = open, NEW o \in Compounds, AddCompound(o)
  PROVE  TInv'
<1> DEFINE n == Len(objects)
<1>1. /\ objects' = Scanned(objects, o)
      /\ UNCHANGED <<index, indexed>>
      /\ handed' = [obj |-> o, uid |-> ScanUid(objects, o), turn |-> 1 - handed.turn]
  BY DEF AddCompound, HandOut
<1>2. objects \in Seq(Things) /\ n \in Nat /\ o \in Things /\ o \notin Primitives
  BY ObjectsAssumption DEF TInv, Shape, Things
<1>3. CASE Positions(objects, o) # {}
  <2>1. objects' = objects
    BY <1>1, <1>3 DEF Scanned
  <2> QED
    BY <1>1, <2>1 DEF TInv, Shape, NoDuplicates, Exact
<1>4. CASE Positions(objects, o) = {}
  <2>1. objects' = Append(objects, o) /\ \A i \in 1..n : ~Equal(objects[i], o)
    BY <1>1, <1>4 DEF Scanned, Positions
  <2>2. /\ objects' \in Seq(Things)
        /\ Len(objects') = n + 1
        /\ objects'[n + 1] = o
        /\ \A i \in 1..n : objects'[i] = objects[i]
        /\ \A i \in 1..(n + 1) : i = n + 1 \/ i \in 1..n
    BY <1>2, <2>1
  <2>3. Shape'
    BY <1>1, <2>2 DEF TInv, Shape
  <2>4. NoDuplicates'
    <3> SUFFICES ASSUME NEW i \in 1..(n + 1), NEW j \in 1..(n + 1),
                        Equal(objects'[i], objects'[j])
                 PROVE  i = j
      BY <2>2 DEF NoDuplicates
    <3>1. CASE i \in 1..n /\ j \in 1..n
      BY <2>2, <3>1 DEF TInv, NoDuplicates
    <3>2. CASE i \in 1..n /\ j = n + 1
      BY <2>1, <2>2, <3>2
    <3>3. CASE i = n + 1 /\ j \in 1..n
      BY <2>1, <2>2, <3>3 DEF Equal
    <3> QED
      BY <2>2, <3>1, <3>2, <3>3
  <2>5. Exact'
    <3>1. ASSUME NEW p \in DOMAIN index
          PROVE  /\ p \in Recordable
                 /\ index[p] \in Nat
                 /\ index[p] + 1 \in 1..(n + 1)
                 /\ objects'[index[p] + 1] = p
      BY <1>2, <2>2 DEF TInv, Exact
    <3>2. ASSUME NEW i \in 1..(n + 1)
          PROVE  /\ i > indexed => objects'[i] \notin Primitives
                 /\ objects'[i] \in Recordable => objects'[i] \in DOMAIN index
      BY <1>2, <2>2 DEF TInv, Exact, Recordable
    <3>3. indexed <= n + 1
      BY <1>2 DEF TInv, Exact, Shape
    <3> QED
      BY <1>1, <2>2, <3>1, <3>2, <3>3 DEF TInv, Exact
  <2> QED
    BY <2>3, <2>4, <2>5 DEF TInv
<1> QED
  BY <1>3, <1>4

\* Marshal's new table makes whatever index there is stale.
LEMMA BeginStep == TInv /\ Begin => TInv'
<1> SUFFICES ASSUME TInv, Begin PROVE TInv'
  OBVIOUS
<1>1. PICK stale \in Verdicts(<< >>) :
        LET idx == Indexed(<< >>, stale)
        IN  IF Null \in DOMAIN idx
            THEN /\ objects' = << >>
                 /\ index' = idx
                 /\ indexed' = Len(<< >>)
                 /\ HandOut(Null, idx[Null])
            ELSE /\ objects' = Append(<< >>, Null)
                 /\ index' = Recorded(idx, << >>, Null)
                 /\ indexed' = Len(<< >>) + 1
                 /\ HandOut(Null, Len(<< >>))
  BY DEF Begin, AddPrimitive
<1>2. stale
  <2>1. CASE index = NoIndex
    BY <1>1, <2>1, Zenon DEF Verdicts
  <2>2. CASE index # NoIndex
    <3>1. \A p \in DOMAIN index : Stale(<< >>, p)
      BY <2>2 DEF TInv, Shape, Stale
    <3>2. Verdicts(<< >>) = {Stale(<< >>, p) : p \in DOMAIN index}
      BY <2>2, Zenon DEF Verdicts
    <3>3. PICK p \in DOMAIN index : stale = Stale(<< >>, p)
      BY <1>1, <3>2, Zenon
    <3> QED
      BY <3>1, <3>3, Zenon
  <2> QED
    BY <2>1, <2>2
<1> DEFINE idx == Extended(NoIndex, 0, << >>)
<1>3. DOMAIN idx = {}
  BY DEF Extended, NoIndex
<1>4. Indexed(<< >>, stale) = idx
  BY <1>2 DEF Indexed
<1>5. /\ objects' = Append(<< >>, Null)
      /\ index' = Recorded(idx, << >>, Null)
      /\ indexed' = 1
      /\ handed' = [obj |-> Null, uid |-> 0, turn |-> 1 - handed.turn]
      /\ open'
  BY <1>1, <1>3, <1>4 DEF HandOut, Begin
<1>6. objects' = <<Null>> /\ Null \in Recordable /\ Null \in Things
  BY <1>5, ObjectsAssumption DEF Recordable, Things
<1>7. /\ DOMAIN index' = {Null}
      /\ index'[Null] = 0
      /\ index' = [q \in DOMAIN index' |-> index'[q]]
  BY <1>3, <1>5, <1>6 DEF Recorded, Recordable
<1>8. Shape'
  BY <1>5, <1>6 DEF TInv, Shape
<1>9. NoDuplicates'
  BY <1>6 DEF NoDuplicates
<1>10. Exact'
  BY <1>5, <1>6, <1>7 DEF Exact
<1> QED
  BY <1>8, <1>9, <1>10 DEF TInv

LEMMA TableInvariant ==
  /\ TableInit => TInv
  /\ TInv /\ [TableNext]_tableVars => TInv'
<1>1. TableInit => TInv
  <2> SUFFICES ASSUME TableInit PROVE TInv
    OBVIOUS
  <2>1. objects \in Seq(Things) /\ indexed \in Nat /\ open = FALSE
    BY DEF TableInit
  <2>2. index = NoIndex /\ handed.turn = 0
    BY DEF TableInit
  <2>3. Shape
    BY <2>1, <2>2 DEF Shape
  <2>4. NoDuplicates /\ Exact
    BY <2>1 DEF NoDuplicates, Exact
  <2> QED
    BY <2>3, <2>4 DEF TInv
<1>2. ASSUME TInv, [TableNext]_tableVars PROVE TInv'
  <2>1. CASE Begin
    BY <1>2, <2>1, BeginStep
  <2>2. ASSUME open, open' = open, NEW p \in Primitives, AddPrimitive(objects, p)
        PROVE  TInv'
    BY <1>2, <2>2, AddPrimitiveStep
  <2>3. ASSUME open, open' = open, NEW o \in Compounds, AddCompound(o)
        PROVE  TInv'
    BY <1>2, <2>3, AddCompoundStep
  <2>4. CASE Add
    BY <2>2, <2>3, <2>4 DEF Add
  <2>5. CASE End
    BY <1>2, <2>5 DEF End, TInv, Shape, NoDuplicates, Exact
  <2>6. ASSUME NEW objs \in Seq(Things), Replace(objs) PROVE TInv'
    BY <1>2, <2>6 DEF Replace, TInv, Shape, NoDuplicates, Exact
  <2>7. CASE UNCHANGED tableVars
    BY <1>2, <2>7 DEF tableVars, TInv, Shape, NoDuplicates, Exact
  <2> QED
    BY <1>2, <2>1, <2>4, <2>5, <2>6, <2>7 DEF TableNext
<1> QED
  BY <1>1, <1>2

\* Whatever the caller did to Archiver.Objects between two calls of Marshal, the
\* index addObject uses is exact.
THEOREM IndexCorrect == TableSpec => []IndexSound
<1>1. TableSpec => []TInv
  BY TableInvariant, PTL DEF TableSpec
<1> QED
  BY <1>1, ExactIsSound, PTL

\* No two UIDs of an archive name equal objects.
THEOREM ObjectsUnique == TableSpec => []NoDuplicates
<1>1. TableSpec => []TInv
  BY TableInvariant, PTL DEF TableSpec
<1>2. TInv => NoDuplicates
  BY DEF TInv
<1> QED
  BY <1>1, <1>2, PTL

\* The index changes nothing but the running time: addObject behaves as the
\* linear scan it replaced.
THEOREM IndexInvisible == TableSpec => SameAsLinearScan
<1> DEFINE A == handed' # handed /\ open =>
                  /\ objects' = Scanned(objects, handed'.obj)
                  /\ handed'.uid = ScanUid(objects, handed'.obj)
<1>1. TableSpec => []TInv
  BY TableInvariant, PTL DEF TableSpec
<1>2. ASSUME TInv, [TableNext]_tableVars PROVE [A]_tableVars
  <2>1. ASSUME open, open' = open, NEW p \in Primitives, AddPrimitive(objects, p)
        PROVE  A
    BY <1>2, <2>1, AddPrimitiveStep
  <2>2. ASSUME NEW o \in Compounds, AddCompound(o) PROVE A
    BY <2>2 DEF AddCompound, HandOut
  <2>3. CASE Add
    BY <2>1, <2>2, <2>3 DEF Add
  <2>4. CASE Begin \/ End \/ \E objs \in Seq(Things) : Replace(objs)
    BY <2>4 DEF Begin, End, Replace
  <2> QED
    BY <1>2, <2>3, <2>4 DEF TableNext
<1> QED
  BY <1>1, <1>2, PTL DEF TableSpec, SameAsLinearScan

--------------------------------------------------------------------------------
(***************************************************************************)
(* The walk.                                                               *)
(***************************************************************************)

FrameType == [v : Met, at : Nat, keys : Seq(Nat), refs : Seq(Nat), key : Int, class : Int]

\* A frame of the walk, in a table of n objects.
FrameRight(f, n) ==
  /\ f \in FrameType
  /\ f.v.go \in Composites
  /\ f.at <= Len(f.v.items)
  /\ Range(f.keys) \cup Range(f.refs) \subseteq 0..(n - 1)
  /\ {f.key, f.class} \subseteq 0..(n - 1) \cup {NoUid}
  /\ f.v.go = "object" => Len(f.refs) = f.at

\* The frame waits for the value of an item; a map has its key already.
Awaits(f, n) ==
  /\ f.at < Len(f.v.items)
  /\ f.class = NoUid
  /\ f.v.go = "map" => f.key \in 0..(n - 1)

Frames(s, n) ==
  /\ s \in Seq(Range(s))
  /\ \A k \in 1..Len(s) : FrameRight(s[k], n) /\ (k < Len(s) => Awaits(s[k], n))

PendingRight(p, n) ==
  \/ p \in {Idle, Step, NilElem, Failed}
  \/ \E v \in Met : p = Call(v)
  \/ \E uid \in 0..(n - 1) : p = Returned(uid)

Walk ==
  /\ open <=> pending # Idle
  /\ pending = Idle => stack = << >>
  /\ open => Len(objects) > 0
  /\ PendingRight(pending, Len(objects))
  /\ Frames(stack, Len(objects))
  /\ pending = Step => stack # << >> /\ (Top.class # NoUid => Top.at = Len(Top.v.items))
  /\ pending # Step /\ stack # << >> => Awaits(Top, Len(objects))

\* The invariant of the walk and its table.
IInv == TInv /\ Walk /\ BackwardReferences

--------------------------------------------------------------------------------
\* The parts of a frame, and what changing some of them leaves of it.
LEMMA FrameParts ==
  ASSUME NEW f \in FrameType
  PROVE  /\ f = [v |-> f.v, at |-> f.at, keys |-> f.keys, refs |-> f.refs,
                 key |-> f.key, class |-> f.class]
         /\ f.v \in Met /\ f.at \in Nat /\ f.keys \in Seq(Nat) /\ f.refs \in Seq(Nat)
         /\ f.key \in Int /\ f.class \in Int
BY DEF FrameType

LEMMA FrameMade ==
  ASSUME NEW v \in Met, NEW at \in Nat, NEW keys \in Seq(Nat), NEW refs \in Seq(Nat),
         NEW key \in Int, NEW class \in Int
  PROVE  [v |-> v, at |-> at, keys |-> keys, refs |-> refs, key |-> key, class |-> class] \in FrameType
<1> DEFINE S == Seq(Nat)
<1>1. keys \in S /\ refs \in S
  OBVIOUS
<1> HIDE DEF S
<1>2. [v |-> v, at |-> at, keys |-> keys, refs |-> refs, key |-> key, class |-> class]
        \in [v : Met, at : Nat, keys : S, refs : S, key : Int, class : Int]
  BY <1>1
<1> QED BY <1>2 DEF FrameType, S

LEMMA FrameChanged ==
  ASSUME NEW f \in FrameType, NEW at, NEW refs, NEW uid
  PROVE  /\ [f EXCEPT !.key = uid] = [v |-> f.v, at |-> f.at, keys |-> f.keys, refs |-> f.refs,
                                      key |-> uid, class |-> f.class]
         /\ [f EXCEPT !.class = uid] = [v |-> f.v, at |-> f.at, keys |-> f.keys, refs |-> f.refs,
                                        key |-> f.key, class |-> uid]
         /\ [f EXCEPT !.at = at, !.refs = refs]
              = [v |-> f.v, at |-> at, keys |-> f.keys, refs |-> refs, key |-> f.key, class |-> f.class]
         /\ [f EXCEPT !.at = at]
              = [v |-> f.v, at |-> at, keys |-> f.keys, refs |-> f.refs, key |-> f.key, class |-> f.class]
<1>1. f = [v |-> f.v, at |-> f.at, keys |-> f.keys, refs |-> f.refs, key |-> f.key, class |-> f.class]
  BY FrameParts
<1>2. [f EXCEPT !.key = uid] = [v |-> f.v, at |-> f.at, keys |-> f.keys, refs |-> f.refs,
                               key |-> uid, class |-> f.class]
  BY ONLY <1>1
<1>3. [f EXCEPT !.class = uid] = [v |-> f.v, at |-> f.at, keys |-> f.keys, refs |-> f.refs,
                                 key |-> f.key, class |-> uid]
  BY ONLY <1>1
<1> DEFINE g == [v |-> f.v, at |-> at, keys |-> f.keys, refs |-> f.refs, key |-> f.key, class |-> f.class]
           h == [v |-> f.v, at |-> at, keys |-> f.keys, refs |-> refs, key |-> f.key, class |-> f.class]
<1>4. [f EXCEPT !.at = at] = g
  BY ONLY <1>1
<1>5. [f EXCEPT !.at = at, !.refs = refs] = h
  <2>1. [f EXCEPT !.at = at, !.refs = refs] = [[f EXCEPT !.at = at] EXCEPT !.refs = refs]
    BY Zenon
  <2>2. [g EXCEPT !.refs = refs] = h
    OBVIOUS
  <2> QED BY <1>4, <2>1, <2>2, Zenon
<1> QED BY <1>2, <1>3, <1>4, <1>5, Zenon

LEMMA FrameTook ==
  ASSUME NEW f \in FrameType, NEW at, NEW refs, NEW keys
  PROVE  [f EXCEPT !.at = at, !.refs = refs, !.keys = keys]
           = [v |-> f.v, at |-> at, keys |-> keys, refs |-> refs, key |-> f.key, class |-> f.class]
<1> DEFINE h == [v |-> f.v, at |-> at, keys |-> f.keys, refs |-> refs, key |-> f.key, class |-> f.class]
<1>1. [f EXCEPT !.at = at, !.refs = refs] = h
  BY FrameChanged, Zenon
<1>2. [f EXCEPT !.at = at, !.refs = refs, !.keys = keys]
        = [[f EXCEPT !.at = at, !.refs = refs] EXCEPT !.keys = keys]
  BY Zenon
<1>3. [h EXCEPT !.keys = keys]
        = [v |-> f.v, at |-> at, keys |-> keys, refs |-> refs, key |-> f.key, class |-> f.class]
  OBVIOUS
<1> QED BY <1>1, <1>2, <1>3, Zenon

LEMMA FrameGrows ==
  ASSUME NEW n \in Nat, NEW m \in Nat, n <= m, NEW f, FrameRight(f, n)
  PROVE  FrameRight(f, m) /\ (Awaits(f, n) => Awaits(f, m))
<1>1. 0..(n - 1) \subseteq 0..(m - 1)
  OBVIOUS
<1> QED BY <1>1 DEF FrameRight, Awaits

LEMMA FramesGrow ==
  ASSUME NEW n \in Nat, NEW m \in Nat, n <= m, NEW s, Frames(s, n)
  PROVE  Frames(s, m)
BY FrameGrows DEF Frames

LEMMA FramesPush ==
  ASSUME NEW n \in Nat, NEW s, Frames(s, n), s # << >> => Awaits(Last(s), n),
         NEW f, FrameRight(f, n)
  PROVE  LET t == Append(s, f)
         IN  Frames(t, n) /\ t # << >> /\ Last(t) = f
<1> DEFINE t == Append(s, f)
           l == Len(s)
<1>0. s \in Seq(Range(s))
  BY DEF Frames
<1>1. /\ t \in Seq(Range(t)) /\ l \in Nat /\ Len(t) = l + 1
      /\ \A i \in 1 .. l : t[i] = s[i]
      /\ t # << >> /\ t[l + 1] = f /\ Last(t) = f
  BY <1>0, TopPushed
<1>2. \A k \in 1 .. l : FrameRight(s[k], n) /\ Awaits(s[k], n)
  <2> SUFFICES ASSUME NEW k \in 1 .. l PROVE FrameRight(s[k], n) /\ Awaits(s[k], n)
    OBVIOUS
  <2>1. FrameRight(s[k], n) /\ (k < l => Awaits(s[k], n))
    BY DEF Frames
  <2>2. k = l => s # << >> /\ s[k] = Last(s)
    BY <1>0 DEF Last
  <2> QED BY <2>1, <2>2, <1>1
<1> HIDE DEF t, l
<1>3. \A k \in 1 .. l + 1 : k \in 1 .. l \/ (k = l + 1 /\ ~(k < l + 1))
  BY <1>1
<1>4. \A k \in 1 .. l + 1 : FrameRight(t[k], n) /\ (k < l + 1 => Awaits(t[k], n))
  BY <1>1, <1>2, <1>3
<1> QED BY <1>1, <1>4 DEF Frames, t

LEMMA FramesPop ==
  ASSUME NEW n \in Nat, NEW s, Frames(s, n), s # << >>
  PROVE  /\ Frames(Front(s), n)
         /\ Front(s) # << >> => Awaits(Last(Front(s)), n)
<1> DEFINE t == Front(s)
           l == Len(s)
<1>0. s \in Seq(Range(s))
  BY DEF Frames
<1>1. t \in Seq(Range(t)) /\ l \in Nat \ {0} /\ Len(t) = l - 1 /\ \A i \in 1 .. l - 1 : t[i] = s[i]
  BY <1>0, TopPopped
<1>2. \A k \in 1 .. l : FrameRight(s[k], n) /\ (k < l => Awaits(s[k], n))
  BY DEF Frames
<1> HIDE DEF t, l
<1>3. \A k \in 1 .. l - 1 : k \in 1 .. l /\ k < l
  BY <1>1
<1>4. \A k \in 1 .. l - 1 : FrameRight(t[k], n) /\ Awaits(t[k], n)
  BY <1>1, <1>2, <1>3
<1>5. t # << >> => Last(t) = t[l - 1] /\ l - 1 \in 1 .. l - 1
  BY <1>1 DEF Last
<1> QED BY <1>1, <1>4, <1>5 DEF Frames, t

LEMMA FramesTop ==
  ASSUME NEW n \in Nat, NEW s, Frames(s, n), s # << >>, NEW f, FrameRight(f, n)
  PROVE  LET t == Append(Front(s), f)
         IN  Frames(t, n) /\ t # << >> /\ Last(t) = f
BY FramesPop, FramesPush

LEMMA TopRight ==
  ASSUME NEW n \in Nat, NEW s, Frames(s, n), s # << >>
  PROVE  FrameRight(Last(s), n)
<1>1. s \in Seq(Range(s)) /\ \A k \in 1..Len(s) : FrameRight(s[k], n)
  BY DEF Frames
<1>2. Len(s) \in 1..Len(s) /\ Last(s) = s[Len(s)]
  BY <1>1 DEF Last
<1> QED BY <1>1, <1>2

\* The item a frame is at is one of a Go value's.
LEMMA ItemMet ==
  ASSUME NEW v \in Met, NEW at \in Nat, at < Len(v.items)
  PROVE  v.items[at + 1].value \in Met /\ v.items[at + 1].key \in Primitives
<1> DEFINE s == v.items
<1>1. s \in Seq(Range(s)) /\ \A item \in Range(s) : item.value \in Met /\ item.key \in Primitives
  BY ValuesAssumption
<1> HIDE DEF s
<1>2. Len(s) \in Nat /\ at + 1 \in 1..Len(s)
  <2>1. Len(s) \in Nat
    BY <1>1
  <2> QED BY <2>1 DEF s
<1>3. s[at + 1] \in Range(s)
  BY <1>1, <1>2, RangeWithin
<1> QED BY <1>1, <1>3 DEF s
--------------------------------------------------------------------------------
\* What either way of adding an object does to the table.
AddedTo(o) ==
  /\ objects' \in {objects, Append(objects, o)}
  /\ Len(objects) \in Nat /\ Len(objects') \in Nat /\ Len(objects) <= Len(objects')
  /\ handed'.uid \in 0..(Len(objects') - 1)
  /\ \A k \in 1..Len(objects') :
       \/ k \in 1..Len(objects) /\ objects'[k] = objects[k]
       \/ k = Len(objects) + 1 /\ objects'[k] = o

LEMMA ScannedAdds ==
  ASSUME NEW objs \in Seq(Things), NEW o \in Things
  PROVE  /\ Scanned(objs, o) \in {objs, Append(objs, o)}
         /\ Len(objs) \in Nat /\ Len(Scanned(objs, o)) \in Nat
         /\ Len(objs) <= Len(Scanned(objs, o))
         /\ ScanUid(objs, o) \in 0..(Len(Scanned(objs, o)) - 1)
         /\ \A k \in 1..Len(Scanned(objs, o)) :
              \/ k \in 1..Len(objs) /\ Scanned(objs, o)[k] = objs[k]
              \/ k = Len(objs) + 1 /\ Scanned(objs, o)[k] = o
<1>0. Len(objs) \in Nat
  OBVIOUS
<1>1. CASE Positions(objs, o) = {}
  <2>1. Scanned(objs, o) = Append(objs, o) /\ ScanUid(objs, o) = Len(objs)
    BY <1>1 DEF Scanned, ScanUid
  <2>2. /\ Len(Append(objs, o)) = Len(objs) + 1 /\ Append(objs, o)[Len(objs) + 1] = o
        /\ \A k \in 1..Len(objs) : Append(objs, o)[k] = objs[k]
    OBVIOUS
  <2>3. \A k \in 1..(Len(objs) + 1) : k \in 1..Len(objs) \/ k = Len(objs) + 1
    BY <1>0
  <2> QED BY <1>0, <2>1, <2>2, <2>3
<1>2. CASE Positions(objs, o) # {}
  <2>1. Scanned(objs, o) = objs /\ ScanUid(objs, o) = First(Positions(objs, o)) - 1
    BY <1>2 DEF Scanned, ScanUid
  <2>2. Positions(objs, o) \in SUBSET Nat /\ Positions(objs, o) \subseteq 1..Len(objs)
    BY <1>0 DEF Positions
  <2>3. \E i \in Positions(objs, o) : \A j \in Positions(objs, o) : i <= j
    BY <1>2, <2>2, LeastNatural
  <2>4. First(Positions(objs, o)) \in 1..Len(objs)
    BY <2>2, <2>3 DEF First
  <2> QED BY <1>0, <2>1, <2>4
<1> QED BY <1>1, <1>2

LEMMA PrimitiveAdded ==
  ASSUME TInv, open, open' = open, NEW p \in Primitives, AddPrimitive(objects, p)
  PROVE  AddedTo(p) /\ TInv'
<1>1. TInv' /\ objects' = Scanned(objects, p) /\ handed'.uid = ScanUid(objects, p)
  BY AddPrimitiveStep
<1>2. objects \in Seq(Things) /\ p \in Things
  BY DEF TInv, Shape, Things
<1> QED BY <1>1, <1>2, ScannedAdds DEF AddedTo

LEMMA CompoundAdded ==
  ASSUME TInv, open, open' = open, NEW o \in Compounds, AddCompound(o)
  PROVE  AddedTo(o) /\ TInv'
<1>1. TInv' /\ objects' = Scanned(objects, o) /\ handed'.uid = ScanUid(objects, o)
  BY AddCompoundStep DEF AddCompound, HandOut
<1>2. objects \in Seq(Things) /\ o \in Things
  BY DEF TInv, Shape, Things
<1> QED BY <1>1, <1>2, ScannedAdds DEF AddedTo

\* What marshal adds are class descriptions and NS objects.
LEMMA ClassIsCompound ==
  ASSUME NEW v \in Met
  PROVE  ClassOf(v) \in Compounds /\ ClassOf(v).kind = "class"
<1> DEFINE o == ClassOf(v)
<1>1. PICK name : o = Class(name)
  BY DEF ClassOf
<1>2. o.data \in ClassNames
  BY ValuesAssumption
<1>3. << >> \in Seq(Primitives) /\ << >> \in Seq(Nat) /\ NoUid \in Int
  BY DEF NoUid
<1> HIDE DEF o
<1>4. o.data = name
  BY <1>1 DEF Class
<1>5. o \in Compounds /\ o.kind = "class"
  BY <1>1, <1>2, <1>3, <1>4 DEF Class, Compounds
<1> QED BY <1>5 DEF o

LEMMA CompositeIsCompound ==
  ASSUME NEW n \in Nat, NEW f, FrameRight(f, n), f.at = Len(f.v.items), f.class # NoUid
  PROVE  /\ Composite(f) \in Compounds
         /\ Uids(Composite(f)) \subseteq 0..(n - 1)
<1>1. /\ f.v \in Met /\ f.v.go \in Composites /\ f.keys \in Seq(Nat) /\ f.refs \in Seq(Nat)
      /\ f.class \in Int /\ f.class \in 0..(n - 1)
      /\ Range(f.keys) \cup Range(f.refs) \subseteq 0..(n - 1)
      /\ f.v.go = "object" => Len(f.refs) = f.at
  BY DEF FrameRight, FrameType
<1> DEFINE kind == IF f.v.go \in {"map", "struct"} THEN "table" ELSE f.v.go
           data == CASE f.v.go = "leaf" /\ f.v.type = "NSDate" -> Second[f.v.prim]
                     [] f.v.go = "leaf" /\ f.v.type # "NSDate" -> f.v.prim
                     [] OTHER -> ""
           names == IF f.v.go = "object" THEN [k \in DOMAIN f.refs |-> f.v.items[k].key] ELSE << >>
<1>2. Composite(f) = [kind |-> kind, data |-> data, names |-> names, keys |-> f.keys,
                      refs |-> f.refs, class |-> f.class]
  BY DEF Composite
<1>3. kind \in {"class", "table", "slice", "object", "leaf"}
  BY <1>1 DEF Composites
<1>4. data \in {""} \cup ClassNames \cup Primitives
  <2>1. f.v.prim \in Primitives /\ Second[f.v.prim] \in Primitives
    BY <1>1, ValuesAssumption
  <2> QED BY <2>1
<1>5. names \in Seq(Primitives)
  <2>1. CASE f.v.go # "object"
    BY <2>1
  <2>2. CASE f.v.go = "object"
    <3> DEFINE s == f.v.items
               l == Len(f.refs)
    <3>1. s \in Seq(Range(s)) /\ \A item \in Range(s) : item.key \in Primitives
      BY <1>1, ValuesAssumption
    <3>2. l \in Nat /\ DOMAIN f.refs = 1..l /\ l = Len(s)
      BY <1>1, <2>2
    <3> HIDE DEF s, l
    <3>3. \A k \in 1..l : s[k] \in Range(s)
      BY <3>1, <3>2, RangeWithin
    <3>4. [k \in 1..l |-> s[k].key] \in Seq(Primitives)
      BY <3>1, <3>2, <3>3
    <3> QED BY <2>2, <3>2, <3>4 DEF s
  <2> QED BY <2>1, <2>2
<1> HIDE DEF kind, data, names
<1>6. Composite(f) \in Compounds
  <2> DEFINE keys == f.keys
             refs == f.refs
             class == f.class
             Data == {""} \cup ClassNames \cup Primitives
  <2>1. keys \in Seq(Nat) /\ refs \in Seq(Nat) /\ class \in Int /\ data \in Data
    BY <1>1, <1>4
  <2>2. Composite(f) = [kind |-> kind, data |-> data, names |-> names, keys |-> keys,
                        refs |-> refs, class |-> class]
    BY <1>2
  <2> HIDE DEF keys, refs, class, Data
  <2>3. Composite(f) \in [kind : {"class", "table", "slice", "object", "leaf"}, data : Data,
                          names : Seq(Primitives), keys : Seq(Nat), refs : Seq(Nat), class : Int]
    BY <1>3, <1>5, <2>1, <2>2
  <2> QED BY <2>3 DEF Compounds, Data
<1>7. Composite(f).keys = f.keys /\ Composite(f).refs = f.refs /\ Composite(f).class = f.class
  BY <1>2
<1> QED BY <1>1, <1>6, <1>7 DEF Uids
--------------------------------------------------------------------------------
(***************************************************************************)
(* Every step of the walk.                                                 *)
(***************************************************************************)

\* What marshal is called with is a Go value.
LEMMA CallsMet ==
  ASSUME Walk, pending.is = "call"
  PROVE  pending.v \in Met /\ pending.v.prim \in Primitives /\ open /\ pending # Idle
<1>1. pending \notin {Idle, Step, NilElem, Failed} /\ \A uid : pending # Returned(uid)
  BY DEF Idle, Step, NilElem, Failed, Returned
<1>2. PICK v \in Met : pending = Call(v)
  BY <1>1 DEF Walk, PendingRight
<1>3. pending.v = v
  BY <1>2 DEF Call
<1> QED BY <1>1, <1>3, ValuesAssumption DEF Walk

\* What marshal returned is the UID of an object of the table.
LEMMA ReturnsUid ==
  ASSUME Walk, pending.is = "uid"
  PROVE  pending.uid \in 0..(Len(objects) - 1) /\ open /\ pending # Step
<1>1. pending \notin {Idle, Step, NilElem, Failed} /\ \A v : pending # Call(v)
  BY DEF Idle, Step, NilElem, Failed, Call
<1>2. PICK uid \in 0..(Len(objects) - 1) : pending = Returned(uid)
  BY <1>1 DEF Walk, PendingRight
<1>3. pending.uid = uid
  BY <1>2 DEF Returned
<1> QED BY <1>1, <1>3 DEF Walk

\* The composite on top of the stack.
LEMMA StepOfTop ==
  ASSUME TInv, Walk, stack # << >>
  PROVE  /\ Len(objects) \in Nat /\ open
         /\ FrameRight(Top, Len(objects)) /\ Top.v \in Met
         /\ pending # Step => Awaits(Top, Len(objects))
<1>1. Len(objects) \in Nat
  BY DEF TInv, Shape
<1>2. FrameRight(Top, Len(objects)) /\ open
  BY <1>1, TopRight DEF Walk, Top
<1> QED BY <1>1, <1>2 DEF FrameRight, FrameType, Walk

\* An item that is looked at exists, and so does its name.
LEMMA ItemOfTop ==
  ASSUME TInv, Walk, MoreItems \/ (pending # Step /\ stack # << >>)
  PROVE  /\ stack # << >> /\ open
         /\ Top.at < Len(Top.v.items) /\ Top.at \in Nat
         /\ Item.value \in Met /\ Item.key \in Primitives
<1>1. stack # << >> /\ (MoreItems => Top.at < Len(Top.v.items))
  BY DEF Walk, MoreItems
<1>2. Top.v \in Met /\ Top.at \in Nat /\ Top.at < Len(Top.v.items) /\ open
  BY <1>1, StepOfTop DEF FrameRight, FrameType, Awaits
<1> QED BY <1>1, <1>2, ItemMet DEF Item

LEMMA WalkStarts == Init => Walk /\ BackwardReferences
<1> SUFFICES ASSUME Init PROVE Walk /\ BackwardReferences
  OBVIOUS
<1>1. open = FALSE /\ objects = << >> /\ stack = << >> /\ pending = Idle
  BY DEF Init, TableInit
<1>2. Frames(<< >>, 0)
  <2>1. << >> \in Seq(Range(<< >>)) /\ Len(<< >>) = 0
    OBVIOUS
  <2> QED BY <2>1 DEF Frames
<1>3. PendingRight(Idle, 0) /\ Idle # Step
  BY DEF PendingRight, Idle, Step
<1>4. Walk
  BY <1>1, <1>2, <1>3 DEF Walk
<1> QED BY <1>1, <1>4 DEF BackwardReferences

\* The calls of addObject that the walk makes are ones the table expects.
LEMMA WalkUsesTable ==
  ASSUME TInv, Walk, [Next]_vars
  PROVE  [TableNext]_tableVars
<1>0. pending # Idle => open
  BY DEF Walk
<1>1. ASSUME NEW v \in Values, Marshal(v) PROVE [TableNext]_tableVars
  BY <1>1 DEF Marshal, TableNext
<1>2. CASE Assign
  <2>1. PICK objs \in Tables : Replace(objs)
    BY <1>2 DEF Assign
  <2>2. objs \in Seq(Things)
    BY ValuesAssumption
  <2> QED BY <2>1, <2>2 DEF TableNext
<1>3. ASSUME open, open' = open, NEW p \in Primitives, AddPrimitive(objects, p) PROVE TableNext
  BY <1>3 DEF TableNext, Add
<1>4. ASSUME open, open' = open, NEW o \in Compounds, AddCompound(o) PROVE TableNext
  BY <1>4 DEF TableNext, Add
<1>5. CASE MarshalPrimitive
  <2>1. pending.is = "call" /\ AddPrimitive(objects, pending.v.prim) /\ open' = open
    BY <1>5 DEF MarshalPrimitive, Calling
  <2>2. open /\ pending.v.prim \in Primitives
    BY <2>1, <1>0, CallsMet
  <2> QED BY <2>1, <2>2, <1>3
<1>6. CASE NextEntry
  <2>1. pending = Step /\ stack # << >> /\ Item.key \in Primitives /\ open
    BY <1>6, ItemOfTop DEF NextEntry, MoreItems
  <2>2. open' = open
    BY <1>6 DEF NextEntry
  <2>3. CASE Item.key = Null
    BY <1>6, <2>2, <2>3 DEF NextEntry, tableVars
  <2>4. CASE Item.key # Null
    <3>1. AddPrimitive(objects, Item.key)
      BY <1>6, <2>4 DEF NextEntry
    <3> QED BY <2>1, <2>2, <3>1, <1>3
  <2> QED BY <2>3, <2>4
<1>7. CASE GotField
  <2>1. open /\ Item.key \in Primitives
    BY <1>7, ItemOfTop, ReturnsUid DEF GotField, Got
  <2>2. open' = open /\ AddPrimitive(objects, Item.key)
    BY <1>7 DEF GotField
  <2> QED BY <2>1, <2>2, <1>3
<1>8. CASE WriteClass
  <2>1. pending = Step /\ open' = open /\ AddCompound(ClassOf(Top.v))
    BY <1>8 DEF WriteClass
  <2>2. open /\ ClassOf(Top.v) \in Compounds
    BY <2>1, StepOfTop, ClassIsCompound DEF Walk
  <2> QED BY <2>1, <2>2, <1>4
<1>9. CASE WriteComposite
  <2>1. /\ pending = Step /\ open' = open /\ AddCompound(Composite(Top))
        /\ Top.at = Len(Top.v.items) /\ Top.class # NoUid
    BY <1>9 DEF WriteComposite
  <2>2. open /\ Composite(Top) \in Compounds
    BY <2>1, StepOfTop, CompositeIsCompound DEF Walk
  <2> QED BY <2>1, <2>2, <1>4
<1>10. CASE Succeed \/ GiveUp
  BY <1>10 DEF Succeed, GiveUp, TableNext
<1>11. CASE \/ MarshalNull \/ MarshalNil \/ MarshalUnknown \/ Descend \/ NextItem \/ GotElement
            \/ GotEntry \/ SkipNil \/ PassError \/ UNCHANGED vars
  BY <1>11 DEF MarshalNull, MarshalNil, MarshalUnknown, Descend, NextItem, GotElement, GotEntry,
               SkipNil, PassError, vars, tableVars
<1> QED BY <1>1, <1>2, <1>5, <1>6, <1>7, <1>8, <1>9, <1>10, <1>11 DEF Next

\* A new object keeps the references backward if its own are.
LEMMA BackwardKept ==
  ASSUME TInv, TInv', open, BackwardReferences, NEW o, AddedTo(o),
         IsObject(o) => Uids(o) \subseteq 0..(Len(objects) - 1)
  PROVE  BackwardReferences'
<1>1. DOMAIN objects = 1..Len(objects) /\ DOMAIN objects' = 1..Len(objects')
  BY DEF TInv, Shape
<1>2. SUFFICES ASSUME NEW k \in 1..Len(objects'), IsObject(objects'[k]), NEW uid \in Uids(objects'[k])
               PROVE  uid \in 0..(k - 2)
  BY <1>1 DEF BackwardReferences, IsObject, Uids
<1>3. CASE k \in 1..Len(objects) /\ objects'[k] = objects[k]
  BY <1>1, <1>2, <1>3 DEF BackwardReferences
<1>4. CASE k = Len(objects) + 1 /\ objects'[k] = o
  <2>1. Len(objects) - 1 = k - 2
    BY <1>4 DEF AddedTo
  <2> QED BY <1>2, <1>4, <2>1
<1> QED BY <1>3, <1>4 DEF AddedTo

LEMMA PrimitiveBackward ==
  ASSUME TInv, open, open' = open, BackwardReferences, NEW p \in Primitives, AddPrimitive(objects, p)
  PROVE  AddedTo(p) /\ TInv' /\ BackwardReferences'
<1>1. AddedTo(p) /\ TInv'
  BY PrimitiveAdded
<1>2. ~IsObject(p)
  BY DEF IsObject
<1> QED BY <1>1, <1>2, BackwardKept

\* A call of marshal that writes a primitive or nothing returns to the composite
\* that waits for it.
LEMMA MarshalSteps ==
  ASSUME TInv, Walk, BackwardReferences,
         MarshalPrimitive \/ MarshalNull \/ MarshalNil \/ MarshalUnknown
  PROVE  Walk' /\ BackwardReferences'
<1> DEFINE n == Len(objects)
           m == Len(objects')
<1>1. pending.is = "call" /\ stack' = stack /\ open' = open
  BY DEF MarshalPrimitive, MarshalNull, MarshalNil, MarshalUnknown, Calling, tableVars
<1>2. open /\ pending.v \in Met /\ pending.v.prim \in Primitives /\ pending # Step
  BY <1>1, CallsMet DEF Step
<1>3. /\ n \in Nat /\ n > 0 /\ Frames(stack, n)
      /\ stack # << >> => Awaits(Last(stack), n)
  BY <1>2, StepOfTop DEF Walk, Top, TInv, Shape
<1>4. /\ m \in Nat /\ n <= m /\ BackwardReferences'
      /\ pending' \in {NilElem, Failed} \/ \E uid \in 0..(m - 1) : pending' = Returned(uid)
  <2>1. CASE MarshalPrimitive
    <3>1. AddPrimitive(objects, pending.v.prim) /\ pending' = Returned(handed'.uid)
      BY <2>1 DEF MarshalPrimitive
    <3>2. AddedTo(pending.v.prim) /\ BackwardReferences'
      BY <1>1, <1>2, <3>1, PrimitiveBackward
    <3> QED BY <3>1, <3>2 DEF AddedTo
  <2>2. CASE MarshalNull \/ MarshalNil \/ MarshalUnknown
    <3>1. objects' = objects /\ pending' \in {NilElem, Failed, Returned(0)}
      BY <2>2 DEF MarshalNull, MarshalNil, MarshalUnknown, tableVars
    <3>2. BackwardReferences'
      BY <1>1, <3>1 DEF BackwardReferences
    <3>3. 0 \in 0..(m - 1)
      BY <1>3, <3>1
    <3> QED BY <1>3, <3>1, <3>2, <3>3
  <2> QED BY <2>1, <2>2
<1>5. Frames(stack', m)
  BY <1>1, <1>3, <1>4, FramesGrow
<1>6. stack' # << >> => Awaits(Last(stack'), m)
  <2> SUFFICES ASSUME stack # << >> PROVE Awaits(Last(stack), m)
    BY <1>1
  <2>1. FrameRight(Last(stack), n)
    BY <1>3, TopRight
  <2> QED BY <1>3, <1>4, <2>1, FrameGrows
<1>7. PendingRight(pending', m) /\ pending' # Idle /\ pending' # Step
  BY <1>4 DEF PendingRight, Idle, Step, NilElem, Failed, Returned
<1> QED BY <1>1, <1>2, <1>3, <1>4, <1>5, <1>6, <1>7 DEF Walk, Top

LEMMA DescendSteps ==
  ASSUME TInv, Walk, BackwardReferences, Descend
  PROVE  Walk' /\ BackwardReferences'
<1> DEFINE n == Len(objects)
           f == Frame(pending.v)
<1>1. /\ pending.is = "call" /\ stack' = Append(stack, f) /\ pending' = Step
      /\ open' = open /\ objects' = objects /\ pending.v.go \in Composites
  BY DEF Descend, Calling, tableVars
<1>2. open /\ pending.v \in Met /\ pending # Step
  BY <1>1, CallsMet DEF Step
<1>3. /\ n \in Nat /\ n > 0 /\ Frames(stack, n)
      /\ stack # << >> => Awaits(Last(stack), n)
  BY <1>2, StepOfTop DEF Walk, Top, TInv, Shape
<1>4. FrameRight(f, n) /\ f.class = NoUid
  <2>1. f = [v |-> pending.v, at |-> 0, keys |-> << >>, refs |-> << >>, key |-> NoUid, class |-> NoUid]
    BY DEF Frame
  <2>2. << >> \in Seq(Nat) /\ Len(<< >>) = 0 /\ Range(<< >>) = {} /\ NoUid \in Int
    BY DEF NoUid, Range
  <2>3. Len(pending.v.items) \in Nat
    BY <1>2, ValuesAssumption
  <2> HIDE DEF f
  <2> QED BY <1>1, <1>2, <2>1, <2>2, <2>3 DEF FrameRight, FrameType
<1> HIDE DEF f, n
<1>5. Frames(stack', n) /\ stack' # << >> /\ Last(stack') = f
  BY <1>1, <1>3, <1>4, FramesPush
<1>6. PendingRight(Step, n) /\ Step # Idle
  BY DEF PendingRight, Step, Idle
<1>7. Walk'
  BY <1>1, <1>2, <1>3, <1>4, <1>5, <1>6 DEF Walk, Top, n
<1> QED BY <1>1, <1>7 DEF BackwardReferences

LEMMA NextItemSteps ==
  ASSUME TInv, Walk, BackwardReferences, NextItem
  PROVE  Walk' /\ BackwardReferences'
<1>1. /\ pending = Step /\ Top.at < Len(Top.v.items) /\ Top.v.go # "map"
      /\ pending' = Call(Item.value) /\ stack' = stack /\ objects' = objects /\ open' = open
  BY DEF NextItem, MoreItems, tableVars
<1>2. stack # << >> /\ open /\ Item.value \in Met /\ Top.at \in Nat
  BY ItemOfTop DEF NextItem
<1>3. FrameRight(Top, Len(objects))
  BY <1>2, StepOfTop
<1>4. Top.class = NoUid
  <2>1. Top.class # NoUid => Top.at = Len(Top.v.items)
    BY <1>1 DEF Walk
  <2> QED BY <1>1, <1>2, <2>1
<1>5. Awaits(Top, Len(objects))
  BY <1>1, <1>4 DEF Awaits
<1>6. PendingRight(pending', Len(objects)) /\ pending' # Idle /\ pending' # Step
  BY <1>1, <1>2 DEF PendingRight, Idle, Step, Call
<1>7. Walk'
  BY <1>1, <1>2, <1>5, <1>6 DEF Walk, Top
<1> QED BY <1>1, <1>7 DEF BackwardReferences

\* The key of a map entry is in the table before its value is looked at.
LEMMA NextEntrySteps ==
  ASSUME TInv, Walk, BackwardReferences, NextEntry
  PROVE  Walk' /\ BackwardReferences'
<1> DEFINE n == Len(objects)
           m == Len(objects')
<1>1. /\ pending = Step /\ Top.at < Len(Top.v.items)
      /\ pending' = Call(Item.value) /\ open' = open
  BY DEF NextEntry, MoreItems
<1>2. stack # << >> /\ open /\ Item.value \in Met /\ Item.key \in Primitives /\ Top.at \in Nat
  BY ItemOfTop DEF NextEntry
<1>3. n \in Nat /\ n > 0 /\ Frames(stack, n) /\ FrameRight(Top, n)
  BY <1>2, StepOfTop DEF Walk
<1>4. Top.class = NoUid
  <2>1. Top.class # NoUid => Top.at = Len(Top.v.items)
    BY <1>1 DEF Walk
  <2> QED BY <1>1, <1>2, <2>1
<1> DEFINE Has(key) == /\ m \in Nat /\ n <= m /\ BackwardReferences'
                       /\ key \in 0..(m - 1)
                       /\ stack' = Append(Front(stack), [Top EXCEPT !.key = key])
<1>5. PICK key : Has(key)
  <2>1. CASE Item.key = Null
    <3>1. objects' = objects /\ stack' = Append(Front(stack), [Top EXCEPT !.key = 0])
      BY <2>1 DEF NextEntry, Became
    <3>2. BackwardReferences'
      BY <1>1, <3>1 DEF BackwardReferences
    <3>3. 0 \in 0..(m - 1)
      BY <1>3, <3>1
    <3>4. Has(0)
      BY <1>3, <3>1, <3>2, <3>3
    <3> QED BY <3>4
  <2>2. CASE Item.key # Null
    <3>1. AddPrimitive(objects, Item.key) /\ stack' = Append(Front(stack), [Top EXCEPT !.key = handed'.uid])
      BY <2>2 DEF NextEntry, Became
    <3>2. AddedTo(Item.key) /\ BackwardReferences'
      BY <1>1, <1>2, <3>1, PrimitiveBackward
    <3>3. Has(handed'.uid)
      BY <3>1, <3>2 DEF AddedTo
    <3> QED BY <3>3
  <2> QED BY <2>1, <2>2
<1> DEFINE f == [Top EXCEPT !.key = key]
<1>6. Frames(stack, m) /\ FrameRight(Top, m)
  BY <1>3, <1>5, FramesGrow, FrameGrows
<1>7. FrameRight(f, m) /\ Awaits(f, m)
  <2>1. /\ f \in FrameType
        /\ f.v = Top.v /\ f.at = Top.at /\ f.keys = Top.keys /\ f.refs = Top.refs
        /\ f.key = key /\ f.class = Top.class
    <3>1. Top \in FrameType /\ key \in Int
      BY <1>5, <1>6 DEF FrameRight
    <3>2. f = [v |-> Top.v, at |-> Top.at, keys |-> Top.keys, refs |-> Top.refs,
               key |-> key, class |-> Top.class]
      BY <3>1, FrameChanged
    <3> HIDE DEF f
    <3> QED BY <3>1, <3>2, FrameParts, FrameMade
  <2> HIDE DEF f
  <2> QED BY <1>1, <1>4, <1>5, <1>6, <2>1 DEF FrameRight, Awaits
<1> HIDE DEF f, n, m
<1>8. Frames(stack', m) /\ stack' # << >> /\ Last(stack') = f
  BY <1>2, <1>5, <1>6, <1>7, FramesTop DEF f
<1>9. PendingRight(pending', m) /\ pending' # Idle /\ pending' # Step
  BY <1>1, <1>2 DEF PendingRight, Idle, Step, Call
<1>10. m > 0
  BY <1>3, <1>5
<1> QED BY <1>1, <1>2, <1>5, <1>7, <1>8, <1>9, <1>10 DEF Walk, Top, m

\* The UID an item's value got, or that it is left out.
LEMMA GotSteps ==
  ASSUME TInv, Walk, BackwardReferences, GotElement \/ GotEntry \/ GotField \/ SkipNil
  PROVE  Walk' /\ BackwardReferences'
<1> DEFINE n == Len(objects)
           m == Len(objects')
<1>1. pending # Step /\ stack # << >> /\ pending' = Step /\ open' = open
  BY ReturnsUid DEF GotElement, GotEntry, GotField, SkipNil, Got, tableVars, NilElem, Step
<1>2. /\ open /\ n \in Nat /\ n > 0 /\ Frames(stack, n) /\ FrameRight(Top, n) /\ Awaits(Top, n)
      /\ Item.key \in Primitives
  BY <1>1, StepOfTop, ItemOfTop DEF Walk
<1>3. Len(Top.v.items) \in Nat /\ Top.at \in Nat
  BY <1>2, ValuesAssumption DEF FrameRight, FrameType
<1> DEFINE
      Took(keys, refs) ==
        /\ keys \in Seq(Nat) /\ refs \in Seq(Nat)
        /\ m \in Nat /\ n <= m /\ BackwardReferences'
        /\ stack' = Append(Front(stack), [Top EXCEPT !.at = Top.at + 1, !.refs = refs, !.keys = keys])
        /\ Range(keys) \cup Range(refs) \subseteq 0..(m - 1)
        /\ Top.v.go = "object" => Len(refs) = Top.at + 1
<1>4. PICK keys, refs : Took(keys, refs)
  <2>1. /\ Top.keys \in Seq(Nat) /\ Top.refs \in Seq(Nat)
        /\ Range(Top.keys) \cup Range(Top.refs) \subseteq 0..(n - 1)
        /\ Top.v.go = "object" => Len(Top.refs) = Top.at
    BY <1>2, FrameParts DEF FrameRight
  <2>2. ASSUME NEW uids \in Seq(Nat), NEW uid \in Nat
        PROVE  /\ Append(uids, uid) \in Seq(Nat) /\ Len(Append(uids, uid)) = Len(uids) + 1
               /\ Range(Append(uids, uid)) = Range(uids) \cup {uid}
    BY RangeOfAppend
  <2>3. pending.is = "uid" => pending.uid \in 0..(n - 1) /\ pending.uid \in Nat
    BY <1>2, ReturnsUid
  <2>4. CASE GotElement \/ GotEntry \/ SkipNil
    <3>1. objects' = objects
      BY <2>4 DEF GotElement, GotEntry, SkipNil, tableVars
    <3>2. BackwardReferences'
      BY <1>1, <3>1 DEF BackwardReferences
    <3>3. CASE GotElement
      <4>1. pending.is = "uid" /\ stack' = Append(Front(stack),
              [Top EXCEPT !.at = Top.at + 1, !.refs = Append(Top.refs, pending.uid)])
        BY <3>3 DEF GotElement, Got, Became
      <4>2. [Top EXCEPT !.at = Top.at + 1, !.refs = Append(Top.refs, pending.uid), !.keys = Top.keys]
              = [Top EXCEPT !.at = Top.at + 1, !.refs = Append(Top.refs, pending.uid)]
        BY <1>2, <1>3, <2>1, <2>2, <2>3, <4>1, FrameChanged, FrameTook DEF FrameRight
      <4>3. Took(Top.keys, Append(Top.refs, pending.uid))
        BY <1>2, <2>1, <2>2, <2>3, <3>1, <3>2, <4>1, <4>2
      <4> QED BY <4>3
    <3>4. CASE GotEntry
      <4>1. /\ pending.is = "uid" /\ Top.v.go = "map"
            /\ stack' = Append(Front(stack),
                 [Top EXCEPT !.at = Top.at + 1, !.refs = Append(Top.refs, pending.uid),
                             !.keys = Append(Top.keys, Top.key)])
        BY <3>4 DEF GotEntry, Got, Became
      <4>2. Top.key \in 0..(n - 1) /\ Top.key \in Nat
        BY <1>2, <4>1 DEF Awaits
      <4>3. Took(Append(Top.keys, Top.key), Append(Top.refs, pending.uid))
        BY <1>2, <2>1, <2>2, <2>3, <3>1, <3>2, <4>1, <4>2
      <4> QED BY <4>3
    <3>5. CASE SkipNil
      <4>1. /\ stack' = Append(Front(stack), [Top EXCEPT !.at = Top.at + 1])
            /\ Top.v.go # "object"
        BY <3>5 DEF SkipNil, Skips, Became
      <4>2. [Top EXCEPT !.at = Top.at + 1, !.refs = Top.refs, !.keys = Top.keys]
              = [Top EXCEPT !.at = Top.at + 1]
        BY <1>2, <1>3, FrameChanged, FrameTook DEF FrameRight
      <4>3. Took(Top.keys, Top.refs)
        BY <1>2, <2>1, <3>1, <3>2, <4>1, <4>2
      <4> QED BY <4>3
    <3> QED BY <2>4, <3>3, <3>4, <3>5
  <2>5. CASE GotField
    <3>1. /\ pending.is = "uid" /\ Top.v.go = "struct" /\ AddPrimitive(objects, Item.key)
          /\ stack' = Append(Front(stack),
               [Top EXCEPT !.at = Top.at + 1, !.refs = Append(Top.refs, pending.uid),
                           !.keys = Append(Top.keys, handed'.uid)])
      BY <2>5 DEF GotField, Got, Became
    <3>2. AddedTo(Item.key) /\ BackwardReferences'
      BY <1>1, <1>2, <3>1, PrimitiveBackward
    <3>3. m \in Nat /\ n <= m /\ handed'.uid \in 0..(m - 1) /\ handed'.uid \in Nat
      BY <3>2 DEF AddedTo
    <3>4. 0..(n - 1) \subseteq 0..(m - 1)
      BY <1>2, <3>3
    <3>5. Took(Append(Top.keys, handed'.uid), Append(Top.refs, pending.uid))
      <4> DEFINE added == handed'.uid
      <4>1. added \in 0..(m - 1) /\ added \in Nat
        BY <3>3
      <4>2. stack' = Append(Front(stack),
               [Top EXCEPT !.at = Top.at + 1, !.refs = Append(Top.refs, pending.uid),
                           !.keys = Append(Top.keys, added)])
        BY <3>1
      <4> HIDE DEF n, m, added
      <4>3. Took(Append(Top.keys, added), Append(Top.refs, pending.uid))
        BY <2>1, <2>2, <2>3, <3>1, <3>2, <3>3, <3>4, <4>1, <4>2
      <4> QED BY <4>3 DEF added
    <3> QED BY <3>5
  <2> QED BY <2>4, <2>5
<1> DEFINE f == [Top EXCEPT !.at = Top.at + 1, !.refs = refs, !.keys = keys]
<1>5. Frames(stack, m) /\ FrameRight(Top, m)
  BY <1>2, <1>4, FramesGrow, FrameGrows
<1>6. FrameRight(f, m) /\ f.class = NoUid
  <2>1. /\ f \in FrameType
        /\ f.v = Top.v /\ f.at = Top.at + 1 /\ f.keys = keys /\ f.refs = refs
        /\ f.key = Top.key /\ f.class = Top.class
    <3>1. Top \in FrameType /\ Top.at + 1 \in Nat
      BY <1>3, <1>5 DEF FrameRight
    <3>2. f = [v |-> Top.v, at |-> Top.at + 1, keys |-> keys, refs |-> refs,
               key |-> Top.key, class |-> Top.class]
      <4> DEFINE at == Top.at + 1
                 t == Top
      <4>1. t \in FrameType
        BY <3>1
      <4> HIDE DEF at, t
      <4>2. [t EXCEPT !.at = at, !.refs = refs, !.keys = keys]
              = [v |-> t.v, at |-> at, keys |-> keys, refs |-> refs, key |-> t.key, class |-> t.class]
        BY <4>1, FrameTook, Zenon
      <4> QED BY <4>2 DEF at, t
    <3> HIDE DEF f
    <3> QED BY <1>4, <3>1, <3>2, FrameParts, FrameMade
  <2>2. Top.at + 1 <= Len(Top.v.items) /\ Top.class = NoUid
    BY <1>2, <1>3 DEF Awaits
  <2> HIDE DEF f
  <2> QED BY <1>4, <1>5, <2>1, <2>2 DEF FrameRight
<1> HIDE DEF f, n, m
<1>7. Frames(stack', m) /\ stack' # << >> /\ Last(stack') = f
  BY <1>1, <1>4, <1>5, <1>6, FramesTop DEF f
<1>8. PendingRight(Step, m) /\ Step # Idle /\ m > 0
  BY <1>2, <1>4 DEF PendingRight, Idle, Step
<1> QED BY <1>1, <1>2, <1>4, <1>6, <1>7, <1>8 DEF Walk, Top, m

\* A class description refers to nothing, and its UID is kept for the composite.
LEMMA WriteClassSteps ==
  ASSUME TInv, Walk, BackwardReferences, WriteClass
  PROVE  Walk' /\ BackwardReferences'
<1> DEFINE n == Len(objects)
           m == Len(objects')
           o == ClassOf(Top.v)
           uid == handed'.uid
           f == [Top EXCEPT !.class = uid]
<1>1. /\ pending = Step /\ Top.at = Len(Top.v.items) /\ AddCompound(o)
      /\ stack' = Append(Front(stack), f) /\ pending' = pending /\ open' = open
  BY DEF WriteClass, Became
<1>2. /\ stack # << >> /\ open /\ n \in Nat /\ n > 0 /\ Frames(stack, n) /\ FrameRight(Top, n)
      /\ Top.v \in Met
  BY <1>1, StepOfTop DEF Walk
<1>3. o \in Compounds /\ o.kind = "class"
  BY <1>2, ClassIsCompound
<1>4. AddedTo(o) /\ TInv'
  BY <1>1, <1>2, <1>3, CompoundAdded
<1>5. BackwardReferences'
  BY <1>2, <1>3, <1>4, BackwardKept DEF IsObject
<1>6. m \in Nat /\ n <= m /\ uid \in 0..(m - 1) /\ uid \in Int
  BY <1>4 DEF AddedTo
<1>7. Frames(stack, m) /\ FrameRight(Top, m)
  BY <1>2, <1>6, FramesGrow, FrameGrows
<1>8. Top \in FrameType
  BY <1>2 DEF FrameRight
<1> HIDE DEF n, m, o, uid
<1>9. f = [v |-> Top.v, at |-> Top.at, keys |-> Top.keys, refs |-> Top.refs,
           key |-> Top.key, class |-> uid]
  BY ONLY <1>8, FrameChanged
<1> HIDE DEF f
<1>10. FrameRight(f, m) /\ f.at = Len(f.v.items)
  <2>1. f \in FrameType
    BY <1>6, <1>8, <1>9, FrameParts, FrameMade
  <2> QED BY <1>1, <1>6, <1>7, <1>9, <2>1 DEF FrameRight
<1>11. Frames(stack', m) /\ stack' # << >> /\ Last(stack') = f
  BY <1>1, <1>2, <1>6, <1>7, <1>10, FramesTop
<1>12. PendingRight(Step, m) /\ Step # Idle /\ m > 0
  BY <1>2, <1>6 DEF PendingRight, Idle, Step
<1>13. Walk'
  BY <1>1, <1>2, <1>10, <1>11, <1>12 DEF Walk, Top, m
<1> QED BY <1>5, <1>13

\* A composite refers to what was in the table before it.
LEMMA WriteCompositeSteps ==
  ASSUME TInv, Walk, BackwardReferences, WriteComposite
  PROVE  Walk' /\ BackwardReferences'
<1> DEFINE n == Len(objects)
           m == Len(objects')
           o == Composite(Top)
<1>1. /\ pending = Step /\ Top.at = Len(Top.v.items) /\ Top.class # NoUid /\ AddCompound(o)
      /\ stack' = Front(stack) /\ pending' = Returned(handed'.uid) /\ open' = open
  BY DEF WriteComposite
<1>2. stack # << >> /\ open /\ n \in Nat /\ n > 0 /\ Frames(stack, n) /\ FrameRight(Top, n)
  BY <1>1, StepOfTop DEF Walk
<1>3. o \in Compounds /\ Uids(o) \subseteq 0..(n - 1)
  BY <1>1, <1>2, CompositeIsCompound
<1>4. AddedTo(o) /\ TInv'
  BY <1>1, <1>2, <1>3, CompoundAdded
<1>5. BackwardReferences'
  BY <1>2, <1>3, <1>4, BackwardKept
<1>6. m \in Nat /\ n <= m /\ handed'.uid \in 0..(m - 1)
  BY <1>4 DEF AddedTo
<1> HIDE DEF o
<1>7. Frames(stack, m)
  BY <1>2, <1>6, FramesGrow
<1>8. Frames(stack', m) /\ (stack' # << >> => Awaits(Last(stack'), m))
  BY <1>1, <1>2, <1>6, <1>7, FramesPop
<1>9. PendingRight(pending', m) /\ pending' # Idle /\ pending' # Step /\ m > 0
  BY <1>1, <1>2, <1>6 DEF PendingRight, Returned, Idle, Step
<1>10. Walk'
  BY <1>1, <1>2, <1>8, <1>9 DEF Walk, Top
<1> QED BY <1>5, <1>10

\* An error leaves one call after the other, and the table as it is.
LEMMA PassErrorSteps ==
  ASSUME TInv, Walk, BackwardReferences, PassError
  PROVE  Walk' /\ BackwardReferences'
<1> DEFINE n == Len(objects)
<1>1. /\ pending \in {NilElem, Failed} /\ stack # << >> /\ stack' = Front(stack)
      /\ pending' = pending /\ open' = open /\ objects' = objects
  BY DEF PassError, tableVars
<1>2. open /\ n \in Nat /\ n > 0 /\ Frames(stack, n)
  BY <1>1, StepOfTop DEF Walk
<1>3. Frames(stack', n) /\ (stack' # << >> => Awaits(Last(stack'), n))
  BY <1>1, <1>2, FramesPop
<1>4. PendingRight(pending', n) /\ pending' # Idle /\ pending' # Step
  BY <1>1 DEF PendingRight, NilElem, Failed, Idle, Step
<1>5. Walk'
  BY <1>1, <1>2, <1>3, <1>4 DEF Walk, Top
<1> QED BY <1>1, <1>5 DEF BackwardReferences

\* Marshal starts with $null alone.
LEMMA MarshalBegins ==
  ASSUME TInv, Walk, NEW v \in Values, Marshal(v)
  PROVE  Walk' /\ BackwardReferences'
<1>1. Begin /\ pending = Idle /\ pending' = Call(v) /\ stack' = stack /\ open'
  BY DEF Marshal, Begin
<1>2. TInv'
  BY <1>1, BeginStep
<1>3. /\ objects' \in Seq(Things) /\ Null \in DOMAIN index'
      /\ index'[Null] \in Nat /\ index'[Null] + 1 \in 1..Len(objects')
  BY <1>1, <1>2 DEF TInv, Shape, Exact
<1>4. Len(objects') \in Nat /\ Len(objects') > 0
  BY <1>3
<1>5. v \in Met /\ stack = << >>
  BY <1>1, ValuesAssumption DEF Walk
<1>6. PendingRight(pending', Len(objects')) /\ pending' # Idle /\ pending' # Step
  BY <1>1, <1>5 DEF PendingRight, Call, Idle, Step
<1>7. Frames(stack', Len(objects'))
  <2>1. << >> \in Seq(Range(<< >>)) /\ Len(<< >>) = 0
    OBVIOUS
  <2> QED BY <1>1, <1>5, <2>1 DEF Frames
<1>8. Walk'
  BY <1>1, <1>4, <1>5, <1>6, <1>7 DEF Walk
<1>9. BackwardReferences'
  <2>1. objects' \in {<< >>, Append(<< >>, Null)}
    BY <1>1 DEF Begin, AddPrimitive
  <2>2. \A k \in DOMAIN objects' : objects'[k] = Null
    BY <2>1
  <2>3. ~IsObject(Null)
    BY ObjectsAssumption DEF IsObject
  <2> QED BY <2>2, <2>3 DEF BackwardReferences
<1> QED BY <1>8, <1>9

\* Between calls of Marshal the walk holds nothing, whatever becomes of the table.
LEMMA WalkRests ==
  ASSUME TInv, Walk, ~open', stack' = << >>, pending' = Idle
  PROVE  Walk' /\ BackwardReferences'
<1>1. Frames(<< >>, Len(objects')) /\ PendingRight(Idle, Len(objects')) /\ Idle # Step
  <2>1. << >> \in Seq(Range(<< >>)) /\ Len(<< >>) = 0
    OBVIOUS
  <2> QED BY <2>1 DEF Frames, PendingRight, Idle, Step
<1> QED BY <1>1 DEF Walk, BackwardReferences

LEMMA WalkInductive ==
  ASSUME TInv, Walk, BackwardReferences, [Next]_vars
  PROVE  Walk' /\ BackwardReferences'
<1>1. ASSUME NEW v \in Values, Marshal(v) PROVE Walk' /\ BackwardReferences'
  BY <1>1, MarshalBegins
<1>2. CASE Assign \/ Succeed \/ GiveUp
  <2>1. ~open' /\ stack' = << >> /\ pending' = Idle
    BY <1>2 DEF Assign, Succeed, GiveUp, Replace, End, Walk
  <2> QED BY <2>1, WalkRests
<1>3. CASE UNCHANGED vars
  BY <1>3 DEF vars, tableVars, Walk, BackwardReferences, Top
<1> QED BY <1>1, <1>2, <1>3, MarshalSteps, DescendSteps, NextItemSteps, NextEntrySteps, GotSteps,
           WriteClassSteps, WriteCompositeSteps, PassErrorSteps DEF Next

LEMMA ArchiverInductive ==
  /\ Init => IInv
  /\ IInv /\ [Next]_vars => IInv'
<1>1. ASSUME Init PROVE IInv
  BY <1>1, TableInvariant, WalkStarts DEF IInv, Init
<1>2. ASSUME IInv, [Next]_vars PROVE IInv'
  <2>1. [TableNext]_tableVars
    BY <1>2, WalkUsesTable DEF IInv
  <2>2. TInv'
    BY <1>2, <2>1, TableInvariant DEF IInv
  <2> QED BY <1>2, <2>2, WalkInductive DEF IInv
<1> QED BY <1>1, <1>2

\* While no value is archived marshal runs on its own; what it does to the table
\* is what ArchiverObjects allows, so that the theorems above hold of archives.
THEOREM ImplementsTable == Spec => TableSpec
<1>1. Init => TableInit
  BY DEF Init
<1>2. IInv /\ [Next]_vars => [TableNext]_tableVars
  BY WalkUsesTable DEF IInv
<1> QED BY <1>1, <1>2, ArchiverInductive, PTL DEF Spec, TableSpec

\* During every call of Marshal the index is exact, no two UIDs name equal objects,
\* and addObject hands out what a linear scan would.
THEOREM ArchiveShared == Spec => []IndexSound /\ []NoDuplicates /\ SameAsLinearScan
BY ImplementsTable, IndexCorrect, ObjectsUnique, IndexInvisible, PTL

\* Every UID that marshal holds on its stack, or returns, is that of an object in
\* the table, and a composite has its class only when all its items are written.
THEOREM WalkTyped == Spec => []TypeOK
<1>1. IInv => TypeOK
  <2> SUFFICES ASSUME IInv PROVE TypeOK
    OBVIOUS
  <2>1. stack \in Seq(Range(stack)) /\ Len(objects) \in Nat
    BY DEF IInv, Walk, Frames, TInv, Shape
  <2>2. pending.is = "uid" => pending.uid \in 0..(Len(objects) - 1)
    BY ReturnsUid DEF IInv
  <2>3. ASSUME NEW k \in 1..Len(stack)
        PROVE  /\ stack[k].at \in 0..Len(stack[k].v.items)
               /\ Range(stack[k].keys) \cup Range(stack[k].refs) \subseteq 0..(Len(objects) - 1)
               /\ stack[k].class # NoUid => k = Len(stack) /\ stack[k].at = Len(stack[k].v.items)
    <3>1. FrameRight(stack[k], Len(objects)) /\ (k < Len(stack) => Awaits(stack[k], Len(objects)))
      BY DEF IInv, Walk, Frames
    <3>2. stack[k].at \in Nat /\ stack[k].at <= Len(stack[k].v.items) /\ Len(stack[k].v.items) \in Nat
      BY <3>1, FrameParts, ValuesAssumption DEF FrameRight
    <3>3. Range(stack[k].keys) \cup Range(stack[k].refs) \subseteq 0..(Len(objects) - 1)
      BY <3>1 DEF FrameRight
    <3>4. ASSUME stack[k].class # NoUid PROVE k = Len(stack) /\ stack[k].at = Len(stack[k].v.items)
      <4>1. k = Len(stack)
        BY <2>1, <3>1, <3>4 DEF Awaits
      <4>2. Top = stack[k]
        BY <4>1, <2>1 DEF Top, Last
      <4>3. stack # << >>
        BY <2>1
      <4>4. pending = Step
        BY <3>4, <4>2, <4>3 DEF IInv, Walk, Awaits
      <4> QED BY <3>4, <4>1, <4>2, <4>4 DEF IInv, Walk
    <3> QED BY <3>2, <3>3, <3>4
  <2>4. DOMAIN stack = 1..Len(stack)
    BY <2>1
  <2>5. open <=> pending # Idle
    BY DEF IInv, Walk
  <2> QED BY <2>2, <2>3, <2>4, <2>5 DEF TypeOK
<1> QED BY <1>1, ArchiverInductive, PTL DEF Spec

\* An object that Marshal writes refers only to objects before it, for values of
\* any shape and whatever the caller did to Objects between two calls.
THEOREM ReferencesBackward == Spec => []BackwardReferences
<1>1. IInv => BackwardReferences
  BY DEF IInv
<1> QED BY <1>1, ArchiverInductive, PTL DEF Spec
================================================================================
