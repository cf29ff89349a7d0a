-------------------------- MODULE BplistGeneratorProofs --------------------------
(***************************************************************************)
(* The binary generator, for every value written, every width of a byte    *)
(* and every failure of the writer.  Three inductive invariants:           *)
(*                                                                         *)
(* MapsRight: the keys of the two maps are exactly the values in the       *)
(* table, so the maps are sound and nothing is uniqued twice.              *)
(*                                                                         *)
(* Flattening: what a recorded container holds is recorded or still to be  *)
(* visited.  It needs that a container visited again (containers are not   *)
(* uniqued) leaves no other container with its node behind, which is why   *)
(* the constants say that a pointer has one type.                          *)
(*                                                                         *)
(* FileRight: every offset is inside the file, at a cell with the marker   *)
(* of its object, and stays there whatever is written after it.            *)
(***************************************************************************)
EXTENDS BplistGenerator, SequenceLemmas, FiniteSetTheorems

Recorded ==
  \A i \in DOMAIN objtable :
    IF objtable[i].kind = "string" THEN objtable[i].data \in DOMAIN strmap
                                   ELSE Hash(objtable[i]) \in DOMAIN objmap
Numbered ==
  /\ \A chars \in DOMAIN strmap : strmap[chars] \in Nat
  /\ \A k \in DOMAIN objmap : objmap[k] \in Nat

MapsRight == objtable \in Seq(Range(objtable)) /\ Numbered /\ MapsSound /\ Recorded /\ UniqueObjects

\* The values that are visited: keys, and what is not nil of what was given.
Flat == {v \in Values : IsContainer(v) => v \in In(given)}
HeapRight == given \in Plists /\ heap \in [Nodes -> Seq(Seq(Int) \X (Flat \cup {Nil}))]
WorkRight == work \in Seq(Flat) /\ objtable \in Seq(Flat)
Awaited(v) == Found(v) \/ v \in Range(work)
Sorted(v, entries) ==
  v.kind = "dict" => \A p, q \in DOMAIN entries : p < q => ~KeyLess(entries[q][1], entries[p][1])
Complete(v) ==
  IsContainer(v) =>
    LET entries == heap[v.data[1]]
    IN  /\ Sorted(v, entries)
        /\ \A i \in DOMAIN entries :
             Awaited(entries[i][2]) /\ (v.kind = "dict" => Awaited(Str(entries[i][1])))
AllAwaited == \A v \in Range(objtable) : Complete(v)
PcRight ==
  /\ pc \in {"flatten", "objects", "trailer", "done", "failed"}
  /\ IF pc = "flatten" THEN offtable = << >> /\ out = << >> ELSE work = << >>
Flattening == HeapRight /\ WorkRight /\ AllAwaited /\ PcRight

Marks(file, i) == offtable[i] < Len(file) /\ file[offtable[i] + 1].tag = Marker(objtable[i])
FileRight ==
  /\ offtable \in Seq(Nat) /\ Len(offtable) <= Len(objtable)
  /\ pc = "flatten" => trailer = NoTrailer
  /\ pc = "objects" => trailer.ObjectRefSize \in Nat
  /\ pc # "failed" => out \in Seq(Range(out)) /\ \A i \in DOMAIN offtable : Marks(out, i)

IInv == MapsRight /\ Flattening /\ FileRight

\* A sequence of cells that begins with the marker tag.
Marked(cells, tag) ==
  cells \in Seq(Range(cells)) /\ Len(cells) \in Nat \ {0} /\ cells[1].tag = tag


--------------------------------------------------------------------------------
\* Appending any value to a sequence of any values.
LEMMA AppendAny ==
  ASSUME NEW s, s \in Seq(Range(s)), NEW v
  PROVE  /\ Append(s, v) \in Seq(Range(Append(s, v)))
         /\ Len(s) \in Nat
         /\ DOMAIN s = 1 .. Len(s)
         /\ DOMAIN Append(s, v) = 1 .. Len(s) + 1
         /\ \A i \in 1 .. Len(s) : Append(s, v)[i] = s[i]
         /\ Append(s, v)[Len(s) + 1] = v
<1> DEFINE T == Range(s) \cup {v}
           t == Append(s, v)
<1>1. \A i \in 1 .. Len(s) : s[i] \in T
  BY DEF Range
<1>2. s \in Seq(T) /\ v \in T
  BY <1>1
<1> HIDE DEF T
<1>3. /\ t \in Seq(T) /\ Len(s) \in Nat /\ Len(t) = Len(s) + 1
      /\ DOMAIN s = 1 .. Len(s) /\ DOMAIN t = 1 .. Len(t)
      /\ \A i \in 1 .. Len(s) : t[i] = s[i]
      /\ t[Len(s) + 1] = v
  BY <1>2
<1> HIDE DEF t
<1>4. t \in Seq(Range(t))
  <2>1. \A i \in 1 .. Len(t) : t[i] \in Range(t)
    BY <1>3 DEF Range
  <2> QED BY <1>3, <2>1
<1> QED BY <1>3, <1>4 DEF t

\* The key of a value tells its kind: only a real has the key of a real.
LEMMA HashKind ==
  ASSUME NEW v, NEW w, Hash(v) = Hash(w)
  PROVE  /\ v.kind = "real" <=> w.kind = "real"
         /\ v.kind # "real" => v = w
<1>1. \A x : Hash(x) = x \/ (x.kind = "real" /\ Hash(x) = Real(x.data[1], 0))
  BY DEF Hash
<1>2. \A b : Real(b, 0).kind = "real"
  BY DEF Real
<1> QED BY <1>1, <1>2

--------------------------------------------------------------------------------
\* Recording a value that is not to be found again keeps the maps and the table in
\* agreement.
LEMMA AddPreserves ==
  ASSUME MapsRight, NEW v, ~Seen(v), Add(v)
  PROVE  MapsRight'
<1> DEFINE n == Len(objtable)
<1>1. objtable' = Append(objtable, v)
  BY DEF Add, AddNumbered
<1>2. /\ objtable' \in Seq(Range(objtable')) /\ n \in Nat
      /\ DOMAIN objtable = 1 .. n /\ DOMAIN objtable' = 1 .. n + 1
      /\ \A i \in 1 .. n : objtable'[i] = objtable[i]
      /\ objtable'[n + 1] = v
  BY <1>1, AppendAny DEF MapsRight
<1>a. (objtable \in Seq(Range(objtable)))'
  <2>1. Range(objtable') = Range(objtable)'
    BY DEF Range
  <2> QED BY <1>2, <2>1
<1>3. ASSUME v.kind = "string"
      PROVE  /\ DOMAIN strmap' = DOMAIN strmap \cup {v.data} /\ strmap'[v.data] = n
             /\ \A chars \in DOMAIN strmap : chars # v.data => strmap'[chars] = strmap[chars]
             /\ objmap' = objmap /\ v.data \notin DOMAIN strmap
  <2>1. strmap' = Put(strmap, v.data, n) /\ objmap' = objmap /\ v.data \notin DOMAIN strmap
    BY <1>3 DEF Add, AddNumbered, Seen
  <2> HIDE DEF n
  <2>2. strmap' = [x \in DOMAIN strmap \cup {v.data} |-> IF x = v.data THEN n ELSE strmap[x]]
    BY <2>1 DEF Put
  <2> QED BY <2>1, <2>2
<1>4. ASSUME v.kind # "string"
      PROVE  /\ DOMAIN objmap' = DOMAIN objmap \cup {Hash(v)} /\ objmap'[Hash(v)] = n
             /\ \A k \in DOMAIN objmap : k # Hash(v) => objmap'[k] = objmap[k]
             /\ strmap' = strmap /\ (ShouldUnique(v) => Hash(v) \notin DOMAIN objmap)
  <2>1. /\ objmap' = Put(objmap, Hash(v), n) /\ strmap' = strmap
        /\ ShouldUnique(v) => Hash(v) \notin DOMAIN objmap
    BY <1>4 DEF Add, AddNumbered, Seen
  <2> HIDE DEF n
  <2>2. objmap' = [x \in DOMAIN objmap \cup {Hash(v)} |-> IF x = Hash(v) THEN n ELSE objmap[x]]
    BY <2>1 DEF Put
  <2> QED BY <2>1, <2>2
<1> HIDE DEF n
<1>5. Numbered'
  <2>1. CASE v.kind = "string"
    BY <2>1, <1>2, <1>3 DEF MapsRight, Numbered
  <2>2. CASE v.kind # "string"
    BY <2>2, <1>2, <1>4 DEF MapsRight, Numbered
  <2> QED BY <2>1, <2>2
<1>6. MapsSound'
  <2>1. ASSUME NEW chars \in DOMAIN strmap'
        PROVE  /\ strmap'[chars] + 1 \in DOMAIN objtable'
               /\ objtable'[strmap'[chars] + 1].kind = "string"
               /\ objtable'[strmap'[chars] + 1].data = chars
    <3>1. CASE v.kind = "string" /\ chars = v.data
      BY <3>1, <1>2, <1>3
    <3>2. CASE ~(v.kind = "string" /\ chars = v.data)
      <4>1. chars \in DOMAIN strmap /\ strmap'[chars] = strmap[chars]
        BY <3>2, <1>3, <1>4
      <4>2. /\ strmap[chars] + 1 \in 1 .. n
            /\ objtable[strmap[chars] + 1].kind = "string"
            /\ objtable[strmap[chars] + 1].data = chars
        BY <4>1, <1>2 DEF MapsRight, MapsSound
      <4> QED BY <4>1, <4>2, <1>2
    <3> QED BY <3>1, <3>2
  <2>2. ASSUME NEW k \in DOMAIN objmap'
        PROVE  /\ objmap'[k] + 1 \in DOMAIN objtable'
               /\ objtable'[objmap'[k] + 1].kind # "string"
               /\ Hash(objtable'[objmap'[k] + 1]) = k
    <3>1. CASE v.kind # "string" /\ k = Hash(v)
      BY <3>1, <1>2, <1>4
    <3>2. CASE ~(v.kind # "string" /\ k = Hash(v))
      <4>1. k \in DOMAIN objmap /\ objmap'[k] = objmap[k]
        BY <3>2, <1>3, <1>4
      <4>2. /\ objmap[k] + 1 \in 1 .. n
            /\ objtable[objmap[k] + 1].kind # "string"
            /\ Hash(objtable[objmap[k] + 1]) = k
        BY <4>1, <1>2 DEF MapsRight, MapsSound
      <4> QED BY <4>1, <4>2, <1>2
    <3> QED BY <3>1, <3>2
  <2> QED BY <2>1, <2>2 DEF MapsSound
<1>7. Recorded'
  <2> SUFFICES ASSUME NEW i \in 1 .. n + 1
               PROVE  IF objtable'[i].kind = "string"
                      THEN objtable'[i].data \in DOMAIN strmap'
                      ELSE Hash(objtable'[i]) \in DOMAIN objmap'
    BY <1>2 DEF Recorded
  <2>1. CASE i = n + 1
    BY <2>1, <1>2, <1>3, <1>4
  <2>2. CASE i \in 1 .. n
    BY <2>2, <1>2, <1>3, <1>4 DEF MapsRight, Recorded
  <2> QED BY <2>1, <2>2, <1>2
<1>8. UniqueObjects'
  <2>1. ASSUME NEW i \in 1 .. n, Hash(objtable[i]) = Hash(v)
        PROVE  ~ShouldUnique(v) /\ ~ShouldUnique(objtable[i])
    <3>1. CASE v.kind = "string"
      <4>1. objtable[i] = v
        BY <2>1, <3>1, HashKind
      <4> QED BY <4>1, <3>1, <1>2, <1>3 DEF MapsRight, Recorded
    <3>2. CASE v.kind # "string"
      <4>1. objtable[i].kind = v.kind
        BY <2>1, HashKind
      <4>2. Hash(v) \in DOMAIN objmap
        BY <2>1, <4>1, <3>2, <1>2 DEF MapsRight, Recorded
      <4> QED BY <4>1, <4>2, <3>2, <1>4 DEF ShouldUnique
    <3> QED BY <3>1, <3>2
  <2> SUFFICES ASSUME NEW i \in 1 .. n + 1, NEW j \in 1 .. n + 1, i # j,
                      Hash(objtable'[i]) = Hash(objtable'[j])
               PROVE  ~ShouldUnique(objtable'[i])
    BY <1>2 DEF UniqueObjects
  <2>2. CASE i \in 1 .. n /\ j \in 1 .. n
    BY <2>2, <1>2 DEF MapsRight, UniqueObjects
  <2>3. CASE i = n + 1
    <3>1. j \in 1 .. n
      BY <2>3, <1>2
    <3> QED BY <3>1, <2>1, <2>3, <1>2
  <2>4. CASE j = n + 1
    <3>1. i \in 1 .. n
      BY <2>4, <1>2
    <3> QED BY <3>1, <2>1, <2>4, <1>2
  <2> QED BY <2>2, <2>3, <2>4, <1>2
<1> QED BY <1>a, <1>5, <1>6, <1>7, <1>8 DEF MapsRight

\* Neither the maps nor the table change.
LEMMA KeptPreserves ==
  ASSUME MapsRight, UNCHANGED <<objmap, strmap, objtable>>
  PROVE  MapsRight'
<1>1. Range(objtable)' = Range(objtable)
  BY DEF Range
<1> QED BY <1>1 DEF MapsRight, Numbered, MapsSound, Recorded, UniqueObjects

\* MapsRight is inductive: the maps and the table of the generator agree in every state.
THEOREM MapsInductive == Spec => []MapsRight
<1>1. Init => MapsRight
  <2> SUFFICES ASSUME Init PROVE MapsRight
    OBVIOUS
  <2>1. objtable = << >> /\ strmap = << >> /\ objmap = << >>
    BY DEF Init
  <2>2. objtable \in Seq(Range(objtable))
    BY <2>1
  <2>3. DOMAIN strmap = {} /\ DOMAIN objmap = {} /\ DOMAIN objtable = {}
    BY <2>1
  <2> QED BY <2>2, <2>3 DEF MapsRight, Numbered, MapsSound, Recorded, UniqueObjects
<1>2. MapsRight /\ [Next]_vars => MapsRight'
  <2> SUFFICES ASSUME MapsRight, [Next]_vars PROVE MapsRight'
    OBVIOUS
  <2>1. CASE Skip
    BY <2>1, KeptPreserves DEF Skip
  <2>2. CASE AddScalar
    BY <2>2, AddPreserves DEF AddScalar
  <2>3. CASE AddContainer
    BY <2>3, AddPreserves DEF AddContainer
  <2>4. CASE WriteHeader
    BY <2>4, KeptPreserves DEF WriteHeader, buildVars
  <2>5. CASE WriteObject
    BY <2>5, KeptPreserves DEF WriteObject, WriteObjectFrom, buildVars
  <2>6. CASE WriteOffsetTable
    BY <2>6, KeptPreserves DEF WriteOffsetTable, buildVars
  <2>7. CASE WriteTrailer
    BY <2>7, KeptPreserves DEF WriteTrailer, buildVars
  <2>8. CASE Done \/ UNCHANGED vars
    BY <2>8, KeptPreserves DEF Done, vars, buildVars
  <2> QED BY <2>1, <2>2, <2>3, <2>4, <2>5, <2>6, <2>7, <2>8 DEF Next
<1> QED BY <1>1, <1>2, PTL DEF Spec

--------------------------------------------------------------------------------
\* The order of the keys is a strict total order.
LEMMA KeysOrdered ==
  ASSUME NEW s \in Seq(Int), NEW t \in Seq(Int)
  PROVE  /\ ~KeyLess(s, s)
         /\ s # t => KeyLess(s, t) \/ KeyLess(t, s)
<1>1. ~KeyLess(s, s)
  BY DEF KeyLess
<1>2. ASSUME s # t PROVE KeyLess(s, t) \/ KeyLess(t, s)
  <2> DEFINE D == {i \in 1 .. Len(s) + 1 : i > Len(s) \/ i > Len(t) \/ s[i] # t[i]}
  <2>1. D \in SUBSET Nat /\ Len(s) + 1 \in D
    OBVIOUS
  <2>2. PICK d \in D : \A k \in D : d <= k
    <3> HIDE DEF D
    <3> QED BY <2>1, LeastNatural
  <2>3. \A j \in 1 .. d - 1 : j <= Len(s) /\ j <= Len(t) /\ s[j] = t[j]
    <3> SUFFICES ASSUME NEW j \in 1 .. d - 1 PROVE j <= Len(s) /\ j <= Len(t) /\ s[j] = t[j]
      OBVIOUS
    <3>1. d \in 1 .. Len(s) + 1 /\ j \in 1 .. Len(s) + 1 /\ ~(d <= j)
      OBVIOUS
    <3>2. j \notin D
      <4> HIDE DEF D
      <4> QED BY <3>1, <2>2
    <3> QED BY <3>1, <3>2
  <2>4. d \in 1 .. Len(s) + 1 /\ (d > Len(s) \/ d > Len(t) \/ s[d] # t[d])
    OBVIOUS
  <2> HIDE DEF D
  <2>5. CASE d <= Len(s) /\ d <= Len(t)
    <3>1. s[d] < t[d] \/ t[d] < s[d]
      <4>1. s[d] \in Int /\ t[d] \in Int
        BY <2>5, <2>4
      <4> QED BY <4>1, <2>4, <2>5
    <3>2. d \in 1 .. Len(t) + 1
      BY <2>4, <2>5
    <3> QED BY <2>3, <2>4, <2>5, <3>1, <3>2 DEF KeyLess
  <2>6. CASE d > Len(s) /\ d <= Len(t)
    BY <2>3, <2>4, <2>6 DEF KeyLess
  <2>7. CASE d <= Len(s) /\ d > Len(t)
    <3>1. d = Len(t) + 1
      <4>1. d = 1 \/ d - 1 \in 1 .. d - 1
        BY <2>4
      <4> QED BY <4>1, <2>3, <2>4, <2>7
    <3> QED BY <2>3, <2>4, <2>7, <3>1 DEF KeyLess
  <2>8. CASE d > Len(s) /\ d > Len(t)
    <3>1. d = 1 \/ d - 1 \in 1 .. d - 1
      BY <2>4
    <3>2. Len(s) = Len(t) /\ d - 1 = Len(s)
      BY <3>1, <2>3, <2>4, <2>8
    <3> QED BY <3>2, <2>3, <1>2, SeqEqual
  <2> QED BY <2>4, <2>5, <2>6, <2>7, <2>8
<1> QED BY <1>1, <1>2

LEMMA KeysTransitive ==
  ASSUME NEW s \in Seq(Int), NEW t \in Seq(Int), NEW u \in Seq(Int),
         KeyLess(s, t), KeyLess(t, u)
  PROVE  KeyLess(s, u)
<1>1. PICK i \in 1 .. Len(s) + 1 :
        /\ \A k \in 1 .. i - 1 : k <= Len(t) /\ s[k] = t[k]
        /\ i <= Len(t) /\ (i > Len(s) \/ (i <= Len(s) /\ s[i] < t[i]))
  BY DEF KeyLess
<1>2. PICK j \in 1 .. Len(t) + 1 :
        /\ \A k \in 1 .. j - 1 : k <= Len(u) /\ t[k] = u[k]
        /\ j <= Len(u) /\ (j > Len(t) \/ (j <= Len(t) /\ t[j] < u[j]))
  BY DEF KeyLess
<1>3. CASE i <= j
  <2>1. \A k \in 1 .. i - 1 : k <= Len(u) /\ s[k] = u[k]
    <3> SUFFICES ASSUME NEW k \in 1 .. i - 1 PROVE k <= Len(u) /\ s[k] = u[k]
      OBVIOUS
    <3>1. k \in 1 .. j - 1
      BY <1>3
    <3> QED BY <3>1, <1>1, <1>2
  <2>2. i <= Len(u) /\ (i > Len(s) \/ (i <= Len(s) /\ s[i] < u[i]))
    <3>1. CASE i = j
      <4>1. i <= Len(s) => s[i] \in Int /\ t[i] \in Int /\ u[i] \in Int
        BY <3>1, <1>1, <1>2
      <4> QED BY <4>1, <3>1, <1>1, <1>2
    <3>2. CASE i < j
      <4>1. t[i] = u[i] /\ i <= Len(u)
        BY <3>2, <1>1, <1>2
      <4> QED BY <4>1, <1>1
    <3> QED BY <3>1, <3>2, <1>3
  <2> QED BY <2>1, <2>2 DEF KeyLess
<1>4. CASE j < i
  <2>1. j \in 1 .. i - 1 /\ j <= Len(s) /\ j <= Len(t) /\ s[j] = t[j]
    BY <1>1, <1>2, <1>4
  <2>2. \A k \in 1 .. j - 1 : k <= Len(u) /\ s[k] = u[k]
    <3> SUFFICES ASSUME NEW k \in 1 .. j - 1 PROVE k <= Len(u) /\ s[k] = u[k]
      OBVIOUS
    <3>1. k \in 1 .. i - 1
      BY <1>4
    <3> QED BY <3>1, <1>1, <1>2
  <2>3. j \in 1 .. Len(s) + 1 /\ s[j] < u[j] /\ j <= Len(u)
    BY <2>1, <1>2
  <2> QED BY <2>1, <2>2, <2>3 DEF KeyLess
<1> QED BY <1>3, <1>4

LEMMA BeforeOrders ==
  ASSUME NEW v, NEW entries, NEW N \in SUBSET Nat, \A i \in N : entries[i][1] \in Seq(Int),
         NEW i \in N, NEW j \in N
  PROVE  /\ ~Before(v, entries, i, i)
         /\ i # j => Before(v, entries, i, j) \/ Before(v, entries, j, i)
         /\ \A k \in N : Before(v, entries, i, j) /\ Before(v, entries, j, k) => Before(v, entries, i, k)
<1>1. entries[i][1] \in Seq(Int) /\ entries[j][1] \in Seq(Int) /\ i \in Nat /\ j \in Nat
  OBVIOUS
<1>2. ~Before(v, entries, i, i)
  BY <1>1 DEF Before
<1>3. ASSUME i # j PROVE Before(v, entries, i, j) \/ Before(v, entries, j, i)
  <2>1. entries[i][1] # entries[j][1] => KeyLess(entries[i][1], entries[j][1]) \/ KeyLess(entries[j][1], entries[i][1])
    BY <1>1, KeysOrdered
  <2> QED BY <1>1, <1>3, <2>1 DEF Before
<1>4. ASSUME NEW k \in N, Before(v, entries, i, j), Before(v, entries, j, k)
      PROVE  Before(v, entries, i, k)
  <2> DEFINE a == entries[i][1]
             b == entries[j][1]
             c == entries[k][1]
  <2>1. a \in Seq(Int) /\ b \in Seq(Int) /\ c \in Seq(Int) /\ k \in Nat
    OBVIOUS
  <2>2. /\ IF v.kind = "dict" /\ a # b THEN KeyLess(a, b) ELSE i < j
        /\ IF v.kind = "dict" /\ b # c THEN KeyLess(b, c) ELSE j < k
    BY <1>4 DEF Before
  <2>3. KeyLess(a, b) /\ KeyLess(b, c) => KeyLess(a, c)
    BY <2>1, KeysTransitive
  <2>4. ~KeyLess(a, a) /\ ~KeyLess(b, b)
    BY <2>1, KeysOrdered
  <2>5. Before(v, entries, i, k) <=> IF v.kind = "dict" /\ a # c THEN KeyLess(a, c) ELSE i < k
    BY DEF Before
  <2> HIDE DEF a, b, c
  <2>6. KeyLess(a, b) /\ KeyLess(b, a) => FALSE
    BY <2>1, <2>4, KeysTransitive
  <2> QED BY <1>1, <2>1, <2>2, <2>3, <2>4, <2>5, <2>6
<1> QED BY <1>2, <1>3, <1>4

\* Sorting: every index has a rank of its own, and every rank below their number an
\* index.
LEMMA RanksMeetAll ==
  ASSUME NEW v, NEW entries, DOMAIN entries \in SUBSET Nat, IsFiniteSet(NotNil(entries)),
         \A i \in NotNil(entries) : entries[i][1] \in Seq(Int)
  PROVE  /\ Cardinality(NotNil(entries)) \in Nat
         /\ \A r \in 0 .. Cardinality(NotNil(entries)) - 1 : \E i \in NotNil(entries) : Rank(v, entries, i) = r
         /\ \A i, j \in NotNil(entries) : Before(v, entries, i, j) => Rank(v, entries, i) < Rank(v, entries, j)
<1> DEFINE N == NotNil(entries)
           n == Cardinality(N)
           Preds(i) == {j \in N : Before(v, entries, j, i)}
           T == 0 .. n - 1
           f == [i \in N |-> Rank(v, entries, i)]
<1>1. IsFiniteSet(N) /\ N \in SUBSET Nat /\ n \in Nat /\ \A i \in N : entries[i][1] \in Seq(Int)
  BY FS_CardinalityType DEF NotNil
<1>2. \A i \in N : Rank(v, entries, i) = Cardinality(Preds(i))
  BY DEF Rank
<1>3. \A i \in N : ~Before(v, entries, i, i)
  <2> HIDE DEF N
  <2> QED BY <1>1, BeforeOrders
<1>4. \A i, j \in N : i # j => Before(v, entries, i, j) \/ Before(v, entries, j, i)
  <2> HIDE DEF N
  <2> QED BY <1>1, BeforeOrders
<1>5. \A i, j, k \in N : Before(v, entries, i, j) /\ Before(v, entries, j, k) => Before(v, entries, i, k)
  <2> HIDE DEF N
  <2> QED BY <1>1, BeforeOrders
<1> HIDE DEF N
<1>6. ASSUME NEW i \in N
      PROVE  IsFiniteSet(Preds(i)) /\ Cardinality(Preds(i)) \in Nat /\ Cardinality(Preds(i)) < n
  <2>1. Preds(i) \in SUBSET N /\ Preds(i) # N
    BY <1>3
  <2> DEFINE P == Preds(i)
  <2>2. P \in SUBSET N /\ P # N
    BY <2>1
  <2> HIDE DEF P
  <2>3. IsFiniteSet(P) /\ Cardinality(P) <= n /\ Cardinality(P) # n
    BY <1>1, <2>2, FS_Subset
  <2>4. Cardinality(P) \in Nat
    BY <2>3, FS_CardinalityType
  <2> QED BY <1>1, <2>3, <2>4 DEF P
<1>7. ASSUME NEW i \in N, NEW j \in N, Before(v, entries, i, j)
      PROVE  Rank(v, entries, i) < Rank(v, entries, j)
  <2> DEFINE P == Preds(i)
             Q == Preds(j)
  <2>1. P \in SUBSET Q
    BY <1>5, <1>7
  <2>2. i \in Q /\ i \notin P
    BY <1>3, <1>7
  <2>3. IsFiniteSet(Q) /\ Cardinality(Q) \in Nat /\ Cardinality(P) \in Nat
    BY <1>6
  <2>4. Rank(v, entries, i) = Cardinality(P) /\ Rank(v, entries, j) = Cardinality(Q)
    BY <1>2
  <2> HIDE DEF P, Q
  <2>5. Cardinality(P) <= Cardinality(Q) /\ Cardinality(P) # Cardinality(Q)
    BY <2>1, <2>2, <2>3, FS_Subset
  <2> QED BY <2>3, <2>4, <2>5
<1>8. f \in Injection(N, T)
  <2>1. f \in [N -> T]
    <3>1. ASSUME NEW i \in N PROVE Rank(v, entries, i) \in T
      <4> DEFINE c == Cardinality(Preds(i))
      <4>1. c \in Nat /\ c < n /\ Rank(v, entries, i) = c
        BY <1>2, <1>6
      <4> HIDE DEF c
      <4> QED BY <1>1, <4>1
    <3> QED BY <3>1
  <2>2. \A i, j \in N : f[i] = f[j] => i = j
    <3> SUFFICES ASSUME NEW i \in N, NEW j \in N, i # j PROVE f[i] # f[j]
      OBVIOUS
    <3>1. Before(v, entries, i, j) \/ Before(v, entries, j, i)
      BY <1>4
    <3>2. Rank(v, entries, i) \in Nat /\ Rank(v, entries, j) \in Nat
      BY <1>2, <1>6
    <3> QED BY <1>7, <3>1, <3>2
  <2> QED BY <2>1, <2>2 DEF Injection, IsInjective
<1>9. IsFiniteSet(T) /\ Cardinality(T) = n
  BY <1>1, FS_Interval
<1>10. f \in Surjection(N, T)
  <2> HIDE DEF f, T, n
  <2> QED BY <1>8, <1>9, FS_Injection DEF n
<1>11. \A r \in T : \E i \in N : Rank(v, entries, i) = r
  <2>1. \A r \in T : \E i \in N : f[i] = r
    BY <1>10 DEF Surjection
  <2> QED BY <2>1
<1> QED BY <1>1, <1>7, <1>11 DEF N

\* Dropping nils and sorting: Normal is the sequence of the entries that are not nil,
\* each key with its value, a dictionary's in ascending order.
LEMMA NormalKeeps ==
  ASSUME NEW v, NEW S, NEW entries \in Seq(Seq(Int) \X S)
  PROVE  /\ Normal(v, entries) \in Seq(Seq(Int) \X (S \ {Nil}))
         /\ \A p \in DOMAIN Normal(v, entries) : \E i \in DOMAIN entries : Normal(v, entries)[p] = entries[i]
         /\ \A i \in NotNil(entries) : \E p \in DOMAIN Normal(v, entries) : Normal(v, entries)[p] = entries[i]
         /\ \A p, q \in DOMAIN Normal(v, entries) :
              v.kind = "dict" /\ p < q => ~KeyLess(Normal(v, entries)[q][1], Normal(v, entries)[p][1])
<1> DEFINE N == NotNil(entries)
           n == Cardinality(N)
           Place(p) == CHOOSE i \in N : Rank(v, entries, i) = p - 1
           e == Normal(v, entries)
<1>1. DOMAIN entries = 1 .. Len(entries) /\ Len(entries) \in Nat
  OBVIOUS
<1>2. /\ N \in SUBSET (1 .. Len(entries))
      /\ \A i \in N : entries[i] \in Seq(Int) \X (S \ {Nil}) /\ entries[i][1] \in Seq(Int)
  BY DEF NotNil
<1>3. IsFiniteSet(N)
  <2>1. IsFiniteSet(1 .. Len(entries))
    BY <1>1, FS_Interval
  <2> HIDE DEF N
  <2> QED BY <2>1, <1>2, FS_Subset
<1>4. /\ n \in Nat /\ \A r \in 0 .. n - 1 : \E i \in N : Rank(v, entries, i) = r
      /\ \A i, j \in N : Before(v, entries, i, j) => Rank(v, entries, i) < Rank(v, entries, j)
  <2>1. DOMAIN entries \in SUBSET Nat
    BY <1>1
  <2>2. \A i \in N : entries[i][1] \in Seq(Int)
    BY <1>2
  <2> QED BY <1>3, <2>1, <2>2, RanksMeetAll
<1>5. e = [p \in 1 .. n |-> entries[Place(p)]]
  BY DEF Normal
<1> HIDE DEF N, n
<1>6. ASSUME NEW p \in 1 .. n
      PROVE  Place(p) \in N /\ Rank(v, entries, Place(p)) = p - 1
  <2>1. p - 1 \in 0 .. n - 1
    BY <1>4
  <2>2. \E i \in N : Rank(v, entries, i) = p - 1
    BY <2>1, <1>4
  <2> QED BY <2>2
<1> HIDE DEF Place, e
<1>7. e \in Seq(Seq(Int) \X (S \ {Nil})) /\ DOMAIN e = 1 .. n
  <2> DEFINE U == Seq(Int) \X (S \ {Nil})
  <2>1. \A p \in 1 .. n : entries[Place(p)] \in U
    BY <1>2, <1>6
  <2> HIDE DEF U
  <2>2. e \in [1 .. n -> U]
    BY <1>5, <2>1
  <2>3. e \in Seq(U) /\ DOMAIN e = 1 .. n
    BY <2>2, <1>4
  <2> QED BY <2>3 DEF U
<1>8. \A p \in 1 .. n : \E i \in DOMAIN entries : e[p] = entries[i]
  BY <1>1, <1>2, <1>5, <1>6
<1>9. ASSUME NEW i \in N PROVE \E p \in 1 .. n : e[p] = entries[i]
  <2> DEFINE r == Rank(v, entries, i)
             P == {j \in N : Before(v, entries, j, i)}
  <2>1. P \in SUBSET N
    OBVIOUS
  <2>2. i \notin P
    <3>1. ~Before(v, entries, i, i)
      <4>1. N \in SUBSET Nat /\ \A j \in N : entries[j][1] \in Seq(Int)
        BY <1>1, <1>2
      <4> QED BY <4>1, BeforeOrders
    <3> QED BY <3>1
  <2>3. r = Cardinality(P)
    BY DEF Rank, N
  <2> HIDE DEF P, r
  <2>4. IsFiniteSet(P) /\ Cardinality(P) <= n /\ Cardinality(P) # n /\ Cardinality(P) \in Nat
    BY <2>1, <2>2, <1>3, FS_Subset, FS_CardinalityType DEF n
  <2>5. r \in 0 .. n - 1 /\ r + 1 \in 1 .. n /\ (r + 1) - 1 = r
    BY <2>3, <2>4, <1>4
  <2>6. Place(r + 1) \in N /\ Rank(v, entries, Place(r + 1)) = r
    BY <2>5, <1>6
  <2>7. Place(r + 1) = i
    <3>1. ASSUME NEW j \in N, j # i PROVE Rank(v, entries, j) # Rank(v, entries, i)
      <4>1. Before(v, entries, j, i) \/ Before(v, entries, i, j)
        <5>1. N \in SUBSET Nat /\ \A k \in N : entries[k][1] \in Seq(Int)
          BY <1>1, <1>2
        <5> QED BY <5>1, <3>1, BeforeOrders
      <4>2. Rank(v, entries, i) \in Nat
        BY <2>3, <2>4 DEF r
      <4>3. Rank(v, entries, j) < Rank(v, entries, i) \/ Rank(v, entries, i) < Rank(v, entries, j)
        BY <4>1, <1>4
      <4>4. \A a \in Nat : \A b : a < b \/ b < a => a # b
        OBVIOUS
      <4> QED BY <4>2, <4>3, <4>4
    <3> QED BY <3>1, <2>6 DEF r
  <2> QED BY <2>5, <2>7, <1>5
<1>10. ASSUME NEW p \in 1 .. n, NEW q \in 1 .. n, v.kind = "dict", p < q
       PROVE  ~KeyLess(e[q][1], e[p][1])
  <2> SUFFICES ASSUME KeyLess(e[q][1], e[p][1]) PROVE FALSE
    OBVIOUS
  <2> DEFINE i == Place(p)
             j == Place(q)
  <2>1. i \in N /\ j \in N /\ Rank(v, entries, i) = p - 1 /\ Rank(v, entries, j) = q - 1
    BY <1>6
  <2>2. e[p] = entries[i] /\ e[q] = entries[j]
    BY <1>5
  <2> HIDE DEF i, j
  <2>3. entries[j][1] \in Seq(Int) /\ KeyLess(entries[j][1], entries[i][1])
    BY <2>1, <2>2, <1>2
  <2>4. entries[i][1] # entries[j][1]
    BY <2>3, KeysOrdered
  <2>5. Before(v, entries, j, i)
    BY <2>3, <2>4, <1>10 DEF Before
  <2>6. Rank(v, entries, j) < Rank(v, entries, i)
    BY <2>1, <2>5, <1>4
  <2> QED BY <2>1, <2>6, <1>10, <1>4
<1> QED BY <1>7, <1>8, <1>9, <1>10 DEF e, N

--------------------------------------------------------------------------------
\* A value is found once it is recorded, and stays found.
LEMMA AddFinds ==
  ASSUME NEW v, Add(v)
  PROVE  /\ Found(v)' /\ \A w : Found(w) => Found(w)'
         /\ objtable' = Append(objtable, v)
<1>1. CASE v.kind = "string"
  <2>1. DOMAIN strmap' = DOMAIN strmap \cup {v.data} /\ objmap' = objmap
    BY <1>1 DEF Add, AddNumbered, Put
  <2> QED BY <1>1, <2>1 DEF Found, Add, AddNumbered
<1>2. CASE v.kind # "string"
  <2>1. DOMAIN objmap' = DOMAIN objmap \cup {Hash(v)} /\ strmap' = strmap
    BY <1>2 DEF Add, AddNumbered, Put
  <2> QED BY <1>2, <2>1 DEF Found, Add, AddNumbered
<1> QED BY <1>1, <1>2

LEMMA SeenFound ==
  ASSUME NEW v, Seen(v)
  PROVE  Found(v)
BY DEF Seen, Found

\* The values that are visited: keys, and what is not nil of what was written.
LEMMA Keys ==
  ASSUME NEW chars \in Seq(Int)
  PROVE  Str(chars) \in Flat
<1>1. chars \in Seq(Int \cup Nodes)
  OBVIOUS
<1> QED BY <1>1 DEF Str, Flat, Values, Scalars, IsContainer

LEMMA NodeOf ==
  ASSUME NEW v \in Flat, IsContainer(v)
  PROVE  v.data[1] \in Nodes
<1>1. PICK m \in Nodes : v.data = <<m>>
  BY DEF Flat, Values
<1> QED BY <1>1

LEMMA OneType ==
  ASSUME given \in Plists, NEW v \in Flat, NEW w \in Flat, IsContainer(v), IsContainer(w),
         v.data[1] = w.data[1]
  PROVE  v = w
<1>1. /\ v \in In(given) /\ w \in In(given)
      /\ \E node \in Nodes : v.data = <<node>>
      /\ \E node \in Nodes : w.data = <<node>>
  BY DEF Flat, Values
<1>2. v.data = w.data
  BY <1>1
<1> QED BY <1>1, <1>2, PlistsAssumption

\* Visiting a value that is recorded, or recording one that is not a container.
LEMMA VisitStep ==
  ASSUME Flattening, NEW v, work # << >>, v = Head(work), work' = Tail(work),
         UNCHANGED <<given, heap, fileVars>>, Found(v)', \A w : Found(w) => Found(w)',
         objtable' = objtable \/ (objtable' = Append(objtable, v) /\ ~IsContainer(v))
  PROVE  Flattening'
<1>1. Flat' = Flat
  BY DEF Flat, In
<1>2. HeapRight'
  BY <1>1 DEF Flattening, HeapRight
<1>3. /\ work \in Seq(Flat) /\ objtable \in Seq(Flat)
      /\ v \in Flat /\ Tail(work) \in Seq(Flat)
      /\ Range(work) = {v} \cup Range(Tail(work))
  <2>1. work \in Seq(Flat) /\ objtable \in Seq(Flat)
    BY DEF Flattening, WorkRight
  <2> QED BY <2>1, HeadAndTail
<1>4. WorkRight'
  BY <1>1, <1>3 DEF WorkRight
<1>5. ASSUME NEW w, Awaited(w) PROVE Awaited(w)'
  <2>1. CASE Found(w) \/ w = v
    BY <2>1 DEF Awaited
  <2>2. CASE w \in Range(Tail(work))
    <3>1. Range(work)' = Range(Tail(work))
      BY DEF Range
    <3> QED BY <2>2, <3>1 DEF Awaited
  <2> QED BY <1>3, <1>5, <2>1, <2>2 DEF Awaited
<1>6. ASSUME NEW w, Complete(w) PROVE Complete(w)'
  BY <1>5, <1>6 DEF Complete
<1>7. AllAwaited'
  <2> SUFFICES ASSUME NEW w \in Range(objtable') PROVE Complete(w)'
    BY DEF AllAwaited, Range
  <2>1. CASE w \in Range(objtable)
    BY <2>1, <1>6 DEF Flattening, AllAwaited
  <2>2. CASE ~IsContainer(w)
    BY <2>2 DEF Complete
  <2>3. w \in Range(objtable) \/ ~IsContainer(w)
    <3>1. Range(Append(objtable, v)) = Range(objtable) \cup {v}
      BY <1>3, RangeOfAppend
    <3> QED BY <3>1
  <2> QED BY <2>1, <2>2, <2>3
<1>8. PcRight'
  <2>1. pc' = pc /\ offtable' = offtable /\ out' = out /\ (work = << >> => work' = << >>)
    BY DEF fileVars
  <2> QED BY <2>1 DEF Flattening, PcRight
<1> QED BY <1>2, <1>4, <1>7, <1>8 DEF Flattening

\* What flattenPlistValue visits of a container: its keys and its members.
LEMMA KeysAndMembers ==
  ASSUME NEW v, NEW T, NEW entries \in Seq(Seq(Int) \X T), \A chars \in Seq(Int) : Str(chars) \in T,
         v.kind \in {"dict", "array"}
  PROVE  /\ KeysOf(v, entries) \in Seq(T) /\ Members(entries) \in Seq(T)
         /\ \A i \in DOMAIN entries : /\ entries[i][2] \in Range(Members(entries))
                                      /\ v.kind = "dict" => Str(entries[i][1]) \in Range(KeysOf(v, entries))
<1> DEFINE n == Len(entries)
<1>1. /\ DOMAIN entries = 1 .. n /\ n \in Nat
      /\ \A i \in 1 .. n : entries[i][1] \in Seq(Int) /\ entries[i][2] \in T
  OBVIOUS
<1> HIDE DEF n
<1>2. Members(entries) = [i \in 1 .. n |-> entries[i][2]]
  BY <1>1 DEF Members
<1>3. KeysOf(v, entries) = IF v.kind = "dict" THEN [i \in 1 .. n |-> Str(entries[i][1])] ELSE << >>
  BY <1>1 DEF KeysOf
<1>4. Members(entries) \in Seq(T)
  BY <1>1, <1>2
<1>5. KeysOf(v, entries) \in Seq(T)
  <2>1. CASE v.kind = "dict"
    <3> DEFINE k == [i \in 1 .. n |-> Str(entries[i][1])]
    <3>1. k \in [1 .. n -> T]
      BY <1>1
    <3> HIDE DEF k
    <3>2. k \in Seq(T)
      BY <3>1, <1>1
    <3> QED BY <2>1, <1>3, <3>2 DEF k
  <2>2. CASE v.kind # "dict"
    BY <2>2, <1>3
  <2> QED BY <2>1, <2>2
<1>6. \A i \in 1 .. n : entries[i][2] \in Range(Members(entries))
  BY <1>2 DEF Range
<1>7. \A i \in 1 .. n : v.kind = "dict" => Str(entries[i][1]) \in Range(KeysOf(v, entries))
  BY <1>3 DEF Range
<1>8. DOMAIN entries = 1 .. n
  BY <1>1
<1> QED BY ONLY <1>4, <1>5, <1>6, <1>7, <1>8

\* Recording a container: its own entries are all to be visited, and no other
\* container in the table has its node.
LEMMA ContainerStep ==
  ASSUME Flattening, NEW v, work # << >>, v = Head(work), IsContainer(v), Add(v),
         NEW node, node = v.data[1], NEW entries, entries = Normal(v, heap[node]),
         heap' = [heap EXCEPT ![node] = entries],
         work' = KeysOf(v, entries) \o Members(entries) \o Tail(work),
         UNCHANGED <<given, fileVars>>
  PROVE  Flattening'
<1>1. Flat' = Flat
  BY DEF Flat, In
<1>2. /\ work \in Seq(Flat) /\ objtable \in Seq(Flat)
      /\ v \in Flat /\ Tail(work) \in Seq(Flat)
      /\ Range(work) = {v} \cup Range(Tail(work))
  <2>1. work \in Seq(Flat) /\ objtable \in Seq(Flat)
    BY DEF Flattening, WorkRight
  <2> QED BY <2>1, HeadAndTail
<1>3. given \in Plists /\ heap \in [Nodes -> Seq(Seq(Int) \X (Flat \cup {Nil}))]
  BY DEF Flattening, HeapRight
<1>4. node \in Nodes
  BY <1>2, NodeOf
<1>5. entries \in Seq(Seq(Int) \X Flat)
  <2> DEFINE T == Flat \cup {Nil}
  <2>1. heap[node] \in Seq(Seq(Int) \X T)
    BY <1>3, <1>4
  <2> HIDE DEF T
  <2>2. entries \in Seq(Seq(Int) \X (T \ {Nil}))
    BY <2>1, NormalKeeps
  <2>3. T \ {Nil} \subseteq Flat
    BY DEF T
  <2>4. Seq(Int) \X (T \ {Nil}) \subseteq Seq(Int) \X Flat
    BY <2>3
  <2> QED BY <2>2, <2>4, WiderSeq
<1>6. /\ KeysOf(v, entries) \in Seq(Flat) /\ Members(entries) \in Seq(Flat)
      /\ \A i \in DOMAIN entries : /\ entries[i][2] \in Range(Members(entries))
                                   /\ v.kind = "dict" => Str(entries[i][1]) \in Range(KeysOf(v, entries))
  <2>1. \A chars \in Seq(Int) : Str(chars) \in Flat
    BY Keys
  <2> DEFINE T == Flat
  <2>2. entries \in Seq(Seq(Int) \X T) /\ \A chars \in Seq(Int) : Str(chars) \in T
    BY <1>5, <2>1
  <2>3. v.kind \in {"dict", "array"}
    BY DEF IsContainer
  <2> HIDE DEF T
  <2>4. /\ KeysOf(v, entries) \in Seq(T) /\ Members(entries) \in Seq(T)
        /\ \A i \in DOMAIN entries : /\ entries[i][2] \in Range(Members(entries))
                                     /\ v.kind = "dict" => Str(entries[i][1]) \in Range(KeysOf(v, entries))
    BY <2>2, <2>3, KeysAndMembers
  <2> QED BY <2>4 DEF T
<1>7. /\ work' \in Seq(Flat)
      /\ Range(work') = Range(KeysOf(v, entries)) \cup Range(Members(entries)) \cup Range(Tail(work))
  <2> DEFINE k == KeysOf(v, entries)
             m == Members(entries)
             t == Tail(work)
  <2>1. k \in Seq(Flat) /\ m \in Seq(Flat) /\ t \in Seq(Flat) /\ work' = (k \o m) \o t
    BY <1>2, <1>6
  <2> HIDE DEF k, m, t
  <2>2. k \o m \in Seq(Flat) /\ Range(k \o m) = Range(k) \cup Range(m)
    BY ONLY <2>1, RangeOfBoth
  <2> DEFINE u == k \o m
  <2>3. u \in Seq(Flat) /\ Range(u) = Range(k) \cup Range(m) /\ work' = u \o t
    BY <2>1, <2>2
  <2> HIDE DEF u
  <2>4. u \o t \in Seq(Flat) /\ Range(u \o t) = Range(u) \cup Range(t)
    BY ONLY <2>1, <2>3, RangeOfBoth
  <2> QED BY <2>3, <2>4 DEF k, m, t
<1>8. Found(v)' /\ (\A w : Found(w) => Found(w)') /\ objtable' = Append(objtable, v)
  BY AddFinds
<1>9. HeapRight'
  <2>1. entries \in Seq(Seq(Int) \X (Flat \cup {Nil}))
    <3>1. Seq(Int) \X Flat \subseteq Seq(Int) \X (Flat \cup {Nil})
      OBVIOUS
    <3> DEFINE A == Seq(Int) \X Flat
               B == Seq(Int) \X (Flat \cup {Nil})
    <3>2. A \subseteq B /\ entries \in Seq(A)
      BY <1>5, <3>1
    <3> HIDE DEF A, B
    <3>3. entries \in Seq(B)
      BY ONLY <3>2, WiderSeq
    <3> QED BY <3>3 DEF B
  <2>2. heap' \in [Nodes -> Seq(Seq(Int) \X (Flat \cup {Nil}))]
    BY <1>3, <1>4, <2>1
  <2> QED BY <1>1, <1>3, <2>2 DEF HeapRight
<1>10. WorkRight'
  <2>1. objtable' \in Seq(Flat \cup {v}) /\ Flat \cup {v} = Flat
    BY <1>2, <1>8, Pushed
  <2> QED BY <1>1, <1>7, <2>1 DEF WorkRight
<1>11. ASSUME NEW w, Awaited(w) PROVE Awaited(w)'
  <2>1. Range(work)' = Range(work')
    BY DEF Range
  <2>2. CASE Found(w) \/ w = v
    BY <2>2, <1>8 DEF Awaited
  <2>3. CASE w \in Range(Tail(work))
    BY <1>7, <2>1, <2>3 DEF Awaited
  <2> QED BY <1>2, <1>11, <2>2, <2>3 DEF Awaited
<1>12. ASSUME NEW w \in Flat, IsContainer(w), w.data[1] = node
       PROVE  Complete(w)'
  <2>1. w = v
    BY <1>2, <1>3, <1>12, OneType
  <2>2. heap'[w.data[1]] = entries
    BY <1>3, <1>4, <1>12
  <2>3. Range(work)' = Range(work')
    BY DEF Range
  <2>4. \A i \in DOMAIN entries : Awaited(entries[i][2])' /\ (w.kind = "dict" => Awaited(Str(entries[i][1]))')
    BY <1>6, <1>7, <2>1, <2>3 DEF Awaited
  <2>5. Sorted(w, entries)
    <3> DEFINE T == Flat \cup {Nil}
    <3>1. heap[node] \in Seq(Seq(Int) \X T)
      BY <1>3, <1>4
    <3> HIDE DEF T
    <3> DEFINE before == heap[node]
    <3>2. before \in Seq(Seq(Int) \X T) /\ entries = Normal(v, before)
      BY <3>1
    <3> HIDE DEF before
    <3>3. \A p, q \in DOMAIN Normal(v, before) :
            v.kind = "dict" /\ p < q => ~KeyLess(Normal(v, before)[q][1], Normal(v, before)[p][1])
      BY ONLY <3>2, NormalKeeps
    <3>4. Sorted(v, Normal(v, before))
      BY <3>3 DEF Sorted
    <3> QED BY <2>1, <3>2, <3>4
  <2> QED BY <2>2, <2>4, <2>5 DEF Complete
<1>13. ASSUME NEW w \in Flat, IsContainer(w), w.data[1] # node, Complete(w)
       PROVE  Complete(w)'
  <2>1. heap'[w.data[1]] = heap[w.data[1]]
    <3> DEFINE m == w.data[1]
    <3>2. m \in Nodes /\ m # node
      BY <1>13, NodeOf
    <3> HIDE DEF m
    <3>3. heap'[m] = heap[m]
      BY <3>2, <1>3
    <3> QED BY <3>3 DEF m
  <2> QED BY <2>1, <1>11, <1>13 DEF Complete
<1>14. AllAwaited'
  <2> SUFFICES ASSUME NEW w \in Range(objtable'), IsContainer(w) PROVE Complete(w)'
    BY DEF AllAwaited, Complete, Range
  <2>1. w \in Range(objtable) \/ w = v
    <3>1. Range(Append(objtable, v)) = Range(objtable) \cup {v}
      BY <1>2, RangeOfAppend
    <3> QED BY <3>1, <1>8
  <2>2. w \in Flat
    <3>1. Range(objtable) \subseteq Flat
      BY <1>2, RangeWithin
    <3> QED BY <2>1, <3>1, <1>2
  <2>3. CASE w.data[1] = node
    BY <2>2, <2>3, <1>12
  <2>4. CASE w.data[1] # node
    <3>1. w \in Range(objtable)
      BY <2>1, <2>4
    <3>2. Complete(w)
      BY <3>1 DEF Flattening, AllAwaited
    <3> QED BY <2>2, <2>4, <3>2, <1>13
  <2> QED BY <2>3, <2>4
<1>15. PcRight'
  <2>1. pc' = pc /\ offtable' = offtable /\ out' = out
    BY DEF fileVars
  <2> QED BY <2>1 DEF Flattening, PcRight
<1> QED BY <1>9, <1>10, <1>14, <1>15 DEF Flattening

\* Writing: nothing that was flattened changes, and every lookup succeeds.
LEMMA WriteStep ==
  ASSUME Flattening, UNCHANGED buildVars, work = << >>, pc' \in {"objects", "trailer", "done", "failed"}
  PROVE  Flattening'
<1>1. Flat' = Flat
  BY DEF Flat, In, buildVars
<1>2. HeapRight' /\ WorkRight'
  BY <1>1 DEF Flattening, HeapRight, WorkRight, buildVars
<1>3. \A w : Awaited(w) => Awaited(w)'
  <2>1. Range(work)' = Range(work)
    BY DEF Range, buildVars
  <2> QED BY <2>1 DEF Awaited, Found, buildVars
<1>4. AllAwaited'
  <2>1. Range(objtable)' = Range(objtable)
    BY DEF Range, buildVars
  <2>2. heap' = heap
    BY DEF buildVars
  <2>3. \A w : Complete(w) => Complete(w)'
    BY <1>3, <2>2 DEF Complete
  <2> QED BY <2>1, <2>3 DEF Flattening, AllAwaited
<1>5. PcRight'
  <2>1. work' = << >>
    BY DEF buildVars
  <2> QED BY <2>1 DEF PcRight
<1> QED BY <1>2, <1>4, <1>5 DEF Flattening

LEMMA AllIsFound ==
  ASSUME Flattening, pc # "flatten", NEW v \in Range(objtable)
  PROVE  AllFound(v)
<1>1. work = << >> /\ Range(work) = {}
  <2>1. work = << >>
    BY DEF Flattening, PcRight
  <2> QED BY <2>1 DEF Range
<1>2. Complete(v)
  BY DEF Flattening, AllAwaited
<1>3. \A w : Awaited(w) => Found(w)
  BY <1>1 DEF Awaited
<1> QED BY <1>2, <1>3 DEF Complete, AllFound

LEMMA FlatteningInit == Init => Flattening
<1> SUFFICES ASSUME Init PROVE Flattening
  OBVIOUS
<1>1. given \in Plists /\ heap = given.heap /\ work = <<given.root>> /\ objtable = << >> /\ pc = "flatten"
      /\ offtable = << >> /\ out = << >>
  BY DEF Init
<1>2. given.root \in Values /\ given.heap \in [Nodes -> Seq(Seq(Int) \X (Values \cup {Nil}))]
  BY <1>1, PlistsAssumption DEF Entries
<1>3. HeapRight
  <2> SUFFICES ASSUME NEW node \in Nodes PROVE heap[node] \in Seq(Seq(Int) \X (Flat \cup {Nil}))
    BY <1>1, <1>2 DEF HeapRight
  <2> DEFINE entries == given.heap[node]
             V == Values \cup {Nil}
             F == Flat \cup {Nil}
  <2>1. entries \in Seq(Seq(Int) \X V)
    BY <1>2
  <2>2. \A i \in DOMAIN entries : entries[i][2] \in In(given)
    BY DEF In, Range
  <2>3. \A w \in V : w \in In(given) => w \in F
    BY DEF Flat
  <2>4. \A i \in 1 .. Len(entries) : entries[i] \in Seq(Int) \X V /\ i \in DOMAIN entries
    <3> HIDE DEF entries, V
    <3> QED BY <2>1
  <2>5. \A i \in 1 .. Len(entries) : entries[i] \in Seq(Int) \X F
    <3> HIDE DEF entries, V, F
    <3> QED BY <2>2, <2>3, <2>4
  <2>6. entries \in Seq(Seq(Int) \X F)
    <3> DEFINE A == Seq(Int) \X V
               B == Seq(Int) \X F
    <3>1. entries \in Seq(A) /\ \A i \in 1 .. Len(entries) : entries[i] \in B
      BY <2>1, <2>5
    <3> HIDE DEF entries, A, B
    <3>2. entries \in Seq(B)
      BY <3>1
    <3> QED BY <3>2 DEF B
  <2> QED BY <1>1, <2>6
<1>4. WorkRight
  <2>1. given.root \in Flat
    BY <1>2 DEF Flat, In
  <2> QED BY <1>1, <2>1 DEF WorkRight
<1>5. AllAwaited
  BY <1>1 DEF AllAwaited, Range
<1> QED BY <1>1, <1>3, <1>4, <1>5 DEF Flattening, PcRight

LEMMA FlatteningNext == Flattening /\ FileRight /\ [Next]_vars => Flattening'
<1> SUFFICES ASSUME Flattening, FileRight, [Next]_vars PROVE Flattening'
  OBVIOUS
<1> PICK v : v = Head(work)
  OBVIOUS
<1>1. CASE Skip
  <2>1. Found(v)' /\ \A w : Found(w) => Found(w)'
    BY <1>1, SeenFound DEF Skip, Found
  <2>2. /\ work # << >> /\ work' = Tail(work) /\ UNCHANGED <<given, heap, fileVars>>
        /\ objtable' = objtable
    BY <1>1 DEF Skip
  <2> QED BY <2>1, <2>2, VisitStep
<1>2. CASE AddScalar
  <2>1. /\ work # << >> /\ work' = Tail(work) /\ UNCHANGED <<given, heap, fileVars>>
        /\ Add(v) /\ ~IsContainer(v)
    BY <1>2 DEF AddScalar
  <2>2. Found(v)' /\ (\A w : Found(w) => Found(w)') /\ objtable' = Append(objtable, v)
    BY <2>1, AddFinds
  <2> QED BY <2>1, <2>2, VisitStep
<1>3. CASE AddContainer
  <2> PICK node : node = v.data[1]
    OBVIOUS
  <2> PICK entries : entries = Normal(v, heap[node])
    OBVIOUS
  <2>1. /\ work # << >> /\ IsContainer(v) /\ Add(v)
        /\ heap' = [heap EXCEPT ![node] = entries]
        /\ work' = KeysOf(v, entries) \o Members(entries) \o Tail(work)
        /\ UNCHANGED <<given, fileVars>>
    BY <1>3 DEF AddContainer
  <2> QED BY <2>1, ContainerStep
<1>4. CASE WriteHeader
  BY <1>4, WriteStep DEF WriteHeader, Write
<1>5. CASE WriteObject
  <2>1. Pending /\ UNCHANGED buildVars /\ work = << >>
    BY <1>5 DEF WriteObject, WriteObjectFrom, Pending, Flattening, PcRight
  <2>2. objtable[Len(offtable) + 1] \in Range(objtable)
    <3>1. objtable \in Seq(Flat) /\ offtable \in Seq(Nat)
      BY DEF Flattening, WorkRight, FileRight
    <3> QED BY <2>1, <3>1 DEF Pending, Range
  <2>3. AllFound(objtable[Len(offtable) + 1])
    BY <2>1, <2>2, AllIsFound DEF Pending
  <2>4. pc' \in {"objects", "failed"}
    BY <1>5, <2>3 DEF WriteObject, WriteObjectFrom, Write
  <2> QED BY <2>1, <2>4, WriteStep
<1>6. CASE WriteOffsetTable
  <2>1. UNCHANGED buildVars /\ work = << >> /\ pc' \in {"trailer", "failed"}
    BY <1>6 DEF WriteOffsetTable, Write, Flattening, PcRight
  <2> QED BY <2>1, WriteStep
<1>7. CASE WriteTrailer
  <2>1. UNCHANGED buildVars /\ work = << >> /\ pc' \in {"done", "failed"}
    BY <1>7 DEF WriteTrailer, Flattening, PcRight
  <2> QED BY <2>1, WriteStep
<1>8. CASE Done \/ UNCHANGED vars
  <2>1. UNCHANGED vars
    BY <1>8 DEF Done
  <2>2. Range(work)' = Range(work) /\ Range(objtable)' = Range(objtable)
    BY <2>1 DEF Range, vars, buildVars
  <2> QED BY <2>1, <2>2 DEF vars, buildVars, fileVars, Flattening, HeapRight, WorkRight, AllAwaited, PcRight,
       Flat, In, Complete, Awaited, Found
<1> QED BY <1>1, <1>2, <1>3, <1>4, <1>5, <1>6, <1>7, <1>8 DEF Next

--------------------------------------------------------------------------------
\* A marker cell, or what begins with one, and anything after it.
LEMMA MarkedThen ==
  ASSUME NEW tag, NEW s, Marked(s, tag), NEW t, t \in Seq(Range(t))
  PROVE  Marked(s \o t, tag)
<1>1. s \in Seq(Range(s)) /\ Len(s) \in Nat \ {0} /\ s[1].tag = tag
  BY DEF Marked
<1>2. /\ s \o t \in Seq(Range(s \o t)) /\ Len(t) \in Nat /\ Len(s \o t) = Len(s) + Len(t)
      /\ \A i \in 1 .. Len(s) : (s \o t)[i] = s[i]
  BY <1>1, Concatenated
<1>3. (s \o t)[1] = s[1]
  BY <1>1, <1>2
<1>4. Len(s \o t) \in Nat \ {0}
  BY <1>1, <1>2
<1> QED BY <1>1, <1>2, <1>3, <1>4 DEF Marked

LEMMA CellMarks ==
  ASSUME NEW tag, NEW low
  PROVE  Marked(<<Cell(tag, low)>>, tag)
<1>1. Cell(tag, low).tag = tag
  BY DEF Cell
<1> DEFINE c == Cell(tag, low)
<1>2. c.tag = tag
  BY <1>1
<1> HIDE DEF c
<1>3. Marked(<<c>>, tag)
  BY <1>2, Single DEF Marked
<1> QED BY <1>3 DEF c

LEMMA Widths ==
  ASSUME NEW n, NEW signed
  PROVE  MinimumIntSize(n) \in Nat \ {0} /\ IntWidth(signed, n) \in Nat \ {0}
<1>1. MinimumIntSize(n) \in {1, 2, 4, 8}
  BY DEF MinimumIntSize
<1>2. IntWidth(signed, n) \in {16, MinimumIntSize(n)}
  BY DEF IntWidth
<1> QED BY <1>1, <1>2

LEMMA SizedIsSeq ==
  ASSUME NEW n, NEW size \in Nat
  PROVE  SizedInt(n, size) \in Seq(Range(SizedInt(n, size))) /\ Len(SizedInt(n, size)) = size
<1> DEFINE s == SizedInt(n, size)
<1>1. s = [j \in 1 .. size |-> s[j]]
  BY DEF SizedInt
<1> HIDE DEF s
<1>2. s \in Seq(Range(s)) /\ Len(s) = size
  BY <1>1, FromFunction
<1> QED BY <1>2 DEF s

LEMMA IntMarks ==
  ASSUME NEW signed, NEW n
  PROVE  Marked(IntTag(signed, n), "integer")
<1>1. IntWidth(signed, n) \in Nat
  BY Widths
<1>2. Marked(<<Cell("integer", IntWidth(signed, n))>>, "integer")
  BY CellMarks
<1>3. SizedInt(n, IntWidth(signed, n)) \in Seq(Range(SizedInt(n, IntWidth(signed, n))))
  BY <1>1, SizedIsSeq
<1> QED BY <1>2, <1>3, MarkedThen DEF IntTag

LEMMA CountedMarks ==
  ASSUME NEW tag, NEW count
  PROVE  Marked(CountedTag(tag, count), tag)
<1>1. Marked(<<Cell(tag, CountMask)>>, tag) /\ Marked(<<Cell(tag, count)>>, tag)
  BY CellMarks
<1>2. IntTag(FALSE, count) \in Seq(Range(IntTag(FALSE, count)))
  BY IntMarks DEF Marked
<1>3. Marked(<<Cell(tag, CountMask)>> \o IntTag(FALSE, count), tag)
  BY <1>1, <1>2, MarkedThen
<1> QED BY <1>1, <1>3 DEF CountedTag

\* The content after a marker is a sequence.
LEMMA TextIsSeq ==
  ASSUME NEW tag, NEW T, NEW codes \in Seq(T)
  PROVE  Text(tag, codes) \in Seq(Range(Text(tag, codes)))
<1> DEFINE s == Text(tag, codes)
           n == Len(codes)
<1>1. n \in Nat /\ s = [i \in 1 .. n |-> s[i]]
  BY DEF Text
<1> HIDE DEF s, n
<1>2. s \in Seq(Range(s))
  BY <1>1, FromFunction
<1> QED BY <1>2 DEF s

LEMMA EncodeIsSeq ==
  ASSUME NEW T, NEW chars \in Seq(T)
  PROVE  Encode(chars) \in Seq(Range(Encode(chars)))
<1> DEFINE f == [i \in DOMAIN chars |->
                   IF chars[i] > MaxBMP THEN <<High(chars[i]), Low(chars[i])>> ELSE <<chars[i]>>]
           n == Len(chars)
<1>1. n \in Nat /\ f = [i \in 1 .. n |-> f[i]]
  OBVIOUS
<1>2. \A i \in 1 .. n : f[i] \in Seq(Range(f[i]))
  <2> SUFFICES ASSUME NEW i \in 1 .. n PROVE f[i] \in Seq(Range(f[i]))
    OBVIOUS
  <2> DEFINE high == High(chars[i])
             low == Low(chars[i])
             c == chars[i]
  <2>1. f[i] = <<high, low>> \/ f[i] = <<c>>
    OBVIOUS
  <2> HIDE DEF f, high, low, c
  <2>2. CASE f[i] = <<high, low>>
    BY <2>2, Pair
  <2>3. CASE f[i] = <<c>>
    BY <2>3, Single
  <2> QED BY <2>1, <2>2, <2>3
<1>3. Encode(chars) = FlattenSeq(f)
  BY DEF Encode
<1> HIDE DEF f, n
<1>4. f \in Seq(Range(f)) /\ Len(f) = n
  BY <1>1, FromFunction
<1> QED BY <1>2, <1>3, <1>4, Flattened

LEMMA UnitsIsSeq ==
  ASSUME NEW T, NEW codes \in Seq(T)
  PROVE  Units(codes) \in Seq(Range(Units(codes)))
<1> DEFINE f == [i \in DOMAIN codes |-> <<Cell("high", codes[i]), Cell("low", codes[i])>>]
           n == Len(codes)
<1>1. n \in Nat /\ f = [i \in 1 .. n |-> f[i]]
  OBVIOUS
<1>2. \A i \in 1 .. n : f[i] \in Seq(Range(f[i]))
  <2> SUFFICES ASSUME NEW i \in 1 .. n PROVE f[i] \in Seq(Range(f[i]))
    OBVIOUS
  <2> DEFINE high == Cell("high", codes[i])
             low == Cell("low", codes[i])
  <2>1. f[i] = <<high, low>>
    OBVIOUS
  <2> HIDE DEF f, high, low
  <2> QED BY <2>1, Pair
<1>3. Units(codes) = FlattenSeq(f)
  BY DEF Units
<1> HIDE DEF f, n
<1>4. f \in Seq(Range(f)) /\ Len(f) = n
  BY <1>1, FromFunction
<1> QED BY <1>2, <1>3, <1>4, Flattened

LEMMA FloatMarks ==
  ASSUME NEW tag, NEW size \in Nat, NEW bits
  PROVE  Marked(FloatTag(tag, size, bits), tag)
<1> DEFINE s == [j \in 1 .. size |-> Cell("float", bits)]
<1>1. s = [j \in 1 .. size |-> s[j]]
  OBVIOUS
<1>2. Marked(<<Cell(tag, size)>>, tag) /\ FloatTag(tag, size, bits) = <<Cell(tag, size)>> \o s
  BY CellMarks DEF FloatTag
<1> HIDE DEF s
<1>3. s \in Seq(Range(s))
  BY <1>1, FromFunction
<1> QED BY <1>2, <1>3, MarkedThen

--------------------------------------------------------------------------------
\* Every object is written with the marker of its kind first.
LEMMA ScalarMarks ==
  ASSUME NEW v \in Values, ~IsContainer(v)
  PROVE  Marked(ScalarTag(v), Marker(v))
<1>1. v.kind \in Scalars /\ v.data \in Seq(Int \cup Nodes)
  BY DEF Values, IsContainer
<1>2. CASE v.kind = "string"
  <2>1. ScalarTag(v) = StringTag(v.data)
    BY <1>2 DEF ScalarTag
  <2>2. CASE IsASCII(v.data)
    <3>1. StringTag(v.data) = CountedTag("ascii", Len(v.data)) \o Text("char", v.data) /\ Marker(v) = "ascii"
      BY <1>2, <2>2 DEF StringTag, Marker
    <3>2. Marked(CountedTag("ascii", Len(v.data)), "ascii")
      BY CountedMarks
    <3>3. Text("char", v.data) \in Seq(Range(Text("char", v.data)))
      BY <1>1, TextIsSeq
    <3> QED BY <2>1, <3>1, <3>2, <3>3, MarkedThen
  <2>3. CASE ~IsASCII(v.data)
    <3> DEFINE units == Encode(v.data)
    <3>1. StringTag(v.data) = CountedTag("utf16", Len(units)) \o Units(units) /\ Marker(v) = "utf16"
      BY <1>2, <2>3 DEF StringTag, Marker
    <3>2. Marked(CountedTag("utf16", Len(units)), "utf16")
      BY CountedMarks
    <3>3. units \in Seq(Range(units))
      BY <1>1, EncodeIsSeq
    <3> HIDE DEF units
    <3>4. Units(units) \in Seq(Range(Units(units)))
      BY <3>3, UnitsIsSeq
    <3> QED BY <2>1, <3>1, <3>2, <3>4, MarkedThen
  <2> QED BY <2>2, <2>3
<1>3. CASE v.kind = "number"
  <2>1. ScalarTag(v) = IntTag(v.data[1] = 1, v.data[2]) /\ Marker(v) = "integer"
    BY <1>3 DEF ScalarTag, Marker
  <2> QED BY <2>1, IntMarks
<1>4. CASE v.kind = "real"
  <2> DEFINE size == IF v.data[1] = 1 THEN 8 ELSE 4
  <2>1. ScalarTag(v) = FloatTag("real", size, v.data[2]) /\ Marker(v) = "real" /\ size \in Nat
    BY <1>4 DEF ScalarTag, Marker
  <2> HIDE DEF size
  <2> QED BY <2>1, FloatMarks
<1>5. CASE v.kind = "bool"
  <2>1. ScalarTag(v) = <<Cell("bool", v.data[1])>> /\ Marker(v) = "bool"
    BY <1>5 DEF ScalarTag, Marker
  <2> QED BY <2>1, CellMarks
<1>6. CASE v.kind = "data"
  <2>1. ScalarTag(v) = CountedTag("data", Len(v.data)) \o Text("char", v.data) /\ Marker(v) = "data"
    BY <1>6 DEF ScalarTag, Marker, DataTag
  <2>2. Marked(CountedTag("data", Len(v.data)), "data")
    BY CountedMarks
  <2>3. Text("char", v.data) \in Seq(Range(Text("char", v.data)))
    BY <1>1, TextIsSeq
  <2> QED BY <2>1, <2>2, <2>3, MarkedThen
<1>7. CASE v.kind = "date"
  <2>1. ScalarTag(v) = FloatTag("date", 8, Seconds(v.data[1])) /\ Marker(v) = "date"
    BY <1>7 DEF ScalarTag, Marker
  <2> QED BY <2>1, FloatMarks
<1>8. CASE v.kind = "uid"
  <2> DEFINE n == v.data[1]
             w == MinimumIntSize(n)
  <2>1. ScalarTag(v) = <<Cell("uid", w)>> \o SizedInt(n, w) /\ Marker(v) = "uid"
    BY <1>8 DEF ScalarTag, Marker, UIDTag
  <2>2. w \in Nat /\ Marked(<<Cell("uid", w)>>, "uid")
    BY Widths, CellMarks
  <2> HIDE DEF n, w
  <2>3. SizedInt(n, w) \in Seq(Range(SizedInt(n, w)))
    BY <2>2, SizedIsSeq
  <2> QED BY <2>1, <2>2, <2>3, MarkedThen
<1> QED BY <1>1, <1>2, <1>3, <1>4, <1>5, <1>6, <1>7, <1>8 DEF Scalars

LEMMA RefsIsSeq ==
  ASSUME NEW T, NEW vs \in Seq(T), trailer.ObjectRefSize \in Nat
  PROVE  Refs(vs) \in Seq(Range(Refs(vs)))
<1> DEFINE f == [i \in DOMAIN vs |-> SizedInt(IndexFor(vs[i]), trailer.ObjectRefSize)]
           n == Len(vs)
<1>1. n \in Nat /\ f = [i \in 1 .. n |-> f[i]]
  OBVIOUS
<1>2. \A i \in 1 .. n : f[i] \in Seq(Range(f[i]))
  <2> SUFFICES ASSUME NEW i \in 1 .. n PROVE f[i] \in Seq(Range(f[i]))
    OBVIOUS
  <2>1. f[i] = SizedInt(IndexFor(vs[i]), trailer.ObjectRefSize)
    OBVIOUS
  <2> HIDE DEF f
  <2> QED BY <2>1, SizedIsSeq
<1>3. Refs(vs) = FlattenSeq(f)
  BY DEF Refs
<1> HIDE DEF f, n
<1>4. f \in Seq(Range(f)) /\ Len(f) = n
  BY <1>1, FromFunction
<1> QED BY <1>2, <1>3, <1>4, Flattened

LEMMA ContainerMarks ==
  ASSUME Flattening, NEW v \in Flat, IsContainer(v), trailer.ObjectRefSize \in Nat
  PROVE  Marked(ContainerTag(v), Marker(v))
<1> DEFINE entries == heap[v.data[1]]
           T == Flat \cup {Nil}
           vs == KeysOf(v, entries) \o Members(entries)
<1>1. entries \in Seq(Seq(Int) \X T)
  BY NodeOf DEF Flattening, HeapRight
<1>2. (\A chars \in Seq(Int) : Str(chars) \in T) /\ v.kind \in {"dict", "array"}
  BY Keys DEF IsContainer
<1>3. ContainerTag(v) = CountedTag(v.kind, Len(entries)) \o Refs(vs) /\ Marker(v) = v.kind
  BY <1>2 DEF ContainerTag, Marker
<1>4. vs \in Seq(T)
  <2> HIDE DEF T, entries
  <2>1. KeysOf(v, entries) \in Seq(T) /\ Members(entries) \in Seq(T)
    BY <1>1, <1>2, KeysAndMembers
  <2> QED BY <2>1
<1> HIDE DEF vs, entries, T
<1>5. Refs(vs) \in Seq(Range(Refs(vs)))
  BY <1>4, RefsIsSeq
<1>6. Marked(CountedTag(v.kind, Len(entries)), v.kind)
  BY CountedMarks
<1> QED BY <1>3, <1>5, <1>6, MarkedThen

--------------------------------------------------------------------------------
\* What is written after a marker leaves it where it is.
LEMMA MarksStay ==
  ASSUME offtable \in Seq(Nat), out \in Seq(Range(out)), NEW cells, cells \in Seq(Range(cells)),
         NEW i \in DOMAIN offtable, Marks(out, i)
  PROVE  Marks(out \o cells, i)
<1>1. /\ Len(out) \in Nat /\ Len(cells) \in Nat /\ Len(out \o cells) = Len(out) + Len(cells)
      /\ \A j \in 1 .. Len(out) : (out \o cells)[j] = out[j]
  BY Concatenated
<1>2. offtable[i] \in Nat /\ offtable[i] < Len(out)
  BY DEF Marks
<1>3. offtable[i] + 1 \in 1 .. Len(out)
  BY <1>1, <1>2
<1>4. (out \o cells)[offtable[i] + 1] = out[offtable[i] + 1]
  BY <1>1, <1>3
<1>5. offtable[i] < Len(out \o cells)
  BY <1>1, <1>2
<1> QED BY <1>4, <1>5 DEF Marks

LEMMA FlattenFileStep ==
  ASSUME FileRight, Flattening, pc = "flatten", UNCHANGED fileVars, NEW v,
         objtable' = objtable \/ objtable' = Append(objtable, v)
  PROVE  FileRight'
<1>1. offtable = << >> /\ out = << >>
  BY DEF Flattening, PcRight
<1>2. objtable \in Seq(Flat)
  BY DEF Flattening, WorkRight
<1>3. Len(objtable) \in Nat /\ Len(objtable') \in Nat
  <2>1. CASE objtable' = objtable
    BY <1>2, <2>1
  <2>2. CASE objtable' = Append(objtable, v)
    BY <1>2, <2>2, Pushed
  <2> QED BY <2>1, <2>2
<1>4. offtable' = << >> /\ out' = << >> /\ pc' = "flatten" /\ trailer' = trailer
  BY <1>1 DEF fileVars
<1>5. out' \in Seq(Range(out'))
  BY <1>4
<1>6. Range(out)' = Range(out')
  BY DEF Range
<1> QED BY <1>3, <1>4, <1>5, <1>6 DEF FileRight

\* A Write of something that does not begin an object.
LEMMA OtherWrite ==
  ASSUME FileRight, pc # "failed", UNCHANGED <<offtable, objtable>>,
         NEW cells, cells \in Seq(Range(cells)), NEW then, then # "flatten", Write(cells, then),
         then = "objects" => trailer'.ObjectRefSize \in Nat
  PROVE  FileRight'
<1>1. offtable' \in Seq(Nat) /\ Len(offtable') <= Len(objtable')
  BY DEF FileRight
<1>2. out \in Seq(Range(out)) /\ \A i \in DOMAIN offtable : Marks(out, i)
  BY DEF FileRight
<1>3. (pc' = then /\ out' = out \o cells) \/ pc' = "failed"
  BY DEF Write
<1>4. CASE pc' = "failed"
  BY <1>1, <1>4 DEF FileRight
<1>5. CASE pc' = then /\ out' = out \o cells
  <2>1. out' \in Seq(Range(out'))
    BY <1>2, <1>5, Concatenated
  <2>2. \A i \in DOMAIN offtable : Marks(out \o cells, i)
    BY <1>2, MarksStay DEF FileRight
  <2>3. \A i \in DOMAIN offtable' : Marks(out, i)'
    BY <1>5, <2>2 DEF Marks
  <2>4. Range(out)' = Range(out')
    BY DEF Range
  <2> QED BY <1>1, <1>5, <2>1, <2>3, <2>4 DEF FileRight
<1> QED BY <1>3, <1>4, <1>5

\* An object begins where the file ended, and its offset is recorded.
LEMMA ObjectWrite ==
  ASSUME FileRight, pc = "objects", Len(offtable) < Len(objtable), UNCHANGED <<objtable, trailer>>,
         offtable' = Append(offtable, Len(out)),
         NEW cells, Marked(cells, Marker(objtable[Len(offtable) + 1])), Write(cells, "objects")
  PROVE  FileRight'
<1> PICK n : n = Len(offtable)
  OBVIOUS
<1>1. /\ offtable \in Seq(Nat) /\ out \in Seq(Range(out)) /\ \A i \in DOMAIN offtable : Marks(out, i)
      /\ cells \in Seq(Range(cells)) /\ Len(cells) \in Nat \ {0}
  BY DEF FileRight, Marked
<1>2. /\ Len(out) \in Nat /\ Len(out \o cells) = Len(out) + Len(cells)
      /\ \A i \in 1 .. Len(cells) : (out \o cells)[Len(out) + i] = cells[i]
      /\ out \o cells \in Seq(Range(out \o cells))
  BY <1>1, Concatenated
<1>3. /\ offtable' \in Seq(Nat) /\ n \in Nat /\ Len(offtable') = n + 1
      /\ DOMAIN offtable = 1 .. n /\ DOMAIN offtable' = 1 .. n + 1
      /\ \A i \in 1 .. n : offtable'[i] = offtable[i]
      /\ offtable'[n + 1] = Len(out)
  BY <1>1, <1>2
<1>4. Len(offtable') <= Len(objtable')
  BY <1>3
<1>5. CASE pc' = "failed"
  BY <1>3, <1>4, <1>5 DEF FileRight
<1>6. CASE pc' = "objects" /\ out' = out \o cells
  <2>1. ASSUME NEW i \in 1 .. n PROVE Marks(out, i)'
    <3>1. Marks(out \o cells, i)
      BY <1>1, <1>3, MarksStay
    <3> QED BY <1>3, <1>6, <3>1 DEF Marks
  <2>2. Marks(out, n + 1)'
    <3> DEFINE tag == Marker(objtable[n + 1])
    <3>1. Len(out) < Len(out')
      BY <1>1, <1>2, <1>6
    <3>2. out'[Len(out) + 1] = cells[1]
      BY <1>1, <1>2, <1>6
    <3>3. cells[1].tag = tag
      BY DEF Marked
    <3>4. offtable'[n + 1] = Len(out) /\ objtable'[n + 1] = objtable[n + 1]
      BY <1>3
    <3> QED BY <3>1, <3>2, <3>3, <3>4, <1>3 DEF Marks
  <2>3. \A i \in DOMAIN offtable' : Marks(out, i)'
    <3>1. \A i \in 1 .. n + 1 : i \in 1 .. n \/ i = n + 1
      BY <1>3
    <3> QED BY <1>3, <2>1, <2>2, <3>1
  <2>4. Range(out)' = Range(out') /\ out' \in Seq(Range(out'))
    BY <1>2, <1>6 DEF Range
  <2>5. trailer'.ObjectRefSize \in Nat
    BY DEF FileRight
  <2> QED BY <1>3, <1>4, <1>6, <2>3, <2>4, <2>5 DEF FileRight
<1> QED BY <1>5, <1>6 DEF Write

LEMMA FileInit == Init => FileRight
<1> SUFFICES ASSUME Init PROVE FileRight
  OBVIOUS
<1>1. offtable = << >> /\ out = << >> /\ objtable = << >> /\ pc = "flatten" /\ trailer = NoTrailer
  BY DEF Init
<1> QED BY <1>1 DEF FileRight

LEMMA FileNext == FileRight /\ Flattening /\ [Next]_vars => FileRight'
<1> SUFFICES ASSUME FileRight, Flattening, [Next]_vars PROVE FileRight'
  OBVIOUS
<1> PICK v : v = Head(work)
  OBVIOUS
<1>1. CASE Skip \/ AddScalar \/ AddContainer
  <2>1. pc = "flatten" /\ UNCHANGED fileVars /\ (objtable' = objtable \/ objtable' = Append(objtable, v))
    BY <1>1 DEF Skip, AddScalar, AddContainer, Add, AddNumbered
  <2> QED BY <2>1, FlattenFileStep
<1>2. CASE WriteHeader
  <2> DEFINE cells == [j \in 1 .. HeaderSize |-> Cell("header", j)]
  <2>1. cells = [j \in 1 .. HeaderSize |-> cells[j]] /\ HeaderSize \in Nat
    BY DEF HeaderSize
  <2>2. Write(cells, "objects") /\ pc # "failed" /\ UNCHANGED <<offtable, objtable>>
    BY <1>2 DEF WriteHeader, buildVars
  <2>3. trailer'.ObjectRefSize \in Nat
    <3>1. trailer = NoTrailer
      BY <1>2 DEF WriteHeader, FileRight
    <3>2. trailer' = [trailer EXCEPT !.NumObjects = Len(objtable), !.ObjectRefSize = MinimumIntSize(Len(objtable))]
      BY <1>2 DEF WriteHeader
    <3>3. trailer'.ObjectRefSize = MinimumIntSize(Len(objtable))
      BY <3>1, <3>2 DEF NoTrailer
    <3> QED BY <3>3, Widths
  <2> HIDE DEF cells
  <2>4. cells \in Seq(Range(cells))
    BY <2>1, FromFunction
  <2> QED BY <2>2, <2>3, <2>4, OtherWrite
<1>3. CASE WriteObject
  <2> PICK w : w = objtable[Len(offtable) + 1]
    OBVIOUS
  <2>1. /\ pc = "objects" /\ Len(offtable) < Len(objtable) /\ UNCHANGED <<objtable, trailer>>
        /\ offtable' = Append(offtable, Len(out))
    BY <1>3 DEF WriteObject, WriteObjectFrom, Pending, buildVars
  <2>2. w \in Range(objtable) /\ w \in Flat
    <3>1. objtable \in Seq(Flat) /\ offtable \in Seq(Nat)
      BY DEF Flattening, WorkRight, FileRight
    <3> QED BY <2>1, <3>1 DEF Range
  <2>3. AllFound(w)
    BY <2>1, <2>2, AllIsFound
  <2> PICK cells : cells = IF IsContainer(w) THEN ContainerTag(w) ELSE ScalarTag(w)
    OBVIOUS
  <2>4. Write(cells, "objects")
    BY <1>3, <2>3 DEF WriteObject, WriteObjectFrom
  <2>5. Marked(cells, Marker(w))
    <3>1. CASE IsContainer(w)
      BY <2>1, <2>2, <3>1, ContainerMarks DEF FileRight
    <3>2. CASE ~IsContainer(w)
      <4>1. w \in Values
        BY <2>2 DEF Flat
      <4> QED BY <3>2, <4>1, ScalarMarks
    <3> QED BY <3>1, <3>2
  <2> QED BY <2>1, <2>4, <2>5, ObjectWrite
<1>4. CASE WriteOffsetTable
  <2> PICK size : size = MinimumIntSize(Len(out))
    OBVIOUS
  <2> DEFINE n == Len(offtable)
             f == [i \in DOMAIN offtable |-> SizedInt(offtable[i], size)]
             cells == FlattenSeq(f)
  <2>1. Write(cells, "trailer") /\ pc # "failed" /\ UNCHANGED <<offtable, objtable>>
    BY <1>4 DEF WriteOffsetTable, buildVars
  <2>2. n \in Nat /\ DOMAIN offtable = 1 .. n
    BY DEF FileRight
  <2>3. f = [i \in 1 .. n |-> f[i]]
    BY <2>2
  <2>4. size \in Nat
    BY Widths
  <2>5. ASSUME NEW i \in 1 .. n PROVE f[i] \in Seq(Range(f[i]))
    <3>1. f[i] = SizedInt(offtable[i], size)
      BY <2>2
    <3> HIDE DEF f
    <3> QED BY <2>4, <3>1, SizedIsSeq
  <2> HIDE DEF n, f
  <2>6. f \in Seq(Range(f)) /\ Len(f) = n
    BY <2>2, <2>3, FromFunction
  <2>7. cells \in Seq(Range(cells))
    BY <2>5, <2>6, Flattened
  <2> HIDE DEF cells
  <2> QED BY <2>1, <2>7, OtherWrite
<1>5. CASE WriteTrailer
  <2>1. pc = "trailer" /\ pc' \in {"done", "failed"} /\ UNCHANGED <<objtable, out, offtable, trailer>>
    BY <1>5 DEF WriteTrailer, buildVars
  <2>2. Range(out)' = Range(out)
    BY <2>1 DEF Range
  <2> QED BY <2>1, <2>2 DEF FileRight, Marks
<1>6. CASE Done \/ UNCHANGED vars
  <2>1. UNCHANGED vars
    BY <1>6 DEF Done
  <2>2. Range(out)' = Range(out)
    BY <2>1 DEF Range, vars, fileVars
  <2> QED BY <2>1, <2>2 DEF vars, buildVars, fileVars, FileRight, Marks
<1> QED BY <1>1, <1>2, <1>3, <1>4, <1>5, <1>6 DEF Next

--------------------------------------------------------------------------------
\* The three invariants hold in every state.
THEOREM Inductive == Spec => []IInv
<1>1. Spec => [](Flattening /\ FileRight)
  BY FlatteningInit, FlatteningNext, FileInit, FileNext, PTL DEF Spec
<1> QED BY <1>1, MapsInductive, PTL DEF IInv

\* What indexForPlistValue returns is the number of an object that is written as the
\* value looked up.
THEOREM IndicesCorrect == Spec => []MapsSound
<1>1. MapsRight => MapsSound
  BY DEF MapsRight
<1> QED BY <1>1, MapsInductive, PTL

\* A string, number, real, date or data value is written once in a document.
THEOREM UniquedOnce == Spec => []UniqueObjects
<1>1. MapsRight => UniqueObjects
  BY DEF MapsRight
<1> QED BY <1>1, MapsInductive, PTL

\* Writing a container never meets a key or a member that flattenPlistValue did not
\* record: generateDocument does not fail with a value missing from the object map.
THEOREM NoMemberLost == Spec => []NothingLost
<1>1. IInv => NothingLost
  BY DEF IInv, Flattening, PcRight, NothingLost
<1> QED BY <1>1, Inductive, PTL

\* Until a Write fails, every recorded offset is that of its object's marker.
THEOREM OffsetsPointAtMarkers == Spec => []OffsetsExact
<1>1. IInv => OffsetsExact
  <2> SUFFICES ASSUME FileRight, pc # "failed", NEW i \in DOMAIN offtable
               PROVE  At(out, offtable[i]).tag = Marker(objtable[i])
    BY DEF OffsetsExact, IInv
  <2>1. Marks(out, i)
    BY DEF FileRight
  <2> QED BY <2>1 DEF Marks, At
<1> QED BY <1>1, Inductive, PTL

\* A dictionary that is written has its entries sorted by key.
KeysAscend == \A v \in Range(objtable) : IsContainer(v) => Sorted(v, heap[v.data[1]])
THEOREM KeysWrittenInOrder == Spec => []KeysAscend
<1>1. IInv => KeysAscend
  BY DEF IInv, Flattening, AllAwaited, Complete, KeysAscend
<1> QED BY <1>1, Inductive, PTL

\* The generator's state keeps its types: the work left and the table are values, the
\* maps send the keys of the table's objects, and no others, to numbers of the table,
\* and no more offsets than objects are recorded.
THEOREM TypeCorrect == Spec => []TablesTyped
<1>1. IInv => TablesTyped
  <2> SUFFICES ASSUME IInv PROVE TablesTyped
    OBVIOUS
  <2>1. given \in Plists /\ pc \in {"flatten", "objects", "trailer", "done", "failed"}
        /\ offtable \in Seq(Nat) /\ Len(offtable) <= Len(objtable)
    BY DEF IInv, Flattening, HeapRight, PcRight, FileRight
  <2>4. heap \in [Nodes -> Seq(Entries)] /\ work \in Seq(Values) /\ objtable \in Seq(Values)
    <3>1. Flat \subseteq Values
      BY DEF Flat
    <3>2. heap \in [Nodes -> Seq(Seq(Int) \X (Flat \cup {Nil}))] /\ work \in Seq(Flat)
          /\ objtable \in Seq(Flat)
      BY DEF IInv, Flattening, HeapRight, WorkRight
    <3>3. Seq(Int) \X (Flat \cup {Nil}) \subseteq Entries
      BY <3>1 DEF Entries
    <3>4. \A A, B : A \subseteq B => Seq(A) \subseteq Seq(B)
      OBVIOUS
    <3> HIDE DEF Flat, Values, Entries, Nil
    <3>5. Seq(Seq(Int) \X (Flat \cup {Nil})) \subseteq Seq(Entries) /\ Seq(Flat) \subseteq Seq(Values)
      BY ONLY <3>1, <3>3, <3>4
    <3> QED BY <3>2, <3>5
  <2>5. /\ \A chars \in DOMAIN strmap : strmap[chars] \in 0 .. Len(objtable) - 1
        /\ \A k \in DOMAIN objmap : objmap[k] \in 0 .. Len(objtable) - 1
    <3>1. objtable \in Seq(Range(objtable)) /\ Numbered /\ MapsSound
      BY DEF IInv, MapsRight
    <3>2. DOMAIN objtable = 1 .. Len(objtable) /\ Len(objtable) \in Nat
      BY <3>1
    <3>3. ASSUME NEW chars \in DOMAIN strmap PROVE strmap[chars] \in 0 .. Len(objtable) - 1
      <4>1. strmap[chars] \in Nat /\ strmap[chars] + 1 \in DOMAIN objtable
        BY <3>1 DEF Numbered, MapsSound
      <4> QED BY ONLY <4>1, <3>2
    <3>4. ASSUME NEW k \in DOMAIN objmap PROVE objmap[k] \in 0 .. Len(objtable) - 1
      <4>1. objmap[k] \in Nat /\ objmap[k] + 1 \in DOMAIN objtable
        BY <3>1 DEF Numbered, MapsSound
      <4> QED BY ONLY <4>1, <3>2
    <3> QED BY <3>3, <3>4
  <2>2. DOMAIN strmap = {v.data : v \in {w \in Range(objtable) : w.kind = "string"}}
    <3>1. ASSUME NEW chars \in DOMAIN strmap
          PROVE  \E v \in Range(objtable) : v.kind = "string" /\ v.data = chars
      BY DEF IInv, MapsRight, MapsSound, Range
    <3>2. ASSUME NEW v \in Range(objtable), v.kind = "string" PROVE v.data \in DOMAIN strmap
      BY <3>2 DEF IInv, MapsRight, Recorded, Range
    <3> QED BY <3>1, <3>2
  <2>3. DOMAIN objmap = {Hash(v) : v \in {w \in Range(objtable) : w.kind # "string"}}
    <3>1. ASSUME NEW k \in DOMAIN objmap
          PROVE  \E v \in Range(objtable) : v.kind # "string" /\ Hash(v) = k
      BY DEF IInv, MapsRight, MapsSound, Range
    <3>2. ASSUME NEW v \in Range(objtable), v.kind # "string" PROVE Hash(v) \in DOMAIN objmap
      BY <3>2 DEF IInv, MapsRight, Recorded, Range
    <3> QED BY <3>1, <3>2
  <2> QED BY <2>1, <2>2, <2>3, <2>4, <2>5 DEF TablesTyped
<1> QED BY <1>1, Inductive, PTL
================================================================================
