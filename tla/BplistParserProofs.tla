-------------------------- MODULE BplistParserProofs ---------------------------
(***************************************************************************)
(* Theorems about BplistParser, for every set of documents: the parser's   *)
(* own invariants, and that it implements BplistPromise.                   *)
(*                                                                         *)
(*   - what a document means: levels of references, reachability, cycles   *)
(*     and nesting, with no parser in sight                                *)
(*   - IInv: the memo table, the container stack and the open calls        *)
(*   - Reading: what has been parsed is what the document says             *)
(*   - the refinement: accepting and refusing are steps of the promise     *)
(***************************************************************************)
EXTENDS BplistParser, SequenceLemmas, FiniteSetTheorems, TLAPS

-------------------------------------------------------------------------------
(***************************************************************************)
(* What a document means.                                                  *)
(***************************************************************************)
\* Level is the function it is defined to be: a level for every number of references.
LEMMA LevelIs ==
  ASSUME NEW d, IsFiniteSet(Ids)
  PROVE  /\ Cardinality(Ids) \in Nat
         /\ Level(d)[0] = {d.top}
         /\ \A n \in 1..Cardinality(Ids) :
              Level(d)[n] = UNION {Children(d, i) : i \in Level(d)[n - 1]}
<1> DEFINE N == Cardinality(Ids)
           Step(L, n) == IF n = 0 THEN {d.top} ELSE UNION {Children(d, i) : i \in L[n - 1]}
           Levels(L, m) == L = [n \in 0..m |-> Step(L, n)]
           Without == {m \in Nat : ~ \E L : Levels(L, m)}
<1>1. N \in Nat
  BY FS_CardinalityType
<1>2. Without = {}
  <2> SUFFICES ASSUME Without # {} PROVE FALSE
    OBVIOUS
  <2>1. PICK m \in Without : \A k \in Without : m <= k
    <3>1. Without \in SUBSET Nat
      OBVIOUS
    <3> HIDE DEF Without
    <3> QED BY <3>1, LeastNatural
  <2>2. PICK L : m = 0 \/ Levels(L, m - 1)
    <3>1. m \in Nat
      OBVIOUS
    <3>2. m = 0 \/ (m - 1 \in Nat /\ ~(m <= m - 1))
      BY ONLY <3>1
    <3>3. m = 0 \/ m - 1 \notin Without
      <4> HIDE DEF Without
      <4> QED BY <3>2, <2>1
    <3>4. m = 0 \/ \E L : Levels(L, m - 1)
      <4> HIDE DEF Levels
      <4> QED BY <3>2, <3>3
    <3> HIDE DEF Levels
    <3> QED BY <3>4
  <2> DEFINE K == [n \in 0..m |-> Step(L, n)]
  <2>3. ASSUME NEW n \in 0..m PROVE Step(K, n) = Step(L, n)
    <3>1. CASE n = 0
      BY <3>1
    <3>2. CASE n # 0
      <4>0. m \in Nat
        OBVIOUS
      <4>1. n - 1 \in 0..m /\ n - 1 \in 0..(m - 1) /\ m # 0
        BY <3>2, <4>0
      <4>2. L[n - 1] = Step(L, n - 1)
        BY <2>2, <4>1
      <4>3. K[n - 1] = Step(L, n - 1)
        BY <4>1
      <4>4. K[n - 1] = L[n - 1]
        BY <4>2, <4>3
      <4> HIDE DEF K
      <4> QED BY <3>2, <4>4
    <3> QED BY <3>1, <3>2
  <2>4. Levels(K, m)
    BY <2>3
  <2> QED BY <2>1, <2>4
<1> DEFINE L == CHOOSE L : Levels(L, N)
<1>3. Levels(L, N)
  BY <1>1, <1>2
<1>4. Level(d) = L
  BY DEF Level
<1> HIDE DEF L
<1>5. \A n \in 0..N : L[n] = Step(L, n)
  BY <1>3
<1>6. 0 \in 0..N /\ \A n \in 1..N : n \in 0..N /\ n # 0
  BY <1>1
<1> QED BY <1>1, <1>4, <1>5, <1>6

\* What is one reference further than a reachable object is reachable, or the document
\* is cyclic.
LEMMA ReachedOn ==
  ASSUME NEW d, IsFiniteSet(Ids), ~Cyclic(d)
  PROVE  /\ d.top \in Reachable(d)
         /\ \A i \in Reachable(d) : \A c \in Children(d, i) : c \in Reachable(d)
<1> DEFINE N == Cardinality(Ids)
<1>1. /\ N \in Nat /\ Level(d)[0] = {d.top}
      /\ \A n \in 1..N : Level(d)[n] = UNION {Children(d, i) : i \in Level(d)[n - 1]}
  BY LevelIs
<1> HIDE DEF N
<1>2. d.top \in Reachable(d)
  BY <1>1 DEF Reachable, N
<1>3. ASSUME NEW i \in Reachable(d), NEW c \in Children(d, i) PROVE c \in Reachable(d)
  <2>1. PICK n \in 0..N : i \in Level(d)[n]
    BY DEF Reachable, N
  <2>2. n # N
    BY <2>1 DEF Cyclic, N
  <2>3. n + 1 \in 1..N /\ n + 1 \in 0..N /\ (n + 1) - 1 = n
    BY <1>1, <2>2
  <2>4. c \in Level(d)[n + 1]
    BY <1>1, <2>1, <2>3
  <2> QED BY <2>3, <2>4 DEF Reachable, N
<1> QED BY <1>2, <1>3

\* A set of objects with the top that no reference leaves holds all that is reachable;
\* when the references go down in some order of it, the document is not cyclic.
LEMMA ClosedHoldsReachable ==
  ASSUME NEW d, IsFiniteSet(Ids), NEW M, d.top \in M,
         \A i \in M : \A c \in Children(d, i) : c \in M
  PROVE  \A n \in 0..Cardinality(Ids) : Level(d)[n] \subseteq M
<1> DEFINE N == Cardinality(Ids)
           Wrong == {n \in 0..N : ~(Level(d)[n] \subseteq M)}
<1>1. /\ N \in Nat /\ Level(d)[0] = {d.top}
      /\ \A n \in 1..N : Level(d)[n] = UNION {Children(d, i) : i \in Level(d)[n - 1]}
  BY LevelIs
<1> HIDE DEF N
<1>2. Wrong = {}
  <2> SUFFICES ASSUME Wrong # {} PROVE FALSE
    OBVIOUS
  <2>1. PICK n \in Wrong : \A k \in Wrong : n <= k
    <3>1. Wrong \in SUBSET Nat
      BY <1>1
    <3> HIDE DEF Wrong
    <3> QED BY <3>1, LeastNatural
  <2>2. n \in 1..N /\ n - 1 \in 0..N /\ ~(n <= n - 1)
    BY <1>1, <2>1
  <2>3. Level(d)[n - 1] \subseteq M
    BY <2>1, <2>2
  <2> QED BY <1>1, <2>1, <2>2, <2>3
<1> QED BY <1>2 DEF N

LEMMA RankedIsAcyclic ==
  ASSUME NEW d, IsFiniteSet(Ids), NEW M, d.top \in M,
         \A i \in M : \A c \in Children(d, i) : c \in M,
         NEW rank, \A i \in M : rank[i] \in 1..Cardinality(Ids),
         \A i \in M : \A c \in Children(d, i) : rank[c] < rank[i]
  PROVE  ~Cyclic(d)
<1> DEFINE N == Cardinality(Ids)
           Low(n) == \A i \in Level(d)[n] : rank[i] + n <= N
           Wrong == {n \in 0..N : ~Low(n)}
<1>1. /\ N \in Nat /\ Level(d)[0] = {d.top}
      /\ \A n \in 1..N : Level(d)[n] = UNION {Children(d, i) : i \in Level(d)[n - 1]}
  BY LevelIs
<1>2. /\ \A n \in 0..N : Level(d)[n] \subseteq M
      /\ \A i \in M : rank[i] \in 1..N
  BY ClosedHoldsReachable
<1> HIDE DEF N
<1>3. Wrong = {}
  <2> SUFFICES ASSUME Wrong # {} PROVE FALSE
    OBVIOUS
  <2>1. PICK n \in Wrong : \A k \in Wrong : n <= k
    <3>1. Wrong \in SUBSET Nat
      BY <1>1
    <3> HIDE DEF Wrong
    <3> QED BY <3>1, LeastNatural
  <2>2. n \in 0..N /\ ~Low(n)
    OBVIOUS
  <2>3. CASE n = 0
    BY <1>1, <1>2, <2>2, <2>3
  <2>4. CASE n # 0
    <3>1. n \in 1..N /\ n - 1 \in 0..N /\ ~(n <= n - 1) /\ n \in Nat
      BY <1>1, <2>2, <2>4
    <3>2. Low(n - 1)
      <4>1. n - 1 \notin Wrong
        <5> HIDE DEF Wrong
        <5> QED BY <2>1, <3>1
      <4> HIDE DEF Low
      <4> QED BY <3>1, <4>1
    <3>3. PICK c \in Level(d)[n] : ~(rank[c] + n <= N)
      BY <2>2
    <3>4. PICK i \in Level(d)[n - 1] : c \in Children(d, i)
      BY <1>1, <3>1, <3>3
    <3>5. rank[c] < rank[i] /\ rank[c] \in 1..N /\ rank[i] \in 1..N
      BY <1>2, <2>2, <3>1, <3>4
    <3>6. rank[i] + (n - 1) <= N
      BY <3>2, <3>4
    <3> QED BY ONLY <3>1, <3>3, <3>5, <3>6, <1>1
  <2> QED BY <2>3, <2>4
<1>4. N \in 0..N /\ Low(N)
  BY <1>1, <1>3
<1>5. Level(d)[N] = {}
  BY <1>1, <1>2, <1>4
<1> QED BY <1>5 DEF Cyclic, N

\* A loop of references below a reachable object makes the document cyclic.
LEMMA LoopIsCyclic ==
  ASSUME NEW d, IsFiniteSet(Ids), NEW P,
         \A i \in P : \E c \in P : c \in Children(d, i),
         NEW n \in 0..Cardinality(Ids), NEW i \in P, i \in Level(d)[n]
  PROVE  Cyclic(d)
<1> DEFINE N == Cardinality(Ids)
           Meets(m) == \E j \in P : j \in Level(d)[m]
           Wrong == {m \in n..N : ~Meets(m)}
<1>1. /\ N \in Nat /\ n \in Nat /\ n <= N /\ Meets(n)
      /\ \A m \in 1..N : Level(d)[m] = UNION {Children(d, j) : j \in Level(d)[m - 1]}
  BY LevelIs
<1> HIDE DEF N
<1>2. Wrong = {}
  <2> SUFFICES ASSUME Wrong # {} PROVE FALSE
    OBVIOUS
  <2>1. PICK m \in Wrong : \A k \in Wrong : m <= k
    <3>1. Wrong \in SUBSET Nat
      BY <1>1
    <3> HIDE DEF Wrong
    <3> QED BY <3>1, LeastNatural
  <2>2. m \in n..N /\ ~Meets(m)
    OBVIOUS
  <2>3. m # n
    <3> HIDE DEF Meets
    <3> QED BY <1>1, <2>2
  <2>4. m \in 1..N /\ m - 1 \in n..N /\ ~(m <= m - 1)
    BY <1>1, <2>2, <2>3
  <2>5. Meets(m - 1)
    <3>1. m - 1 \notin Wrong
      <4> HIDE DEF Wrong
      <4> QED BY <2>1, <2>4
    <3> HIDE DEF Meets
    <3> QED BY <2>4, <3>1
  <2>6. PICK j \in P : j \in Level(d)[m - 1]
    BY <2>5
  <2>7. PICK c \in P : c \in Children(d, j)
    OBVIOUS
  <2>8. c \in Level(d)[m]
    BY <1>1, <2>4, <2>6, <2>7
  <2> QED BY <2>2, <2>8
<1>3. Meets(N)
  BY <1>1, <1>2
<1> QED BY <1>3 DEF Cyclic, N

\* A chain of references from the top goes down level by level; without a cycle it is
\* shorter than there are ids.
LEMMA ChainDown ==
  ASSUME NEW d, IsFiniteSet(Ids), ~Cyclic(d), NEW m \in Nat, NEW c,
         c[0] = d.top, \A n \in 1..m : c[n] \in Children(d, c[n - 1])
  PROVE  m < Cardinality(Ids) /\ \A n \in 0..m : c[n] \in Level(d)[n]
<1> DEFINE N == Cardinality(Ids)
           Wrong == {n \in 0..m : ~(n < N /\ c[n] \in Level(d)[n])}
<1>1. /\ N \in Nat /\ Level(d)[0] = {d.top} /\ Level(d)[N] = {}
      /\ \A n \in 1..N : Level(d)[n] = UNION {Children(d, j) : j \in Level(d)[n - 1]}
  BY LevelIs DEF Cyclic
<1> HIDE DEF N
<1>2. Wrong = {}
  <2> SUFFICES ASSUME Wrong # {} PROVE FALSE
    OBVIOUS
  <2>1. PICK n \in Wrong : \A k \in Wrong : n <= k
    <3>1. Wrong \in SUBSET Nat
      OBVIOUS
    <3> HIDE DEF Wrong
    <3> QED BY <3>1, LeastNatural
  <2>2. n \in 0..m /\ ~(n < N /\ c[n] \in Level(d)[n])
    OBVIOUS
  <2>3. n # 0
    <3>1. 0 < N
      <4>1. {d.top} # {}
        OBVIOUS
      <4>2. Level(d)[N] # Level(d)[0]
        BY ONLY <1>1, <4>1
      <4>3. N # 0
        BY ONLY <4>2
      <4> QED BY ONLY <1>1, <4>3
    <3> QED BY <1>1, <2>2, <3>1
  <2>4. n \in 1..m /\ n - 1 \in 0..m /\ ~(n <= n - 1)
    BY <2>2, <2>3
  <2>5. n - 1 < N /\ c[n - 1] \in Level(d)[n - 1]
    BY <2>1, <2>4
  <2>6. n \in 1..N
    BY <1>1, <2>4, <2>5
  <2>7. c[n] \in Level(d)[n]
    BY <1>1, <2>4, <2>5, <2>6
  <2>8. n # N
    BY <1>1, <2>7
  <2> QED BY <1>1, <2>2, <2>6, <2>7, <2>8
<1> QED BY <1>2 DEF N

\* A chain of collections is no longer than the document nests deep.
LEMMA ChainNests ==
  ASSUME NEW d, IsFiniteSet(Ids), ~Cyclic(d), NEW m \in Nat, NEW c,
         c[0] = d.top, \A n \in 1..m : c[n] \in Children(d, c[n - 1]),
         \A n \in 0..m : IsCollection(d, c[n])
  PROVE  m < NestingDepth(d)
<1> DEFINE N == Cardinality(Ids)
           All == {n \in 0..N : \E i \in Level(d)[n] : IsCollection(d, i)}
<1>1. N \in Nat /\ m < N /\ \A n \in 0..m : c[n] \in Level(d)[n]
  BY ChainDown, LevelIs
<1>2. 0..m \subseteq All
  BY <1>1
<1>3. IsFiniteSet(0..N) /\ Cardinality(0..m) = m + 1
  <2>1. 0 \in Int /\ N \in Int /\ m \in Int /\ ~(0 > m)
    BY <1>1
  <2>2. IsFiniteSet(0..N)
    BY <2>1, FS_Interval
  <2>3. Cardinality(0..m) = m - 0 + 1
    BY <2>1, FS_Interval
  <2> QED BY <2>1, <2>2, <2>3
<1> DEFINE B == 0..N
           A == 0..m
<1> HIDE DEF N
<1>4. All \in SUBSET B /\ IsFiniteSet(B) /\ A \in SUBSET All
  BY <1>2, <1>3
<1> HIDE DEF All, A, B
<1>5. IsFiniteSet(All)
  BY ONLY <1>4, FS_Subset
<1>6. Cardinality(All) \in Nat
  BY <1>5, FS_CardinalityType
<1>7. Cardinality(A) <= Cardinality(All)
  BY ONLY <1>4, <1>5, FS_Subset
<1>8. m + 1 <= Cardinality(All)
  BY <1>3, <1>7 DEF A
<1> QED BY <1>6, <1>8 DEF NestingDepth, All, N

-------------------------------------------------------------------------------
(***************************************************************************)
(* The parser's own state.                                                 *)
(***************************************************************************)
\* Every open collection is a real one, not memoized yet, and holds only
\* memoized elements.
FramesOpen ==
  \A k \in 1..Len(frames) :
    /\ IsCollection(doc, frames[k].id)
    /\ objects[frames[k].id] = NotParsed
    /\ \A m \in 1..Len(frames[k].elems) : objects[frames[k].elems[m]] # NotParsed

IInv ==
  /\ TypeOK
  /\ ContainerStackExact
  /\ FramesOpen
  /\ ParsedOnce
  /\ ChildrenFirst

LEMMA InitIInv == ParserInit => IInv
<1> SUFFICES ASSUME ParserInit PROVE IInv
  OBVIOUS
<1> USE DEF ParserInit
<1>1. TypeOK
  BY DocumentAssumption DEF TypeOK, Value
<1>2. ContainerStackExact
  BY NestingAssumption DEF ContainerStackExact, IsInjective
<1>3. ParsedOnce
  BY DEF ParsedOnce, IsInjective, Range, NotParsed
<1>4. FramesOpen /\ ChildrenFirst
  BY DEF FramesOpen, ChildrenFirst
<1> QED
  BY <1>1, <1>2, <1>3, <1>4 DEF IInv

\* The index asked for is an id or the bad reference.
LEMMA WantedType ==
  ASSUME TypeOK, FramesOpen, Calling
  PROVE  Wanted \in Ids \cup {BadRef}
<1>1. CASE frames = << >>
  BY <1>1 DEF Wanted, TypeOK, Document
<1>2. CASE frames # << >>
  <2> DEFINE f == Last(frames)
  <2>1. f \in Frame /\ f = frames[Len(frames)] /\ Len(frames) \in 1..Len(frames)
    BY <1>2 DEF TypeOK, Last
  <2>2. ObjectOf(doc, f.id) \in Object
    BY <2>1 DEF FramesOpen, IsCollection, IsPlaced, ObjectOf, TypeOK, Document
  <2>3. RefsOf(f) \in Seq(Ids \cup {BadRef})
    BY <2>2 DEF RefsOf, Object
  <2>4. Len(f.elems) + 1 \in 1..Len(RefsOf(f))
    BY <1>2, <2>1, <2>3 DEF Calling, Looping, Frame
  <2> QED
    BY <1>2, <2>3, <2>4 DEF Wanted
<1> QED
  BY <1>1, <1>2
-------------------------------------------------------------------------------
\* A panic leaves nothing open and the memo table as it is.
LEMMA FailStep == IInv /\ Fail => IInv'
<1> SUFFICES ASSUME IInv, Fail PROVE IInv'
  OBVIOUS
<1> USE DEF IInv, Fail
<1>1. containerStack' = << >>
  <2>1. containerStack \in Seq(Offsets) /\ Len(containerStack) = Len(frames)
    BY DEF TypeOK, ContainerStackExact
  <2> QED
    BY <2>1
<1>2. TypeOK'
  BY <1>1 DEF TypeOK
<1>3. ContainerStackExact'
  BY <1>1, NestingAssumption DEF ContainerStackExact, IsInjective
<1>4. FramesOpen'
  BY DEF FramesOpen
<1>5. ParsedOnce' /\ ChildrenFirst'
  BY DEF ParsedOnce, ChildrenFirst
<1> QED
  BY <1>2, <1>3, <1>4, <1>5

\* What Return does to the frames below the one it returns from.
LEMMA ReturnFrames ==
  ASSUME NEW stack \in Seq(Frame), NEW i \in Ids, status = "parsing",
         Return(stack, i)
  PROVE  /\ frames' \in Seq(Frame)
         /\ Len(frames') = Len(stack)
         /\ \A k \in 1..Len(stack) :
              /\ frames'[k].id = stack[k].id
              /\ frames'[k].elems = IF k = Len(stack)
                                    THEN Append(stack[k].elems, i)
                                    ELSE stack[k].elems
         /\ status' = IF stack = << >> THEN "ok" ELSE "parsing"
<1>1. CASE stack = << >>
  BY <1>1 DEF Return
<1>2. CASE stack # << >>
  <2> DEFINE n == Len(stack)
  <2>1. n \in 1..n /\ stack[n] \in Frame
    BY <1>2
  <2> DEFINE f == [id |-> stack[n].id, elems |-> Append(stack[n].elems, i)]
  <2>2. frames' = [stack EXCEPT ![n] = f] /\ status' = status
    BY <1>2 DEF Return
  <2>3. f \in Frame
    BY <2>1 DEF Frame
  <2> HIDE DEF f
  <2>5. frames' \in Seq(Frame) /\ Len(frames') = n
    BY <2>1, <2>2, <2>3
  <2>6. frames'[n] = f /\ \A k \in 1..n : k # n => frames'[k] = stack[k]
    BY <2>1, <2>2
  <2>7. f.id = stack[n].id /\ f.elems = Append(stack[n].elems, i)
    BY DEF f
  <2>8. ASSUME NEW k \in 1..n
        PROVE  /\ frames'[k].id = stack[k].id
               /\ frames'[k].elems = IF k = n THEN Append(stack[k].elems, i)
                                     ELSE stack[k].elems
    <3>1. CASE k = n
      BY <3>1, <2>6, <2>7
    <3>2. CASE k # n
      BY <3>2, <2>6
    <3> QED
      BY <3>1, <3>2
  <2> QED
    BY <1>2, <2>2, <2>5, <2>8
<1> QED
  BY <1>1, <1>2

LEMMA AppendElements ==
  ASSUME NEW S, NEW s \in Seq(S), NEW x \in S
  PROVE  \A m \in 1..Len(Append(s, x)) :
           \/ Append(s, x)[m] = x
           \/ m \in 1..Len(s) /\ Append(s, x)[m] = s[m]
OBVIOUS

-------------------------------------------------------------------------------
\* A memo entry written for an id that has none, from memoized elements, keeps
\* what is said of the memo table.
LEMMA MemoizeStep ==
  ASSUME IInv, NEW i \in Ids, objects[i] = NotParsed,
         NEW v \in Value, v # NotParsed,
         \A m \in 1..Len(v.elems) : objects[v.elems[m]] # NotParsed,
         Memoize(i, v)
  PROVE  /\ objects' \in [Ids -> Value]
         /\ finished' \in Seq(Ids)
         /\ objects'[i] # NotParsed
         /\ \A j \in Ids : j # i => objects'[j] = objects[j]
         /\ ParsedOnce'
         /\ ChildrenFirst'
<1> DEFINE n == Len(finished)
<1>1. /\ objects \in [Ids -> Value]
      /\ finished \in Seq(Ids)
  BY DEF IInv, TypeOK
<1>2. objects' = [objects EXCEPT ![i] = v] /\ finished' = Append(finished, i)
  BY DEF Memoize
<1>3. /\ objects' \in [Ids -> Value]
      /\ objects'[i] = v
      /\ \A j \in Ids : j # i => objects'[j] = objects[j]
  BY <1>1, <1>2
<1>4. /\ n \in Nat
      /\ finished' \in Seq(Ids)
      /\ DOMAIN finished = 1..n
      /\ DOMAIN finished' = 1..(n + 1)
      /\ finished'[n + 1] = i
      /\ \A k \in 1..n : finished'[k] = finished[k] /\ finished[k] \in Ids
  BY <1>1, <1>2
<1>5. \A j \in Ids : objects[j] # NotParsed <=> \E k \in 1..n : finished[k] = j
  BY <1>4 DEF IInv, ParsedOnce, Range
<1>6. ParsedOnce'
  <2>1. \A k \in 1..n : finished[k] # i
    BY <1>4, <1>5
  <2>2. IsInjective(finished')
    BY <1>4, <2>1 DEF IInv, ParsedOnce, IsInjective
  <2>3. \A j \in Ids : objects'[j] # NotParsed <=> \E k \in 1..(n + 1) : finished'[k] = j
    BY <1>3, <1>4, <1>5
  <2>4. Range(finished') = {j \in Ids : objects'[j] # NotParsed}
    BY <1>4, <2>3 DEF Range
  <2> QED
    BY <2>2, <2>4 DEF ParsedOnce
<1>7. ChildrenFirst'
  <2> SUFFICES ASSUME NEW k \in 1..(n + 1),
                      NEW e \in DOMAIN objects'[finished'[k]].elems
               PROVE  \E m \in 1..(k - 1) :
                        finished'[m] = objects'[finished'[k]].elems[e]
    BY <1>4 DEF ChildrenFirst
  <2>1. CASE k = n + 1
    <3>1. objects'[finished'[k]] = v
      BY <1>3, <1>4, <2>1
    <3>2. v.elems \in Seq(Ids) /\ e \in 1..Len(v.elems)
      BY <3>1 DEF Value, NotParsed
    <3>3. v.elems[e] \in Ids /\ objects[v.elems[e]] # NotParsed
      BY <3>2
    <3>4. PICK m \in 1..n : finished[m] = v.elems[e]
      BY <1>5, <3>3
    <3> QED
      BY <1>4, <2>1, <3>1, <3>4
  <2>2. CASE k # n + 1
    <3>1. k \in 1..n /\ finished[k] # i
      BY <1>4, <1>5, <2>2
    <3>2. objects'[finished'[k]] = objects[finished[k]]
      BY <1>3, <1>4, <3>1
    <3>3. PICK m \in 1..(k - 1) : finished[m] = objects[finished[k]].elems[e]
      BY <1>4, <3>1, <3>2 DEF IInv, ChildrenFirst
    <3>4. m \in 1..n
      BY <1>4, <3>1
    <3> QED
      BY <1>4, <3>2, <3>3, <3>4
  <2> QED
    BY <2>1, <2>2
<1>8. objects'[i] # NotParsed
  BY <1>3
<1> QED
  BY <1>3, <1>4, <1>6, <1>7, <1>8

LEMMA OpenStep == IInv /\ OpenCollection => IInv'
<1> SUFFICES ASSUME IInv, OpenCollection PROVE IInv'
  OBVIOUS
<1> DEFINE f == [id |-> Wanted, elems |-> << >>]  n == Len(frames)
<1>1. Wanted \in Ids /\ objects[Wanted] = NotParsed /\ IsCollection(doc, Wanted)
  BY WantedType DEF IInv, OpenCollection, Parsing
<1>2. /\ frames \in Seq(Frame)
      /\ containerStack \in Seq(Offsets)
      /\ n \in Nat
      /\ Len(containerStack) = n
  BY DEF IInv, TypeOK, ContainerStackExact
<1>3. /\ frames' = Append(frames, f)
      /\ containerStack' = Append(containerStack, OffOf(Wanted))
      /\ status = "parsing"
      /\ UNCHANGED <<doc, objects, status, finished>>
  BY DEF OpenCollection, Parsing, Calling
<1>4. f \in Frame /\ OffOf(Wanted) \in Offsets
  BY <1>1 DEF Frame, OffOf, IsCollection, IsPlaced
<1>5. /\ frames' \in Seq(Frame)
      /\ Len(frames') = n + 1
      /\ frames'[n + 1] = f
      /\ \A k \in 1..n : frames'[k] = frames[k]
  BY <1>2, <1>3, <1>4
<1>6. /\ containerStack' \in Seq(Offsets)
      /\ Len(containerStack') = n + 1
      /\ DOMAIN containerStack = 1..n
      /\ DOMAIN containerStack' = 1..(n + 1)
      /\ containerStack'[n + 1] = OffOf(Wanted)
      /\ \A k \in 1..n : containerStack'[k] = containerStack[k]
  BY <1>2, <1>3, <1>4
<1>7. TypeOK'
  BY <1>3, <1>5, <1>6 DEF IInv, TypeOK
<1>8. ContainerStackExact'
  <2>1. containerStack' = [k \in 1..(n + 1) |-> OffOf(frames'[k].id)]
    <3>1. \A k \in 1..n : containerStack[k] = OffOf(frames[k].id)
      BY DEF IInv, ContainerStackExact
    <3>2. \A k \in 1..(n + 1) : containerStack'[k] = OffOf(frames'[k].id)
      BY <1>2, <1>5, <1>6, <3>1
    <3> QED
      BY <1>6, <3>2
  <2>2. IsInjective(containerStack')
    <3>1. IsInjective(containerStack) /\ \A k \in 1..n : containerStack[k] # OffOf(Wanted)
      BY <1>6 DEF IInv, ContainerStackExact, OpenCollection, SelfReferential, Range
    <3> QED
      BY <1>2, <1>6, <3>1 DEF IsInjective
  <2>3. Len(containerStack') <= MaxNesting
    BY <1>2, <1>6, NestingAssumption DEF OpenCollection, TooDeep
  <2> QED
    BY <1>3, <1>5, <2>1, <2>2, <2>3 DEF ContainerStackExact, OffOf
<1>9. FramesOpen'
  <2> SUFFICES ASSUME NEW k \in 1..(n + 1)
               PROVE  /\ IsCollection(doc, frames'[k].id)
                      /\ objects[frames'[k].id] = NotParsed
                      /\ \A m \in 1..Len(frames'[k].elems) :
                           objects[frames'[k].elems[m]] # NotParsed
    BY <1>3, <1>5 DEF FramesOpen, IsCollection, IsPlaced, ObjectOf
  <2>1. CASE k = n + 1
    BY <1>1, <1>5, <2>1
  <2>2. CASE k # n + 1
    BY <1>2, <1>5, <2>2 DEF IInv, FramesOpen
  <2> QED
    BY <2>1, <2>2
<1>10. ParsedOnce' /\ ChildrenFirst'
  BY <1>3 DEF IInv, ParsedOnce, ChildrenFirst
<1> QED
  BY <1>7, <1>8, <1>9, <1>10 DEF IInv
-------------------------------------------------------------------------------
\* Returning an id that is memoized by then to a prefix of the open frames,
\* none of which is for that id.
LEMMA ReturnStep ==
  ASSUME IInv, status = "parsing", doc' = doc,
         NEW stack \in Seq(Frame), NEW i \in Ids, Return(stack, i),
         Len(stack) <= Len(frames),
         \A k \in 1..Len(stack) : stack[k] = frames[k] /\ stack[k].id # i,
         containerStack' = SubSeq(containerStack, 1, Len(stack)),
         objects' \in [Ids -> Value],
         finished' \in Seq(Ids),
         objects'[i] # NotParsed,
         \A j \in Ids : j # i => objects'[j] = objects[j],
         ParsedOnce', ChildrenFirst'
  PROVE  IInv'
<1> DEFINE n == Len(stack)
<1>1. /\ frames' \in Seq(Frame)
      /\ Len(frames') = n
      /\ \A k \in 1..n :
           /\ frames'[k].id = frames[k].id
           /\ frames'[k].elems = IF k = n THEN Append(frames[k].elems, i)
                                 ELSE frames[k].elems
      /\ status' \in {"ok", "parsing"}
      /\ status' = "ok" => n = 0
  BY ReturnFrames
<1>2. /\ n \in Nat
      /\ frames \in Seq(Frame)
      /\ containerStack \in Seq(Offsets)
      /\ Len(containerStack) = Len(frames)
  BY DEF IInv, TypeOK, ContainerStackExact
<1>3. /\ containerStack' \in Seq(Offsets)
      /\ Len(containerStack') = n
      /\ DOMAIN containerStack = 1..Len(frames)
      /\ DOMAIN containerStack' = 1..n
      /\ \A k \in 1..n : k \in 1..Len(frames) /\ containerStack'[k] = containerStack[k]
  BY <1>2
<1>4. TypeOK'
  BY <1>1, <1>3 DEF IInv, TypeOK
<1>5. ContainerStackExact'
  <2>1. \A k \in 1..n : containerStack'[k] = OffOf(frames'[k].id)
    BY <1>1, <1>3 DEF IInv, ContainerStackExact
  <2>2. containerStack' = [k \in 1..n |-> OffOf(frames'[k].id)]
    BY <1>3, <2>1
  <2>3. IsInjective(containerStack')
    BY <1>3 DEF IInv, ContainerStackExact, IsInjective
  <2>4. Len(containerStack') <= MaxNesting
    BY <1>2, <1>3, NestingAssumption DEF IInv, ContainerStackExact
  <2>5. status' # "parsing" => containerStack' = << >>
    BY <1>1, <1>3
  <2> QED
    BY <1>1, <2>2, <2>3, <2>4, <2>5 DEF ContainerStackExact, OffOf
<1>6. FramesOpen'
  <2> SUFFICES ASSUME NEW k \in 1..n
               PROVE  /\ IsCollection(doc, frames'[k].id)
                      /\ objects'[frames'[k].id] = NotParsed
                      /\ \A m \in 1..Len(frames'[k].elems) :
                           objects'[frames'[k].elems[m]] # NotParsed
    BY <1>1 DEF FramesOpen, IsCollection, IsPlaced, ObjectOf
  <2> DEFINE e == frames[k].elems  e2 == Append(e, i)
  <2>1. k \in 1..Len(frames) /\ frames[k] \in Frame
    BY <1>2, <1>3
  <2>2. e \in Seq(Ids) /\ frames[k].id \in Ids /\ frames[k].id # i
    BY <2>1 DEF Frame
  <2>3. /\ IsCollection(doc, frames[k].id)
        /\ objects[frames[k].id] = NotParsed
        /\ \A m \in 1..Len(e) : objects[e[m]] # NotParsed
    BY <2>1 DEF IInv, FramesOpen
  <2>4. ASSUME NEW m \in 1..Len(e) PROVE objects'[e[m]] # NotParsed
    <3>1. e[m] \in Ids /\ objects[e[m]] # NotParsed
      BY <2>2, <2>3
    <3> QED
      BY <3>1
  <2>5. \A m \in 1..Len(e2) : e2[m] = i \/ (m \in 1..Len(e) /\ e2[m] = e[m])
    BY <2>2, AppendElements
  <2>6. \A m \in 1..Len(e2) : objects'[e2[m]] # NotParsed
    BY <2>4, <2>5
  <2>7. frames'[k].id = frames[k].id /\ frames'[k].elems \in {e, e2}
    BY <1>1
  <2> HIDE DEF e2
  <2> QED
    BY <2>2, <2>3, <2>4, <2>6, <2>7
<1> QED
  BY <1>4, <1>5, <1>6 DEF IInv

LEMMA LookupStep == IInv /\ FindParsed => IInv'
<1> SUFFICES ASSUME IInv, FindParsed PROVE IInv'
  OBVIOUS
<1>1. Wanted \in Ids /\ objects[Wanted] # NotParsed /\ status = "parsing"
  BY WantedType DEF IInv, FindParsed, Calling
<1>2. frames \in Seq(Frame) /\ containerStack \in Seq(Offsets)
        /\ Len(containerStack) = Len(frames)
  BY DEF IInv, TypeOK, ContainerStackExact
<1>3. Return(frames, Wanted) /\ UNCHANGED <<doc, objects, containerStack, finished>>
  BY DEF FindParsed
<1>4. \A k \in 1..Len(frames) : frames[k].id # Wanted
  BY <1>1 DEF IInv, FramesOpen
<1>5. containerStack' = SubSeq(containerStack, 1, Len(frames))
  BY <1>2, <1>3
<1>6. objects' \in [Ids -> Value] /\ finished' \in Seq(Ids) /\ objects' = objects
  BY <1>3 DEF IInv, TypeOK
<1>7. ParsedOnce' /\ ChildrenFirst'
  BY <1>3 DEF IInv, ParsedOnce, ChildrenFirst
<1> QED
  BY <1>1, <1>2, <1>3, <1>4, <1>5, <1>6, <1>7, ReturnStep

LEMMA ParseScalarStep == IInv /\ ParseScalar => IInv'
<1> SUFFICES ASSUME IInv, ParseScalar PROVE IInv'
  OBVIOUS
<1> DEFINE v == [kind |-> ObjectOf(doc, Wanted).kind, elems |-> << >>]
<1>1. Wanted \in Ids /\ objects[Wanted] = NotParsed /\ status = "parsing"
  BY WantedType DEF IInv, ParseScalar, Parsing, Calling
<1>2. frames \in Seq(Frame) /\ containerStack \in Seq(Offsets)
        /\ Len(containerStack) = Len(frames)
  BY DEF IInv, TypeOK, ContainerStackExact
<1>3. /\ Memoize(Wanted, v)
      /\ Return(frames, Wanted)
      /\ UNCHANGED <<doc, containerStack>>
  BY DEF ParseScalar
<1>4. v \in Value /\ v # NotParsed /\ v.elems = << >>
  BY DEF ParseScalar, Value, Kinds, NotParsed
<1> HIDE DEF v
<1>5. /\ objects' \in [Ids -> Value]
      /\ finished' \in Seq(Ids)
      /\ objects'[Wanted] # NotParsed
      /\ \A j \in Ids : j # Wanted => objects'[j] = objects[j]
      /\ ParsedOnce'
      /\ ChildrenFirst'
  BY <1>1, <1>3, <1>4, MemoizeStep
<1>6. ASSUME NEW k \in 1..Len(frames) PROVE frames[k].id # Wanted
  <2>1. IsCollection(doc, frames[k].id)
    BY DEF IInv, FramesOpen
  <2> QED
    BY <2>1 DEF ParseScalar, IsCollection, Collections
<1>7. containerStack' = SubSeq(containerStack, 1, Len(frames))
  BY <1>2, <1>3
<1>8. Len(frames) <= Len(frames)
  BY <1>2
<1> QED
  BY <1>1, <1>2, <1>3, <1>5, <1>6, <1>7, <1>8, ReturnStep

LEMMA CloseStep == IInv /\ CloseCollection => IInv'
<1> SUFFICES ASSUME IInv, CloseCollection PROVE IInv'
  OBVIOUS
<1> DEFINE n == Len(frames)
           f == Last(frames)
           v == [kind |-> ObjectOf(doc, f.id).kind, elems |-> f.elems]
           stack == Front(frames)
<1>1. /\ status = "parsing"
      /\ frames # << >>
      /\ Memoize(f.id, v)
      /\ Return(stack, f.id)
      /\ containerStack' = Front(containerStack)
      /\ doc' = doc
  BY DEF CloseCollection, Looping
<1>2. /\ frames \in Seq(Frame)
      /\ containerStack \in Seq(Offsets)
      /\ Len(containerStack) = n
      /\ \A k \in 1..n : containerStack[k] = OffOf(frames[k].id)
      /\ DOMAIN containerStack = 1..n
  BY DEF IInv, TypeOK, ContainerStackExact
<1>3. n \in 1..n /\ f = frames[n] /\ f \in Frame
  BY <1>1, <1>2 DEF Last
<1>4. /\ stack \in Seq(Frame)
      /\ Len(stack) = n - 1
      /\ \A k \in 1..(n - 1) : stack[k] = frames[k] /\ k \in 1..n /\ k # n
  <2>1. stack = SubSeq(frames, 1, n - 1) /\ n - 1 \in Nat /\ n - 1 <= Len(frames)
    BY <1>2, <1>3 DEF Front
  <2>2. stack \in Seq(Frame) /\ Len(stack) = n - 1
    BY <1>2, <2>1
  <2>3. \A k \in 1..(n - 1) : stack[k] = frames[k]
    BY <1>2, <2>1
  <2> QED
    BY <1>3, <2>2, <2>3
<1>5. /\ f.id \in Ids
      /\ f.elems \in Seq(Ids)
      /\ IsCollection(doc, f.id)
      /\ objects[f.id] = NotParsed
      /\ \A m \in 1..Len(f.elems) : objects[f.elems[m]] # NotParsed
  BY <1>3 DEF IInv, FramesOpen, Frame
<1>6. v \in Value /\ v # NotParsed /\ v.elems = f.elems
  BY <1>5 DEF Value, Kinds, Collections, NotParsed, IsCollection
<1>7. \A k \in 1..(n - 1) : stack[k].id # f.id
  <2>1. \A k \in 1..(n - 1) : containerStack[k] # containerStack[n]
    BY <1>2, <1>3, <1>4 DEF IInv, ContainerStackExact, IsInjective
  <2> QED
    BY <1>2, <1>3, <1>4, <2>1
<1>8. containerStack' = SubSeq(containerStack, 1, Len(stack))
  BY <1>1, <1>2, <1>4 DEF Front
<1> HIDE DEF v, stack, f
<1>9. /\ objects' \in [Ids -> Value]
      /\ finished' \in Seq(Ids)
      /\ objects'[f.id] # NotParsed
      /\ \A j \in Ids : j # f.id => objects'[j] = objects[j]
      /\ ParsedOnce'
      /\ ChildrenFirst'
  BY <1>1, <1>5, <1>6, MemoizeStep
<1>10. Len(stack) <= Len(frames)
  BY <1>3, <1>4
<1>11. \A k \in 1..Len(stack) : stack[k] = frames[k] /\ stack[k].id # f.id
  BY <1>4, <1>7
<1> QED
  BY <1>1, <1>4, <1>5, <1>8, <1>9, <1>10, <1>11, ReturnStep
-------------------------------------------------------------------------------
LEMMA NextIInv == IInv /\ [ParserNext]_parserVars => IInv'
<1> SUFFICES ASSUME IInv, [ParserNext]_parserVars PROVE IInv'
  OBVIOUS
<1>1. CASE Fail
  BY <1>1, FailStep
<1>2. CASE FindParsed
  BY <1>2, LookupStep
<1>3. CASE ParseScalar
  BY <1>3, ParseScalarStep
<1>4. CASE OpenCollection
  BY <1>4, OpenStep
<1>5. CASE CloseCollection
  BY <1>5, CloseStep
<1>6. CASE UNCHANGED parserVars
  BY <1>6 DEF parserVars, IInv, TypeOK, ContainerStackExact, FramesOpen, ParsedOnce,
              ChildrenFirst, OffOf, IsCollection, IsPlaced, ObjectOf
<1> QED
  BY <1>1, <1>2, <1>3, <1>4, <1>5, <1>6
  DEF ParserNext, RejectIndex, RejectOffset, RejectObject, RejectNesting, RejectList,
      RejectKey

\* The inductive invariant holds in every state of the parser.
THEOREM Inductive == ParserSpec => []IInv
<1>1. ParserInit => IInv
  BY InitIInv
<1>2. IInv /\ [ParserNext]_parserVars => IInv'
  BY NextIInv
<1> QED
  BY <1>1, <1>2, PTL DEF ParserSpec

\* Types hold of bplistParser's state whatever document is parsed.
THEOREM TypeCorrect == ParserSpec => []TypeOK
BY Inductive, PTL DEF IInv

\* pushNestedObject and the deferred pops keep containerStack exact: bounded by
\* maxNestingDepth, free of repeated offsets, empty after every return.
THEOREM StackCorrect == ParserSpec => []ContainerStackExact
BY Inductive, PTL DEF IInv

\* objectAtIndex parses each object at most once, aliased offsets included.
THEOREM MemoWrittenOnce == ParserSpec => []ParsedOnce
BY Inductive, PTL DEF IInv

\* The values parseDocument builds are acyclic: an element is always complete
\* before the collection that holds it.
THEOREM ValuesAcyclic == ParserSpec => []ChildrenFirst
BY Inductive, PTL DEF IInv

-------------------------------------------------------------------------------
(***************************************************************************)
(* What has been parsed is what the document says.                         *)
(***************************************************************************)
\* The open collections are a path from the top: each is the element its parent waits
\* for, and holds the references of its object parsed so far.
Path ==
  \A k \in 1..Len(frames) :
    /\ k = 1 => frames[k].id = doc.top
    /\ k # 1 => frames[k].id = RefsOf(frames[k - 1])[Len(frames[k - 1].elems) + 1]
    /\ k # Len(frames) => Len(frames[k].elems) < Len(RefsOf(frames[k]))
    /\ ObjectOf(doc, frames[k].id).fits
    /\ Len(frames[k].elems) <= Len(RefsOf(frames[k]))
    /\ \A m \in 1..Len(frames[k].elems) : frames[k].elems[m] = RefsOf(frames[k])[m]

\* A memo entry is the legal object its id stands for, with memoized elements.
MemoRight ==
  \A i \in Ids : objects[i] # NotParsed =>
    /\ LegalObject(doc, i)
    /\ objects[i] = [kind |-> ObjectOf(doc, i).kind, elems |-> ObjectOf(doc, i).refs]
    /\ \A m \in 1..Len(ObjectOf(doc, i).refs) : objects[ObjectOf(doc, i).refs[m]] # NotParsed

\* Only what the top reaches is parsed.
Reached ==
  Cyclic(doc) \/ /\ \A i \in Ids : objects[i] # NotParsed => i \in Reachable(doc)
                 /\ \A k \in 1..Len(frames) : frames[k].id \in Reachable(doc)

Reading ==
  /\ doc \in Documents
  /\ Path
  /\ MemoRight
  /\ Reached
  /\ status = "ok" => objects[doc.top] # NotParsed

\* The references of an open collection.
LEMMA FrameRefs ==
  ASSUME IInv, NEW k \in 1..Len(frames)
  PROVE  /\ frames[k] \in Frame /\ IsCollection(doc, frames[k].id)
         /\ RefsOf(frames[k]) \in Seq(Ids \cup {BadRef})
         /\ Len(RefsOf(frames[k])) \in Nat /\ Len(frames[k].elems) \in Nat
         /\ \A m \in 1..Len(RefsOf(frames[k])) : RefsOf(frames[k])[m] \in Children(doc, frames[k].id)
<1>1. frames[k] \in Frame /\ IsCollection(doc, frames[k].id)
  BY DEF IInv, TypeOK, FramesOpen
<1>2. ObjectOf(doc, frames[k].id) \in Object
  BY <1>1 DEF IsCollection, IsPlaced, ObjectOf, IInv, TypeOK, Document
<1>3. RefsOf(frames[k]) \in Seq(Ids \cup {BadRef})
  BY <1>2 DEF RefsOf, Object
<1>4. Len(RefsOf(frames[k])) \in Nat /\ Len(frames[k].elems) \in Nat
      /\ DOMAIN RefsOf(frames[k]) = 1..Len(RefsOf(frames[k]))
  BY <1>1, <1>3 DEF Frame
<1>5. \A m \in 1..Len(RefsOf(frames[k])) : RefsOf(frames[k])[m] \in Children(doc, frames[k].id)
  BY <1>1, <1>4 DEF Children, RefsOf
<1> QED BY <1>1, <1>3, <1>4, <1>5

\* The object asked for is the top or a reference of the innermost open collection.
LEMMA WantedFrom ==
  ASSUME IInv, Calling
  PROVE  /\ frames = << >> => Wanted = doc.top
         /\ frames # << >> =>
              /\ Len(frames) \in 1..Len(frames)
              /\ Len(frames[Len(frames)].elems) < Len(RefsOf(frames[Len(frames)]))
              /\ Wanted = RefsOf(frames[Len(frames)])[Len(frames[Len(frames)].elems) + 1]
              /\ Wanted \in Children(doc, frames[Len(frames)].id)
<1>1. CASE frames = << >>
  BY <1>1 DEF Wanted
<1>2. CASE frames # << >>
  <2> DEFINE n == Len(frames)
  <2>1. n \in 1..n /\ Last(frames) = frames[n]
    BY <1>2 DEF IInv, TypeOK, Last
  <2>2. Len(frames[n].elems) < Len(RefsOf(frames[n]))
    BY <1>2, <2>1 DEF Calling, Looping
  <2>3. Wanted = RefsOf(frames[n])[Len(frames[n].elems) + 1]
    BY <1>2, <2>1 DEF Wanted
  <2>4. /\ Len(RefsOf(frames[n])) \in Nat /\ Len(frames[n].elems) \in Nat
        /\ \A m \in 1..Len(RefsOf(frames[n])) : RefsOf(frames[n])[m] \in Children(doc, frames[n].id)
    BY <2>1, FrameRefs
  <2>5. Len(frames[n].elems) + 1 \in 1..Len(RefsOf(frames[n]))
    BY <2>2, <2>4
  <2> QED BY <1>2, <2>1, <2>2, <2>3, <2>4, <2>5
<1> QED BY <1>1, <1>2

LEMMA WantedReached ==
  ASSUME IInv, Reading, Calling, ~Cyclic(doc)
  PROVE  Wanted \in Reachable(doc)
<1>1. /\ doc.top \in Reachable(doc)
      /\ \A i \in Reachable(doc) : \A c \in Children(doc, i) : c \in Reachable(doc)
  BY ReachedOn, DocumentAssumption
<1>2. CASE frames = << >>
  BY <1>1, <1>2, WantedFrom
<1>3. CASE frames # << >>
  <2>1. Len(frames) \in 1..Len(frames) /\ Wanted \in Children(doc, frames[Len(frames)].id)
    BY <1>3, WantedFrom
  <2>2. frames[Len(frames)].id \in Reachable(doc)
    BY <2>1 DEF Reading, Reached
  <2> QED BY <1>1, <2>1, <2>2
<1> QED BY <1>2, <1>3

\* An element that is returned to its collection is the one the collection waited for.
LEMMA ReturnPath ==
  ASSUME IInv, Path, status = "parsing", doc' = doc,
         NEW stack \in Seq(Frame), NEW i \in Ids, Return(stack, i),
         Len(stack) <= Len(frames), \A k \in 1..Len(stack) : stack[k] = frames[k],
         stack # << >> =>
           /\ Len(stack[Len(stack)].elems) < Len(RefsOf(stack[Len(stack)]))
           /\ i = RefsOf(stack[Len(stack)])[Len(stack[Len(stack)].elems) + 1]
  PROVE  /\ Path' /\ Len(frames') = Len(stack)
         /\ \A k \in 1..Len(stack) : k \in 1..Len(frames) /\ frames'[k].id = frames[k].id
         /\ status' = IF stack = << >> THEN "ok" ELSE "parsing"
<1> DEFINE n == Len(stack)
<1>1. /\ Len(frames') = n /\ n \in Nat /\ n <= Len(frames) /\ Len(frames) \in Nat
      /\ \A k \in 1..n :
           /\ frames'[k].id = frames[k].id
           /\ frames'[k].elems = IF k = n THEN Append(frames[k].elems, i) ELSE frames[k].elems
      /\ status' = IF stack = << >> THEN "ok" ELSE "parsing"
  BY ReturnFrames DEF IInv, TypeOK
<1>2. \A k \in 1..n : k \in 1..Len(frames) /\ (k # n => k # Len(frames)) /\ (k # 1 => k - 1 \in 1..n /\ k - 1 # n)
  BY <1>1
<1>3. n # 0 => /\ Len(frames[n].elems) < Len(RefsOf(frames[n]))
               /\ i = RefsOf(frames[n])[Len(frames[n].elems) + 1]
  <2> SUFFICES ASSUME n # 0
               PROVE  /\ Len(frames[n].elems) < Len(RefsOf(frames[n]))
                      /\ i = RefsOf(frames[n])[Len(frames[n].elems) + 1]
    OBVIOUS
  <2>1. stack # << >> /\ n \in 1..n
    BY <1>1
  <2>2. stack[n] = frames[n]
    BY <2>1
  <2> QED BY <2>1, <2>2
<1>4. \A k \in 1..n : RefsOf(frames[k])' = RefsOf(frames[k])
  BY <1>1 DEF RefsOf, ObjectOf
<1> HIDE DEF n
<1>5. ASSUME NEW k \in 1..n
      PROVE  /\ k = 1 => frames'[k].id = doc.top
             /\ k # 1 => frames'[k].id = RefsOf(frames[k - 1])[Len(frames'[k - 1].elems) + 1]
             /\ k # n => Len(frames'[k].elems) < Len(RefsOf(frames[k]))
             /\ ObjectOf(doc, frames'[k].id).fits
             /\ Len(frames'[k].elems) <= Len(RefsOf(frames[k]))
             /\ \A m \in 1..Len(frames'[k].elems) : frames'[k].elems[m] = RefsOf(frames[k])[m]
  <2>1. /\ k = 1 => frames'[k].id = doc.top
        /\ k # n => Len(frames'[k].elems) < Len(RefsOf(frames[k]))
        /\ ObjectOf(doc, frames'[k].id).fits
    BY <1>1, <1>2 DEF Path
  <2>2. k # 1 => frames'[k].id = RefsOf(frames[k - 1])[Len(frames'[k - 1].elems) + 1]
    <3> SUFFICES ASSUME k # 1 PROVE frames'[k].id = RefsOf(frames[k - 1])[Len(frames'[k - 1].elems) + 1]
      OBVIOUS
    <3>1. frames'[k - 1].elems = frames[k - 1].elems
      BY <1>1, <1>2
    <3>2. frames[k].id = RefsOf(frames[k - 1])[Len(frames[k - 1].elems) + 1]
      BY <1>2 DEF Path
    <3> QED BY <3>1, <3>2, <1>1
  <2>3. CASE k = n
    <3> DEFINE e == frames[k].elems
               r == RefsOf(frames[k])
    <3>1. /\ k \in 1..Len(frames) /\ frames'[k].elems = Append(e, i)
          /\ Len(e) < Len(r) /\ i = r[Len(e) + 1] /\ n # 0
      <4>1. k \in 1..Len(frames) /\ frames'[k].elems = Append(e, i) /\ n # 0
        <5>1. n # 0
          BY ONLY <1>1, k \in 1..n
        <5>2. k \in 1..Len(frames)
          BY <1>2
        <5>3. frames'[k].elems = Append(frames[k].elems, i)
          BY <1>1, <2>3
        <5> QED BY <5>1, <5>2, <5>3
      <4> QED BY <4>1, <1>3, <2>3
    <3>2. e \in Seq(Ids) /\ Len(r) \in Nat
      BY <3>1, FrameRefs DEF Frame
    <3>3. \A m \in 1..Len(e) : e[m] = r[m]
      BY <3>1 DEF Path
    <3> HIDE DEF e, r
    <3>4. Len(Append(e, i)) = Len(e) + 1 /\ Len(e) \in Nat
      BY <3>2
    <3>5. \A m \in 1..Len(Append(e, i)) : Append(e, i)[m] = r[m]
      BY <3>1, <3>2, <3>3, <3>4
    <3>6. Len(Append(e, i)) <= Len(r)
      BY <3>1, <3>2, <3>4
    <3>7. /\ Len(frames'[k].elems) <= Len(r)
          /\ \A m \in 1..Len(frames'[k].elems) : frames'[k].elems[m] = r[m]
      BY ONLY <3>1, <3>5, <3>6
    <3> QED BY <2>1, <2>2, <3>7 DEF r
  <2>4. CASE k # n
    <3>1. frames'[k].elems = frames[k].elems /\ k \in 1..Len(frames)
      BY <2>4, <1>1, <1>2
    <3>2. /\ Len(frames[k].elems) <= Len(RefsOf(frames[k]))
          /\ \A m \in 1..Len(frames[k].elems) : frames[k].elems[m] = RefsOf(frames[k])[m]
      BY <3>1 DEF Path
    <3>3. /\ Len(frames'[k].elems) <= Len(RefsOf(frames[k]))
          /\ \A m \in 1..Len(frames'[k].elems) : frames'[k].elems[m] = RefsOf(frames[k])[m]
      BY <3>1, <3>2
    <3> QED BY <2>1, <2>2, <3>3
  <2> QED BY <2>3, <2>4
<1>6. Path'
  <2> SUFFICES ASSUME NEW k \in 1..n
               PROVE /\ k = 1 => frames'[k].id = doc'.top
                     /\ k # 1 => frames'[k].id = RefsOf(frames[k - 1])'[Len(frames'[k - 1].elems) + 1]
                     /\ k # n => Len(frames'[k].elems) < Len(RefsOf(frames[k])')
                     /\ ObjectOf(doc', frames'[k].id).fits
                     /\ Len(frames'[k].elems) <= Len(RefsOf(frames[k])')
                     /\ \A m \in 1..Len(frames'[k].elems) : frames'[k].elems[m] = RefsOf(frames[k])'[m]
    BY <1>1 DEF Path
  <2>1. RefsOf(frames[k])' = RefsOf(frames[k]) /\ (k # 1 => RefsOf(frames[k - 1])' = RefsOf(frames[k - 1]))
    BY <1>2, <1>4
  <2> QED BY <2>1, <1>5
<1> QED BY <1>1, <1>2, <1>6 DEF n

LEMMA MemoStep ==
  ASSUME IInv, MemoRight, doc' = doc, NEW i \in Ids, objects[i] = NotParsed, LegalObject(doc, i),
         Memoize(i, [kind |-> ObjectOf(doc, i).kind, elems |-> ObjectOf(doc, i).refs]),
         \A m \in 1..Len(ObjectOf(doc, i).refs) :
           ObjectOf(doc, i).refs[m] \in Ids /\ objects[ObjectOf(doc, i).refs[m]] # NotParsed
  PROVE  /\ MemoRight' /\ objects'[i] # NotParsed
         /\ \A j \in Ids : j # i => objects'[j] = objects[j]
<1> DEFINE v == [kind |-> ObjectOf(doc, i).kind, elems |-> ObjectOf(doc, i).refs]
<1>1. v # NotParsed
  <2>1. ObjectOf(doc, i).kind \in Kinds
    BY DEF LegalObject, IsPlaced, ObjectOf, IInv, TypeOK, Document, Object
  <2>2. v.kind # "nil"
    BY <2>1 DEF Kinds, Collections
  <2> QED BY <2>2 DEF NotParsed
<1>2. objects'[i] = v /\ \A j \in Ids : j # i => objects'[j] = objects[j]
  BY DEF Memoize, IInv, TypeOK
<1> HIDE DEF v
<1>3. \A j \in Ids : objects[j] # NotParsed => objects'[j] # NotParsed
  BY <1>1, <1>2
<1>4. ASSUME NEW j \in Ids, objects'[j] # NotParsed
      PROVE  /\ LegalObject(doc, j)
             /\ objects'[j] = [kind |-> ObjectOf(doc, j).kind, elems |-> ObjectOf(doc, j).refs]
             /\ \A m \in 1..Len(ObjectOf(doc, j).refs) : objects'[ObjectOf(doc, j).refs[m]] # NotParsed
  <2>1. CASE j = i
    BY <2>1, <1>2, <1>3 DEF v
  <2>2. CASE j # i
    <3>1. /\ LegalObject(doc, j)
          /\ objects[j] = [kind |-> ObjectOf(doc, j).kind, elems |-> ObjectOf(doc, j).refs]
          /\ \A m \in 1..Len(ObjectOf(doc, j).refs) : objects[ObjectOf(doc, j).refs[m]] # NotParsed
          /\ objects'[j] = objects[j]
      BY <2>2, <1>2, <1>4 DEF MemoRight
    <3>2. ObjectOf(doc, j).refs \in Seq(Ids)
      <4>1. objects[j] \in Value /\ objects[j] # NotParsed
        BY <1>2, <1>4, <2>2 DEF IInv, TypeOK
      <4>2. objects[j].elems \in Seq(Ids)
        BY <4>1 DEF Value
      <4> QED BY <3>1, <4>2
    <3>3. \A m \in 1..Len(ObjectOf(doc, j).refs) : ObjectOf(doc, j).refs[m] \in Ids
      BY <3>2
    <3> QED BY <3>1, <3>3, <1>3
  <2> QED BY <2>1, <2>2
<1>5. MemoRight'
  <2>1. \A j \in Ids : LegalObject(doc, j)' = LegalObject(doc, j) /\ ObjectOf(doc, j)' = ObjectOf(doc, j)
    BY DEF LegalObject, ObjectOf, IsPlaced, IsCollection, HasStringKeys
  <2> QED BY <1>4, <2>1 DEF MemoRight
<1> QED BY <1>1, <1>2, <1>5

\* A step that keeps the document reaches what it reached.
LEMMA ReachedKept ==
  ASSUME IInv, Reading, doc' = doc,
         ~Cyclic(doc) => /\ \A i \in Ids : objects'[i] # NotParsed => objects[i] # NotParsed \/ i \in Reachable(doc)
                         /\ \A k \in 1..Len(frames') : \/ frames'[k].id \in Reachable(doc)
                                                       \/ k \in 1..Len(frames) /\ frames'[k].id = frames[k].id
  PROVE  Reached'
<1>1. Cyclic(doc)' = Cyclic(doc) /\ Reachable(doc)' = Reachable(doc)
  OBVIOUS
<1> QED BY <1>1 DEF Reading, Reached

LEMMA ReadFail == IInv /\ Reading /\ Fail => Reading'
<1> SUFFICES ASSUME IInv, Reading, Fail PROVE Reading'
  OBVIOUS
<1>1. frames' = << >> /\ doc' = doc /\ objects' = objects /\ status' = "error"
  BY DEF Fail
<1>2. Path'
  BY <1>1 DEF Path
<1>3. MemoRight'
  BY <1>1 DEF Reading, MemoRight, LegalObject, ObjectOf, IsPlaced, IsCollection, HasStringKeys
<1>4. Reached'
  BY <1>1, ReachedKept
<1> QED BY <1>1, <1>2, <1>3, <1>4 DEF Reading

\* What stack needs for ReturnPath when it is all the open collections.
LEMMA ReadLookup == IInv /\ Reading /\ FindParsed => Reading'
<1> SUFFICES ASSUME IInv, Reading, FindParsed PROVE Reading'
  OBVIOUS
<1>1. /\ Calling /\ status = "parsing" /\ Wanted \in Ids /\ objects[Wanted] # NotParsed
      /\ Return(frames, Wanted) /\ doc' = doc /\ objects' = objects
      /\ frames \in Seq(Frame) /\ Len(frames) <= Len(frames)
  BY WantedType DEF FindParsed, Calling, IInv, TypeOK
<1>2. /\ Path' /\ Len(frames') = Len(frames)
      /\ \A k \in 1..Len(frames) : frames'[k].id = frames[k].id
      /\ status' = IF frames = << >> THEN "ok" ELSE "parsing"
  BY <1>1, WantedFrom, ReturnPath DEF Reading
<1>3. MemoRight'
  BY <1>1 DEF Reading, MemoRight, LegalObject, ObjectOf, IsPlaced, IsCollection, HasStringKeys
<1>4. Reached'
  BY <1>1, <1>2, ReachedKept
<1>5. status' = "ok" => objects'[doc'.top] # NotParsed
  BY <1>1, <1>2, WantedFrom
<1> QED BY <1>1, <1>2, <1>3, <1>4, <1>5 DEF Reading

LEMMA ReadScalar == IInv /\ Reading /\ ParseScalar => Reading'
<1> SUFFICES ASSUME IInv, Reading, ParseScalar PROVE Reading'
  OBVIOUS
<1> DEFINE w == Wanted
           ob == ObjectOf(doc, w)
<1>1. /\ Calling /\ status = "parsing" /\ w \in Ids /\ objects[w] = NotParsed
      /\ OffOf(w) # Beyond /\ ob.kind \in {"scalar", "string"}
      /\ Memoize(w, [kind |-> ob.kind, elems |-> << >>])
      /\ Return(frames, w) /\ doc' = doc
      /\ frames \in Seq(Frame) /\ Len(frames) <= Len(frames)
  BY WantedType DEF ParseScalar, Parsing, Calling, IInv, TypeOK
<1>2. /\ Path' /\ Len(frames') = Len(frames)
      /\ \A k \in 1..Len(frames) : frames'[k].id = frames[k].id
      /\ status' = IF frames = << >> THEN "ok" ELSE "parsing"
  <2> HIDE DEF ob
  <2> QED BY <1>1, WantedFrom, ReturnPath DEF Reading
<1>3. IsPlaced(doc, w) /\ ob.kind \notin Collections /\ ob.refs = << >>
  <2>1. doc.offs[w] \in Offsets
    BY <1>1 DEF OffOf, IInv, TypeOK, Document
  <2>2. ob.kind \notin Collections
    BY <1>1 DEF Collections
  <2> QED BY <1>1, <2>1, <2>2, DocumentAssumption DEF IsPlaced, ObjectOf, Reading
<1>4. LegalObject(doc, w)
  BY <1>1, <1>3 DEF LegalObject, IsCollection
<1>5. /\ MemoRight' /\ objects'[w] # NotParsed
      /\ \A j \in Ids : j # w => objects'[j] = objects[j]
  <2>1. Memoize(w, [kind |-> ObjectOf(doc, w).kind, elems |-> ObjectOf(doc, w).refs])
    BY <1>1, <1>3
  <2>2. \A m \in 1..Len(ObjectOf(doc, w).refs) :
           ObjectOf(doc, w).refs[m] \in Ids /\ objects[ObjectOf(doc, w).refs[m]] # NotParsed
    BY <1>3
  <2> HIDE DEF w
  <2> QED BY <1>1, <1>4, <2>1, <2>2, MemoStep DEF Reading
<1>6. Reached'
  BY <1>1, <1>2, <1>5, WantedReached, ReachedKept
<1>7. status' = "ok" => objects'[doc'.top] # NotParsed
  BY <1>1, <1>2, <1>5, WantedFrom
<1> QED BY <1>1, <1>2, <1>5, <1>6, <1>7 DEF Reading

LEMMA ReadOpen == IInv /\ Reading /\ OpenCollection => Reading'
<1> SUFFICES ASSUME IInv, Reading, OpenCollection PROVE Reading'
  OBVIOUS
<1> DEFINE f == [id |-> Wanted, elems |-> << >>]
           n == Len(frames)
<1>1. /\ Calling /\ status = "parsing" /\ IsCollection(doc, Wanted) /\ ObjectOf(doc, Wanted).fits
      /\ frames' = Append(frames, f)
      /\ doc' = doc /\ objects' = objects /\ status' = status
  BY DEF OpenCollection, Parsing, Calling
<1>2. frames \in Seq(Frame) /\ f \in Frame /\ n \in Nat
  BY <1>1 DEF IInv, TypeOK, Frame, IsCollection, IsPlaced
<1>3. /\ Len(frames') = n + 1 /\ frames'[n + 1] = f
      /\ \A k \in 1..n : frames'[k] = frames[k]
  BY <1>1, <1>2
<1>4. \A k \in 1..(n + 1) : RefsOf(frames[k])' = RefsOf(frames'[k])
  BY <1>1 DEF RefsOf, ObjectOf
<1>5. f.id = Wanted /\ f.elems = << >>
  OBVIOUS
<1> HIDE DEF f, n
<1>6. ASSUME NEW k \in 1..(n + 1)
      PROVE  /\ k = 1 => frames'[k].id = doc.top
             /\ k # 1 => frames'[k].id = RefsOf(frames'[k - 1])[Len(frames'[k - 1].elems) + 1]
             /\ k # n + 1 => Len(frames'[k].elems) < Len(RefsOf(frames'[k]))
             /\ ObjectOf(doc, frames'[k].id).fits
             /\ Len(frames'[k].elems) <= Len(RefsOf(frames'[k]))
             /\ \A m \in 1..Len(frames'[k].elems) : frames'[k].elems[m] = RefsOf(frames'[k])[m]
  <2>1. CASE k = n + 1
    <3>1. frames'[k] = f /\ Len(f.elems) = 0 /\ Len(RefsOf(f)) \in Nat
      <4>1. ObjectOf(doc, Wanted) \in Object
        BY <1>1 DEF IsCollection, IsPlaced, ObjectOf, IInv, TypeOK, Document
      <4>2. RefsOf(f) \in Seq(Ids \cup {BadRef})
        BY <4>1, <1>5 DEF RefsOf, Object
      <4> QED BY <4>2, <1>3, <1>5, <2>1
    <3>2. k = 1 => Wanted = doc.top
      <4>1. k = 1 => frames = << >>
        BY <2>1, <1>2 DEF n
      <4> QED BY <4>1, <1>1, WantedFrom
    <3>3. k # 1 => Wanted = RefsOf(frames[n])[Len(frames[n].elems) + 1] /\ frames'[k - 1] = frames[n]
      <4> SUFFICES ASSUME k # 1
                   PROVE  Wanted = RefsOf(frames[n])[Len(frames[n].elems) + 1] /\ frames'[k - 1] = frames[n]
        OBVIOUS
      <4>1. n \in 1..n /\ k - 1 = n /\ n # 0
        BY <2>1, <1>2
      <4>2. frames # << >>
        BY <4>1 DEF n
      <4>3. frames'[k - 1] = frames[n]
        BY <4>1, <1>3
      <4> QED BY <4>2, <4>3, <1>1, WantedFrom DEF n
    <3>4. /\ Len(f.elems) <= Len(RefsOf(f))
          /\ \A m \in 1..Len(f.elems) : f.elems[m] = RefsOf(f)[m]
      BY <3>1
    <3> QED BY <2>1, <3>1, <3>2, <3>3, <3>4, <1>1, <1>5
  <2>2. CASE k # n + 1
    <3>1. k \in 1..n /\ frames'[k] = frames[k] /\ (k # 1 => frames'[k - 1] = frames[k - 1])
      BY <2>2, <1>2, <1>3
    <3>2. /\ k = 1 => frames[k].id = doc.top
          /\ k # 1 => frames[k].id = RefsOf(frames[k - 1])[Len(frames[k - 1].elems) + 1]
          /\ k # n => Len(frames[k].elems) < Len(RefsOf(frames[k]))
          /\ ObjectOf(doc, frames[k].id).fits
          /\ Len(frames[k].elems) <= Len(RefsOf(frames[k]))
          /\ \A m \in 1..Len(frames[k].elems) : frames[k].elems[m] = RefsOf(frames[k])[m]
      BY <3>1 DEF Reading, Path, n
    <3>3. k = n => Len(frames[k].elems) < Len(RefsOf(frames[k]))
      <4> SUFFICES ASSUME k = n PROVE Len(frames[k].elems) < Len(RefsOf(frames[k]))
        OBVIOUS
      <4>1. frames # << >>
        BY <3>1, <1>2 DEF n
      <4> QED BY <4>1, <1>1, WantedFrom DEF n
    <3> QED BY <3>1, <3>2, <3>3
  <2> QED BY <2>1, <2>2
<1>7. Path'
  <2>1. \A k \in 1..(n + 1) : k # 1 => RefsOf(frames[k - 1])' = RefsOf(frames'[k - 1])
    BY <1>1 DEF RefsOf, ObjectOf
  <2>2. \A k \in 1..(n + 1) : ObjectOf(doc, frames[k].id)' = ObjectOf(doc, frames'[k].id)
    BY <1>1 DEF ObjectOf
  <2> QED BY <1>1, <1>3, <1>4, <1>6, <2>1, <2>2 DEF Path
<1>8. MemoRight'
  BY <1>1 DEF Reading, MemoRight, LegalObject, ObjectOf, IsPlaced, IsCollection, HasStringKeys
<1>9. Reached'
  <2>1. \A k \in 1..Len(frames') :
          \/ frames'[k].id = Wanted
          \/ k \in 1..Len(frames) /\ frames'[k].id = frames[k].id
    BY <1>2, <1>3, <1>5 DEF n
  <2> QED BY <2>1, <1>1, WantedReached, ReachedKept
<1> QED BY <1>1, <1>7, <1>8, <1>9 DEF Reading

LEMMA Prefix ==
  ASSUME NEW S, NEW s \in Seq(S), NEW m \in Nat, m <= Len(s)
  PROVE  /\ SubSeq(s, 1, m) \in Seq(S) /\ Len(SubSeq(s, 1, m)) = m
         /\ \A k \in 1..m : SubSeq(s, 1, m)[k] = s[k]
OBVIOUS

\* A collection whose list is complete has the references of its object as elements.
LEMMA Complete ==
  ASSUME IInv, Reading, status = "parsing", ~Looping
  PROVE  /\ frames # << >> /\ Len(frames) \in 1..Len(frames) /\ Last(frames) = frames[Len(frames)]
         /\ IsCollection(doc, Last(frames).id)
         /\ Last(frames).elems = ObjectOf(doc, Last(frames).id).refs
         /\ Last(frames).elems \in Seq(Ids)
         /\ \A m \in 1..Len(Last(frames).elems) : objects[Last(frames).elems[m]] # NotParsed
<1> DEFINE n == Len(frames)
           f == Last(frames)
<1>1. frames # << >> /\ ~(Len(f.elems) < Len(RefsOf(f)))
  BY DEF Looping
<1>2. n \in 1..n /\ f = frames[n]
  BY <1>1 DEF IInv, TypeOK, Last
<1> HIDE DEF n, f
<1>3. /\ f \in Frame /\ IsCollection(doc, f.id) /\ RefsOf(f) \in Seq(Ids \cup {BadRef})
      /\ Len(RefsOf(f)) \in Nat /\ Len(f.elems) \in Nat
  BY <1>2, FrameRefs DEF n
<1>4. f.elems \in Seq(Ids)
  BY <1>3 DEF Frame
<1>5. Len(f.elems) <= Len(RefsOf(f)) /\ \A m \in 1..Len(f.elems) : f.elems[m] = RefsOf(f)[m]
  BY <1>2 DEF Reading, Path, n
<1>6. Len(f.elems) = Len(RefsOf(f))
  BY <1>1, <1>3, <1>5
<1>7. f.elems = RefsOf(f)
  BY <1>3, <1>4, <1>5, <1>6
<1>8. \A m \in 1..Len(f.elems) : objects[f.elems[m]] # NotParsed
  BY <1>2 DEF IInv, FramesOpen, n
<1> QED BY <1>1, <1>2, <1>3, <1>4, <1>7, <1>8 DEF n, f, RefsOf

\* The keys the parser looks at are those of the document.
LEMMA KeysAgree ==
  ASSUME IInv, Reading, status = "parsing", ~Looping
  PROVE  /\ KeysAreStrings(Last(frames)) =>
              (ObjectOf(doc, Last(frames).id).kind = "dict" => HasStringKeys(doc, Last(frames).id))
         /\ ~KeysAreStrings(Last(frames)) =>
              (ObjectOf(doc, Last(frames).id).kind = "dict" /\ ~HasStringKeys(doc, Last(frames).id))
<1> DEFINE f == Last(frames)
           r == ObjectOf(doc, f.id).refs
<1>1. /\ f.elems = r /\ r \in Seq(Ids) /\ \A m \in 1..Len(r) : objects[r[m]] # NotParsed
  BY Complete
<1> HIDE DEF f
<1>2. \A k \in 1..(Len(r) \div 2) : k \in 1..Len(r)
  <2>1. Len(r) \in Nat
    BY <1>1
  <2> HIDE DEF r
  <2> QED BY <2>1
<1>3. \A k \in 1..(Len(r) \div 2) :
        /\ IsPlaced(doc, r[k])
        /\ objects[r[k]].kind = ObjectOf(doc, r[k]).kind
  <2> SUFFICES ASSUME NEW k \in 1..(Len(r) \div 2)
               PROVE  /\ IsPlaced(doc, r[k])
                      /\ objects[r[k]].kind = ObjectOf(doc, r[k]).kind
    OBVIOUS
  <2> HIDE DEF r
  <2>1. k \in 1..Len(r)
    BY <1>2
  <2>2. r[k] \in Ids
    BY <1>1, <2>1
  <2>3. objects[r[k]] # NotParsed
    BY <1>1, <2>1
  <2> DEFINE j == r[k]
  <2> HIDE DEF j
  <2>4. /\ LegalObject(doc, j)
        /\ objects[j] = [kind |-> ObjectOf(doc, j).kind, elems |-> ObjectOf(doc, j).refs]
    BY <2>2, <2>3 DEF Reading, MemoRight, j
  <2>5. objects[j].kind = ObjectOf(doc, j).kind
    BY <2>4
  <2> QED BY <2>4, <2>5 DEF LegalObject, j
<1>4. KeysAreStrings(f) <=>
        (ObjectOf(doc, f.id).kind = "dict" =>
           \A k \in 1..(Len(r) \div 2) : objects[r[k]].kind = "string")
  BY <1>1 DEF KeysAreStrings
<1>5. HasStringKeys(doc, f.id) <=> \A k \in 1..(Len(r) \div 2) : objects[r[k]].kind = "string"
  BY <1>3 DEF HasStringKeys
<1> HIDE DEF r
<1> QED BY <1>4, <1>5 DEF f

LEMMA ReadClose == IInv /\ Reading /\ CloseCollection => Reading'
<1> SUFFICES ASSUME IInv, Reading, CloseCollection PROVE Reading'
  OBVIOUS
<1> DEFINE n == Len(frames)
           f == Last(frames)
           w == f.id
           stack == Front(frames)
<1>1. /\ status = "parsing" /\ ~Looping /\ KeysAreStrings(f)
      /\ Memoize(w, [kind |-> ObjectOf(doc, w).kind, elems |-> f.elems])
      /\ Return(stack, w) /\ doc' = doc
  BY DEF CloseCollection
<1>2. /\ n \in 1..n /\ f = frames[n]
      /\ IsCollection(doc, w) /\ f.elems = ObjectOf(doc, w).refs
      /\ f.elems \in Seq(Ids) /\ \A m \in 1..Len(f.elems) : objects[f.elems[m]] # NotParsed
  BY <1>1, Complete
<1>3. /\ frames \in Seq(Frame) /\ n \in Nat /\ w \in Ids /\ objects[w] = NotParsed
  BY <1>2 DEF IInv, TypeOK, FramesOpen, IsCollection, IsPlaced
<1>4. /\ stack \in Seq(Frame) /\ Len(stack) = n - 1
      /\ \A k \in 1..(n - 1) : stack[k] = frames[k]
  <2>1. stack = SubSeq(frames, 1, n - 1) /\ n - 1 \in Nat /\ n - 1 <= Len(frames)
    BY <1>2, <1>3 DEF Front
  <2> QED BY <1>3, <2>1, Prefix
<1> HIDE DEF f, w, stack, n
<1>5. LegalObject(doc, w)
  <2>1. ObjectOf(doc, w).kind = "dict" => HasStringKeys(doc, w)
    BY <1>1, KeysAgree DEF f, w
  <2>2. ObjectOf(doc, w).fits
    BY <1>2 DEF Reading, Path, n, w
  <2>3. IsPlaced(doc, w) /\ ObjectOf(doc, w).kind # "illegal"
    BY <1>2 DEF IsCollection, Collections
  <2> QED BY <2>1, <2>2, <2>3 DEF LegalObject
<1>6. stack # << >> =>
        /\ Len(stack[Len(stack)].elems) < Len(RefsOf(stack[Len(stack)]))
        /\ w = RefsOf(stack[Len(stack)])[Len(stack[Len(stack)].elems) + 1]
  <2> SUFFICES ASSUME stack # << >>
               PROVE  /\ Len(stack[Len(stack)].elems) < Len(RefsOf(stack[Len(stack)]))
                      /\ w = RefsOf(stack[Len(stack)])[Len(stack[Len(stack)].elems) + 1]
    OBVIOUS
  <2>0. Len(stack) # 0
    BY <1>4
  <2>1. n - 1 \in 1..(n - 1) /\ n - 1 \in 1..n /\ n - 1 # n /\ n # 1
    BY <1>3, <1>4, <2>0
  <2>2. stack[Len(stack)] = frames[n - 1]
    BY <1>4, <2>1
  <2>3. Len(frames[n - 1].elems) < Len(RefsOf(frames[n - 1]))
    BY <2>1 DEF Reading, Path, n
  <2>4. frames[n].id = RefsOf(frames[n - 1])[Len(frames[n - 1].elems) + 1]
    BY <2>1, <1>2 DEF Reading, Path, n
  <2> QED BY <2>2, <2>3, <2>4, <1>2 DEF w
<1>7. Len(stack) <= Len(frames) /\ \A k \in 1..Len(stack) : stack[k] = frames[k]
  BY <1>3, <1>4 DEF n
<1>8. /\ Path' /\ Len(frames') = Len(stack)
      /\ \A k \in 1..Len(stack) : k \in 1..Len(frames) /\ frames'[k].id = frames[k].id
      /\ status' = IF stack = << >> THEN "ok" ELSE "parsing"
  BY <1>1, <1>3, <1>4, <1>6, <1>7, ReturnPath DEF Reading
<1>9. /\ MemoRight' /\ objects'[w] # NotParsed
      /\ \A j \in Ids : j # w => objects'[j] = objects[j]
  <2>1. \A m \in 1..Len(ObjectOf(doc, w).refs) :
           ObjectOf(doc, w).refs[m] \in Ids /\ objects[ObjectOf(doc, w).refs[m]] # NotParsed
    BY <1>2
  <2>2. Memoize(w, [kind |-> ObjectOf(doc, w).kind, elems |-> ObjectOf(doc, w).refs])
    BY <1>1, <1>2
  <2> QED BY <1>1, <1>3, <1>5, <2>1, <2>2, MemoStep DEF Reading
<1>10. Reached'
  <2>1. ~Cyclic(doc) => w \in Reachable(doc)
    BY <1>2 DEF Reading, Reached, n, w
  <2> QED BY <2>1, <1>1, <1>8, <1>9, ReachedKept
<1>11. status' = "ok" => objects'[doc'.top] # NotParsed
  <2>1. stack = << >> => w = doc.top
    <3>1. stack = << >> => n = 1
      BY <1>3, <1>4
    <3> QED BY <3>1, <1>2 DEF Reading, Path, n, w
  <2> QED BY <2>1, <1>1, <1>8, <1>9
<1> QED BY <1>1, <1>8, <1>9, <1>10, <1>11 DEF Reading

LEMMA InitReading == ParserInit => Reading
BY DEF ParserInit, Reading, Path, MemoRight, Reached

LEMMA NextReading == IInv /\ Reading /\ [ParserNext]_parserVars => Reading'
<1> SUFFICES ASSUME IInv, Reading, [ParserNext]_parserVars PROVE Reading'
  OBVIOUS
<1>1. CASE UNCHANGED parserVars
  <2>1. doc' = doc /\ frames' = frames /\ objects' = objects /\ status' = status
    BY <1>1 DEF parserVars
  <2>2. Path' /\ MemoRight'
    BY <2>1 DEF Reading, Path, RefsOf, MemoRight, LegalObject, ObjectOf, IsPlaced, IsCollection, HasStringKeys
  <2>3. Reached'
    BY <2>1, ReachedKept
  <2> QED BY <2>1, <2>2, <2>3 DEF Reading
<1> QED BY <1>1, ReadFail, ReadLookup, ReadScalar, ReadOpen, ReadClose
        DEF ParserNext, RejectIndex, RejectOffset, RejectObject, RejectNesting, RejectList, RejectKey

\* What the memo table says of the document is true of it.
\* At every step the parser has read what the document says: the open calls are a
\* path of references from the top, every memo entry is the legal object of its id
\* with its elements memoized, and nothing but what the top reaches has been parsed.
THEOREM ReadsTheDocument == ParserSpec => []Reading
BY InitReading, NextReading, Inductive, PTL DEF ParserSpec

-------------------------------------------------------------------------------
(***************************************************************************)
(* The refinement of BplistPromise.                                        *)
(***************************************************************************)
\* The promise reads a document as the parser's module does.
LEMMA SameMeaning ==
  /\ Promise!Document = Document
  /\ \A i : Promise!ObjectOf(doc, i) = ObjectOf(doc, i)
  /\ Promise!Reachable(doc) = Reachable(doc)
  /\ Promise!WellFormed(doc) <=> WellFormed(doc)
  /\ Promise!NestingDepth(doc) = NestingDepth(doc)
<1>0. \A S : Promise!Cardinality(S) = Cardinality(S)
  BY DEF Promise!Cardinality, Cardinality, Promise!IsFiniteSet, IsFiniteSet
<1>1. Promise!Document = Document
  BY DEF Promise!Document, Document, Promise!Object, Object, Promise!Kinds, Kinds,
         Promise!Collections, Collections
<1>2. ASSUME NEW i PROVE Promise!ObjectOf(doc, i) = ObjectOf(doc, i)
  BY DEF Promise!ObjectOf, ObjectOf
<1>3. ASSUME NEW i PROVE Promise!IsPlaced(doc, i) <=> IsPlaced(doc, i)
  BY DEF Promise!IsPlaced, IsPlaced
<1>4. ASSUME NEW i PROVE Promise!IsCollection(doc, i) <=> IsCollection(doc, i)
  BY <1>2, <1>3 DEF Promise!IsCollection, IsCollection, Promise!Collections, Collections
<1>5. ASSUME NEW i PROVE Promise!Children(doc, i) = Children(doc, i)
  BY <1>2, <1>4 DEF Promise!Children, Children
<1>6. Promise!Level(doc) = Level(doc)
  BY <1>0 DEF Promise!Level, Level, Promise!Children, Children, Promise!IsCollection, IsCollection,
         Promise!IsPlaced, IsPlaced, Promise!ObjectOf, ObjectOf, Promise!Collections, Collections
<1>7. Promise!Reachable(doc) = Reachable(doc)
  BY <1>0, <1>6 DEF Promise!Reachable, Reachable
<1>8. ASSUME NEW i PROVE Promise!HasStringKeys(doc, i) <=> HasStringKeys(doc, i)
  BY <1>2, <1>3 DEF Promise!HasStringKeys, HasStringKeys
<1>9. ASSUME NEW i PROVE Promise!LegalObject(doc, i) <=> LegalObject(doc, i)
  BY <1>2, <1>3, <1>4, <1>8 DEF Promise!LegalObject, LegalObject
<1>10. Promise!Cyclic(doc) <=> Cyclic(doc)
  BY <1>0, <1>6 DEF Promise!Cyclic, Cyclic
<1>11. Promise!WellFormed(doc) <=> WellFormed(doc)
  BY <1>7, <1>9, <1>10 DEF Promise!WellFormed, WellFormed
<1>12. Promise!NestingDepth(doc) = NestingDepth(doc)
  <2>1. ASSUME NEW n PROVE (\E i \in Promise!Level(doc)[n] : Promise!IsCollection(doc, i))
                           <=> (\E i \in Level(doc)[n] : IsCollection(doc, i))
    BY <1>4, <1>6
  <2>2. {n \in 0..Cardinality(Ids) : \E i \in Promise!Level(doc)[n] : Promise!IsCollection(doc, i)}
        = {n \in 0..Cardinality(Ids) : \E i \in Level(doc)[n] : IsCollection(doc, i)}
    BY <2>1
  <2> QED BY <1>0, <2>2 DEF Promise!NestingDepth, NestingDepth
<1> QED BY <1>1, <1>2, <1>7, <1>11, <1>12

\* What an accepted document yields is exactly the value it denotes.
Denoted ==
  status = "ok" =>
    WellFormed(doc) /\ [i \in {j \in Ids : objects[j] # NotParsed} |-> objects[i]] = Promise!Denotation(doc)

LEMMA Denotes ==
  ASSUME IInv, Reading
  PROVE  Denoted
<1> SUFFICES ASSUME status = "ok"
             PROVE  /\ WellFormed(doc)
                    /\ [i \in {j \in Ids : objects[j] # NotParsed} |-> objects[i]] = Promise!Denotation(doc)
  BY DEF Denoted
<1> DEFINE M == {j \in Ids : objects[j] # NotParsed}
           L == Len(finished)
           rank == [i \in M |-> CHOOSE n \in 1..L : finished[n] = i]
<1>0. IsFiniteSet(Ids)
  BY DocumentAssumption
<1>1. doc.top \in M
  BY DEF Reading, IInv, TypeOK, Document
<1>2. ASSUME NEW i \in M, NEW c \in Children(doc, i)
      PROVE  c \in M /\ \E k \in DOMAIN objects[i].elems : c = objects[i].elems[k]
  <2>1. /\ objects[i].elems = ObjectOf(doc, i).refs
        /\ \A m \in 1..Len(ObjectOf(doc, i).refs) : objects[ObjectOf(doc, i).refs[m]] # NotParsed
    <3>1. i \in Ids /\ objects[i] # NotParsed
      OBVIOUS
    <3>2. objects[i] = [kind |-> ObjectOf(doc, i).kind, elems |-> ObjectOf(doc, i).refs]
      BY <3>1 DEF Reading, MemoRight
    <3>3. \A m \in 1..Len(ObjectOf(doc, i).refs) : objects[ObjectOf(doc, i).refs[m]] # NotParsed
      BY <3>1 DEF Reading, MemoRight
    <3> QED BY <3>2, <3>3
  <2>2. PICK k \in DOMAIN ObjectOf(doc, i).refs : c = ObjectOf(doc, i).refs[k]
    BY DEF Children
  <2>3. objects[i].elems \in Seq(Ids)
    <3>1. objects[i] \in Value /\ objects[i] # NotParsed
      BY DEF IInv, TypeOK
    <3> QED BY <3>1 DEF Value
  <2>4. k \in 1..Len(ObjectOf(doc, i).refs) /\ c \in Ids
    BY <2>1, <2>2, <2>3
  <2> QED BY <2>1, <2>2, <2>4
<1>3. /\ finished \in Seq(Ids) /\ DOMAIN finished = 1..L /\ L \in Nat
      /\ \A a, b \in 1..L : finished[a] = finished[b] => a = b
      /\ \A i \in M : \E n \in 1..L : finished[n] = i
  BY DEF IInv, TypeOK, ParsedOnce, IsInjective, Range
<1>4. L <= Cardinality(Ids)
  <2>1. finished \in Injection(1..L, Ids)
    BY <1>3 DEF Injection, IsInjective
  <2>2. Cardinality(1..L) <= Cardinality(Ids)
    <3> DEFINE A == 1..L
    <3> HIDE DEF A
    <3>1. finished \in Injection(A, Ids)
      BY <2>1 DEF A
    <3>2. Cardinality(A) <= Cardinality(Ids)
      BY <1>0, <3>1, FS_Injection
    <3> QED BY <3>2 DEF A
  <2>3. Cardinality(1..L) = L
    <3>1. 1 \in Int /\ L \in Int
      BY <1>3
    <3> HIDE DEF L
    <3>2. Cardinality(1..L) = IF 1 > L THEN 0 ELSE L - 1 + 1
      BY <3>1, FS_Interval
    <3>3. L \in Nat
      BY <1>3 DEF L
    <3> QED BY <3>2, <3>3
  <2> QED BY <2>2, <2>3
<1>5. \A i \in M : rank[i] \in 1..L /\ finished[rank[i]] = i
  <2> SUFFICES ASSUME NEW i \in M PROVE rank[i] \in 1..L /\ finished[rank[i]] = i
    OBVIOUS
  <2>1. \E n \in 1..L : finished[n] = i
    BY <1>3
  <2>2. rank[i] = CHOOSE n \in 1..L : finished[n] = i
    OBVIOUS
  <2> HIDE DEF rank
  <2> QED BY <2>1, <2>2
<1> HIDE DEF rank
<1>6. ASSUME NEW i \in M, NEW c \in Children(doc, i) PROVE rank[c] < rank[i]
  <2>1. c \in M
    BY <1>2
  <2>2. PICK k \in DOMAIN objects[i].elems : c = objects[i].elems[k]
    BY <1>2
  <2>3. rank[i] \in 1..L /\ finished[rank[i]] = i /\ rank[c] \in 1..L /\ finished[rank[c]] = c
    BY <2>1, <1>5
  <2>4. PICK m \in 1..(rank[i] - 1) : finished[m] = c
    BY <2>2, <2>3, <1>3 DEF IInv, ChildrenFirst
  <2>5. m \in 1..L /\ m < rank[i]
    BY <2>3, <1>3
  <2>6. m = rank[c]
    BY <2>3, <2>4, <2>5, <1>3
  <2> QED BY <2>5, <2>6
<1>7. Cardinality(Ids) \in Nat
  BY <1>0, FS_CardinalityType
<1>8. \A i \in M : rank[i] \in 1..Cardinality(Ids)
  BY <1>3, <1>4, <1>5, <1>7
<1>9. /\ \A i \in M : \A c \in Children(doc, i) : c \in M
      /\ \A i \in M : \A c \in Children(doc, i) : rank[c] < rank[i]
  BY <1>2, <1>6
<1> HIDE DEF M
<1>10. ~Cyclic(doc)
  BY <1>0, <1>1, <1>8, <1>9, RankedIsAcyclic
<1>11. \A n \in 0..Cardinality(Ids) : Level(doc)[n] \subseteq M
  BY <1>0, <1>1, <1>9, ClosedHoldsReachable
<1>12. Reachable(doc) = M
  <2>1. M \subseteq Reachable(doc)
    BY <1>10 DEF Reading, Reached, M
  <2>2. Reachable(doc) \subseteq M
    BY <1>11 DEF Reachable
  <2> QED BY <2>1, <2>2
<1>13. \A i \in M : LegalObject(doc, i)
  BY DEF M, Reading, MemoRight
<1>14. WellFormed(doc)
  BY <1>10, <1>12, <1>13 DEF WellFormed
<1>15. \A i \in M : objects[i] = [kind |-> ObjectOf(doc, i).kind, elems |-> ObjectOf(doc, i).refs]
  BY DEF M, Reading, MemoRight
<1>16. [i \in M |-> objects[i]] = Promise!Denotation(doc)
  BY <1>12, <1>15, SameMeaning DEF Promise!Denotation
<1> QED BY <1>14, <1>16 DEF M

\* A document is refused for a reason.
LEMMA NestingRefused ==
  ASSUME IInv, Reading, RejectNesting, ~Cyclic(doc)
  PROVE  NestingDepth(doc) > MaxNesting
<1> DEFINE n == Len(frames)
           c == [m \in 0..n |-> IF m = n THEN Wanted ELSE frames[m + 1].id]
<1>0. IsFiniteSet(Ids) /\ n \in Nat /\ frames \in Seq(Frame)
  BY DocumentAssumption DEF IInv, TypeOK
<1>1. Calling /\ IsCollection(doc, Wanted) /\ (TooDeep \/ SelfReferential(OffOf(Wanted)))
  BY DEF RejectNesting, Parsing
<1>2. \A m \in 0..(n - 1) : m + 1 \in 1..n /\ m \in 0..n /\ m # n
  BY <1>0
<1>3. /\ \A m \in 0..(n - 1) : c[m] = frames[m + 1].id
      /\ c[n] = Wanted
  BY <1>0, <1>2
<1> HIDE DEF c, n
<1>4. \A m \in 0..n : IsCollection(doc, c[m])
  <2> SUFFICES ASSUME NEW m \in 0..n PROVE IsCollection(doc, c[m])
    OBVIOUS
  <2>1. CASE m = n
    BY <2>1, <1>1, <1>3
  <2>2. CASE m # n
    <3>1. m \in 0..(n - 1) /\ m + 1 \in 1..n
      BY <2>2, <1>0
    <3> QED BY <3>1, <1>3, FrameRefs DEF n
  <2> QED BY <2>1, <2>2
<1>5. c[0] = doc.top
  <2>1. CASE n = 0
    <3>1. frames = << >>
      BY <2>1, <1>0 DEF n
    <3> QED BY <2>1, <3>1, <1>1, <1>3, WantedFrom
  <2>2. CASE n # 0
    <3>1. 0 \in 0..(n - 1) /\ 1 \in 1..n /\ 0 + 1 = 1
      BY <2>2, <1>0
    <3> QED BY <3>1, <1>3 DEF Reading, Path, n
  <2> QED BY <2>1, <2>2
<1>6. ASSUME NEW m \in 1..n PROVE c[m] \in Children(doc, c[m - 1])
  <2>1. m - 1 \in 0..(n - 1) /\ (m - 1) + 1 = m
    BY <1>0
  <2>2. c[m - 1] = frames[m].id
    BY <2>1, <1>3
  <2>3. CASE m = n
    <3>1. frames # << >>
      BY <2>3, <1>0 DEF n
    <3> QED BY <2>2, <2>3, <3>1, <1>1, <1>3, WantedFrom DEF n
  <2>4. CASE m # n
    <3>1. m \in 0..(n - 1) /\ m + 1 \in 1..n /\ (m + 1) - 1 = m /\ m + 1 # 1
      BY <2>4, <1>0
    <3>2. c[m] = frames[m + 1].id
      BY <3>1, <1>3
    <3>3. frames[m + 1].id = RefsOf(frames[m])[Len(frames[m].elems) + 1]
      BY <3>1 DEF Reading, Path, n
    <3>4. Len(frames[m].elems) < Len(RefsOf(frames[m]))
      BY <2>4 DEF Reading, Path, n
    <3>5. /\ Len(RefsOf(frames[m])) \in Nat /\ Len(frames[m].elems) \in Nat
          /\ \A j \in 1..Len(RefsOf(frames[m])) : RefsOf(frames[m])[j] \in Children(doc, frames[m].id)
      BY FrameRefs DEF n
    <3>6. Len(frames[m].elems) + 1 \in 1..Len(RefsOf(frames[m]))
      BY <3>4, <3>5
    <3> QED BY <2>2, <3>2, <3>3, <3>5, <3>6
  <2> QED BY <2>3, <2>4
<1>7. n < NestingDepth(doc) /\ n < Cardinality(Ids) /\ \A m \in 0..n : c[m] \in Level(doc)[m]
  BY <1>0, <1>4, <1>5, <1>6, ChainNests, ChainDown
<1>8. CASE TooDeep
  <2>1. Len(containerStack) = n
    BY DEF IInv, ContainerStackExact, TypeOK, n
  <2>2. MaxNesting <= n
    BY <2>1, <1>8, <1>0, NestingAssumption DEF TooDeep
  <2>3. NestingDepth(doc) \in Nat
    <3> DEFINE S == {m \in 0..Cardinality(Ids) : \E i \in Level(doc)[m] : IsCollection(doc, i)}
    <3>1. IsFiniteSet(0..Cardinality(Ids))
      <4>1. 0 \in Int /\ Cardinality(Ids) \in Int
        BY <1>0, FS_CardinalityType
      <4> QED BY <4>1, FS_Interval
    <3> DEFINE B == 0..Cardinality(Ids)
    <3>2. S \in SUBSET B /\ IsFiniteSet(B)
      BY <3>1
    <3> HIDE DEF S, B
    <3>3. IsFiniteSet(S)
      BY ONLY <3>2, FS_Subset
    <3>4. Cardinality(S) \in Nat
      BY <3>3, FS_CardinalityType
    <3> QED BY <3>4 DEF NestingDepth, S
  <2> QED BY <2>2, <2>3, <1>0, <1>7, NestingAssumption
<1>9. CASE SelfReferential(OffOf(Wanted))
  <2>1. PICK k \in 1..n : OffOf(frames[k].id) = OffOf(Wanted)
    <3>1. containerStack = [k \in 1..n |-> OffOf(frames[k].id)]
      BY DEF IInv, ContainerStackExact, n
    <3> QED BY <3>1, <1>9 DEF SelfReferential, Range
  <2> DEFINE P == {c[m] : m \in (k - 1)..n}
  <2>2. k - 1 \in 0..(n - 1) /\ k - 1 \in 0..n /\ (k - 1) + 1 = k /\ k - 1 \in (k - 1)..n
    BY <1>0
  <2>3. c[k - 1] = frames[k].id
    BY <2>2, <1>3
  <2>4. Children(doc, c[k - 1]) = Children(doc, Wanted)
    <3>1. ObjectOf(doc, c[k - 1]) = ObjectOf(doc, Wanted)
      BY <2>1, <2>3 DEF OffOf, ObjectOf
    <3>2. IsCollection(doc, c[k - 1])
      BY <2>2, <1>4
    <3> QED BY <3>1, <3>2, <1>1 DEF Children
  <2>5. ASSUME NEW i \in P PROVE \E j \in P : j \in Children(doc, i)
    <3>1. PICK m \in (k - 1)..n : i = c[m]
      OBVIOUS
    <3>2. CASE m = n
      <4>1. k \in (k - 1)..n /\ c[k] \in Children(doc, c[k - 1])
        BY <1>0, <1>6
      <4>2. c[k] \in Children(doc, i)
        BY <3>1, <3>2, <4>1, <2>4, <1>3
      <4> QED BY <4>1, <4>2
    <3>3. CASE m # n
      <4>1. m + 1 \in (k - 1)..n /\ m + 1 \in 1..n /\ (m + 1) - 1 = m
        BY <3>3, <1>0
      <4>2. c[m + 1] \in Children(doc, i)
        BY <3>1, <4>1, <1>6
      <4> QED BY <4>1, <4>2
    <3> QED BY <3>2, <3>3
  <2>6. c[k - 1] \in P /\ c[k - 1] \in Level(doc)[k - 1]
    BY <2>2, <1>7
  <2>7. k - 1 \in 0..Cardinality(Ids)
    <3>1. Cardinality(Ids) \in Nat
      BY <1>0, FS_CardinalityType
    <3> QED BY <3>1, <2>2, <1>0, <1>7
  <2> HIDE DEF P
  <2>8. Cyclic(doc)
    BY <2>5, <2>6, <2>7, <1>0, LoopIsCyclic
  <2> QED BY <2>8
<1> QED BY <1>1, <1>8, <1>9

LEMMA RefusedForReason ==
  ASSUME IInv, Reading, WellFormed(doc),
         \/ RejectIndex \/ RejectOffset \/ RejectObject \/ RejectNesting \/ RejectList \/ RejectKey
  PROVE  NestingDepth(doc) > MaxNesting
<1>1. ~Cyclic(doc) /\ \A i \in Reachable(doc) : LegalObject(doc, i)
  BY DEF WellFormed
<1>2. Calling => LegalObject(doc, Wanted)
  BY <1>1, WantedReached
<1>3. ~RejectIndex
  BY <1>2, DocumentAssumption DEF RejectIndex, LegalObject, IsPlaced
<1>4. ~RejectOffset
  BY <1>2, DocumentAssumption DEF RejectOffset, Parsing, LegalObject, IsPlaced, OffOf
<1>5. ~RejectObject
  BY <1>2 DEF RejectObject, Parsing, LegalObject
<1>6. ~RejectList
  BY <1>2 DEF RejectList, Parsing, LegalObject
<1>7. ~RejectKey
  <2> SUFFICES ASSUME RejectKey PROVE FALSE
    OBVIOUS
  <2>1. status = "parsing" /\ ~Looping /\ ~KeysAreStrings(Last(frames))
    BY DEF RejectKey
  <2>2. /\ ObjectOf(doc, Last(frames).id).kind = "dict" /\ ~HasStringKeys(doc, Last(frames).id)
    BY <2>1, KeysAgree
  <2>3. Last(frames).id \in Reachable(doc)
    BY <2>1, <1>1, Complete DEF Reading, Reached
  <2> QED BY <2>2, <2>3, <1>1 DEF LegalObject
<1>8. RejectNesting
  BY <1>3, <1>4, <1>5, <1>6, <1>7
<1> QED BY <1>1, <1>8, NestingRefused

\* The parser starts where the promise starts.
LEMMA InitRefines == ParserInit => Promise!Init
BY DocumentAssumption, SameMeaning DEF ParserInit, Promise!Init, Promise!NoValue

\* A step that returns is the promise's step, every other is a stutter.
LEMMA StepRefines ==
  ASSUME IInv, Reading, Denoted', [ParserNext]_parserVars
  PROVE  [Promise!Next]_<<doc, status,
            IF status = "ok"
            THEN [i \in {j \in Ids : objects[j] # NotParsed} |-> objects[i]] ELSE << >> >>
<1>1. CASE UNCHANGED parserVars
  BY <1>1 DEF parserVars
<1>2. CASE ParserNext
  <2>1. status = "parsing" /\ doc' = doc
    BY <1>2 DEF ParserNext, RejectIndex, FindParsed, RejectOffset, RejectObject,
       ParseScalar, RejectNesting, RejectList, OpenCollection, RejectKey, CloseCollection,
       Calling, Parsing, Fail, Return
  <2>2. CASE \/ RejectIndex \/ RejectOffset \/ RejectObject \/ RejectNesting
             \/ RejectList \/ RejectKey
    <3>1. status' = "error"
      BY <2>2 DEF RejectIndex, RejectOffset, RejectObject, RejectNesting, RejectList,
                  RejectKey, Fail
    <3>2. ~WellFormed(doc) \/ NestingDepth(doc) > MaxNesting
      BY <2>2, RefusedForReason
    <3>3. Promise!Refuse
      BY <2>1, <3>1, <3>2, SameMeaning DEF Promise!Refuse
    <3> QED BY <3>3 DEF Promise!Next
  <2>3. CASE FindParsed \/ ParseScalar \/ OpenCollection \/ CloseCollection
    <3>1. status' = status \/ status' = "ok"
      BY <2>3 DEF FindParsed, ParseScalar, OpenCollection, CloseCollection, Return
    <3>2. CASE status' = status
      BY <2>1, <3>2
    <3>3. CASE status' = "ok"
      <4>1. WellFormed(doc)' /\ ([i \in {j \in Ids : objects[j] # NotParsed} |-> objects[i]] = Promise!Denotation(doc))'
        BY <3>3 DEF Denoted
      <4>2. Promise!Accept
        BY <2>1, <3>3, <4>1, SameMeaning DEF Promise!Accept
      <4> QED BY <4>2 DEF Promise!Next
    <3> QED BY <3>1, <3>2, <3>3
  <2> QED BY <1>2, <2>2, <2>3 DEF ParserNext
<1> QED BY <1>1, <1>2

\* bplistParser.parseDocument keeps its promise on every document: a well-formed one
\* is accepted with exactly the value it denotes, every other one is an error, and a
\* well-formed one is refused only when it nests deeper than maxNestingDepth.
THEOREM Implements == ParserSpec => ImplementsPromise
<1>1. IInv /\ Reading => Denoted
  BY Denotes
<1>2. IInv /\ Reading /\ Denoted' /\ [ParserNext]_parserVars =>
        [Promise!Next]_<<doc, status,
            IF status = "ok"
            THEN [i \in {j \in Ids : objects[j] # NotParsed} |-> objects[i]] ELSE << >> >>
  BY StepRefines
<1> QED BY <1>1, <1>2, InitRefines, Inductive, ReadsTheDocument, PTL DEF ParserSpec, ImplementsPromise, Promise!Spec
===============================================================================
