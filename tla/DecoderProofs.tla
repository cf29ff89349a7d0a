----------------------------- MODULE DecoderProofs -----------------------------
(***************************************************************************)
(* What the limit on copies promises, for every document, every size of    *)
(* the two limits and every history of the decoder.                        *)
(*                                                                         *)
(* From above: a walk may only compare its count with the right limit, and *)
(* BudgetRight says that the budget, once worked out, is that of the       *)
(* document being decoded, because Decode forgets the one of the call      *)
(* before.                                                                 *)
(*                                                                         *)
(* From below: a document that shares nothing is never refused.  The walk  *)
(* of a tree never enters a container again (TreeWalk), so that what it    *)
(* has counted is paid for by the distinct values of the containers it has *)
(* entered, twice each, since a value that goes into an interface is       *)
(* counted by unmarshal and by valueInterface.  This rests on facts about  *)
(* the sums Distinct and Referenced are made with, which come first.       *)
(***************************************************************************)
EXTENDS Decoder, SequenceLemmas, FiniteSetTheorems, TLAPS

--------------------------------------------------------------------------------
\* How the library builds a sum: element by element, each chosen from what is left.
Pick(s) == CHOOSE x \in s : TRUE
Adds(F, f, s) == IF s = {} THEN 0 ELSE F[Pick(s)] + f[s \ {Pick(s)}]
Sums(F, S, f) == f = [s \in SUBSET S |-> Adds(F, f, s)]

\* Among the sets with a property there is one no smaller part of which has it.
LEMMA SmallestSet ==
  ASSUME NEW S, IsFiniteSet(S), NEW Bad \in SUBSET SUBSET S, Bad # {}
  PROVE  \E b \in Bad : \A c \in SUBSET b : c # b => c \notin Bad
<1> DEFINE sizes == {Cardinality(b) : b \in Bad}
<1>1. \A b \in Bad : IsFiniteSet(b) /\ Cardinality(b) \in Nat
  BY FS_Subset, FS_CardinalityType
<1>2. PICK n \in sizes : \A m \in sizes : n <= m
  <2>1. sizes \in SUBSET Nat /\ sizes # {}
    BY <1>1
  <2> HIDE DEF sizes
  <2> QED BY <2>1, LeastNatural
<1>3. PICK b \in Bad : n = Cardinality(b)
  OBVIOUS
<1>4. ASSUME NEW c \in SUBSET b, c # b, c \in Bad PROVE FALSE
  <2>1. Cardinality(c) <= Cardinality(b) /\ Cardinality(b) # Cardinality(c)
    BY <1>1, <1>4, FS_Subset
  <2>2. Cardinality(b) <= Cardinality(c)
    BY <1>2, <1>3, <1>4
  <2> QED BY <2>1, <2>2, <1>1, <1>4
<1> QED BY <1>4

\* The recursive function of the library exists: it can be built set by set, the
\* small ones first.
LEMMA SumsExist ==
  ASSUME NEW F, NEW S, IsFiniteSet(S)
  PROVE  \E f : Sums(F, S, f)
<1> DEFINE Small(m) == {s \in SUBSET S : Cardinality(s) <= m}
           Upto(m, f) == f = [s \in Small(m) |-> Adds(F, f, s)]
           Without == {m \in Nat : ~ \E f : Upto(m, f)}
<1>1. \A s \in SUBSET S : /\ IsFiniteSet(s) /\ Cardinality(s) \in Nat
                          /\ Cardinality(s) <= Cardinality(S)
  BY FS_Subset, FS_CardinalityType
<1>2. \A s \in SUBSET S : s # {} =>
         /\ Pick(s) \in s /\ s \ {Pick(s)} \in SUBSET S
         /\ Cardinality(s \ {Pick(s)}) = Cardinality(s) - 1
  BY <1>1, FS_RemoveElement DEF Pick
<1>3. Without = {}
  <2> SUFFICES ASSUME Without # {} PROVE FALSE
    OBVIOUS
  <2>1. PICK m \in Without : \A k \in Without : m <= k
    <3>1. Without \in SUBSET Nat
      OBVIOUS
    <3> HIDE DEF Without
    <3> QED BY <3>1, LeastNatural
  <2>2. PICK f : m = 0 \/ Upto(m - 1, f)
    <3>1. m \in Nat
      OBVIOUS
    <3>2. m = 0 \/ (m - 1 \in Nat /\ ~(m <= m - 1))
      BY ONLY <3>1
    <3>3. m = 0 \/ m - 1 \notin Without
      <4> HIDE DEF Without
      <4> QED BY <3>2, <2>1
    <3>4. m = 0 \/ \E f : Upto(m - 1, f)
      <4> HIDE DEF Upto
      <4> QED BY <3>2, <3>3
    <3> HIDE DEF Upto
    <3> QED BY <3>4
  <2> DEFINE g == [s \in Small(m) |-> Adds(F, f, s)]
  <2>3. ASSUME NEW s \in Small(m) PROVE Adds(F, g, s) = Adds(F, f, s)
    <3>1. CASE s = {}
      BY <3>1 DEF Adds
    <3>2. CASE s # {}
      <4> DEFINE r == s \ {Pick(s)}
      <4>1. r \in SUBSET S /\ Cardinality(r) \in Nat /\ Cardinality(r) = Cardinality(s) - 1
            /\ Cardinality(s) <= m /\ m \in Nat /\ Cardinality(s) \in Nat
        BY <1>1, <1>2, <3>2
      <4> HIDE DEF r
      <4>2. r \in Small(m) /\ r \in Small(m - 1) /\ m # 0
        BY <4>1
      <4>3. f[r] = Adds(F, f, r)
        BY <2>2, <4>2
      <4>4. g[r] = Adds(F, f, r)
        BY <4>2
      <4>5. g[r] = f[r]
        BY <4>3, <4>4
      <4> QED BY <4>5, <3>2 DEF Adds, r
    <3> QED BY <3>1, <3>2
  <2>4. Upto(m, g)
    BY <2>3
  <2> QED BY <2>1, <2>4
<1>4. Cardinality(S) \in Nat /\ Small(Cardinality(S)) = SUBSET S
  BY <1>1, FS_CardinalityType
<1>5. \E f : Upto(Cardinality(S), f)
  BY <1>3, <1>4
<1> QED BY <1>4, <1>5 DEF Sums

\* A sum is the value of that function.
LEMMA SumIs ==
  ASSUME NEW F, NEW S, IsFiniteSet(S)
  PROVE  \E f : Sums(F, S, f) /\ SumFunctionOnSet(F, S) = f[S]
<1> DEFINE f == CHOOSE f : Sums(F, S, f)
<1>1. Sums(F, S, f)
  BY SumsExist
<1>2. SumFunctionOnSet(F, S) = f[S]
  BY DEF SumFunctionOnSet, FoldFunctionOnSet, MapThenFoldSet, Sums, Adds, Pick
<1> HIDE DEF f
<1> QED BY <1>1, <1>2

\* Two ways to build the sum agree on what they share.
LEMMA SumsAgree ==
  ASSUME NEW F, NEW S, IsFiniteSet(S), NEW T \in SUBSET S,
         NEW f, NEW g, Sums(F, S, f), Sums(F, T, g)
  PROVE  g[T] = f[T]
<1> DEFINE Bad == {s \in SUBSET T : g[s] # f[s]}
<1>1. Bad = {}
  <2> SUFFICES ASSUME Bad # {} PROVE FALSE
    OBVIOUS
  <2>1. PICK s \in Bad : \A r \in SUBSET s : r # s => r \notin Bad
    <3>1. Bad \in SUBSET SUBSET S
      OBVIOUS
    <3> HIDE DEF Bad
    <3> QED BY <3>1, SmallestSet
  <2>2. g[s] = Adds(F, g, s) /\ f[s] = Adds(F, f, s)
    BY DEF Sums
  <2>3. s # {}
    BY <2>2 DEF Adds
  <2> DEFINE r == s \ {Pick(s)}
  <2>4. r \in SUBSET s /\ r # s /\ r \in SUBSET T
    BY <2>3 DEF Pick
  <2>5. g[r] = f[r]
    BY <2>1, <2>4
  <2>6. g[s] = F[Pick(s)] + g[r] /\ f[s] = F[Pick(s)] + f[r]
    BY <2>2, <2>3 DEF Adds
  <2> QED BY <2>5, <2>6
<1> QED BY <1>1

\* What a sum is made of.
LEMMA SumStep ==
  ASSUME NEW F, NEW S, IsFiniteSet(S)
  PROVE  /\ S = {} => SumFunctionOnSet(F, S) = 0
         /\ S # {} => SumFunctionOnSet(F, S) = F[Pick(S)] + SumFunctionOnSet(F, S \ {Pick(S)})
<1> DEFINE R == S \ {Pick(S)}
<1>1. IsFiniteSet(R) /\ R \in SUBSET S
  BY FS_Subset
<1>2. PICK f : Sums(F, S, f) /\ SumFunctionOnSet(F, S) = f[S]
  BY SumIs
<1> HIDE DEF R
<1>3. PICK g : Sums(F, R, g) /\ SumFunctionOnSet(F, R) = g[R]
  BY <1>1, SumIs
<1>4. g[R] = f[R]
  BY <1>1, <1>2, <1>3, SumsAgree
<1>5. f[S] = Adds(F, f, S)
  BY <1>2 DEF Sums
<1> QED BY <1>2, <1>3, <1>4, <1>5 DEF Adds, R

\* A sum of naturals is a natural.
LEMMA SumType ==
  ASSUME NEW F, NEW S, IsFiniteSet(S), \A x \in S : F[x] \in Nat
  PROVE  SumFunctionOnSet(F, S) \in Nat
<1> DEFINE Bad == {s \in SUBSET S : SumFunctionOnSet(F, s) \notin Nat}
<1>1. Bad = {}
  <2> SUFFICES ASSUME Bad # {} PROVE FALSE
    OBVIOUS
  <2>1. PICK s \in Bad : \A r \in SUBSET s : r # s => r \notin Bad
    <3>1. Bad \in SUBSET SUBSET S
      OBVIOUS
    <3> HIDE DEF Bad
    <3> QED BY <3>1, SmallestSet
  <2>2. IsFiniteSet(s)
    BY FS_Subset
  <2>3. s # {}
    <3>1. s = {} => SumFunctionOnSet(F, s) = 0
      BY <2>2, SumStep
    <3> QED BY <3>1
  <2> DEFINE r == s \ {Pick(s)}
  <2>4. r \in SUBSET s /\ r # s /\ r \in SUBSET S /\ Pick(s) \in S
    BY <2>3 DEF Pick
  <2>5. SumFunctionOnSet(F, r) \in Nat
    BY <2>1, <2>4
  <2>6. SumFunctionOnSet(F, s) = F[Pick(s)] + SumFunctionOnSet(F, r)
    BY <2>2, <2>3, SumStep
  <2> QED BY <2>4, <2>5, <2>6
<1> QED BY <1>1

\* Any element may be taken out of a sum of naturals first.
LEMMA SumRemove ==
  ASSUME NEW F, NEW S, IsFiniteSet(S), \A x \in S : F[x] \in Nat, NEW x \in S
  PROVE  SumFunctionOnSet(F, S) = F[x] + SumFunctionOnSet(F, S \ {x})
<1> DEFINE Total(s) == SumFunctionOnSet(F, s)
           Splits(s) == \A y \in s : Total(s) = F[y] + Total(s \ {y})
           Bad == {s \in SUBSET S : ~Splits(s)}
<1>0. \A s \in SUBSET S : Total(s) \in Nat /\ IsFiniteSet(s)
  BY FS_Subset, SumType
<1>1. \A s \in SUBSET S : s # {} => Pick(s) \in s /\ Total(s) = F[Pick(s)] + Total(s \ {Pick(s)})
  BY <1>0, SumStep DEF Pick
<1> HIDE DEF Total
<1>2. Bad = {}
  <2> SUFFICES ASSUME Bad # {} PROVE FALSE
    OBVIOUS
  <2>1. PICK s \in Bad : \A r \in SUBSET s : r # s => r \notin Bad
    <3>1. Bad \in SUBSET SUBSET S
      OBVIOUS
    <3> HIDE DEF Bad
    <3> QED BY <3>1, SmallestSet
  <2>2. PICK y \in s : Total(s) # F[y] + Total(s \ {y})
    OBVIOUS
  <2> DEFINE c == Pick(s)
             u == s \ {c}
             v == s \ {y}
             w == (s \ {c}) \ {y}
  <2>3. c \in s /\ Total(s) = F[c] + Total(u) /\ c # y
    BY <1>1, <2>2
  <2>4. Splits(u) /\ Splits(v)
    <3>1. u \in SUBSET s /\ u # s /\ v \in SUBSET s /\ v # s
      BY <2>3
    <3> HIDE DEF Splits, u, v
    <3> QED BY <2>1, <3>1
  <2>5. y \in u /\ c \in v /\ u \ {y} = w /\ v \ {c} = w
    BY <2>3
  <2>6. Total(u) = F[y] + Total(w) /\ Total(v) = F[c] + Total(w)
    <3> HIDE DEF u, v, w, c
    <3>1. Total(u) = F[y] + Total(u \ {y}) /\ Total(v) = F[c] + Total(v \ {c})
      BY <2>4, <2>5
    <3> QED BY <3>1, <2>5
  <2>7. Total(w) \in Nat /\ F[c] \in Nat /\ F[y] \in Nat
    <3>1. w \in SUBSET S /\ c \in S /\ y \in S
      BY <2>3
    <3> QED BY <3>1, <1>0
  <2> HIDE DEF c, u, w
  <2> QED BY <2>2, <2>3, <2>6, <2>7
<1>3. Splits(S)
  BY <1>2
<1> QED BY <1>3 DEF Total

\* One element of a sum of naturals, or two of them together, are no more than the sum.
LEMMA SumBounds ==
  ASSUME NEW F, NEW S, IsFiniteSet(S), \A x \in S : F[x] \in Nat
  PROVE  /\ \A x \in S : F[x] <= SumFunctionOnSet(F, S)
         /\ \A x, y \in S : x # y => F[x] + F[y] <= SumFunctionOnSet(F, S)
<1> DEFINE Total(s) == SumFunctionOnSet(F, s)
<1>0. \A s \in SUBSET S : Total(s) \in Nat
  BY FS_Subset, SumType
<1>1. \A x \in S : Total(S) = F[x] + Total(S \ {x})
  BY SumRemove
<1>2. \A x, y \in S : x # y => Total(S \ {x}) = F[y] + Total((S \ {x}) \ {y})
  <2> SUFFICES ASSUME NEW x \in S, NEW y \in S, x # y
               PROVE  Total(S \ {x}) = F[y] + Total((S \ {x}) \ {y})
    OBVIOUS
  <2> DEFINE R == S \ {x}
  <2>1. IsFiniteSet(R) /\ y \in R /\ \A z \in R : F[z] \in Nat
    BY FS_Subset
  <2> HIDE DEF R
  <2>2. Total(R) = F[y] + Total(R \ {y})
    BY <2>1, SumRemove
  <2> QED BY <2>2 DEF R
<1>3. \A x, y \in S : Total(S \ {x}) \in Nat /\ Total((S \ {x}) \ {y}) \in Nat
  BY <1>0
<1> HIDE DEF Total
<1>4. ASSUME NEW x \in S PROVE F[x] <= Total(S)
  <2>1. Total(S) = F[x] + Total(S \ {x}) /\ Total(S \ {x}) \in Nat /\ F[x] \in Nat
    BY <1>1, <1>3
  <2> QED BY ONLY <2>1
<1>5. ASSUME NEW x \in S, NEW y \in S, x # y PROVE F[x] + F[y] <= Total(S)
  <2>1. /\ Total(S) = F[x] + Total(S \ {x}) /\ Total(S \ {x}) = F[y] + Total((S \ {x}) \ {y})
        /\ Total((S \ {x}) \ {y}) \in Nat /\ F[x] \in Nat /\ F[y] \in Nat
    BY <1>1, <1>2, <1>3, <1>5
  <2> QED BY ONLY <2>1
<1> QED BY <1>4, <1>5 DEF Total

\* A part of a sum of naturals is no more than the whole.
LEMMA SumPart ==
  ASSUME NEW F, NEW S, IsFiniteSet(S), \A x \in S : F[x] \in Nat, NEW T \in SUBSET S
  PROVE  SumFunctionOnSet(F, T) <= SumFunctionOnSet(F, S)
<1> DEFINE Total(s) == SumFunctionOnSet(F, s)
           Bad == {s \in SUBSET S : T \subseteq s /\ ~(Total(T) <= Total(s))}
<1>0. \A s \in SUBSET S : Total(s) \in Nat
  BY FS_Subset, SumType
<1>1. \A s \in SUBSET S : \A x \in s : Total(s) = F[x] + Total(s \ {x})
  <2> SUFFICES ASSUME NEW s \in SUBSET S, NEW x \in s
               PROVE  SumFunctionOnSet(F, s) = F[x] + SumFunctionOnSet(F, s \ {x})
    OBVIOUS
  <2>1. IsFiniteSet(s) /\ \A y \in s : F[y] \in Nat
    BY FS_Subset
  <2> QED BY <2>1, SumRemove
<1> HIDE DEF Total
<1>2. Bad = {}
  <2> SUFFICES ASSUME Bad # {} PROVE FALSE
    OBVIOUS
  <2>1. PICK s \in Bad : \A r \in SUBSET s : r # s => r \notin Bad
    <3>1. Bad \in SUBSET SUBSET S
      OBVIOUS
    <3> HIDE DEF Bad
    <3> QED BY <3>1, SmallestSet
  <2>2. PICK x \in s : x \notin T
    BY <1>0
  <2>3. /\ s \ {x} \in SUBSET s /\ s \ {x} # s /\ s \ {x} \in SUBSET S
        /\ T \subseteq s \ {x} /\ x \in S
    BY <2>2
  <2>4. Total(T) <= Total(s \ {x})
    BY <2>1, <2>3
  <2>5. Total(s) = F[x] + Total(s \ {x}) /\ ~(Total(T) <= Total(s))
    BY <1>1
  <2>6. Total(T) \in Nat /\ Total(s \ {x}) \in Nat /\ F[x] \in Nat
    BY <1>0, <2>3
  <2> QED BY <2>4, <2>5, <2>6
<1> QED BY <1>2 DEF Total
--------------------------------------------------------------------------------
\* The distinct values a container adds to its document.
Sizes(doc) == [n \in DOMAIN doc.kids |-> Len(doc.kids[n]) + doc.keys[n]]

\* The size of a document, as a sum of naturals.
LEMMA SizesType ==
  ASSUME NEW doc \in Streams
  PROVE  /\ IsFiniteSet(DOMAIN doc.kids)
         /\ \A n \in DOMAIN doc.kids :
              /\ doc.kids[n] \in Seq(Range(doc.kids[n])) /\ Len(doc.kids[n]) \in Nat
              /\ Sizes(doc)[n] \in Nat /\ Len(doc.kids[n]) <= Sizes(doc)[n]
         /\ Distinct(doc) = 1 + SumFunctionOnSet(Sizes(doc), DOMAIN doc.kids)
         /\ Distinct(doc) \in Nat
<1>1. /\ IsFiniteSet(DOMAIN doc.kids)
      /\ \A n \in DOMAIN doc.kids : doc.kids[n] \in Seq(Range(doc.kids[n])) /\ doc.keys[n] \in Nat
  BY StreamsAssumption
<1>2. \A n \in DOMAIN doc.kids : Len(doc.kids[n]) \in Nat
  BY <1>1
<1>3. \A n \in DOMAIN doc.kids : Sizes(doc)[n] = Len(doc.kids[n]) + doc.keys[n]
  BY DEF Sizes
<1>4. \A n \in DOMAIN doc.kids : Sizes(doc)[n] \in Nat /\ Len(doc.kids[n]) <= Sizes(doc)[n]
  BY <1>1, <1>2, <1>3
<1>5. Distinct(doc) = 1 + SumFunctionOnSet(Sizes(doc), DOMAIN doc.kids)
  BY DEF Distinct, SumFunction, Sizes
<1>6. SumFunctionOnSet(Sizes(doc), DOMAIN doc.kids) \in Nat
  BY <1>1, <1>4, SumType
<1> QED BY <1>1, <1>2, <1>4, <1>5, <1>6

\* In a tree the root is nobody's member, and a container is a member once.
LEMMA MemberOnce ==
  ASSUME NEW doc \in Streams, IsTree(doc), NEW n \in DOMAIN doc.kids,
         NEW m \in DOMAIN doc.kids, NEW i \in DOMAIN doc.kids[m], doc.kids[m][i] = n
  PROVE  /\ n # doc.root
         /\ \A l \in DOMAIN doc.kids : \A j \in DOMAIN doc.kids[l] :
              doc.kids[l][j] = n => l = m /\ j = i
<1> DEFINE D == DOMAIN doc.kids
           At(l) == {j \in DOMAIN doc.kids[l] : doc.kids[l][j] = n}
           F == [l \in D |-> Cardinality(At(l))]
<1>1. \A l \in D : IsFiniteSet(At(l)) /\ Cardinality(At(l)) \in Nat
  <2> SUFFICES ASSUME NEW l \in D PROVE IsFiniteSet(At(l)) /\ Cardinality(At(l)) \in Nat
    OBVIOUS
  <2>1. doc.kids[l] \in Seq(Range(doc.kids[l]))
    BY SizesType
  <2>2. Len(doc.kids[l]) \in Nat /\ DOMAIN doc.kids[l] = 1 .. Len(doc.kids[l])
    BY <2>1
  <2>3. IsFiniteSet(1 .. Len(doc.kids[l]))
    BY <2>2, FS_Interval
  <2> DEFINE I == 1 .. Len(doc.kids[l])
             A == At(l)
  <2>4. A \in SUBSET I
    BY <2>2
  <2> HIDE DEF A, I
  <2>5. IsFiniteSet(I)
    BY <2>3 DEF I
  <2>6. IsFiniteSet(A)
    BY <2>4, <2>5, FS_Subset
  <2>7. Cardinality(A) \in Nat
    BY <2>6, FS_CardinalityType
  <2> QED BY <2>6, <2>7 DEF A
<1>2. IsFiniteSet(D) /\ \A l \in D : F[l] = Cardinality(At(l)) /\ F[l] \in Nat
  BY <1>1, SizesType
<1>3. Referenced(doc, n) = (IF n = doc.root THEN 1 ELSE 0) + SumFunctionOnSet(F, D)
  BY DEF Referenced, SumFunction
<1>4. Referenced(doc, n) = 1
  BY DEF IsTree
<1>5. \A l \in D : \A j \in DOMAIN doc.kids[l] : doc.kids[l][j] = n => 1 <= Cardinality(At(l))
  <2> SUFFICES ASSUME NEW l \in D, NEW j \in At(l) PROVE 1 <= Cardinality(At(l))
    OBVIOUS
  <2> DEFINE A == At(l)
  <2>1. IsFiniteSet(A) /\ Cardinality(A) \in Nat /\ j \in A
    BY <1>1
  <2> HIDE DEF A
  <2>2. Cardinality(A) # 0
    BY <2>1, FS_EmptySet
  <2>3. 1 <= Cardinality(A)
    BY <2>1, <2>2
  <2> QED BY <2>3 DEF A
<1> DEFINE total == SumFunctionOnSet(F, D)
<1>6. total \in Nat /\ total <= 1 /\ (n = doc.root => total = 0)
  <2>1. total \in Nat
    BY <1>2, SumType
  <2> HIDE DEF total
  <2> QED BY <1>3, <1>4, <2>1 DEF total
<1>7. /\ \A l \in D : F[l] <= total
      /\ \A l, k \in D : l # k => F[l] + F[k] <= total
  <2> HIDE DEF F, D
  <2> QED BY <1>2, SumBounds
<1> HIDE DEF total
<1>8. F[m] \in Nat /\ 1 <= F[m] /\ F[m] <= total
  BY <1>2, <1>5, <1>7
<1>9. n # doc.root
  BY <1>6, <1>8
<1>10. ASSUME NEW l \in D, NEW j \in DOMAIN doc.kids[l], doc.kids[l][j] = n
       PROVE  l = m /\ j = i
  <2>1. F[l] \in Nat /\ 1 <= F[l]
    BY <1>2, <1>5, <1>10
  <2>2. l = m
    <3> SUFFICES ASSUME l # m PROVE FALSE
      OBVIOUS
    <3>1. F[l] + F[m] <= total
      BY <1>7
    <3> HIDE DEF F
    <3> QED BY <3>1, <2>1, <1>6, <1>8
  <2>3. Cardinality(At(m)) <= 1 /\ IsFiniteSet(At(m)) /\ Cardinality(At(m)) \in Nat
    <3>1. F[m] <= 1
      <4> HIDE DEF F
      <4> QED BY <1>6, <1>8
    <3>2. F[m] = Cardinality(At(m))
      BY <1>2
    <3> HIDE DEF F, At
    <3> QED BY <3>1, <3>2, <1>1
  <2>4. i \in At(m) /\ j \in At(m)
    BY <2>2, <1>10
  <2> DEFINE A == At(m)
  <2> HIDE DEF A
  <2>5. Cardinality(A) = 1
    <3>1. Cardinality(A) # 0
      BY <2>3, <2>4, FS_EmptySet DEF A
    <3> QED BY <3>1, <2>3 DEF A
  <2>6. PICK x : A = {x}
    BY <2>3, <2>5, FS_Singleton DEF A
  <2> QED BY <2>2, <2>4, <2>6 DEF A
<1> QED BY <1>9, <1>10
--------------------------------------------------------------------------------
BudgetRight == stage = "walk" => budget = 0 \/ budget = Limit(content)

IInv ==
  /\ content \in Streams
  /\ nodes \in Nat
  /\ BudgetRight
  /\ ExpansionBounded

\* The limit of a document is a number no smaller than what is free.
LEMMA LimitType ==
  ASSUME NEW doc \in Streams
  PROVE  Limit(doc) \in Nat /\ Free <= Limit(doc)
<1>1. Distinct(doc) \in Nat
  BY SizesType
<1> DEFINE x == Factor * Distinct(doc)
<1>2. x \in Nat
  BY <1>1, LimitsAssumption
<1> HIDE DEF x
<1>3. Limit(doc) = IF x > Free THEN x ELSE Free
  BY DEF Limit, x
<1> QED BY <1>2, <1>3, LimitsAssumption

\* A step outside the walk, or one that leaves it, keeps the invariant.
LEMMA LeavePreserves ==
  ASSUME IInv, content' = content \/ content' \in Streams, nodes' \in Nat, stage' # "walk"
  PROVE  IInv'
BY DEF IInv, BudgetRight, ExpansionBounded

\* IInv is inductive: every walk stays below the limit of its document.
THEOREM Inductive == DecoderSpec => []IInv
<1>1. DecoderInit => IInv
  BY DEF DecoderInit, IInv, BudgetRight, ExpansionBounded
<1>2. IInv /\ [DecoderNext]_streamVars => IInv'
  <2> SUFFICES ASSUME IInv, [DecoderNext]_streamVars PROVE IInv'
    OBVIOUS
  <2>0. nodes \in Nat /\ content \in Streams /\ Limit(content) \in Nat /\ Free <= Limit(content)
    BY LimitType DEF IInv
  <2>1. CASE Replace
    BY <2>1, <2>0, LeavePreserves DEF Replace, decoderVars
  <2>2. CASE Decode
    <3>1. content' = content /\ nodes' = nodes
      BY <2>2 DEF Decode, decoderVars
    <3>2. stage' # "walk"
      BY <2>2 DEF Decode, EndCall
    <3> QED BY <3>1, <3>2, <2>0, LeavePreserves
  <2>3. CASE ParseBinary
    BY <2>3, <2>0, LeavePreserves DEF ParseBinary, EndCall
  <2>4. CASE ParseXML
    <3>1. content' = content /\ nodes' = nodes
      BY <2>4 DEF ParseXML
    <3>2. stage' # "walk"
      BY <2>4 DEF ParseXML, EndCall
    <3> QED BY <3>1, <3>2, <2>0, LeavePreserves
  <2>5. CASE ParseText
    BY <2>5, <2>0, LeavePreserves DEF ParseText, EndCall
  <2>6. CASE Start
    <3>1. content' = content /\ nodes' = 0 /\ budget' = 0
      BY <2>6 DEF Start
    <3> QED BY <3>1, <2>0, LimitsAssumption DEF IInv, BudgetRight, ExpansionBounded
  <2>7. CASE SkipNil
    BY <2>7 DEF SkipNil, decoderVars, IInv, BudgetRight, ExpansionBounded
  <2>8. CASE Visit
    <3>1. /\ content' = content /\ nodes' = nodes + 1 /\ stage = "walk" /\ ~Exceeds
          /\ nodes + 1 > Free => BudgetOnce
          /\ ~(nodes + 1 > Free) => budget' = budget
      BY <2>8 DEF Visit, CountNode
    <3>2. nodes + 1 <= Limit(content)
      BY <3>1, <2>0, LimitsAssumption DEF Exceeds, IInv, BudgetRight
    <3>3. budget' = 0 \/ budget' = Limit(content)
      BY <3>1 DEF IInv, BudgetRight, BudgetOnce
    <3> QED BY <3>1, <3>2, <3>3, <2>0 DEF IInv, BudgetRight, ExpansionBounded
  <2>9. CASE Refuse
    BY <2>9, <2>0, LeavePreserves DEF Refuse, CountNode, EndCall
  <2>10. CASE Mismatch
    BY <2>10, <2>0, LeavePreserves DEF Mismatch, CountNode, EndCall
  <2>11. CASE Finish
    BY <2>11, <2>0, LeavePreserves DEF Finish, EndCall, decoderVars
  <2>12. CASE UNCHANGED streamVars
    BY <2>12 DEF streamVars, decoderVars, IInv, BudgetRight, ExpansionBounded
  <2> QED BY <2>1, <2>2, <2>3, <2>4, <2>5, <2>6, <2>7, <2>8, <2>9, <2>10, <2>11, <2>12 DEF DecoderNext
<1> QED BY <1>1, <1>2, PTL DEF DecoderSpec

\* No call of Decode copies more values than the limit for its document.
THEOREM CopiesBounded == DecoderSpec => []ExpansionBounded
<1>1. IInv => ExpansionBounded
  BY DEF IInv
<1> QED BY <1>1, Inductive, PTL
--------------------------------------------------------------------------------
\* The parser that was believed accepts the document in the stream, and the text parser
\* is asked about a document without the magic only when the XML parser does not know it.
FormatRight ==
  /\ stage \in {"unmarshal", "walk"} =>
          /\ Format \in Formats(content.kind)
          /\ ~Header(content.kind) /\ "XML" \in Formats(content.kind) => Format = "XML"
  /\ stage = "binary" => Header(content.kind)
  /\ stage = "text" => "XML" \notin Formats(content.kind)

\* Format names a format that the document has, whatever the header showed and whichever
\* parser gave up before; of a document without the magic of a binary one it is XML
\* whenever the XML parser accepts it.
THEOREM FormatNamed == DecoderSpec => []FormatTruthful
<1>1. DecoderInit => FormatRight
  BY DEF DecoderInit, FormatRight
<1>2. IInv /\ FormatRight /\ [DecoderNext]_streamVars => FormatRight'
  <2> SUFFICES ASSUME IInv, FormatRight, [DecoderNext]_streamVars PROVE FormatRight'
    OBVIOUS
  <2>1. CASE Replace \/ SkipNil \/ Finish
    BY <2>1 DEF Replace, SkipNil, Finish, EndCall, decoderVars, FormatRight
  <2>2. CASE Decode
    <3>1. stage' = "idle" \/ stage' = "xml" \/ (stage' = "binary" /\ Header(content.kind))
      BY <2>2 DEF Decode, EndCall
    <3>2. content' = content
      BY <2>2 DEF Decode
    <3> QED BY <3>1, <3>2 DEF FormatRight
  <2>3. CASE ParseBinary
    <3>1. CASE BinaryVerdict(content.kind) = "ok"
      <4>1. Format' = "Binary" /\ content' = content /\ stage' = "unmarshal" /\ Header(content.kind)
        BY <2>3, <3>1 DEF ParseBinary, FormatRight
      <4> QED BY <4>1, <3>1 DEF FormatRight, Formats
    <3>2. CASE BinaryVerdict(content.kind) # "ok"
      <4>1. stage' = "idle"
        BY <2>3, <3>2 DEF ParseBinary, EndCall
      <4> QED BY <4>1 DEF FormatRight
    <3> QED BY <3>1, <3>2
  <2>4. CASE ParseXML
    <3>1. CASE XMLVerdict(content.kind) = "ok"
      <4>1. Format' = "XML" /\ content' = content /\ stage' = "unmarshal"
        BY <2>4, <3>1 DEF ParseXML
      <4> QED BY <4>1, <3>1 DEF FormatRight, Formats
    <3>2. CASE XMLVerdict(content.kind) # "ok"
      <4>1. stage' \in {"idle", "text"} /\ content' = content
        BY <2>4, <3>2 DEF ParseXML, EndCall
      <4>2. TextVerdict(content.kind) # "XML"
        BY StreamsAssumption DEF TextVerdict, IInv
      <4>3. "XML" \notin Formats(content.kind)
        BY <3>2, <4>2 DEF Formats
      <4> QED BY <4>1, <4>3 DEF FormatRight
    <3> QED BY <3>1, <3>2
  <2>5. CASE ParseText
    <3>1. CASE TextVerdict(content.kind) # "error"
      <4>1. Format' = TextVerdict(content.kind) /\ content' = content /\ stage' = "unmarshal"
            /\ "XML" \notin Formats(content.kind)
        BY <2>5, <3>1 DEF ParseText, FormatRight
      <4> QED BY <4>1, <3>1 DEF FormatRight, Formats
    <3>2. CASE TextVerdict(content.kind) = "error"
      <4>1. stage' = "idle"
        BY <2>5, <3>2 DEF ParseText, EndCall
      <4> QED BY <4>1 DEF FormatRight
    <3> QED BY <3>1, <3>2
  <2>6. CASE Start \/ Visit
    BY <2>6 DEF Start, Visit, FormatRight
  <2>7. CASE Refuse \/ Mismatch
    <3>1. stage' = "idle"
      BY <2>7 DEF Refuse, Mismatch, EndCall
    <3> QED BY <3>1 DEF FormatRight
  <2>8. CASE UNCHANGED streamVars
    BY <2>8 DEF streamVars, decoderVars, FormatRight
  <2> QED BY <2>1, <2>2, <2>3, <2>4, <2>5, <2>6, <2>7, <2>8 DEF DecoderNext
<1>3. FormatRight => FormatTruthful
  BY DEF FormatRight, FormatTruthful
<1> QED BY <1>1, <1>2, <1>3, Inductive, PTL DEF DecoderSpec
--------------------------------------------------------------------------------
\* The walk of a tree.  V holds the containers the walk has opened.

\* What was counted and what is still to do are paid for by the distinct values of
\* the opened containers, twice each; a value the walk is about to enter may have
\* been counted already, by unmarshal.
Paid(V) ==
  nodes + 2 * Len(tasks) <=
    2 * (1 + SumFunctionOnSet(Sizes(content), V))
      + (IF tasks # << >> /\ Head(tasks).does = "value" THEN 1 ELSE 0)
\* The walk never meets a container again that it has opened ...
Fresh(V) == \A i \in 1 .. Len(tasks) : tasks[i].n \notin V
\* ... because every container it knows, but the root, is a member of an opened one.
Reached(V) ==
  \A n \in DOMAIN content.kids :
    n \in V \/ (\E i \in 1 .. Len(tasks) : tasks[i].n = n) =>
      n = content.root \/ \E m \in V : \E i \in DOMAIN Kids(m) : Kids(m)[i] = n
Once ==
  \A i, j \in 1 .. Len(tasks) : HasMembers(tasks[i].n) /\ tasks[i].n = tasks[j].n => i = j
WorkType ==
  /\ tasks \in Seq(Range(tasks))
  /\ \A i \in 1 .. Len(tasks) : tasks[i].does \in {"any", "typed", "skip", "value"}
TreeWalk ==
  stage = "walk" /\ IsTree(content) =>
       WorkType /\ Once
         /\ \E V \in SUBSET DOMAIN content.kids : Paid(V) /\ Fresh(V) /\ Reached(V)

\* What becomes of a sequence whose head gives way to another sequence.
LEMMA HeadReplaced ==
  ASSUME NEW s, s \in Seq(Range(s)), s # << >>, NEW t, t \in Seq(Range(t)),
         NEW u, u = t \o Tail(s)
  PROVE  /\ u \in Seq(Range(u)) /\ Len(s) \in Nat \ {0} /\ Len(t) \in Nat
         /\ Len(u) = Len(t) + Len(s) - 1 /\ Head(s) = s[1]
         /\ \A i \in 1 .. Len(u) :
              \/ i \in 1 .. Len(t) /\ u[i] = t[i]
              \/ /\ i \notin 1 .. Len(t) /\ i - Len(t) + 1 \in 1 .. Len(s)
                 /\ i - Len(t) + 1 # 1 /\ u[i] = s[i - Len(t) + 1]
<1> DEFINE r == Tail(s)
<1>1. /\ r \in Seq(Range(s)) /\ Len(s) \in Nat \ {0} /\ Len(r) = Len(s) - 1 /\ Head(s) = s[1]
      /\ \A i \in 1 .. Len(s) - 1 : r[i] = s[i + 1]
  OBVIOUS
<1>2. r \in Seq(Range(r))
  BY <1>1, OwnElements
<1> HIDE DEF r
<1>3. /\ u \in Seq(Range(u)) /\ Len(t) \in Nat /\ Len(u) = Len(t) + Len(r)
      /\ \A i \in 1 .. Len(t) : u[i] = t[i]
      /\ \A i \in 1 .. Len(r) : u[Len(t) + i] = r[i]
  <2>1. u = t \o r
    BY DEF r
  <2> QED BY ONLY <1>2, <2>1, t \in Seq(Range(t)), Concatenated
<1>4. ASSUME NEW i \in 1 .. Len(u), i \notin 1 .. Len(t)
      PROVE  /\ i - Len(t) + 1 \in 1 .. Len(s) /\ i - Len(t) + 1 # 1
             /\ u[i] = s[i - Len(t) + 1]
  <2> DEFINE j == i - Len(t)
  <2>1. j \in 1 .. Len(r) /\ Len(t) + j = i /\ j \in 1 .. Len(s) - 1 /\ j + 1 \in 1 .. Len(s) /\ j + 1 # 1
    BY <1>1, <1>3, <1>4
  <2> HIDE DEF j
  <2>2. u[Len(t) + j] = r[j] /\ r[j] = s[j + 1]
    BY <2>1, <1>1, <1>3
  <2> QED BY <2>1, <2>2 DEF j
<1> QED BY <1>1, <1>3, <1>4

\* The tasks for the members of a container.
LEMMA TasksType ==
  ASSUME NEW does, NEW ns, ns \in Seq(Range(ns))
  PROVE  /\ Tasks(does, ns) \in Seq(Range(Tasks(does, ns))) /\ Len(Tasks(does, ns)) = Len(ns)
         /\ Len(ns) \in Nat /\ DOMAIN ns = 1 .. Len(ns)
         /\ \A i \in 1 .. Len(ns) : Tasks(does, ns)[i].does = does /\ Tasks(does, ns)[i].n = ns[i]
<1>1. Len(ns) \in Nat /\ DOMAIN ns = 1 .. Len(ns)
  OBVIOUS
<1> DEFINE ts == Tasks(does, ns)
<1>2. ts = [i \in 1 .. Len(ns) |-> ts[i]]
  BY <1>1 DEF Tasks
<1>3. \A i \in 1 .. Len(ns) : ts[i].does = does /\ ts[i].n = ns[i]
  BY <1>1 DEF Tasks, Task
<1> HIDE DEF ts
<1>4. ts \in Seq(Range(ts)) /\ Len(ts) = Len(ns)
  BY <1>1, <1>2, FromFunction
<1> QED BY <1>1, <1>3, <1>4 DEF ts

\* The walk enters the container at the head of its work.
LEMMA OpenPreserves ==
  ASSUME IInv, WorkType, Once, IsTree(content), NEW V \in SUBSET DOMAIN content.kids,
         Paid(V), Fresh(V), Reached(V), tasks # << >>,
         NEW h, h = Head(tasks).n, h \in DOMAIN content.kids,
         NEW does \in {"any", "typed", "value"}, content' = content,
         tasks' = Tasks(does, Kids(h)) \o Tail(tasks), nodes' = nodes + 1
  PROVE  WorkType' /\ Once' /\ \E U \in SUBSET DOMAIN content.kids :
                                 Paid(U)' /\ Fresh(U)' /\ Reached(U)'
<1> DEFINE D == DOMAIN content.kids
           ks == content.kids[h]
           N == Len(ks)
           L == Len(tasks)
           U == V \cup {h}
           Old(i) == i - N + 1
<1>0. /\ content \in Streams /\ nodes \in Nat /\ IsFiniteSet(D)
      /\ ks \in Seq(Range(ks)) /\ Sizes(content)[h] \in Nat /\ N <= Sizes(content)[h]
      /\ \A n \in D : Sizes(content)[n] \in Nat
      /\ \A n \in D : content.kids[n] \in Seq(Range(content.kids[n]))
  BY SizesType DEF IInv
<1>1. /\ N \in Nat /\ L \in Nat \ {0} /\ DOMAIN ks = 1 .. N
      /\ tasks' \in Seq(Range(tasks')) /\ Len(tasks') = N + L - 1
      /\ Head(tasks) = tasks[1] /\ 1 \in 1 .. L
      /\ \A i \in 1 .. Len(tasks') :
           \/ i \in 1 .. N /\ tasks'[i].does = does /\ tasks'[i].n = ks[i]
           \/ /\ i \notin 1 .. N /\ Old(i) \in 1 .. L /\ Old(i) # 1 /\ tasks'[i] = tasks[Old(i)]
  <2> DEFINE ts == Tasks(does, ks)
  <2>1. /\ ts \in Seq(Range(ts)) /\ Len(ts) = N /\ N \in Nat /\ DOMAIN ks = 1 .. N
        /\ \A i \in 1 .. N : ts[i].does = does /\ ts[i].n = ks[i]
    BY <1>0, TasksType
  <2>2. tasks' = ts \o Tail(tasks) /\ tasks \in Seq(Range(tasks))
    BY DEF WorkType, Kids
  <2> HIDE DEF ts
  <2> DEFINE u == tasks'
  <2>3. u = ts \o Tail(tasks)
    BY <2>2
  <2> HIDE DEF u
  <2>4. /\ u \in Seq(Range(u)) /\ L \in Nat \ {0}
        /\ Len(u) = Len(ts) + L - 1 /\ Head(tasks) = tasks[1]
        /\ \A i \in 1 .. Len(u) :
             \/ i \in 1 .. Len(ts) /\ u[i] = ts[i]
             \/ /\ i \notin 1 .. Len(ts) /\ i - Len(ts) + 1 \in 1 .. L
                /\ i - Len(ts) + 1 # 1 /\ u[i] = tasks[i - Len(ts) + 1]
    <3>1. tasks # << >> /\ tasks \in Seq(Range(tasks)) /\ ts \in Seq(Range(ts)) /\ u = ts \o Tail(tasks)
      BY <2>1, <2>2, <2>3
    <3>2. /\ u \in Seq(Range(u)) /\ L \in Nat \ {0}
          /\ Len(u) = Len(ts) + L - 1 /\ Head(tasks) = tasks[1]
      BY ONLY <3>1, HeadReplaced
    <3>3. \A i \in 1 .. Len(u) :
             \/ i \in 1 .. Len(ts) /\ u[i] = ts[i]
             \/ /\ i \notin 1 .. Len(ts) /\ i - Len(ts) + 1 \in 1 .. L
                /\ i - Len(ts) + 1 # 1 /\ u[i] = tasks[i - Len(ts) + 1]
      BY ONLY <3>1, HeadReplaced
    <3> QED BY <3>2, <3>3
  <2> HIDE DEF L, N, ks
  <2>5. /\ tasks' \in Seq(Range(tasks')) /\ Len(tasks') = N + L - 1
        /\ N \in Nat /\ L \in Nat \ {0} /\ Head(tasks) = tasks[1] /\ 1 \in 1 .. L
    BY <2>1, <2>4 DEF u
  <2>6. \A i \in 1 .. Len(tasks') :
           \/ i \in 1 .. N /\ tasks'[i].does = does /\ tasks'[i].n = ks[i]
           \/ /\ i \notin 1 .. N /\ Old(i) \in 1 .. L /\ Old(i) # 1 /\ tasks'[i] = tasks[Old(i)]
    BY <2>1, <2>4 DEF u
  <2> QED BY <2>1, <2>5, <2>6
<1>2. h = tasks[1].n /\ h \notin V /\ U \in SUBSET D
  BY <1>1 DEF Fresh
<1> HIDE DEF N, L, Old
<1>3. \A i \in 1 .. N : ks[i] \in D =>
        /\ ks[i] \notin U
        /\ \A j \in 1 .. L : tasks[j].n # ks[i]
        /\ \A j \in 1 .. N : ks[j] = ks[i] => i = j
  <2> SUFFICES ASSUME NEW i \in 1 .. N, ks[i] \in D
               PROVE  /\ ks[i] \notin U
                      /\ \A j \in 1 .. L : tasks[j].n # ks[i]
                      /\ \A j \in 1 .. N : ks[j] = ks[i] => i = j
    OBVIOUS
  <2> DEFINE k == ks[i]
  <2>1. /\ k # content.root
        /\ \A m \in D : \A j \in DOMAIN content.kids[m] : content.kids[m][j] = k => m = h /\ j = i
    <3>1. h \in D /\ i \in DOMAIN content.kids[h] /\ content.kids[h][i] = k /\ k \in D
      BY <1>1
    <3> HIDE DEF k, ks
    <3> QED BY <3>1, <1>0, MemberOnce
  <2>2. ~(k \in V \/ \E j \in 1 .. L : tasks[j].n = k)
    <3>1. ~ \E m \in V : \E j \in DOMAIN content.kids[m] : content.kids[m][j] = k
      <4> HIDE DEF k
      <4> QED BY <2>1, <1>2
    <3>2. /\ k \in D
          /\ k \in V \/ (\E j \in 1 .. L : tasks[j].n = k) =>
               k = content.root \/ \E m \in V : \E j \in DOMAIN content.kids[m] : content.kids[m][j] = k
      <4> HIDE DEF k
      <4>1. k \in D
        BY DEF k
      <4> QED BY <4>1 DEF Reached, Kids, L
    <3> HIDE DEF k, D
    <3> QED BY <3>1, <3>2, <2>1
  <2>3. k # h
    BY <2>2, <1>1, <1>2
  <2>4. \A j \in 1 .. N : ks[j] = k => i = j
    BY <2>1, <1>1
  <2> QED BY <2>2, <2>3, <2>4
<1>4. WorkType'
  <2>1. \A i \in 1 .. Len(tasks') : tasks'[i].does \in {"any", "typed", "skip", "value"}
    BY <1>1 DEF WorkType, L
  <2> QED BY <2>1, <1>1 DEF WorkType
<1>5. Once'
  <2> SUFFICES ASSUME NEW i \in 1 .. Len(tasks'), NEW j \in 1 .. Len(tasks'),
                      tasks'[i].n \in D, tasks'[i].n = tasks'[j].n
               PROVE  i = j
    BY DEF Once, HasMembers
  <2>0. i \in Int /\ j \in Int /\ N \in Int
    BY <1>1
  <2>1. CASE i \in 1 .. N /\ j \in 1 .. N
    BY <2>1, <1>1, <1>3
  <2>2. CASE i \in 1 .. N /\ j \notin 1 .. N
    <3>1. tasks'[i].n = ks[i] /\ tasks'[j] = tasks[Old(j)] /\ Old(j) \in 1 .. L
      BY <2>2, <1>1
    <3> QED BY <3>1, <2>2, <1>3
  <2>3. CASE i \notin 1 .. N /\ j \in 1 .. N
    <3>1. tasks'[j].n = ks[j] /\ tasks'[i] = tasks[Old(i)] /\ Old(i) \in 1 .. L
      BY <2>3, <1>1
    <3> QED BY <3>1, <2>3, <1>3
  <2>4. CASE i \notin 1 .. N /\ j \notin 1 .. N
    <3>1. /\ Old(i) \in 1 .. L /\ Old(j) \in 1 .. L
          /\ tasks'[i] = tasks[Old(i)] /\ tasks'[j] = tasks[Old(j)]
      BY <2>4, <1>1
    <3>2. Old(i) = Old(j)
      BY <3>1 DEF Once, HasMembers, L
    <3> QED BY <3>2, <2>0 DEF Old
  <2> QED BY <2>1, <2>2, <2>3, <2>4
<1>6. Fresh(U)'
  <2> SUFFICES ASSUME NEW i \in 1 .. Len(tasks'), tasks'[i].n \in U PROVE FALSE
    BY DEF Fresh
  <2>1. CASE i \in 1 .. N
    BY <2>1, <1>1, <1>2, <1>3
  <2>2. CASE i \notin 1 .. N
    <3>1. Old(i) \in 1 .. L /\ Old(i) # 1 /\ tasks'[i] = tasks[Old(i)]
      BY <2>2, <1>1
    <3>2. tasks[Old(i)].n \notin V
      BY <3>1 DEF Fresh, L
    <3>3. tasks[Old(i)].n # h
      BY <3>1, <1>1, <1>2 DEF Once, HasMembers, L
    <3> QED BY <3>1, <3>2, <3>3
  <2> QED BY <2>1, <2>2
<1>7. Reached(U)'
  <2> SUFFICES ASSUME NEW n \in D, n \in U \/ \E i \in 1 .. Len(tasks') : tasks'[i].n = n
               PROVE  n = content.root \/ \E m \in U : \E i \in DOMAIN content.kids[m] : content.kids[m][i] = n
    BY DEF Reached, Kids
  <2>1. CASE n \in V \/ \E i \in 1 .. L : tasks[i].n = n
    BY <2>1 DEF Reached, Kids, L
  <2>2. CASE \E i \in 1 .. N : n = ks[i]
    BY <2>2, <1>1
  <2>3. (n \in V \/ \E i \in 1 .. L : tasks[i].n = n) \/ \E i \in 1 .. N : n = ks[i]
    BY <1>1, <1>2
  <2> QED BY <2>1, <2>2, <2>3
<1>8. Paid(U)'
  <2> DEFINE F == Sizes(content)
             before == SumFunctionOnSet(F, V)
             after == SumFunctionOnSet(F, U)
             more == IF tasks # << >> /\ Head(tasks).does = "value" THEN 1 ELSE 0
             more1 == IF tasks' # << >> /\ Head(tasks').does = "value" THEN 1 ELSE 0
  <2>1. IsFiniteSet(V) /\ IsFiniteSet(U)
    BY <1>0, <1>2, FS_Subset
  <2>2. after = F[h] + before /\ before \in Nat
    <3>1. U \ {h} = V /\ h \in U /\ \A x \in U : F[x] \in Nat
      BY <1>0, <1>2
    <3> HIDE DEF U, F
    <3>2. SumFunctionOnSet(F, U) = F[h] + SumFunctionOnSet(F, U \ {h})
      BY ONLY <2>1, <3>1, SumRemove
    <3>3. \A x \in V : F[x] \in Nat
      BY <3>1
    <3>4. SumFunctionOnSet(F, V) \in Nat
      BY <2>1, <3>3, SumType
    <3> QED BY <3>1, <3>2, <3>4
  <2>3. nodes + 2 * L <= 2 * (1 + before) + more
    BY DEF Paid, L
  <2>4. more \in {0, 1} /\ more1 \in {0, 1}
    OBVIOUS
  <2>5. Paid(U)' <=> nodes' + 2 * Len(tasks') <= 2 * (1 + after) + more1
    BY DEF Paid
  <2>6. N <= F[h] /\ F[h] \in Nat
    BY <1>0 DEF N
  <2> HIDE DEF F, before, after, more, more1
  <2>7. nodes + 1 + 2 * (N + L - 1) <= 2 * (1 + after) + more1
    <3>1. /\ nodes \in Nat /\ N \in Nat /\ L \in Nat /\ before \in Nat /\ F[h] \in Nat
          /\ more <= 1 /\ 0 <= more1 /\ more \in Int /\ more1 \in Int
          /\ after = F[h] + before /\ N <= F[h] /\ nodes + 2 * L <= 2 * (1 + before) + more
      BY <2>2, <2>3, <2>4, <2>6, <1>0, <1>1
    <3> QED BY ONLY <3>1
  <2> QED BY <2>5, <2>7, <1>1
<1> QED BY <1>2, <1>4, <1>5, <1>6, <1>7, <1>8

\* The walk leaves the value at the head of its work, counted or not.
LEMMA LeafPreserves ==
  ASSUME IInv, WorkType, Once, NEW V \in SUBSET DOMAIN content.kids,
         Paid(V), Fresh(V), Reached(V), tasks # << >>, content' = content,
         tasks' = Tail(tasks), nodes' = nodes \/ nodes' = nodes + 1
  PROVE  WorkType' /\ Once' /\ Paid(V)' /\ Fresh(V)' /\ Reached(V)'
<1> DEFINE L == Len(tasks)
<1>1. /\ tasks' \in Seq(Range(tasks')) /\ L \in Nat \ {0} /\ Len(tasks') = L - 1
      /\ \A i \in 1 .. L - 1 : tasks'[i] = tasks[i + 1]
  <2>1. /\ Tail(tasks) \in Seq(Range(tasks)) /\ L \in Nat \ {0} /\ Len(Tail(tasks)) = L - 1
        /\ \A i \in 1 .. L - 1 : Tail(tasks)[i] = tasks[i + 1]
    BY DEF WorkType
  <2>2. Tail(tasks) \in Seq(Range(Tail(tasks)))
    BY <2>1, OwnElements
  <2> QED BY <2>1, <2>2
<1>2. \A i \in 1 .. Len(tasks') : i + 1 \in 1 .. L /\ tasks'[i] = tasks[i + 1] /\ i \in Int
  BY <1>1
<1> HIDE DEF L
<1>3. WorkType'
  BY <1>1, <1>2 DEF WorkType, L
<1>4. Once'
  <2> SUFFICES ASSUME NEW i \in 1 .. Len(tasks'), NEW j \in 1 .. Len(tasks'),
                      tasks'[i].n \in DOMAIN content.kids, tasks'[i].n = tasks'[j].n
               PROVE  i = j
    BY DEF Once, HasMembers
  <2>1. i + 1 = j + 1
    BY <1>2 DEF Once, HasMembers, L
  <2> QED BY <2>1, <1>2
<1>5. Fresh(V)'
  BY <1>2 DEF Fresh, L
<1>6. Reached(V)'
  <2> SUFFICES ASSUME NEW n \in DOMAIN content.kids,
                      n \in V \/ \E i \in 1 .. Len(tasks') : tasks'[i].n = n
               PROVE  \/ n = content.root
                      \/ \E m \in V : \E i \in DOMAIN content.kids[m] : content.kids[m][i] = n
    BY DEF Reached, Kids
  <2>1. n \in V \/ \E i \in 1 .. L : tasks[i].n = n
    BY <1>2
  <2> QED BY <2>1 DEF Reached, Kids, L
<1>7. Paid(V)'
  <2> DEFINE before == SumFunctionOnSet(Sizes(content), V)
             more == IF tasks # << >> /\ Head(tasks).does = "value" THEN 1 ELSE 0
             more1 == IF tasks' # << >> /\ Head(tasks').does = "value" THEN 1 ELSE 0
  <2>1. before \in Nat
    <3>1. IsFiniteSet(V) /\ \A x \in V : Sizes(content)[x] \in Nat
      BY SizesType, FS_Subset DEF IInv
    <3> QED BY <3>1, SumType
  <2>2. nodes + 2 * L <= 2 * (1 + before) + more
    BY DEF Paid, L
  <2>3. Paid(V)' <=> nodes' + 2 * Len(tasks') <= 2 * (1 + before) + more1
    BY DEF Paid
  <2>4. /\ more \in Int /\ more <= 1 /\ more1 \in Int /\ 0 <= more1
        /\ nodes \in Nat /\ L \in Nat /\ (nodes' = nodes \/ nodes' = nodes + 1)
    BY <1>1 DEF IInv
  <2> HIDE DEF before, more, more1
  <2>5. nodes' + 2 * (L - 1) <= 2 * (1 + before) + more1
    BY ONLY <2>1, <2>2, <2>4
  <2> QED BY <2>3, <2>5, <1>1
<1> QED BY <1>3, <1>4, <1>5, <1>6, <1>7

\* unmarshal counts a value that goes into an interface and hands it to valueInterface.
LEMMA HandOverPreserves ==
  ASSUME IInv, WorkType, Once, NEW V \in SUBSET DOMAIN content.kids,
         Paid(V), Fresh(V), Reached(V), tasks # << >>, content' = content,
         Head(tasks).does = "any",
         tasks' = <<Task("value", Head(tasks).n)>> \o Tail(tasks), nodes' = nodes + 1
  PROVE  WorkType' /\ Once' /\ Paid(V)' /\ Fresh(V)' /\ Reached(V)'
<1> DEFINE L == Len(tasks)
           t == Task("value", Head(tasks).n)
           w == tasks'
<1>1. /\ <<t>> \in Seq(Range(<<t>>)) /\ Len(<<t>>) = 1 /\ <<t>>[1] = t
      /\ w = <<t>> \o Tail(tasks) /\ tasks \in Seq(Range(tasks))
      /\ t.n = Head(tasks).n /\ t.does = "value"
  BY OwnElements DEF WorkType, Task, Range
<1> HIDE DEF t, w
<1>2. /\ w \in Seq(Range(w)) /\ L \in Nat \ {0} /\ Len(w) = L /\ Head(tasks) = tasks[1]
      /\ Len(w) = Len(<<t>>) + L - 1
  <2>1. /\ w \in Seq(Range(w)) /\ L \in Nat \ {0} /\ Head(tasks) = tasks[1]
        /\ Len(w) = Len(<<t>>) + L - 1
    BY ONLY <1>1, tasks # << >>, HeadReplaced
  <2> HIDE DEF L
  <2>2. Len(w) = L
    BY ONLY <2>1, <1>1
  <2> QED BY <2>1, <2>2
<1>3. \A i \in 1 .. Len(w) :
        \/ i \in 1 .. Len(<<t>>) /\ w[i] = <<t>>[i]
        \/ /\ i \notin 1 .. Len(<<t>>) /\ i - Len(<<t>>) + 1 \in 1 .. L
           /\ w[i] = tasks[i - Len(<<t>>) + 1]
  BY ONLY <1>1, tasks # << >>, HeadReplaced
<1>4. w[1] = t /\ Head(w) = t /\ w # << >>
  BY <1>1, <1>2, <1>3
<1>5. \A i \in 1 .. L : i # 1 => w[i] = tasks[i]
  BY <1>1, <1>2, <1>3
<1>6. \A i \in 1 .. L : w[i].n = tasks[i].n /\ w[i].does \in {tasks[i].does, "value"}
  BY <1>1, <1>2, <1>4, <1>5
<1> HIDE DEF L
<1>7. WorkType'
  <2>1. \A i \in 1 .. Len(tasks') : tasks'[i].does \in {"any", "typed", "skip", "value"}
    BY <1>2, <1>6 DEF WorkType, L, w
  <2> QED BY <2>1, <1>2 DEF WorkType, w
<1>8. Once'
  BY <1>2, <1>6 DEF Once, HasMembers, L, w
<1>9. Fresh(V)'
  BY <1>2, <1>6 DEF Fresh, L, w
<1>10. Reached(V)'
  <2> SUFFICES ASSUME NEW n \in DOMAIN content.kids,
                      n \in V \/ \E i \in 1 .. Len(w) : w[i].n = n
               PROVE  \/ n = content.root
                      \/ \E m \in V : \E i \in DOMAIN content.kids[m] : content.kids[m][i] = n
    BY DEF Reached, Kids, w
  <2>1. n \in V \/ \E i \in 1 .. L : tasks[i].n = n
    BY <1>2, <1>6
  <2> QED BY <2>1 DEF Reached, Kids, L
<1>11. Paid(V)'
  <2> DEFINE bound == 2 * (1 + SumFunctionOnSet(Sizes(content), V))
  <2>1. bound \in Nat
    <3>1. IsFiniteSet(V) /\ \A x \in V : Sizes(content)[x] \in Nat
      BY SizesType, FS_Subset DEF IInv
    <3>2. SumFunctionOnSet(Sizes(content), V) \in Nat
      BY <3>1, SumType
    <3> QED BY <3>2
  <2>2. nodes + 2 * L <= bound + 0
    BY DEF Paid, L
  <2>3. Paid(V)' <=> nodes' + 2 * Len(w) <= bound + 1
    BY <1>1, <1>4 DEF Paid, w
  <2>4. nodes \in Nat /\ L \in Nat
    BY <1>2 DEF IInv
  <2> HIDE DEF bound
  <2>5. nodes + 1 + 2 * L <= bound + 1
    BY ONLY <2>1, <2>2, <2>4
  <2> QED BY <2>3, <2>5, <1>2
<1> QED BY <1>7, <1>8, <1>9, <1>10, <1>11

\* The walk of a tree begins with the root alone.
LEMMA StartOfTree ==
  ASSUME IInv, Start
  PROVE  /\ WorkType' /\ Once'
         /\ \E V \in SUBSET DOMAIN content.kids : Paid(V)' /\ Fresh(V)' /\ Reached(V)'
<1>1. PICK does \in {"any", "typed", "skip"} : tasks' = <<Task(does, content.root)>>
  BY DEF Start
<1>2. content' = content /\ nodes' = 0
  BY DEF Start
<1>3. /\ Len(tasks') = 1 /\ tasks' \in Seq(Range(tasks')) /\ tasks'[1].n = content.root
      /\ tasks'[1].does \in {"any", "typed", "skip", "value"}
  BY <1>1 DEF Task, Range
<1>4. \A i \in 1 .. Len(tasks') : i = 1
  BY <1>3
<1>5. WorkType' /\ Once'
  BY <1>3, <1>4 DEF WorkType, Once
<1>6. Fresh({})' /\ Reached({})'
  BY <1>2, <1>3, <1>4 DEF Fresh, Reached
<1>7. Paid({})'
  <2>1. SumFunctionOnSet(Sizes(content), {}) = 0
    BY FS_EmptySet, SumStep
  <2> DEFINE more1 == IF tasks' # << >> /\ Head(tasks').does = "value" THEN 1 ELSE 0
  <2>2. Paid({})' <=> 0 + 2 * 1 <= 2 * (1 + 0) + more1
    BY <2>1, <1>2, <1>3 DEF Paid
  <2> QED BY <2>2
<1> QED BY <1>5, <1>6, <1>7

\* In the walk of a tree no container is entered twice, and what was counted is paid
\* for by the distinct values of the containers that were.
THEOREM WalkOfTree == DecoderSpec => []TreeWalk
<1>1. DecoderInit => TreeWalk
  BY DEF DecoderInit, TreeWalk
<1>2. IInv /\ TreeWalk /\ [DecoderNext]_streamVars => TreeWalk'
  <2> SUFFICES ASSUME IInv, TreeWalk, [DecoderNext]_streamVars, stage' = "walk", IsTree(content')
               PROVE  /\ WorkType' /\ Once'
                      /\ \E V \in SUBSET DOMAIN content'.kids : Paid(V)' /\ Fresh(V)' /\ Reached(V)'
    BY DEF TreeWalk
  <2>1. CASE UNCHANGED streamVars
    <3>1. content' = content /\ tasks' = tasks /\ nodes' = nodes /\ stage' = stage
      BY <2>1 DEF streamVars, decoderVars
    <3> QED BY <3>1 DEF TreeWalk, WorkType, Once, HasMembers, Paid, Fresh, Reached, Kids
  <2>2. CASE Start
    <3>1. content' = content
      BY <2>2 DEF Start
    <3> QED BY <2>2, <3>1, StartOfTree
  <2>3. CASE SkipNil \/ Visit
    <3>1. content' = content /\ tasks # << >> /\ stage = "walk"
      BY <2>3 DEF SkipNil, Visit
    <3>2. PICK V \in SUBSET DOMAIN content.kids : Paid(V) /\ Fresh(V) /\ Reached(V)
      BY <3>1 DEF TreeWalk
    <3>3. WorkType /\ Once /\ IsTree(content)
      BY <3>1 DEF TreeWalk
    <3> DEFINE h == Head(tasks)
    <3>4. h.does \in {"any", "typed", "skip", "value"}
      <4>1. Head(tasks) = tasks[1] /\ 1 \in 1 .. Len(tasks)
        BY <3>1, <3>3 DEF WorkType
      <4> QED BY <4>1, <3>3 DEF WorkType
    <3>5. CASE SkipNil
      <4>1. tasks' = Tail(tasks) /\ nodes' = nodes
        BY <3>5 DEF SkipNil, decoderVars
      <4> QED BY <4>1, <3>1, <3>2, <3>3, LeafPreserves
    <3>6. CASE Visit
      <4>1. PICK next \in Follow(h) : tasks' = next \o Tail(tasks)
        BY <3>6 DEF Visit
      <4>2. nodes' = nodes + 1
        BY <3>6 DEF Visit, CountNode
      <4>3. CASE h.does = "any"
        <5>1. h.n # Unresolved
          BY <3>6, <4>3 DEF Visit, Uncounted
        <5>2. next = <<Task("value", h.n)>>
          BY <4>3, <5>1 DEF Follow
        <5> QED BY <4>1, <4>2, <4>3, <5>2, <3>1, <3>2, <3>3, HandOverPreserves
      <4>4. CASE h.does # "any"
        <5>1. next \in MembersOf(h)
          BY <4>4 DEF Follow
        <5>2. CASE next = << >>
          <6>1. tasks' = Tail(tasks)
            <7>1. Tail(tasks) \in Seq(Range(tasks))
              BY <3>1, <3>3 DEF WorkType
            <7> QED BY <7>1, <4>1, <5>2
          <6> QED BY <6>1, <4>2, <3>1, <3>2, <3>3, LeafPreserves
        <5>3. CASE next # << >>
          <6>1. /\ h.n \in DOMAIN content.kids
                /\ \E does \in {"any", "typed", "value"} : next = Tasks(does, Kids(h.n))
            <7>1. h.n \in DOMAIN content.kids
              BY <5>1, <5>3 DEF MembersOf, HasMembers
            <7>2. CASE h.does = "value"
              <8>1. next = Tasks("value", Kids(h.n))
                BY <5>1, <5>3, <7>2 DEF MembersOf
              <8> QED BY <7>1, <8>1
            <7>3. CASE h.does = "typed"
              <8>1. next = Tasks("any", Kids(h.n)) \/ next = Tasks("typed", Kids(h.n))
                BY <5>1, <5>3, <7>3 DEF MembersOf
              <8> QED BY <7>1, <8>1
            <7>4. CASE h.does = "skip"
              BY <5>1, <5>3, <7>4 DEF MembersOf
            <7> QED BY <7>1, <7>2, <7>3, <7>4, <3>4, <4>4
          <6>2. PICK does \in {"any", "typed", "value"} : next = Tasks(does, Kids(h.n))
            BY <6>1
          <6> QED BY <6>1, <6>2, <4>1, <4>2, <3>1, <3>2, <3>3, OpenPreserves
        <5> QED BY <5>2, <5>3
      <4> QED BY <4>3, <4>4
    <3> QED BY <2>3, <3>5, <3>6
  <2>4. ~(Replace \/ Decode \/ ParseBinary \/ ParseXML \/ ParseText \/ Refuse \/ Mismatch \/ Finish)
    BY DEF Replace, Decode, ParseBinary, ParseXML, ParseText, Refuse, Mismatch, Finish, EndCall
  <2> QED BY <2>1, <2>2, <2>3, <2>4 DEF DecoderNext
<1> QED BY <1>1, <1>2, Inductive, PTL DEF DecoderSpec

\* A document that shares nothing is never refused: the count of its walk, doubled by
\* the interfaces it goes into, stays within twice its distinct values.
THEOREM TreesDecode == DecoderSpec => []TreesAccepted
<1>1. IInv /\ TreeWalk => TreesAccepted
  <2> SUFFICES ASSUME IInv, TreeWalk, IsTree(content), stage = "walk", tasks # << >>, Exceeds
               PROVE  FALSE
    BY DEF TreesAccepted
  <2> DEFINE D == DOMAIN content.kids
             distinct == Distinct(content)
             limit == Limit(content)
             x == Factor * distinct
  <2>1. PICK V \in SUBSET D : Paid(V)
    BY DEF TreeWalk
  <2>2. /\ IsFiniteSet(D) /\ \A n \in D : Sizes(content)[n] \in Nat
        /\ distinct = 1 + SumFunctionOnSet(Sizes(content), D) /\ distinct \in Nat
    BY SizesType DEF IInv
  <2>3. /\ SumFunctionOnSet(Sizes(content), V) <= SumFunctionOnSet(Sizes(content), D)
        /\ SumFunctionOnSet(Sizes(content), V) \in Nat
        /\ SumFunctionOnSet(Sizes(content), D) \in Nat
    <3>1. IsFiniteSet(V) /\ \A n \in V : Sizes(content)[n] \in Nat
      BY <2>2, FS_Subset
    <3> HIDE DEF D, distinct
    <3> QED BY <2>2, <3>1, SumPart, SumType
  <2> DEFINE part == SumFunctionOnSet(Sizes(content), V)
             whole == SumFunctionOnSet(Sizes(content), D)
             more == IF tasks # << >> /\ Head(tasks).does = "value" THEN 1 ELSE 0
  <2>4. nodes + 2 * Len(tasks) <= 2 * (1 + part) + more /\ more \in Int /\ more <= 1
    BY <2>1 DEF Paid
  <2>5. Len(tasks) \in Nat \ {0} /\ nodes \in Nat
    BY DEF TreeWalk, WorkType, IInv
  <2>6. limit \in Nat /\ Free <= limit /\ Free \in Nat
    BY LimitType, LimitsAssumption DEF IInv
  <2>7. nodes + 1 > limit
    BY <2>6 DEF Exceeds, IInv, BudgetRight
  <2>8. x \in Int /\ limit >= x
    <3>1. x \in Int
      BY <2>2, LimitsAssumption
    <3> HIDE DEF x, distinct
    <3>2. limit = IF x > Free THEN x ELSE Free
      BY DEF Limit, x, distinct
    <3> HIDE DEF limit
    <3> QED BY <3>1, <3>2, <2>6
  <2>9. 2 * distinct <= x
    <3> HIDE DEF distinct
    <3> QED BY <2>2, LimitsAssumption
  <2>10. nodes + 1 <= 2 * distinct
    <3> HIDE DEF part, whole, more, distinct
    <3>1. /\ part <= whole /\ part \in Nat /\ whole \in Nat /\ distinct = 1 + whole
          /\ nodes + 2 * Len(tasks) <= 2 * (1 + part) + more /\ more \in Int /\ more <= 1
          /\ Len(tasks) \in Nat \ {0} /\ nodes \in Nat
      BY <2>2, <2>3, <2>4, <2>5 DEF part, whole
    <3> QED BY ONLY <3>1
  <2> HIDE DEF x, limit, distinct
  <2> QED BY <2>2, <2>5, <2>6, <2>7, <2>8, <2>9, <2>10
<1> QED BY <1>1, Inductive, WalkOfTree, PTL
================================================================================
