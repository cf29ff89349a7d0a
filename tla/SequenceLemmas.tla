---------------------------- MODULE SequenceLemmas ----------------------------
(***************************************************************************)
(* Facts about sequences that the proofs of this project share: what       *)
(* pushing, popping and changing the top does to a stack of open calls,    *)
(* that concatenating and flattening sequences gives a sequence, and what  *)
(* its elements are.  The induction they need is LeastNatural: of the      *)
(* numbers for which a statement fails there is a least one.               *)
(***************************************************************************)
EXTENDS SequencesExt, Integers, SequenceTheorems, WellFoundedInduction, TLAPS

\* A sequence is one over its own elements.
LEMMA OwnElements ==
  ASSUME NEW S, NEW s \in Seq(S)
  PROVE  s \in Seq(Range(s))
<1>1. \A i \in 1 .. Len(s) : s[i] \in Range(s)
  BY DEF Range
<1> DEFINE R == Range(s)
<1>2. \A i \in 1 .. Len(s) : s[i] \in R
  BY <1>1
<1> HIDE DEF R
<1>3. s \in Seq(R)
  BY <1>2
<1> QED BY <1>3 DEF R

\* The three things the parser does to its stack: push, pop, change the top.
LEMMA Pushed ==
  ASSUME NEW S, NEW s \in Seq(S), NEW v
  PROVE  /\ Append(s, v) \in Seq(S \cup {v})
         /\ Len(s) \in Nat /\ Len(Append(s, v)) = Len(s) + 1
         /\ \A i \in 1 .. Len(s) : Append(s, v)[i] = s[i]
         /\ Append(s, v)[Len(s) + 1] = v
<1> DEFINE T == S \cup {v}
<1>1. s \in Seq(T) /\ v \in T
  OBVIOUS
<1> HIDE DEF T
<1>2. /\ Append(s, v) \in Seq(T) /\ Len(s) \in Nat /\ Len(Append(s, v)) = Len(s) + 1
      /\ \A i \in 1 .. Len(s) : Append(s, v)[i] = s[i]
      /\ Append(s, v)[Len(s) + 1] = v
  BY <1>1
<1> QED BY <1>2 DEF T

LEMMA Popped ==
  ASSUME NEW S, NEW s \in Seq(S), s # << >>
  PROVE  /\ Front(s) \in Seq(S)
         /\ Len(s) \in Nat \ {0} /\ Len(Front(s)) = Len(s) - 1
         /\ \A i \in 1 .. Len(s) - 1 : Front(s)[i] = s[i]
<1> DEFINE n == Len(s) - 1
           t == SubSeq(s, 1, n)
<1>1. Len(s) \in Nat \ {0}
  OBVIOUS
<1>2. n \in Int /\ 1 \in Int /\ \A i \in 1 .. n : s[i] \in S
  BY <1>1
<1> HIDE DEF n
<1>3. t \in Seq(S) /\ Len(t) = IF 1 <= n THEN n - 1 + 1 ELSE 0
  BY <1>2, SubSeqProperties
<1>4. ASSUME NEW i \in 1 .. n PROVE t[i] = s[i]
  <2>1. i \in 1 .. n - 1 + 1 /\ 1 + i - 1 = i
    BY <1>2
  <2>2. t[i] = s[1 + i - 1]
    BY <1>2, <2>1, SubSeqProperties
  <2> QED BY <2>1, <2>2
<1>5. Len(t) = n
  <2> HIDE DEF t
  <2>1. n = Len(s) - 1
    BY DEF n
  <2> QED BY ONLY <1>1, <1>3, <2>1
<1> QED BY <1>1, <1>3, <1>4, <1>5 DEF Front, n

LEMMA TopChanged ==
  ASSUME NEW S, NEW s \in Seq(S), s # << >>, NEW v \in S
  PROVE  /\ [s EXCEPT ![Len(s)] = v] \in Seq(S)
         /\ Len(s) \in Nat \ {0} /\ Len([s EXCEPT ![Len(s)] = v]) = Len(s)
         /\ \A i \in 1 .. Len(s) - 1 : [s EXCEPT ![Len(s)] = v][i] = s[i]
         /\ [s EXCEPT ![Len(s)] = v][Len(s)] = v
<1>1. Len(s) \in Nat \ {0} /\ DOMAIN s = 1 .. Len(s)
  OBVIOUS
<1>2. [s EXCEPT ![Len(s)] = v] \in Seq(S)
  OBVIOUS
<1>3. Len([s EXCEPT ![Len(s)] = v]) = Len(s)
  OBVIOUS
<1>4. ASSUME NEW i \in 1 .. Len(s) - 1 PROVE [s EXCEPT ![Len(s)] = v][i] = s[i]
  <2> DEFINE n == Len(s)
  <2>0. n \in Nat /\ i \in 1 .. n - 1
    BY <1>1
  <2> HIDE DEF n
  <2>1. i \in 1 .. n /\ i # n
    BY ONLY <2>0
  <2> QED BY <1>1, <2>1 DEF n
<1>5. [s EXCEPT ![Len(s)] = v][Len(s)] = v
  BY <1>1
<1> QED BY <1>1, <1>2, <1>3, <1>4, <1>5
--------------------------------------------------------------------------------
\* A set of naturals has a least element: what induction on a number rests on.
LEMMA LeastNatural ==
  ASSUME NEW S \in SUBSET Nat, S # {}
  PROVE  \E x \in S : \A y \in S : x <= y
<1>1. PICK x \in S : \A y \in S : ~(<<y, x>> \in OpToRel(<, Nat))
  BY NatLessThanWellFounded, WFMin
<1>2. \A y \in S : x <= y
  <2> SUFFICES ASSUME NEW y \in S PROVE x <= y
    OBVIOUS
  <2>1. <<y, x>> \notin OpToRel(<, Nat)
    BY <1>1
  <2>2. ~(y < x)
    BY <2>1 DEF OpToRel
  <2> QED BY <2>2
<1> QED BY <1>2

\* A function on 1 .. n is a sequence over its own values.
LEMMA FromFunction ==
  ASSUME NEW n \in Nat, NEW s, s = [i \in 1 .. n |-> s[i]]
  PROVE  s \in Seq(Range(s)) /\ Len(s) = n
<1> DEFINE R == Range(s)
<1>1. DOMAIN s = 1 .. n
  OBVIOUS
<1>2. \A i \in 1 .. n : s[i] \in R
  BY <1>1 DEF Range
<1> HIDE DEF R
<1>3. s \in [1 .. n -> R]
  BY <1>2
<1>4. s \in Seq(R) /\ Len(s) = n
  BY <1>3
<1> QED BY <1>4 DEF R

LEMMA Concatenated ==
  ASSUME NEW s, NEW t, s \in Seq(Range(s)), t \in Seq(Range(t))
  PROVE  /\ s \o t \in Seq(Range(s \o t))
         /\ Len(s) \in Nat /\ Len(t) \in Nat /\ Len(s \o t) = Len(s) + Len(t)
         /\ \A i \in 1 .. Len(s) : (s \o t)[i] = s[i]
         /\ \A i \in 1 .. Len(t) : (s \o t)[Len(s) + i] = t[i]
<1> DEFINE T == Range(s) \cup Range(t)
<1>1. s \in Seq(T)
  <2>1. Range(s) \subseteq T
    OBVIOUS
  <2>2. \A A, B : A \subseteq B => \A x \in Seq(A) : x \in Seq(B)
    OBVIOUS
  <2> QED BY <2>1, <2>2
<1>2. t \in Seq(T)
  <2>1. Range(t) \subseteq T
    OBVIOUS
  <2>2. \A A, B : A \subseteq B => \A x \in Seq(A) : x \in Seq(B)
    OBVIOUS
  <2> QED BY <2>1, <2>2
<1> HIDE DEF T
<1>3. s \o t \in Seq(T)
  BY <1>1, <1>2
<1>4. s \o t \in Seq(Range(s \o t))
  BY <1>3, OwnElements
<1> QED BY <1>1, <1>2, <1>4

\* FlattenSeq returns a sequence: the recursive function it is made with exists for
\* every number of sequences, and each of its values is a sequence.
LEMMA Flattened ==
  ASSUME NEW seqs, seqs \in Seq(Range(seqs)),
         \A i \in 1 .. Len(seqs) : seqs[i] \in Seq(Range(seqs[i]))
  PROVE  FlattenSeq(seqs) \in Seq(Range(FlattenSeq(seqs)))
<1> DEFINE Step(f, i) == IF i = 1 THEN seqs[i] ELSE f[i - 1] \o seqs[i]
           Flattens(f, n) == f = [i \in 1 .. n |-> Step(f, i)]
           n == Len(seqs)
<1>1. n \in Nat /\ \A i \in 1 .. n : seqs[i] \in Seq(Range(seqs[i]))
  OBVIOUS
<1> HIDE DEF n
<1>2. \A m \in Nat : \E f : Flattens(f, m)
  <2> DEFINE Without == {m \in Nat : ~ \E f : Flattens(f, m)}
  <2> SUFFICES ASSUME Without # {} PROVE FALSE
    OBVIOUS
  <2>1. PICK m \in Without : \A k \in Without : m <= k
    BY LeastNatural
  <2>2. m # 0
    <3>1. Flattens(<< >>, 0)
      OBVIOUS
    <3> QED BY <3>1
  <2>3. m - 1 \in Nat /\ m - 1 \notin Without /\ m \in Nat
    <3>1. m \in Nat
      OBVIOUS
    <3> HIDE DEF Without
    <3>2. m - 1 \in Nat /\ ~(m <= m - 1)
      BY ONLY <3>1, <2>2
    <3> QED BY <3>1, <3>2, <2>1
  <2>4. PICK f : Flattens(f, m - 1)
    BY <2>3
  <2> DEFINE g == [i \in 1 .. m |-> Step(f, i)]
  <2>5. \A i \in 1 .. m - 1 : f[i] = Step(f, i)
    BY <2>3, <2>4
  <2>6. ASSUME NEW i \in 1 .. m PROVE Step(g, i) = Step(f, i)
    <3>1. CASE i = 1
      BY <3>1
    <3>2. CASE i # 1
      <4>1. i - 1 \in 1 .. m - 1 /\ i - 1 \in 1 .. m
        BY <3>2, <2>3
      <4>2. g[i - 1] = f[i - 1]
        BY <4>1, <2>5
      <4> QED BY <4>2
    <3> QED BY <3>1, <3>2
  <2>7. Flattens(g, m)
    BY <2>6
  <2> QED BY <2>1, <2>7
<1> DEFINE flatten == CHOOSE f : Flattens(f, n)
<1>3. Flattens(flatten, n)
  BY <1>1, <1>2
<1>4. CASE n = 0
  BY <1>4 DEF FlattenSeq, n
<1>5. CASE n # 0
  <2>1. FlattenSeq(seqs) = flatten[n]
    BY <1>5 DEF FlattenSeq, n
  <2> HIDE DEF flatten
  <2>2. ASSUME NEW i \in 1 .. n PROVE flatten[i] = Step(flatten, i)
    BY <1>3
  <2> DEFINE Wrong == {i \in 1 .. n : flatten[i] \notin Seq(Range(flatten[i]))}
  <2>3. Wrong = {}
    <3> SUFFICES ASSUME Wrong # {} PROVE FALSE
      OBVIOUS
    <3>0. Wrong \in SUBSET Nat
      BY <1>1
    <3>1. PICK i \in Wrong : \A k \in Wrong : i <= k
      <4> HIDE DEF Wrong
      <4> QED BY <3>0, LeastNatural
    <3>2. CASE i = 1
      BY <3>1, <3>2, <2>2, <1>1
    <3>3. CASE i # 1
      <4>1. i - 1 \in 1 .. n /\ i - 1 \notin Wrong
        BY <3>1, <3>3, <1>1
      <4>2. flatten[i - 1] \in Seq(Range(flatten[i - 1]))
        BY <4>1
      <4>3. flatten[i] = flatten[i - 1] \o seqs[i]
        BY <3>3, <2>2
      <4> DEFINE before == flatten[i - 1]
                 last == seqs[i]
      <4>4. before \in Seq(Range(before)) /\ last \in Seq(Range(last)) /\ flatten[i] = before \o last
        BY <4>2, <4>3, <1>1
      <4> HIDE DEF before, last
      <4>5. flatten[i] \in Seq(Range(flatten[i]))
        BY <4>4, Concatenated
      <4> QED BY <4>5
    <3> QED BY <3>2, <3>3
  <2> QED BY <2>1, <2>3, <1>1, <1>5
<1> QED BY <1>4, <1>5
--------------------------------------------------------------------------------
\* The elements of a sequence are its head and those of its tail.
LEMMA HeadAndTail ==
  ASSUME NEW S, NEW s \in Seq(S), s # << >>
  PROVE  /\ Head(s) \in S /\ Tail(s) \in Seq(S)
         /\ Range(s) = {Head(s)} \cup Range(Tail(s))
<1>1. /\ Head(s) = s[1] /\ Head(s) \in S /\ Tail(s) \in Seq(S) /\ Len(s) \in Nat \ {0} /\ DOMAIN s = 1 .. Len(s)
      /\ Len(Tail(s)) = Len(s) - 1 /\ DOMAIN Tail(s) = 1 .. Len(s) - 1
      /\ \A i \in 1 .. Len(s) - 1 : Tail(s)[i] = s[i + 1]
  OBVIOUS
<1> DEFINE t == Tail(s)
<1>2. \A i \in 1 .. Len(s) - 1 : i + 1 \in 1 .. Len(s)
  BY <1>1
<1>3. \A i \in 1 .. Len(s) : i = 1 \/ (i - 1 \in 1 .. Len(s) - 1 /\ (i - 1) + 1 = i)
  BY <1>1
<1> HIDE DEF t
<1>4. {s[i] : i \in 1 .. Len(s)} = {s[1]} \cup {t[i] : i \in 1 .. Len(s) - 1}
  <2>1. ASSUME NEW i \in 1 .. Len(s) PROVE s[i] = s[1] \/ \E j \in 1 .. Len(s) - 1 : s[i] = t[j]
    <3>1. CASE i = 1
      BY <3>1
    <3>2. CASE i # 1
      <4>1. i - 1 \in 1 .. Len(s) - 1 /\ (i - 1) + 1 = i
        BY <3>2, <1>3
      <4>2. t[i - 1] = s[(i - 1) + 1]
        BY <4>1, <1>1 DEF t
      <4> QED BY <4>1, <4>2
    <3> QED BY <3>1, <3>2
  <2>2. 1 \in 1 .. Len(s)
    BY <1>1
  <2>3. ASSUME NEW j \in 1 .. Len(s) - 1 PROVE \E i \in 1 .. Len(s) : t[j] = s[i]
    BY <1>1, <1>2 DEF t
  <2> DEFINE I == 1 .. Len(s)
             J == 1 .. Len(s) - 1
  <2>4. /\ \A i \in I : s[i] = s[1] \/ \E j \in J : s[i] = t[j]
        /\ 1 \in I /\ \A j \in J : \E i \in I : t[j] = s[i]
    BY <2>1, <2>2, <2>3
  <2> HIDE DEF I, J
  <2>5. {s[i] : i \in I} = {s[1]} \cup {t[i] : i \in J}
    BY ONLY <2>4
  <2> QED BY <2>5 DEF I, J
<1> QED BY <1>1, <1>4 DEF Range, t

LEMMA RangeWithin ==
  ASSUME NEW S, NEW s \in Seq(S)
  PROVE  Range(s) \subseteq S /\ \A i \in 1 .. Len(s) : s[i] \in Range(s)
BY DEF Range

LEMMA WiderSeq ==
  ASSUME NEW A, NEW B, A \subseteq B, NEW s \in Seq(A)
  PROVE  s \in Seq(B)
OBVIOUS

LEMMA RangeOfBoth ==
  ASSUME NEW S, NEW s \in Seq(S), NEW t \in Seq(S)
  PROVE  s \o t \in Seq(S) /\ Range(s \o t) = Range(s) \cup Range(t)
<1>1. /\ s \o t \in Seq(S) /\ Len(s) \in Nat /\ Len(t) \in Nat
      /\ DOMAIN (s \o t) = 1 .. Len(s) + Len(t) /\ DOMAIN s = 1 .. Len(s) /\ DOMAIN t = 1 .. Len(t)
      /\ \A i \in 1 .. Len(s) + Len(t) : (s \o t)[i] = IF i <= Len(s) THEN s[i] ELSE t[i - Len(s)]
  OBVIOUS
<1> DEFINE u == s \o t
           m == Len(s)
           n == Len(t)
<1>2. /\ m \in Nat /\ n \in Nat
      /\ \A i \in 1 .. m + n : u[i] = IF i <= m THEN s[i] ELSE t[i - m]
  BY <1>1
<1> HIDE DEF u, m, n
<1>3. \A i \in 1 .. m : i \in 1 .. m + n /\ u[i] = s[i]
  BY <1>2
<1>4. ASSUME NEW i \in 1 .. n PROVE i + m \in 1 .. m + n /\ u[i + m] = t[i]
  <2>1. i + m \in 1 .. m + n /\ ~(i + m <= m) /\ (i + m) - m = i
    BY <1>2
  <2> QED BY <1>2, <2>1
<1>5. ASSUME NEW i \in 1 .. m + n
      PROVE  (\E j \in 1 .. m : u[i] = s[j]) \/ (\E j \in 1 .. n : u[i] = t[j])
  <2>1. CASE i <= m
    BY <1>2, <2>1
  <2>2. CASE ~(i <= m)
    <3>1. i - m \in 1 .. n
      BY <1>2, <2>2
    <3> QED BY <1>2, <2>2, <3>1
  <2> QED BY <2>1, <2>2
<1>6. {u[i] : i \in 1 .. m + n} = {s[i] : i \in 1 .. m} \cup {t[i] : i \in 1 .. n}
  BY <1>3, <1>4, <1>5
<1> QED BY <1>1, <1>6 DEF Range, u, m, n

LEMMA RangeOfAppend ==
  ASSUME NEW S, NEW s \in Seq(S), NEW v
  PROVE  Range(Append(s, v)) = Range(s) \cup {v}
<1> DEFINE t == Append(s, v)
           n == Len(s)
<1>1. /\ n \in Nat /\ DOMAIN s = 1 .. n /\ DOMAIN t = 1 .. n + 1
      /\ \A i \in 1 .. n : t[i] = s[i]
      /\ t[n + 1] = v
  <2>1. Len(t) = n + 1 /\ t \in Seq(S \cup {v}) /\ n \in Nat
    BY Pushed
  <2> QED BY <2>1, Pushed
<1> HIDE DEF t, n
<1>2. \A i \in 1 .. n + 1 : i \in 1 .. n \/ i = n + 1
  BY <1>1
<1>3. \A i \in 1 .. n : i \in 1 .. n + 1
  BY <1>1
<1>4. n + 1 \in 1 .. n + 1
  BY <1>1
<1>5. {t[i] : i \in 1 .. n + 1} = {s[i] : i \in 1 .. n} \cup {v}
  BY <1>1, <1>2, <1>3, <1>4
<1> QED BY <1>1, <1>5 DEF Range, t

LEMMA Single ==
  ASSUME NEW c
  PROVE  <<c>> \in Seq(Range(<<c>>)) /\ Len(<<c>>) = 1 /\ <<c>>[1] = c
<1>1. <<c>> \in Seq({c}) /\ Len(<<c>>) = 1 /\ <<c>>[1] = c
  OBVIOUS
<1> QED BY <1>1, OwnElements

LEMMA Pair ==
  ASSUME NEW c, NEW d
  PROVE  <<c, d>> \in Seq(Range(<<c, d>>))
<1>1. <<c, d>> \in Seq({c, d})
  OBVIOUS
<1> QED BY <1>1, OwnElements
--------------------------------------------------------------------------------
\* A stack after a push, a pop and a change of its top, as one over its elements.
LEMMA TopPushed ==
  ASSUME NEW s, s \in Seq(Range(s)), NEW v
  PROVE  /\ Append(s, v) \in Seq(Range(Append(s, v)))
         /\ Len(s) \in Nat /\ Len(Append(s, v)) = Len(s) + 1
         /\ \A i \in 1 .. Len(s) : Append(s, v)[i] = s[i]
         /\ Append(s, v) # << >> /\ Append(s, v)[Len(s) + 1] = v /\ Last(Append(s, v)) = v
<1> DEFINE t == Append(s, v)
<1>1. /\ t \in Seq(Range(s) \cup {v}) /\ Len(s) \in Nat /\ Len(t) = Len(s) + 1
      /\ \A i \in 1 .. Len(s) : t[i] = s[i]
      /\ t[Len(s) + 1] = v
  BY Pushed
<1> HIDE DEF t
<1>2. t \in Seq(Range(t))
  BY <1>1, OwnElements
<1>3. t # << >> /\ Last(t) = v
  BY <1>1 DEF Last
<1> QED BY <1>1, <1>2, <1>3 DEF t

LEMMA TopPopped ==
  ASSUME NEW s, s \in Seq(Range(s)), s # << >>
  PROVE  /\ Front(s) \in Seq(Range(Front(s)))
         /\ Len(s) \in Nat \ {0} /\ Len(Front(s)) = Len(s) - 1
         /\ \A i \in 1 .. Len(s) - 1 : Front(s)[i] = s[i]
BY Popped, OwnElements

LEMMA TopReplaced ==
  ASSUME NEW s, s \in Seq(Range(s)), s # << >>, NEW v
  PROVE  LET t == Append(Front(s), v)
         IN  /\ t \in Seq(Range(t))
             /\ Len(s) \in Nat \ {0} /\ Len(t) = Len(s)
             /\ \A i \in 1 .. Len(s) - 1 : t[i] = s[i]
             /\ t # << >> /\ t[Len(s)] = v /\ Last(t) = v
<1> DEFINE f == Front(s)
           t == Append(f, v)
           n == Len(s)
<1>1. f \in Seq(Range(f)) /\ n \in Nat \ {0} /\ Len(f) = n - 1 /\ \A i \in 1 .. n - 1 : f[i] = s[i]
  BY TopPopped
<1>2. f \in Seq(Range(f))
  BY <1>1
<1> HIDE DEF f, n
<1>3. /\ t \in Seq(Range(t)) /\ Len(f) \in Nat /\ Len(t) = Len(f) + 1
      /\ \A i \in 1 .. Len(f) : t[i] = f[i]
      /\ t # << >> /\ t[Len(f) + 1] = v /\ Last(t) = v
  BY <1>2, TopPushed
<1>4. Len(f) + 1 = n
  BY <1>1
<1> HIDE DEF t
<1>5. Len(t) = n /\ t[n] = v /\ \A i \in 1 .. n - 1 : t[i] = s[i]
  BY <1>1, <1>3, <1>4
<1> QED BY <1>1, <1>3, <1>5 DEF t, f, n

--------------------------------------------------------------------------------
(***************************************************************************)
(* A function that a recursion going forward through the naturals defines. *)
(***************************************************************************)
\* f repeats next as long as it is in go, and then gives val.
Forward(f, go, next, val) == f = [q \in Nat |-> IF q \in go THEN f[next[q]] ELSE val[q]]

\* A recursion that goes forward while it is in go, and go is bounded, defines a function,
LEMMA ForwardDefined ==
  ASSUME NEW N \in Nat, NEW go \in SUBSET (0 .. N), NEW next, NEW val,
         \A q \in go : next[q] \in Nat /\ next[q] > q
  PROVE  \E f : Forward(f, go, next, val)
<1> DEFINE Step(f, q) == IF q \in go THEN f[next[q]] ELSE val[q]
           From(f, k) == f = [q \in Nat |-> f[q]] /\ \A q \in Nat : q + k > N => f[q] = Step(f, q)
           Without == {k \in Nat : ~ \E f : From(f, k)}
<1>1. Without = {}
  <2> SUFFICES ASSUME Without # {} PROVE FALSE
    OBVIOUS
  <2>1. PICK k \in Without : \A m \in Without : k <= m
    BY LeastNatural
  <2>2. k \in Nat /\ ~ \E f : From(f, k)
    OBVIOUS
  <2>3. CASE k = 0
    <3> DEFINE f == [q \in Nat |-> val[q]]
    <3>1. \A q \in Nat : q > N => q \notin go
      OBVIOUS
    <3>2. From(f, 0)
      BY <3>1
    <3> HIDE DEF f, From
    <3> QED BY <2>2, <2>3, <3>2
  <2>4. CASE k # 0
    <3>1. k - 1 \in Nat /\ k - 1 \notin Without
      BY <2>1, <2>2, <2>4
    <3>2. PICK f : From(f, k - 1)
      BY <3>1
    <3> DEFINE j == N + 1 - k
               g == [q \in Nat |-> IF q = j THEN Step(f, q) ELSE f[q]]
    <3>3. \A q \in Nat : q + k > N => (q = j \/ (q > j /\ q + (k - 1) > N))
      BY <2>2
    <3>4. \A q \in Nat : q >= j /\ q \in go => next[q] \in Nat /\ next[q] # j
      BY <2>2
    <3>5. \A q \in Nat : q >= j => Step(g, q) = Step(f, q)
      BY <3>4
    <3>6. \A q \in Nat : q + k > N => g[q] = Step(g, q)
      BY <3>2, <3>3, <3>5, <2>2
    <3>7. From(g, k)
      BY <3>6
    <3> HIDE DEF g, From
    <3> QED BY <2>2, <3>7
  <2> QED BY <2>3, <2>4
<1>2. PICK f : From(f, N + 1)
  <2>1. N + 1 \in Nat /\ N + 1 \notin Without
    BY <1>1
  <2> QED BY <2>1
<1>3. f = [q \in Nat |-> f[q]] /\ \A q \in Nat : f[q] = Step(f, q)
  BY <1>2
<1>4. f = [q \in Nat |-> Step(f, q)]
  BY <1>3
<1> QED BY <1>4 DEF Forward

\* r is where it ends when it starts at p.
Ends(f, go, next, val, p, r) ==
  /\ r \notin go /\ r >= p /\ f[p] = val[r]
  /\ r = p \/ \E q \in go : r = next[q]

\* and ends outside go, no earlier than it starts.
LEMMA ForwardEnds ==
  ASSUME NEW N \in Nat, NEW go \in SUBSET (0 .. N), NEW next, NEW val,
         \A q \in go : next[q] \in Nat /\ next[q] > q,
         NEW f, Forward(f, go, next, val),
         NEW p \in Nat
  PROVE  \E r \in Nat : Ends(f, go, next, val, p, r)
<1> DEFINE EndsAt(q, r) == Ends(f, go, next, val, q, r)
           Lost == {d \in Nat : \E q \in Nat : q + d > N /\ ~ \E r \in Nat : EndsAt(q, r)}
<1>0. \A q \in Nat : f[q] = IF q \in go THEN f[next[q]] ELSE val[q]
  BY DEF Forward
<1>1. Lost = {}
  <2> SUFFICES ASSUME Lost # {} PROVE FALSE
    OBVIOUS
  <2>1. PICK d \in Lost : \A m \in Lost : d <= m
    BY LeastNatural
  <2>2. PICK q \in Nat : q + d > N /\ ~ \E r \in Nat : EndsAt(q, r)
    OBVIOUS
  <2>3. CASE q \notin go
    <3>1. f[q] = val[q] /\ q >= q
      BY <1>0, <2>3
    <3>2. EndsAt(q, q)
      BY <2>3, <3>1 DEF Ends
    <3> QED BY <2>2, <3>2
  <2>4. CASE q \in go
    <3>1. next[q] \in Nat /\ next[q] > q /\ d - 1 \in Nat /\ next[q] + (d - 1) > N
      BY <2>2, <2>4
    <3>2. d - 1 \notin Lost
      <4>1. d \in Nat
        OBVIOUS
      <4> HIDE DEF Lost
      <4> QED BY <2>1, <3>1, <4>1
    <3>3. PICK r \in Nat : EndsAt(next[q], r)
      BY <3>1, <3>2
    <3>4. r >= q /\ f[q] = f[next[q]] /\ \E x \in go : r = next[x]
      BY <1>0, <2>4, <3>1, <3>3 DEF Ends
    <3>5. EndsAt(q, r)
      BY <3>3, <3>4 DEF Ends
    <3> HIDE DEF EndsAt
    <3> QED BY <2>2, <3>5
  <2> QED BY <2>3, <2>4
<1>2. N + 1 \notin Lost
  BY <1>1
<1>3. \E r \in Nat : EndsAt(p, r)
  BY <1>2
<1> QED BY <1>3

--------------------------------------------------------------------------------
\* A sum over a way that goes forward: w[q] for every q that is in go.
Summed(f, N, go, next, w) ==
  f = [q \in 1 .. N |-> IF q \in go THEN w[q] + f[next[q]] ELSE 0]

\* Such a recursion defines a function,
LEMMA SummedDefined ==
  ASSUME NEW N \in Nat, NEW go \in SUBSET (1 .. N), NEW next, NEW w,
         \A q \in go : next[q] \in 1 .. N /\ next[q] > q
  PROVE  \E f : Summed(f, N, go, next, w)
<1> DEFINE Step(f, q) == IF q \in go THEN w[q] + f[next[q]] ELSE 0
           From(f, k) == f = [q \in 1 .. N |-> f[q]] /\ \A q \in 1 .. N : q + k > N => f[q] = Step(f, q)
           Without == {k \in Nat : ~ \E f : From(f, k)}
<1>1. Without = {}
  <2> SUFFICES ASSUME Without # {} PROVE FALSE
    OBVIOUS
  <2>1. PICK k \in Without : \A m \in Without : k <= m
    BY LeastNatural
  <2>2. k \in Nat /\ ~ \E f : From(f, k)
    OBVIOUS
  <2>3. CASE k = 0
    <3> DEFINE f == [q \in 1 .. N |-> 0]
    <3>1. From(f, 0)
      OBVIOUS
    <3> HIDE DEF f, From
    <3> QED BY <2>2, <2>3, <3>1
  <2>4. CASE k # 0
    <3>1. k - 1 \in Nat /\ k - 1 \notin Without
      BY <2>1, <2>2, <2>4
    <3>2. PICK f : From(f, k - 1)
      BY <3>1
    <3> DEFINE j == N + 1 - k
               g == [q \in 1 .. N |-> IF q = j THEN Step(f, q) ELSE f[q]]
    <3>3. \A q \in 1 .. N : q + k > N => (q = j \/ (q > j /\ q + (k - 1) > N))
      BY <2>2
    <3>4. \A q \in 1 .. N : q >= j /\ q \in go => next[q] \in 1 .. N /\ next[q] # j
      BY <2>2
    <3>5. \A q \in 1 .. N : q >= j => Step(g, q) = Step(f, q)
      BY <3>4
    <3>6. \A q \in 1 .. N : q + k > N => g[q] = Step(g, q)
      BY <3>2, <3>3, <3>5, <2>2
    <3>7. From(g, k)
      BY <3>6
    <3> HIDE DEF g, From
    <3> QED BY <2>2, <3>7
  <2> QED BY <2>3, <2>4
<1>2. PICK f : From(f, N)
  <2>1. N \notin Without
    BY <1>1
  <2> QED BY <2>1
<1>3. f = [q \in 1 .. N |-> f[q]] /\ \A q \in 1 .. N : f[q] = Step(f, q)
  <2>1. \A q \in 1 .. N : q + N > N
    OBVIOUS
  <2> HIDE DEF Step
  <2> QED BY <1>2, <2>1
<1>4. f = [q \in 1 .. N |-> Step(f, q)]
  BY <1>3
<1> QED BY <1>4 DEF Summed

\* of integers.
LEMMA SummedInt ==
  ASSUME NEW N \in Nat, NEW go \in SUBSET (1 .. N), NEW next, NEW w,
         \A q \in go : next[q] \in 1 .. N /\ next[q] > q /\ w[q] \in Int,
         NEW f, Summed(f, N, go, next, w), NEW p \in 1 .. N
  PROVE  f[p] \in Int
<1> DEFINE Bad == {d \in Nat : \E q \in 1 .. N : q + d > N /\ f[q] \notin Int}
<1>0. \A q \in 1 .. N : f[q] = IF q \in go THEN w[q] + f[next[q]] ELSE 0
  BY DEF Summed
<1>1. Bad = {}
  <2> SUFFICES ASSUME Bad # {} PROVE FALSE
    OBVIOUS
  <2>1. PICK d \in Bad : \A m \in Bad : d <= m
    BY LeastNatural
  <2>2. PICK q \in 1 .. N : q + d > N /\ f[q] \notin Int
    OBVIOUS
  <2>3. q \in go
    BY <1>0, <2>2
  <2>4. next[q] \in 1 .. N /\ next[q] > q /\ d - 1 \in Nat /\ next[q] + (d - 1) > N
    BY <2>2, <2>3
  <2>5. d - 1 \notin Bad
    <3>1. d \in Nat
      OBVIOUS
    <3> HIDE DEF Bad
    <3> QED BY <2>1, <2>4, <3>1
  <2>6. f[next[q]] \in Int
    BY <2>4, <2>5
  <2> QED BY <1>0, <2>2, <2>3, <2>6
<1>2. N \notin Bad
  BY <1>1
<1> QED BY <1>2
================================================================================
