----------------------------- MODULE TypeInfoProofs -----------------------------
(***************************************************************************)
(* The cache of type information needs no lock: for any number of          *)
(* goroutines and any types, what a goroutine can get from the map or as   *)
(* an answer is never written again, and the map holds what one goroutine  *)
(* alone would gather.  A TypeInfo is written only through the innermost   *)
(* call of one goroutine; IInv says that every TypeInfo in the making      *)
(* belongs to one call of one goroutine and is not published.              *)
(***************************************************************************)
EXTENDS TypeInfo, TLAPS, SequenceTheorems

Frames == [type : Structs, at : Nat, info : Pointers \cup {NoInfo}]

Shapes ==
  /\ stack \in [Goroutines -> Seq(Frames)]
  /\ returned \in [Goroutines -> DOMAIN infos \cup {NoInfo}]
  /\ DOMAIN infos \subseteq Pointers
  /\ DOMAIN tinfoMap \subseteq Structs
  /\ \A t \in DOMAIN tinfoMap : tinfoMap[t] \in DOMAIN infos

Infos(g, i) == stack[g][i].info

\* The TypeInfos being filled: allocated, unpublished, and one for each call.
Allocated ==
  \A g \in Goroutines : \A i \in 1 .. Len(stack[g]) : Infos(g, i) \in DOMAIN infos \cup {NoInfo}
Secret ==
  \A g \in Goroutines : \A i \in 1 .. Len(stack[g]) :
    Infos(g, i) # NoInfo =>
      /\ \A t \in DOMAIN tinfoMap : tinfoMap[t] # Infos(g, i)
      /\ \A h \in Goroutines : returned[h] # Infos(g, i)
Owned ==
  \A g, h \in Goroutines : \A i \in 1 .. Len(stack[g]), j \in 1 .. Len(stack[h]) :
    Infos(g, i) = Infos(h, j) /\ Infos(g, i) # NoInfo => g = h /\ i = j

\* A call that waits for an embedded struct has its TypeInfo.
Nested ==
  \A g \in Goroutines : \A i \in 1 .. Len(stack[g]) : i > 1 => Infos(g, i) # NoInfo

IInv == Shapes /\ Allocated /\ Secret /\ Owned /\ Nested

--------------------------------------------------------------------------------
\* The three things a goroutine does to its stack: change the top, push, pop.
LEMMA ReplaceTop ==
  ASSUME NEW s \in Seq(Frames), s # << >>, NEW f \in Frames
  PROVE  /\ <<f>> \o Tail(s) \in Seq(Frames)
         /\ Len(<<f>> \o Tail(s)) = Len(s) /\ Len(s) \in Nat \ {0}
         /\ (<<f>> \o Tail(s))[1] = f
         /\ \A i \in 2 .. Len(s) : (<<f>> \o Tail(s))[i] = s[i]
<1>1. /\ Tail(s) \in Seq(Frames) /\ Len(s) \in Nat \ {0} /\ Len(Tail(s)) = Len(s) - 1
      /\ \A i \in 1 .. Len(s) - 1 : Tail(s)[i] = s[i + 1]
  BY EmptySeq, HeadTailProperties
<1>2. <<f>> \in Seq(Frames) /\ Len(<<f>>) = 1 /\ <<f>>[1] = f
  OBVIOUS
<1> QED BY <1>1, <1>2, ConcatProperties

LEMMA PushFrame ==
  ASSUME NEW s \in Seq(Frames), NEW f \in Frames
  PROVE  /\ <<f>> \o s \in Seq(Frames)
         /\ Len(<<f>> \o s) = Len(s) + 1 /\ Len(s) \in Nat
         /\ (<<f>> \o s)[1] = f
         /\ \A i \in 2 .. Len(s) + 1 : (<<f>> \o s)[i] = s[i - 1]
<1>1. <<f>> \in Seq(Frames) /\ Len(<<f>>) = 1 /\ <<f>>[1] = f
  OBVIOUS
<1> QED BY <1>1, ConcatProperties

LEMMA PopFrame ==
  ASSUME NEW s \in Seq(Frames), s # << >>
  PROVE  /\ Tail(s) \in Seq(Frames)
         /\ Len(Tail(s)) = Len(s) - 1 /\ Len(s) \in Nat \ {0}
         /\ \A i \in 1 .. Len(s) - 1 : Tail(s)[i] = s[i + 1]
         /\ Head(s) = s[1]
BY EmptySeq, HeadTailProperties

--------------------------------------------------------------------------------
\* The innermost call goes on to its next field, whatever it wrote to a TypeInfo.
LEMMA AdvancePreserves ==
  ASSUME IInv, NEW g \in Goroutines, stack[g] # << >>,
         DOMAIN infos' = DOMAIN infos, Became(g, Advanced(g)), UNCHANGED tinfoMap,
         returned' = returned \/ returned' = [returned EXCEPT ![g] = NoInfo]
  PROVE  IInv'
<1>1. DOMAIN infos' = DOMAIN infos
  OBVIOUS
<1>2. stack[g] \in Seq(Frames) /\ Top(g) \in Frames /\ Top(g) = stack[g][1]
  BY PopFrame DEF IInv, Shapes, Top
<1>3. Advanced(g) \in Frames /\ Advanced(g).info = Top(g).info
  BY <1>2 DEF Advanced, Frames
<1>4. /\ stack' \in [Goroutines -> Seq(Frames)]
      /\ \A h \in Goroutines : Len(stack'[h]) = Len(stack[h])
      /\ \A h \in Goroutines : \A i \in 1 .. Len(stack[h]) : stack'[h][i].info = Infos(h, i)
  <2>1. stack' = [stack EXCEPT ![g] = <<Advanced(g)>> \o Tail(stack[g])]
    BY DEF Became
  <2> DEFINE new == <<Advanced(g)>> \o Tail(stack[g])
  <2>2. /\ new \in Seq(Frames) /\ Len(new) = Len(stack[g]) /\ Len(stack[g]) \in Nat \ {0}
        /\ new[1] = Advanced(g) /\ \A i \in 2 .. Len(stack[g]) : new[i] = stack[g][i]
    BY <1>2, <1>3, ReplaceTop
  <2> HIDE DEF new
  <2>3. stack' = [stack EXCEPT ![g] = new]
    BY <2>1 DEF new
  <2>4. \A i \in 1 .. Len(stack[g]) : new[i].info = stack[g][i].info
    BY <2>2, <1>2, <1>3
  <2> QED BY <2>2, <2>3, <2>4 DEF IInv, Shapes, Infos
<1>5. \A h \in Goroutines : returned'[h] = returned[h] \/ returned'[h] = NoInfo
  BY DEF IInv, Shapes
<1>6. returned' \in [Goroutines -> DOMAIN infos \cup {NoInfo}]
  BY DEF IInv, Shapes
<1>7. Shapes'
  BY <1>1, <1>4, <1>6 DEF IInv, Shapes
<1>8. Allocated'
  BY <1>1, <1>4 DEF IInv, Allocated, Infos
<1>9. Secret'
  BY <1>4, <1>5 DEF IInv, Secret, Infos
<1>10. Owned'
  BY <1>4 DEF IInv, Owned, Infos
<1>11. Nested'
  BY <1>4 DEF IInv, Nested, Infos
<1> QED BY <1>7, <1>8, <1>9, <1>10, <1>11 DEF IInv

\* Calling GetTypeInfo, which owns nothing yet.
LEMMA PushPreserves ==
  ASSUME IInv, NEW g \in Goroutines, NEW t \in Structs,
         stack[g] # << >> => Top(g).info # NoInfo,
         stack' = [stack EXCEPT ![g] = <<Frame(t)>> \o stack[g]],
         UNCHANGED <<tinfoMap, infos>>,
         returned' = returned \/ returned' = [returned EXCEPT ![g] = NoInfo]
  PROVE  IInv'
<1>1. Frame(t) \in Frames /\ Frame(t).info = NoInfo
  BY DEF Frame, Frames
<1> DEFINE new == <<Frame(t)>> \o stack[g]
<1>2. /\ new \in Seq(Frames) /\ Len(new) = Len(stack[g]) + 1 /\ Len(stack[g]) \in Nat
      /\ new[1] = Frame(t) /\ \A i \in 2 .. Len(stack[g]) + 1 : new[i] = stack[g][i - 1]
  BY <1>1, PushFrame DEF IInv, Shapes
<1>3. stack' = [stack EXCEPT ![g] = new]
  OBVIOUS
<1> HIDE DEF new
<1>4. /\ stack' \in [Goroutines -> Seq(Frames)]
      /\ stack'[g] = new /\ \A h \in Goroutines : h # g => stack'[h] = stack[h]
  BY <1>2, <1>3 DEF IInv, Shapes
<1>5. \A i \in 1 .. Len(new) :
        new[i].info = NoInfo \/ (i - 1 \in 1 .. Len(stack[g]) /\ new[i].info = Infos(g, i - 1))
  BY <1>1, <1>2 DEF Infos
<1>6. \A h \in Goroutines : returned'[h] = returned[h] \/ returned'[h] = NoInfo
  BY DEF IInv, Shapes
<1>7. Shapes'
  BY <1>4 DEF IInv, Shapes
<1>8. Allocated'
  BY <1>4, <1>5 DEF IInv, Allocated, Infos
<1>9. Secret'
  BY <1>4, <1>5, <1>6 DEF IInv, Secret, Infos
<1>10. Owned'
  <2> DEFINE Was(h, i) == IF h = g THEN i - 1 ELSE i
  <2> SUFFICES ASSUME NEW h \in Goroutines, NEW k \in Goroutines,
                      NEW i \in 1 .. Len(stack'[h]), NEW j \in 1 .. Len(stack'[k]),
                      stack'[h][i].info = stack'[k][j].info, stack'[h][i].info # NoInfo
               PROVE  h = k /\ i = j
    BY DEF Owned, Infos
  <2>1. ASSUME NEW x \in Goroutines, NEW m \in 1 .. Len(stack'[x]), stack'[x][m].info # NoInfo
        PROVE  Was(x, m) \in 1 .. Len(stack[x]) /\ stack'[x][m].info = Infos(x, Was(x, m))
    <3>1. CASE x = g
      BY <3>1, <2>1, <1>4, <1>5
    <3>2. CASE x # g
      BY <3>2, <1>4 DEF Infos
    <3> QED BY <3>1, <3>2
  <2> HIDE DEF Was
  <2>2. /\ Was(h, i) \in 1 .. Len(stack[h]) /\ Was(k, j) \in 1 .. Len(stack[k])
        /\ Infos(h, Was(h, i)) = Infos(k, Was(k, j)) /\ Infos(h, Was(h, i)) # NoInfo
    BY <2>1
  <2>3. h = k /\ Was(h, i) = Was(k, j)
    <3> HIDE DEF Infos
    <3> QED BY <2>2 DEF IInv, Owned
  <2>4. i \in Int /\ j \in Int
    OBVIOUS
  <2> QED BY <2>3, <2>4 DEF Was
<1>11. \A i \in 1 .. Len(stack[g]) : Infos(g, i) # NoInfo
  <2>1. 1 \in 1 .. Len(stack[g]) => stack[g] # << >> /\ Top(g) = stack[g][1]
    BY PopFrame DEF IInv, Shapes, Top
  <2> QED BY <1>2, <2>1 DEF IInv, Nested, Infos
<1>12. Nested'
  <2> SUFFICES ASSUME NEW h \in Goroutines, NEW i \in 1 .. Len(stack'[h]), i > 1
               PROVE  stack'[h][i].info # NoInfo
    BY DEF Nested, Infos
  <2>1. CASE h = g
    <3>1. i \in 2 .. Len(stack[g]) + 1 /\ i - 1 \in 1 .. Len(stack[g])
      BY <2>1, <1>2, <1>4
    <3> QED BY <2>1, <3>1, <1>2, <1>4, <1>11 DEF Infos
  <2>2. CASE h # g
    BY <2>2, <1>4 DEF IInv, Nested, Infos
  <2> QED BY <2>1, <2>2
<1> QED BY <1>7, <1>8, <1>9, <1>10, <1>12 DEF IInv

\* Returning from GetTypeInfo with a TypeInfo no other call is filling.
LEMMA PopPreserves ==
  ASSUME IInv, NEW g \in Goroutines, stack[g] # << >>, NEW p \in DOMAIN infos, Answer(g, p),
         UNCHANGED infos, p # NoInfo,
         \A h \in Goroutines : \A i \in 1 .. Len(stack[h]) :
           Infos(h, i) = p => h = g /\ i = 1,
         \/ tinfoMap' = tinfoMap
         \/ \E t \in Structs : tinfoMap' = Stored(t, p)
  PROVE  IInv'
<1> DEFINE new == Tail(stack[g])
<1>1. /\ new \in Seq(Frames) /\ Len(new) = Len(stack[g]) - 1 /\ Len(stack[g]) \in Nat \ {0}
      /\ \A i \in 1 .. Len(stack[g]) - 1 : new[i] = stack[g][i + 1]
  BY PopFrame DEF IInv, Shapes
<1>2. stack' = [stack EXCEPT ![g] = new] /\ returned' = [returned EXCEPT ![g] = p]
  BY DEF Answer
<1> HIDE DEF new
<1>3. /\ stack' \in [Goroutines -> Seq(Frames)]
      /\ stack'[g] = new /\ \A h \in Goroutines : h # g => stack'[h] = stack[h]
  BY <1>1, <1>2 DEF IInv, Shapes
<1>4. \A i \in 1 .. Len(new) :
        i + 1 \in 1 .. Len(stack[g]) /\ i + 1 # 1 /\ new[i].info = Infos(g, i + 1)
  BY <1>1 DEF Infos
<1>5. /\ returned' \in [Goroutines -> DOMAIN infos \cup {NoInfo}]
      /\ \A h \in Goroutines : returned'[h] = returned[h] \/ returned'[h] = p
  BY <1>2 DEF IInv, Shapes
<1>6. \A t \in DOMAIN tinfoMap' :
        tinfoMap'[t] = p \/ (t \in DOMAIN tinfoMap /\ tinfoMap'[t] = tinfoMap[t])
  BY DEF Stored
<1> DEFINE Was(h, i) == IF h = g THEN i + 1 ELSE i
<1>11. \A h \in Goroutines : \A i \in 1 .. Len(stack'[h]) :
         /\ Was(h, i) \in 1 .. Len(stack[h]) /\ stack'[h][i].info = Infos(h, Was(h, i))
         /\ h = g => Was(h, i) # 1
  <2> SUFFICES ASSUME NEW h \in Goroutines, NEW i \in 1 .. Len(stack'[h])
               PROVE  /\ Was(h, i) \in 1 .. Len(stack[h]) /\ stack'[h][i].info = Infos(h, Was(h, i))
                      /\ h = g => Was(h, i) # 1
    OBVIOUS
  <2>1. CASE h = g
    BY <2>1, <1>3, <1>4
  <2>2. CASE h # g
    BY <2>2, <1>3 DEF Infos
  <2> QED BY <2>1, <2>2
<1>13. DOMAIN tinfoMap' \subseteq Structs
  BY DEF Stored, IInv, Shapes
<1>7. Shapes'
  BY <1>3, <1>5, <1>6, <1>13 DEF IInv, Shapes
<1>8. Allocated'
  <2> SUFFICES ASSUME NEW h \in Goroutines, NEW i \in 1 .. Len(stack'[h])
               PROVE  stack'[h][i].info \in DOMAIN infos \cup {NoInfo}
    BY DEF Allocated, Infos
  <2> HIDE DEF Was
  <2> QED BY <1>11 DEF IInv, Allocated
<1>9. Secret'
  <2> SUFFICES ASSUME NEW h \in Goroutines, NEW i \in 1 .. Len(stack'[h]),
                      stack'[h][i].info # NoInfo
               PROVE  /\ \A t \in DOMAIN tinfoMap' : tinfoMap'[t] # stack'[h][i].info
                      /\ \A k \in Goroutines : returned'[k] # stack'[h][i].info
    BY DEF Secret, Infos
  <2> HIDE DEF Was
  <2>1. stack'[h][i].info # p
    BY <1>11
  <2> QED BY <2>1, <1>11, <1>5, <1>6 DEF IInv, Secret
<1>10. Owned'
  <2> SUFFICES ASSUME NEW h \in Goroutines, NEW k \in Goroutines,
                      NEW i \in 1 .. Len(stack'[h]), NEW j \in 1 .. Len(stack'[k]),
                      stack'[h][i].info = stack'[k][j].info, stack'[h][i].info # NoInfo
               PROVE  h = k /\ i = j
    BY DEF Owned, Infos
  <2> HIDE DEF Was
  <2>1. /\ Was(h, i) \in 1 .. Len(stack[h]) /\ Was(k, j) \in 1 .. Len(stack[k])
        /\ Infos(h, Was(h, i)) = Infos(k, Was(k, j)) /\ Infos(h, Was(h, i)) # NoInfo
    BY <1>11
  <2>2. h = k /\ Was(h, i) = Was(k, j)
    <3> HIDE DEF Infos
    <3> QED BY <2>1 DEF IInv, Owned
  <2>3. i \in Int /\ j \in Int
    OBVIOUS
  <2> QED BY <2>2, <2>3 DEF Was
<1>12. Nested'
  <2> SUFFICES ASSUME NEW h \in Goroutines, NEW i \in 1 .. Len(stack'[h]), i > 1
               PROVE  stack'[h][i].info # NoInfo
    BY DEF Nested, Infos
  <2>1. Was(h, i) > 1
    OBVIOUS
  <2> HIDE DEF Was
  <2> QED BY <2>1, <1>11 DEF IInv, Nested
<1> QED BY <1>7, <1>8, <1>9, <1>10, <1>12 DEF IInv

\* Allocating a TypeInfo for the innermost call.
LEMMA AllocatePreserves ==
  ASSUME IInv, NEW g \in Goroutines, LoadMiss(g)
  PROVE  IInv'
<1>1. Fresh \in Pointers /\ Fresh \notin DOMAIN infos /\ Fresh # NoInfo
  BY NoInfoAssumption DEF LoadMiss, Fresh
<1>2. DOMAIN infos' = DOMAIN infos \cup {Fresh}
  BY DEF LoadMiss, Allocate
<1>3. stack[g] \in Seq(Frames) /\ stack[g] # << >> /\ Top(g) = stack[g][1] /\ Top(g) \in Frames
  BY PopFrame DEF LoadMiss, IInv, Shapes, Top
<1> DEFINE f == [type |-> Top(g).type, at |-> 1, info |-> Fresh]
           new == <<f>> \o Tail(stack[g])
<1>4. f \in Frames /\ f.info = Fresh
  BY <1>1, <1>3 DEF Frames
<1>5. stack' = [stack EXCEPT ![g] = new]
  BY DEF LoadMiss, Allocate, Became
<1> HIDE DEF f
<1>6. /\ new \in Seq(Frames) /\ Len(new) = Len(stack[g]) /\ Len(stack[g]) \in Nat \ {0}
      /\ new[1] = f /\ \A i \in 2 .. Len(stack[g]) : new[i] = stack[g][i]
  BY <1>3, <1>4, ReplaceTop
<1> HIDE DEF new
<1>7. /\ stack' \in [Goroutines -> Seq(Frames)]
      /\ stack'[g] = new /\ \A h \in Goroutines : h # g => stack'[h] = stack[h]
  BY <1>5, <1>6 DEF IInv, Shapes
<1>8. /\ new[1].info = Fresh
      /\ \A i \in 1 .. Len(stack[g]) : i # 1 => new[i].info = Infos(g, i)
  BY <1>4, <1>6 DEF Infos
<1>9. UNCHANGED <<tinfoMap, returned>>
  BY DEF LoadMiss
<1>10. Shapes'
  BY <1>1, <1>2, <1>7, <1>9 DEF IInv, Shapes
<1>11. Allocated'
  BY <1>2, <1>6, <1>7, <1>8 DEF IInv, Allocated, Infos
<1>12. Secret'
  <2>1. /\ \A t \in DOMAIN tinfoMap : tinfoMap[t] # Fresh
        /\ \A h \in Goroutines : returned[h] # Fresh
    BY <1>1 DEF IInv, Shapes
  <2> QED BY <2>1, <1>6, <1>7, <1>8, <1>9 DEF IInv, Secret, Infos
<1>13. Owned'
  <2>1. \A h \in Goroutines : \A i \in 1 .. Len(stack[h]) : Infos(h, i) # Fresh
    BY <1>1 DEF IInv, Allocated
  <2>2. ASSUME NEW x \in Goroutines, NEW m \in 1 .. Len(stack'[x])
        PROVE  /\ m \in 1 .. Len(stack[x])
               /\ IF x = g /\ m = 1 THEN stack'[x][m].info = Fresh
                                   ELSE stack'[x][m].info = Infos(x, m)
    <3>1. CASE x = g
      BY <3>1, <1>6, <1>7, <1>8
    <3>2. CASE x # g
      BY <3>2, <1>7 DEF Infos
    <3> QED BY <3>1, <3>2
  <2> SUFFICES ASSUME NEW h \in Goroutines, NEW k \in Goroutines,
                      NEW i \in 1 .. Len(stack'[h]), NEW j \in 1 .. Len(stack'[k]),
                      stack'[h][i].info = stack'[k][j].info, stack'[h][i].info # NoInfo
               PROVE  h = k /\ i = j
    BY DEF Owned, Infos
  <2> HIDE DEF Infos
  <2>3. CASE h = g /\ i = 1
    BY <2>1, <2>2, <2>3
  <2>4. CASE k = g /\ j = 1
    BY <2>1, <2>2, <2>4
  <2>5. CASE ~(h = g /\ i = 1) /\ ~(k = g /\ j = 1)
    BY <2>2, <2>5 DEF IInv, Owned
  <2> QED BY <2>3, <2>4, <2>5
<1>14. Nested'
  BY <1>6, <1>7, <1>8 DEF IInv, Nested, Infos
<1> QED BY <1>10, <1>11, <1>12, <1>13, <1>14 DEF IInv

--------------------------------------------------------------------------------
\* IInv holds of every reachable state.
THEOREM Inductive == Spec => []IInv
<1>1. Init => IInv
  BY DEF Init, IInv, Shapes, Allocated, Secret, Owned, Nested, Infos
<1>2. ASSUME IInv, [Next]_vars PROVE IInv'
  <2>1. ASSUME NEW g \in Goroutines, Call(g) PROVE IInv'
    <3>1. PICK t \in Structs : stack' = [stack EXCEPT ![g] = <<Frame(t)>>]
      BY <2>1 DEF Call
    <3>2. <<Frame(t)>> \o stack[g] = <<Frame(t)>>
      BY <2>1 DEF Call, Frame
    <3> QED BY <1>2, <2>1, <3>1, <3>2, PushPreserves DEF Call
  <2>2. ASSUME NEW g \in Goroutines, Descend(g) PROVE IInv'
    <3>1. CurrentField(g).type \in Structs
      BY <2>2 DEF Descend, Embeds
    <3> QED BY <1>2, <2>2, <3>1, PushPreserves DEF Descend, Filling
  <2>3. ASSUME NEW g \in Goroutines, LoadHit(g) PROVE IInv'
    <3> DEFINE p == tinfoMap[Top(g).type]
    <3>1. p \in DOMAIN infos /\ p # NoInfo
      BY <1>2, <2>3, NoInfoAssumption DEF LoadHit, IInv, Shapes
    <3>2. \A h \in Goroutines : \A i \in 1 .. Len(stack[h]) : Infos(h, i) # p
      BY <1>2, <2>3, <3>1 DEF LoadHit, IInv, Secret
    <3> QED BY <1>2, <2>3, <3>1, <3>2, PopPreserves DEF LoadHit
  <2>4. ASSUME NEW g \in Goroutines, LoadMiss(g) PROVE IInv'
    BY <1>2, <2>4, AllocatePreserves
  <2>5. ASSUME NEW g \in Goroutines, AddPlain(g) \/ SkipField(g) \/ AddEmbedded(g) PROVE IInv'
    BY <1>2, <2>5, AdvancePreserves DEF AddPlain, SkipField, AddEmbedded, Filling, Fill
  <2>6. ASSUME NEW g \in Goroutines, Store(g) PROVE IInv'
    <3> DEFINE p == Top(g).info
    <3>1. /\ stack[g] # << >> /\ p # NoInfo /\ Answer(g, p) /\ UNCHANGED infos
          /\ tinfoMap' = Stored(Top(g).type, p)
      BY <2>6 DEF Store, StoreAt, Filling
    <3>2. /\ Top(g) = stack[g][1] /\ Top(g).type \in Structs
          /\ 1 \in 1 .. Len(stack[g]) /\ p = Infos(g, 1)
      <4>1. stack[g] \in Seq(Frames)
        BY <1>2 DEF IInv, Shapes
      <4>2. Head(stack[g]) = stack[g][1] /\ Len(stack[g]) \in Nat \ {0}
        BY <3>1, <4>1, PopFrame
      <4>3. 1 \in 1 .. Len(stack[g])
        BY <4>2
      <4>4. stack[g][1] \in Frames
        BY <4>1, <4>3
      <4>5. stack[g][1].type \in Structs
        BY <4>4 DEF Frames
      <4> QED BY <4>2, <4>3, <4>5 DEF Top, Infos
    <3>3. p \in DOMAIN infos
      BY <1>2, <3>1, <3>2 DEF IInv, Allocated
    <3>4. \A h \in Goroutines : \A i \in 1 .. Len(stack[h]) : Infos(h, i) = p => h = g /\ i = 1
      BY <1>2, <3>1, <3>2 DEF IInv, Owned
    <3> HIDE DEF p
    <3> QED BY <1>2, <3>1, <3>2, <3>3, <3>4, PopPreserves
  <2>7. CASE UNCHANGED vars
    BY <1>2, <2>7 DEF vars, IInv, Shapes, Allocated, Secret, Owned, Nested, Infos
  <2> QED BY <1>2, <2>1, <2>2, <2>3, <2>4, <2>5, <2>6, <2>7 DEF Next, Run
<1> QED BY <1>1, <1>2, PTL DEF Spec

\* The TypeInfo a goroutine is filling is not one another goroutine can have.
LEMMA TopIsSecret ==
  ASSUME IInv, NEW g \in Goroutines, stack[g] # << >>, Top(g).info # NoInfo
  PROVE  Top(g).info \notin Published
<1>1. 1 \in 1 .. Len(stack[g]) /\ Top(g).info = Infos(g, 1)
  BY PopFrame DEF IInv, Shapes, Top, Infos
<1>2. BeingFilled(Top(g).info)
  <2>1. stack[g] \in Seq(Frames)
    BY DEF IInv, Shapes
  <2>2. DOMAIN stack[g] = 1 .. Len(stack[g])
    BY <2>1
  <2> QED BY <1>1, <2>2 DEF BeingFilled, Infos
<1> QED BY <1>1, <1>2 DEF IInv, Secret, Published, Range

\* A TypeInfo that a goroutine may hold, from the map, as an answer of GetTypeInfo or from
\* an earlier answer, is never written again, even when another has taken its place.
THEOREM PublishedNeverWritten == Spec => PublishedFrozen
<1>1. ASSUME IInv, [Next]_vars
      PROVE  [\A p \in Published \cap DOMAIN infos : infos'[p] = infos[p]]_vars
  <2> SUFFICES ASSUME NEW p \in Published \cap DOMAIN infos PROVE infos'[p] = infos[p]
    OBVIOUS
  <2>1. CASE UNCHANGED infos
    BY <2>1
  <2>2. ASSUME NEW g \in Goroutines, AddPlain(g) PROVE infos'[p] = infos[p]
    <3>1. Top(g).info \notin Published
      BY <1>1, <2>2, TopIsSecret DEF AddPlain, Filling
    <3> QED BY <2>2, <3>1 DEF AddPlain, Fill
  <2>3. ASSUME NEW g \in Goroutines, AddEmbedded(g) PROVE infos'[p] = infos[p]
    <3>1. CASE Top(g).info = NoInfo
      BY <1>1, <2>3, <3>1, NoInfoAssumption DEF AddEmbedded, Fill, IInv, Shapes
    <3>2. CASE Top(g).info # NoInfo
      <4>1. Top(g).info \notin Published
        BY <1>1, <2>3, <3>2, TopIsSecret DEF AddEmbedded
      <4> QED BY <2>3, <4>1 DEF AddEmbedded, Fill
    <3> QED BY <3>1, <3>2
  <2>4. ASSUME NEW g \in Goroutines, LoadMiss(g) PROVE infos'[p] = infos[p]
    <3>1. Fresh \notin DOMAIN infos
      BY <2>4 DEF LoadMiss, Fresh
    <3> QED BY <2>4, <3>1 DEF LoadMiss, Allocate
  <2> QED BY <1>1, <2>1, <2>2, <2>3, <2>4
      DEF Next, Run, Call, LoadHit, SkipField, Descend, Store, StoreAt, vars
<1>2. Spec => [][\A p \in Published \cap DOMAIN infos : infos'[p] = infos[p]]_vars
  BY <1>1, Inductive, PTL DEF Spec
<1> QED BY <1>2 DEF PublishedFrozen

\* The map, the stacks and the answers hold allocated pointers of struct types only.
THEOREM TypeCorrect == Spec => []TypeOK
<1>1. IInv => TypeOK
  <2> SUFFICES ASSUME IInv PROVE TypeOK
    OBVIOUS
  <2>1. /\ DOMAIN tinfoMap \subseteq Structs /\ DOMAIN infos \subseteq Pointers
        /\ Range(tinfoMap) \subseteq DOMAIN infos
        /\ \A g \in Goroutines : returned[g] \in DOMAIN infos \cup {NoInfo}
    BY DEF IInv, Shapes, Range
  <2>2. ASSUME NEW g \in Goroutines, NEW i \in DOMAIN stack[g]
        PROVE  /\ stack[g][i].type \in Structs
               /\ stack[g][i].info \in DOMAIN infos \cup {NoInfo}
               /\ i > 1 => stack[g][i].info # NoInfo
    <3>1. stack[g] \in Seq(Frames)
      BY DEF IInv, Shapes
    <3>2. i \in 1 .. Len(stack[g]) /\ stack[g][i] \in Frames
      BY <3>1
    <3>3. stack[g][i].type \in Structs
      BY <3>2 DEF Frames
    <3> QED BY <3>2, <3>3 DEF IInv, Allocated, Nested, Infos
  <2> QED BY <2>1, <2>2 DEF TypeOK
<1> QED BY <1>1, Inductive, PTL

--------------------------------------------------------------------------------
(***************************************************************************)
(* The fields.  CacheInv says how much every call has gathered, that a     *)
(* call under another waits at a field that embeds the other's type, and   *)
(* that an answer not yet taken is the whole of that type.                 *)
(***************************************************************************)
\* A call that has its TypeInfo has gathered its fields up to the one it is at.
Partial(f, filled) ==
  /\ f.at \in 1 .. Len(Layout[f.type]) + 1
  /\ f.info # NoInfo => filled[f.info] = Gathered[f.type][f.at - 1]
\* f is at a field that embeds t.
Waits(f, t) ==
  /\ f.info # NoInfo
  /\ f.at \in 1 .. Len(Layout[f.type])
  /\ ~Hidden(Layout[f.type][f.at]) /\ Embeds(Layout[f.type][f.at])
  /\ Layout[f.type][f.at].type = t

FramesRight == \A g \in Goroutines : \A i \in 1 .. Len(stack[g]) : Partial(stack[g][i], infos)
CallersWait ==
  \A g \in Goroutines : \A i \in 1 .. Len(stack[g]) :
    i > 1 => Waits(stack[g][i], stack[g][i - 1].type)
AnswersRight ==
  \A g \in Goroutines : returned[g] # NoInfo /\ stack[g] # << >> =>
    \E t \in Structs : Waits(stack[g][1], t) /\ infos[returned[g]] = Whole(t)
CacheInv == FramesRight /\ CallersWait /\ AnswersRight /\ CacheCorrect

--------------------------------------------------------------------------------
\* What a step of g does to the rest: at most the TypeInfo of its own innermost call
\* is written.
LEMMA StepOf ==
  ASSUME IInv, CacheInv, NEW g \in Goroutines,
         NEW new \in Seq(Frames), stack' = [stack EXCEPT ![g] = new],
         \A h \in Goroutines : h # g => returned'[h] = returned[h],
         \A p \in DOMAIN infos : infos'[p] = infos[p] \/ (stack[g] # << >> /\ p = Top(g).info),
         \A i \in 1 .. Len(new) : Partial(new[i], infos'),
         \A i \in 1 .. Len(new) : i > 1 => Waits(new[i], new[i - 1].type),
         returned'[g] # NoInfo /\ new # << >> =>
           \E t \in Structs : Waits(new[1], t) /\ infos'[returned'[g]] = Whole(t),
         \A t \in DOMAIN tinfoMap' :
           \/ infos'[tinfoMap'[t]] = Whole(t)
           \/ t \in DOMAIN tinfoMap /\ tinfoMap'[t] = tinfoMap[t]
  PROVE  CacheInv'
<1>1. /\ stack'[g] = new
      /\ \A h \in Goroutines : h # g => stack'[h] = stack[h]
  BY DEF IInv, Shapes
<1>2. stack[g] # << >> => 1 \in 1 .. Len(stack[g]) /\ Top(g).info = Infos(g, 1)
  BY PopFrame DEF IInv, Shapes, Top, Infos
<1>3. NoInfo \notin DOMAIN infos
  BY NoInfoAssumption DEF IInv, Shapes
<1>4. ASSUME NEW h \in Goroutines, h # g, NEW i \in 1 .. Len(stack[h]), Infos(h, i) # NoInfo
      PROVE  infos'[Infos(h, i)] = infos[Infos(h, i)]
  <2>1. Infos(h, i) \in DOMAIN infos
    BY <1>4 DEF IInv, Allocated
  <2>2. CASE stack[g] # << >> /\ Infos(h, i) = Top(g).info
    <3>1. 1 \in 1 .. Len(stack[g]) /\ Infos(h, i) = Infos(g, 1)
      BY <1>2, <2>2
    <3> HIDE DEF Infos
    <3> QED BY <1>4, <3>1 DEF IInv, Owned
  <2> QED BY <2>1, <2>2
<1>5. ASSUME NEW p \in DOMAIN infos,
             (\E t \in DOMAIN tinfoMap : tinfoMap[t] = p) \/ (\E h \in Goroutines : returned[h] = p)
      PROVE  infos'[p] = infos[p]
  <2>1. ~(stack[g] # << >> /\ p = Top(g).info)
    <3> SUFFICES ASSUME stack[g] # << >>, p = Top(g).info PROVE FALSE
      OBVIOUS
    <3>1. 1 \in 1 .. Len(stack[g]) /\ p = Infos(g, 1) /\ p # NoInfo
      BY <1>2, <1>3
    <3> HIDE DEF Infos
    <3> QED BY <1>5, <3>1 DEF IInv, Secret
  <2> QED BY <2>1
<1>6. FramesRight'
  <2> SUFFICES ASSUME NEW h \in Goroutines, NEW i \in 1 .. Len(stack'[h])
               PROVE  Partial(stack'[h][i], infos')
    BY DEF FramesRight, Partial
  <2>1. CASE h = g
    BY <1>1, <2>1
  <2>2. CASE h # g
    <3>1. stack'[h] = stack[h] /\ Partial(stack[h][i], infos)
      BY <1>1, <2>2 DEF CacheInv, FramesRight
    <3>2. stack[h][i].info # NoInfo => infos'[stack[h][i].info] = infos[stack[h][i].info]
      BY <1>4, <2>2, <3>1 DEF Infos
    <3> QED BY <3>1, <3>2 DEF Partial
  <2> QED BY <2>1, <2>2
<1>7. CallersWait'
  <2> SUFFICES ASSUME NEW h \in Goroutines, NEW i \in 1 .. Len(stack'[h]), i > 1
               PROVE  Waits(stack'[h][i], stack'[h][i - 1].type)
    BY DEF CallersWait, Waits
  <2>1. CASE h = g
    BY <1>1, <2>1
  <2>2. CASE h # g
    BY <1>1, <2>2 DEF CacheInv, CallersWait
  <2> QED BY <2>1, <2>2
<1>8. AnswersRight'
  <2> SUFFICES ASSUME NEW h \in Goroutines, returned'[h] # NoInfo, stack'[h] # << >>
               PROVE  \E t \in Structs : Waits(stack'[h][1], t) /\ infos'[returned'[h]] = Whole(t)
    BY DEF AnswersRight, Waits, Whole
  <2>1. CASE h = g
    BY <1>1, <2>1
  <2>2. CASE h # g
    <3>1. stack'[h] = stack[h] /\ returned'[h] = returned[h]
      BY <1>1, <2>2
    <3>2. returned[h] \in DOMAIN infos
      BY <3>1 DEF IInv, Shapes
    <3>3. infos'[returned[h]] = infos[returned[h]]
      BY <1>5, <3>2
    <3> QED BY <3>1, <3>3 DEF CacheInv, AnswersRight
  <2> QED BY <2>1, <2>2
<1>9. CacheCorrect'
  <2> SUFFICES ASSUME NEW t \in DOMAIN tinfoMap' PROVE infos'[tinfoMap'[t]] = Whole(t)
    BY DEF CacheCorrect, Whole
  <2>1. CASE t \in DOMAIN tinfoMap /\ tinfoMap'[t] = tinfoMap[t]
    <3>1. tinfoMap[t] \in DOMAIN infos
      BY <2>1 DEF IInv, Shapes
    <3>2. infos'[tinfoMap[t]] = infos[tinfoMap[t]]
      BY <1>5, <2>1, <3>1
    <3> QED BY <2>1, <3>2 DEF CacheInv, CacheCorrect
  <2> QED BY <2>1
<1> QED BY <1>6, <1>7, <1>8, <1>9 DEF CacheInv

\* The step of Next, one action after another: a call and the return to a caller move
\* what is gathered from one frame to the next, the others gather one field more.
LEMMA CacheNext ==
  ASSUME IInv, CacheInv, [Next]_vars
  PROVE  CacheInv'
<1>0. NoInfo \notin DOMAIN infos
  BY NoInfoAssumption DEF IInv, Shapes
<1>1. ASSUME NEW g \in Goroutines
      PROVE  /\ stack[g] \in Seq(Frames) /\ Len(stack[g]) \in Nat
             /\ returned[g] \in DOMAIN infos \cup {NoInfo}
             /\ stack[g] # << >> =>
                  /\ 1 \in 1 .. Len(stack[g]) /\ Top(g) = stack[g][1] /\ Top(g) \in Frames
                  /\ Partial(Top(g), infos) /\ Top(g).type \in Structs /\ Top(g).at \in Nat
  <2>1. stack[g] \in Seq(Frames) /\ Len(stack[g]) \in Nat /\ returned[g] \in DOMAIN infos \cup {NoInfo}
    BY DEF IInv, Shapes
  <2>2. ASSUME stack[g] # << >>
        PROVE  1 \in 1 .. Len(stack[g]) /\ Top(g) = stack[g][1] /\ Top(g) \in Frames
    BY <2>1, <2>2, PopFrame DEF Top
  <2>3. ASSUME stack[g] # << >> PROVE Partial(Top(g), infos) /\ Top(g).type \in Structs /\ Top(g).at \in Nat
    BY <2>2, <2>3 DEF CacheInv, FramesRight, Frames
  <2> QED BY <2>1, <2>2, <2>3
<1>2. ASSUME NEW g \in Goroutines, NEW t \in Structs,
             stack' = [stack EXCEPT ![g] = <<Frame(t)>> \o stack[g]],
             stack[g] # << >> => Waits(Top(g), t),
             UNCHANGED <<tinfoMap, infos>>,
             \A h \in Goroutines : h # g => returned'[h] = returned[h],
             returned'[g] = NoInfo
      PROVE  CacheInv'
  <2> DEFINE f == Frame(t)
             new == <<f>> \o stack[g]
  <2>1. f \in Frames /\ f.info = NoInfo /\ f.at = 1 /\ f.type = t
    BY DEF Frame, Frames
  <2> HIDE DEF f
  <2>2. /\ new \in Seq(Frames) /\ Len(new) = Len(stack[g]) + 1 /\ Len(stack[g]) \in Nat
        /\ new[1] = f /\ \A i \in 2 .. Len(stack[g]) + 1 : new[i] = stack[g][i - 1]
    BY <1>1, <2>1, PushFrame
  <2>3. stack' = [stack EXCEPT ![g] = new]
    BY <1>2 DEF f
  <2> HIDE DEF new
  <2>4. Partial(f, infos)
    <3>1. Len(Layout[t]) \in Nat
      BY LayoutAssumption
    <3> QED BY <2>1, <3>1 DEF Partial
  <2>5. \A i \in 1 .. Len(new) : Partial(new[i], infos')
    <3> SUFFICES ASSUME NEW i \in 1 .. Len(new) PROVE Partial(new[i], infos)
      BY <1>2
    <3>1. CASE i = 1
      BY <2>2, <2>4, <3>1
    <3>2. CASE i # 1
      <4>1. new[i] = stack[g][i - 1] /\ i - 1 \in 1 .. Len(stack[g])
        BY <2>2, <3>2
      <4> QED BY <4>1 DEF CacheInv, FramesRight
    <3> QED BY <3>1, <3>2
  <2>6. \A i \in 1 .. Len(new) : i > 1 => Waits(new[i], new[i - 1].type)
    <3> SUFFICES ASSUME NEW i \in 1 .. Len(new), i > 1 PROVE Waits(new[i], new[i - 1].type)
      OBVIOUS
    <3>1. new[i] = stack[g][i - 1] /\ i - 1 \in 1 .. Len(stack[g]) /\ i - 1 \in Nat
      BY <2>2
    <3>2. CASE i = 2
      <4>1. new[i] = Top(g) /\ new[i - 1].type = t /\ stack[g] # << >>
        BY <3>1, <3>2, <2>1, <2>2, <1>1
      <4> QED BY <4>1, <1>2
    <3>3. CASE i # 2
      <4>1. new[i - 1] = stack[g][(i - 1) - 1] /\ i - 1 > 1
        BY <2>2, <3>3
      <4> QED BY <3>1, <4>1 DEF CacheInv, CallersWait
    <3> QED BY <3>2, <3>3
  <2>7. \A p \in DOMAIN infos : infos'[p] = infos[p]
    BY <1>2
  <2> QED BY <1>2, <2>2, <2>3, <2>5, <2>6, <2>7, StepOf
<1>3. ASSUME NEW g \in Goroutines, stack[g] # << >>, NEW p \in DOMAIN infos, Answer(g, p),
             UNCHANGED infos, infos[p] = Whole(Top(g).type),
             \/ tinfoMap' = tinfoMap
             \/ tinfoMap' = Stored(Top(g).type, p)
      PROVE  CacheInv'
  <2> DEFINE new == Tail(stack[g])
  <2>1. /\ new \in Seq(Frames) /\ Len(new) = Len(stack[g]) - 1 /\ Len(stack[g]) \in Nat \ {0}
        /\ \A i \in 1 .. Len(stack[g]) - 1 : new[i] = stack[g][i + 1]
    BY <1>1, <1>3, PopFrame
  <2>2. stack' = [stack EXCEPT ![g] = new] /\ returned' = [returned EXCEPT ![g] = p]
    BY <1>3 DEF Answer
  <2> HIDE DEF new
  <2>3. new # << >> => Len(new) # 0
    BY <2>1, EmptySeq
  <2>4. /\ returned'[g] = p
        /\ \A h \in Goroutines : h # g => returned'[h] = returned[h]
    BY <2>2 DEF IInv, Shapes
  <2>5. \A i \in 1 .. Len(new) : Partial(new[i], infos')
    <3> SUFFICES ASSUME NEW i \in 1 .. Len(new) PROVE Partial(new[i], infos)
      BY <1>3
    <3>1. new[i] = stack[g][i + 1] /\ i + 1 \in 1 .. Len(stack[g])
      BY <2>1
    <3> QED BY <3>1 DEF CacheInv, FramesRight
  <2>6. \A i \in 1 .. Len(new) : i > 1 => Waits(new[i], new[i - 1].type)
    <3> SUFFICES ASSUME NEW i \in 1 .. Len(new), i > 1 PROVE Waits(new[i], new[i - 1].type)
      OBVIOUS
    <3>1. /\ new[i] = stack[g][i + 1] /\ i + 1 \in 1 .. Len(stack[g]) /\ i + 1 > 1
          /\ new[i - 1] = stack[g][(i + 1) - 1]
      BY <2>1
    <3> QED BY <3>1 DEF CacheInv, CallersWait
  <2>7. new # << >> => \E t \in Structs : Waits(new[1], t) /\ infos'[returned'[g]] = Whole(t)
    <3> SUFFICES ASSUME new # << >> PROVE \E t \in Structs : Waits(new[1], t) /\ infos[p] = Whole(t)
      BY <1>3, <2>4
    <3>1. new[1] = stack[g][2] /\ 2 \in 1 .. Len(stack[g]) /\ 2 > 1 /\ 2 - 1 = 1
      BY <2>1, <2>3
    <3>2. Waits(stack[g][2], stack[g][1].type)
      BY <3>1 DEF CacheInv, CallersWait
    <3> QED BY <1>1, <1>3, <3>1, <3>2
  <2>8. \A t \in DOMAIN tinfoMap' :
          \/ infos'[tinfoMap'[t]] = Whole(t)
          \/ t \in DOMAIN tinfoMap /\ tinfoMap'[t] = tinfoMap[t]
    BY <1>3 DEF Stored
  <2>9. \A q \in DOMAIN infos : infos'[q] = infos[q]
    BY <1>3
  <2> QED BY <2>1, <2>2, <2>4, <2>5, <2>6, <2>7, <2>8, <2>9, StepOf
<1>4. ASSUME NEW g \in Goroutines, stack[g] # << >>, NEW f \in Frames, Became(g, f),
             f.type = Top(g).type, Partial(f, infos'),
             UNCHANGED tinfoMap, Top(g).info = NoInfo \/ f.info = Top(g).info,
             \A p \in DOMAIN infos : infos'[p] = infos[p] \/ p = Top(g).info,
             \A h \in Goroutines : h # g => returned'[h] = returned[h],
             returned'[g] = NoInfo
      PROVE  CacheInv'
  <2> DEFINE new == <<f>> \o Tail(stack[g])
  <2>1. /\ new \in Seq(Frames) /\ Len(new) = Len(stack[g]) /\ Len(stack[g]) \in Nat \ {0}
        /\ new[1] = f /\ \A i \in 2 .. Len(stack[g]) : new[i] = stack[g][i]
    BY <1>1, <1>4, ReplaceTop
  <2>2. stack' = [stack EXCEPT ![g] = new]
    BY <1>4 DEF Became
  <2> HIDE DEF new
  <2>3. \A i \in 1 .. Len(new) : Partial(new[i], infos')
    <3> SUFFICES ASSUME NEW i \in 1 .. Len(new) PROVE Partial(new[i], infos')
      OBVIOUS
    <3>1. CASE i = 1
      BY <1>4, <2>1, <3>1
    <3>2. CASE i # 1
      <4>1. /\ new[i] = stack[g][i] /\ i \in 1 .. Len(stack[g]) /\ i > 1
            /\ Partial(stack[g][i], infos) /\ stack[g][i].info = Infos(g, i)
        BY <2>1, <3>2 DEF CacheInv, FramesRight, Infos
      <4>2. Infos(g, i) # NoInfo /\ Infos(g, i) \in DOMAIN infos
        BY <4>1 DEF IInv, Allocated, Nested
      <4>3. Infos(g, i) # Top(g).info
        <5>1. 1 \in 1 .. Len(stack[g]) /\ Top(g).info = Infos(g, 1)
          BY <1>1, <1>4 DEF Infos
        <5> HIDE DEF Infos
        <5> QED BY <4>1, <4>2, <5>1 DEF IInv, Owned
      <4>4. infos'[Infos(g, i)] = infos[Infos(g, i)]
        BY <1>4, <4>2, <4>3
      <4> QED BY <4>1, <4>4 DEF Partial
    <3> QED BY <3>1, <3>2
  <2>4. \A i \in 1 .. Len(new) : i > 1 => Waits(new[i], new[i - 1].type)
    <3> SUFFICES ASSUME NEW i \in 1 .. Len(new), i > 1 PROVE Waits(new[i], new[i - 1].type)
      OBVIOUS
    <3>1. new[i] = stack[g][i] /\ i \in 1 .. Len(stack[g])
      BY <2>1
    <3>2. new[i - 1].type = stack[g][i - 1].type
      <4>1. CASE i = 2
        BY <1>1, <1>4, <2>1, <4>1
      <4>2. CASE i # 2
        <5>1. i - 1 \in 2 .. Len(stack[g])
          BY <2>1, <4>2
        <5> QED BY <2>1, <5>1
      <4> QED BY <4>1, <4>2
    <3> QED BY <3>1, <3>2 DEF CacheInv, CallersWait
  <2>5. \A p \in DOMAIN infos : infos'[p] = infos[p] \/ (stack[g] # << >> /\ p = Top(g).info)
    BY <1>4
  <2> QED BY <1>4, <2>1, <2>2, <2>3, <2>4, <2>5, StepOf
<1>5. ASSUME NEW g \in Goroutines, Call(g) PROVE CacheInv'
  <2>1. PICK t \in Structs : stack' = [stack EXCEPT ![g] = <<Frame(t)>>]
    BY <1>5 DEF Call
  <2>2. <<Frame(t)>> \o stack[g] = <<Frame(t)>>
    BY <1>5 DEF Call, Frame
  <2>3. stack[g] = << >> /\ UNCHANGED <<tinfoMap, infos>> /\ returned'[g] = NoInfo
        /\ \A h \in Goroutines : h # g => returned'[h] = returned[h]
    BY <1>5 DEF Call, IInv, Shapes
  <2> QED BY <1>2, <2>1, <2>2, <2>3
<1>6. ASSUME NEW g \in Goroutines, Descend(g) PROVE CacheInv'
  <2> DEFINE t == CurrentField(g).type
  <2>1. t \in Structs /\ stack' = [stack EXCEPT ![g] = <<Frame(t)>> \o stack[g]]
    BY <1>6 DEF Descend, Embeds
  <2>2. Waits(Top(g), t)
    BY <1>1, <1>6 DEF Descend, Filling, Waits, CurrentField, Partial
  <2>3. UNCHANGED <<tinfoMap, infos>> /\ returned' = returned /\ returned[g] = NoInfo
    BY <1>6 DEF Descend, Filling
  <2> HIDE DEF t
  <2> QED BY <1>2, <2>1, <2>2, <2>3
<1>7. ASSUME NEW g \in Goroutines, LoadHit(g) PROVE CacheInv'
  <2> DEFINE p == tinfoMap[Top(g).type]
  <2>1. stack[g] # << >> /\ Answer(g, p) /\ UNCHANGED <<tinfoMap, infos>> /\ Top(g).type \in DOMAIN tinfoMap
    BY <1>7 DEF LoadHit
  <2>2. p \in DOMAIN infos /\ infos[p] = Whole(Top(g).type)
    BY <2>1 DEF IInv, Shapes, CacheInv, CacheCorrect
  <2> HIDE DEF p
  <2> QED BY <1>3, <2>1, <2>2
<1>8. ASSUME NEW g \in Goroutines, Store(g) PROVE CacheInv'
  <2> DEFINE p == Top(g).info
  <2>1. /\ stack[g] # << >> /\ p # NoInfo /\ Answer(g, p) /\ UNCHANGED infos
        /\ tinfoMap' = Stored(Top(g).type, p) /\ Top(g).at > Len(Layout[Top(g).type])
    BY <1>8 DEF Store, StoreAt, Filling
  <2>2. Top(g).at = Len(Layout[Top(g).type]) + 1 /\ Len(Layout[Top(g).type]) \in Nat
    <3>1. Top(g).type \in Structs /\ Top(g).at \in 1 .. Len(Layout[Top(g).type]) + 1
      BY <1>1, <2>1 DEF Partial
    <3>2. Layout[Top(g).type] \in Seq(Range(Layout[Top(g).type]))
      BY <3>1, LayoutAssumption
    <3>3. Len(Layout[Top(g).type]) \in Nat
      BY <3>2
    <3> QED BY <2>1, <3>1, <3>3
  <2>3. infos[p] = Whole(Top(g).type)
    BY <1>1, <2>1, <2>2 DEF Partial, Whole
  <2>4. p \in DOMAIN infos
    <3>1. 1 \in 1 .. Len(stack[g]) /\ p = Infos(g, 1)
      BY <1>1, <2>1 DEF Infos
    <3> QED BY <2>1, <3>1 DEF IInv, Allocated
  <2> HIDE DEF p
  <2> QED BY <1>3, <2>1, <2>3, <2>4
<1>9. ASSUME NEW g \in Goroutines, LoadMiss(g) PROVE CacheInv'
  <2> DEFINE f == [type |-> Top(g).type, at |-> 1, info |-> Fresh]
  <2>1. Fresh \in Pointers /\ Fresh \notin DOMAIN infos
    BY <1>9 DEF LoadMiss, Fresh
  <2>2. /\ stack[g] # << >> /\ Top(g).info = NoInfo /\ Became(g, f) /\ UNCHANGED tinfoMap
        /\ returned' = returned /\ returned[g] = NoInfo
        /\ infos' = [p \in DOMAIN infos \cup {Fresh} |-> IF p = Fresh THEN << >> ELSE infos[p]]
    BY <1>9 DEF LoadMiss, Allocate
  <2>3. f \in Frames /\ f.type = Top(g).type /\ f.at = 1 /\ f.info = Fresh
    BY <1>1, <2>1, <2>2 DEF Frames
  <2> HIDE DEF f
  <2>4. infos'[Fresh] = << >> /\ \A p \in DOMAIN infos : infos'[p] = infos[p]
    BY <2>1, <2>2
  <2>5. Partial(f, infos')
    <3>1. Gathered[Top(g).type][0] = << >> /\ Len(Layout[Top(g).type]) \in Nat
      BY <1>1, <2>2, GatheredAssumption, LayoutAssumption
    <3> QED BY <2>3, <2>4, <3>1 DEF Partial
  <2> QED BY <1>4, <2>2, <2>3, <2>4, <2>5
\* The fields gathered up to a field, and the field.
<1>10. ASSUME NEW g \in Goroutines, stack[g] # << >>, Top(g).info # NoInfo,
              Top(g).at <= Len(Layout[Top(g).type]), Became(g, Advanced(g)), UNCHANGED tinfoMap,
              infos' = infos \/ \E v : Fill(Top(g).info, v),
              infos'[Top(g).info] = Gathered[Top(g).type][Top(g).at],
              \A h \in Goroutines : h # g => returned'[h] = returned[h],
              returned'[g] = NoInfo
       PROVE  CacheInv'
  <2>1. /\ Advanced(g) \in Frames /\ Advanced(g).type = Top(g).type /\ Advanced(g).info = Top(g).info
        /\ Advanced(g).at = Top(g).at + 1 /\ Top(g).at \in Nat
    BY <1>1, <1>10 DEF Advanced, Frames
  <2>2. \A p \in DOMAIN infos : infos'[p] = infos[p] \/ p = Top(g).info
    BY <1>10 DEF Fill
  <2>3. Partial(Advanced(g), infos')
    <3>1. Len(Layout[Top(g).type]) \in Nat
      BY <1>1, <1>10, LayoutAssumption
    <3>2. Advanced(g).at - 1 = Top(g).at /\ Advanced(g).at \in 1 .. Len(Layout[Top(g).type]) + 1
      BY <1>10, <2>1, <3>1
    <3> QED BY <1>10, <2>1, <3>2 DEF Partial
  <2> QED BY <1>4, <1>10, <2>1, <2>2, <2>3
<1>11. ASSUME NEW g \in Goroutines, stack[g] # << >>, Top(g).info # NoInfo,
              Top(g).at <= Len(Layout[Top(g).type])
       PROVE  /\ infos[Top(g).info] = Gathered[Top(g).type][Top(g).at - 1]
              /\ Gathered[Top(g).type][Top(g).at] =
                   IF Hidden(CurrentField(g)) THEN infos[Top(g).info]
                   ELSE IF Embeds(CurrentField(g))
                   THEN AddAll(infos[Top(g).info], Through(Top(g).at, Whole(CurrentField(g).type)))
                   ELSE Add(infos[Top(g).info], FieldInfo(<<Top(g).at>>, CurrentField(g)))
              /\ Top(g).info \in DOMAIN infos
  <2>1. infos[Top(g).info] = Gathered[Top(g).type][Top(g).at - 1] /\ Top(g).type \in Structs
        /\ Top(g).at \in 1 .. Len(Layout[Top(g).type])
    BY <1>1, <1>11 DEF Partial
  <2>2. Top(g).info \in DOMAIN infos
    BY <1>1, <1>11 DEF IInv, Allocated, Infos
  <2> DEFINE t == Top(g).type
             n == Top(g).at
  <2>3. t \in Structs /\ n \in 1 .. Len(Layout[t])
    BY <2>1
  <2> HIDE DEF t, n
  <2>4. Gathered[t][n] = IF Hidden(Layout[t][n]) THEN Gathered[t][n - 1]
               ELSE IF Embeds(Layout[t][n])
               THEN AddAll(Gathered[t][n - 1], Through(n, Whole(Layout[t][n].type)))
               ELSE Add(Gathered[t][n - 1], FieldInfo(<<n>>, Layout[t][n]))
    BY <2>3, GatheredAssumption
  <2> QED BY <2>1, <2>2, <2>4 DEF CurrentField, t, n
<1>12. ASSUME NEW g \in Goroutines, AddPlain(g) PROVE CacheInv'
  <2>1. /\ stack[g] # << >> /\ Top(g).info # NoInfo /\ Top(g).at <= Len(Layout[Top(g).type])
        /\ Became(g, Advanced(g)) /\ UNCHANGED tinfoMap /\ returned' = returned /\ returned[g] = NoInfo
        /\ ~Hidden(CurrentField(g)) /\ ~Embeds(CurrentField(g))
        /\ Fill(Top(g).info, Add(infos[Top(g).info], FieldInfo(<<Top(g).at>>, CurrentField(g))))
    BY <1>12 DEF AddPlain, Filling
  <2>2. infos'[Top(g).info] = Add(infos[Top(g).info], FieldInfo(<<Top(g).at>>, CurrentField(g)))
    BY <1>11, <2>1 DEF Fill
  <2>3. infos'[Top(g).info] = Gathered[Top(g).type][Top(g).at]
    BY <1>11, <2>1, <2>2
  <2>4. \E v : Fill(Top(g).info, v)
    BY <2>1
  <2> QED BY <1>10, <2>1, <2>3, <2>4
<1>13. ASSUME NEW g \in Goroutines, SkipField(g) PROVE CacheInv'
  <2>1. /\ stack[g] # << >> /\ Top(g).info # NoInfo /\ Top(g).at <= Len(Layout[Top(g).type])
        /\ Became(g, Advanced(g)) /\ UNCHANGED <<tinfoMap, infos>> /\ returned' = returned
        /\ returned[g] = NoInfo /\ Hidden(CurrentField(g))
    BY <1>13 DEF SkipField, Filling
  <2>2. infos'[Top(g).info] = Gathered[Top(g).type][Top(g).at]
    BY <1>11, <2>1
  <2> QED BY <1>10, <2>1, <2>2
<1>14. ASSUME NEW g \in Goroutines, AddEmbedded(g) PROVE CacheInv'
  <2>1. /\ stack[g] # << >> /\ returned[g] # NoInfo /\ Became(g, Advanced(g)) /\ UNCHANGED tinfoMap
        /\ returned' = [returned EXCEPT ![g] = NoInfo]
        /\ Fill(Top(g).info, AddAll(infos[Top(g).info], Through(Top(g).at, infos[returned[g]])))
    BY <1>14 DEF AddEmbedded
  <2>2. PICK t \in Structs : Waits(Top(g), t) /\ infos[returned[g]] = Whole(t)
    BY <1>1, <2>1 DEF CacheInv, AnswersRight
  <2>3. /\ Top(g).info # NoInfo /\ Top(g).at <= Len(Layout[Top(g).type])
        /\ ~Hidden(CurrentField(g)) /\ Embeds(CurrentField(g)) /\ CurrentField(g).type = t
    BY <1>1, <2>1, <2>2, LayoutAssumption DEF Waits, CurrentField
  <2>4. infos'[Top(g).info] = AddAll(infos[Top(g).info], Through(Top(g).at, Whole(t)))
    BY <1>11, <2>1, <2>2, <2>3 DEF Fill
  <2>5. infos'[Top(g).info] = Gathered[Top(g).type][Top(g).at]
    BY <1>11, <2>1, <2>3, <2>4
  <2>6. /\ returned'[g] = NoInfo
        /\ \A h \in Goroutines : h # g => returned'[h] = returned[h]
    BY <2>1 DEF IInv, Shapes
  <2>7. \E v : Fill(Top(g).info, v)
    BY <2>1
  <2> QED BY <1>10, <2>1, <2>3, <2>5, <2>6, <2>7
<1>15. CASE UNCHANGED vars
  BY <1>15 DEF vars, CacheInv, FramesRight, CallersWait, AnswersRight, CacheCorrect, Partial, Waits
<1> QED BY <1>5, <1>6, <1>7, <1>8, <1>9, <1>12, <1>13, <1>14, <1>15 DEF Next, Run

\* For any goroutines, types and interleaving, the map holds for a type what one
\* goroutine alone would gather, whichever of them stored it and whatever it took from
\* the map for the structs the type embeds.
THEOREM CacheDetermined == Spec => []CacheCorrect
<1>1. Init => CacheInv
  BY DEF Init, CacheInv, FramesRight, CallersWait, AnswersRight, CacheCorrect
<1>2. IInv /\ CacheInv /\ [Next]_vars => CacheInv'
  BY CacheNext
<1>3. CacheInv => CacheCorrect
  BY DEF CacheInv
<1> QED BY <1>1, <1>2, <1>3, Inductive, PTL DEF Spec
================================================================================
