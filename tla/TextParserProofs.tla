---------------------------- MODULE TextParserProofs ----------------------------
(***************************************************************************)
(* TextParser opens no more than maxNestingDepth collections, whatever the *)
(* document and however its second attempt starts: depth counts the frames *)
(* of the stack, but for the strings file at its bottom, and pc knows what *)
(* kind of frame is on top.  And its position never leaves the document:   *)
(* what skips blanks and comments, and every scanner, stops within it.     *)
(* And the format it reports is GNUStep if the result has a typed value,   *)
(* and only if the document has the mark of one.  And a document that      *)
(* begins with a bracket is parsed to a value only if it closes what it    *)
(* opens: the frames of the stack, and what the text in front of the       *)
(* parser leaves open, are together what the whole document leaves open.   *)
(***************************************************************************)
EXTENDS TextParser, SequenceLemmas, FiniteSetTheorems

IsFile == stack # << >> /\ stack[1].kind = "strings"
FramesRight ==
  /\ stack \in Seq(Range(stack))
  /\ \A i \in 1 .. Len(stack) : stack[i].kind \in {"array", "dict", "strings"}
  /\ \A i \in 2 .. Len(stack) : stack[i].kind # "strings"
DepthRight == depth = IF IsFile THEN Len(stack) - 1 ELSE Len(stack)
TopRight ==
  /\ pc \in {"array", "dict", "strings", "assign"} => stack # << >>
  /\ pc \in {"array", "dict", "strings"} => stack[Len(stack)].kind = pc
  /\ pc = "assign" => stack[Len(stack)].kind # "array"

IInv == FramesRight /\ DepthRight /\ depth <= MaxNesting /\ TopRight

--------------------------------------------------------------------------------
\* What each of them does to IInv.
LEMMA StayStep ==
  ASSUME IInv, stack' = stack, depth' = depth, TopRight'
  PROVE  IInv'
BY DEF IInv, FramesRight, DepthRight, IsFile

LEMMA PushStep ==
  ASSUME IInv, NEW kind \in {"array", "dict"}, depth < MaxNesting, Open(kind)
  PROVE  IInv'
<1> DEFINE n == Len(stack)
           v == Frame(kind)
           new == Append(stack, v)
<1>1. stack' = new /\ depth' = depth + 1 /\ pc' = kind
  BY DEF Open, Goto
<1>2. v.kind = kind /\ kind # "strings"
  BY DEF Frame
<1>3. stack \in Seq(Range(stack))
  BY DEF IInv, FramesRight
<1> HIDE DEF v
<1>4. /\ n \in Nat /\ Len(new) = n + 1 /\ new \in Seq(Range(stack) \cup {v})
      /\ \A i \in 1 .. n : new[i] = stack[i]
      /\ new[n + 1] = v
  BY <1>3, Pushed
<1>5. new \in Seq(Range(new))
  BY <1>4, OwnElements
<1> HIDE DEF new
<1>6. IsFile' <=> IsFile
  BY <1>1, <1>2, <1>3, <1>4, <1>5 DEF IsFile
<1>7. FramesRight'
  <2>1. \A i \in 1 .. n + 1 : new[i].kind \in {"array", "dict", "strings"}
    BY <1>2, <1>4 DEF IInv, FramesRight
  <2>2. \A i \in 2 .. n + 1 : new[i].kind # "strings"
    BY <1>2, <1>4 DEF IInv, FramesRight
  <2> QED BY <1>1, <1>4, <1>5, <2>1, <2>2 DEF FramesRight
<1>8. DepthRight' /\ (depth <= MaxNesting)'
  BY <1>1, <1>4, <1>6, NestingAssumption DEF IInv, DepthRight
<1>9. TopRight'
  BY <1>1, <1>2, <1>4, <1>5 DEF TopRight
<1> QED BY <1>7, <1>8, <1>9 DEF IInv

LEMMA PopStep ==
  ASSUME IInv, stack # << >>, stack[Len(stack)].kind # "strings", NEW v, Close(v)
  PROVE  IInv'
<1> DEFINE n == Len(stack)
           new == Front(stack)
<1>1. stack' = new /\ depth' = depth - 1 /\ pc' = "return"
  BY DEF Close, Return, Goto
<1>2. stack \in Seq(Range(stack))
  BY DEF IInv, FramesRight
<1>3. /\ n \in Nat \ {0} /\ Len(new) = n - 1 /\ new \in Seq(Range(stack))
      /\ \A i \in 1 .. n - 1 : new[i] = stack[i]
  BY <1>2, Popped
<1>4. new \in Seq(Range(new))
  BY <1>3, OwnElements
<1> HIDE DEF new
<1>5. FramesRight'
  BY <1>1, <1>3, <1>4 DEF IInv, FramesRight
<1>6. IsFile' <=> IsFile
  <2>1. CASE n = 1
    <3>1. new = << >>
      BY <1>3, <2>1
    <3> QED BY <1>1, <2>1, <3>1 DEF IsFile
  <2>2. CASE n # 1
    <3>1. 1 \in 1 .. n - 1 /\ new # << >>
      BY <1>3, <2>2
    <3> QED BY <1>1, <1>3, <3>1 DEF IsFile
  <2> QED BY <2>1, <2>2
<1>7. DepthRight' /\ (depth <= MaxNesting)'
  BY <1>1, <1>3, <1>6, NestingAssumption DEF IInv, DepthRight
<1> QED BY <1>1, <1>5, <1>7 DEF IInv, TopRight

LEMMA TopStep ==
  ASSUME IInv, stack # << >>, NEW v, stack' = [stack EXCEPT ![Len(stack)] = v],
         v.kind = stack[Len(stack)].kind, depth' = depth,
         pc' \in {"array", "dict", "strings"} => v.kind = pc',
         pc' = "assign" => v.kind # "array"
  PROVE  IInv'
<1> DEFINE n == Len(stack)
           new == [stack EXCEPT ![Len(stack)] = v]
           S == Range(stack) \cup {v}
<1>1. stack \in Seq(Range(stack))
  BY DEF IInv, FramesRight
<1>2. stack \in Seq(S) /\ v \in S
  BY <1>1
<1> HIDE DEF S
<1>3. /\ n \in Nat \ {0} /\ Len(new) = n /\ new \in Seq(S)
      /\ \A i \in 1 .. n - 1 : new[i] = stack[i]
      /\ new[n] = v
  BY <1>2, TopChanged
<1>4. new \in Seq(Range(new))
  BY <1>3, OwnElements
<1> HIDE DEF new
<1>5. stack' = new
  BY DEF new
<1>6. \A i \in 1 .. n : new[i].kind = stack[i].kind
  BY <1>3
<1>7. FramesRight'
  <2>1. \A i \in 1 .. n : new[i].kind \in {"array", "dict", "strings"}
    BY <1>6 DEF IInv, FramesRight
  <2>2. \A i \in 2 .. n : new[i].kind # "strings"
    BY <1>3, <1>6 DEF IInv, FramesRight
  <2> QED BY <1>3, <1>4, <1>5, <2>1, <2>2 DEF FramesRight
<1>8. new # << >> /\ 1 \in 1 .. n
  BY <1>3
<1>9. DepthRight'
  BY <1>3, <1>5, <1>6, <1>8 DEF IInv, DepthRight, IsFile
<1>10. TopRight'
  BY <1>3, <1>5, <1>8 DEF TopRight
<1> QED BY <1>7, <1>9, <1>10 DEF IInv

--------------------------------------------------------------------------------
\* IInv is inductive: depth and the frame on top are what pc needs them to be.
THEOREM Inductive == Spec => []IInv
<1>1. Init => IInv
  <2> SUFFICES ASSUME Init PROVE IInv
    OBVIOUS
  <2>1. stack = << >> /\ depth = 0 /\ pc = "read" /\ Len(stack) = 0
    BY DEF Init, AtStart
  <2>2. stack \in Seq(Range(stack))
    BY <2>1
  <2> QED BY <2>1, <2>2, NestingAssumption DEF IInv, FramesRight, DepthRight, IsFile, TopRight
<1>2. IInv /\ [Next]_vars => IInv'
  <2> SUFFICES ASSUME IInv, [Next]_vars PROVE IInv'
    OBVIOUS
  <2> USE DEF Reading, Goto, Return, Top, Value
  <2>0. ASSUME stack' = stack, depth' = depth, pc' \notin {"array", "dict", "strings", "assign"}
        PROVE  IInv'
    BY <2>0, StayStep DEF TopRight
  <2>1. CASE Fail
    BY <2>1, <2>0 DEF Fail
  <2>2. CASE Read \/ ReaderFails \/ Finish
    BY <2>2, <2>0 DEF Read, ReaderFails, Finish
  <2>3. CASE ValueAtEOF \/ GNUStep \/ Hex \/ String
    <3>1. stack' = stack /\ depth' = depth /\ pc' \in {"return", "error"}
      BY <2>3 DEF ValueAtEOF, GNUStep, Hex, String, Scan
    <3> QED BY <3>1, <2>0
  <2>4. CASE OpenArray \/ OpenDictionary
    <3>1. depth < MaxNesting
      <4>1. depth \in Int
        BY DEF IInv, FramesRight, DepthRight
      <4> QED BY <2>4, <4>1, NestingAssumption DEF OpenArray, OpenDictionary, TooDeep
    <3> QED BY <2>4, <3>1, PushStep DEF OpenArray, OpenDictionary
  <2>5. CASE ArrayComma
    <3>1. pc' = pc /\ stack' = stack /\ depth' = depth
      BY <2>5 DEF ArrayComma
    <3> QED BY <3>1, StayStep DEF IInv, TopRight
  <2>6. CASE ArrayElement \/ Assign
    BY <2>6, <2>0 DEF ArrayElement, Assign
  <2>7. CASE ArrayClose \/ DictionaryClose
    <3>1. stack # << >> /\ stack[Len(stack)].kind # "strings"
      BY <2>7 DEF ArrayClose, DictionaryClose, IInv, TopRight
    <3> QED BY <2>7, <3>1, PopStep DEF ArrayClose, DictionaryClose
  <2>8. CASE AppendElement
    <3> DEFINE v == [kind |-> "array", keys |-> << >>,
                     values |-> Append(stack[Len(stack)].values, ret), key |-> << >>]
    <3>1. stack # << >> /\ stack[Len(stack)].kind = "array"
      BY <2>8 DEF AppendElement, Looping, Last
    <3>2. stack' = [stack EXCEPT ![Len(stack)] = v] /\ depth' = depth /\ pc' = "array"
      BY <2>8 DEF AppendElement
    <3>3. v.kind = "array"
      OBVIOUS
    <3> HIDE DEF v
    <3> QED BY <3>1, <3>2, <3>3, TopStep
  <2>9. CASE StringsClose
    <3>1. pc = "strings" /\ stack' = << >> /\ pc' = "done" /\ depth' = depth
      BY <2>9 DEF StringsClose
    <3>2. Len(stack) \in Nat \ {0} /\ stack[Len(stack)].kind = "strings"
      BY <3>1 DEF IInv, FramesRight, TopRight
    <3>3. Len(stack) = 1 /\ IsFile
      <4>1. Len(stack) \notin 2 .. Len(stack)
        BY <3>2 DEF IInv, FramesRight
      <4> DEFINE n == Len(stack)
      <4>2. n \in Nat \ {0} /\ n \notin 2 .. n
        BY <3>2, <4>1
      <4> HIDE DEF n
      <4>3. n = 1
        BY ONLY <4>2
      <4>4. Len(stack) = 1
        BY <4>3 DEF n
      <4> QED BY <3>1, <3>2, <4>4 DEF IInv, TopRight, IsFile
    <3>4. depth = 0 /\ << >> \in Seq(Range(<< >>)) /\ Len(<< >>) = 0
      BY <3>3 DEF IInv, DepthRight
    <3> QED BY <3>1, <3>4, NestingAssumption DEF IInv, FramesRight, DepthRight, IsFile, TopRight
  <2>10. CASE Key
    <3>1. stack # << >> /\ stack[Len(stack)].kind # "array" /\ depth' = depth
      BY <2>10 DEF Key, InDictionary, IInv, TopRight
    <3>2. \/ pc' = "error" /\ stack' = stack
          \/ pc' = "assign" /\ \E key : stack' = [stack EXCEPT ![Len(stack)] =
               [kind |-> @.kind, keys |-> @.keys, values |-> @.values, key |-> key]]
      BY <2>10 DEF Key
    <3>3. CASE pc' = "error" /\ stack' = stack
      BY <3>1, <3>3, <2>0
    <3>4. ASSUME pc' = "assign", NEW v, v.kind = stack[Len(stack)].kind,
                 stack' = [stack EXCEPT ![Len(stack)] = v]
          PROVE  IInv'
      BY <3>1, <3>4, TopStep
    <3> QED BY <3>2, <3>3, <3>4
  <2>11. ASSUME NEW v, AddEntry(v), stack # << >>, stack[Len(stack)].kind # "array" PROVE IInv'
    <3> DEFINE f == stack[Len(stack)]
               w == [kind |-> f.kind, keys |-> Append(f.keys, f.key),
                     values |-> Append(f.values, v), key |-> << >>]
    <3>1. stack' = [stack EXCEPT ![Len(stack)] = w] /\ depth' = depth /\ pc' = f.kind
      BY <2>11 DEF AddEntry, Last
    <3>2. w.kind = f.kind
      OBVIOUS
    <3>3. pc' # "assign"
      BY <2>11, <3>1 DEF IInv, FramesRight
    <3> HIDE DEF w
    <3> QED BY <2>11, <3>1, <3>2, <3>3, TopStep
  <2>12. CASE KeyAlone
    BY <2>12, <2>11 DEF KeyAlone, IInv, TopRight
  <2>13. CASE EndEntry
    BY <2>13, <2>11 DEF EndEntry, ReturnedToDictionary, Last
  <2>14. CASE TryStrings
    <3>1. /\ stack = << >> /\ stack' = <<Frame("strings")>> /\ depth' = depth
          /\ pc' = "strings"
      BY <2>14 DEF TryStrings, AtEnd
    <3>2. depth = 0
      BY <3>1 DEF IInv, DepthRight, IsFile
    <3>3. Frame("strings").kind = "strings"
      BY DEF Frame
    <3> DEFINE new == <<Frame("strings")>>
    <3>4. new \in Seq(Range(new)) /\ Len(new) = 1 /\ new # << >> /\ new[1].kind = "strings"
      BY <3>3 DEF Range
    <3> HIDE DEF new
    <3>5. stack' = new
      BY <3>1 DEF new
    <3> QED BY <3>1, <3>2, <3>4, <3>5, NestingAssumption
        DEF IInv, FramesRight, DepthRight, IsFile, TopRight
  <2>15. CASE UNCHANGED vars
    BY <2>15, StayStep DEF vars, IInv, TopRight
  <2> QED BY <2>1, <2>2, <2>3, <2>4, <2>5, <2>6, <2>7, <2>8, <2>9, <2>10, <2>12, <2>13, <2>14, <2>15
      DEF Next, UnitTruncated, CommentUnclosed, NestingExceeded, ArrayEOF, DictionaryEOF,
          AssignMissing, SemicolonMissing, Garbage
<1> QED BY <1>1, <1>2, PTL DEF Spec

\* No more than maxNestingDepth collections are ever open at once, in either attempt.
THEOREM OpenCollectionsBounded == Spec => []NestingBounded
<1>1. IInv => NestingBounded
  <2> SUFFICES ASSUME IInv PROVE NestingBounded
    OBVIOUS
  <2> DEFINE n == Len(stack)
             first == IF IsFile THEN 2 ELSE 1
  <2>1. n \in Nat /\ DOMAIN stack = 1 .. n /\ (IsFile => n # 0)
    BY DEF IInv, FramesRight, IsFile
  <2>2. Collections = first .. n
    BY <2>1 DEF Collections, IInv, FramesRight, IsFile
  <2>3. Cardinality(first .. n) = depth
    <3>1. first \in Int /\ n \in Int
      BY <2>1
    <3>2. Cardinality(first .. n) = IF first > n THEN 0 ELSE n - first + 1
      BY <3>1, FS_Interval
    <3>3. depth = IF IsFile THEN n - 1 ELSE n
      BY DEF IInv, DepthRight
    <3> HIDE DEF n
    <3> QED BY <2>1, <3>2, <3>3
  <2> QED BY <2>2, <2>3 DEF NestingBounded, IInv
<1> QED BY <1>1, Inductive, PTL

--------------------------------------------------------------------------------
\* Where reading stops: no earlier than it starts, and no further than the end.
LEMMA FirstInBounds ==
  ASSUME NEW S, NEW s \in Seq(S), NEW p \in Nat, NEW set
  PROVE  /\ FirstIn(s, p, set) \in Nat /\ FirstIn(s, p, set) >= p
         /\ p <= Len(s) + 1 => FirstIn(s, p, set) <= Len(s) + 1
         /\ p <= Len(s) /\ At(s, p) \notin set => FirstIn(s, p, set) > p
         /\ At(s, p) \in set => FirstIn(s, p, set) = p
<1> DEFINE go == {q \in Nat : ~(q > Len(s) \/ At(s, q) \in set)}
           next == [q \in Nat |-> q + 1]
           val == [q \in Nat |-> q]
           Scans(f) == f = [q \in Nat |-> IF q > Len(s) \/ At(s, q) \in set THEN q ELSE f[q + 1]]
           scan == CHOOSE f : Scans(f)
<1>0. Len(s) \in Nat
  OBVIOUS
<1>1. \A f : Scans(f) <=> Forward(f, go, next, val)
  <2> TAKE f
  <2>1. \A q \in Nat : (IF q > Len(s) \/ At(s, q) \in set THEN q ELSE f[q + 1])
                       = (IF q \in go THEN f[next[q]] ELSE val[q])
    OBVIOUS
  <2> QED BY <2>1 DEF Forward
<1>2. /\ \A q \in go : next[q] \in Nat /\ next[q] > q
      /\ go \in SUBSET (0 .. Len(s))
  BY <1>0
<1> HIDE DEF Scans
<1>3. /\ \A q \in go : next[q] <= Len(s) + 1
      /\ \A q \in Nat : val[q] = q
      /\ \A q \in Nat : next[q] = q + 1
      /\ p <= Len(s) /\ At(s, p) \notin set => p \in go
      /\ At(s, p) \in set => p \notin go
  BY <1>0
<1> DEFINE N == Len(s)
<1>n. N \in Nat
  BY <1>0
<1>g. go \in SUBSET (0 .. N)
  BY <1>2
<1>f. \A q \in go : next[q] \in Nat /\ next[q] > q
  BY <1>2
<1> HIDE DEF go, next, val, N
<1>4. Scans(scan)
  <2>1. \E f : Forward(f, go, next, val)
    BY ONLY <1>n, <1>g, <1>f, ForwardDefined
  <2>2. \E f : Scans(f)
    BY <1>1, <2>1
  <2> QED BY <2>2
<1>5. FirstIn(s, p, set) = scan[p]
  BY DEF FirstIn, Scans
<1>6. Forward(scan, go, next, val)
  BY <1>1, <1>4
<1> HIDE DEF scan
<1>7. PICK r \in Nat : Ends(scan, go, next, val, p, r)
  BY ONLY <1>n, <1>g, <1>f, <1>6, p \in Nat, ForwardEnds
<1>8. scan[p] = r
  BY <1>3, <1>7 DEF Ends
<1>9. p <= Len(s) + 1 => r <= Len(s) + 1
  BY <1>0, <1>3, <1>7 DEF Ends
<1>10. p \in go => r > p
  BY <1>7 DEF Ends
<1>11. At(s, p) \in set => scan[p] = p
  BY <1>3, <1>6 DEF Forward
<1> QED BY <1>3, <1>5, <1>7, <1>8, <1>9, <1>10, <1>11 DEF Ends

LEMMA FirstNotInBounds ==
  ASSUME NEW S, NEW s \in Seq(S), NEW p \in Nat, NEW set, EOF \notin set
  PROVE  /\ FirstNotIn(s, p, set) \in Nat /\ FirstNotIn(s, p, set) >= p
         /\ p <= Len(s) + 1 => FirstNotIn(s, p, set) <= Len(s) + 1
         /\ At(s, FirstNotIn(s, p, set)) \notin set
         /\ At(s, p) \notin set => FirstNotIn(s, p, set) = p
<1> DEFINE go == {q \in Nat : At(s, q) \in set}
           next == [q \in Nat |-> q + 1]
           val == [q \in Nat |-> q]
           Scans(f) == f = [q \in Nat |-> IF At(s, q) \in set THEN f[q + 1] ELSE q]
           scan == CHOOSE f : Scans(f)
<1>0. Len(s) \in Nat /\ DOMAIN s = 1 .. Len(s)
  OBVIOUS
<1>1. \A f : Scans(f) <=> Forward(f, go, next, val)
  <2> TAKE f
  <2>1. \A q \in Nat : (IF At(s, q) \in set THEN f[q + 1] ELSE q)
                       = (IF q \in go THEN f[next[q]] ELSE val[q])
    OBVIOUS
  <2> QED BY <2>1 DEF Forward
<1>2. /\ \A q \in go : next[q] \in Nat /\ next[q] > q
      /\ go \in SUBSET (0 .. Len(s))
  BY <1>0 DEF At
<1> HIDE DEF Scans
<1>3. /\ \A q \in go : next[q] <= Len(s) + 1
      /\ \A q \in Nat : val[q] = q
      /\ \A q \in Nat : q \notin go <=> At(s, q) \notin set
  BY <1>0, <1>2
<1> DEFINE N == Len(s)
<1>n. N \in Nat
  BY <1>0
<1>g. go \in SUBSET (0 .. N)
  BY <1>2
<1>f. \A q \in go : next[q] \in Nat /\ next[q] > q
  BY <1>2
<1> HIDE DEF go, next, val, N
<1>4. Scans(scan)
  <2>1. \E f : Forward(f, go, next, val)
    BY ONLY <1>n, <1>g, <1>f, ForwardDefined
  <2>2. \E f : Scans(f)
    BY <1>1, <2>1
  <2> QED BY <2>2
<1>5. FirstNotIn(s, p, set) = scan[p]
  BY DEF FirstNotIn, Scans
<1>6. Forward(scan, go, next, val)
  BY <1>1, <1>4
<1> HIDE DEF scan
<1>7. PICK r \in Nat : Ends(scan, go, next, val, p, r)
  BY ONLY <1>n, <1>g, <1>f, <1>6, p \in Nat, ForwardEnds
<1>8. scan[p] = r
  BY <1>3, <1>7 DEF Ends
<1>9. p <= Len(s) + 1 => r <= Len(s) + 1
  BY <1>0, <1>3, <1>7 DEF Ends
<1>10. At(s, r) \notin set
  BY <1>3, <1>7 DEF Ends
<1>11. At(s, p) \notin set => scan[p] = p
  BY <1>3, <1>6 DEF Forward
<1> QED BY <1>5, <1>7, <1>8, <1>9, <1>10, <1>11 DEF Ends

\* Skipping blanks and comments ends in the document or just behind it, or in the error
\* of a comment that is not closed.
LEMMA AfterBlankBounds ==
  ASSUME NEW S, NEW s \in Seq(S), NEW p \in Nat, p <= Len(s) + 1
  PROVE  \/ AfterBlank(s, p) = 0
         \/ /\ AfterBlank(s, p) \in Nat
            /\ AfterBlank(s, p) >= p /\ AfterBlank(s, p) <= Len(s) + 1
            /\ AfterBlank(s, AfterBlank(s, p)) = AfterBlank(s, p)
<1> DEFINE r(q) == FirstNotIn(s, q, Whitespace)
           closes(q) == {c \in r(q) .. Len(s) - 1 : s[c] = Star /\ s[c + 1] = Slash}
           line(q) == At(s, r(q)) = Slash /\ At(s, r(q) + 1) = Slash
           block(q) == At(s, r(q)) = Slash /\ At(s, r(q) + 1) = Star
           go == {q \in Nat : line(q) \/ (block(q) /\ closes(q) # {})}
           next == [q \in Nat |-> IF line(q) THEN FirstIn(s, r(q), NewlineCharacters)
                                             ELSE Min(closes(q)) + 2]
           val == [q \in Nat |-> IF block(q) THEN 0 ELSE r(q)]
           Skips(f) == f = [q \in Nat |->
             CASE line(q) -> f[FirstIn(s, r(q), NewlineCharacters)]
               [] block(q) -> IF closes(q) = {} THEN 0 ELSE f[Min(closes(q)) + 2]
               [] OTHER -> r(q)]
           skip == CHOOSE f : Skips(f)
<1>0. Len(s) \in Nat /\ DOMAIN s = 1 .. Len(s) /\ EOF \notin Whitespace
      /\ Slash \notin NewlineCharacters /\ Slash # Star
  BY DEF EOF, Whitespace, Space, Slash, NewlineCharacters, Star
<1>1. \A q \in Nat : /\ r(q) \in Nat /\ r(q) >= q
                     /\ q <= Len(s) + 1 => r(q) <= Len(s) + 1
                     /\ r(r(q)) = r(q)
  BY <1>0, FirstNotInBounds
<1>2. \A q \in Nat : At(s, r(q)) = Slash => r(q) <= Len(s) /\ q <= Len(s)
  BY <1>0, <1>1 DEF At, EOF, Slash
<1>3. \A f : Skips(f) <=> Forward(f, go, next, val)
  <2> TAKE f
  <2> DEFINE A(q) == CASE line(q) -> f[FirstIn(s, r(q), NewlineCharacters)]
                       [] block(q) -> IF closes(q) = {} THEN 0 ELSE f[Min(closes(q)) + 2]
                       [] OTHER -> r(q)
             B(q) == IF q \in go THEN f[next[q]] ELSE val[q]
  <2>1. \A q \in Nat : A(q) = B(q)
    <3> SUFFICES ASSUME NEW q \in Nat PROVE A(q) = B(q)
      OBVIOUS
    <3>1. ~(line(q) /\ block(q))
      BY <1>0
    <3>2. q \in go <=> line(q) \/ (block(q) /\ closes(q) # {})
      OBVIOUS
    <3>3. next[q] = IF line(q) THEN FirstIn(s, r(q), NewlineCharacters) ELSE Min(closes(q)) + 2
      OBVIOUS
    <3>4. val[q] = IF block(q) THEN 0 ELSE r(q)
      OBVIOUS
    <3> HIDE DEF r, line, block, closes, go, next, val
    <3>5. CASE line(q)
      BY <3>1, <3>2, <3>3, <3>5
    <3>6. CASE block(q)
      BY <3>1, <3>2, <3>3, <3>4, <3>6
    <3>7. CASE ~line(q) /\ ~block(q)
      BY <3>2, <3>4, <3>7
    <3> QED BY <3>5, <3>6, <3>7
  <2> HIDE DEF r, line, block, closes
  <2> QED BY <2>1 DEF Forward
<1> HIDE DEF Skips, r
<1>4. ASSUME NEW q \in go
      PROVE  next[q] \in Nat /\ next[q] > q /\ next[q] <= Len(s) + 1 /\ q <= Len(s)
  <2>1. q \in Nat /\ At(s, r(q)) = Slash /\ r(q) <= Len(s) /\ q <= Len(s) /\ r(q) \in Nat /\ r(q) >= q
    BY <1>1, <1>2
  <2>2. CASE line(q)
    <3>1. next[q] = FirstIn(s, r(q), NewlineCharacters)
      BY <2>2
    <3>2. At(s, r(q)) \notin NewlineCharacters /\ r(q) <= Len(s) + 1
      BY <1>0, <2>1
    <3> DEFINE x == r(q)
               set == NewlineCharacters
    <3> HIDE DEF x, set
    <3>3. s \in Seq(S) /\ x \in Nat /\ x <= Len(s) /\ At(s, x) \notin set /\ x <= Len(s) + 1
      BY <2>1, <3>2 DEF x, set
    <3>4. FirstIn(s, x, set) \in Nat /\ FirstIn(s, x, set) <= Len(s) + 1
          /\ FirstIn(s, x, set) > x
      BY <3>3, FirstInBounds
    <3> QED BY <1>0, <2>1, <3>1, <3>4 DEF x, set
  <2>3. CASE ~line(q)
    <3>1. next[q] = Min(closes(q)) + 2 /\ closes(q) # {}
      BY <2>1, <2>3
    <3> DEFINE C == closes(q)
    <3>2. C \in SUBSET Nat /\ \A c \in C : c >= r(q) /\ c <= Len(s) - 1
      BY <1>0, <2>1
    <3> HIDE DEF C
    <3>3. \E x \in C : \A y \in C : x <= y
      BY ONLY <3>1, <3>2, LeastNatural DEF C
    <3>4. Min(C) \in C
      BY <3>3 DEF Min
    <3> QED BY <1>0, <2>1, <3>1, <3>2, <3>4 DEF C
  <2> QED BY <2>2, <2>3
<1>5. /\ \A q \in go : next[q] \in Nat /\ next[q] > q
      /\ go \in SUBSET (0 .. Len(s))
  <2>1. \A q \in go : q \in Nat
    OBVIOUS
  <2> HIDE DEF go, next
  <2> QED BY <1>0, <1>4, <2>1
<1>6. \A q \in Nat : q \notin go => val[q] \in {0, r(q)}
  OBVIOUS
<1>a. ASSUME NEW q \in Nat, q \notin go PROVE r(q) \notin go /\ val[r(q)] = val[q]
  <2>1. line(r(q)) <=> line(q)
    BY <1>1
  <2>2. block(r(q)) <=> block(q)
    BY <1>1
  <2>3. closes(r(q)) = closes(q)
    BY <1>1
  <2>4. \A x \in Nat : /\ x \in go <=> line(x) \/ (block(x) /\ closes(x) # {})
                       /\ val[x] = IF block(x) THEN 0 ELSE r(x)
    OBVIOUS
  <2> HIDE DEF line, block, closes, go, val
  <2>5. r(q) \in Nat /\ r(r(q)) = r(q)
    BY <1>1
  <2> QED BY <1>a, <2>1, <2>2, <2>3, <2>4, <2>5
<1>7. \A q : AfterBlank(s, q) = skip[q]
  BY DEF AfterBlank, Skips, r
<1> DEFINE N == Len(s)
<1>n. N \in Nat
  BY <1>0
<1>g. go \in SUBSET (0 .. N)
  BY <1>5
<1>f. \A q \in go : next[q] \in Nat /\ next[q] > q
  BY <1>5
<1> HIDE DEF go, next, val, N
<1>8. Skips(skip)
  <2>1. \E f : Forward(f, go, next, val)
    BY ONLY <1>n, <1>g, <1>f, ForwardDefined
  <2>2. \E f : Skips(f)
    BY <1>3, <2>1
  <2> QED BY <2>2
<1>9. Forward(skip, go, next, val)
  BY <1>3, <1>8
<1> HIDE DEF skip
<1>10. PICK x \in Nat : Ends(skip, go, next, val, p, x)
  BY ONLY <1>n, <1>g, <1>f, <1>9, p \in Nat, ForwardEnds
<1>11. x <= Len(s) + 1
  BY <1>0, <1>4, <1>10 DEF Ends
<1>12. skip[p] = 0 \/ skip[p] = r(x)
  BY <1>6, <1>10 DEF Ends
<1>13. r(x) \in Nat /\ r(x) >= x /\ r(x) <= Len(s) + 1 /\ x >= p
  BY <1>1, <1>10, <1>11 DEF Ends
<1>14. skip[r(x)] = skip[p]
  BY <1>9, <1>10, <1>13, <1>a DEF Ends, Forward
<1> QED BY <1>7, <1>12, <1>13, <1>14

\* The parser reads a sequence of code points.
LEMMA InputIsText ==
  ASSUME NEW bytes \in Seq(Nat), Decoded(bytes).ok
  PROVE  Decoded(bytes).value.string \in Seq(Nat)
<1>1. ASSUME NEW v PROVE Scanned(Text(v), 1).value.string = v
  BY DEF Scanned, Text
<1>2. ~Panic.ok
  BY DEF Panic
<1>3. ASSUME NEW b \in Seq(Nat), NEW hi \in {0, 1}, NEW lo \in {0, 1}
      PROVE  Units(b, hi, lo) \in Seq(Nat)
  <2> DEFINE n == Len(b) \div 2
  <2>1. Len(b) \in Nat /\ DOMAIN b = 1 .. Len(b) /\ \A i \in 1 .. Len(b) : b[i] \in Nat
    OBVIOUS
  <2>2. n \in Nat /\ 2 * n <= Len(b)
    BY <2>1
  <2> HIDE DEF n
  <2>3. \A i \in 1 .. n : 2 * i - hi \in 1 .. Len(b) /\ 2 * i - lo \in 1 .. Len(b)
    BY <2>1, <2>2
  <2>4. ASSUME NEW i \in 1 .. n PROVE 256 * b[2 * i - hi] + b[2 * i - lo] \in Nat
    <3>1. b[2 * i - hi] \in Nat /\ b[2 * i - lo] \in Nat
      BY <2>1, <2>3
    <3>2. \A x, y \in Nat : 256 * x + y \in Nat
      OBVIOUS
    <3> QED BY ONLY <3>1, <3>2
  <2>5. Units(b, hi, lo) = [i \in 1 .. n |-> 256 * b[2 * i - hi] + b[2 * i - lo]]
    BY DEF Units, n
  <2> QED BY <2>2, <2>4, <2>5
<1>4. ASSUME NEW b \in Seq(Nat), NEW hi \in {0, 1}, NEW lo \in {0, 1}, UTF16(b, hi, lo).ok
      PROVE  UTF16(b, hi, lo).value.string \in Seq(Nat)
  BY <1>1, <1>2, <1>3, <1>4 DEF UTF16
<1> DEFINE b1 == At(bytes, 1)
           b2 == At(bytes, 2)
           c1 == b1 = 239 /\ b2 = 187 /\ At(bytes, 3) = 191
           c2 == b1 = 254 /\ b2 = 255
           c3 == b1 = 255 /\ b2 = 254
           c4 == b1 = 0 /\ b2 > 0
           c5 == b1 > 0 /\ b2 = 0
           three == SubSeq(bytes, 3 + 1, Len(bytes))
           two == SubSeq(bytes, 2 + 1, Len(bytes))
           d == Decoded(bytes)
<1>5. d = CASE c1 -> Scanned(Text(three), 1)
            [] c2 -> UTF16(two, 1, 0)
            [] c3 -> UTF16(two, 0, 1)
            [] c4 -> UTF16(bytes, 1, 0)
            [] c5 -> UTF16(bytes, 0, 1)
            [] OTHER -> Scanned(Text(bytes), 1)
  BY DEF Decoded
<1>6. (c1 => 3 <= Len(bytes)) /\ (c2 \/ c3 => 2 <= Len(bytes))
  BY DEF At, EOF
<1>7. (c1 => three \in Seq(Nat)) /\ (c2 \/ c3 => two \in Seq(Nat))
  <2>1. 3 <= Len(bytes) => three \in Seq(Nat)
    OBVIOUS
  <2>2. 2 <= Len(bytes) => two \in Seq(Nat)
    OBVIOUS
  <2> HIDE DEF c1, c2, c3, three, two
  <2> QED BY <1>6, <2>1, <2>2
<1>8. /\ c1 => ~c2 /\ ~c3 /\ ~c4 /\ ~c5
      /\ c2 => ~c3 /\ ~c4 /\ ~c5
      /\ c3 => ~c4 /\ ~c5
      /\ c4 => ~c5
  OBVIOUS
<1>9. d.ok
  OBVIOUS
<1> SUFFICES d.value.string \in Seq(Nat)
  OBVIOUS
<1> HIDE DEF c1, c2, c3, c4, c5, two, three, d
<1>10. CASE c1
  BY <1>1, <1>5, <1>7, <1>8, <1>10
<1>11. CASE c2
  BY <1>4, <1>5, <1>7, <1>8, <1>9, <1>11
<1>12. CASE c3
  BY <1>4, <1>5, <1>7, <1>8, <1>9, <1>12
<1>13. CASE c4
  BY <1>4, <1>5, <1>8, <1>9, <1>13
<1>14. CASE c5
  BY <1>4, <1>5, <1>9, <1>8, <1>14
<1>15. CASE ~c1 /\ ~c2 /\ ~c3 /\ ~c4 /\ ~c5
  BY <1>1, <1>5, <1>15
<1> QED BY <1>10, <1>11, <1>12, <1>13, <1>14, <1>15

\* What a scanner returns lies behind its end in the document.
LEMMA ScannersStop ==
  ASSUME NEW s \in Seq(Nat), NEW p
  PROVE  /\ Quoted(s, p).ok => Quoted(s, p).next \in 1 .. Len(s) + 1
         /\ HexData(s, p).ok => HexData(s, p).next \in 1 .. Len(s) + 1
         /\ Base64(s, p).ok => Base64(s, p).next \in 1 .. Len(s) + 1
         /\ GNUStepValue(s, p).ok => GNUStepValue(s, p).next \in 1 .. Len(s) + 1
<1>1. ASSUME NEW v, NEW n PROVE Scanned(v, n).ok /\ Scanned(v, n).next = n
  BY DEF Scanned
<1>2. ~Panic.ok
  BY DEF Panic
<1>3. ASSUME NEW q, At(s, q) # EOF PROVE q \in Nat /\ q + 1 \in 1 .. Len(s) + 1
  BY <1>3 DEF At
<1>4. Quoted(s, p).ok => Quoted(s, p).next \in 1 .. Len(s) + 1
  <2> DEFINE close == ClosingQuote(s, p)
  <2>1. Quote # EOF
    BY DEF Quote, EOF
  <2>2. Quoted(s, p) = IF At(s, close) = Quote
                       THEN Scanned(Text(Unescaped(s, p, close - 1)), close + 1) ELSE Panic
    BY DEF Quoted
  <2> HIDE DEF close
  <2>3. CASE At(s, close) = Quote
    BY <1>1, <1>3, <2>1, <2>2, <2>3
  <2> QED BY <1>2, <2>2, <2>3
<1>5. HexData(s, p).ok => HexData(s, p).next \in 1 .. Len(s) + 1
  <2> DEFINE stop == FirstIn(s, p, {GreaterThan})
             digits == SelectSeq(SubSeq(s, p, stop - 1), LAMBDA c : c \notin HexBlank)
             bytes == [i \in 1 .. Len(digits) \div 2 |-> ValueOf(SubSeq(digits, 2 * i - 1, 2 * i), 16)]
             bad == \/ At(s, stop) = EOF \/ Len(digits) % 2 = 1
                    \/ \E i \in DOMAIN digits : ~IsDigit(digits[i], 16)
  <2>1. HexData(s, p) = IF bad THEN Panic ELSE Scanned(Data(bytes), stop + 1)
    BY DEF HexData
  <2>2. At(s, stop) = EOF => bad
    OBVIOUS
  <2> HIDE DEF stop, digits, bytes, bad
  <2>3. CASE ~bad
    BY <1>1, <1>3, <2>1, <2>2, <2>3
  <2> QED BY <1>2, <2>1, <2>3
<1>6. Base64(s, p).ok => Base64(s, p).next \in 1 .. Len(s) + 1
  <2> DEFINE stop == FirstIn(s, p, {CloseBracket})
             t == SelectSeq(SubSeq(s, p, stop - 1), LAMBDA c : Sextet(c) < 64)
             good == At(s, stop) = CloseBracket /\ At(s, stop + 1) = GreaterThan /\ IsBase64(t)
  <2>1. Base64(s, p) = IF good THEN Scanned(Data(Base64Bytes(t)), stop + 2) ELSE Panic
    BY DEF Base64
  <2>2. good => At(s, stop) # EOF /\ At(s, stop + 1) # EOF
    BY DEF EOF, CloseBracket, GreaterThan
  <2> HIDE DEF stop, t, good
  <2>3. CASE good
    <3>1. stop \in Nat /\ (stop + 1) + 1 \in 1 .. Len(s) + 1
      BY <1>3, <2>2, <2>3
    <3> QED BY <1>1, <2>1, <2>3, <3>1
  <2> QED BY <1>2, <2>1, <2>3
<1>7. GNUStepValue(s, p).ok => GNUStepValue(s, p).next \in 1 .. Len(s) + 1
  <2> DEFINE start == IF At(s, p + 1) = Quote THEN p + 2 ELSE p + 1
             stop == FirstIn(s, start, {GreaterThan})
             inside == SubSeq(s, start, stop - 1)
             t == IF inside # << >> /\ Last(inside) = Quote THEN Front(inside) ELSE inside
             cut == At(s, stop) = EOF \/ t = << >>
             integer == At(s, p) = 73 /\ IsInteger(t)
             real == At(s, p) = 82 /\ t \in RealTexts
             boolean == At(s, p) = 66
             date == At(s, p) = 68 /\ t \in DateTexts
             read == CASE integer -> Scanned(Number(IntegerOf(t)), stop + 1)
                       [] real -> Scanned(Real(t), stop + 1)
                       [] boolean -> Scanned(Boolean(t[1] = 89), stop + 1)
                       [] date -> Scanned(Date(t), stop + 1)
                       [] OTHER -> Panic
  <2>1. GNUStepValue(s, p) = IF cut THEN Panic ELSE read
    BY DEF GNUStepValue
  <2>2. At(s, stop) = EOF => cut
    OBVIOUS
  <2>3. read = Panic \/ \E v : read = Scanned(v, stop + 1)
    <3> HIDE DEF integer, real, boolean, date, stop, t
    <3> QED OBVIOUS
  <2> HIDE DEF cut, read, stop
  <2>4. CASE GNUStepValue(s, p) = Panic
    BY <1>2, <2>4
  <2>5. CASE ~cut /\ \E v : GNUStepValue(s, p) = Scanned(v, stop + 1)
    <3>1. stop + 1 \in 1 .. Len(s) + 1
      BY <1>3, <2>2, <2>5
    <3> QED BY <1>1, <2>5, <3>1
  <2> QED BY <2>1, <2>3, <2>4, <2>5
<1> QED BY <1>4, <1>5, <1>6, <1>7

LEMMA UnquotedStops ==
  ASSUME NEW s \in Seq(Nat), NEW p \in 1 .. Len(s) + 1, Unquoted(s, p).ok
  PROVE  Unquoted(s, p).next \in 1 .. Len(s) + 1
<1>1. FirstIn(s, p, GSQuotable) \in 1 .. Len(s) + 1
  <2>1. Len(s) \in Nat /\ p \in Nat /\ p <= Len(s) + 1 /\ p >= 1
    OBVIOUS
  <2> DEFINE set == GSQuotable
  <2> HIDE DEF set
  <2>2. FirstIn(s, p, set) \in Nat /\ FirstIn(s, p, set) >= p /\ FirstIn(s, p, set) <= Len(s) + 1
    BY <2>1, FirstInBounds
  <2> QED BY <2>1, <2>2 DEF set
<1> QED BY <1>1 DEF Unquoted, Scanned, Panic

--------------------------------------------------------------------------------
\* A frame has a value for each of its keys, and the parser is somewhere in its input or
\* just behind it.
Paired(f) ==
  f.kind # "array" =>
    /\ f.keys \in Seq(Range(f.keys)) /\ f.values \in Seq(Range(f.values))
    /\ Len(f.keys) = Len(f.values)
Within ==
  /\ input \in Seq(Nat) /\ pos \in 1 .. Len(input) + 1
  /\ pc = "read" => pos = 1
  /\ format \in {"OpenStep", "GNUStep"}
  /\ pc \in {"read", "value", "return", "array", "dict", "strings", "assign", "unread", "done", "error"}
TypeInv == doc \in Documents /\ Within /\ \A i \in 1 .. Len(stack) : Paired(stack[i])

LEMMA NewFrame == ASSUME NEW kind PROVE Paired(Frame(kind))
<1>1. << >> \in Seq(Range(<< >>)) /\ Len(<< >>) = 0
  OBVIOUS
<1> QED BY <1>1 DEF Paired, Frame

LEMMA EntryAdded ==
  ASSUME NEW f, Paired(f), f.kind # "array", NEW v
  PROVE  Paired([kind |-> f.kind, keys |-> Append(f.keys, f.key),
                 values |-> Append(f.values, v), key |-> << >>])
<1> DEFINE k == f.keys
           x == f.key
           w == f.values
<1>1. /\ k \in Seq(Range(k)) /\ w \in Seq(Range(w)) /\ Len(k) = Len(w)
  BY DEF Paired
<1> HIDE DEF k, w, x
<1>2. Append(k, x) \in Seq(Range(Append(k, x))) /\ Len(Append(k, x)) = Len(k) + 1
  BY <1>1, TopPushed
<1>3. Append(w, v) \in Seq(Range(Append(w, v))) /\ Len(Append(w, v)) = Len(w) + 1
  BY <1>1, TopPushed
<1>4. Len(Append(k, x)) = Len(Append(w, v))
  BY <1>1, <1>2, <1>3
<1> DEFINE a == Append(k, x)
           b == Append(w, v)
<1>5. a \in Seq(Range(a)) /\ b \in Seq(Range(b)) /\ Len(a) = Len(b)
  BY <1>2, <1>3, <1>4
<1> HIDE DEF a, b
<1>6. Paired([kind |-> f.kind, keys |-> a, values |-> b, key |-> << >>])
  BY <1>5 DEF Paired
<1> QED BY <1>6 DEF a, b, k, w, x

\* Where a token is, there is room for the next position; and StringAt stops within.
LEMMA StartWithin ==
  ASSUME Within, Start # 0
  PROVE  /\ Start \in 1 .. Len(input) + 1
         /\ Token # EOF => Start \in 1 .. Len(input) /\ Start + 1 \in 1 .. Len(input) + 1
         /\ StringAt.ok => StringAt.next \in 1 .. Len(input) + 1
<1>1. Start \in 1 .. Len(input) + 1
  <2>1. input \in Seq(Nat) /\ pos \in Nat /\ pos <= Len(input) + 1 /\ pos >= 1
    BY DEF Within
  <2>2. \/ AfterBlank(input, pos) = 0
        \/ /\ AfterBlank(input, pos) \in Nat
           /\ AfterBlank(input, pos) >= pos /\ AfterBlank(input, pos) <= Len(input) + 1
    BY <2>1, AfterBlankBounds
  <2> QED BY <2>1, <2>2 DEF Start
<1>2. Token # EOF => Start \in 1 .. Len(input) /\ Start + 1 \in 1 .. Len(input) + 1
  BY <1>1 DEF Within, Token, At
<1>3. StringAt.ok => StringAt.next \in 1 .. Len(input) + 1
  <2> DEFINE p == Start
             after == Start + 1
  <2>1. input \in Seq(Nat) /\ p \in 1 .. Len(input) + 1
    BY <1>1 DEF Within
  <2>2. StringAt = IF Token = Quote THEN Quoted(input, after) ELSE Unquoted(input, p)
    BY DEF StringAt
  <2> HIDE DEF p, after
  <2>3. Quoted(input, after).ok => Quoted(input, after).next \in 1 .. Len(input) + 1
    BY <2>1, ScannersStop
  <2>4. Unquoted(input, p).ok => Unquoted(input, p).next \in 1 .. Len(input) + 1
    BY <2>1, UnquotedStops
  <2> QED BY <2>2, <2>3, <2>4
<1> QED BY <1>1, <1>2, <1>3

LEMMA TypeInit == Init => TypeInv
<1> SUFFICES ASSUME Init PROVE TypeInv
  OBVIOUS
<1>1. Len(stack) = 0 /\ input = << >> /\ input \in Seq(Nat) /\ Len(input) = 0
  BY DEF Init, AtStart
<1> QED BY <1>1 DEF Init, AtStart, TypeInv, Within

\* The steps that leave the stack alone.
LEMMA SameFrames ==
  ASSUME TypeInv, doc' = doc, stack' = stack, Within'
  PROVE  TypeInv'
BY DEF TypeInv

LEMMA ChangedTop ==
  ASSUME IInv, TypeInv, stack # << >>, NEW v, stack' = [stack EXCEPT ![Len(stack)] = v],
         Paired(v), doc' = doc, Within'
  PROVE  TypeInv'
<1> DEFINE n == Len(stack)
           new == [stack EXCEPT ![Len(stack)] = v]
           S == Range(stack) \cup {v}
<1>1. stack \in Seq(Range(stack))
  BY DEF IInv, FramesRight
<1>2. stack \in Seq(S) /\ v \in S
  BY <1>1
<1> HIDE DEF S
<1>3. /\ n \in Nat \ {0} /\ Len(new) = n
      /\ \A i \in 1 .. n - 1 : new[i] = stack[i]
      /\ new[n] = v
  BY <1>2, TopChanged
<1> HIDE DEF new
<1>4. \A i \in 1 .. Len(new) : Paired(new[i])
  BY <1>3 DEF TypeInv
<1> QED BY <1>4 DEF TypeInv, new

LEMMA TypeNext ==
  ASSUME IInv, TypeInv, [Next]_vars
  PROVE  TypeInv'
<1> USE DEF Reading, Goto, Return, Top, Value
<1>0. /\ Within /\ doc \in Documents /\ input \in Seq(Nat) /\ pos \in 1 .. Len(input) + 1
      /\ Len(input) \in Nat
  BY DEF TypeInv, Within
<1>1. ASSUME Fail PROVE TypeInv'
  BY <1>1, SameFrames DEF Fail, TypeInv, Within
<1>2. CASE ReaderFails \/ Finish
  BY <1>2, SameFrames DEF ReaderFails, Finish, TypeInv, Within
<1>3. CASE Read
  <2>1. /\ pc' = "value" /\ doc' = doc /\ stack' = stack /\ pos' = 1 /\ format' = format
        /\ input' = Decoded(doc.bytes).value.string /\ Decoded(doc.bytes).ok
    BY <1>3 DEF Read, TypeInv, Within
  <2>2. input' \in Seq(Nat)
    <3>1. doc.bytes \in Seq(Nat)
      BY <1>0, DocumentsAssumption
    <3> QED BY <2>1, <3>1, InputIsText
  <2>3. pos' \in 1 .. Len(input') + 1
    BY <2>1, <2>2
  <2>4. Within'
    BY <2>1, <2>2, <2>3, <1>0 DEF Within
  <2> QED BY <2>1, <2>4, SameFrames
<1>4. ASSUME doc' = doc, stack' = stack, input' = input, format' \in {"OpenStep", "GNUStep"},
             pos' \in 1 .. Len(input) + 1,
             pc' \in {"value", "return", "array", "dict", "strings", "assign", "error", "done"}
      PROVE  TypeInv'
  <2>1. Within'
    BY <1>0, <1>4 DEF Within
  <2> QED BY <1>4, <2>1, SameFrames
<1>5. CASE ValueAtEOF \/ ArrayElement
  BY <1>0, <1>4, <1>5, StartWithin DEF ValueAtEOF, ArrayElement, Within
<1>6. CASE ArrayComma \/ Assign
  <2>1. Token # EOF
    BY <1>6 DEF ArrayComma, Assign, Comma, Equals, EOF
  <2> QED BY <1>0, <1>4, <1>6, <2>1, StartWithin DEF ArrayComma, Assign, Within
<1>7. ASSUME NEW scanned, Scan({scanned}), format' \in {"OpenStep", "GNUStep"},
             scanned.ok => scanned.next \in 1 .. Len(input) + 1
      PROVE  TypeInv'
  <2>1. CASE scanned.ok
    BY <1>4, <1>7, <2>1 DEF Scan
  <2>2. CASE ~scanned.ok
    BY <1>0, <1>4, <1>7, <2>2 DEF Scan
  <2> QED BY <2>1, <2>2
<1>8. CASE GNUStep
  <2> DEFINE scanned == IF Second = Star THEN GNUStepValue(input, Start + 2) ELSE Base64(input, Start + 2)
             p == Start + 2
  <2>1. Scan({scanned}) /\ format' = "GNUStep"
    BY <1>8 DEF GNUStep
  <2>2. scanned = IF Second = Star THEN GNUStepValue(input, p) ELSE Base64(input, p)
    OBVIOUS
  <2> HIDE DEF scanned, p
  <2>3. scanned.ok => scanned.next \in 1 .. Len(input) + 1
    BY <1>0, <2>2, ScannersStop
  <2> QED BY <1>7, <2>1, <2>3
<1>9. CASE Hex
  <2> DEFINE p == Start + 1
             scanned == HexData(input, p)
  <2>1. Scan({scanned}) /\ format' = format
    BY <1>9 DEF Hex
  <2> HIDE DEF p
  <2>2. scanned.ok => scanned.next \in 1 .. Len(input) + 1
    BY <1>0, ScannersStop
  <2> HIDE DEF scanned
  <2> QED BY <1>0, <1>7, <2>1, <2>2 DEF Within
<1>10. CASE String
  <2>1. Start # 0 /\ Scan({StringAt}) /\ format' = format
    BY <1>10 DEF String
  <2>2. StringAt.ok => StringAt.next \in 1 .. Len(input) + 1
    BY <1>0, <2>1, StartWithin
  <2> QED BY <1>0, <1>7, <2>1, <2>2 DEF Within
<1>11. ASSUME NEW kind \in {"array", "dict"}, Open(kind), Start # 0, Token # EOF
       PROVE  TypeInv'
  <2>1. /\ stack' = Append(stack, Frame(kind)) /\ pc' = kind /\ pos' = Start + 1
        /\ doc' = doc /\ input' = input /\ format' = format
    BY <1>11 DEF Open
  <2>2. pos' \in 1 .. Len(input) + 1
    BY <1>0, <1>11, <2>1, StartWithin
  <2>3. Within'
    BY <1>0, <2>1, <2>2 DEF Within
  <2> DEFINE f == Frame(kind)
             new == Append(stack, f)
  <2>4. Paired(f)
    BY NewFrame
  <2> HIDE DEF f
  <2>5. stack \in Seq(Range(stack))
    BY DEF IInv, FramesRight
  <2>6. /\ Len(stack) \in Nat /\ Len(new) = Len(stack) + 1
        /\ \A i \in 1 .. Len(stack) : new[i] = stack[i]
        /\ new[Len(stack) + 1] = f
    BY <2>5, Pushed
  <2> HIDE DEF new
  <2>7. \A i \in 1 .. Len(new) : Paired(new[i])
    BY <2>4, <2>6 DEF TypeInv
  <2> QED BY <1>0, <2>1, <2>3, <2>7 DEF TypeInv, new, f
<1>12. CASE OpenArray \/ OpenDictionary
  <2>1. Token # EOF
    BY <1>12 DEF OpenArray, OpenDictionary, OpenParen, OpenBrace, EOF
  <2> QED BY <1>11, <1>12, <2>1 DEF OpenArray, OpenDictionary
<1>13. ASSUME NEW v, Close(v), stack # << >>, Start # 0, Token # EOF
       PROVE  TypeInv'
  <2>1. /\ stack' = Front(stack) /\ pc' = "return" /\ pos' = Start + 1
        /\ doc' = doc /\ input' = input /\ format' = format
    BY <1>13 DEF Close
  <2>2. pos' \in 1 .. Len(input) + 1
    BY <1>0, <1>13, <2>1, StartWithin
  <2>3. Within'
    BY <1>0, <2>1, <2>2 DEF Within
  <2> DEFINE new == Front(stack)
  <2>4. stack \in Seq(Range(stack))
    BY DEF IInv, FramesRight
  <2>5. /\ Len(stack) \in Nat \ {0} /\ Len(new) = Len(stack) - 1
        /\ \A i \in 1 .. Len(stack) - 1 : new[i] = stack[i]
    BY <1>13, <2>4, Popped
  <2> HIDE DEF new
  <2>6. \A i \in 1 .. Len(new) : Paired(new[i])
    BY <2>5 DEF TypeInv
  <2> QED BY <1>0, <2>1, <2>3, <2>6 DEF TypeInv, new
<1>14. CASE ArrayClose \/ DictionaryClose
  <2>1. stack # << >>
    BY <1>14 DEF ArrayClose, DictionaryClose, IInv, TopRight
  <2>2. Token # EOF
    BY <1>14 DEF ArrayClose, DictionaryClose, CloseParen, CloseBrace, EOF
  <2> QED BY <1>13, <1>14, <2>1, <2>2 DEF ArrayClose, DictionaryClose
<1>15. CASE AppendElement
  <2> DEFINE v == [kind |-> "array", keys |-> << >>,
                   values |-> Append(stack[Len(stack)].values, ret), key |-> << >>]
  <2>1. stack # << >> /\ stack' = [stack EXCEPT ![Len(stack)] = v] /\ pc' = "array"
        /\ doc' = doc /\ input' = input /\ format' = format /\ pos' = pos
    BY <1>15 DEF AppendElement, Looping
  <2>2. Paired(v)
    BY DEF Paired
  <2>3. Within'
    BY <1>0, <2>1 DEF Within
  <2> HIDE DEF v
  <2> QED BY <2>1, <2>2, <2>3, ChangedTop
<1>16. CASE StringsClose
  <2>1. stack' = << >> /\ pc' = "done" /\ doc' = doc /\ input' = input /\ format' = format /\ pos' = pos
    BY <1>16 DEF StringsClose
  <2>2. Within' /\ Len(<< >>) = 0
    BY <1>0, <2>1 DEF Within
  <2> QED BY <1>0, <2>1, <2>2 DEF TypeInv
<1>17. CASE Key
  <2>1. Start # 0 /\ stack # << >> /\ doc' = doc /\ input' = input /\ format' = format
    BY <1>17 DEF Key, InDictionary, IInv, TopRight
  <2>2. StringAt.ok => StringAt.next \in 1 .. Len(input) + 1
    BY <1>0, <2>1, StartWithin
  <2> DEFINE f == stack[Len(stack)]
             v == [kind |-> f.kind, keys |-> f.keys, values |-> f.values,
                   key |-> StringAt.value.string]
  <2>3. CASE StringAt.ok
    <3>1. stack' = [stack EXCEPT ![Len(stack)] = v] /\ pc' = "assign" /\ pos' = StringAt.next
      BY <1>17, <2>3 DEF Key
    <3>2. Within'
      BY <1>0, <2>1, <2>2, <2>3, <3>1 DEF Within
    <3>3. Len(stack) \in 1 .. Len(stack)
      BY <2>1 DEF IInv, FramesRight
    <3>4. Paired(f)
      BY <3>3 DEF TypeInv
    <3>5. Paired(v)
      BY <3>4 DEF Paired
    <3> HIDE DEF v
    <3> QED BY <2>1, <3>1, <3>2, <3>5, ChangedTop
  <2>4. CASE ~StringAt.ok
    <3>1. pc' = "error" /\ stack' = stack /\ pos' = pos
      BY <1>17, <2>4 DEF Key
    <3> QED BY <1>0, <1>4, <2>1, <3>1 DEF Within
  <2> QED BY <2>3, <2>4
<1>18. ASSUME NEW v, AddEntry(v), stack # << >>, stack[Len(stack)].kind # "array",
              Start # 0, Token # EOF
       PROVE  TypeInv'
  <2> DEFINE f == stack[Len(stack)]
             w == [kind |-> f.kind, keys |-> Append(f.keys, f.key),
                   values |-> Append(f.values, v), key |-> << >>]
  <2>1. /\ stack' = [stack EXCEPT ![Len(stack)] = w] /\ pc' = f.kind /\ pos' = Start + 1
        /\ doc' = doc /\ input' = input /\ format' = format
    BY <1>18 DEF AddEntry, Last
  <2>2. Len(stack) \in 1 .. Len(stack)
    BY <1>18 DEF IInv, FramesRight
  <2>3. f.kind \in {"array", "dict", "strings"}
    BY <2>2 DEF IInv, FramesRight
  <2>4. Within'
    BY <1>0, <1>18, <2>1, <2>3, StartWithin DEF Within
  <2>5. Paired(f) /\ f.kind # "array"
    BY <1>18, <2>2 DEF TypeInv
  <2> HIDE DEF f
  <2>6. Paired(w)
    BY <2>5, EntryAdded
  <2> HIDE DEF w
  <2> QED BY <1>18, <2>1, <2>4, <2>6, ChangedTop
<1>19. CASE KeyAlone \/ EndEntry
  <2>1. stack # << >> /\ stack[Len(stack)].kind # "array"
    BY <1>19 DEF KeyAlone, EndEntry, ReturnedToDictionary, Last, IInv, TopRight
  <2>2. Token # EOF
    BY <1>19 DEF KeyAlone, EndEntry, Semicolon, EOF
  <2> QED BY <1>18, <1>19, <2>1, <2>2 DEF KeyAlone, EndEntry, ReturnedToDictionary
<1>20. CASE TryStrings
  <2> DEFINE f == Frame("strings")
  <2>1. stack' = <<f>> /\ pc' = "strings" /\ pos' = 1 /\ doc' = doc /\ input' = input /\ format' = format
    BY <1>20 DEF TryStrings
  <2>2. Paired(f)
    BY NewFrame
  <2> HIDE DEF f
  <2>3. Len(<<f>>) = 1 /\ <<f>>[1] = f
    OBVIOUS
  <2>4. Within'
    BY <1>0, <2>1 DEF Within
  <2> QED BY <1>0, <2>1, <2>2, <2>3, <2>4 DEF TypeInv
<1>21. CASE UNCHANGED vars
  BY <1>21 DEF vars, TypeInv, Within
<1> QED BY <1>1, <1>2, <1>3, <1>5, <1>6, <1>8, <1>9, <1>10, <1>12, <1>14, <1>15, <1>16, <1>17, <1>19, <1>20, <1>21
    DEF Next, UnitTruncated, CommentUnclosed, NestingExceeded, ArrayEOF, DictionaryEOF,
        AssignMissing, SemicolonMissing, Garbage

\* The position never leaves the document, not even by the characters a scanner looks ahead
\* or skips over, and a dictionary never has a key without its value.
THEOREM TypeCorrect == Spec => []TypeOK
<1>1. IInv /\ TypeInv /\ [Next]_vars => TypeInv'
  BY TypeNext
<1>2. IInv /\ TypeInv => TypeOK
  <2> SUFFICES ASSUME IInv, TypeInv PROVE TypeOK
    OBVIOUS
  <2>1. DOMAIN stack = 1 .. Len(stack)
    BY DEF IInv, FramesRight
  <2>2. \A i \in DOMAIN stack : stack[i].kind \in {"array", "dict", "strings"}
    BY <2>1 DEF IInv, FramesRight
  <2>3. \A i \in DOMAIN stack : stack[i].kind # "array" => Len(stack[i].keys) = Len(stack[i].values)
    BY <2>1 DEF TypeInv, Paired
  <2> QED BY <2>2, <2>3 DEF TypeInv, Within, TypeOK
<1> QED BY <1>1, <1>2, TypeInit, Inductive, PTL DEF Spec

--------------------------------------------------------------------------------
\* The format: what is untyped, and why nothing but the GNUStep step brings in a typed value.
\* A set of values without a typed one that holds whatever its values hold.
Closed(S) == \A w \in S : ~IsTyped(w) /\ Members(w) \subseteq S
Untyped(v) == \E S : v \in S /\ Closed(S)

\* held is the function it is defined to be.
LEMMA HeldIs ==
  ASSUME NEW v
  PROVE  /\ Held(v)[0] = {v}
         /\ \A n \in 1 .. MaxNesting + 1 :
              Held(v)[n] = UNION {Members(w) : w \in Held(v)[n - 1]}
<1> DEFINE N == MaxNesting + 1
           Step(L, n) == IF n = 0 THEN {v} ELSE UNION {Members(w) : w \in L[n - 1]}
           Levels(L, m) == L = [n \in 0 .. m |-> Step(L, n)]
           Without == {m \in Nat : ~ \E L : Levels(L, m)}
<1>1. N \in Nat
  BY NestingAssumption
<1>2. Without = {}
  <2> SUFFICES ASSUME Without # {} PROVE FALSE
    OBVIOUS
  <2>1. PICK m \in Without : \A k \in Without : m <= k
    <3>1. Without \in SUBSET Nat
      OBVIOUS
    <3> HIDE DEF Without
    <3> QED BY <3>1, LeastNatural
  <2>2. PICK L : m = 0 \/ Levels(L, m - 1)
    <3>1. m \in Nat
      OBVIOUS
    <3>2. m = 0 \/ (m - 1 \in Nat /\ ~(m <= m - 1))
      BY ONLY <3>1
    <3>3. m = 0 \/ m - 1 \notin Without
      <4> HIDE DEF Without
      <4> QED BY <3>2, <2>1
    <3>4. m = 0 \/ \E L : Levels(L, m - 1)
      <4> HIDE DEF Levels
      <4> QED BY <3>2, <3>3
    <3> HIDE DEF Levels
    <3> QED BY <3>4
  <2> DEFINE K == [n \in 0 .. m |-> Step(L, n)]
  <2>3. ASSUME NEW n \in 0 .. m PROVE Step(K, n) = Step(L, n)
    <3>1. CASE n = 0
      BY <3>1
    <3>2. CASE n # 0
      <4>0. m \in Nat
        OBVIOUS
      <4>1. n - 1 \in 0 .. m /\ n - 1 \in 0 .. (m - 1) /\ m # 0
        BY <3>2, <4>0
      <4>2. L[n - 1] = Step(L, n - 1)
        BY <2>2, <4>1
      <4>3. K[n - 1] = Step(L, n - 1)
        BY <4>1
      <4>4. K[n - 1] = L[n - 1]
        BY <4>2, <4>3
      <4> HIDE DEF K
      <4> QED BY <3>2, <4>4
    <3> QED BY <3>1, <3>2
  <2>4. Levels(K, m)
    BY <2>3
  <2> QED BY <2>1, <2>4
<1> DEFINE L == CHOOSE L : Levels(L, N)
<1>3. Levels(L, N)
  BY <1>1, <1>2
<1>4. Held(v) = L
  BY DEF Held
<1> HIDE DEF L
<1>5. \A n \in 0 .. N : L[n] = Step(L, n)
  BY <1>3
<1>6. 0 \in 0 .. N /\ \A n \in 1 .. N : n \in 0 .. N /\ n # 0
  BY <1>1
<1> QED BY <1>4, <1>5, <1>6

\* An untyped value holds no typed one, however far in.
LEMMA NothingTypedInside ==
  ASSUME NEW v, Untyped(v)
  PROVE  ~HasTyped(v)
<1>1. PICK S : v \in S /\ Closed(S)
  BY DEF Untyped
<1> DEFINE N == MaxNesting + 1
           Outside == {n \in 0 .. N : ~(Held(v)[n] \subseteq S)}
<1>2. N \in Nat
  BY NestingAssumption
<1>3. Outside = {}
  <2> SUFFICES ASSUME Outside # {} PROVE FALSE
    OBVIOUS
  <2>1. Outside \in SUBSET Nat
    BY <1>2
  <2>2. PICK n \in Outside : \A m \in Outside : n <= m
    <3> HIDE DEF Outside
    <3> QED BY <2>1, LeastNatural
  <2>3. n \in 0 .. N /\ ~(Held(v)[n] \subseteq S)
    OBVIOUS
  <2>4. n # 0
    BY <1>1, <2>3, HeldIs
  <2>5. n \in 1 .. N /\ n - 1 \in 0 .. N /\ ~(n <= n - 1)
    BY <1>2, <2>3, <2>4
  <2>6. Held(v)[n - 1] \subseteq S
    BY <2>2, <2>5
  <2>7. Held(v)[n] = UNION {Members(w) : w \in Held(v)[n - 1]}
    BY <2>5, HeldIs
  <2>8. UNION {Members(w) : w \in Held(v)[n - 1]} \subseteq S
    BY <1>1, <2>6 DEF Closed
  <2> QED BY <2>3, <2>7, <2>8
<1>4. ASSUME NEW n \in 0 .. N, NEW w \in Held(v)[n] PROVE ~IsTyped(w)
  <2>1. w \in S
    BY <1>3, <1>4
  <2> QED BY <1>1, <2>1 DEF Closed
<1> QED BY <1>4 DEF HasTyped

\* A string, base64 or hexadecimal data and a UID hold nothing.
LEMMA UntypedLeaf ==
  ASSUME NEW x
  PROVE  Untyped(Text(x)) /\ Untyped(Data(x)) /\ Untyped(UID(x))
<1>1. ASSUME NEW v, ~IsTyped(v), Members(v) = {} PROVE Untyped(v)
  <2>1. v \in {v} /\ Closed({v})
    BY <1>1 DEF Closed
  <2> QED BY <2>1 DEF Untyped
<1>2. /\ ~IsTyped(Text(x)) /\ Members(Text(x)) = {}
      /\ ~IsTyped(Data(x)) /\ Members(Data(x)) = {}
      /\ ~IsTyped(UID(x)) /\ Members(UID(x)) = {}
  BY DEF IsTyped, Members, Is, Text, Data, UID
<1> QED BY <1>1, <1>2

\* A collection is as untyped as what it holds.
LEMMA UntypedCollection ==
  ASSUME NEW v, ~IsTyped(v), \A w \in Members(v) : Untyped(w)
  PROVE  Untyped(v)
<1> DEFINE Around(w) == CHOOSE S : w \in S /\ Closed(S)
           S == {v} \cup UNION {Around(w) : w \in Members(v)}
<1>1. \A w \in Members(v) : w \in Around(w) /\ Closed(Around(w))
  BY DEF Untyped
<1> HIDE DEF Around
<1>2. Members(v) \subseteq S
  BY <1>1
<1>3. ASSUME NEW w \in Members(v), NEW u \in Around(w) PROVE ~IsTyped(u) /\ Members(u) \subseteq S
  <2>1. ~IsTyped(u) /\ Members(u) \subseteq Around(w)
    BY <1>1, <1>3 DEF Closed
  <2> QED BY <2>1
<1>4. Closed(S)
  <2> SUFFICES ASSUME NEW u \in S PROVE ~IsTyped(u) /\ Members(u) \subseteq S
    BY DEF Closed
  <2>1. CASE u = v
    BY <1>2, <2>1
  <2>2. CASE u # v
    BY <1>3, <2>2
  <2> QED BY <2>1, <2>2
<1> HIDE DEF S
<1>5. v \in S
  BY DEF S
<1> QED BY <1>4, <1>5 DEF Untyped

\* The frames of the stack, while no typed value was met.
Plain(f) == f.values \in Seq(Range(f.values)) /\ \A v \in Range(f.values) : Untyped(v)

\* What is made of a frame of untyped values is untyped, a UID put for a dictionary included.
LEMMA UntypedMade ==
  ASSUME NEW f, Plain(f), NEW lax
  PROVE  Untyped(Array(f.values)) /\ Untyped(MaybeUID(f.keys, f.values, lax))
<1>1. Untyped(Array(f.values))
  <2>1. ~IsTyped(Array(f.values)) /\ Members(Array(f.values)) = Range(f.values)
    BY DEF IsTyped, Members, Is, Array
  <2> QED BY <2>1, UntypedCollection DEF Plain
<1>2. Untyped(Dictionary(f.keys, f.values))
  <2> DEFINE d == Dictionary(f.keys, f.values)
  <2>1. DOMAIN d = {"keys", "values"} /\ d.values = f.values
    BY DEF Dictionary
  <2> HIDE DEF d
  <2>2. ~IsTyped(d) /\ Members(d) = Range(f.values)
    BY <2>1 DEF IsTyped, Members, Is
  <2>3. Untyped(d)
    BY <2>2, UntypedCollection DEF Plain
  <2> QED BY <2>3 DEF d
<1> DEFINE k == f.keys
           w == f.values
           m == MaybeUID(k, w, lax)
<1>3. \/ m = Dictionary(k, w)
      \/ m = UID(w[1].number % 2 ^ Bits)
      \/ m = UID(IntegerOf(w[1].string))
  BY DEF MaybeUID
<1>4. Untyped(m)
  <2> HIDE DEF m
  <2> QED BY <1>2, <1>3, UntypedLeaf
<1> QED BY <1>1, <1>4

\* A new frame is plain, and stays so when an untyped value is added.
LEMMA PlainFrames ==
  /\ \A kind : Plain(Frame(kind))
  /\ \A f, v, kind, keys, key : Plain(f) /\ Untyped(v) =>
       Plain([kind |-> kind, keys |-> keys, values |-> Append(f.values, v), key |-> key])
<1>1. ASSUME NEW kind PROVE Plain(Frame(kind))
  <2>1. Frame(kind).values = << >> /\ << >> \in Seq(Range(<< >>)) /\ Range(<< >>) = {}
    BY DEF Frame, Range
  <2> QED BY <2>1 DEF Plain
<1>2. ASSUME NEW f, NEW v, NEW kind, NEW keys, NEW key, Plain(f), Untyped(v)
      PROVE  Plain([kind |-> kind, keys |-> keys, values |-> Append(f.values, v), key |-> key])
  <2> DEFINE R == Range(f.values)
             w == Append(f.values, v)
  <2>1. f.values \in Seq(R)
    BY <1>2 DEF Plain
  <2>2. Range(w) = R \cup {v}
    <3>1. \A S : f.values \in Seq(S) => Range(Append(f.values, v)) = Range(f.values) \cup {v}
      BY RangeOfAppend
    <3> QED BY <2>1, <3>1
  <2>3. w \in Seq(R \cup {v})
    <3> HIDE DEF R
    <3> QED BY <2>1, Pushed
  <2>4. w \in Seq(Range(w)) /\ \A u \in Range(w) : Untyped(u)
    BY <1>2, <2>2, <2>3 DEF Plain
  <2> DEFINE g == [kind |-> kind, keys |-> keys, values |-> w, key |-> key]
  <2>5. g.values = w
    OBVIOUS
  <2> HIDE DEF w, g
  <2>6. Plain(g)
    BY <2>4, <2>5 DEF Plain
  <2> QED BY <2>6 DEF g, w
<1> QED BY <1>1, <1>2

\* Until a typed value or base64 data is met, there is none; when one is, it is there.
Announced(text) ==
  \E i \in 1 .. Len(text) - 1 : text[i] = LessThan /\ text[i + 1] \in {Star, OpenBracket}
FormatInv ==
  /\ pc = "read" => format = "OpenStep"
  /\ format = "OpenStep" => Untyped(ret) /\ \A i \in 1 .. Len(stack) : Plain(stack[i])
  /\ format = "GNUStep" => Announced(input)

\* The frame on top is plain with the rest of the stack.
LEMMA PlainTop ==
  ASSUME IInv, FormatInv, format = "OpenStep", stack # << >>
  PROVE  Plain(stack[Len(stack)]) /\ Plain(Top) /\ Top = stack[Len(stack)] /\ Len(stack) \in 1 .. Len(stack)
<1>1. stack \in Seq(Range(stack))
  BY DEF IInv, FramesRight
<1>2. Len(stack) \in 1 .. Len(stack)
  BY <1>1
<1> QED BY <1>2 DEF FormatInv, Top, Last

\* The scanners but GNUStep's return untyped values.
LEMMA UntypedScanned ==
  ASSUME NEW s, NEW p
  PROVE  /\ Quoted(s, p).ok => Untyped(Quoted(s, p).value)
         /\ Unquoted(s, p).ok => Untyped(Unquoted(s, p).value)
         /\ HexData(s, p).ok => Untyped(HexData(s, p).value)
<1>1. ASSUME NEW v, NEW n PROVE Scanned(v, n).ok /\ Scanned(v, n).value = v
  BY DEF Scanned
<1>2. ~Panic.ok
  BY DEF Panic
<1>3. Quoted(s, p) = Panic \/ \E x, n : Quoted(s, p) = Scanned(Text(x), n)
  BY DEF Quoted
<1>4. Unquoted(s, p) = Panic \/ \E x, n : Unquoted(s, p) = Scanned(Text(x), n)
  BY DEF Unquoted
<1>5. HexData(s, p) = Panic \/ \E x, n : HexData(s, p) = Scanned(Data(x), n)
  BY DEF HexData
<1> QED BY <1>1, <1>2, <1>3, <1>4, <1>5, UntypedLeaf

\* The steps that read no value and leave the frames alone.
LEMMA FormatKept ==
  ASSUME FormatInv, format' = format, stack' = stack, input' = input, pc' # "read",
         format = "OpenStep" => Untyped(ret')
  PROVE  FormatInv'
BY DEF FormatInv

\* The steps that replace the stack by one of plain frames.
LEMMA FormatFrames ==
  ASSUME IInv, FormatInv, format' = format, input' = input, pc' # "read",
         format = "OpenStep" => Untyped(ret'),
         NEW new, stack' = new,
         format = "OpenStep" => \A i \in 1 .. Len(new) : Plain(new[i])
  PROVE  FormatInv'
BY DEF FormatInv

\* The steps that change the frame on top.
LEMMA FormatTop ==
  ASSUME IInv, FormatInv, format' = format, input' = input, pc' # "read", ret' = ret,
         stack # << >>, NEW v, stack' = [stack EXCEPT ![Len(stack)] = v],
         format = "OpenStep" => Plain(v)
  PROVE  FormatInv'
<1> DEFINE n == Len(stack)
           new == [stack EXCEPT ![Len(stack)] = v]
           S == Range(stack) \cup {v}
<1>1. stack \in Seq(S) /\ v \in S
  BY DEF IInv, FramesRight
<1> HIDE DEF S
<1>2. /\ n \in Nat \ {0} /\ Len(new) = n
      /\ \A i \in 1 .. n - 1 : new[i] = stack[i]
      /\ new[n] = v
  BY <1>1, TopChanged
<1> HIDE DEF new
<1>3. format = "OpenStep" => \A i \in 1 .. Len(new) : Plain(new[i])
  BY <1>2 DEF FormatInv
<1>4. format = "OpenStep" => Untyped(ret')
  BY DEF FormatInv
<1>5. stack' = new
  BY DEF new
<1> QED BY <1>3, <1>4, <1>5, FormatFrames

\* Every step of the parser keeps FormatInv.
LEMMA FormatNext ==
  ASSUME IInv, TypeInv, FormatInv, [Next]_vars
  PROVE  FormatInv'
<1> USE DEF Reading, Goto, Return, Value
<1>0. /\ input \in Seq(Nat) /\ Len(input) \in Nat /\ stack \in Seq(Range(stack))
      /\ format \in {"OpenStep", "GNUStep"}
      /\ format = "OpenStep" => Untyped(ret)
  BY DEF TypeInv, Within, IInv, FramesRight, FormatInv
<1>1. ASSUME Fail PROVE FormatInv'
  BY <1>0, <1>1, FormatKept DEF Fail
<1>2. CASE ReaderFails \/ Finish \/ ArrayComma \/ ArrayElement \/ Assign
  BY <1>0, <1>2, FormatKept DEF ReaderFails, Finish, ArrayComma, ArrayElement, Assign
<1>3. CASE Read
  <2>1. pc' = "value" /\ stack' = stack /\ format' = format /\ ret' = ret /\ format = "OpenStep"
    BY <1>3 DEF Read, FormatInv
  <2> QED BY <2>1 DEF FormatInv
<1>4. CASE ValueAtEOF
  <2>1. /\ stack' = stack /\ format' = format /\ input' = input /\ pc' = "return"
        /\ ret' = Dictionary(<< >>, << >>)
    BY <1>4 DEF ValueAtEOF
  <2>2. Untyped(Dictionary(<< >>, << >>))
    <3> DEFINE d == Dictionary(<< >>, << >>)
    <3>1. DOMAIN d = {"keys", "values"} /\ d.values = << >>
      BY DEF Dictionary
    <3> HIDE DEF d
    <3>2. ~IsTyped(d) /\ Members(d) = {}
      BY <3>1 DEF IsTyped, Members, Is, Range
    <3>3. Untyped(d)
      BY <3>2, UntypedCollection
    <3> QED BY <3>3 DEF d
  <2> QED BY <2>1, <2>2, FormatKept
<1>5. CASE GNUStep
  <2>1. /\ Token = LessThan /\ Second \in {Star, OpenBracket} /\ format' = "GNUStep" /\ input' = input
        /\ pc' # "read" /\ stack' = stack
    BY <1>5 DEF GNUStep, Scan
  <2>2. Token # EOF /\ Second # EOF
    BY <2>1 DEF LessThan, Star, OpenBracket, EOF
  <2>3. /\ Start \in 1 .. Len(input) /\ Start + 1 \in 1 .. Len(input)
        /\ input[Start] = LessThan /\ input[Start + 1] \in {Star, OpenBracket}
    <3> HIDE DEF Start
    <3> QED BY <1>0, <2>1, <2>2 DEF Token, Second, At
  <2>4. Announced(input)
    <3>1. Start \in 1 .. Len(input) - 1
      BY <1>0, <2>3
    <3> QED BY <2>3, <3>1 DEF Announced
  <2> QED BY <2>1, <2>4 DEF FormatInv
<1>6. ASSUME NEW scanned, Scan({scanned}), format' = format, scanned.ok => Untyped(scanned.value),
             pc # "read"
      PROVE  FormatInv'
  <2>1. CASE scanned.ok
    BY <1>6, <2>1, FormatKept DEF Scan
  <2>2. CASE ~scanned.ok
    BY <1>0, <1>6, <2>2, FormatKept DEF Scan
  <2> QED BY <2>1, <2>2
<1>7. CASE Hex
  <2> DEFINE scanned == HexData(input, Start + 1)
  <2>1. Scan({scanned}) /\ format' = format /\ pc # "read"
    BY <1>7 DEF Hex
  <2>2. scanned.ok => Untyped(scanned.value)
    BY UntypedScanned
  <2> HIDE DEF scanned
  <2> QED BY <1>6, <2>1, <2>2
<1>8. StringAt.ok => Untyped(StringAt.value)
  BY UntypedScanned DEF StringAt
<1>9. CASE String
  <2>1. Scan({StringAt}) /\ format' = format /\ pc # "read"
    BY <1>9 DEF String
  <2> QED BY <1>6, <1>8, <2>1
<1>10. ASSUME NEW kind \in {"array", "dict"}, Open(kind) PROVE FormatInv'
  <2>1. /\ stack' = Append(stack, Frame(kind)) /\ pc' = kind
        /\ input' = input /\ format' = format /\ ret' = ret
    BY <1>10 DEF Open
  <2> DEFINE f == Frame(kind)
             new == Append(stack, f)
  <2>2. Plain(f)
    BY PlainFrames
  <2> HIDE DEF f
  <2>3. /\ Len(stack) \in Nat /\ Len(new) = Len(stack) + 1
        /\ \A i \in 1 .. Len(stack) : new[i] = stack[i]
        /\ new[Len(stack) + 1] = f
    BY <1>0, Pushed
  <2> HIDE DEF new
  <2>4. format = "OpenStep" => \A i \in 1 .. Len(new) : Plain(new[i])
    BY <2>2, <2>3 DEF FormatInv
  <2>5. stack' = new /\ pc' # "read"
    BY <2>1 DEF new, f
  <2> QED BY <1>0, <2>1, <2>4, <2>5, FormatFrames
<1>11. CASE OpenArray \/ OpenDictionary
  BY <1>10, <1>11 DEF OpenArray, OpenDictionary
<1>12. ASSUME NEW v, Close(v), stack # << >>, format = "OpenStep" => Untyped(v) PROVE FormatInv'
  <2>1. /\ stack' = Front(stack) /\ pc' = "return" /\ input' = input /\ format' = format /\ ret' = v
    BY <1>12 DEF Close
  <2> DEFINE new == Front(stack)
  <2>2. /\ Len(stack) \in Nat \ {0} /\ Len(new) = Len(stack) - 1
        /\ \A i \in 1 .. Len(stack) - 1 : new[i] = stack[i]
    BY <1>0, <1>12, Popped
  <2> HIDE DEF new
  <2>3. format = "OpenStep" => \A i \in 1 .. Len(new) : Plain(new[i])
    BY <2>2 DEF FormatInv
  <2>4. stack' = new
    BY <2>1 DEF new
  <2> QED BY <1>12, <2>1, <2>3, <2>4, FormatFrames
<1>13. CASE ArrayClose
  <2>1. stack # << >> /\ Close(Array(Top.values))
    BY <1>13 DEF ArrayClose, IInv, TopRight
  <2>2. format = "OpenStep" => Untyped(Array(Top.values))
    BY <2>1, PlainTop, UntypedMade
  <2> QED BY <1>12, <2>1, <2>2
<1>14. ASSUME stack # << >> PROVE format = "OpenStep" => Untyped(Finished)
  BY <1>14, PlainTop, UntypedMade DEF Finished
<1>15. CASE DictionaryClose
  <2>1. stack # << >> /\ Close(Finished)
    BY <1>15 DEF DictionaryClose, IInv, TopRight
  <2> QED BY <1>12, <1>14, <2>1
<1>16. CASE AppendElement
  <2> DEFINE f == stack[Len(stack)]
             v == [kind |-> "array", keys |-> << >>, values |-> Append(f.values, ret), key |-> << >>]
  <2>1. stack # << >> /\ stack' = [stack EXCEPT ![Len(stack)] = v] /\ pc' = "array"
        /\ input' = input /\ format' = format /\ ret' = ret
    BY <1>16 DEF AppendElement, Looping
  <2>2. format = "OpenStep" => Plain(f)
    BY <2>1, PlainTop
  <2> HIDE DEF f
  <2>3. format = "OpenStep" => Plain(v)
    BY <1>0, <2>2, PlainFrames
  <2> HIDE DEF v
  <2> QED BY <2>1, <2>3, FormatTop
<1>17. CASE StringsClose
  <2>1. /\ stack' = << >> /\ pc' = "done" /\ input' = input /\ format' = format /\ ret' = Finished
        /\ stack # << >>
    BY <1>17 DEF StringsClose, IInv, TopRight
  <2>2. \A i \in 1 .. Len(<< >>) : Plain(<< >>[i])
    OBVIOUS
  <2> QED BY <1>14, <2>1, <2>2, FormatFrames
<1>18. CASE Key
  <2>1. stack # << >> /\ input' = input /\ format' = format /\ ret' = ret
    BY <1>18 DEF Key, InDictionary, IInv, TopRight
  <2> DEFINE f == stack[Len(stack)]
             v == [kind |-> f.kind, keys |-> f.keys, values |-> f.values,
                   key |-> StringAt.value.string]
  <2>2. CASE StringAt.ok
    <3>1. stack' = [stack EXCEPT ![Len(stack)] = v] /\ pc' = "assign"
      BY <1>18, <2>2 DEF Key
    <3>2. format = "OpenStep" => Plain(f)
      BY <2>1, PlainTop
    <3>3. v.values = f.values
      OBVIOUS
    <3> HIDE DEF v, f
    <3>4. format = "OpenStep" => Plain(v)
      BY <3>2, <3>3 DEF Plain
    <3> QED BY <2>1, <3>1, <3>4, FormatTop
  <2>3. CASE ~StringAt.ok
    <3>1. pc' = "error" /\ stack' = stack
      BY <1>18, <2>3 DEF Key
    <3> QED BY <1>0, <2>1, <3>1, FormatKept
  <2> QED BY <2>2, <2>3
<1>19. ASSUME NEW x, AddEntry(x), stack # << >>, format = "OpenStep" => Untyped(x) PROVE FormatInv'
  <2> DEFINE f == stack[Len(stack)]
             keys == Append(f.keys, f.key)
             v == [kind |-> f.kind, keys |-> keys, values |-> Append(f.values, x), key |-> << >>]
  <2>1. /\ stack' = [stack EXCEPT ![Len(stack)] = v] /\ pc' = f.kind
        /\ input' = input /\ format' = format /\ ret' = ret
    BY <1>19 DEF AddEntry, Top, Last
  <2>2. format = "OpenStep" => Plain(f)
    BY <1>19, PlainTop
  <2>3. f.kind # "read"
    BY <1>0, <1>19 DEF IInv, FramesRight
  <2> HIDE DEF f, keys
  <2>4. format = "OpenStep" => Plain(v)
    BY <1>19, <2>2, PlainFrames
  <2> HIDE DEF v
  <2> QED BY <1>19, <2>1, <2>3, <2>4, FormatTop
<1>20. CASE KeyAlone
  <2>1. stack # << >> /\ AddEntry(Text(Top.key))
    BY <1>20 DEF KeyAlone, IInv, TopRight
  <2> QED BY <1>19, <2>1, UntypedLeaf
<1>21. CASE EndEntry
  <2>1. stack # << >> /\ AddEntry(ret)
    BY <1>21 DEF EndEntry, ReturnedToDictionary
  <2> QED BY <1>0, <1>19, <2>1
<1>22. CASE TryStrings
  <2> DEFINE f == Frame("strings")
  <2>1. stack' = <<f>> /\ pc' = "strings" /\ input' = input /\ format' = format /\ ret' = ret
    BY <1>22 DEF TryStrings
  <2>2. Plain(f)
    BY PlainFrames
  <2> HIDE DEF f
  <2>3. \A i \in 1 .. Len(<<f>>) : Plain(<<f>>[i])
    BY <2>2
  <2> QED BY <1>0, <2>1, <2>3, FormatFrames
<1>23. CASE UNCHANGED vars
  BY <1>23 DEF vars, FormatInv
<1> QED BY <1>1, <1>2, <1>3, <1>4, <1>5, <1>7, <1>9, <1>11, <1>13, <1>15, <1>16, <1>17, <1>18, <1>20, <1>21,
           <1>22, <1>23
    DEF Next, UnitTruncated, CommentUnclosed, NestingExceeded, ArrayEOF, DictionaryEOF,
        AssignMissing, SemicolonMissing, Garbage

\* For any document and in either attempt of the parser (parsePlistValue sets p.format): the
\* format is GNUStep when the result has a typed value, however deep, and it is GNUStep only if
\* the document has <* or <[ in it.
THEOREM FormatRight == Spec => []FormatTold
<1>1. Init => FormatInv
  <2> SUFFICES ASSUME Init PROVE FormatInv
    OBVIOUS
  <2>1. format = "OpenStep" /\ ret = Text(<< >>) /\ Len(stack) = 0
    BY DEF Init, AtStart
  <2> QED BY <2>1, UntypedLeaf DEF FormatInv
<1>2. IInv /\ TypeInv /\ FormatInv /\ [Next]_vars => FormatInv'
  BY FormatNext
<1>3. IInv /\ TypeInv /\ FormatInv => FormatTold
  <2> SUFFICES ASSUME TypeInv, FormatInv PROVE FormatTold
    OBVIOUS
  <2>1. format \in {"OpenStep", "GNUStep"}
    BY DEF TypeInv, Within
  <2>2. HasTyped(ret) => format # "OpenStep"
    BY NothingTypedInside DEF FormatInv
  <2> QED BY <2>1, <2>2 DEF FormatInv, FormatTold, Announced
<1>4. IInv /\ TypeInv /\ [Next]_vars => TypeInv'
  BY TypeNext
<1> QED BY <1>1, <1>2, <1>3, <1>4, TypeInit, Inductive, PTL DEF Spec

--------------------------------------------------------------------------------
\* A quoted string is closed behind its opening quote.
LEMMA ClosingQuoteAhead ==
  ASSUME NEW s \in Seq(Nat), NEW p \in Nat
  PROVE  ClosingQuote(s, p) \in Nat /\ ClosingQuote(s, p) >= p
<1> DEFINE set == {Quote, Backslash}
           r(q) == FirstIn(s, q, set)
           go == {q \in Nat : At(s, r(q)) = Backslash /\ r(q) < Len(s)}
           next == [q \in Nat |-> r(q) + 2]
           val == [q \in Nat |-> r(q)]
           Closes(f) == f = [q \in Nat |->
             LET stop == FirstIn(s, q, {Quote, Backslash})
             IN  IF At(s, stop) = Backslash /\ stop < Len(s) THEN f[stop + 2] ELSE stop]
           close == CHOOSE f : Closes(f)
           N == Len(s)
<1>0. N \in Nat
  OBVIOUS
<1>1. \A q \in Nat : r(q) \in Nat /\ r(q) >= q
  BY FirstInBounds
<1>2. \A f : Closes(f) <=> Forward(f, go, next, val)
  <2> TAKE f
  <2>1. \A q \in Nat : (IF At(s, r(q)) = Backslash /\ r(q) < Len(s) THEN f[r(q) + 2] ELSE r(q))
                       = (IF q \in go THEN f[next[q]] ELSE val[q])
    OBVIOUS
  <2> QED BY <2>1 DEF Forward
<1> HIDE DEF Closes, r
<1>3. /\ \A q \in go : next[q] \in Nat /\ next[q] > q
      /\ go \in SUBSET (0 .. N)
  <2>1. ASSUME NEW q \in go PROVE q \in 0 .. N /\ next[q] \in Nat /\ next[q] > q
    <3>1. q \in Nat /\ r(q) < N /\ next[q] = r(q) + 2
      OBVIOUS
    <3> HIDE DEF N, next, go
    <3>2. r(q) \in Nat /\ r(q) >= q
      BY <1>1, <3>1
    <3> QED BY ONLY <1>0, <3>1, <3>2
  <2> HIDE DEF N, next, go
  <2> QED BY <2>1
<1>4. \A q \in Nat : val[q] = r(q)
  OBVIOUS
<1>5. ClosingQuote(s, p) = close[p]
  BY DEF ClosingQuote, Closes
<1> HIDE DEF go, next, val, N
<1>6. Forward(close, go, next, val)
  <2>1. \E f : Forward(f, go, next, val)
    BY ONLY <1>0, <1>3, ForwardDefined
  <2>2. \E f : Closes(f)
    BY <1>2, <2>1
  <2>3. Closes(close)
    BY <2>2
  <2> QED BY <1>2, <2>3
<1> HIDE DEF close
<1>7. PICK x \in Nat : Ends(close, go, next, val, p, x)
  BY ONLY <1>0, <1>3, <1>6, p \in Nat, ForwardEnds
<1>8. close[p] = r(x) /\ x >= p
  BY <1>4, <1>7 DEF Ends
<1> QED BY <1>1, <1>5, <1>8

\* A token ends behind its beginning, and in the document.
LEMMA TokenAhead ==
  ASSUME NEW s \in Seq(Nat), NEW p \in Nat, TokenEnd(s, p) # 0
  PROVE  TokenEnd(s, p) \in 1 .. Len(s) + 1 /\ TokenEnd(s, p) > p
<1>1. ASSUME NEW v, NEW n PROVE Scanned(v, n).ok /\ Scanned(v, n).next = n
  BY DEF Scanned
<1>2. ~Panic.ok
  BY DEF Panic
<1>3. ASSUME NEW q \in Nat, NEW c
      PROVE  FirstIn(s, q, {c}) \in Nat /\ FirstIn(s, q, {c}) >= q
  BY FirstInBounds
<1> DEFINE first == At(s, p)
           second == At(s, p + 1)
           scanned ==
             CASE first = Quote -> Quoted(s, p + 1)
               [] first = LessThan /\ second = Star -> GNUStepValue(s, p + 2)
               [] first = LessThan /\ second = OpenBracket -> Base64(s, p + 2)
               [] first = LessThan /\ second \notin {Star, OpenBracket} -> HexData(s, p + 1)
               [] OTHER -> Unquoted(s, p)
           single == first \in Opening \cup Closing \cup {Comma, Equals, Semicolon}
<1>11. TokenEnd(s, p) = CASE first = EOF -> 0 [] single -> p + 1
                          [] OTHER -> IF scanned.ok THEN scanned.next ELSE 0
  BY DEF TokenEnd
<1>4. first # EOF
  <2>1. EOF \notin Opening \cup Closing \cup {Comma, Equals, Semicolon}
    BY DEF EOF, Opening, Closing, OpenParen, OpenBrace, CloseParen, CloseBrace, Comma, Equals, Semicolon
  <2> HIDE DEF scanned
  <2> QED BY <1>11, <2>1
<1> HIDE DEF first, second, scanned, single
<1>5. p \in 1 .. Len(s) /\ p + 1 \in Nat /\ p + 2 \in Nat /\ Len(s) \in Nat
  BY <1>4 DEF At, first
<1>6. Quoted(s, p + 1).ok => Quoted(s, p + 1).next > p
  <2> DEFINE close == ClosingQuote(s, p + 1)
  <2>1. close \in Nat /\ close >= p + 1
    BY <1>5, ClosingQuoteAhead
  <2>2. Quoted(s, p + 1) = IF At(s, close) = Quote
                       THEN Scanned(Text(Unescaped(s, p + 1, close - 1)), close + 1) ELSE Panic
    BY DEF Quoted
  <2> HIDE DEF close
  <2>3. CASE At(s, close) = Quote
    BY <1>1, <2>1, <2>2, <2>3
  <2> QED BY <1>2, <2>2, <2>3
<1>7. HexData(s, p + 1).ok => HexData(s, p + 1).next > p
  <2> DEFINE stop == FirstIn(s, p + 1, {GreaterThan})
             digits == SelectSeq(SubSeq(s, p + 1, stop - 1), LAMBDA c : c \notin HexBlank)
             bytes == [i \in 1 .. Len(digits) \div 2 |-> ValueOf(SubSeq(digits, 2 * i - 1, 2 * i), 16)]
             bad == \/ At(s, stop) = EOF \/ Len(digits) % 2 = 1
                    \/ \E i \in DOMAIN digits : ~IsDigit(digits[i], 16)
  <2>1. HexData(s, p + 1) = IF bad THEN Panic ELSE Scanned(Data(bytes), stop + 1)
    BY DEF HexData
  <2>2. stop \in Nat /\ stop >= p + 1
    BY <1>3, <1>5
  <2> HIDE DEF stop, digits, bytes, bad
  <2>3. CASE ~bad
    BY <1>1, <2>1, <2>2, <2>3
  <2> QED BY <1>2, <2>1, <2>3
<1>8. Base64(s, p + 2).ok => Base64(s, p + 2).next > p
  <2> DEFINE stop == FirstIn(s, p + 2, {CloseBracket})
             t == SelectSeq(SubSeq(s, p + 2, stop - 1), LAMBDA c : Sextet(c) < 64)
             good == At(s, stop) = CloseBracket /\ At(s, stop + 1) = GreaterThan /\ IsBase64(t)
  <2>1. Base64(s, p + 2) = IF good THEN Scanned(Data(Base64Bytes(t)), stop + 2) ELSE Panic
    BY DEF Base64
  <2>2. stop \in Nat /\ stop >= p + 2
    BY <1>3, <1>5
  <2> HIDE DEF stop, t, good
  <2>3. CASE good
    BY <1>1, <2>1, <2>2, <2>3
  <2> QED BY <1>2, <2>1, <2>3
<1>9. GNUStepValue(s, p + 2).ok => GNUStepValue(s, p + 2).next > p
  <2> DEFINE n == p + 2
             start == IF At(s, n + 1) = Quote THEN n + 2 ELSE n + 1
             stop == FirstIn(s, start, {GreaterThan})
             inside == SubSeq(s, start, stop - 1)
             t == IF inside # << >> /\ Last(inside) = Quote THEN Front(inside) ELSE inside
             cut == At(s, stop) = EOF \/ t = << >>
             integer == At(s, n) = 73 /\ IsInteger(t)
             real == At(s, n) = 82 /\ t \in RealTexts
             boolean == At(s, n) = 66
             date == At(s, n) = 68 /\ t \in DateTexts
             read == CASE integer -> Scanned(Number(IntegerOf(t)), stop + 1)
                       [] real -> Scanned(Real(t), stop + 1)
                       [] boolean -> Scanned(Boolean(t[1] = 89), stop + 1)
                       [] date -> Scanned(Date(t), stop + 1)
                       [] OTHER -> Panic
  <2>0. n \in Nat /\ n > p
    BY <1>5
  <2> HIDE DEF n
  <2>1. GNUStepValue(s, n) = IF cut THEN Panic ELSE read
    BY DEF GNUStepValue
  <2>2. stop \in Nat /\ stop >= n + 1
    <3>1. start \in Nat /\ start >= n + 1
      BY <2>0
    <3> HIDE DEF start
    <3>2. FirstIn(s, start, {GreaterThan}) \in Nat /\ FirstIn(s, start, {GreaterThan}) >= start
      BY <3>1, <1>3
    <3> QED BY <2>0, <3>1, <3>2
  <2>3. read = Panic \/ \E v : read = Scanned(v, stop + 1)
    <3> HIDE DEF integer, real, boolean, date, stop, t
    <3> QED OBVIOUS
  <2> HIDE DEF cut, read, stop
  <2>4. CASE GNUStepValue(s, n) = Panic
    BY <1>2, <2>4 DEF n
  <2>5. CASE \E v : GNUStepValue(s, n) = Scanned(v, stop + 1)
    <3>1. GNUStepValue(s, n).next = stop + 1
      BY <1>1, <2>5
    <3>2. GNUStepValue(s, n).next > p
      BY <1>5, <2>0, <2>2, <3>1
    <3> QED BY <3>2 DEF n
  <2> QED BY <2>1, <2>3, <2>4, <2>5
<1>10. Unquoted(s, p).ok => Unquoted(s, p).next > p
  <2> DEFINE stop == FirstIn(s, p, GSQuotable)
  <2>1. stop \in Nat /\ stop >= p
    BY FirstInBounds
  <2>2. Unquoted(s, p) = IF stop = p THEN Panic ELSE Scanned(Text(SubSeq(s, p, stop - 1)), stop)
    BY DEF Unquoted
  <2> HIDE DEF stop
  <2>3. CASE stop # p
    BY <1>1, <2>1, <2>2, <2>3
  <2> QED BY <1>2, <2>2, <2>3
<1>12. scanned.ok => scanned.next \in 1 .. Len(s) + 1 /\ scanned.next > p
  <2> DEFINE fits(x) == x.ok => x.next \in 1 .. Len(s) + 1 /\ x.next > p
  <2>0. Unquoted(s, p).ok => Unquoted(s, p).next \in 1 .. Len(s) + 1
    BY <1>5, UnquotedStops
  <2>1. /\ fits(Quoted(s, p + 1)) /\ fits(HexData(s, p + 1)) /\ fits(Base64(s, p + 2))
        /\ fits(GNUStepValue(s, p + 2)) /\ fits(Unquoted(s, p))
    BY <1>6, <1>7, <1>8, <1>9, <1>10, <2>0, ScannersStop
  <2>2. scanned \in {Quoted(s, p + 1), HexData(s, p + 1), Base64(s, p + 2),
                     GNUStepValue(s, p + 2), Unquoted(s, p)}
    BY DEF scanned
  <2>3. fits(scanned)
    <3> HIDE DEF fits
    <3> QED BY <2>1, <2>2
  <2> QED BY <2>3
<1>13. ~(first = EOF)
  BY <1>4
<1>14. CASE single
  BY <1>5, <1>11, <1>13, <1>14
<1>15. CASE ~single
  BY <1>11, <1>12, <1>13, <1>15
<1> QED BY <1>14, <1>15

\* How Unclosed goes on from one token to the next, blanks before it or not.
LEMMA UnclosedFollows ==
  ASSUME NEW s \in Seq(Nat), NEW p \in 1 .. Len(s) + 1
  PROVE  LET q == AfterBlank(s, p)
             e == TokenEnd(s, q)
         IN  /\ Unclosed(s, p) \in Int
             /\ Unclosed(s, p) = IF e = 0 THEN 0 ELSE Nests(At(s, q)) + Unclosed(s, e)
             /\ q # 0 => Unclosed(s, q) = Unclosed(s, p)
<1> DEFINE N == Len(s) + 1
           q(x) == AfterBlank(s, x)
           e(x) == TokenEnd(s, q(x))
           go == {x \in 1 .. N : e(x) # 0}
           next == [x \in 1 .. N |-> e(x)]
           w == [x \in 1 .. N |-> Nests(At(s, q(x)))]
           Opens(f) == f = [x \in 1 .. Len(s) + 1 |->
             LET start == AfterBlank(s, x)
                 end == TokenEnd(s, start)
             IN  IF end = 0 THEN 0 ELSE Nests(At(s, start)) + f[end]]
           open == CHOOSE f : Opens(f)
<1>0. N \in Nat /\ p \in 1 .. N /\ Len(s) \in Nat
  OBVIOUS
<1>1. \A f : Opens(f) <=> Summed(f, N, go, next, w)
  <2> TAKE f
  <2>1. \A x \in 1 .. N : (IF e(x) = 0 THEN 0 ELSE Nests(At(s, q(x))) + f[e(x)])
                          = (IF x \in go THEN w[x] + f[next[x]] ELSE 0)
    OBVIOUS
  <2> QED BY <2>1 DEF Summed
<1>2. ASSUME NEW x \in 1 .. N
      PROVE  q(x) = 0 \/ (q(x) \in 1 .. N /\ q(x) >= x /\ q(q(x)) = q(x))
  <2>1. x \in Nat /\ x <= Len(s) + 1 /\ x >= 1
    BY <1>0
  <2> HIDE DEF N
  <2>2. \/ AfterBlank(s, x) = 0
        \/ /\ AfterBlank(s, x) \in Nat
           /\ AfterBlank(s, x) >= x /\ AfterBlank(s, x) <= Len(s) + 1
           /\ AfterBlank(s, AfterBlank(s, x)) = AfterBlank(s, x)
    BY <2>1, AfterBlankBounds
  <2> QED BY <2>1, <2>2 DEF N
<1>3. TokenEnd(s, 0) = 0
  <2> DEFINE c == At(s, 0)
             scanned ==
               CASE c = Quote -> Quoted(s, 0 + 1)
                 [] c = LessThan /\ At(s, 0 + 1) = Star -> GNUStepValue(s, 0 + 2)
                 [] c = LessThan /\ At(s, 0 + 1) = OpenBracket -> Base64(s, 0 + 2)
                 [] c = LessThan /\ At(s, 0 + 1) \notin {Star, OpenBracket} -> HexData(s, 0 + 1)
                 [] OTHER -> Unquoted(s, 0)
             single == c \in Opening \cup Closing \cup {Comma, Equals, Semicolon}
  <2>1. c = EOF
    BY DEF At
  <2>2. TokenEnd(s, 0) = CASE c = EOF -> 0 [] single -> 0 + 1
                           [] OTHER -> IF scanned.ok THEN scanned.next ELSE 0
    BY DEF TokenEnd
  <2>3. ~single
    BY <2>1 DEF EOF, Opening, Closing, OpenParen, OpenBrace, CloseParen, CloseBrace, Comma, Equals, Semicolon
  <2> HIDE DEF c, scanned, single
  <2> QED BY <2>1, <2>2, <2>3
<1>4. ASSUME NEW x \in go PROVE next[x] \in 1 .. N /\ next[x] > x /\ w[x] \in Int
  <2>1. x \in 1 .. N /\ e(x) # 0 /\ next[x] = e(x) /\ w[x] = Nests(At(s, q(x)))
    OBVIOUS
  <2>2. q(x) \in 1 .. N /\ q(x) >= x
    BY <1>2, <1>3, <2>1
  <2>3. e(x) \in 1 .. N /\ e(x) > q(x)
    <3>1. q(x) \in Nat
      BY <1>0, <2>2
    <3> HIDE DEF q
    <3> QED BY <2>1, <3>1, TokenAhead
  <2>4. w[x] \in Int
    <3> HIDE DEF q, w
    <3> QED BY <2>1 DEF Nests
  <2> HIDE DEF e, q, N, next, w
  <2> QED BY <1>0, <2>1, <2>2, <2>3, <2>4
<1>5. go \in SUBSET (1 .. N)
  OBVIOUS
<1>6. \A x : Unclosed(s, x) = open[x]
  BY DEF Unclosed, Opens
<1>a. \A x \in 1 .. N : /\ x \in go <=> e(x) # 0
                        /\ next[x] = e(x) /\ w[x] = Nests(At(s, q(x)))
  OBVIOUS
<1> HIDE DEF N, q, e, go, next, w, Opens
<1>7. Summed(open, N, go, next, w)
  <2>1. \E f : Summed(f, N, go, next, w)
    BY ONLY <1>0, <1>4, <1>5, SummedDefined
  <2>2. \E f : Opens(f)
    BY <1>1, <2>1
  <2>3. Opens(open)
    BY <2>2
  <2> QED BY <1>1, <2>3
<1> HIDE DEF open
<1>8. \A x \in 1 .. N : open[x] \in Int
  <2> TAKE x \in 1 .. N
  <2> QED BY ONLY <1>0, <1>4, <1>5, <1>7, x \in 1 .. N, SummedInt
<1>9. \A x \in 1 .. N : open[x] = IF e(x) = 0 THEN 0 ELSE Nests(At(s, q(x))) + open[e(x)]
  BY <1>7, <1>a DEF Summed
<1>10. q(p) # 0 => open[q(p)] = open[p]
  <2> SUFFICES ASSUME q(p) # 0 PROVE open[q(p)] = open[p]
    OBVIOUS
  <2>1. q(p) \in 1 .. N /\ q(q(p)) = q(p)
    BY <1>0, <1>2
  <2>2. e(q(p)) = e(p)
    BY <2>1 DEF e
  <2> QED BY <1>0, <1>9, <2>1, <2>2
<1>11. /\ open[p] \in Int
       /\ open[p] = IF e(p) = 0 THEN 0 ELSE Nests(At(s, q(p))) + open[e(p)]
  BY <1>0, <1>8, <1>9
<1> QED BY <1>6, <1>10, <1>11 DEF q, e

\* What is left open in front of the parser, after a mark and after a scanned token.
LEMMA UnclosedHere ==
  ASSUME Within, Start # 0
  PROVE  /\ Unclosed(input, pos) \in Int /\ Unclosed(input, Start) = Unclosed(input, pos)
         /\ Token = EOF => Unclosed(input, pos) = 0
         /\ Token \in Opening => Unclosed(input, pos) = 1 + Unclosed(input, Start + 1)
         /\ Token \in Closing => Unclosed(input, pos) = Unclosed(input, Start + 1) - 1
         /\ Token \in {Comma, Equals, Semicolon} => Unclosed(input, pos) = Unclosed(input, Start + 1)
         /\ Token # EOF => Unclosed(input, Start + 1) \in Int
         /\ Token # EOF /\ StringAt.ok =>
              Unclosed(input, pos) = Unclosed(input, StringAt.next)
         /\ Token = LessThan /\ Second = Star /\ GNUStepValue(input, Start + 2).ok =>
              Unclosed(input, pos) = Unclosed(input, GNUStepValue(input, Start + 2).next)
         /\ Token = LessThan /\ Second = OpenBracket /\ Base64(input, Start + 2).ok =>
              Unclosed(input, pos) = Unclosed(input, Base64(input, Start + 2).next)
         /\ Token = LessThan /\ Second \notin {Star, OpenBracket} /\ HexData(input, Start + 1).ok =>
              Unclosed(input, pos) = Unclosed(input, HexData(input, Start + 1).next)
<1> DEFINE e == TokenEnd(input, Start)
           after == Start + 1
           two == Start + 2
           second == At(input, after)
           scanned ==
             CASE Token = Quote -> Quoted(input, after)
               [] Token = LessThan /\ second = Star -> GNUStepValue(input, two)
               [] Token = LessThan /\ second = OpenBracket -> Base64(input, two)
               [] Token = LessThan /\ second \notin {Star, OpenBracket} -> HexData(input, after)
               [] OTHER -> Unquoted(input, Start)
           Marks == Opening \cup Closing \cup {Comma, Equals, Semicolon}
<1>0. input \in Seq(Nat) /\ pos \in 1 .. Len(input) + 1
  BY DEF Within
<1>1. /\ Unclosed(input, pos) \in Int /\ Unclosed(input, Start) = Unclosed(input, pos)
      /\ Unclosed(input, pos) = IF e = 0 THEN 0 ELSE Nests(Token) + Unclosed(input, e)
  BY <1>0, UnclosedFollows DEF Start, Token
<1>2. e = CASE Token = EOF -> 0 [] Token \in Marks -> after
            [] OTHER -> IF scanned.ok THEN scanned.next ELSE 0
  BY DEF TokenEnd, Token
<1>3. /\ EOF \notin Marks /\ Quote \notin Marks \cup {EOF, LessThan}
      /\ \A c \in Opening : Nests(c) = 1
      /\ \A c \in Closing : Nests(c) = -1
      /\ \A c : c \notin Opening \cup Closing => Nests(c) = 0
      /\ {Comma, Equals, Semicolon} \cap (Opening \cup Closing) = {}
  BY DEF EOF, Opening, Closing, OpenParen, OpenBrace, CloseParen, CloseBrace, Comma, Equals,
         Semicolon, Quote, LessThan, Nests
<1>4. StringAt = IF Token = Quote THEN Quoted(input, after) ELSE Unquoted(input, Start)
  BY DEF StringAt
<1>5. Token # LessThan => scanned = StringAt
  <2> HIDE DEF after, two, second
  <2> QED BY <1>4
<1>s. /\ Token = LessThan /\ Second = Star => scanned = GNUStepValue(input, two)
      /\ Token = LessThan /\ Second = OpenBracket => scanned = Base64(input, two)
      /\ Token = LessThan /\ Second \notin {Star, OpenBracket} => scanned = HexData(input, after)
  <2>1. Second = second /\ Star # OpenBracket /\ LessThan # Quote
    BY DEF Second, Star, OpenBracket, LessThan, Quote
  <2> HIDE DEF after, two, second
  <2> QED BY <2>1
<1>6. Start \in 1 .. Len(input) + 1
  BY StartWithin
<1> HIDE DEF e, scanned
<1>7. Token = EOF => Unclosed(input, pos) = 0
  BY <1>1, <1>2, <1>3
<1>8. ASSUME Token \in Marks PROVE Unclosed(input, pos) = Nests(Token) + Unclosed(input, after)
                                   /\ Unclosed(input, after) \in Int
  <2>1. Token # EOF /\ e = after
    BY <1>2, <1>3, <1>8
  <2>2. after \in 1 .. Len(input) + 1
    BY <2>1, StartWithin
  <2>3. after # 0
    BY <1>6
  <2> HIDE DEF after
  <2>4. Unclosed(input, after) \in Int
    BY <1>0, <2>2, UnclosedFollows
  <2> QED BY <1>1, <2>1, <2>3, <2>4
<1>c. ASSUME NEW x, scanned = x, Token \notin Marks, Token # EOF, x.ok,
             x.next \in 1 .. Len(input) + 1
      PROVE  Unclosed(input, pos) = Unclosed(input, x.next)
  <2> DEFINE n == x.next
  <2>1. e = n
    BY <1>2, <1>c
  <2> HIDE DEF n
  <2>2. n \in 1 .. Len(input) + 1
    BY <1>c DEF n
  <2>3. Unclosed(input, n) \in Int /\ n # 0
    BY <1>0, <2>2, UnclosedFollows
  <2>4. Nests(Token) = 0
    BY <1>3, <1>c
  <2> QED BY <1>1, <2>1, <2>3, <2>4 DEF n
<1>9. ASSUME Token # EOF, StringAt.ok
      PROVE  Unclosed(input, pos) = Unclosed(input, StringAt.next)
  <2>1. Token \notin Marks /\ Token # LessThan
    <3>1. CASE Token = Quote
      BY <1>3, <3>1
    <3>2. CASE Token # Quote
      <4>1. FirstIn(input, Start, GSQuotable) # Start
        BY <1>4, <1>9, <3>2 DEF Unquoted, Panic
      <4>2. Token \notin GSQuotable
        <5> DEFINE set == GSQuotable
        <5> HIDE DEF set
        <5>1. input \in Seq(Nat) /\ Start \in Nat
          BY <1>0, <1>6
        <5>2. At(input, Start) \in set => FirstIn(input, Start, set) = Start
          BY <5>1, FirstInBounds
        <5> QED BY <4>1, <5>2 DEF set, Token
      <4>3. Marks \in SUBSET GSQuotable /\ LessThan \in GSQuotable
        BY DEF LessThan, Opening, Closing, OpenParen, OpenBrace, CloseParen, CloseBrace, Comma, Equals,
               Semicolon, GSQuotable
      <4> QED BY <4>2, <4>3
    <3> QED BY <3>1, <3>2
  <2>2. scanned = StringAt
    BY <1>5, <2>1
  <2>3. StringAt.next \in 1 .. Len(input) + 1
    BY <1>9, StartWithin
  <2> QED BY <1>9, <1>c, <2>1, <2>2, <2>3
<1>13. ASSUME NEW x, Token = LessThan, scanned = x, x.ok, x.next \in 1 .. Len(input) + 1
       PROVE  Unclosed(input, pos) = Unclosed(input, x.next)
  <2>1. LessThan \notin Marks /\ LessThan # EOF
    BY DEF EOF, Opening, Closing, OpenParen, OpenBrace, CloseParen, CloseBrace, Comma, Equals,
           Semicolon, LessThan
  <2> QED BY <1>13, <1>c, <2>1
<1>14. ASSUME Token = LessThan, Second = Star, GNUStepValue(input, two).ok
       PROVE  Unclosed(input, pos) = Unclosed(input, GNUStepValue(input, two).next)
  <2>1. scanned = GNUStepValue(input, two)
    BY <1>14, <1>s
  <2>2. GNUStepValue(input, two).next \in 1 .. Len(input) + 1
    BY <1>0, <1>14, ScannersStop
  <2> HIDE DEF two
  <2> QED BY <1>13, <1>14, <2>1, <2>2
<1>15. ASSUME Token = LessThan, Second = OpenBracket, Base64(input, two).ok
       PROVE  Unclosed(input, pos) = Unclosed(input, Base64(input, two).next)
  <2>1. scanned = Base64(input, two)
    BY <1>15, <1>s
  <2>2. Base64(input, two).next \in 1 .. Len(input) + 1
    BY <1>0, <1>15, ScannersStop
  <2> HIDE DEF two
  <2> QED BY <1>13, <1>15, <2>1, <2>2
<1>16. ASSUME Token = LessThan, Second \notin {Star, OpenBracket}, HexData(input, after).ok
       PROVE  Unclosed(input, pos) = Unclosed(input, HexData(input, after).next)
  <2>1. scanned = HexData(input, after)
    BY <1>16, <1>s
  <2>2. HexData(input, after).next \in 1 .. Len(input) + 1
    BY <1>0, <1>16, ScannersStop
  <2> HIDE DEF after
  <2> QED BY <1>13, <1>16, <2>1, <2>2
<1>17. ASSUME Token # EOF PROVE Unclosed(input, after) \in Int
  <2>1. after \in 1 .. Len(input) + 1
    BY <1>17, StartWithin
  <2> HIDE DEF after
  <2> QED BY <1>0, <2>1, UnclosedFollows
<1> DEFINE u == Unclosed(input, after)
           v == Unclosed(input, pos)
<1>10. Token \in Opening => v = 1 + u
  BY <1>3, <1>8
<1>11. Token \in Closing => v = u - 1
  <2>1. \A x \in Int : -1 + x = x - 1
    OBVIOUS
  <2> HIDE DEF u
  <2> QED BY <1>3, <1>8, <2>1 DEF u
<1>12. Token \in {Comma, Equals, Semicolon} => v = u
  <2>1. \A x \in Int : 0 + x = x
    OBVIOUS
  <2> HIDE DEF u
  <2> QED BY <1>3, <1>8, <2>1 DEF u
<1> QED BY <1>1, <1>7, <1>9, <1>10, <1>11, <1>12, <1>14, <1>15, <1>16, <1>17

\* While the first token is a bracket: what is open and what is still to be opened are what the
\* document leaves open, the root is read from the first token, and is no string.
OpenInv ==
  /\ pc = "read" => stack = << >>
  /\ OpensCollection /\ pc \notin {"read", "unread", "error"} =>
       /\ pc = "done" => Unclosed(input, 1) = 0
       /\ pc # "done" => Len(stack) + Unclosed(input, pos) = Unclosed(input, 1)
       /\ ~IsFile /\ pc # "strings"
       /\ stack = << >> /\ pc = "value" => pos = 1
       /\ stack = << >> /\ pc = "return" => ~Is("string", ret)

\* The steps that fail, and those that read on inside a collection.
LEMMA OpenFails == ASSUME pc' \in {"unread", "error"} PROVE OpenInv'
BY DEF OpenInv

LEMMA OpenKept ==
  ASSUME input' = input, pc' \notin {"read", "done", "strings"},
         OpensCollection =>
           /\ Len(stack') + Unclosed(input, pos') = Unclosed(input, 1)
           /\ stack' # << >> /\ stack'[1].kind # "strings"
  PROVE  OpenInv'
BY DEF OpenInv, OpensCollection, IsFile

\* The frame on top is changed, and the root stays the root.
LEMMA OpenTop ==
  ASSUME IInv, stack # << >>, NEW v, v.kind = stack[Len(stack)].kind,
         stack' = [stack EXCEPT ![Len(stack)] = v]
  PROVE  Len(stack') = Len(stack) /\ stack' # << >> /\ stack'[1].kind = stack[1].kind
<1> DEFINE n == Len(stack)
           new == [stack EXCEPT ![Len(stack)] = v]
           S == Range(stack) \cup {v}
<1>1. stack \in Seq(S) /\ v \in S
  BY DEF IInv, FramesRight
<1> HIDE DEF S
<1>2. /\ n \in Nat \ {0} /\ Len(new) = n /\ new \in Seq(S)
      /\ \A i \in 1 .. n - 1 : new[i] = stack[i]
      /\ new[n] = v
  BY <1>1, TopChanged
<1>3. new # << >> /\ (n = 1 \/ 1 \in 1 .. n - 1)
  <2> HIDE DEF new
  <2> QED BY <1>2
<1> HIDE DEF new
<1>4. stack' = new
  BY DEF new
<1> QED BY <1>2, <1>3, <1>4

LEMMA OpenNext ==
  ASSUME IInv, TypeInv, OpenInv, [Next]_vars
  PROVE  OpenInv'
<1> USE DEF Reading, Goto, Return, Value
<1>0. /\ Within /\ input \in Seq(Nat) /\ Len(input) \in Nat /\ pos \in 1 .. Len(input) + 1
      /\ stack \in Seq(Range(stack)) /\ Len(stack) \in Nat
  BY DEF TypeInv, Within, IInv, FramesRight
<1>1. ASSUME Fail PROVE OpenInv'
  BY <1>1, OpenFails DEF Fail
<1>2. CASE ReaderFails
  BY <1>2, OpenFails DEF ReaderFails
<1>3. CASE Read
  <2> DEFINE text == Decoded(doc.bytes).value.string
  <2>1. /\ pc' = "value" /\ stack' = << >> /\ pos' = 1 /\ Decoded(doc.bytes).ok
        /\ input' = text
    BY <1>0, <1>3 DEF Read, OpenInv, Within
  <2>2. text \in Seq(Nat)
    <3>1. doc.bytes \in Seq(Nat)
      BY DocumentsAssumption DEF TypeInv
    <3> QED BY <2>1, <3>1, InputIsText
  <2> HIDE DEF text
  <2>3. Unclosed(text, 1) \in Int
    <3>1. 1 \in 1 .. Len(text) + 1
      BY <2>2
    <3> QED BY <2>2, <3>1, UnclosedFollows
  <2>4. Len(<< >>) + Unclosed(text, 1) = Unclosed(text, 1)
    BY <2>3
  <2> QED BY <2>1, <2>4 DEF OpenInv, IsFile
<1> SUFFICES ASSUME ~Read, ~ReaderFails PROVE OpenInv'
  BY <1>2, <1>3
<1> DEFINE L == Len(stack)
           U == Unclosed(input, pos)
           All == Unclosed(input, 1)
<1>h. OpensCollection /\ pc \notin {"read", "unread", "error", "done"} =>
        /\ L + U = All /\ ~IsFile /\ pc # "strings"
        /\ stack # << >> => stack[1].kind # "strings"
  BY DEF OpenInv, IsFile
\* Whatever is no bracket is read inside of a collection.
<1>r. ASSUME pc = "value", Start # 0, Token \notin Opening, OpensCollection PROVE stack # << >>
  BY <1>r DEF OpenInv, OpensCollection, Token, Start
<1>4. CASE Finish
  <2>1. /\ pc = "return" /\ Start # 0 /\ Token = EOF /\ stack = << >>
        /\ pc' = "done" /\ input' = input /\ stack' = stack
    BY <1>4 DEF Finish, AtEnd
  <2>2. U = 0
    BY <1>0, <2>1, UnclosedHere
  <2>3. OpensCollection => All = 0
    BY <1>h, <2>1, <2>2
  <2> QED BY <2>1, <2>3 DEF OpenInv, OpensCollection, IsFile
<1>5. ASSUME pc = "value", Start # 0, Token \notin Opening, input' = input, stack' = stack,
             pc' = "return", Unclosed(input, pos') = U
      PROVE  OpenInv'
  <2>1. OpensCollection => /\ Len(stack') + Unclosed(input, pos') = All
                           /\ stack' # << >> /\ stack'[1].kind # "strings"
    BY <1>5, <1>h, <1>r
  <2> QED BY <1>5, <2>1, OpenKept
<1>6. CASE ValueAtEOF
  <2>1. /\ pc = "value" /\ Start # 0 /\ Token = EOF /\ input' = input /\ stack' = stack
        /\ pc' = "return" /\ pos' = Start
    BY <1>6 DEF ValueAtEOF
  <2>2. Unclosed(input, Start) = U
    BY <1>0, <2>1, UnclosedHere
  <2>3. Token \notin Opening
    BY <2>1 DEF Opening, OpenParen, OpenBrace, EOF
  <2> QED BY <2>1, <2>2, <2>3, <1>5
<1>7. ASSUME NEW scanned, Scan({scanned}), pc = "value", Start # 0, Token \notin Opening, input' = input,
             scanned.ok => Unclosed(input, scanned.next) = U
      PROVE  OpenInv'
  <2>1. CASE scanned.ok
    <3>1. pc' = "return" /\ pos' = scanned.next /\ stack' = stack
      BY <1>7, <2>1 DEF Scan
    <3> QED BY <1>5, <1>7, <2>1, <3>1
  <2>2. CASE ~scanned.ok
    <3>1. pc' = "error"
      BY <1>7, <2>2 DEF Scan
    <3> QED BY <3>1, OpenFails
  <2> QED BY <2>1, <2>2
<1>8. CASE GNUStep \/ Hex \/ String
  <2>1. pc = "value" /\ Start # 0 /\ input' = input
    BY <1>8 DEF GNUStep, Hex, String, Scan
  <2>2. Token \notin Opening
    BY <1>8 DEF GNUStep, Hex, String, Opening, LessThan, OpenParen, OpenBrace
  <2>3. CASE GNUStep
    <3> DEFINE x == GNUStepValue(input, Start + 2)
               y == Base64(input, Start + 2)
    <3>1. Token = LessThan /\ Second \in {Star, OpenBracket} /\ Scan({IF Second = Star THEN x ELSE y})
      BY <2>3 DEF GNUStep
    <3>2. /\ Second = Star /\ x.ok => Unclosed(input, x.next) = U
          /\ Second = OpenBracket /\ y.ok => Unclosed(input, y.next) = U
      BY <1>0, <2>1, <3>1, UnclosedHere
    <3> HIDE DEF x, y
    <3>3. CASE Second = Star
      BY <1>7, <2>1, <2>2, <3>1, <3>2, <3>3
    <3>4. CASE Second # Star
      BY <1>7, <2>1, <2>2, <3>1, <3>2, <3>4
    <3> QED BY <3>3, <3>4
  <2>4. CASE Hex
    <3> DEFINE x == HexData(input, Start + 1)
    <3>1. Token = LessThan /\ Second \notin {Star, OpenBracket} /\ Scan({x})
      BY <2>4 DEF Hex
    <3>2. x.ok => Unclosed(input, x.next) = U
      BY <1>0, <2>1, <3>1, UnclosedHere
    <3> HIDE DEF x
    <3> QED BY <1>7, <2>1, <2>2, <3>1, <3>2
  <2>5. CASE String
    <3>1. Token # EOF /\ Scan({StringAt})
      BY <2>5 DEF String
    <3>2. StringAt.ok => Unclosed(input, StringAt.next) = U
      BY <1>0, <2>1, <3>1, UnclosedHere
    <3> QED BY <1>7, <2>1, <2>2, <3>1, <3>2
  <2> QED BY <1>8, <2>3, <2>4, <2>5
<1>m. ASSUME Start # 0, Token # EOF PROVE Unclosed(input, Start + 1) \in Int /\ U \in Int
  BY <1>0, <1>m, UnclosedHere
<1>9. ASSUME NEW kind \in {"array", "dict"}, Open(kind), pc = "value", Start # 0, Token \in Opening
      PROVE  OpenInv'
  <2> DEFINE f == Frame(kind)
             new == Append(stack, f)
             u == Unclosed(input, Start + 1)
  <2>1. pc' = kind /\ pos' = Start + 1 /\ stack' = new /\ input' = input
    BY <1>9 DEF Open
  <2>2. f.kind # "strings"
    BY DEF Frame
  <2> HIDE DEF f
  <2>3. /\ Len(new) = L + 1 /\ \A i \in 1 .. L : new[i] = stack[i]
        /\ new[L + 1] = f
    BY <1>0, Pushed
  <2>4. Token # EOF
    BY <1>9 DEF Opening, OpenParen, OpenBrace, EOF
  <2>5. U = 1 + u /\ u \in Int
    BY <1>0, <1>9, <1>m, <2>4, UnclosedHere
  <2>6. new # << >>
    <3>1. Len(new) # 0
      BY <1>0, <2>3
    <3> HIDE DEF new
    <3> QED BY <3>1
  <2>7. OpensCollection => new[1].kind # "strings"
    <3>1. CASE L = 0
      BY <2>2, <2>3, <3>1
    <3>2. CASE L # 0
      <4>1. 1 \in 1 .. L /\ stack # << >>
        BY <1>0, <3>2
      <4> HIDE DEF new, L, U, All
      <4> QED BY <1>9, <1>h, <2>3, <4>1
    <3> QED BY <3>1, <3>2
  <2> HIDE DEF new, u, L, U, All
  <2>8. OpensCollection => Len(new) + u = All
    BY <1>0, <1>9, <1>h, <2>3, <2>5 DEF L
  <2> QED BY <2>1, <2>6, <2>7, <2>8, OpenKept DEF u, All
<1>10. CASE OpenArray \/ OpenDictionary
  BY <1>9, <1>10 DEF OpenArray, OpenDictionary, Opening
\* The steps that stay in a collection and read on at p.
<1>11. ASSUME NEW p, pos' = p, Unclosed(input, p) = U, input' = input,
              pc \notin {"read", "unread", "error", "done"}, pc' \notin {"read", "done", "strings"},
              Len(stack') = L, stack' # << >>, stack # << >>, stack'[1].kind = stack[1].kind
       PROVE  OpenInv'
  BY <1>11, <1>h, OpenKept
<1>12. CASE ArrayComma \/ ArrayElement \/ Assign
  <2>1. /\ pc \in {"array", "assign"} /\ Start # 0 /\ input' = input /\ stack' = stack
        /\ pc' \in {"array", "value"} /\ stack # << >>
        /\ \/ pos' = Start
           \/ pos' = Start + 1 /\ Token \in {Comma, Equals}
    BY <1>12 DEF ArrayComma, ArrayElement, Assign, IInv, TopRight
  <2>2. Unclosed(input, pos') = U
    BY <1>0, <2>1, UnclosedHere
  <2> QED BY <1>11, <2>1, <2>2
<1>13. ASSUME NEW v, Close(v), stack # << >>, Start # 0, Token \in Closing, ~Is("string", v),
              pc \in {"array", "dict"}
       PROVE  OpenInv'
  <2> DEFINE new == Front(stack)
             u == Unclosed(input, Start + 1)
  <2>1. /\ stack' = new /\ pc' = "return" /\ input' = input /\ pos' = Start + 1 /\ ret' = v
    BY <1>13 DEF Close
  <2>2. /\ L \in Nat \ {0} /\ Len(new) = L - 1
        /\ \A i \in 1 .. L - 1 : new[i] = stack[i]
    BY <1>0, <1>13, Popped
  <2>3. Token # EOF
    BY <1>13 DEF Closing, CloseParen, CloseBrace, EOF
  <2>4. U = u - 1 /\ u \in Int
    BY <1>0, <1>13, <1>m, <2>3, UnclosedHere
  <2>5. OpensCollection /\ new # << >> => new[1].kind # "strings"
    <3>1. CASE L = 1
      <4>1. Len(new) = 0 /\ new \in Seq(Range(stack))
        BY <1>0, <1>13, <2>2, <3>1, Popped
      <4>2. new = << >>
        <5> HIDE DEF new
        <5> QED BY <4>1
      <4> QED BY <4>2
    <3>2. CASE L # 1
      <4>1. 1 \in 1 .. L - 1
        BY <2>2, <3>2
      <4> HIDE DEF new, L, U, All
      <4> QED BY <1>13, <1>h, <2>2, <4>1
    <3> QED BY <3>1, <3>2
  <2> HIDE DEF new, u, L, U, All
  <2>6. OpensCollection => Len(new) + u = All
    BY <1>13, <1>h, <2>2, <2>4
  <2> QED BY <1>13, <2>1, <2>5, <2>6 DEF OpenInv, OpensCollection, IsFile, u, All
<1>14. CASE ArrayClose
  <2>1. stack # << >> /\ Close(Array(Top.values)) /\ Start # 0 /\ Token \in Closing /\ pc = "array"
    BY <1>14 DEF ArrayClose, IInv, TopRight, Closing
  <2>2. ~Is("string", Array(Top.values))
    BY DEF Is, Array
  <2> QED BY <1>13, <2>1, <2>2
<1>15. CASE DictionaryClose
  <2>1. stack # << >> /\ Close(Finished) /\ Start # 0 /\ Token \in Closing /\ pc = "dict"
    BY <1>15 DEF DictionaryClose, IInv, TopRight, Closing
  <2>2. ~Is("string", Finished)
    <3> DEFINE k == Top.keys
               w == Top.values
               m == MaybeUID(k, w, format = "OpenStep")
    <3>1. \/ m = Dictionary(k, w)
          \/ \E n : m = UID(n)
      BY DEF MaybeUID
    <3>2. ~Is("string", Dictionary(k, w)) /\ \A n : ~Is("string", UID(n))
      BY DEF Is, Dictionary, UID
    <3> HIDE DEF k, w
    <3>3. ~Is("string", m)
      <4> HIDE DEF m
      <4> QED BY <3>1, <3>2
    <3> QED BY <3>3 DEF Finished, m, k, w
  <2> QED BY <1>13, <2>1, <2>2
<1>16. CASE AppendElement
  <2> DEFINE v == [kind |-> "array", keys |-> << >>,
                   values |-> Append(stack[Len(stack)].values, ret), key |-> << >>]
  <2>1. /\ stack # << >> /\ stack[Len(stack)].kind = "array" /\ pc = "return"
        /\ stack' = [stack EXCEPT ![Len(stack)] = v] /\ pc' = "array" /\ input' = input /\ pos' = pos
    BY <1>16 DEF AppendElement, Looping, Top, Last
  <2>2. v.kind = "array"
    OBVIOUS
  <2> HIDE DEF v
  <2>3. Len(stack') = L /\ stack' # << >> /\ stack'[1].kind = stack[1].kind
    BY <2>1, <2>2, OpenTop
  <2> QED BY <1>11, <2>1, <2>3
<1>17. CASE StringsClose
  <2>1. pc = "strings" /\ pc' = "done" /\ input' = input
    BY <1>17 DEF StringsClose
  <2> QED BY <1>h, <2>1 DEF OpenInv, OpensCollection
<1>18. ASSUME pc = "strings", input' = input, pc' # "read" PROVE OpenInv'
  BY <1>h, <1>18 DEF OpenInv, OpensCollection
<1>19. CASE Key
  <2>1. /\ stack # << >> /\ input' = input /\ Start # 0 /\ Token # EOF /\ pc \in {"dict", "strings"}
    BY <1>19 DEF Key, InDictionary, IInv, TopRight
  <2> DEFINE f == stack[Len(stack)]
             v == [kind |-> f.kind, keys |-> f.keys, values |-> f.values,
                   key |-> StringAt.value.string]
  <2>2. CASE StringAt.ok
    <3>1. stack' = [stack EXCEPT ![Len(stack)] = v] /\ pc' = "assign" /\ pos' = StringAt.next
      BY <1>19, <2>2 DEF Key
    <3>2. v.kind = f.kind
      OBVIOUS
    <3> HIDE DEF v
    <3>3. Len(stack') = L /\ stack' # << >> /\ stack'[1].kind = stack[1].kind
      BY <2>1, <3>1, <3>2, OpenTop
    <3>4. Unclosed(input, StringAt.next) = U
      BY <1>0, <2>1, <2>2, UnclosedHere
    <3> QED BY <1>11, <2>1, <3>1, <3>3, <3>4
  <2>3. CASE ~StringAt.ok
    <3>1. pc' = "error"
      BY <1>19, <2>3 DEF Key
    <3> QED BY <3>1, OpenFails
  <2> QED BY <2>2, <2>3
<1>20. ASSUME NEW x, AddEntry(x), stack # << >>, pc \in {"assign", "return"}, Start # 0,
              Token = Semicolon
       PROVE  OpenInv'
  <2> DEFINE f == stack[Len(stack)]
             v == [kind |-> f.kind, keys |-> Append(f.keys, f.key), values |-> Append(f.values, x),
                   key |-> << >>]
  <2>1. /\ stack' = [stack EXCEPT ![Len(stack)] = v] /\ pc' = f.kind /\ pos' = Start + 1
        /\ input' = input
    BY <1>20 DEF AddEntry, Top, Last
  <2>2. v.kind = f.kind
    OBVIOUS
  <2> HIDE DEF v
  <2>3. Len(stack') = L /\ stack' # << >> /\ stack'[1].kind = stack[1].kind
    BY <1>20, <2>1, <2>2, OpenTop
  <2>4. Unclosed(input, Start + 1) = U
    BY <1>0, <1>20, UnclosedHere
  <2>5. L \in 1 .. L /\ (L = 1 \/ L \in 2 .. L)
    <3>1. L \in Nat \ {0}
      BY <1>0, <1>20
    <3> HIDE DEF L
    <3> QED BY ONLY <3>1
  <2>6. f.kind \in {"array", "dict", "strings"} /\ (f.kind = "strings" => stack[1].kind = "strings")
    BY <2>5 DEF IInv, FramesRight
  <2>7. CASE f.kind = "strings"
    <3>1. ~OpensCollection
      BY <1>20, <1>h, <2>6, <2>7
    <3> QED BY <2>1, <2>7, <3>1 DEF OpenInv, OpensCollection
  <2>8. CASE f.kind # "strings"
    <3>1. pc' \notin {"read", "done", "strings"}
      BY <2>1, <2>6, <2>8
    <3> QED BY <1>11, <1>20, <2>1, <2>3, <2>4, <3>1
  <2> QED BY <2>7, <2>8
<1>21. CASE KeyAlone
  <2>1. stack # << >> /\ pc = "assign" /\ AddEntry(Text(Top.key)) /\ Start # 0 /\ Token = Semicolon
    BY <1>21 DEF KeyAlone, IInv, TopRight
  <2> QED BY <1>20, <2>1
<1>22. CASE EndEntry
  <2>1. stack # << >> /\ pc = "return" /\ AddEntry(ret) /\ Start # 0 /\ Token = Semicolon
    BY <1>22 DEF EndEntry, ReturnedToDictionary
  <2> QED BY <1>20, <2>1
<1>23. CASE TryStrings
  <2>1. pc = "return" /\ stack = << >> /\ Is("string", ret) /\ pc' = "strings" /\ input' = input
    BY <1>23 DEF TryStrings, AtEnd
  <2>2. ~OpensCollection
    BY <2>1 DEF OpenInv
  <2> QED BY <2>1, <2>2 DEF OpenInv, OpensCollection
<1>24. CASE UNCHANGED vars
  BY <1>24 DEF vars, OpenInv, OpensCollection, IsFile
<1> QED BY <1>1, <1>4, <1>6, <1>8, <1>10, <1>12, <1>14, <1>15, <1>16, <1>17, <1>19, <1>21, <1>22, <1>23, <1>24
    DEF Next, UnitTruncated, CommentUnclosed, NestingExceeded, ArrayEOF, DictionaryEOF,
        AssignMissing, SemicolonMissing, Garbage

\* For every document: when it begins with an array or a dictionary (parseArray, parseDictionary), the
\* parser returns a value only if all that its tokens open they close.
THEOREM NothingLeftOpen == Spec => []CutOffDetected
<1>1. Init => OpenInv
  BY DEF Init, AtStart, OpenInv
<1>2. IInv /\ TypeInv /\ OpenInv /\ [Next]_vars => OpenInv'
  BY OpenNext
<1>3. OpenInv => CutOffDetected
  BY DEF OpenInv, CutOffDetected
<1>4. IInv /\ TypeInv /\ [Next]_vars => TypeInv'
  BY TypeNext
<1> QED BY <1>1, <1>2, <1>3, <1>4, TypeInit, Inductive, PTL DEF Spec
================================================================================
