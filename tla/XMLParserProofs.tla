---------------------------- MODULE XMLParserProofs -----------------------------
(***************************************************************************)
(* XMLParser is type-correct and opens no more than maxNestingDepth        *)
(* elements, whatever the document; it reads every document that means     *)
(* something as what it means, and never a cut-off one as a shorter one.   *)
(*                                                                         *)
(* IInv: xmlDepth is the number of open elements; every dictionary waiting *)
(* for an element inside it has one key more than values, and the one      *)
(* whose loop runs has as many.                                            *)
(*                                                                         *)
(* Walk: the open calls are a path of elements from the root, each frame   *)
(* holds what the children before the next place on the path stand for,    *)
(* the table of IDs is that of the elements complete so far, and of what   *)
(* is still unread before the place the walk has reached there are only    *)
(* tokens that will be skipped.                                            *)
(***************************************************************************)
EXTENDS XMLParser, SequenceLemmas, WellFoundedInduction, FiniteSetTheorems

Settled(f) == f.kind = "dict" => Len(f.keys) = Len(f.values)
Waiting(f) == f.kind = "dict" => Len(f.keys) = Len(f.values) + 1
FrameOK(f) ==
  /\ f.kind \in Containers
  /\ f.keys \in Seq(Range(f.keys)) /\ f.values \in Seq(Range(f.values))

PositionRight ==
  /\ xmlDoc.tokens \in Seq(Range(xmlDoc.tokens))
  /\ limit \in 1 .. Len(xmlDoc.tokens) + 1 /\ xmlPos \in 1 .. limit
  /\ xmlPc = "element" => xmlPos # limit
PcRight ==
  /\ xmlPc \in {"document", "element", "content", "return", "done", "invalid", "error"}
  /\ xmlPc = "document" => xmlStack = << >>
  /\ xmlPc = "content" => xmlStack # << >>
FramesRight ==
  /\ xmlStack \in Seq(Range(xmlStack))
  /\ \A i \in 1 .. Len(xmlStack) : FrameOK(xmlStack[i])
  /\ \A i \in 1 .. Len(xmlStack) - 1 : Waiting(xmlStack[i])
TopRight ==
  xmlStack # << >> =>
    /\ xmlPc = "content" => Settled(xmlStack[Len(xmlStack)])
    /\ xmlPc \in {"element", "return"} => Waiting(xmlStack[Len(xmlStack)])
    /\ Settled(xmlStack[Len(xmlStack)]) \/ Waiting(xmlStack[Len(xmlStack)])
DepthRight == xmlDepth = Len(xmlStack) /\ xmlDepth <= MaxNesting

IInv == PositionRight /\ PcRight /\ FramesRight /\ TopRight /\ DepthRight

--------------------------------------------------------------------------------
\* A set of naturals has a least element, and Min is that.
LEMMA NatMin ==
  ASSUME NEW S \in SUBSET Nat, S # {}
  PROVE  Min(S) \in S
<1>1. PICK x \in S : \A y \in S : ~(<<y, x>> \in OpToRel(<, Nat))
  BY NatLessThanWellFounded, WFMin
<1>2. \A y \in S : x <= y
  <2> SUFFICES ASSUME NEW y \in S PROVE x <= y
    OBVIOUS
  <2>1. <<y, x>> \notin OpToRel(<, Nat)
    BY <1>1
  <2>2. ~(y < x)
    BY <2>1 DEF OpToRel
  <2> QED BY <2>2
<1> QED BY <1>2 DEF Min

\* Where the decoder fails, and where an element ends, are places in the document.
LEMMA FailsAtRange ==
  ASSUME NEW tokens, Len(tokens) \in Nat, DOMAIN tokens = 1 .. Len(tokens)
  PROVE  FailsAt(tokens) \in 1 .. Len(tokens) + 1
<1> DEFINE S == {Len(tokens) + 1}
                  \cup {k \in DOMAIN tokens : \/ Is("end", tokens[k]) /\ Mismatched(tokens, k)
                                              \/ Is("chars", tokens[k]) /\ IllFormed(tokens[k].chars)}
<1>1. S \in SUBSET (1 .. Len(tokens) + 1) /\ S # {}
  OBVIOUS
<1>2. FailsAt(tokens) = Min(S)
  BY DEF FailsAt
<1> HIDE DEF S
<1>3. S \in SUBSET Nat
  BY <1>1
<1> QED BY <1>1, <1>2, <1>3, NatMin

LEMMA EndOfRange ==
  ASSUME NEW tokens, Len(tokens) \in Nat, NEW p \in Nat \ {0}
  PROVE  EndOf(tokens, p) \in 1 .. Len(tokens) + 1
<1> DEFINE S == {Len(tokens) + 1} \cup {q \in p .. Len(tokens) : Level(tokens, p, q) = 0}
<1>1. S \in SUBSET (1 .. Len(tokens) + 1) /\ S # {}
  OBVIOUS
<1>2. EndOf(tokens, p) = Min(S)
  BY DEF EndOf
<1> HIDE DEF S
<1>3. S \in SUBSET Nat
  BY <1>1
<1> QED BY <1>1, <1>2, <1>3, NatMin

--------------------------------------------------------------------------------
\* What the steps of the parser do to the stack.
LEMMA StayStep ==
  ASSUME IInv, xmlStack' = xmlStack, xmlDepth' = xmlDepth, PositionRight', PcRight', TopRight'
  PROVE  IInv'
BY DEF IInv, FramesRight, DepthRight

LEMMA PushStep ==
  ASSUME IInv, NEW v, FrameOK(v), Settled(v), xmlStack' = Append(xmlStack, v), xmlDepth' = xmlDepth + 1,
         xmlDepth < MaxNesting, xmlPc = "element", xmlPc' = "content", PositionRight'
  PROVE  IInv'
<1> DEFINE n == Len(xmlStack)
           new == Append(xmlStack, v)
<1>1. xmlStack \in Seq(Range(xmlStack))
  BY DEF IInv, FramesRight
<1>2. /\ n \in Nat /\ Len(new) = n + 1 /\ new \in Seq(Range(xmlStack) \cup {v})
      /\ \A i \in 1 .. n : new[i] = xmlStack[i]
      /\ new[n + 1] = v
  BY <1>1, Pushed
<1>3. new \in Seq(Range(new))
  BY <1>2, OwnElements
<1> HIDE DEF new
<1>4. xmlStack' = new
  BY DEF new
<1>5. \A i \in 1 .. n : Waiting(xmlStack[i])
  <2> SUFFICES ASSUME NEW i \in 1 .. n PROVE Waiting(xmlStack[i])
    OBVIOUS
  <2>1. i \in 1 .. n - 1 \/ i = n
    BY <1>2
  <2>2. n # 0 => xmlStack # << >>
    OBVIOUS
  <2> QED BY <2>1, <2>2, <1>2 DEF IInv, FramesRight, TopRight
<1>6. FramesRight'
  <2>1. \A i \in 1 .. n + 1 : FrameOK(new[i])
    BY <1>2 DEF IInv, FramesRight
  <2>2. \A i \in 1 .. n : Waiting(new[i])
    BY <1>2, <1>5
  <2>3. Len(new) - 1 = n
    BY <1>2
  <2> QED BY <1>2, <1>3, <1>4, <2>1, <2>2, <2>3 DEF FramesRight
<1>7. TopRight' /\ PcRight'
  <2>1. new # << >>
    BY <1>2, <1>3
  <2> QED BY <1>2, <1>4, <2>1 DEF TopRight, PcRight
<1>8. DepthRight'
  BY <1>2, <1>4, NestingAssumption DEF IInv, DepthRight
<1> QED BY <1>6, <1>7, <1>8 DEF IInv

LEMMA PopStep ==
  ASSUME IInv, xmlStack # << >>, xmlStack' = Front(xmlStack), xmlDepth' = xmlDepth - 1, xmlPc' = "return", PositionRight'
  PROVE  IInv'
<1> DEFINE n == Len(xmlStack)
           new == Front(xmlStack)
<1>1. xmlStack \in Seq(Range(xmlStack))
  BY DEF IInv, FramesRight
<1>2. /\ n \in Nat \ {0} /\ Len(new) = n - 1 /\ new \in Seq(Range(xmlStack))
      /\ \A i \in 1 .. n - 1 : new[i] = xmlStack[i]
  BY <1>1, Popped
<1>3. new \in Seq(Range(new))
  BY <1>2, OwnElements
<1> HIDE DEF new
<1>4. xmlStack' = new
  BY DEF new
<1>5. \A i \in 1 .. n - 1 : Waiting(new[i]) /\ FrameOK(new[i])
  BY <1>2 DEF IInv, FramesRight
<1>6. FramesRight'
  <2>1. \A i \in 1 .. Len(new) - 1 : i \in 1 .. n - 1
    BY <1>2
  <2> QED BY <1>2, <1>3, <1>4, <1>5, <2>1 DEF FramesRight
<1>7. TopRight'
  <2> SUFFICES ASSUME new # << >> PROVE Waiting(new[Len(new)])
    BY <1>4 DEF TopRight
  <2>1. Len(new) \in 1 .. n - 1
    BY <1>2
  <2> QED BY <1>5, <2>1
<1>8. DepthRight'
  BY <1>2, <1>4, NestingAssumption DEF IInv, DepthRight
<1>9. PcRight'
  BY DEF PcRight
<1> QED BY <1>6, <1>7, <1>8, <1>9 DEF IInv

LEMMA TopStep ==
  ASSUME IInv, xmlStack # << >>, NEW v, xmlStack' = [xmlStack EXCEPT ![Len(xmlStack)] = v], FrameOK(v),
         xmlDepth' = xmlDepth, \/ xmlPc' = "content" /\ Settled(v)
                               \/ xmlPc' = "element" /\ Waiting(v),
         PositionRight'
  PROVE  IInv'
<1> DEFINE n == Len(xmlStack)
           new == [xmlStack EXCEPT ![Len(xmlStack)] = v]
           S == Range(xmlStack) \cup {v}
<1>1. xmlStack \in Seq(Range(xmlStack))
  BY DEF IInv, FramesRight
<1>2. xmlStack \in Seq(S) /\ v \in S
  BY <1>1
<1> HIDE DEF S
<1>3. /\ n \in Nat \ {0} /\ Len(new) = n /\ new \in Seq(S)
      /\ \A i \in 1 .. n - 1 : new[i] = xmlStack[i]
      /\ new[n] = v
  BY <1>2, TopChanged
<1>4. new \in Seq(Range(new))
  BY <1>3, OwnElements
<1> HIDE DEF new
<1>5. xmlStack' = new
  BY DEF new
<1>6. FramesRight'
  <2>1. \A i \in 1 .. n - 1 : FrameOK(new[i]) /\ Waiting(new[i])
    BY <1>3 DEF IInv, FramesRight
  <2>2. \A i \in 1 .. n : i \in 1 .. n - 1 \/ i = n
    BY <1>3
  <2>3. \A i \in 1 .. n : FrameOK(new[i])
    BY <1>3, <2>1, <2>2
  <2> QED BY <1>3, <1>4, <1>5, <2>1, <2>3 DEF FramesRight
<1>7. new # << >>
  BY <1>3, <1>4
<1>8. TopRight' /\ PcRight'
  BY <1>3, <1>5, <1>7 DEF TopRight, PcRight
<1>9. DepthRight'
  BY <1>3, <1>5 DEF IInv, DepthRight
<1> QED BY <1>6, <1>8, <1>9 DEF IInv
--------------------------------------------------------------------------------
\* The frame on top, with other keys, values and key.
LEMMA ChangedFrame ==
  ASSUME NEW f, FrameOK(f), NEW keys, keys \in Seq(Range(keys)),
         NEW values, values \in Seq(Range(values)), NEW key
  PROVE  FrameOK([kind |-> f.kind, attrs |-> f.attrs, keys |-> keys, values |-> values, key |-> key])
BY DEF FrameOK

LEMMA TopFrame ==
  ASSUME IInv, xmlStack # << >>
  PROVE  FrameOK(TopElement)
BY DEF IInv, FramesRight, TopElement, Last

LEMMA AppendedToOwn ==
  ASSUME NEW s, s \in Seq(Range(s)), NEW v
  PROVE  Append(s, v) \in Seq(Range(Append(s, v))) /\ Len(Append(s, v)) = Len(s) + 1 /\ Len(s) \in Nat
<1>1. Append(s, v) \in Seq(Range(s) \cup {v}) /\ Len(s) \in Nat /\ Len(Append(s, v)) = Len(s) + 1
  BY Pushed
<1> QED BY <1>1, OwnElements

\* The decoder's positions stay in the document.
LEMMA Moved ==
  ASSUME IInv, UNCHANGED decoder, xmlPc' # "element",
         \/ xmlPos' = xmlPos
         \/ xmlPos' = xmlPos + 1 /\ xmlPos # limit
         \/ \E last \in {EndOf(xmlDoc.tokens, xmlPos)} : last < limit /\ xmlPos' = last + 1
         \/ \E last \in {EndOf(xmlDoc.tokens, xmlPos)} : xmlPos' = After(last)
  PROVE  PositionRight'
<1>1. /\ xmlDoc' = xmlDoc /\ limit' = limit
      /\ Len(xmlDoc.tokens) \in Nat /\ limit \in 1 .. Len(xmlDoc.tokens) + 1 /\ xmlPos \in 1 .. limit
  BY DEF IInv, PositionRight, decoder
<1>2. limit \in Nat /\ xmlPos \in Nat \ {0}
  BY <1>1
<1>3. EndOf(xmlDoc.tokens, xmlPos) \in 1 .. Len(xmlDoc.tokens) + 1
  BY <1>1, <1>2, EndOfRange
<1>4. xmlPos' \in 1 .. limit
  <2>1. CASE xmlPos' = xmlPos \/ (xmlPos' = xmlPos + 1 /\ xmlPos # limit)
    BY <1>1, <2>1
  <2>2. CASE \E last \in {EndOf(xmlDoc.tokens, xmlPos)} : last < limit /\ xmlPos' = last + 1
    BY <1>1, <1>3, <2>2
  <2>3. CASE \E last \in {EndOf(xmlDoc.tokens, xmlPos)} : xmlPos' = After(last)
    BY <1>1, <1>3, <2>3 DEF After
  <2> QED BY <2>1, <2>2, <2>3
<1> QED BY <1>1, <1>4 DEF IInv, PositionRight

\* IInv is inductive.
THEOREM Inductive == XMLSpec => []IInv
<1>1. XMLInit => IInv
  <2> SUFFICES ASSUME XMLInit PROVE IInv
    OBVIOUS
  <2>1. /\ xmlDoc \in XMLDocs /\ xmlPos = 1 /\ limit = FailsAt(xmlDoc.tokens)
        /\ xmlStack = << >> /\ xmlDepth = 0 /\ xmlPc = "document"
    BY DEF XMLInit, XMLAtStart
  <2>2. xmlDoc.tokens \in Seq(Range(xmlDoc.tokens))
    BY <2>1, TokensAssumption
  <2>3. FailsAt(xmlDoc.tokens) \in 1 .. Len(xmlDoc.tokens) + 1
    BY <2>2, FailsAtRange
  <2>4. PositionRight
    BY <2>1, <2>2, <2>3 DEF PositionRight
  <2>5. xmlStack \in Seq(Range(xmlStack)) /\ Len(xmlStack) = 0
    BY <2>1
  <2> QED BY <2>1, <2>4, <2>5, NestingAssumption DEF IInv, PcRight, FramesRight, TopRight, DepthRight
<1>2. IInv /\ [XMLNext]_xmlVars => IInv'
  <2> SUFFICES ASSUME IInv, [XMLNext]_xmlVars PROVE IInv'
    OBVIOUS
  <2>0. ASSUME NEW verdict \in {"done", "invalid", "error"}, Stop(verdict) PROVE IInv'
    <3>1. PositionRight'
      BY <2>0, Moved DEF Stop
    <3>2. PcRight' /\ TopRight'
      BY <2>0 DEF Stop, IInv, PcRight, TopRight
    <3> QED BY <2>0, <3>1, <3>2, StayStep DEF Stop
  <2>1. CASE NotXML \/ FinishXML \/ ElementsExceeded \/ ScalarCutOff \/ Unknown \/ ContentCutOff
               \/ KeyMissing \/ ValueMissing
    BY <2>1, <2>0
       DEF NotXML, FinishXML, ElementsExceeded, ScalarCutOff, Unknown, ContentCutOff, KeyMissing, ValueMissing
  <2>2. CASE SkipProlog \/ SkipToken
    <3>1. xmlPos # limit /\ xmlPos' = xmlPos + 1 /\ xmlPc' = xmlPc /\ xmlPc # "element" /\ UNCHANGED decoder
          /\ UNCHANGED <<xmlStack, xmlDepth>>
      BY <2>2 DEF SkipProlog, SkipToken, AtToken, NoToken, GotoToken
    <3>2. PositionRight'
      BY <3>1, Moved
    <3> QED BY <3>1, <3>2, StayStep DEF IInv, PcRight, TopRight
  <2>3. CASE Root
    <3>1. xmlStack = << >> /\ xmlStack' = xmlStack /\ xmlDepth' = xmlDepth /\ xmlPc' = "element" /\ xmlPos # limit
      BY <2>3 DEF Root, AtToken, NoToken, GotoToken, IInv, PcRight
    <3>2. PositionRight'
      BY <2>3, <3>1 DEF Root, GotoToken, decoder, IInv, PositionRight
    <3> QED BY <3>1, <3>2, StayStep DEF PcRight, TopRight
  <2>4. CASE OpenElement
    <3> DEFINE f == ElementFrame(XMLToken)
    <3>1. /\ xmlStack' = Append(xmlStack, f) /\ xmlDepth' = xmlDepth + 1 /\ xmlDepth < MaxNesting
          /\ xmlPc = "element" /\ xmlPc' = "content"
      <4>1. xmlDepth \in Nat
        BY DEF IInv, FramesRight, DepthRight
      <4> QED BY <2>4, <4>1, NestingAssumption DEF OpenElement, Element, ElementTooDeep, GotoToken
    <3>2. f.kind \in Containers /\ f.keys = << >> /\ f.values = << >>
      BY <2>4 DEF OpenElement, ElementFrame
    <3> HIDE DEF f
    <3>3. << >> \in Seq(Range(<< >>)) /\ Len(<< >>) = 0
      OBVIOUS
    <3>4. FrameOK(f) /\ Settled(f)
      BY <3>2, <3>3 DEF FrameOK, Settled
    <3>5. PositionRight'
      BY <2>4, <3>1, Moved DEF OpenElement, GotoToken, IInv, PositionRight
    <3> QED BY <3>1, <3>4, <3>5, PushStep
  <2>5. CASE Scalar \/ Truth
    <3>1. UNCHANGED <<xmlDepth, xmlStack>> /\ UNCHANGED decoder /\ xmlPc = "element" /\ xmlPc' \in {"return", "error"}
      BY <2>5 DEF Scalar, Truth, Element, ReturnStored
    <3>2. PositionRight'
      <4>1. CASE Scalar
        <5>1. \/ xmlPos' = xmlPos
              \/ \E last \in {EndOf(xmlDoc.tokens, xmlPos)} : last < limit /\ xmlPos' = last + 1
          BY <4>1 DEF Scalar
        <5> QED BY <3>1, <5>1, Moved
      <4>2. CASE Truth
        <5>1. \E last \in {EndOf(xmlDoc.tokens, xmlPos)} : xmlPos' = After(last)
          BY <4>2 DEF Truth
        <5> QED BY <3>1, <5>1, Moved
      <4> QED BY <2>5, <4>1, <4>2
    <3>3. PcRight' /\ TopRight'
      BY <3>1 DEF IInv, PcRight, TopRight
    <3> QED BY <3>1, <3>2, <3>3, StayStep
  <2>6. CASE PlistChild \/ ArrayChild
    <3>1. /\ UNCHANGED <<xmlStack, xmlDepth>> /\ xmlPc' = "element" /\ xmlPos # limit /\ xmlPc = "content"
          /\ UNCHANGED decoder /\ xmlPos' = xmlPos /\ TopElement.kind \in {"plist", "array"}
      BY <2>6 DEF PlistChild, ArrayChild, Child, AtToken, NoToken, GotoToken
    <3>2. PositionRight'
      BY <3>1 DEF decoder, IInv, PositionRight
    <3>3. PcRight' /\ TopRight'
      BY <3>1 DEF IInv, PcRight, TopRight, Waiting, TopElement, Last
    <3> QED BY <3>1, <3>2, <3>3, StayStep
  <2>7. CASE DictValue
    <3> DEFINE keys == Append(TopElement.keys, TopElement.key[1])
               v == [kind |-> TopElement.kind, attrs |-> TopElement.attrs, keys |-> keys, values |-> TopElement.values, key |-> << >>]
    <3>1. /\ xmlPc = "content" /\ xmlPc' = "element" /\ xmlPos # limit /\ xmlPos' = xmlPos /\ UNCHANGED decoder
          /\ xmlDepth' = xmlDepth /\ xmlStack' = [xmlStack EXCEPT ![Len(xmlStack)] = v]
      BY <2>7 DEF DictValue, Child, AtToken, NoToken, GotoToken, ChangeTop, TopElement, Last
    <3>2. xmlStack # << >> /\ FrameOK(TopElement) /\ Settled(TopElement)
      BY <3>1, TopFrame DEF IInv, PcRight, TopRight, TopElement, Last
    <3>3. /\ keys \in Seq(Range(keys)) /\ Len(keys) = Len(TopElement.keys) + 1
          /\ TopElement.values \in Seq(Range(TopElement.values))
      BY <3>2, AppendedToOwn DEF FrameOK
    <3>4. v.kind = TopElement.kind /\ v.keys = keys /\ v.values = TopElement.values
      OBVIOUS
    <3> HIDE DEF keys
    <3>5. FrameOK(v)
      BY <3>2, <3>3, ChangedFrame
    <3> HIDE DEF v
    <3>6. Waiting(v)
      BY <3>2, <3>3, <3>4 DEF Settled, Waiting
    <3>7. PositionRight'
      BY <3>1 DEF decoder, IInv, PositionRight
    <3> QED BY <3>1, <3>2, <3>5, <3>6, <3>7, TopStep
  <2>8. CASE KeyChild
    <3>1. xmlStack # << >> /\ FrameOK(TopElement) /\ Settled(TopElement)
      BY <2>8, TopFrame DEF KeyChild, AtToken, IInv, PcRight, TopRight, TopElement, Last
    <3>2. xmlPc' = "content" /\ xmlDepth' = xmlDepth /\ UNCHANGED decoder
      BY <2>8 DEF KeyChild, AtToken
    <3>3. \E key : xmlStack' = [xmlStack EXCEPT ![Len(xmlStack)] =
            [kind |-> TopElement.kind, attrs |-> TopElement.attrs, keys |-> TopElement.keys, values |-> TopElement.values, key |-> key]]
      BY <2>8 DEF KeyChild, ChangeTop, TopElement, Last
    <3>4. PositionRight'
      <4>1. \E last \in {EndOf(xmlDoc.tokens, xmlPos)} : xmlPos' = After(last)
        BY <2>8 DEF KeyChild
      <4> QED BY <3>2, <4>1, Moved
    <3>5. ASSUME NEW key PROVE
            LET v == [kind |-> TopElement.kind, attrs |-> TopElement.attrs, keys |-> TopElement.keys, values |-> TopElement.values, key |-> key]
            IN  FrameOK(v) /\ Settled(v)
      BY <3>1 DEF FrameOK, Settled
    <3>6. PICK v : xmlStack' = [xmlStack EXCEPT ![Len(xmlStack)] = v] /\ FrameOK(v) /\ Settled(v)
      BY <3>3, <3>5
    <3> QED BY <3>1, <3>2, <3>4, <3>6, TopStep
  <2>9. CASE CloseElement \/ CloseEmptyPlist \/ GotPlistValue
    <3>1. xmlStack' = Front(xmlStack) /\ xmlDepth' = xmlDepth - 1 /\ xmlPc' = "return" /\ UNCHANGED decoder
      BY <2>9 DEF CloseElement, CloseEmptyPlist, GotPlistValue, Pop, GotoToken, ReturnStored, Returned
    <3>2. xmlPos' = xmlPos \/ (xmlPos' = xmlPos + 1 /\ xmlPos # limit)
      BY <2>9 DEF CloseElement, CloseEmptyPlist, GotPlistValue, AtToken, NoToken, GotoToken
    <3>3. xmlStack # << >>
      BY <2>9 DEF CloseElement, CloseEmptyPlist, GotPlistValue, AtToken, Returned, IInv, PcRight
    <3>4. PositionRight'
      BY <3>1, <3>2, Moved
    <3> QED BY <3>1, <3>3, <3>4, PopStep
  <2>10. CASE GotValue
    <3> DEFINE values == Append(TopElement.values, xmlRet)
               v == [kind |-> TopElement.kind, attrs |-> TopElement.attrs, keys |-> TopElement.keys, values |-> values, key |-> TopElement.key]
    <3>1. /\ xmlPc = "return" /\ xmlStack # << >> /\ xmlPc' = "content" /\ xmlPos' = xmlPos /\ UNCHANGED decoder
          /\ xmlDepth' = xmlDepth /\ xmlStack' = [xmlStack EXCEPT ![Len(xmlStack)] = v]
      BY <2>10 DEF GotValue, Returned, ChangeTop, TopElement, Last
    <3>2. FrameOK(TopElement) /\ Waiting(TopElement)
      BY <3>1, TopFrame DEF IInv, TopRight, TopElement, Last
    <3>3. /\ values \in Seq(Range(values)) /\ Len(values) = Len(TopElement.values) + 1 /\ Len(TopElement.values) \in Nat
          /\ TopElement.keys \in Seq(Range(TopElement.keys))
      BY <3>2, AppendedToOwn DEF FrameOK
    <3>4. v.kind = TopElement.kind /\ v.keys = TopElement.keys /\ v.values = values
      OBVIOUS
    <3> HIDE DEF values
    <3>5. FrameOK(v)
      BY <3>2, <3>3, ChangedFrame
    <3> HIDE DEF v
    <3>6. Settled(v)
      BY <3>2, <3>3, <3>4 DEF Settled, Waiting
    <3>7. PositionRight'
      BY <3>1, Moved
    <3> QED BY <3>1, <3>5, <3>6, <3>7, TopStep
  <2>11. CASE UNCHANGED xmlVars
    BY <2>11 DEF xmlVars, IInv, PositionRight, PcRight, FramesRight, TopRight, DepthRight
  <2> QED BY <2>1, <2>2, <2>3, <2>4, <2>5, <2>6, <2>7, <2>8, <2>9, <2>10, <2>11 DEF XMLNext
<1> QED BY <1>1, <1>2, PTL DEF XMLSpec

\* The parser's fields have their types, and the keys of an open dictionary pair with its
\* values, on every document.
THEOREM TypeCorrect == XMLSpec => []ElementsTyped
<1>1. IInv => ElementsTyped
  <2> SUFFICES ASSUME IInv PROVE ElementsTyped
    OBVIOUS
  <2> DEFINE n == Len(xmlStack)
  <2>1. n \in Nat /\ DOMAIN xmlStack = 1 .. n
    BY DEF IInv, FramesRight
  <2>2. ASSUME NEW i \in 1 .. n, xmlStack[i].kind = "dict"
        PROVE  Len(xmlStack[i].keys) - Len(xmlStack[i].values)
                 \in (IF i = n /\ xmlPc = "content" THEN {0} ELSE {0, 1})
    <3> DEFINE k == Len(xmlStack[i].keys)
               w == Len(xmlStack[i].values)
    <3>1. k \in Nat /\ w \in Nat
      BY DEF IInv, FramesRight, FrameOK
    <3>2. i # n => k = w + 1
      <4>1. ASSUME i # n PROVE i \in 1 .. n - 1
        <5> HIDE DEF n
        <5> QED BY <2>1, <4>1
      <4> QED BY <2>2, <4>1 DEF IInv, FramesRight, Waiting
    <3>3. i = n => k = w \/ (k = w + 1 /\ xmlPc # "content")
      <4>1. i = n => xmlStack # << >>
        BY <2>1
      <4>2. i = n => xmlStack[Len(xmlStack)].kind = "dict"
        BY <2>2
      <4> QED BY <4>1, <4>2 DEF IInv, TopRight, Settled, Waiting
    <3> HIDE DEF k, w
    <3>4. k - w \in (IF i = n /\ xmlPc = "content" THEN {0} ELSE {0, 1})
      BY <3>1, <3>2, <3>3
    <3> QED BY <3>4 DEF k, w
  <2>3. \A i \in 1 .. n : xmlStack[i].kind \in Containers
    BY DEF IInv, FramesRight, FrameOK
  <2> QED BY <2>1, <2>2, <2>3 DEF ElementsTyped, IInv, PositionRight, PcRight
<1> QED BY <1>1, Inductive, PTL

\* No more than maxNestingDepth elements are ever open at once.
THEOREM OpenElementsBounded == XMLSpec => []ElementsBounded
<1>1. IInv => ElementsBounded
  BY DEF IInv, DepthRight, ElementsBounded
<1> QED BY <1>1, Inductive, PTL

--------------------------------------------------------------------------------
\* How elements nest.

Tokens(T) ==
  T \in Seq(Range(T)) /\ \A i \in 1 .. Len(T) : ~(Is("start", T[i]) /\ Is("end", T[i]))

\* The level after a stretch of tokens adds up from those of its parts.
LEMMA LevelSplit ==
  ASSUME NEW T, NEW p \in Nat, NEW m \in Nat, NEW q \in Nat, p <= m + 1, m <= q
  PROVE  /\ Level(T, p, m) \in Int /\ Level(T, m + 1, q) \in Int
         /\ Level(T, p, q) = Level(T, p, m) + Level(T, m + 1, q)
<1> DEFINE S(a, b) == {i \in a .. b : Is("start", T[i])}
           E(a, b) == {i \in a .. b : Is("end", T[i])}
<1>1. ASSUME NEW a \in Nat, NEW b \in Nat
      PROVE  /\ IsFiniteSet(S(a, b)) /\ Cardinality(S(a, b)) \in Nat
             /\ IsFiniteSet(E(a, b)) /\ Cardinality(E(a, b)) \in Nat
  <2>1. IsFiniteSet(a .. b) /\ S(a, b) \in SUBSET (a .. b) /\ E(a, b) \in SUBSET (a .. b)
    BY FS_Interval
  <2> HIDE DEF S, E
  <2>2. IsFiniteSet(S(a, b)) /\ IsFiniteSet(E(a, b))
    BY <2>1, FS_Subset
  <2> QED BY <2>2, FS_CardinalityType
<1>2. S(p, q) = S(p, m) \cup S(m + 1, q) /\ S(p, m) \cap S(m + 1, q) = {}
  OBVIOUS
<1>3. E(p, q) = E(p, m) \cup E(m + 1, q) /\ E(p, m) \cap E(m + 1, q) = {}
  OBVIOUS
<1>4. \A a, b : Level(T, a, b) = Cardinality(S(a, b)) - Cardinality(E(a, b))
  BY DEF Level
<1> HIDE DEF S, E
<1>5. Cardinality({}) = 0
  BY FS_EmptySet
<1>6. ASSUME NEW A, NEW B, IsFiniteSet(A), IsFiniteSet(B), A \cap B = {}
      PROVE  Cardinality(A \cup B) = Cardinality(A) + Cardinality(B)
  <2>1. Cardinality(A \cup B) = Cardinality(A) + Cardinality(B) - Cardinality(A \cap B)
    BY ONLY <1>6, FS_Union, Zenon
  <2>2. Cardinality(A) \in Nat /\ Cardinality(B) \in Nat
    BY <1>6, FS_CardinalityType
  <2>3. Cardinality(A \cap B) = 0
    BY ONLY <1>5, <1>6, Zenon
  <2> QED BY ONLY <2>1, <2>2, <2>3
<1>7. m + 1 \in Nat
  OBVIOUS
<1>8. Cardinality(S(p, q)) = Cardinality(S(p, m)) + Cardinality(S(m + 1, q))
  BY <1>1, <1>2, <1>6, <1>7
<1>9. Cardinality(E(p, q)) = Cardinality(E(p, m)) + Cardinality(E(m + 1, q))
  BY <1>1, <1>3, <1>6, <1>7
<1> DEFINE a1 == Cardinality(S(p, m))
           a2 == Cardinality(S(m + 1, q))
           b1 == Cardinality(E(p, m))
           b2 == Cardinality(E(m + 1, q))
<1>10. a1 \in Nat /\ a2 \in Nat /\ b1 \in Nat /\ b2 \in Nat
  BY <1>1, <1>7
<1>11. /\ Level(T, p, q) = (a1 + a2) - (b1 + b2)
       /\ Level(T, p, m) = a1 - b1 /\ Level(T, m + 1, q) = a2 - b2
  BY <1>4, <1>8, <1>9
<1> HIDE DEF a1, a2, b1, b2
<1> QED BY <1>10, <1>11

\* The level of a token alone: a start tag is one, an end tag minus one.
LEMMA LevelOne ==
  ASSUME NEW T, NEW q \in Nat
  PROVE  Level(T, q, q) = (IF Is("start", T[q]) THEN 1 ELSE 0) - (IF Is("end", T[q]) THEN 1 ELSE 0)
<1>1. /\ {i \in q .. q : Is("start", T[i])} = IF Is("start", T[q]) THEN {q} ELSE {}
      /\ {i \in q .. q : Is("end", T[i])} = IF Is("end", T[q]) THEN {q} ELSE {}
  OBVIOUS
<1>2. Cardinality({q}) = 1 /\ Cardinality({}) = 0
  BY FS_EmptySet, FS_Singleton
<1> QED BY <1>1, <1>2 DEF Level

\* One token more.
LEMMA LevelStep ==
  ASSUME NEW T, NEW p \in Nat, NEW q \in Nat, p <= q + 1
  PROVE  /\ Level(T, p, q) \in Int
         /\ Level(T, p, q + 1) = Level(T, p, q) + (IF Is("start", T[q + 1]) THEN 1 ELSE 0)
                                                 - (IF Is("end", T[q + 1]) THEN 1 ELSE 0)
<1>1. q + 1 \in Nat /\ q <= q + 1
  OBVIOUS
<1>2. Level(T, p, q) \in Int /\ Level(T, p, q + 1) = Level(T, p, q) + Level(T, q + 1, q + 1)
  BY <1>1, LevelSplit
<1> QED BY <1>1, <1>2, LevelOne

\* Where an element ends, and its levels up to there.
LEMMA EndOfIs ==
  ASSUME NEW T, Len(T) \in Nat, NEW p \in Nat \ {0}
  PROVE  /\ EndOf(T, p) \in 1 .. Len(T) + 1
         /\ EndOf(T, p) <= Len(T) => p <= EndOf(T, p) /\ Level(T, p, EndOf(T, p)) = 0
         /\ \A q \in p .. Len(T) : q < EndOf(T, p) => Level(T, p, q) # 0
<1> DEFINE S == {Len(T) + 1} \cup {q \in p .. Len(T) : Level(T, p, q) = 0}
<1>1. S \in SUBSET Nat /\ S # {} /\ Len(T) + 1 \in S
  OBVIOUS
<1>2. EndOf(T, p) = Min(S)
  BY DEF EndOf
<1>3. \A q \in p .. Len(T) : Level(T, p, q) = 0 => q \in S
  OBVIOUS
<1>4. \A q \in S : q <= Len(T) => p <= q /\ Level(T, p, q) = 0
  OBVIOUS
<1> HIDE DEF S
<1>5. \E x \in S : \A y \in S : x <= y
  BY <1>1, LeastNatural
<1>6. Min(S) \in S /\ \A y \in S : Min(S) <= y
  BY <1>5 DEF Min
<1>7. ASSUME NEW q \in p .. Len(T), q < EndOf(T, p) PROVE q \notin S
  <2>0. Min(S) \in Nat /\ q < Min(S)
    BY ONLY <1>1, <1>2, <1>6, <1>7
  <2>1. Min(S) \in Nat /\ q \in Nat /\ q < Min(S)
    BY <2>0
  <2>2. ~(Min(S) <= q)
    BY <2>1
  <2> QED BY <1>6, <2>2
<1> QED BY <1>2, <1>3, <1>4, <1>6, <1>7, EndOfRange

\* Inside an element the level is positive.
LEMMA Inside ==
  ASSUME NEW T, Tokens(T), NEW p \in StartTags(T), NEW q \in p .. Len(T), q < EndOf(T, p)
  PROVE  Level(T, p, q) \in Int /\ Level(T, p, q) >= 1
<1>0. Len(T) \in Nat /\ DOMAIN T = 1 .. Len(T) /\ p \in 1 .. Len(T) /\ Is("start", T[p]) /\ ~Is("end", T[p])
      /\ EndOf(T, p) \in Nat
  <2>1. Len(T) \in Nat /\ DOMAIN T = 1 .. Len(T)
    BY DEF Tokens
  <2>2. p \in 1 .. Len(T) /\ Is("start", T[p])
    BY <2>1 DEF StartTags
  <2>3. EndOf(T, p) \in Nat
    BY <2>1, <2>2, EndOfIs
  <2> QED BY <2>1, <2>2, <2>3 DEF Tokens
<1> DEFINE Low == {r \in Nat : r \in p .. Len(T) /\ r < EndOf(T, p) /\ ~(Level(T, p, r) \in Int /\ Level(T, p, r) >= 1)}
<1>1. Low = {}
  <2> SUFFICES ASSUME Low # {} PROVE FALSE
    OBVIOUS
  <2>1. PICK r \in Low : \A s \in Low : r <= s
    <3>1. Low \in SUBSET Nat
      OBVIOUS
    <3> HIDE DEF Low
    <3> QED BY <3>1, LeastNatural
  <2>2. r \in p .. Len(T) /\ r < EndOf(T, p) /\ ~(Level(T, p, r) \in Int /\ Level(T, p, r) >= 1)
    OBVIOUS
  <2>3. CASE r = p
    <3>1. Level(T, p, p) = 1
      BY <1>0, LevelOne
    <3> QED BY <2>2, <2>3, <3>1
  <2>4. CASE r # p
    <3>1. /\ r - 1 \in Nat /\ r - 1 \in p .. Len(T) /\ r - 1 < EndOf(T, p) /\ (r - 1) + 1 = r
          /\ p <= (r - 1) + 1 /\ p \in Nat /\ ~(r <= r - 1)
      BY <1>0, <2>2, <2>4
    <3>2. r - 1 \notin Low
      <4> HIDE DEF Low
      <4> QED BY <2>1, <3>1
    <3>3. Level(T, p, r - 1) \in Int /\ Level(T, p, r - 1) >= 1
      BY <3>1, <3>2
    <3>4. Level(T, p, r) = Level(T, p, r - 1) + (IF Is("start", T[r]) THEN 1 ELSE 0)
                                               - (IF Is("end", T[r]) THEN 1 ELSE 0)
      <4> DEFINE x == r - 1
      <4>1. x \in Nat /\ p <= x + 1 /\ x + 1 = r
        BY <3>1
      <4> HIDE DEF x
      <4>2. Level(T, p, x + 1) = Level(T, p, x) + (IF Is("start", T[x + 1]) THEN 1 ELSE 0)
                                               - (IF Is("end", T[x + 1]) THEN 1 ELSE 0)
        BY <3>1, <4>1, LevelStep
      <4> QED BY <4>1, <4>2 DEF x
    <3>5. Level(T, p, r) # 0
      BY <1>0, <2>2, EndOfIs
    <3> HIDE DEF Low
    <3> QED BY <2>2, <3>3, <3>4, <3>5
  <2> QED BY <2>3, <2>4
<1>2. q \in Nat
  BY <1>0
<1> QED BY <1>1, <1>2

\* An element that begins inside another ends inside it.
LEMMA NestedInside ==
  ASSUME NEW T, Tokens(T), NEW s \in StartTags(T), EndOf(T, s) <= Len(T),
         NEW k \in StartTags(T), s < k, k < EndOf(T, s)
  PROVE  EndOf(T, k) < EndOf(T, s) /\ k < EndOf(T, k) /\ EndOf(T, k) \in 1 .. Len(T)
<1> DEFINE e == EndOf(T, s)
<1>0. /\ Len(T) \in Nat /\ s \in 1 .. Len(T) /\ k \in 1 .. Len(T) /\ Is("start", T[k]) /\ ~Is("end", T[k])
      /\ e \in 1 .. Len(T) /\ EndOf(T, k) \in 1 .. Len(T) + 1
  <2>1. Len(T) \in Nat /\ DOMAIN T = 1 .. Len(T)
    BY DEF Tokens
  <2>2. s \in 1 .. Len(T) /\ k \in 1 .. Len(T) /\ Is("start", T[k])
    BY <2>1 DEF StartTags
  <2>3. s \in Nat \ {0} /\ k \in Nat \ {0}
    BY <2>2
  <2>4. e \in 1 .. Len(T) + 1 /\ EndOf(T, k) \in 1 .. Len(T) + 1
    BY <2>1, <2>3, EndOfIs
  <2> QED BY <2>1, <2>2, <2>4 DEF Tokens
<1>1. Level(T, s, e) = 0
  BY <1>0, EndOfIs
<1> DEFINE m == k - 1
<1>2. m \in Nat /\ m + 1 = k /\ m \in s .. Len(T) /\ m < e /\ s <= m + 1 /\ m <= e
  BY <1>0
<1> HIDE DEF m, e
<1>3. Level(T, s, m) \in Int /\ Level(T, s, m) >= 1
  BY <1>0, <1>2, Inside DEF e
<1>4. Level(T, s, e) = Level(T, s, m) + Level(T, m + 1, e) /\ Level(T, m + 1, e) \in Int
  <2>1. s \in Nat /\ m \in Nat /\ e \in Nat /\ s <= m + 1 /\ m <= e
    BY <1>0, <1>2 DEF e
  <2> QED BY ONLY <2>1, LevelSplit
<1>5. Level(T, k, e) \in Int /\ Level(T, k, e) < 0
  BY <1>1, <1>2, <1>3, <1>4
<1>6. EndOf(T, k) # e
  <2>1. Len(T) \in Nat /\ k \in Nat \ {0}
    BY <1>0
  <2>2. EndOf(T, k) <= Len(T) => Level(T, k, EndOf(T, k)) = 0
    BY ONLY <2>1, EndOfIs
  <2> QED BY <1>0, <1>5, <2>2
<1>7. ~(e < EndOf(T, k))
  <2> SUFFICES ASSUME e < EndOf(T, k) PROVE FALSE
    OBVIOUS
  <2>1. e \in k .. Len(T)
    BY <1>0, <1>2
  <2>2. Level(T, k, e) >= 1
    BY <2>1, Inside
  <2> QED BY <1>5, <2>2
<1>8. EndOf(T, k) < e
  BY <1>0, <1>6, <1>7
<1>9. k <= EndOf(T, k) /\ Level(T, k, EndOf(T, k)) = 0
  <2>1. Len(T) \in Nat /\ k \in Nat \ {0} /\ EndOf(T, k) <= Len(T)
    BY <1>0, <1>8
  <2> QED BY ONLY <2>1, EndOfIs
<1>10. Level(T, k, k) = 1
  BY <1>0, LevelOne
<1>11. k # EndOf(T, k)
  BY <1>9, <1>10
<1> QED BY <1>0, <1>8, <1>9, <1>11 DEF e

\* What a start tag is, and where its element ends.
LEMMA StartTagIs ==
  ASSUME NEW T, Tokens(T), NEW p \in StartTags(T)
  PROVE  /\ Len(T) \in Nat /\ DOMAIN T = 1 .. Len(T)
         /\ p \in 1 .. Len(T) /\ p \in Nat \ {0} /\ Is("start", T[p]) /\ ~Is("end", T[p])
         /\ EndOf(T, p) \in 1 .. Len(T) + 1 /\ EndOf(T, p) \in Nat
         /\ EndOf(T, p) <= Len(T) => p < EndOf(T, p) /\ Level(T, p, EndOf(T, p)) = 0
         /\ Level(T, p, p) = 1 /\ p # EndOf(T, p)
<1>1. Len(T) \in Nat /\ DOMAIN T = 1 .. Len(T)
  BY DEF Tokens
<1>2. p \in 1 .. Len(T) /\ Is("start", T[p])
  BY <1>1 DEF StartTags
<1>3. p \in Nat \ {0} /\ ~Is("end", T[p])
  BY <1>2 DEF Tokens
<1>4. /\ EndOf(T, p) \in 1 .. Len(T) + 1
      /\ EndOf(T, p) <= Len(T) => p <= EndOf(T, p) /\ Level(T, p, EndOf(T, p)) = 0
  BY <1>1, <1>3, EndOfIs
<1>5. Level(T, p, p) = 1
  BY <1>2, <1>3, LevelOne
<1>6. p # EndOf(T, p)
  <2> SUFFICES ASSUME p = EndOf(T, p) PROVE FALSE
    OBVIOUS
  <2>1. Level(T, p, EndOf(T, p)) = 0
    BY <1>2, <1>4
  <2> QED BY <1>5, <2>1
<1>7. EndOf(T, p) \in Nat /\ (EndOf(T, p) <= Len(T) => p < EndOf(T, p))
  BY <1>3, <1>4, <1>6
<1> QED BY <1>1, <1>2, <1>3, <1>4, <1>5, <1>6, <1>7

\* Two elements do not end at one place.
LEMMA EndsApart ==
  ASSUME NEW T, Tokens(T), NEW p \in StartTags(T), NEW q \in StartTags(T), EndOf(T, p) <= Len(T),
         EndOf(T, p) = EndOf(T, q)
  PROVE  p = q
<1>1. ASSUME NEW a \in StartTags(T), NEW b \in StartTags(T), EndOf(T, a) <= Len(T), EndOf(T, a) = EndOf(T, b)
      PROVE  ~(a < b)
  <2> SUFFICES ASSUME a < b PROVE FALSE
    OBVIOUS
  <2>1. b < EndOf(T, a)
    BY <1>1, StartTagIs
  <2>2. EndOf(T, b) < EndOf(T, a)
    BY <1>1, <2>1, NestedInside
  <2>3. EndOf(T, b) \in Nat
    BY StartTagIs
  <2> QED BY <1>1, <2>2, <2>3
<1>2. ~(p < q) /\ ~(q < p)
  BY <1>1
<1>3. p \in Nat /\ q \in Nat
  BY StartTagIs
<1> QED BY <1>2, <1>3

\* What is directly inside an element.
LEMMA KidIs ==
  ASSUME NEW T, Tokens(T), NEW s \in StartTags(T), EndOf(T, s) <= Len(T), NEW k \in Kids(T, s)
  PROVE  /\ k \in StartTags(T) /\ s < k /\ k < EndOf(T, k) /\ EndOf(T, k) < EndOf(T, s) /\ EndOf(T, k) <= Len(T)
         /\ Level(T, s, k) = 2 /\ Level(T, s, k - 1) = 1 /\ Level(T, s, EndOf(T, k)) = 1
         /\ \A j \in Kids(T, s) : k < j => EndOf(T, k) < j
<1>1. k \in StartTags(T) /\ s < k /\ k < EndOf(T, s) /\ Level(T, s, k) = 2
  BY DEF Kids
<1>2. /\ EndOf(T, k) < EndOf(T, s) /\ k < EndOf(T, k) /\ EndOf(T, k) \in 1 .. Len(T)
  BY <1>1, NestedInside
<1>3. /\ Len(T) \in Nat /\ s \in Nat \ {0} /\ k \in Nat \ {0} /\ Is("start", T[k]) /\ ~Is("end", T[k])
      /\ Level(T, k, EndOf(T, k)) = 0 /\ EndOf(T, k) \in Nat /\ k \in 1 .. Len(T) /\ EndOf(T, s) \in Nat
  BY <1>1, <1>2, StartTagIs
<1> DEFINE m == k - 1
           e == EndOf(T, k)
<1>4. m \in Nat /\ m + 1 = k /\ s <= m + 1 /\ m <= e /\ m < EndOf(T, s) /\ m \in s .. Len(T)
  BY <1>1, <1>2, <1>3
<1>5. e \in Nat
  BY <1>3
<1> HIDE DEF m, e
<1>6. Level(T, s, m) \in Int /\ Level(T, s, m + 1) = Level(T, s, m) + 1
  <2>1. /\ Level(T, s, m) \in Int
        /\ Level(T, s, m + 1) = Level(T, s, m) + (IF Is("start", T[m + 1]) THEN 1 ELSE 0)
                                               - (IF Is("end", T[m + 1]) THEN 1 ELSE 0)
    BY <1>3, <1>4, LevelStep
  <2> QED BY <1>3, <1>4, <2>1
<1>7. Level(T, s, m) = 1
  BY <1>1, <1>4, <1>6
<1>8. Level(T, s, e) = Level(T, s, m) + Level(T, m + 1, e)
  BY <1>3, <1>4, <1>5, LevelSplit
<1>9. Level(T, s, e) = 1
  BY <1>3, <1>4, <1>7, <1>8 DEF e
<1>10. ASSUME NEW j \in Kids(T, s), k < j PROVE e < j
  <2> SUFFICES ASSUME ~(e < j) PROVE FALSE
    OBVIOUS
  <2>1. j \in StartTags(T) /\ Level(T, s, j) = 2
    BY DEF Kids
  <2>2. j \in Nat \ {0} /\ Is("start", T[j]) /\ ~Is("end", T[j]) /\ j \in 1 .. Len(T)
    BY <2>1, StartTagIs
  <2> DEFINE x == j - 1
  <2>3. x \in Nat /\ x + 1 = j /\ x \in k .. Len(T) /\ x < e /\ m <= x /\ s <= m + 1 /\ s <= x + 1
    BY <1>1, <1>3, <1>4, <1>5, <1>10, <2>2
  <2> HIDE DEF x
  <2>4. Level(T, k, x) \in Int /\ Level(T, k, x) >= 1
    BY <1>1, <2>3, Inside DEF e
  <2>5. Level(T, s, x) = Level(T, s, m) + Level(T, m + 1, x)
    BY <1>3, <1>4, <2>3, LevelSplit
  <2>6. Level(T, s, x + 1) = Level(T, s, x) + (IF Is("start", T[x + 1]) THEN 1 ELSE 0)
                                             - (IF Is("end", T[x + 1]) THEN 1 ELSE 0)
    BY <1>3, <2>3, LevelStep
  <2>7. Level(T, s, j) = 1 + Level(T, k, x) + 1
    BY <1>4, <1>7, <2>2, <2>3, <2>4, <2>5, <2>6
  <2> QED BY <2>1, <2>4, <2>7
<1> QED BY <1>1, <1>2, <1>4, <1>7, <1>9, <1>10 DEF m, e

--------------------------------------------------------------------------------
\* Places in order.
LEMMA RankIs ==
  ASSUME NEW K, K \in SUBSET Nat, IsFiniteSet(K), NEW q \in Nat, \A k \in K : k < q
  PROVE  /\ q \notin K /\ IsFiniteSet(K \cup {q}) /\ Cardinality(K) \in Nat
         /\ Cardinality(K \cup {q}) = Cardinality(K) + 1
         /\ \A k \in K : {j \in K \cup {q} : j <= k} = {j \in K : j <= k}
         /\ {j \in K \cup {q} : j <= q} = K \cup {q}
<1>1. q \notin K /\ \A k \in K : ~(q <= k) /\ k <= q
  OBVIOUS
<1>2. IsFiniteSet(K \cup {q}) /\ Cardinality(K \cup {q}) = Cardinality(K) + 1 /\ Cardinality(K) \in Nat
  BY <1>1, FS_AddElement, FS_CardinalityType
<1>3. ASSUME NEW k \in K PROVE {j \in K \cup {q} : j <= k} = {j \in K : j <= k}
  BY <1>1
<1>4. {j \in K \cup {q} : j <= q} = K \cup {q}
  <2>1. \A j \in K \cup {q} : j <= q
    BY <1>1
  <2> QED BY ONLY <2>1, Zenon
<1> QED BY ONLY <1>1, <1>2, <1>3, <1>4

\* Every rank from one on is taken by a place.
LEMMA RanksTaken ==
  ASSUME NEW n \in Nat, NEW K, K \in SUBSET (0 .. n)
  PROVE  /\ IsFiniteSet(K) /\ Cardinality(K) \in Nat
         /\ \A k \in K : Cardinality({j \in K : j <= k}) \in 1 .. Cardinality(K)
         /\ \A i \in 1 .. Cardinality(K) : \E k \in K : Cardinality({j \in K : j <= k}) = i
<1> DEFINE Right(S) == /\ IsFiniteSet(S) /\ Cardinality(S) \in Nat
                       /\ \A k \in S : Cardinality({j \in S : j <= k}) \in 1 .. Cardinality(S)
                       /\ \A i \in 1 .. Cardinality(S) : \E k \in S : Cardinality({j \in S : j <= k}) = i
           Wrong == {m \in Nat : \E S \in SUBSET Nat : (\A x \in S : x < m) /\ ~Right(S)}
<1>1. Wrong = {}
  <2> SUFFICES ASSUME Wrong # {} PROVE FALSE
    OBVIOUS
  <2>1. PICK m \in Wrong : \A x \in Wrong : m <= x
    <3>1. Wrong \in SUBSET Nat
      OBVIOUS
    <3> HIDE DEF Wrong
    <3> QED BY <3>1, LeastNatural
  <2>2. m \in Nat /\ \E S \in SUBSET Nat : (\A x \in S : x < m) /\ ~Right(S)
    OBVIOUS
  <2>3. PICK S \in SUBSET Nat : (\A x \in S : x < m) /\ ~Right(S)
    BY <2>2
  <2>4. m # 0
    <3> SUFFICES ASSUME m = 0 PROVE FALSE
      OBVIOUS
    <3>1. S = {}
      BY <2>3
    <3>2. IsFiniteSet({}) /\ Cardinality({}) = 0
      BY FS_EmptySet
    <3>3. Right({})
      BY <3>2
    <3> HIDE DEF Right, Wrong
    <3> QED BY <2>3, <3>1, <3>3
  <2> DEFINE q == m - 1
             K0 == S \ {q}
  <2>5. q \in Nat /\ ~(m <= q) /\ K0 \in SUBSET Nat /\ \A x \in K0 : x < q
    BY <2>2, <2>3, <2>4
  <2>6. q \notin Wrong
    <3> HIDE DEF Wrong, q
    <3> QED BY <2>1, <2>5
  <2>7. Right(K0)
    <3> HIDE DEF q, K0, Right
    <3> QED BY <2>5, <2>6
  <2>8. q \in S
    <3> SUFFICES ASSUME q \notin S PROVE FALSE
      OBVIOUS
    <3>1. K0 = S
      OBVIOUS
    <3> HIDE DEF K0, Right, Wrong
    <3> QED BY <2>3, <2>7, <3>1
  <2>9. S = K0 \cup {q}
    BY <2>8
  <2> HIDE DEF q, K0
  <2> DEFINE c == Cardinality(K0)
  <2>10. /\ q \notin K0 /\ IsFiniteSet(S) /\ c \in Nat /\ Cardinality(S) = c + 1
         /\ \A k \in K0 : {j \in S : j <= k} = {j \in K0 : j <= k}
         /\ {j \in S : j <= q} = S
    <3>1. IsFiniteSet(K0)
      BY <2>7
    <3>2. /\ q \notin K0 /\ IsFiniteSet(K0 \cup {q}) /\ Cardinality(K0) \in Nat
          /\ Cardinality(K0 \cup {q}) = Cardinality(K0) + 1
          /\ \A k \in K0 : {j \in K0 \cup {q} : j <= k} = {j \in K0 : j <= k}
          /\ {j \in K0 \cup {q} : j <= q} = K0 \cup {q}
      BY ONLY <2>5, <3>1, RankIs
    <3> QED BY ONLY <2>9, <3>2 DEF c
  <2>11. ASSUME NEW k \in S PROVE Cardinality({j \in S : j <= k}) \in 1 .. c + 1
    <3>1. CASE k = q
      BY <2>10, <3>1
    <3>2. CASE k # q
      <4>1. k \in K0
        BY <2>9, <3>2
      <4>2. Cardinality({j \in K0 : j <= k}) \in 1 .. c
        BY <2>7, <4>1
      <4>3. Cardinality({j \in S : j <= k}) \in 1 .. c
        BY <2>10, <4>1, <4>2
      <4> QED BY <2>10, <4>3
    <3> QED BY <3>1, <3>2
  <2>12. ASSUME NEW i \in 1 .. c + 1 PROVE \E k \in S : Cardinality({j \in S : j <= k}) = i
    <3>1. CASE i = c + 1
      BY <2>8, <2>10, <3>1 DEF q
    <3>2. CASE i # c + 1
      <4>1. i \in 1 .. c
        BY <2>10, <3>2
      <4>2. PICK k \in K0 : Cardinality({j \in K0 : j <= k}) = i
        BY <2>7, <4>1
      <4> QED BY <2>9, <2>10, <4>2
    <3> QED BY <3>1, <3>2
  <2>13. Right(S)
    BY <2>10, <2>11, <2>12
  <2> HIDE DEF Right
  <2> QED BY <2>3, <2>13
<1>2. n + 1 \in Nat /\ K \in SUBSET Nat /\ \A x \in K : x < n + 1
  OBVIOUS
<1>3. Right(K)
  <2> HIDE DEF Right
  <2> QED BY <1>1, <1>2
<1> QED BY <1>3

\* InOrder lists the places of a finite set of them.
LEMMA InOrderIs ==
  ASSUME NEW n \in Nat, NEW K, K \in SUBSET (0 .. n)
  PROVE  /\ Cardinality(K) \in Nat /\ DOMAIN InOrder(K) = 1 .. Cardinality(K)
         /\ InOrder(K) \in Seq(K) /\ Len(InOrder(K)) = Cardinality(K)
         /\ \A i \in 1 .. Cardinality(K) : InOrder(K)[i] \in K
<1> DEFINE c == Cardinality(K)
<1>1. c \in Nat /\ \A i \in 1 .. c : \E k \in K : Cardinality({j \in K : j <= k}) = i
  BY RanksTaken
<1>2. InOrder(K) = [i \in 1 .. c |-> CHOOSE k \in K : Cardinality({j \in K : j <= k}) = i]
  BY DEF InOrder
<1> HIDE DEF c
<1>3. \A i \in 1 .. c : InOrder(K)[i] \in K
  BY <1>1, <1>2
<1> DEFINE s == InOrder(K)
<1>4. DOMAIN s = 1 .. c /\ s = [i \in 1 .. c |-> s[i]]
  BY <1>2
<1> HIDE DEF s
<1>5. s \in [1 .. c -> K]
  BY <1>3, <1>4 DEF s
<1>6. s \in Seq(K) /\ Len(s) = c
  BY <1>1, <1>5
<1> QED BY <1>1, <1>3, <1>4, <1>6 DEF c, s

\* A place after all the others comes last.
LEMMA InOrderLast ==
  ASSUME NEW n \in Nat, NEW K, K \in SUBSET (0 .. n), NEW q \in Nat, \A k \in K : k < q
  PROVE  InOrder(K \cup {q}) = Append(InOrder(K), q)
<1> DEFINE c == Cardinality(K)
           S == K \cup {q}
           Of(A, i) == CHOOSE k \in A : Cardinality({j \in A : j <= k}) = i
<1>1. /\ c \in Nat /\ IsFiniteSet(K) /\ K \in SUBSET Nat
      /\ \A k \in K : Cardinality({j \in K : j <= k}) \in 1 .. c
  <2>1. K \in SUBSET Nat
    OBVIOUS
  <2> QED BY <2>1, RanksTaken
<1>2. /\ q \notin K /\ Cardinality(S) = c + 1
      /\ \A k \in K : {j \in S : j <= k} = {j \in K : j <= k}
      /\ {j \in S : j <= q} = S
  <2>1. /\ q \notin K /\ Cardinality(K \cup {q}) = Cardinality(K) + 1
        /\ \A k \in K : {j \in K \cup {q} : j <= k} = {j \in K : j <= k}
        /\ {j \in K \cup {q} : j <= q} = K \cup {q}
    BY <1>1, RankIs
  <2> QED BY ONLY <2>1
<1>3. ASSUME NEW i \in 1 .. c PROVE Of(S, i) = Of(K, i)
  <2>1. \A k : (k \in S /\ Cardinality({j \in S : j <= k}) = i) <=> (k \in K /\ Cardinality({j \in K : j <= k}) = i)
    <3>1. Cardinality({j \in S : j <= q}) # i
      BY <1>1, <1>2
    <3> QED BY <1>2, <3>1
  <2> QED BY <2>1
<1>4. Of(S, c + 1) = q
  <2>1. \A k \in K : Cardinality({j \in S : j <= k}) # c + 1
    BY <1>1, <1>2
  <2>2. Cardinality({j \in S : j <= q}) = c + 1
    BY <1>2
  <2> QED BY <2>1, <2>2
<1>5. InOrder(K) \in Seq(K) /\ Len(InOrder(K)) = c /\ \A i \in 1 .. c : InOrder(K)[i] = Of(K, i)
  BY InOrderIs DEF InOrder
<1>6. InOrder(S) = [i \in 1 .. c + 1 |-> Of(S, i)]
  BY <1>2 DEF InOrder
<1> HIDE DEF Of, S, c
<1>7. /\ Append(InOrder(K), q) \in Seq(K \cup {q}) /\ Len(Append(InOrder(K), q)) = c + 1
      /\ \A i \in 1 .. c : Append(InOrder(K), q)[i] = InOrder(K)[i]
      /\ Append(InOrder(K), q)[c + 1] = q
  BY <1>5, Pushed
<1>8. Append(InOrder(K), q) = [i \in 1 .. c + 1 |-> Append(InOrder(K), q)[i]]
  <2> DEFINE s == Append(InOrder(K), q)
  <2> HIDE DEF s
  <2>1. s \in Seq(K \cup {q}) /\ Len(s) = c + 1
    BY <1>7 DEF s
  <2>2. s = [i \in 1 .. c + 1 |-> s[i]]
    BY <2>1
  <2> QED BY <2>2 DEF s
<1>9. ASSUME NEW i \in 1 .. c + 1 PROVE Append(InOrder(K), q)[i] = Of(S, i)
  <2>1. i \in 1 .. c \/ i = c + 1
    BY <1>1
  <2> QED BY <1>3, <1>4, <1>5, <1>7, <2>1
<1> QED BY <1>6, <1>8, <1>9 DEF S

\* The greatest of some places.
LEMMA MaxIs ==
  ASSUME NEW S \in SUBSET Nat, NEW x \in S, \A y \in S : y <= x
  PROVE  Max(S) = x
<1>1. \A y \in S : x >= y
  OBVIOUS
<1>2. \A z \in S : (\A y \in S : z >= y) => z = x
  OBVIOUS
<1> QED BY <1>1, <1>2 DEF Max

\* A bounded set of naturals has a greatest element.
LEMMA NatMax ==
  ASSUME NEW n \in Nat, NEW S \in SUBSET (0 .. n), S # {}
  PROVE  Max(S) \in S /\ Max(S) \in Nat /\ \A y \in S : y <= Max(S)
<1> DEFINE U == {u \in 0 .. n : \A y \in S : y <= u}
<1>1. n \in U /\ U \in SUBSET Nat /\ U # {}
  OBVIOUS
<1>2. PICK x \in U : \A u \in U : x <= u
  <2> HIDE DEF U
  <2> QED BY <1>1, LeastNatural
<1>3. x \in 0 .. n /\ \A y \in S : y <= x
  OBVIOUS
<1>4. x \in S
  <2> SUFFICES ASSUME x \notin S PROVE FALSE
    OBVIOUS
  <2>1. \A y \in S : y <= x - 1
    BY <1>3
  <2>2. PICK y \in S : TRUE
    OBVIOUS
  <2>3. x - 1 \in 0 .. n /\ ~(x <= x - 1)
    BY <1>3, <2>1, <2>2
  <2>4. x - 1 \in U
    BY <2>1, <2>3
  <2> HIDE DEF U
  <2> QED BY <1>2, <2>3, <2>4
<1>5. Max(S) = x
  BY <1>3, <1>4, MaxIs
<1> QED BY <1>3, <1>4, <1>5

--------------------------------------------------------------------------------
\* ValuesByEnd is the function it is defined to be.
LEMMA ValuesDefined ==
  ASSUME NEW T, Len(T) \in Nat
  PROVE  \A e \in 1 .. Len(T) :
           ValuesByEnd(T)[e] = Made(T, [n \in 1 .. e - 1 |-> ValuesByEnd(T)[n]], StartOf(T, e))
<1> DEFINE N == Len(T)
           Step(L, e) == Made(T, [n \in 1 .. e - 1 |-> L[n]], StartOf(T, e))
           Right(L, m) == L = [e \in 1 .. m |-> Step(L, e)]
           Without == {m \in Nat : ~ \E L : Right(L, m)}
<1>1. N \in Nat
  OBVIOUS
<1>2. Without = {}
  <2> SUFFICES ASSUME Without # {} PROVE FALSE
    OBVIOUS
  <2>1. PICK m \in Without : \A k \in Without : m <= k
    <3>1. Without \in SUBSET Nat
      OBVIOUS
    <3> HIDE DEF Without
    <3> QED BY <3>1, LeastNatural
  <2>2. PICK L : m = 0 \/ Right(L, m - 1)
    <3>1. m \in Nat
      OBVIOUS
    <3>2. m = 0 \/ (m - 1 \in Nat /\ ~(m <= m - 1))
      BY ONLY <3>1
    <3>3. m = 0 \/ m - 1 \notin Without
      <4> HIDE DEF Without
      <4> QED BY <3>2, <2>1
    <3>4. m = 0 \/ \E L : Right(L, m - 1)
      <4> HIDE DEF Right
      <4> QED BY <3>2, <3>3
    <3> HIDE DEF Right
    <3> QED BY <3>4
  <2> DEFINE K == [e \in 1 .. m |-> Step(L, e)]
  <2>0. m \in Nat
    OBVIOUS
  <2>3. ASSUME NEW e \in 1 .. m PROVE Step(K, e) = Step(L, e)
    <3>1. ASSUME NEW n \in 1 .. e - 1 PROVE K[n] = L[n]
      <4>1. n \in 1 .. m /\ n \in 1 .. m - 1 /\ m # 0
        BY <2>0, <2>3, <3>1
      <4>2. Right(L, m - 1)
        BY <2>2, <4>1
      <4>3. L[n] = Step(L, n)
        <5> HIDE DEF Step
        <5> QED BY <4>1, <4>2
      <4>4. K[n] = Step(L, n)
        <5> HIDE DEF Step
        <5> QED BY <4>1
      <4> HIDE DEF Step
      <4> QED BY <4>3, <4>4
    <3> HIDE DEF K
    <3>2. [n \in 1 .. e - 1 |-> K[n]] = [n \in 1 .. e - 1 |-> L[n]]
      BY <3>1
    <3> QED BY <3>2
  <2>4. Right(K, m)
    <3> HIDE DEF Step
    <3> QED BY <2>3
  <2> HIDE DEF Right
  <2> QED BY <2>1, <2>4
<1> DEFINE L == CHOOSE L : Right(L, N)
<1>3. Right(L, N)
  <2> HIDE DEF Right
  <2> QED BY <1>1, <1>2
<1>4. ValuesByEnd(T) = L
  BY DEF ValuesByEnd
<1> HIDE DEF L
<1>5. \A e \in 1 .. N : L[e] = Step(L, e)
  <2> HIDE DEF Step
  <2> QED BY <1>3
<1> QED BY <1>4, <1>5

\* The element that ends at e began at StartOf(T, e).
LEMMA StartOfIs ==
  ASSUME NEW T, Tokens(T), NEW p \in StartTags(T), EndOf(T, p) <= Len(T)
  PROVE  StartOf(T, EndOf(T, p)) = p
<1> DEFINE e == EndOf(T, p)
           S == {x \in 1 .. e : Level(T, x, e) = 0}
<1>1. /\ Len(T) \in Nat /\ p \in Nat \ {0} /\ e \in Nat /\ p < e /\ Level(T, p, e) = 0 /\ e <= Len(T)
  BY StartTagIs
<1>2. p \in S /\ S \in SUBSET Nat
  BY <1>1
<1>3. ASSUME NEW x \in S PROVE x <= p
  <2> SUFFICES ASSUME ~(x <= p) PROVE FALSE
    OBVIOUS
  <2>1. x \in 1 .. e /\ Level(T, x, e) = 0
    OBVIOUS
  <2> DEFINE m == x - 1
  <2> HIDE DEF e
  <2>2. m \in Nat /\ m + 1 = x /\ p <= m + 1 /\ m <= e /\ m \in p .. Len(T) /\ m < e
    BY <1>1, <2>1
  <2> HIDE DEF m
  <2>3. Level(T, p, e) = Level(T, p, m) + Level(T, m + 1, e)
    BY <1>1, <2>2, LevelSplit
  <2>4. Level(T, p, m) \in Int /\ Level(T, p, m) >= 1
    BY <2>2, Inside DEF e
  <2>5. Level(T, m + 1, e) = 0
    BY <2>1, <2>2
  <2> QED BY <1>1, <2>3, <2>4, <2>5
<1>4. Max(S) = p
  <2> HIDE DEF S
  <2> QED BY <1>2, <1>3, MaxIs
<1> QED BY <1>4 DEF StartOf

\* What an element stands for depends on the values that end no later than it.
LEMMA DenotedSame ==
  ASSUME NEW T, Tokens(T), NEW k \in StartTags(T), EndOf(T, k) <= Len(T), NEW V, NEW W,
         \A n \in 1 .. EndOf(T, k) : V[n] = W[n]
  PROVE  Denoted(T, V, k) = Denoted(T, W, k)
<1> DEFINE attrs == T[k].attrs
           id == attrs[Min(References(attrs))].value
           e == EndOf(T, k)
           ends == {EndOf(T, q) : q \in Bearers(T, id, e)}
<1>1. e \in 1 .. Len(T) + 1 /\ e \in Nat
  BY StartTagIs
<1>2. ends \in SUBSET (1 .. e)
  <2> SUFFICES ASSUME NEW q \in Bearers(T, id, e) PROVE EndOf(T, q) \in 1 .. e
    OBVIOUS
  <2>1. q \in StartTags(T) /\ EndOf(T, q) <= e
    BY DEF Bearers
  <2>2. EndOf(T, q) \in 1 .. Len(T) + 1
    BY <2>1, StartTagIs
  <2> QED BY <1>1, <2>1, <2>2
<1>3. ends # {} => Max(ends) \in 1 .. e
  <2> HIDE DEF ends
  <2>1. ends \in SUBSET (0 .. e)
    BY <1>1, <1>2
  <2>2. ends # {} => Max(ends) \in ends
    BY <1>1, <2>1, NatMax
  <2> QED BY <1>2, <2>2
<1>4. V[e] = W[e] /\ (ends # {} => V[Max(ends)] = W[Max(ends)])
  <2>1. e \in 1 .. e
    BY <1>1
  <2> QED BY <1>3, <2>1
<1> DEFINE Of(X) == CASE T[k].start \in Unnamed \/ References(attrs) = {} -> X[e]
                      [] T[k].start \notin Unnamed /\ References(attrs) # {} ->
                           IF ends = {} THEN Nil ELSE X[Max(ends)]
<1>5. Denoted(T, V, k) = Of(V) /\ Denoted(T, W, k) = Of(W)
  BY DEF Denoted
<1> HIDE DEF attrs, id, e, ends
<1>6. Of(V) = Of(W)
  BY <1>4
<1> QED BY <1>5, <1>6

\* The value of an element is made of what is inside it.
LEMMA ValueMade ==
  ASSUME NEW T, Tokens(T), NEW p \in StartTags(T), EndOf(T, p) <= Len(T)
  PROVE  ValuesByEnd(T)[EndOf(T, p)] = Made(T, ValuesByEnd(T), p)
<1> DEFINE V == ValuesByEnd(T)
           e == EndOf(T, p)
           W == [n \in 1 .. e - 1 |-> V[n]]
           places == InOrder(ValueKids(T, p))
           Of(X) == [i \in DOMAIN places |-> Denoted(T, X, places[i])]
<1>1. Len(T) \in Nat /\ DOMAIN T = 1 .. Len(T) /\ e \in 1 .. Len(T) + 1 /\ e <= Len(T) /\ e \in Nat
  BY StartTagIs
<1>2. StartOf(T, e) = p
  BY StartOfIs
<1>3. V[e] = Made(T, W, p)
  <2>1. \A n \in 1 .. Len(T) : V[n] = Made(T, [j \in 1 .. n - 1 |-> V[j]], StartOf(T, n))
    BY <1>1, ValuesDefined
  <2>2. e \in 1 .. Len(T)
    BY <1>1
  <2> QED BY <1>2, <2>1, <2>2
<1>4. ValueKids(T, p) \in SUBSET (0 .. Len(T))
  <2>1. ValueKids(T, p) \subseteq StartTags(T)
    BY DEF ValueKids, Kids
  <2>2. StartTags(T) \subseteq DOMAIN T
    BY DEF StartTags
  <2> QED BY <1>1, <2>1, <2>2
<1>5. ASSUME NEW i \in DOMAIN places PROVE Denoted(T, V, places[i]) = Denoted(T, W, places[i])
  <2>1. places[i] \in ValueKids(T, p)
    BY <1>1, <1>4, InOrderIs
  <2>2. places[i] \in Kids(T, p)
    BY <2>1 DEF ValueKids
  <2> DEFINE k == places[i]
  <2> HIDE DEF places
  <2>3. k \in StartTags(T) /\ EndOf(T, k) < EndOf(T, p) /\ EndOf(T, k) <= Len(T)
    BY <2>2, KidIs
  <2>4. EndOf(T, k) \in Nat
    BY <2>3, StartTagIs
  <2>5. \A n \in 1 .. EndOf(T, k) : n \in 1 .. e - 1
    BY <1>1, <2>3, <2>4
  <2>6. \A n \in 1 .. EndOf(T, k) : V[n] = W[n]
    BY <2>5
  <2> HIDE DEF k, V, W
  <2> QED BY <2>3, <2>6, DenotedSame DEF k
<1>6. Of(V) = Of(W)
  <2> HIDE DEF places, V, W
  <2> QED BY <1>5
<1> DEFINE Put(values) ==
             LET name == T[p].start
                 keys == [i \in DOMAIN places |-> KeyBefore(T, p, places[i])]
             IN  CASE name \in Scalars -> ScalarValue(name, ContentOf(T, p)).value
                   [] name \in Booleans -> Boolean(name = "true")
                   [] name = "plist" -> values[1]
                   [] name = "array" -> Array(values)
                   [] name = "dict" -> MaybeUID(keys, values, FALSE)
<1>7. ASSUME NEW X PROVE Made(T, X, p) = Put(Of(X))
  BY DEF Made
<1> HIDE DEF Put, Of, V, W
<1> QED BY <1>3, <1>6, <1>7 DEF V

--------------------------------------------------------------------------------
\* Where the parser is in the document.

\* What the element at p stands for, and those at a set of places in order.
Value(T, p) == Denoted(T, ValuesByEnd(T), p)
ValuesAt(T, K) == [i \in DOMAIN InOrder(K) |-> Value(T, InOrder(K)[i])]
KeysAt(T, s, K) == [i \in DOMAIN InOrder(K) |-> KeyBefore(T, s, InOrder(K)[i])]

\* The table of IDs when the tokens up to n are read.
Completed(T, n) == {q \in StartTags(T) : T[q].start \notin Unnamed /\ EndOf(T, q) <= n}
Known(T, n) ==
  [id \in UNION {Named(T[q].attrs) : q \in Completed(T, n)} |->
     ValuesByEnd(T)[Max({EndOf(T, q) : q \in Bearers(T, id, n)})]]

\* The children of s before m, and the key that waits there for its value.
KidsBefore(T, s, m) == {k \in Kids(T, s) : k < m}
ValuesBefore(T, s, m) == {k \in ValueKids(T, s) : k < m}
Pending(T, s, m) ==
  LET last == Max(KidsBefore(T, s, m))
  IN  IF KidsBefore(T, s, m) = {} \/ T[last].start # "key" THEN << >> ELSE <<ContentOf(T, last)>>

FrameAt(f, T, s, valued, keyed, key) ==
  /\ f.kind = T[s].start /\ f.attrs = T[s].attrs
  /\ f.values = ValuesAt(T, valued) /\ (f.kind = "dict" => f.keys = KeysAt(T, s, keyed))
  /\ f.key = key
ReadyAt(f, T, s, m) ==
  FrameAt(f, T, s, ValuesBefore(T, s, m), ValuesBefore(T, s, m), Pending(T, s, m))
WaitingAt(f, T, s, q) ==
  FrameAt(f, T, s, ValuesBefore(T, s, q), ValuesBefore(T, s, q) \cup {q}, << >>)

\* The places of the open elements, from the root.
OnPath(T, path) ==
  /\ path \in Seq(InRoot(T)) /\ path # << >> /\ path[1] = RootOf(T)
  /\ \A i \in 1 .. Len(path) - 1 : path[i + 1] \in ValueKids(T, path[i])
  /\ \A i \in 1 .. Len(path) : Level(T, RootOf(T), path[i]) = i
WaitingAlong(T, path) ==
  \A i \in 1 .. Len(path) - 1 : WaitingAt(xmlStack[i], T, path[i], path[i + 1])

\* From xmlPos to m nothing is left but tokens that will be skipped.
Unread(T, m) ==
  /\ xmlPos <= m
  /\ \A k \in xmlPos .. m - 1 :
       k < limit => ~Is("start", T[k]) /\ (Is("end", T[k]) => T[k].end \notin {"array", "dict"})

AtElement(T, path) ==
  /\ xmlPc = "element" /\ Len(path) = Len(xmlStack) + 1 /\ xmlPos = path[Len(path)]
  /\ idrefs = Known(T, xmlPos - 1)
AtReturn(T, path) ==
  LET q == path[Len(path)]
  IN  /\ xmlPc = "return" /\ Len(path) = Len(xmlStack) + 1
      /\ xmlRet = Value(T, q) /\ idrefs = Known(T, EndOf(T, q)) /\ Unread(T, EndOf(T, q) + 1)
InContent(T, path, m) ==
  LET s == path[Len(path)]
  IN  /\ xmlPc = "content" /\ Len(path) = Len(xmlStack)
      /\ s < m /\ m <= EndOf(T, s) /\ Level(T, s, m - 1) = 1
      /\ idrefs = Known(T, m - 1) /\ Unread(T, m)
      /\ ReadyAt(xmlStack[Len(xmlStack)], T, s, m)
      /\ T[s].start = "plist" => xmlPos = m /\ KidsBefore(T, s, m) = {}

Whole(T) == T = xmlDoc.tokens /\ Readable(T)
Lost == xmlPc \in {"error", "invalid"} \/ (xmlPc = "content" /\ xmlPos = limit)
Walk(T) ==
  \/ Lost /\ ~Whole(T)
  \/ xmlPc = "document" /\ xmlPos <= RootOf(T) /\ idrefs = NoIDs
  \/ xmlPc = "done" /\ xmlRet = MeaningOf(T)
  \/ \E path \in Seq(InRoot(T)) :
       /\ OnPath(T, path) /\ WaitingAlong(T, path)
       /\ \/ AtElement(T, path) \/ AtReturn(T, path)
          \/ \E m \in 1 .. Len(T) : InContent(T, path, m)
Agrees ==
  \A T \in {xmlDoc.tokens, xmlDoc.whole} : Begins(xmlDoc.tokens, T) /\ Sound(T) => Walk(T)

--------------------------------------------------------------------------------
\* An element ends with an end tag.
LEMMA EndTagIs ==
  ASSUME NEW T, Tokens(T), NEW q \in StartTags(T), EndOf(T, q) <= Len(T)
  PROVE  Is("end", T[EndOf(T, q)]) /\ ~Is("start", T[EndOf(T, q)])
<1> DEFINE e == EndOf(T, q)
           m == e - 1
<1>1. /\ Len(T) \in Nat /\ q \in Nat \ {0} /\ e \in 1 .. Len(T) + 1 /\ e \in Nat /\ e <= Len(T)
      /\ q < e /\ Level(T, q, e) = 0
  BY StartTagIs
<1>2. m \in Nat /\ m + 1 = e /\ q <= m + 1 /\ m \in q .. Len(T) /\ m < e /\ e \in 1 .. Len(T)
  BY <1>1
<1>3. Level(T, q, m) \in Int /\ Level(T, q, m) >= 1
  <2> HIDE DEF m
  <2> QED BY <1>2, Inside
<1> HIDE DEF m, e
<1>4. Level(T, q, m + 1) = Level(T, q, m) + (IF Is("start", T[m + 1]) THEN 1 ELSE 0)
                                         - (IF Is("end", T[m + 1]) THEN 1 ELSE 0)
  BY <1>1, <1>2, LevelStep
<1>5. Is("end", T[e])
  BY <1>1, <1>2, <1>3, <1>4
<1>6. ~(Is("start", T[e]) /\ Is("end", T[e]))
  BY <1>2 DEF Tokens
<1> QED BY <1>5, <1>6 DEF e

\* What the next token is to an open element whose content has been read up to it.
LEMMA NextToken ==
  ASSUME NEW T, Tokens(T), NEW s \in StartTags(T), EndOf(T, s) <= Len(T),
         NEW m \in Nat, s < m, m <= EndOf(T, s), Level(T, s, m - 1) = 1
  PROVE  /\ Is("start", T[m]) => m \in Kids(T, s)
         /\ Is("end", T[m]) => m = EndOf(T, s)
         /\ ~Is("start", T[m]) /\ ~Is("end", T[m]) => m < EndOf(T, s) /\ Level(T, s, m) = 1
<1> DEFINE n == m - 1
           e == EndOf(T, s)
<1>1. /\ Len(T) \in Nat /\ DOMAIN T = 1 .. Len(T) /\ s \in Nat \ {0} /\ e \in Nat /\ e <= Len(T)
      /\ Level(T, s, e) = 0
  BY StartTagIs
<1>2. n \in Nat /\ n + 1 = m /\ s <= n + 1 /\ m \in 1 .. Len(T)
  BY <1>1
<1>3. ~(Is("start", T[m]) /\ Is("end", T[m]))
  BY <1>2 DEF Tokens
<1>4. Level(T, s, n) = 1
  OBVIOUS
<1> HIDE DEF n
<1>5. /\ Level(T, s, n) \in Int
      /\ Level(T, s, n + 1) = Level(T, s, n) + (IF Is("start", T[n + 1]) THEN 1 ELSE 0)
                                            - (IF Is("end", T[n + 1]) THEN 1 ELSE 0)
  <2>1. s \in Nat
    BY <1>1
  <2> QED BY <1>2, <2>1, LevelStep
<1>6. Level(T, s, m) = 1 + (IF Is("start", T[m]) THEN 1 ELSE 0) - (IF Is("end", T[m]) THEN 1 ELSE 0)
  BY <1>2, <1>4, <1>5
<1>7. Is("start", T[m]) => Level(T, s, m) = 2
  BY <1>3, <1>6
<1>8. Is("end", T[m]) => Level(T, s, m) = 0
  BY <1>3, <1>6
<1>9. ~Is("start", T[m]) /\ ~Is("end", T[m]) => Level(T, s, m) = 1
  BY <1>6
<1>10. Level(T, s, m) # 0 => m < e
  BY <1>1
<1>11. Is("start", T[m]) => m \in StartTags(T)
  BY <1>1, <1>2 DEF StartTags
<1>12. ASSUME Is("end", T[m]) PROVE m = e
  <2>1. m \in s .. Len(T)
    BY <1>1, <1>2
  <2>2. ~(m < EndOf(T, s))
    BY <1>1, <1>8, <1>12, <2>1, EndOfIs
  <2> QED BY <1>1, <2>2
<1> QED BY <1>7, <1>9, <1>10, <1>11, <1>12 DEF Kids

\* Where an element has no child left, nothing begins or ends before its own end.
LEMMA NothingLeft ==
  ASSUME NEW T, Tokens(T), NEW s \in StartTags(T), EndOf(T, s) <= Len(T),
         NEW m \in Nat, s < m, m <= EndOf(T, s), Level(T, s, m - 1) = 1,
         \A k \in Kids(T, s) : k < m
  PROVE  \A k \in m .. EndOf(T, s) - 1 : ~Is("start", T[k]) /\ ~Is("end", T[k])
<1> DEFINE e == EndOf(T, s)
           Bad == {k \in Nat : k \in m .. e - 1 /\ ~(Level(T, s, k) = 1 /\ ~Is("start", T[k]) /\ ~Is("end", T[k]))}
<1>1. e \in Nat
  BY StartTagIs
<1>2. Bad = {}
  <2> SUFFICES ASSUME Bad # {} PROVE FALSE
    OBVIOUS
  <2>1. PICK k \in Bad : \A x \in Bad : k <= x
    <3>1. Bad \in SUBSET Nat
      OBVIOUS
    <3> HIDE DEF Bad
    <3> QED BY <3>1, LeastNatural
  <2>2. k \in Nat /\ k \in m .. e - 1 /\ ~(Level(T, s, k) = 1 /\ ~Is("start", T[k]) /\ ~Is("end", T[k]))
    OBVIOUS
  <2>3. Level(T, s, k - 1) = 1
    <3>1. CASE k = m
      BY <3>1
    <3>2. CASE k # m
      <4>1. k - 1 \in Nat /\ k - 1 \in m .. e - 1 /\ ~(k <= k - 1)
        BY <1>1, <2>2, <3>2
      <4>2. k - 1 \notin Bad
        <5> HIDE DEF Bad
        <5> QED BY <2>1, <4>1
      <4> QED BY <4>1, <4>2
    <3> QED BY <3>1, <3>2
  <2>4. s < k /\ k <= e /\ k # e /\ ~(k < m)
    <3>1. s \in Nat
      BY StartTagIs
    <3> QED BY <1>1, <2>2, <3>1
  <2> HIDE DEF Bad
  <2>5. /\ Is("start", T[k]) => k \in Kids(T, s)
        /\ Is("end", T[k]) => k = EndOf(T, s)
        /\ ~Is("start", T[k]) /\ ~Is("end", T[k]) => k < EndOf(T, s) /\ Level(T, s, k) = 1
    BY <2>2, <2>3, <2>4, NextToken
  <2> QED BY <2>2, <2>4, <2>5
<1>3. \A k \in m .. e - 1 : k \in Nat
  BY <1>1
<1> QED BY <1>2, <1>3

--------------------------------------------------------------------------------
\* The elements that are complete after the token at which one of them ends.
LEMMA CompletedNext ==
  ASSUME NEW T, Tokens(T), NEW q \in StartTags(T), EndOf(T, q) <= Len(T), T[q].start \notin Unnamed
  PROVE  Completed(T, EndOf(T, q)) = Completed(T, EndOf(T, q) - 1) \cup {q}
<1> DEFINE e == EndOf(T, q)
<1>1. e \in Nat
  BY StartTagIs
<1>2. ASSUME NEW r \in StartTags(T), EndOf(T, r) <= e PROVE EndOf(T, r) <= e - 1 \/ r = q
  <2>1. EndOf(T, r) \in Nat
    BY StartTagIs
  <2>2. CASE EndOf(T, r) = EndOf(T, q)
    BY <2>2, EndsApart
  <2>3. CASE EndOf(T, r) # EndOf(T, q)
    BY <1>1, <1>2, <2>1, <2>3
  <2> QED BY <2>2, <2>3
<1>3. ASSUME NEW r \in StartTags(T), EndOf(T, r) <= e - 1 PROVE EndOf(T, r) <= e
  <2>1. EndOf(T, r) \in Nat
    BY StartTagIs
  <2> QED BY <1>1, <1>3, <2>1
<1>4. e <= e
  BY <1>1
<1> QED BY <1>2, <1>3, <1>4 DEF Completed

\* Where no element with a name ends, none becomes complete.
LEMMA CompletedSame ==
  ASSUME NEW T, Tokens(T), NEW n \in Int, NEW m \in Int, n <= m,
         \A q \in StartTags(T) : T[q].start \notin Unnamed /\ EndOf(T, q) <= m => EndOf(T, q) <= n
  PROVE  Completed(T, n) = Completed(T, m) /\ Known(T, n) = Known(T, m)
<1>1. ASSUME NEW q \in StartTags(T), EndOf(T, q) <= n PROVE EndOf(T, q) <= m
  <2>1. EndOf(T, q) \in Nat
    BY StartTagIs
  <2> QED BY <1>1, <2>1
<1>2. Completed(T, n) = Completed(T, m)
  BY <1>1 DEF Completed
<1>3. \A id : Bearers(T, id, n) = Bearers(T, id, m)
  BY <1>1 DEF Bearers
<1>4. Known(T, n) = Known(T, m)
  BY <1>2, <1>3 DEF Known
<1> QED BY <1>2, <1>4

\* Those that bear an ID are complete.
LEMMA BearersAre ==
  ASSUME NEW T, NEW id, NEW n
  PROVE  Bearers(T, id, n) = {q \in Completed(T, n) : id \in Named(T[q].attrs)}
BY DEF Bearers, Completed

\* storeOrFindXMLElementValue keeps the table, and returns what the element stands for.
LEMMA ReturnStep ==
  ASSUME NEW T, Tokens(T), NEW q \in StartTags(T), EndOf(T, q) <= Len(T), T[q].start \notin Unnamed,
         NEW n \in Int, Completed(T, n) = Completed(T, EndOf(T, q) - 1),
         NEW value, value = ValuesByEnd(T)[EndOf(T, q)]
  PROVE  /\ Stored(T[q].attrs, value, Known(T, n)) = Known(T, EndOf(T, q))
         /\ Found(T[q].attrs, value, Known(T, n)) = Value(T, q)
<1> DEFINE V == ValuesByEnd(T)
           e == EndOf(T, q)
           attrs == T[q].attrs
           EndsOf(id, k) == {EndOf(T, r) : r \in Bearers(T, id, k)}
           Names(k) == UNION {Named(T[r].attrs) : r \in Completed(T, k)}
<1>1. e \in Nat
  BY StartTagIs
<1>2. Completed(T, e) = Completed(T, n) \cup {q}
  BY CompletedNext
<1>3. Names(e) = Names(n) \cup Named(attrs)
  BY <1>2
<1>4. ASSUME NEW id \in Named(attrs) PROVE Max(EndsOf(id, e)) = e
  <2>1. q \in Bearers(T, id, e)
    BY <1>2, <1>4, BearersAre
  <2>2. e \in EndsOf(id, e)
    BY <2>1
  <2>3. \A x \in EndsOf(id, e) : x \in Nat /\ x <= e
    <3> SUFFICES ASSUME NEW r \in Bearers(T, id, e) PROVE EndOf(T, r) \in Nat /\ EndOf(T, r) <= e
      OBVIOUS
    <3>1. r \in StartTags(T) /\ EndOf(T, r) <= e
      BY DEF Bearers
    <3> QED BY <3>1, StartTagIs
  <2> DEFINE S == EndsOf(id, e)
  <2>4. S \in SUBSET Nat /\ e \in S /\ \A x \in S : x <= e
    BY <2>2, <2>3
  <2> HIDE DEF S, e
  <2>5. Max(S) = e
    BY <2>4, MaxIs
  <2> QED BY <2>5 DEF S
<1>5. ASSUME NEW id, id \notin Named(attrs) PROVE EndsOf(id, e) = EndsOf(id, n)
  <2>1. Bearers(T, id, e) = Bearers(T, id, n)
    BY <1>2, <1>5, BearersAre
  <2> QED BY <2>1
<1>6. /\ DOMAIN Known(T, n) = Names(n) /\ DOMAIN Known(T, e) = Names(e)
      /\ \A id \in Names(n) : Known(T, n)[id] = V[Max(EndsOf(id, n))]
      /\ \A id \in Names(e) : Known(T, e)[id] = V[Max(EndsOf(id, e))]
      /\ Known(T, e) = [id \in Names(e) |-> V[Max(EndsOf(id, e))]]
  BY DEF Known
<1>7. ASSUME NEW id PROVE id \in Names(e) <=> EndsOf(id, e) # {}
  <2>1. id \in Names(e) <=> Bearers(T, id, e) # {}
    BY BearersAre
  <2> QED BY <2>1
<1>8. value = V[e]
  OBVIOUS
<1>9. Stored(attrs, value, Known(T, n)) =
        [id \in Names(n) \cup Named(attrs) |-> IF id \in Named(attrs) THEN value ELSE Known(T, n)[id]]
  <2> HIDE DEF Names, attrs, Ends, V, e
  <2> QED BY <1>6 DEF Stored
<1>10. Value(T, q) = CASE References(attrs) = {} -> V[e]
                       [] References(attrs) # {} ->
                            LET id == attrs[Min(References(attrs))].value
                            IN  IF EndsOf(id, e) = {} THEN Nil ELSE V[Max(EndsOf(id, e))]
  BY DEF Value, Denoted
<1> HIDE DEF V, e, attrs, Ends, Names
<1>11. ASSUME NEW id \in Names(e)
       PROVE  V[Max(EndsOf(id, e))] = IF id \in Named(attrs) THEN value ELSE Known(T, n)[id]
  <2>1. CASE id \in Named(attrs)
    BY <1>4, <1>8, <2>1
  <2>2. CASE id \notin Named(attrs)
    BY <1>3, <1>5, <1>6, <2>2
  <2> QED BY <2>1, <2>2
<1>12. Stored(attrs, value, Known(T, n)) = Known(T, e)
  BY <1>3, <1>6, <1>9, <1>11
<1>13. Found(attrs, value, Known(T, n)) = Value(T, q)
  <2> DEFINE id == attrs[Min(References(attrs))].value
  <2>1. Found(attrs, value, Known(T, n)) =
          CASE References(attrs) = {} -> value
            [] References(attrs) # {} /\ id \in Names(e) -> Known(T, e)[id]
            [] OTHER -> Nil
    BY <1>6, <1>12 DEF Found
  <2>2. CASE References(attrs) = {}
    BY <1>8, <1>10, <2>1, <2>2
  <2>3. CASE References(attrs) # {}
    <3>1. Value(T, q) = IF EndsOf(id, e) = {} THEN Nil ELSE V[Max(EndsOf(id, e))]
      BY <1>10, <2>3
    <3> HIDE DEF id
    <3>2. CASE id \in Names(e)
      BY <1>6, <1>7, <2>1, <2>3, <3>1, <3>2
    <3>3. CASE id \notin Names(e)
      BY <1>7, <2>1, <2>3, <3>1, <3>3
    <3> QED BY <3>2, <3>3
  <2> QED BY <2>2, <2>3
<1> QED BY <1>12, <1>13 DEF attrs, e

--------------------------------------------------------------------------------
\* A document and its beginning: tags are the same, and so is every element that ends in
\* the beginning.
LEMMA SameTags ==
  ASSUME NEW t, NEW T, Tokens(t), Tokens(T), Begins(t, T)
  PROVE  /\ Len(t) \in Nat /\ Len(T) \in Nat /\ DOMAIN t = 1 .. Len(t) /\ DOMAIN T = 1 .. Len(T) /\ Len(t) <= Len(T)
         /\ \A i \in 1 .. Len(t) :
              /\ Is("start", t[i]) <=> Is("start", T[i])
              /\ Is("end", t[i]) <=> Is("end", T[i])
              /\ Is("start", T[i]) \/ Is("end", T[i]) \/ i # Len(t) => t[i] = T[i]
<1>1. Len(t) \in Nat /\ Len(T) \in Nat /\ DOMAIN t = 1 .. Len(t) /\ DOMAIN T = 1 .. Len(T) /\ Len(t) <= Len(T)
  BY DEF Tokens, Begins
<1>2. \A x : ~Is("start", CharData(x)) /\ ~Is("end", CharData(x))
  BY DEF Is, CharData
<1>3. ASSUME NEW i \in 1 .. Len(t)
      PROVE  t[i] = T[i] \/ (i = Len(t) /\ \E x, y : t[i] = CharData(x) /\ T[i] = CharData(y))
  <2>1. t[i] = T[i] \/ (i = Len(t) /\ t[i] = CharData(t[i].chars) /\ T[i] = CharData(T[i].chars))
    BY <1>1 DEF Begins
  <2> QED BY <2>1
<1>4. ASSUME NEW i \in 1 .. Len(t)
      PROVE  /\ Is("start", t[i]) <=> Is("start", T[i])
             /\ Is("end", t[i]) <=> Is("end", T[i])
             /\ Is("start", T[i]) \/ Is("end", T[i]) \/ i # Len(t) => t[i] = T[i]
  <2>1. CASE t[i] = T[i]
    BY <2>1
  <2>2. CASE i = Len(t) /\ \E x, y : t[i] = CharData(x) /\ T[i] = CharData(y)
    <3>1. ~Is("start", t[i]) /\ ~Is("end", t[i]) /\ ~Is("start", T[i]) /\ ~Is("end", T[i])
      BY <1>2, <2>2, Zenon
    <3> QED BY <2>2, <3>1, Zenon
  <2> QED BY <1>3, <2>1, <2>2
<1> QED BY <1>1, <1>4

\* Levels are the same in a document and in its beginning.
LEMMA SameLevel ==
  ASSUME NEW t, NEW T, Tokens(t), Tokens(T), Begins(t, T), NEW p \in Nat \ {0}, NEW q \in Nat, q <= Len(t)
  PROVE  Level(t, p, q) = Level(T, p, q)
<1>1. \A i \in p .. q : i \in 1 .. Len(t)
  BY SameTags
<1>2. /\ {i \in p .. q : Is("start", t[i])} = {i \in p .. q : Is("start", T[i])}
      /\ {i \in p .. q : Is("end", t[i])} = {i \in p .. q : Is("end", T[i])}
  BY <1>1, SameTags
<1> QED BY <1>2 DEF Level

\* So is an element that ends before the decoder fails.
LEMMA SameElement ==
  ASSUME NEW t, NEW T, Tokens(t), Tokens(T), Begins(t, T), NEW p \in StartTags(T), p <= Len(t),
         NEW fails \in 1 .. Len(t) + 1
  PROVE  /\ t[p] = T[p] /\ Is("start", t[p])
         /\ EndOf(t, p) < fails =>
              EndOf(t, p) = EndOf(T, p) /\ TextWithin(t, p, EndOf(t, p)) = ContentOf(T, p)
         /\ ~(EndOf(t, p) < fails) => ~(EndOf(T, p) < fails)
<1>0. /\ Len(t) \in Nat /\ Len(T) \in Nat /\ DOMAIN t = 1 .. Len(t) /\ Len(t) <= Len(T)
      /\ p \in Nat \ {0} /\ p \in 1 .. Len(T) /\ Is("start", T[p])
  BY SameTags, StartTagIs
<1>1. p \in 1 .. Len(t)
  BY <1>0
<1>2. t[p] = T[p] /\ Is("start", t[p])
  BY <1>0, <1>1, SameTags
<1>3. p \in StartTags(t)
  BY <1>0, <1>1, <1>2 DEF StartTags
<1> DEFINE e == EndOf(t, p)
           f == EndOf(T, p)
<1>4. e \in 1 .. Len(t) + 1 /\ f \in 1 .. Len(T) + 1 /\ e \in Nat /\ f \in Nat
  BY <1>3, StartTagIs
<1>5. \A q \in p .. Len(t) : q < e => Level(T, p, q) # 0
  <2> SUFFICES ASSUME NEW q \in p .. Len(t), q < e PROVE Level(T, p, q) # 0
    OBVIOUS
  <2>1. q \in Nat /\ q <= Len(t)
    BY <1>0
  <2>2. Level(t, p, q) = Level(T, p, q)
    BY <1>0, <2>1, SameLevel
  <2>3. Level(t, p, q) # 0
    BY <1>0, EndOfIs
  <2> QED BY <2>2, <2>3
<1>6. e <= Len(t) => p < e /\ Level(T, p, e) = 0
  <2> SUFFICES ASSUME e <= Len(t) PROVE p < e /\ Level(T, p, e) = 0
    OBVIOUS
  <2>1. p < e /\ Level(t, p, e) = 0
    BY <1>3, StartTagIs
  <2>2. Level(t, p, e) = Level(T, p, e)
    BY <1>0, <1>4, SameLevel
  <2> QED BY <2>1, <2>2
<1>7. /\ f <= Len(T) => p <= f /\ Level(T, p, f) = 0
      /\ \A q \in p .. Len(T) : q < f => Level(T, p, q) # 0
  BY <1>0, EndOfIs
<1> HIDE DEF e, f
<1>8. e <= Len(t) => e = f
  <2> SUFFICES ASSUME e <= Len(t) PROVE e = f
    OBVIOUS
  <2>1. p < e /\ Level(T, p, e) = 0
    BY <1>6
  <2>2. e \in p .. Len(T)
    BY <1>0, <1>4, <2>1
  <2>3. ~(e < f)
    BY <1>7, <2>1, <2>2
  <2>4. ~(f < e)
    <3> SUFFICES ASSUME f < e PROVE FALSE
      OBVIOUS
    <3>1. f <= Len(T) /\ f <= Len(t)
      BY <1>0, <1>4
    <3>2. p <= f /\ Level(T, p, f) = 0
      BY <1>7, <3>1
    <3>3. f \in p .. Len(t)
      BY <1>0, <1>4, <3>1, <3>2
    <3> QED BY <1>5, <3>2, <3>3
  <2> QED BY <1>4, <2>3, <2>4
<1>9. ~(e <= Len(t)) => ~(f <= Len(t))
  <2> SUFFICES ASSUME ~(e <= Len(t)), f <= Len(t) PROVE FALSE
    OBVIOUS
  <2>1. p <= f /\ Level(T, p, f) = 0
    BY <1>0, <1>4, <1>7
  <2>2. f \in p .. Len(t) /\ f < e
    BY <1>0, <1>4, <2>1
  <2> QED BY <1>5, <2>1, <2>2
<1>10. ASSUME e <= Len(t) PROVE TextWithin(t, p, e) = ContentOf(T, p)
  <2>1. p < e
    BY <1>6, <1>10
  <2>2. Is("end", t[e])
    BY <1>3, <1>10, EndTagIs DEF e
  <2>3. ASSUME NEW i \in 1 .. e - p PROVE t[p + i] = T[p + i] /\ Level(t, p, p + i) = Level(T, p, p + i)
    <3>1. p + i \in 1 .. Len(t) /\ p + i \in Nat /\ p + i <= Len(t)
      BY <1>0, <1>4, <1>10, <2>1
    <3>2. p + i = e \/ p + i # Len(t)
      <4>1. e \in Nat /\ p \in Nat /\ Len(t) \in Nat /\ i \in 1 .. e - p /\ e <= Len(t)
        BY <1>0, <1>4, <1>10
      <4> QED BY ONLY <4>1
    <3>3. t[p + i] = T[p + i]
      BY <2>2, <3>1, <3>2, SameTags
    <3>4. Level(t, p, p + i) = Level(T, p, p + i)
      <4> DEFINE q == p + i
      <4>1. q \in Nat /\ q <= Len(t)
        BY <3>1
      <4> HIDE DEF q
      <4>2. Level(t, p, q) = Level(T, p, q)
        BY <1>0, <4>1, SameLevel
      <4> QED BY <4>2 DEF q
    <3> QED BY <3>3, <3>4
  <2> DEFINE Line(X) == [i \in 1 .. e - p |->
               IF Is("chars", X[p + i]) /\ Level(X, p, p + i) = 1 THEN Characters(X[p + i].chars) ELSE << >>]
  <2>4. Line(t) = Line(T)
    BY <2>3
  <2>5. TextWithin(t, p, e) = FlattenSeq(Line(t)) /\ TextWithin(T, p, e) = FlattenSeq(Line(T))
    BY DEF TextWithin
  <2>6. ContentOf(T, p) = TextWithin(T, p, e)
    BY <1>8, <1>10 DEF ContentOf, f
  <2> HIDE DEF Line
  <2> QED BY <2>4, <2>5, <2>6
<1>11. e < fails => e <= Len(t)
  BY <1>0, <1>4
<1>12. ~(e < fails) => ~(f < fails)
  <2> SUFFICES ASSUME ~(e < fails), f < fails PROVE FALSE
    OBVIOUS
  <2>1. f <= Len(t)
    BY <1>0, <1>4
  <2>2. e = f
    BY <1>8, <1>9, <2>1
  <2> QED BY <2>2
<1>13. e < fails => EndOf(t, p) = EndOf(T, p) /\ TextWithin(t, p, EndOf(t, p)) = ContentOf(T, p)
  BY <1>8, <1>10, <1>11 DEF e, f
<1> QED BY <1>2, <1>12, <1>13 DEF e, f

--------------------------------------------------------------------------------
\* A sequence that goes on with one element more.
LEMMA OneMore ==
  ASSUME NEW u, u \in Seq(Range(u)), NEW w, w \in Seq(Range(w)), Len(w) = Len(u) + 1,
         \A i \in 1 .. Len(u) : w[i] = u[i]
  PROVE  w = Append(u, w[Len(u) + 1])
<1> DEFINE n == Len(u)
           v == w[n + 1]
           a == Append(u, v)
<1>1. n \in Nat
  OBVIOUS
<1>2. a \in Seq(Range(u) \cup {v}) /\ Len(a) = n + 1 /\ (\A i \in 1 .. n : a[i] = u[i]) /\ a[n + 1] = v
  BY Pushed
<1> HIDE DEF a
<1>3. a = [i \in 1 .. n + 1 |-> a[i]]
  BY <1>2
<1>4. ASSUME NEW i \in 1 .. n + 1 PROVE a[i] = w[i]
  <2>1. i \in 1 .. n \/ i = n + 1
    BY <1>1
  <2> QED BY <1>2, <2>1
<1>5. w = [i \in 1 .. n + 1 |-> w[i]]
  OBVIOUS
<1>6. a = w
  BY <1>3, <1>4, <1>5
<1> QED BY <1>6 DEF a

\* One child more is one value more at the end, and one key.
LEMMA ValuesAtNext ==
  ASSUME NEW T, Len(T) \in Nat, NEW K, K \in SUBSET (0 .. Len(T)), NEW q \in Nat, \A k \in K : k < q,
         NEW K1, K1 = K \cup {q}
  PROVE  ValuesAt(T, K1) = Append(ValuesAt(T, K), Value(T, q))
<1> DEFINE o == InOrder(K)
           c == Cardinality(K)
           a == Append(o, q)
<1>1. c \in Nat /\ DOMAIN o = 1 .. c /\ o \in Seq(K) /\ Len(o) = c
  BY InOrderIs
<1>2. InOrder(K1) = a
  BY InOrderLast
<1> HIDE DEF o, c
<1>3. /\ a \in Seq(K \cup {q}) /\ Len(a) = c + 1 /\ (\A i \in 1 .. c : a[i] = o[i]) /\ a[c + 1] = q
  BY <1>1, Pushed
<1> HIDE DEF a
<1>4. DOMAIN a = 1 .. c + 1
  BY <1>3
<1>5. c + 1 \in 1 .. c + 1 /\ \A i \in 1 .. c : i \in 1 .. c + 1
  BY <1>1
<1>6. ValuesAt(T, K1) = Append(ValuesAt(T, K), Value(T, q))
  <2> DEFINE u == [i \in 1 .. c |-> Value(T, o[i])]
             w == [i \in 1 .. c + 1 |-> Value(T, a[i])]
  <2>1. u = ValuesAt(T, K) /\ w = ValuesAt(T, K1)
    BY <1>1, <1>2, <1>4 DEF ValuesAt, o
  <2>2. u = [i \in 1 .. c |-> u[i]] /\ w = [i \in 1 .. c + 1 |-> w[i]]
        /\ (\A i \in 1 .. c : w[i] = u[i]) /\ w[c + 1] = Value(T, q)
    BY <1>3, <1>5
  <2> HIDE DEF u, w
  <2>3. w = Append(u, w[c + 1])
    <3>1. c \in Nat /\ c + 1 \in Nat
      BY <1>1
    <3>2. u \in Seq(Range(u)) /\ Len(u) = c
      BY <2>2, <3>1, FromFunction
    <3>3. w \in Seq(Range(w)) /\ Len(w) = c + 1
      <4> DEFINE d == c + 1
      <4>1. d \in Nat /\ w = [i \in 1 .. d |-> w[i]]
        BY <2>2, <3>1
      <4> HIDE DEF d
      <4>2. w \in Seq(Range(w)) /\ Len(w) = d
        BY <4>1, FromFunction
      <4> QED BY <4>2 DEF d
    <3>4. Len(w) = Len(u) + 1 /\ \A i \in 1 .. Len(u) : w[i] = u[i]
      BY <2>2, <3>2, <3>3
    <3>5. w = Append(u, w[Len(u) + 1])
      BY ONLY <3>2, <3>3, <3>4, OneMore
    <3> QED BY <3>2, <3>5
  <2> QED BY <2>1, <2>2, <2>3
<1> QED BY <1>6

\* The same for the keys of a dictionary.
LEMMA KeysAtNext ==
  ASSUME NEW T, NEW s, Len(T) \in Nat, NEW K, K \in SUBSET (0 .. Len(T)), NEW q \in Nat, \A k \in K : k < q,
         NEW K1, K1 = K \cup {q}
  PROVE  KeysAt(T, s, K1) = Append(KeysAt(T, s, K), KeyBefore(T, s, q))
<1> DEFINE o == InOrder(K)
           c == Cardinality(K)
           a == Append(o, q)
<1>1. c \in Nat /\ DOMAIN o = 1 .. c /\ o \in Seq(K) /\ Len(o) = c
  BY InOrderIs
<1>2. InOrder(K1) = a
  BY InOrderLast
<1> HIDE DEF o, c
<1>3. /\ a \in Seq(K \cup {q}) /\ Len(a) = c + 1 /\ (\A i \in 1 .. c : a[i] = o[i]) /\ a[c + 1] = q
  BY <1>1, Pushed
<1> HIDE DEF a
<1>4. DOMAIN a = 1 .. c + 1
  BY <1>3
<1>5. c + 1 \in 1 .. c + 1 /\ \A i \in 1 .. c : i \in 1 .. c + 1
  BY <1>1
<1>6. KeysAt(T, s, K1) = Append(KeysAt(T, s, K), KeyBefore(T, s, q))
  <2> DEFINE u == [i \in 1 .. c |-> KeyBefore(T, s, o[i])]
             w == [i \in 1 .. c + 1 |-> KeyBefore(T, s, a[i])]
  <2>1. u = KeysAt(T, s, K) /\ w = KeysAt(T, s, K1)
    BY <1>1, <1>2, <1>4 DEF KeysAt, o
  <2>2. u = [i \in 1 .. c |-> u[i]] /\ w = [i \in 1 .. c + 1 |-> w[i]]
        /\ (\A i \in 1 .. c : w[i] = u[i]) /\ w[c + 1] = KeyBefore(T, s, q)
    BY <1>3, <1>5
  <2> HIDE DEF u, w
  <2>3. w = Append(u, w[c + 1])
    <3>1. c \in Nat /\ c + 1 \in Nat
      BY <1>1
    <3>2. u \in Seq(Range(u)) /\ Len(u) = c
      BY <2>2, <3>1, FromFunction
    <3>3. w \in Seq(Range(w)) /\ Len(w) = c + 1
      <4> DEFINE d == c + 1
      <4>1. d \in Nat /\ w = [i \in 1 .. d |-> w[i]]
        BY <2>2, <3>1
      <4> HIDE DEF d
      <4>2. w \in Seq(Range(w)) /\ Len(w) = d
        BY <4>1, FromFunction
      <4> QED BY <4>2 DEF d
    <3>4. Len(w) = Len(u) + 1 /\ \A i \in 1 .. Len(u) : w[i] = u[i]
      BY <2>2, <3>2, <3>3
    <3>5. w = Append(u, w[Len(u) + 1])
      BY ONLY <3>2, <3>3, <3>4, OneMore
    <3> QED BY <3>2, <3>5
  <2> QED BY <2>1, <2>2, <2>3
<1> QED BY <1>6

\* No places, nothing in order.
LEMMA NothingInOrder ==
  ASSUME NEW T, NEW s
  PROVE  ValuesAt(T, {}) = << >> /\ KeysAt(T, s, {}) = << >>
<1>1. Cardinality({}) = 0 /\ 1 .. 0 = {}
  BY FS_EmptySet
<1>2. DOMAIN InOrder({}) = {}
  BY <1>1 DEF InOrder
<1> QED BY <1>2 DEF ValuesAt, KeysAt

--------------------------------------------------------------------------------
\* The children of an element before a place in it.
LEMMA KidsAre ==
  ASSUME NEW T, Tokens(T), NEW s, NEW m
  PROVE  /\ Len(T) \in Nat /\ Kids(T, s) \in SUBSET (0 .. Len(T)) /\ KidsBefore(T, s, m) \in SUBSET (0 .. Len(T))
         /\ ValueKids(T, s) \subseteq Kids(T, s) /\ ValuesBefore(T, s, m) \in SUBSET (0 .. Len(T))
         /\ \A k \in Kids(T, s) : k \in StartTags(T)
<1>1. Len(T) \in Nat /\ DOMAIN T = 1 .. Len(T)
  BY DEF Tokens
<1>2. StartTags(T) \in SUBSET (0 .. Len(T))
  BY <1>1 DEF StartTags
<1> QED BY <1>1, <1>2 DEF Kids, KidsBefore, ValueKids, ValuesBefore

\* After a child of s the next token is directly inside s again, and the child is the last one.
LEMMA KidAdded ==
  ASSUME NEW T, Tokens(T), NEW s \in StartTags(T), EndOf(T, s) <= Len(T), NEW q \in Kids(T, s),
         NEW m, m = EndOf(T, q) + 1
  PROVE  /\ m \in Nat /\ s < m /\ m <= EndOf(T, s) /\ Level(T, s, m - 1) = 1
         /\ KidsBefore(T, s, m) = KidsBefore(T, s, q) \cup {q}
         /\ T[q].start = "key" => ValuesBefore(T, s, m) = ValuesBefore(T, s, q)
         /\ T[q].start # "key" => ValuesBefore(T, s, m) = ValuesBefore(T, s, q) \cup {q}
         /\ Max(KidsBefore(T, s, m)) = q /\ KidsBefore(T, s, m) # {}
<1> DEFINE e == EndOf(T, q)
<1>1. /\ q \in StartTags(T) /\ s < q /\ q < e /\ e < EndOf(T, s) /\ e <= Len(T)
      /\ Level(T, s, e) = 1
      /\ \A j \in Kids(T, s) : q < j => e < j
  BY KidIs
<1>2. e \in Nat /\ q \in Nat /\ s \in Nat /\ EndOf(T, s) \in Nat /\ m = e + 1
  BY <1>1, StartTagIs
<1>3. ASSUME NEW j \in Kids(T, s) PROVE j < m <=> (j < q \/ j = q)
  <2>1. j \in Nat
    BY KidsAre, StartTagIs
  <2>2. q < j => e < j
    BY <1>1
  <2> HIDE DEF e
  <2> QED BY <1>1, <1>2, <2>1, <2>2
<1>4. KidsBefore(T, s, m) = KidsBefore(T, s, q) \cup {q}
  BY <1>3 DEF KidsBefore
<1>5. /\ T[q].start = "key" => ValuesBefore(T, s, m) = ValuesBefore(T, s, q)
      /\ T[q].start # "key" => ValuesBefore(T, s, m) = ValuesBefore(T, s, q) \cup {q}
  BY <1>3 DEF ValuesBefore, ValueKids
<1>6. Max(KidsBefore(T, s, m)) = q
  <2> DEFINE S == KidsBefore(T, s, m)
  <2>1. q \in S /\ \A x \in S : x <= q
    BY <1>2, <1>4 DEF KidsBefore
  <2>2. S \in SUBSET Nat
    BY KidsAre
  <2> HIDE DEF S
  <2>3. Max(S) = q
    BY <2>1, <2>2, MaxIs
  <2> QED BY <2>3 DEF S
<1>7. m \in Nat /\ s < m /\ m <= EndOf(T, s) /\ m - 1 = e
  BY <1>1, <1>2
<1>8. Level(T, s, m - 1) = 1
  BY <1>1, <1>7
<1> QED BY <1>4, <1>5, <1>6, <1>7, <1>8

\* Any other token adds no child.
LEMMA NoKidAdded ==
  ASSUME NEW T, Tokens(T), NEW s \in StartTags(T), NEW m \in Nat, m \notin Kids(T, s)
  PROVE  /\ KidsBefore(T, s, m + 1) = KidsBefore(T, s, m)
         /\ ValuesBefore(T, s, m + 1) = ValuesBefore(T, s, m)
<1>1. ASSUME NEW j \in Kids(T, s) PROVE j < m + 1 <=> j < m
  <2>1. j \in Nat
    BY KidsAre, StartTagIs
  <2>2. j # m
    BY <1>1
  <2> QED BY <2>1, <2>2
<1> QED BY <1>1 DEF KidsBefore, ValuesBefore, ValueKids

\* After the start tag there are none.
LEMMA NoKidYet ==
  ASSUME NEW T, Tokens(T), NEW s \in StartTags(T)
  PROVE  KidsBefore(T, s, s + 1) = {} /\ ValuesBefore(T, s, s + 1) = {}
<1>1. ASSUME NEW j \in Kids(T, s) PROVE ~(j < s + 1)
  <2>1. j \in Nat /\ s \in Nat /\ s < j
    BY KidsAre, StartTagIs DEF Kids
  <2> QED BY <2>1
<1> QED BY <1>1 DEF KidsBefore, ValuesBefore, ValueKids

\* At the end tag there are all.
LEMMA AllKids ==
  ASSUME NEW T, Tokens(T), NEW s \in StartTags(T)
  PROVE  /\ KidsBefore(T, s, EndOf(T, s)) = Kids(T, s)
         /\ ValuesBefore(T, s, EndOf(T, s)) = ValueKids(T, s)
BY DEF KidsBefore, ValuesBefore, ValueKids, Kids

--------------------------------------------------------------------------------
\* What the steps of a container's loop do to its frame.
LEMMA FrameOpened ==
  ASSUME NEW T, Tokens(T), NEW s \in StartTags(T)
  PROVE  ReadyAt(ElementFrame(T[s]), T, s, s + 1)
<1>1. KidsBefore(T, s, s + 1) = {} /\ ValuesBefore(T, s, s + 1) = {}
  BY NoKidYet
<1>2. Pending(T, s, s + 1) = << >>
  BY <1>1 DEF Pending
<1>3. ValuesAt(T, {}) = << >> /\ KeysAt(T, s, {}) = << >>
  BY NothingInOrder
<1> QED BY <1>1, <1>2, <1>3 DEF ReadyAt, FrameAt, ElementFrame

\* A token that is no child leaves it as it is.
LEMMA FrameSkipped ==
  ASSUME NEW T, Tokens(T), NEW s \in StartTags(T), NEW m \in Nat, m \notin Kids(T, s),
         NEW f, ReadyAt(f, T, s, m)
  PROVE  ReadyAt(f, T, s, m + 1)
<1>1. KidsBefore(T, s, m + 1) = KidsBefore(T, s, m) /\ ValuesBefore(T, s, m + 1) = ValuesBefore(T, s, m)
  BY NoKidAdded
<1>2. Pending(T, s, m + 1) = Pending(T, s, m)
  BY <1>1 DEF Pending
<1> QED BY <1>1, <1>2 DEF ReadyAt

\* The value of a child is added.
LEMMA FrameValued ==
  ASSUME NEW T, Tokens(T), NEW s \in StartTags(T), EndOf(T, s) <= Len(T), NEW q \in ValueKids(T, s),
         NEW f, WaitingAt(f, T, s, q)
  PROVE  ReadyAt([kind |-> f.kind, attrs |-> f.attrs, keys |-> f.keys,
                  values |-> Append(f.values, Value(T, q)), key |-> f.key], T, s, EndOf(T, q) + 1)
<1> DEFINE K == ValuesBefore(T, s, q)
           m == EndOf(T, q) + 1
<1>0. m = EndOf(T, q) + 1
  OBVIOUS
<1> HIDE DEF m
<1>1. q \in Kids(T, s) /\ T[q].start # "key"
  BY DEF ValueKids
<1>2. /\ ValuesBefore(T, s, m) = K \cup {q}
      /\ Max(KidsBefore(T, s, m)) = q
  BY <1>0, <1>1, KidAdded
<1>3. Pending(T, s, m) = << >>
  BY <1>1, <1>2 DEF Pending
<1>4. Len(T) \in Nat /\ K \in SUBSET (0 .. Len(T)) /\ q \in Nat /\ \A k \in K : k < q
  BY <1>1, KidsAre, StartTagIs DEF ValuesBefore
<1> HIDE DEF K
<1>5. ValuesAt(T, K \cup {q}) = Append(ValuesAt(T, K), Value(T, q))
  <2> DEFINE K1 == K \cup {q}
  <2>1. K1 = K \cup {q}
    OBVIOUS
  <2> HIDE DEF K1
  <2>2. ValuesAt(T, K1) = Append(ValuesAt(T, K), Value(T, q))
    BY <1>4, <2>1, ValuesAtNext
  <2> QED BY <2>2 DEF K1
<1>6. FrameAt(f, T, s, K, K \cup {q}, << >>)
  BY DEF WaitingAt, K
<1>7. FrameAt([kind |-> f.kind, attrs |-> f.attrs, keys |-> f.keys,
               values |-> Append(f.values, Value(T, q)), key |-> f.key], T, s, K \cup {q}, K \cup {q}, << >>)
  BY <1>5, <1>6 DEF FrameAt
<1> QED BY <1>2, <1>3, <1>7 DEF ReadyAt, m

\* A key is kept for the value that follows.
LEMMA FrameKeyed ==
  ASSUME NEW T, Tokens(T), NEW s \in StartTags(T), EndOf(T, s) <= Len(T),
         NEW q \in Kids(T, s), T[q].start = "key", NEW f, ReadyAt(f, T, s, q)
  PROVE  ReadyAt([kind |-> f.kind, attrs |-> f.attrs, keys |-> f.keys, values |-> f.values,
                  key |-> <<ContentOf(T, q)>>], T, s, EndOf(T, q) + 1)
<1> DEFINE K == ValuesBefore(T, s, q)
           m == EndOf(T, q) + 1
<1>0. m = EndOf(T, q) + 1
  OBVIOUS
<1> HIDE DEF m
<1>1. /\ ValuesBefore(T, s, m) = K
      /\ Max(KidsBefore(T, s, m)) = q /\ KidsBefore(T, s, m) # {}
  BY <1>0, KidAdded
<1>2. Pending(T, s, m) = <<ContentOf(T, q)>>
  BY <1>1 DEF Pending
<1> HIDE DEF K
<1>3. FrameAt(f, T, s, K, K, Pending(T, s, q))
  BY DEF ReadyAt, K
<1>4. FrameAt([kind |-> f.kind, attrs |-> f.attrs, keys |-> f.keys, values |-> f.values,
               key |-> <<ContentOf(T, q)>>], T, s, K, K, <<ContentOf(T, q)>>)
  BY <1>3 DEF FrameAt
<1> QED BY <1>1, <1>2, <1>4 DEF ReadyAt, m

\* The value of a dictionary is asked for: its key is used up.
LEMMA FrameAsked ==
  ASSUME NEW T, Tokens(T), NEW s \in StartTags(T), NEW q \in ValueKids(T, s), NEW f, ReadyAt(f, T, s, q), f.key # << >>
  PROVE  WaitingAt([kind |-> f.kind, attrs |-> f.attrs, keys |-> Append(f.keys, f.key[1]), values |-> f.values,
                    key |-> << >>], T, s, q)
<1> DEFINE K == ValuesBefore(T, s, q)
           last == Max(KidsBefore(T, s, q))
<1>1. q \in Kids(T, s)
  BY DEF ValueKids
<1>2. Len(T) \in Nat /\ K \in SUBSET (0 .. Len(T)) /\ q \in Nat /\ \A k \in K : k < q
  BY <1>1, KidsAre, StartTagIs DEF ValuesBefore
<1>3. f.key = Pending(T, s, q)
  BY DEF ReadyAt, FrameAt
<1>4. f.key = <<ContentOf(T, last)>>
  BY <1>3 DEF Pending
<1>5. KeyBefore(T, s, q) = ContentOf(T, last)
  BY DEF KeyBefore, KidsBefore
<1> HIDE DEF K, last
<1>6. f.key[1] = KeyBefore(T, s, q)
  BY <1>4, <1>5
<1>7. KeysAt(T, s, K \cup {q}) = Append(KeysAt(T, s, K), KeyBefore(T, s, q))
  <2> DEFINE K1 == K \cup {q}
  <2>1. K1 = K \cup {q}
    OBVIOUS
  <2> HIDE DEF K1
  <2>2. Len(T) \in Nat
    BY <1>2
  <2>3. K \in SUBSET (0 .. Len(T))
    BY <1>2
  <2>4. q \in Nat
    BY <1>2
  <2>5. \A k \in K : k < q
    BY <1>2
  <2>6. KeysAt(T, s, K1) = Append(KeysAt(T, s, K), KeyBefore(T, s, q))
    BY ONLY <2>1, <2>2, <2>3, <2>4, <2>5, KeysAtNext, ZenonT(60)
  <2> QED BY <2>6 DEF K1
<1>8. FrameAt(f, T, s, K, K, f.key)
  BY <1>3 DEF ReadyAt, K
<1>9. FrameAt([kind |-> f.kind, attrs |-> f.attrs, keys |-> Append(f.keys, f.key[1]), values |-> f.values,
               key |-> << >>], T, s, K, K \cup {q}, << >>)
  BY <1>6, <1>7, <1>8 DEF FrameAt
<1> QED BY <1>9 DEF WaitingAt, K

\* Only a dictionary keeps a key.
LEMMA NoKeyHere ==
  ASSUME NEW T, Tokens(T), NEW s \in StartTags(T), Kids(T, s) = ValueKids(T, s), NEW m
  PROVE  Pending(T, s, m) = << >>
<1> DEFINE S == KidsBefore(T, s, m)
           last == Max(S)
<1>1. ASSUME S # {} PROVE T[last].start # "key"
  <2>1. Len(T) \in Nat /\ S \in SUBSET (0 .. Len(T)) /\ S \subseteq ValueKids(T, s)
    BY KidsAre DEF KidsBefore
  <2> HIDE DEF S
  <2>2. last \in S
    BY <1>1, <2>1, NatMax
  <2> QED BY <2>1, <2>2 DEF ValueKids
<1> QED BY <1>1 DEF Pending

\* In an array and a plist element nothing is kept.
LEMMA FrameAskedNoKey ==
  ASSUME NEW T, Tokens(T), NEW s \in StartTags(T), Kids(T, s) = ValueKids(T, s), T[s].start # "dict",
         NEW q, NEW f, ReadyAt(f, T, s, q)
  PROVE  WaitingAt(f, T, s, q)
<1>1. Pending(T, s, q) = << >>
  BY NoKeyHere
<1> QED BY <1>1 DEF ReadyAt, WaitingAt, FrameAt

\* In a document that means something no key is missing, and no value.
LEMMA KeyWaits ==
  ASSUME NEW T, Tokens(T), NEW s \in StartTags(T), Paired(T, s), NEW q \in ValueKids(T, s)
  PROVE  Pending(T, s, q) # << >>
<1> DEFINE S == KidsBefore(T, s, q)
<1>1. PICK k \in Kids(T, s) : k < q /\ T[k].start = "key" /\ \A j \in Kids(T, s) : ~(k < j /\ j < q)
  BY DEF Paired
<1>2. S \in SUBSET Nat /\ k \in S /\ k \in Nat
  <2>1. k \in S
    BY <1>1 DEF KidsBefore
  <2>2. S \in SUBSET (0 .. Len(T)) /\ Len(T) \in Nat
    BY KidsAre
  <2> HIDE DEF S
  <2> QED BY <2>1, <2>2
<1>3. \A j \in S : j <= k
  <2>1. \A j \in S : ~(k < j)
    BY <1>1 DEF KidsBefore
  <2> QED BY <1>2, <2>1
<1> HIDE DEF S
<1>4. Max(S) = k
  BY <1>2, <1>3, MaxIs
<1> QED BY <1>1, <1>2, <1>4 DEF Pending, S

\* At the end tag of a dictionary no key is left.
LEMMA ValueFollowed ==
  ASSUME NEW T, Tokens(T), NEW s \in StartTags(T), Paired(T, s)
  PROVE  Pending(T, s, EndOf(T, s)) = << >>
<1> DEFINE S == Kids(T, s)
           last == Max(S)
<1>1. KidsBefore(T, s, EndOf(T, s)) = S
  BY AllKids
<1>2. ASSUME S # {} PROVE T[last].start # "key"
  <2> SUFFICES ASSUME T[last].start = "key" PROVE FALSE
    OBVIOUS
  <2>1. Len(T) \in Nat /\ S \in SUBSET (0 .. Len(T))
    BY KidsAre
  <2> HIDE DEF S
  <2>2. last \in S /\ last \in Nat /\ \A y \in S : y <= last
    BY <1>2, <2>1, NatMax
  <2> HIDE DEF last
  <2>3. PICK v \in ValueKids(T, s) : last < v
    BY <2>2 DEF Paired, S
  <2>4. v \in S /\ v \in Nat
    BY <2>1 DEF ValueKids, S
  <2> QED BY <2>2, <2>3, <2>4
<1> QED BY <1>1, <1>2 DEF Pending

\* A complete container gives what its element is made of.
LEMMA FrameClosed ==
  ASSUME NEW T, Tokens(T), NEW s \in StartTags(T), EndOf(T, s) <= Len(T), T[s].start \in {"array", "dict"},
         NEW f, ReadyAt(f, T, s, EndOf(T, s))
  PROVE  CollectionOf(f) = ValuesByEnd(T)[EndOf(T, s)]
<1> DEFINE K == ValueKids(T, s)
<1>1. FrameAt(f, T, s, K, K, Pending(T, s, EndOf(T, s)))
  BY AllKids DEF ReadyAt
<1>2. /\ ValuesAt(T, K) = [i \in DOMAIN InOrder(K) |-> Denoted(T, ValuesByEnd(T), InOrder(K)[i])]
      /\ KeysAt(T, s, K) = [i \in DOMAIN InOrder(K) |-> KeyBefore(T, s, InOrder(K)[i])]
  BY DEF ValuesAt, KeysAt, Value
<1>3. /\ T[s].start \notin Scalars /\ T[s].start \notin Booleans /\ T[s].start # "plist"
  BY DEF Scalars, EmptyValue, Booleans
<1>4. ValuesByEnd(T)[EndOf(T, s)] = Made(T, ValuesByEnd(T), s)
  BY ValueMade
<1>5. f.kind = T[s].start /\ f.values = ValuesAt(T, K) /\ (f.kind = "dict" => f.keys = KeysAt(T, s, K))
  BY <1>1 DEF FrameAt
<1> DEFINE places == InOrder(K)
           vs == [i \in DOMAIN places |-> Denoted(T, ValuesByEnd(T), places[i])]
           ks == [i \in DOMAIN places |-> KeyBefore(T, s, places[i])]
<1>6. Made(T, ValuesByEnd(T), s) =
        CASE T[s].start \in Scalars -> ScalarValue(T[s].start, ContentOf(T, s)).value
          [] T[s].start \in Booleans -> Boolean(T[s].start = "true")
          [] T[s].start = "plist" -> vs[1]
          [] T[s].start = "array" -> Array(vs)
          [] T[s].start = "dict" -> MaybeUID(ks, vs, FALSE)
  BY DEF Made
<1>7. f.values = vs /\ (f.kind = "dict" => f.keys = ks)
  BY <1>2, <1>5
<1> HIDE DEF K, places, vs, ks
<1>8. CASE T[s].start = "array"
  <2>1. CollectionOf(f) = Array(vs)
    BY <1>5, <1>7, <1>8 DEF CollectionOf
  <2>2. Made(T, ValuesByEnd(T), s) = Array(vs)
    BY <1>3, <1>6, <1>8
  <2> QED BY <1>4, <2>1, <2>2
<1>9. CASE T[s].start = "dict"
  <2>1. CollectionOf(f) = MaybeUID(ks, vs, FALSE)
    BY <1>5, <1>7, <1>9 DEF CollectionOf
  <2>2. Made(T, ValuesByEnd(T), s) = MaybeUID(ks, vs, FALSE)
    BY <1>3, <1>6, <1>9
  <2> QED BY <1>4, <2>1, <2>2
<1> QED BY <1>8, <1>9

\* The value of a scalar element and of a boolean.
LEMMA LeafMade ==
  ASSUME NEW T, Tokens(T), NEW p \in StartTags(T), EndOf(T, p) <= Len(T)
  PROVE  /\ T[p].start \in Scalars => ValuesByEnd(T)[EndOf(T, p)] = ScalarValue(T[p].start, ContentOf(T, p)).value
         /\ T[p].start \in Booleans => ValuesByEnd(T)[EndOf(T, p)] = Boolean(T[p].start = "true")
<1>1. ValuesByEnd(T)[EndOf(T, p)] = Made(T, ValuesByEnd(T), p)
  BY ValueMade
<1>2. ~(T[p].start \in Scalars /\ T[p].start \in Booleans)
  BY DEF Scalars, EmptyValue, Booleans
<1> DEFINE places == InOrder(ValueKids(T, p))
           vs == [i \in DOMAIN places |-> Denoted(T, ValuesByEnd(T), places[i])]
           ks == [i \in DOMAIN places |-> KeyBefore(T, p, places[i])]
<1>3. Made(T, ValuesByEnd(T), p) =
        CASE T[p].start \in Scalars -> ScalarValue(T[p].start, ContentOf(T, p)).value
          [] T[p].start \in Booleans -> Boolean(T[p].start = "true")
          [] T[p].start = "plist" -> vs[1]
          [] T[p].start = "array" -> Array(vs)
          [] T[p].start = "dict" -> MaybeUID(ks, vs, FALSE)
  BY DEF Made
<1> HIDE DEF vs, ks
<1>4. /\ T[p].start \in Scalars => T[p].start \notin {"plist", "array", "dict"}
      /\ T[p].start \in Booleans => T[p].start \notin {"plist", "array", "dict"}
  BY DEF Scalars, EmptyValue, Booleans
<1>5. T[p].start \in Scalars => Made(T, ValuesByEnd(T), p) = ScalarValue(T[p].start, ContentOf(T, p)).value
  BY <1>2, <1>3, <1>4
<1>6. T[p].start \in Booleans => Made(T, ValuesByEnd(T), p) = Boolean(T[p].start = "true")
  BY <1>2, <1>3, <1>4
<1> QED BY <1>1, <1>5, <1>6

\* A plist element stands for its only child.
LEMMA PlistStandsFor ==
  ASSUME NEW T, Tokens(T), NEW s \in StartTags(T), EndOf(T, s) <= Len(T), T[s].start = "plist",
         NEW q, ValueKids(T, s) = {q}
  PROVE  Value(T, s) = Value(T, q)
<1>1. q \in Nat
  BY KidsAre, StartTagIs
<1>2. InOrder({q}) = <<q>>
  <2>1. InOrder({} \cup {q}) = Append(InOrder({}), q)
    BY <1>1, InOrderLast
  <2>2. InOrder({}) = << >>
    <3>1. Cardinality({}) = 0
      BY FS_EmptySet
    <3> QED BY <3>1 DEF InOrder
  <2>3. Append(<< >>, q) = <<q>> /\ {} \cup {q} = {q}
    OBVIOUS
  <2> QED BY <2>1, <2>2, <2>3
<1> DEFINE places == InOrder(ValueKids(T, s))
           values == [i \in DOMAIN places |-> Denoted(T, ValuesByEnd(T), places[i])]
<1>3. DOMAIN places = 1 .. 1 /\ places[1] = q
  BY <1>2
<1>4. values[1] = Denoted(T, ValuesByEnd(T), q)
  <2> HIDE DEF places
  <2>1. 1 \in DOMAIN places
    BY <1>3
  <2> QED BY <1>3, <2>1
<1>5. "plist" \notin Scalars /\ "plist" \notin Booleans /\ "plist" \in Unnamed
  BY DEF Scalars, EmptyValue, Booleans, Unnamed
<1>6. Made(T, ValuesByEnd(T), s) = values[1]
  BY <1>5 DEF Made
<1>7. ValuesByEnd(T)[EndOf(T, s)] = Made(T, ValuesByEnd(T), s)
  BY ValueMade
<1>8. Value(T, s) = ValuesByEnd(T)[EndOf(T, s)]
  BY <1>5 DEF Value, Denoted
<1> QED BY <1>4, <1>6, <1>7, <1>8 DEF Value

--------------------------------------------------------------------------------
\* T is the document that is read, or one it is the beginning of, and means something.
Reading(T) ==
  /\ IInv /\ xmlDoc \in XMLDocs /\ limit = FailsAt(xmlDoc.tokens)
  /\ T \in {xmlDoc.tokens, xmlDoc.whole} /\ Begins(xmlDoc.tokens, T) /\ Sound(T)

\* The types of what is read.
LEMMA ReadingIs ==
  ASSUME NEW T, Reading(T)
  PROVE  /\ Tokens(xmlDoc.tokens) /\ Tokens(T) /\ Len(xmlDoc.tokens) \in Nat /\ Len(T) \in Nat
         /\ DOMAIN T = 1 .. Len(T) /\ Len(xmlDoc.tokens) <= Len(T)
         /\ limit \in 1 .. Len(xmlDoc.tokens) + 1 /\ xmlPos \in 1 .. limit /\ limit \in Nat /\ xmlPos \in Nat
<1>1. ASSUME NEW X \in {xmlDoc.tokens, xmlDoc.whole} PROVE Tokens(X)
  <2>1. X \in Seq(Range(X)) /\ \A token \in Range(X) : ~(Is("start", token) /\ Is("end", token))
    BY TokensAssumption DEF Reading
  <2>2. \A i \in 1 .. Len(X) : X[i] \in Range(X)
    BY <2>1, RangeWithin
  <2> QED BY <2>1, <2>2 DEF Tokens
<1>2. Tokens(xmlDoc.tokens) /\ Tokens(T)
  BY <1>1 DEF Reading
<1>3. /\ Len(xmlDoc.tokens) \in Nat /\ Len(T) \in Nat /\ DOMAIN T = 1 .. Len(T) /\ Len(xmlDoc.tokens) <= Len(T)
  BY <1>2, SameTags DEF Reading
<1>4. limit \in 1 .. Len(xmlDoc.tokens) + 1 /\ xmlPos \in 1 .. limit
  BY DEF Reading, IInv, PositionRight
<1> QED BY <1>2, <1>3, <1>4

\* The root element is the first.
LEMMA RootIs ==
  ASSUME NEW T, Tokens(T), Sound(T)
  PROVE  /\ RootOf(T) \in StartTags(T) /\ RootOf(T) \in InRoot(T)
         /\ \A p \in StartTags(T) : RootOf(T) <= p
<1>1. StartTags(T) \in SUBSET Nat
  BY StartTagIs
<1>2. StartTags(T) # {}
  BY DEF Sound
<1>3. \E x \in StartTags(T) : \A y \in StartTags(T) : x <= y
  BY <1>1, <1>2, LeastNatural
<1>4. Min(StartTags(T)) \in StartTags(T) /\ \A y \in StartTags(T) : Min(StartTags(T)) <= y
  BY <1>3 DEF Min
<1>5. RootOf(T) \in StartTags(T) /\ \A p \in StartTags(T) : RootOf(T) <= p
  BY <1>4 DEF RootOf
<1>6. RootOf(T) <= EndOf(T, RootOf(T))
  <2>1. /\ RootOf(T) \in Nat \ {0} /\ Len(T) \in Nat /\ EndOf(T, RootOf(T)) \in 1 .. Len(T) + 1
        /\ RootOf(T) \in 1 .. Len(T)
        /\ (EndOf(T, RootOf(T)) <= Len(T) => RootOf(T) < EndOf(T, RootOf(T)))
    BY <1>5, StartTagIs
  <2> DEFINE r == RootOf(T)
             e == EndOf(T, RootOf(T))
             n == Len(T)
  <2>2. r \in Nat \ {0} /\ n \in Nat /\ e \in 1 .. n + 1 /\ r \in 1 .. n /\ (e <= n => r < e)
    BY <2>1
  <2> HIDE DEF r, e, n
  <2>3. r <= e
    BY <2>2
  <2> QED BY <2>3 DEF r, e
<1> QED BY <1>5, <1>6 DEF InRoot

\* The elements in the root element end in it.
LEMMA InRootIs ==
  ASSUME NEW T, Tokens(T), Sound(T), NEW p \in InRoot(T)
  PROVE  /\ p \in StartTags(T) /\ SoundElement(T, p) /\ EndOf(T, p) <= Len(T)
         /\ p < EndOf(T, p) /\ EndOf(T, p) <= EndOf(T, RootOf(T)) /\ EndOf(T, p) \in Nat
         /\ \A k \in Kids(T, p) : k \in InRoot(T)
<1> DEFINE r == RootOf(T)
<1>1. p \in StartTags(T) /\ p <= EndOf(T, r)
  BY DEF InRoot
<1>2. r \in StartTags(T) /\ r \in InRoot(T) /\ r <= p
  BY <1>1, RootIs
<1>3. SoundElement(T, p) /\ SoundElement(T, r)
  BY <1>2 DEF Sound
<1>4. Len(T) \in Nat /\ DOMAIN T = 1 .. Len(T) /\ p \in Nat /\ r \in Nat /\ EndOf(T, r) \in Nat /\ EndOf(T, p) \in Nat
  BY <1>1, <1>2, StartTagIs
<1>5. EndOf(T, p) <= Len(T) /\ EndOf(T, r) <= Len(T)
  BY <1>3, <1>4 DEF SoundElement
<1>6. p < EndOf(T, p)
  BY <1>1, <1>5, StartTagIs
<1>7. p # EndOf(T, r)
  <2>1. ~Is("start", T[EndOf(T, r)]) /\ Is("start", T[p])
    BY <1>1, <1>2, <1>5, EndTagIs, StartTagIs
  <2> QED BY <2>1
<1> HIDE DEF r
<1>8. EndOf(T, p) <= EndOf(T, r)
  <2>1. CASE p = r
    BY <1>4, <2>1
  <2>2. CASE p # r
    <3>1. r < p /\ p < EndOf(T, r)
      BY <1>1, <1>2, <1>4, <1>7, <2>2
    <3>2. EndOf(T, p) < EndOf(T, r)
      BY <1>1, <1>2, <1>5, <3>1, NestedInside
    <3> QED BY <1>4, <3>2
  <2> QED BY <2>1, <2>2
<1>9. ASSUME NEW k \in Kids(T, p) PROVE k \in InRoot(T)
  <2>1. k \in StartTags(T) /\ k < EndOf(T, k) /\ EndOf(T, k) < EndOf(T, p)
    BY <1>1, <1>5, KidIs
  <2>2. k \in Nat /\ EndOf(T, k) \in Nat
    BY <2>1, StartTagIs
  <2>3. k <= EndOf(T, r)
    BY <1>4, <1>8, <2>1, <2>2
  <2> QED BY <2>1, <2>3 DEF InRoot, r
<1> QED BY <1>1, <1>3, <1>4, <1>5, <1>6, <1>8, <1>9 DEF r

--------------------------------------------------------------------------------
\* The path to an open element.
LEMMA OnPathIs ==
  ASSUME NEW T, Tokens(T), Sound(T), NEW path, OnPath(T, path)
  PROVE  /\ Len(path) \in Nat \ {0} /\ DOMAIN path = 1 .. Len(path) /\ path \in Seq(InRoot(T))
         /\ \A i \in 1 .. Len(path) : path[i] \in InRoot(T)
         /\ path[Len(path)] \in InRoot(T)
         /\ Level(T, RootOf(T), path[Len(path)]) = Len(path)
<1>1. path \in Seq(InRoot(T)) /\ path # << >> /\ \A i \in 1 .. Len(path) : Level(T, RootOf(T), path[i]) = i
  BY DEF OnPath
<1>2. Len(path) \in Nat \ {0} /\ DOMAIN path = 1 .. Len(path) /\ \A i \in 1 .. Len(path) : path[i] \in InRoot(T)
  BY <1>1
<1>3. Len(path) \in 1 .. Len(path)
  BY <1>2
<1> QED BY <1>1, <1>2, <1>3

\* The path starts at the root element.
LEMMA PathBegun ==
  ASSUME NEW T, Tokens(T), Sound(T)
  PROVE  OnPath(T, <<RootOf(T)>>) /\ Len(<<RootOf(T)>>) = 1 /\ <<RootOf(T)>>[1] = RootOf(T)
<1> DEFINE r == RootOf(T)
           path == <<r>>
<1>1. r \in InRoot(T) /\ r \in StartTags(T)
  BY RootIs
<1>2. Level(T, r, r) = 1
  BY <1>1, StartTagIs
<1> HIDE DEF r
<1>3. path \in Seq(InRoot(T)) /\ path # << >> /\ Len(path) = 1 /\ path[1] = r
  BY <1>1
<1> HIDE DEF path
<1>4. \A i \in 1 .. Len(path) : i = 1
  BY <1>3
<1>5. 1 .. Len(path) - 1 = {}
  BY <1>3
<1> QED BY <1>2, <1>3, <1>4, <1>5 DEF OnPath, r, path

\* From there it goes on to a child,
LEMMA PathPushed ==
  ASSUME NEW T, Tokens(T), Sound(T), NEW path, OnPath(T, path), NEW q \in ValueKids(T, path[Len(path)])
  PROVE  /\ OnPath(T, Append(path, q))
         /\ Len(Append(path, q)) = Len(path) + 1 /\ Append(path, q)[Len(path) + 1] = q
         /\ \A i \in 1 .. Len(path) : Append(path, q)[i] = path[i]
<1> DEFINE n == Len(path)
           s == path[n]
           r == RootOf(T)
           new == Append(path, q)
<1>1. /\ n \in Nat \ {0} /\ path \in Seq(InRoot(T)) /\ s \in InRoot(T)
      /\ Level(T, r, s) = n
  BY OnPathIs
<1>2. q \in Kids(T, s)
  BY DEF ValueKids
<1>3. s \in StartTags(T) /\ EndOf(T, s) <= Len(T) /\ q \in InRoot(T)
  BY <1>1, <1>2, InRootIs
<1>4. q \in StartTags(T) /\ s < q /\ Level(T, s, q) = 2
  BY <1>2, <1>3, KidIs
<1>5. /\ s \in Nat \ {0} /\ q \in Nat \ {0} /\ r \in Nat \ {0} /\ r <= s /\ Is("start", T[s]) /\ ~Is("end", T[s])
  BY <1>3, <1>4, RootIs, StartTagIs
<1> DEFINE m == s - 1
<1> HIDE DEF n, s, r
<1>6. m \in Nat /\ m + 1 = s /\ r <= m + 1 /\ m <= q
  BY <1>4, <1>5
<1> HIDE DEF m
<1>7. Level(T, r, m + 1) = Level(T, r, m) + (IF Is("start", T[m + 1]) THEN 1 ELSE 0)
                                         - (IF Is("end", T[m + 1]) THEN 1 ELSE 0)
      /\ Level(T, r, m) \in Int
  BY <1>5, <1>6, LevelStep
<1>8. Level(T, r, m) = n - 1
  BY <1>1, <1>5, <1>6, <1>7
<1>9. Level(T, r, q) = Level(T, r, m) + Level(T, m + 1, q)
  BY <1>5, <1>6, LevelSplit
<1>10. Level(T, r, q) = n + 1
  BY <1>1, <1>4, <1>6, <1>8, <1>9
<1>11. /\ new \in Seq(InRoot(T) \cup {q}) /\ Len(new) = n + 1 /\ (\A i \in 1 .. n : new[i] = path[i])
       /\ new[n + 1] = q
  BY <1>1, Pushed DEF n
<1> HIDE DEF new
<1>12. InRoot(T) \cup {q} = InRoot(T)
  BY <1>3
<1>13. \A i \in 1 .. n + 1 : Level(T, r, new[i]) = i
  <2> SUFFICES ASSUME NEW i \in 1 .. n + 1 PROVE Level(T, r, new[i]) = i
    OBVIOUS
  <2>1. i \in 1 .. n \/ i = n + 1
    BY <1>1
  <2>2. \A j \in 1 .. n : Level(T, r, path[j]) = j
    BY DEF OnPath, n, r
  <2> QED BY <1>10, <1>11, <2>1, <2>2
<1>14. \A i \in 1 .. (n + 1) - 1 : new[i + 1] \in ValueKids(T, new[i])
  <2> SUFFICES ASSUME NEW i \in 1 .. n PROVE new[i + 1] \in ValueKids(T, new[i])
    BY <1>1
  <2>1. CASE i = n
    BY <1>11, <2>1 DEF s, n
  <2>2. CASE i # n
    <3>1. i \in 1 .. n - 1 /\ i + 1 \in 1 .. n
      BY <1>1, <2>2
    <3>2. path[i + 1] \in ValueKids(T, path[i])
      BY <3>1 DEF OnPath, n
    <3> QED BY <1>11, <3>1, <3>2
  <2> QED BY <2>1, <2>2
<1>15. new[1] = r /\ new # << >>
  <2>1. path[1] = r /\ 1 \in 1 .. n
    BY <1>1 DEF OnPath, r
  <2>2. new # << >>
    BY <1>1, <1>11
  <2> QED BY <1>11, <2>1, <2>2
<1>16. OnPath(T, new)
  BY <1>11, <1>12, <1>13, <1>14, <1>15 DEF OnPath, r
<1> QED BY <1>11, <1>16 DEF new, n

\* and back to the element the child is in.
LEMMA PathPopped ==
  ASSUME NEW T, Tokens(T), Sound(T), NEW path, OnPath(T, path), Len(path) > 1
  PROVE  /\ OnPath(T, Front(path)) /\ Len(Front(path)) = Len(path) - 1
         /\ Front(path)[Len(path) - 1] = path[Len(path) - 1]
         /\ path[Len(path)] \in ValueKids(T, path[Len(path) - 1])
         /\ \A i \in 1 .. Len(path) - 1 : Front(path)[i] = path[i]
<1> DEFINE n == Len(path)
           new == Front(path)
<1>1. n \in Nat \ {0} /\ path \in Seq(InRoot(T)) /\ n > 1 /\ path # << >>
  BY OnPathIs DEF OnPath
<1>2. new \in Seq(InRoot(T)) /\ Len(new) = n - 1 /\ \A i \in 1 .. n - 1 : new[i] = path[i]
  BY <1>1, Popped
<1> HIDE DEF new, n
<1>3. /\ \A i \in 1 .. n - 1 : path[i + 1] \in ValueKids(T, path[i])
      /\ \A i \in 1 .. n : Level(T, RootOf(T), path[i]) = i
      /\ path[1] = RootOf(T)
  BY DEF OnPath, n
<1>4. \A i \in 1 .. (n - 1) - 1 : new[i + 1] \in ValueKids(T, new[i])
  <2> SUFFICES ASSUME NEW i \in 1 .. (n - 1) - 1 PROVE new[i + 1] \in ValueKids(T, new[i])
    OBVIOUS
  <2>1. i \in 1 .. n - 1 /\ i + 1 \in 1 .. n - 1
    BY <1>1
  <2> QED BY <1>2, <1>3, <2>1
<1>5. \A i \in 1 .. n - 1 : Level(T, RootOf(T), new[i]) = i
  <2>1. \A i \in 1 .. n - 1 : i \in 1 .. n
    BY <1>1
  <2> QED BY <1>2, <1>3, <2>1
<1>6. 1 \in 1 .. n - 1 /\ n - 1 \in 1 .. n - 1
  BY <1>1
<1>7. new[1] = RootOf(T) /\ new[n - 1] = path[n - 1] /\ new # << >>
  <2>1. new # << >>
    BY <1>1, <1>2
  <2> QED BY <1>2, <1>3, <1>6, <2>1
<1>8. path[n] \in ValueKids(T, path[n - 1])
  <2>1. path[(n - 1) + 1] \in ValueKids(T, path[n - 1])
    BY <1>3, <1>6
  <2>2. (n - 1) + 1 = n
    BY <1>1
  <2> QED BY <2>1, <2>2
<1>9. OnPath(T, new)
  BY <1>2, <1>4, <1>5, <1>7 DEF OnPath
<1> QED BY <1>2, <1>7, <1>8, <1>9 DEF new, n

--------------------------------------------------------------------------------
\* The walk goes on, or is lost.

\* A document that is to be read whole fails nowhere in its root element.
LEMMA WholeIs ==
  ASSUME NEW T, Reading(T), Whole(T)
  PROVE  EndOf(T, RootOf(T)) < limit /\ Shallow(T)
BY DEF Whole, Readable, Reading

\* Where the walk is, for each place of the program.
LEMMA WalkAt ==
  ASSUME NEW T, Walk(T)
  PROVE  /\ xmlPc = "document" => xmlPos <= RootOf(T) /\ idrefs = NoIDs
         /\ xmlPc = "done" => xmlRet = MeaningOf(T)
         /\ xmlPc \in {"error", "invalid"} => ~Whole(T)
         /\ xmlPc = "element" => \E path : OnPath(T, path) /\ WaitingAlong(T, path) /\ AtElement(T, path)
         /\ xmlPc = "return" => \E path : OnPath(T, path) /\ WaitingAlong(T, path) /\ AtReturn(T, path)
         /\ xmlPc = "content" =>
                 \/ ~Whole(T) /\ xmlPos = limit
                 \/ \E path : /\ OnPath(T, path) /\ WaitingAlong(T, path)
                              /\ \E m \in 1 .. Len(T) : InContent(T, path, m)
<1>1. CASE ~Whole(T) /\ Lost
  BY <1>1 DEF Lost
<1>2. CASE xmlPc = "document" /\ xmlPos <= RootOf(T) /\ idrefs = NoIDs
  BY <1>2
<1>3. CASE xmlPc = "done" /\ xmlRet = MeaningOf(T)
  BY <1>3
<1>4. CASE \E path \in Seq(InRoot(T)) :
             /\ OnPath(T, path) /\ WaitingAlong(T, path)
             /\ \/ AtElement(T, path) \/ AtReturn(T, path)
                \/ \E m \in 1 .. Len(T) : InContent(T, path, m)
  <2>1. PICK path : /\ OnPath(T, path) /\ WaitingAlong(T, path)
                    /\ \/ AtElement(T, path) \/ AtReturn(T, path)
                       \/ \E m \in 1 .. Len(T) : InContent(T, path, m)
    BY <1>4
  <2>2. CASE AtElement(T, path)
    <3>1. xmlPc = "element"
      BY <2>2 DEF AtElement
    <3> QED BY <2>1, <2>2, <3>1
  <2>3. CASE AtReturn(T, path)
    <3>1. xmlPc = "return"
      BY <2>3 DEF AtReturn
    <3> QED BY <2>1, <2>3, <3>1
  <2>4. CASE \E m \in 1 .. Len(T) : InContent(T, path, m)
    <3>1. xmlPc = "content"
      BY <2>4 DEF InContent
    <3> QED BY <2>1, <2>4, <3>1
  <2> QED BY <2>1, <2>2, <2>3, <2>4
<1> QED BY <1>1, <1>2, <1>3, <1>4 DEF Walk

\* The ways to go on.
LEMMA LostStep ==
  ASSUME NEW T, ~Whole(T), xmlDoc' = xmlDoc, limit' = limit,
         xmlPc' \in {"error", "invalid"} \/ (xmlPc' = "content" /\ xmlPos' = limit)
  PROVE  Walk(T)'
<1>1. ~Whole(T)'
  BY DEF Whole
<1>2. Lost'
  BY DEF Lost
<1> QED BY <1>1, <1>2 DEF Walk

\* A call of parseXMLElement for the last place on the path.
LEMMA ElementStep ==
  ASSUME NEW T, NEW path, OnPath(T, path), WaitingAlong(T, path)', AtElement(T, path)'
  PROVE  Walk(T)'
<1>1. path \in Seq(InRoot(T))
  BY DEF OnPath
<1>2. \E p \in Seq(InRoot(T)) : OnPath(T, p) /\ WaitingAlong(T, p)' /\ AtElement(T, p)'
  BY <1>1
<1> QED BY <1>2 DEF Walk

\* The loop of the element at the last place on the path.
LEMMA ContentStep ==
  ASSUME NEW T, NEW path, OnPath(T, path), WaitingAlong(T, path)', NEW m \in 1 .. Len(T), InContent(T, path, m)'
  PROVE  Walk(T)'
<1>1. path \in Seq(InRoot(T))
  BY DEF OnPath
<1>2. \E p \in Seq(InRoot(T)) : OnPath(T, p) /\ WaitingAlong(T, p)' /\ \E k \in 1 .. Len(T) : InContent(T, p, k)'
  BY <1>1
<1> QED BY <1>2 DEF Walk

\* The call for the last place on the path has returned.
LEMMA ReturnedStep ==
  ASSUME NEW T, NEW path, OnPath(T, path), WaitingAlong(T, path)', AtReturn(T, path)'
  PROVE  Walk(T)'
<1>1. path \in Seq(InRoot(T))
  BY DEF OnPath
<1>2. \E p \in Seq(InRoot(T)) : OnPath(T, p) /\ WaitingAlong(T, p)' /\ AtReturn(T, p)'
  BY <1>1
<1> QED BY <1>2 DEF Walk

--------------------------------------------------------------------------------
\* parseDocument.
LEMMA NotXMLKeeps ==
  ASSUME NEW T, Reading(T), Walk(T), NotXML
  PROVE  Walk(T)'
<1>1. xmlPc = "document" /\ xmlPos = limit /\ xmlPc' = "invalid" /\ xmlDoc' = xmlDoc /\ limit' = limit
  BY DEF NotXML, NoToken, Stop, decoder
<1>2. xmlPos <= RootOf(T)
  BY <1>1, WalkAt
<1>3. ~Whole(T)
  <2> SUFFICES ASSUME Whole(T) PROVE FALSE
    OBVIOUS
  <2>1. EndOf(T, RootOf(T)) < limit
    BY WholeIs
  <2>2. RootOf(T) \in InRoot(T) /\ Tokens(T) /\ Sound(T)
    BY ReadingIs, RootIs DEF Reading
  <2>3. RootOf(T) < EndOf(T, RootOf(T)) /\ RootOf(T) \in StartTags(T) /\ EndOf(T, RootOf(T)) \in Nat
    BY <2>2, InRootIs
  <2>4. RootOf(T) \in Nat /\ xmlPos \in Nat
    BY <2>2, <2>3, StartTagIs, ReadingIs
  <2> QED BY <1>1, <1>2, <2>1, <2>3, <2>4
<1> QED BY <1>1, <1>3, LostStep

\* The token at hand is that of T, where either is a tag.
LEMMA TokenIs ==
  ASSUME NEW T, Reading(T), xmlPos # limit
  PROVE  /\ xmlPos \in 1 .. Len(T) /\ xmlPos \in 1 .. Len(xmlDoc.tokens)
         /\ Starts <=> Is("start", T[xmlPos])
         /\ Is("end", XMLToken) <=> Is("end", T[xmlPos])
         /\ Is("start", T[xmlPos]) \/ Is("end", T[xmlPos]) => XMLToken = T[xmlPos]
<1>1. xmlPos \in 1 .. Len(xmlDoc.tokens)
  BY ReadingIs
<1>2. xmlPos \in 1 .. Len(T)
  BY <1>1, ReadingIs
<1>3. Tokens(T) /\ Tokens(xmlDoc.tokens) /\ Begins(xmlDoc.tokens, T)
  BY ReadingIs DEF Reading
<1>4. /\ Is("start", xmlDoc.tokens[xmlPos]) <=> Is("start", T[xmlPos])
      /\ Is("end", xmlDoc.tokens[xmlPos]) <=> Is("end", T[xmlPos])
      /\ Is("start", T[xmlPos]) \/ Is("end", T[xmlPos]) \/ xmlPos # Len(xmlDoc.tokens) => xmlDoc.tokens[xmlPos] = T[xmlPos]
  BY <1>1, <1>3, SameTags
<1> QED BY <1>1, <1>2, <1>4 DEF Starts, XMLToken

\* What comes before the first start tag is skipped.
LEMMA SkipPrologKeeps ==
  ASSUME NEW T, Reading(T), Walk(T), SkipProlog
  PROVE  Walk(T)'
<1>1. /\ xmlPc = "document" /\ xmlPos # limit /\ ~Starts /\ xmlPc' = "document" /\ xmlPos' = xmlPos + 1
      /\ idrefs' = idrefs
  BY DEF SkipProlog, AtToken, NoToken, GotoToken
<1>2. xmlPos <= RootOf(T) /\ idrefs = NoIDs
  BY <1>1, WalkAt
<1>3. RootOf(T) \in StartTags(T) /\ Tokens(T)
  BY ReadingIs, RootIs DEF Reading
<1>4. Is("start", T[RootOf(T)]) /\ RootOf(T) \in Nat
  BY <1>3, StartTagIs
<1>5. xmlPos # RootOf(T)
  BY <1>1, <1>4, TokenIs
<1>6. xmlPos \in Nat
  BY ReadingIs
<1> DEFINE r == RootOf(T)
<1>7. r \in Nat /\ xmlPos <= r /\ xmlPos # r
  BY <1>2, <1>4, <1>5
<1> HIDE DEF r
<1>8. xmlPos' <= r
  BY <1>1, <1>6, <1>7
<1>9. xmlPc' = "document" /\ xmlPos' <= RootOf(T) /\ idrefs' = NoIDs
  BY <1>1, <1>2, <1>8 DEF r
<1> QED BY <1>9 DEF Walk

\* Before the root element no element is complete.
LEMMA NothingKnown ==
  ASSUME NEW T, Tokens(T), Sound(T)
  PROVE  Known(T, RootOf(T) - 1) = NoIDs
<1>1. \A q \in StartTags(T) : ~(EndOf(T, q) <= RootOf(T) - 1)
  <2> SUFFICES ASSUME NEW q \in StartTags(T), EndOf(T, q) <= RootOf(T) - 1 PROVE FALSE
    OBVIOUS
  <2>1. RootOf(T) <= q /\ RootOf(T) \in StartTags(T)
    BY RootIs
  <2>2. q \in 1 .. Len(T) /\ Len(T) \in Nat /\ EndOf(T, q) \in Nat /\ RootOf(T) \in 1 .. Len(T)
        /\ (EndOf(T, q) <= Len(T) => q < EndOf(T, q))
    BY <2>1, StartTagIs
  <2> DEFINE r == RootOf(T)
             e == EndOf(T, q)
             n == Len(T)
  <2>3. q \in 1 .. n /\ n \in Nat /\ e \in Nat /\ r \in 1 .. n /\ (e <= n => q < e) /\ r <= q /\ e <= r - 1
    BY <2>1, <2>2
  <2> HIDE DEF r, e, n
  <2> QED BY <2>3
<1>2. Completed(T, RootOf(T) - 1) = {}
  BY <1>1 DEF Completed
<1>3. UNION {Named(T[q].attrs) : q \in Completed(T, RootOf(T) - 1)} = {}
  BY <1>2
<1> QED BY <1>3 DEF Known, NoIDs

\* The first start tag is the root element.
LEMMA RootKeeps ==
  ASSUME NEW T, Reading(T), Walk(T), Root
  PROVE  Walk(T)'
<1>1. /\ xmlPc = "document" /\ xmlPos # limit /\ Starts /\ xmlPc' = "element" /\ xmlPos' = xmlPos
      /\ idrefs' = idrefs /\ xmlStack' = xmlStack /\ xmlStack = << >>
  BY DEF Root, AtToken, NoToken, GotoToken, Reading, IInv, PcRight
<1>2. xmlPos <= RootOf(T) /\ idrefs = NoIDs
  BY <1>1, WalkAt
<1>3. Tokens(T) /\ Sound(T)
  BY ReadingIs DEF Reading
<1>4. xmlPos \in StartTags(T)
  BY <1>1, ReadingIs, TokenIs DEF StartTags
<1>5. RootOf(T) <= xmlPos /\ RootOf(T) \in Nat /\ xmlPos \in Nat
  BY <1>3, <1>4, RootIs, StartTagIs
<1> DEFINE r == RootOf(T)
           path == <<r>>
<1>6. xmlPos = r
  BY <1>2, <1>5
<1>7. OnPath(T, path) /\ Len(path) = 1 /\ path[1] = r
  BY <1>3, PathBegun
<1>8. Known(T, r - 1) = NoIDs
  BY <1>3, NothingKnown
<1> HIDE DEF r, path
<1>9. AtElement(T, path)'
  BY <1>1, <1>2, <1>6, <1>7, <1>8 DEF AtElement
<1>10. WaitingAlong(T, path)'
  <2>1. 1 .. Len(path) - 1 = {}
    BY <1>7
  <2> QED BY <2>1 DEF WaitingAlong
<1> QED BY <1>7, <1>9, <1>10, ElementStep

\* The value of the root element is the document's.
LEMMA FinishKeeps ==
  ASSUME NEW T, Reading(T), Walk(T), FinishXML
  PROVE  Walk(T)'
<1>1. xmlPc = "return" /\ xmlStack = << >> /\ xmlPc' = "done" /\ xmlRet' = xmlRet
  BY DEF FinishXML, Stop
<1>2. PICK path : OnPath(T, path) /\ AtReturn(T, path)
  BY <1>1, WalkAt
<1>3. Len(path) = 1 /\ xmlRet = Value(T, path[Len(path)]) /\ path[1] = RootOf(T)
  BY <1>1, <1>2 DEF AtReturn, OnPath
<1>4. xmlRet = MeaningOf(T)
  BY <1>3 DEF MeaningOf, Value
<1> QED BY <1>1, <1>4 DEF Walk

--------------------------------------------------------------------------------
\* parseXMLElement.
LEMMA WaitingSame ==
  ASSUME NEW T, NEW path, WaitingAlong(T, path), \A i \in 1 .. Len(path) - 1 : xmlStack'[i] = xmlStack[i]
  PROVE  WaitingAlong(T, path)'
BY DEF WaitingAlong

\* While an element with nothing in it is read, no other is completed.
LEMMA LeafCompleted ==
  ASSUME NEW T, Tokens(T), NEW p \in StartTags(T), EndOf(T, p) <= Len(T), Leaf(T, p)
  PROVE  /\ Completed(T, p - 1) = Completed(T, EndOf(T, p) - 1)
         /\ T[p].start \in Unnamed => Known(T, p - 1) = Known(T, EndOf(T, p))
<1> DEFINE e == EndOf(T, p)
<1>1. e \in Nat /\ p \in Nat \ {0} /\ p < e /\ e <= Len(T) /\ Len(T) \in Nat
  BY StartTagIs
<1>2. ASSUME NEW q \in StartTags(T), q # p, EndOf(T, q) <= e PROVE EndOf(T, q) <= p - 1
  <2>1. q \in Nat /\ EndOf(T, q) \in Nat /\ EndOf(T, q) <= Len(T)
    BY <1>1, <1>2, StartTagIs
  <2>2. q < EndOf(T, q)
    BY <2>1, StartTagIs
  <2>3. CASE p < q
    <3>1. e < q
      BY <2>3 DEF Leaf
    <3> HIDE DEF e
    <3> QED BY <1>1, <1>2, <2>1, <2>2, <3>1
  <2>4. CASE ~(p < q)
    <3>1. q < p
      BY <1>1, <1>2, <2>1, <2>4
    <3>2. EndOf(T, q) # p
      <4>1. ~Is("start", T[EndOf(T, q)]) /\ Is("start", T[p])
        BY <2>1, EndTagIs, StartTagIs
      <4> QED BY <4>1
    <3>3. ~(p < EndOf(T, q))
      <4> SUFFICES ASSUME p < EndOf(T, q) PROVE FALSE
        OBVIOUS
      <4>1. e < EndOf(T, q)
        BY <2>1, <3>1, NestedInside
      <4> HIDE DEF e
      <4> QED BY <1>1, <1>2, <2>1, <4>1
    <3> HIDE DEF e
    <3> QED BY <1>1, <2>1, <3>2, <3>3
  <2> QED BY <2>3, <2>4
<1>3. Completed(T, p - 1) = Completed(T, e - 1)
  <2> DEFINE n == p - 1
             m == e - 1
  <2>1. n \in Int /\ m \in Int /\ n <= m /\ ~(e <= m)
    BY <1>1
  <2>2. ASSUME NEW q \in StartTags(T), EndOf(T, q) <= m PROVE EndOf(T, q) <= n
    <3>1. EndOf(T, q) \in Nat
      BY StartTagIs
    <3>2. EndOf(T, q) <= e /\ q # p
      <4>1. q # p
        BY <2>1, <2>2
      <4> HIDE DEF e
      <4> QED BY <1>1, <2>2, <3>1, <4>1
    <3> QED BY <1>2, <3>2
  <2> HIDE DEF n, m
  <2>3. Completed(T, n) = Completed(T, m)
    BY <2>1, <2>2, CompletedSame
  <2> QED BY <2>3 DEF n, m
<1>4. ASSUME T[p].start \in Unnamed PROVE Known(T, p - 1) = Known(T, e)
  <2> DEFINE n == p - 1
  <2>1. n \in Int /\ e \in Int /\ n <= e
    BY <1>1
  <2>2. ASSUME NEW q \in StartTags(T), T[q].start \notin Unnamed, EndOf(T, q) <= e PROVE EndOf(T, q) <= n
    BY <1>2, <1>4, <2>2
  <2> HIDE DEF n, e
  <2>3. Known(T, n) = Known(T, e)
    BY <2>1, <2>2, CompletedSame
  <2> QED BY <2>3 DEF n
<1> QED BY <1>3, <1>4

\* The element that a call is about.
LEMMA ElementIs ==
  ASSUME NEW T, Reading(T), xmlPc = "element", NEW path, OnPath(T, path), AtElement(T, path)
  PROVE  /\ xmlPos # limit /\ xmlPos \in InRoot(T) /\ xmlPos \in StartTags(T) /\ XMLToken = T[xmlPos]
         /\ xmlPos = path[Len(path)] /\ Len(path) = Len(xmlStack) + 1 /\ Len(xmlStack) \in Nat
         /\ idrefs = Known(T, xmlPos - 1)
         /\ T[xmlPos].start \in Containers \cup Scalars \cup Booleans
         /\ SoundElement(T, xmlPos) /\ EndOf(T, xmlPos) <= Len(T) /\ EndOf(T, xmlPos) \in Nat
         /\ xmlPos < EndOf(T, xmlPos) /\ EndOf(T, xmlPos) <= EndOf(T, RootOf(T))
<1>1. Tokens(T) /\ Sound(T) /\ xmlPos # limit
  BY ReadingIs DEF Reading, IInv, PositionRight
<1>2. xmlPos = path[Len(path)] /\ Len(path) = Len(xmlStack) + 1 /\ idrefs = Known(T, xmlPos - 1)
  BY DEF AtElement
<1>3. xmlPos \in InRoot(T) /\ Len(path) \in Nat \ {0}
  BY <1>1, <1>2, OnPathIs
<1>4. /\ xmlPos \in StartTags(T) /\ SoundElement(T, xmlPos) /\ EndOf(T, xmlPos) <= Len(T) /\ EndOf(T, xmlPos) \in Nat
      /\ xmlPos < EndOf(T, xmlPos) /\ EndOf(T, xmlPos) <= EndOf(T, RootOf(T))
  BY <1>1, <1>3, InRootIs
<1>5. Is("start", T[xmlPos])
  BY <1>1, <1>4, StartTagIs
<1>6. XMLToken = T[xmlPos]
  BY <1>1, <1>5, TokenIs
<1>7. T[xmlPos].start # "key"
  <2>1. CASE Len(path) = 1
    <3>1. xmlPos = RootOf(T)
      BY <1>2, <2>1 DEF OnPath
    <3> QED BY <1>1, <3>1 DEF Sound
  <2>2. CASE Len(path) # 1
    <3>1. Len(path) > 1
      <4>1. Len(path) \in Nat /\ Len(path) # 0
        BY <1>3
      <4> QED BY ONLY <2>2, <4>1
    <3>2. xmlPos \in ValueKids(T, path[Len(path) - 1])
      BY <1>1, <1>2, <3>1, PathPopped
    <3> QED BY <3>2 DEF ValueKids
  <2> QED BY <2>1, <2>2
<1>8. T[xmlPos].start \in Containers \cup Scalars \cup Booleans
  BY <1>4, <1>7 DEF SoundElement, Containers
<1>9. Len(xmlStack) \in Nat
  BY DEF Reading, IInv, FramesRight
<1> QED BY <1>1, <1>2, <1>3, <1>4, <1>6, <1>8, <1>9

\* Only a document that is nested too deeply is refused for its depth.
LEMMA NestingExceededKeeps ==
  ASSUME NEW T, Reading(T), Walk(T), ElementsExceeded
  PROVE  Walk(T)'
<1>1. xmlPc = "element" /\ xmlDepth >= MaxNesting /\ xmlPc' = "error" /\ xmlDoc' = xmlDoc /\ limit' = limit
  BY DEF ElementsExceeded, ElementTooDeep, Stop, decoder
<1>2. PICK path : OnPath(T, path) /\ AtElement(T, path)
  BY <1>1, WalkAt
<1>3. xmlPos \in InRoot(T) /\ xmlPos = path[Len(path)] /\ Len(path) = Len(xmlStack) + 1 /\ Len(xmlStack) \in Nat
  BY <1>1, <1>2, ElementIs
<1>4. xmlDepth = Len(xmlStack)
  BY DEF Reading, IInv, DepthRight
<1>5. ~Whole(T)
  <2> SUFFICES ASSUME Whole(T) PROVE FALSE
    OBVIOUS
  <2>1. Level(T, RootOf(T), xmlPos) <= MaxNesting
    BY <1>3, WholeIs DEF Shallow
  <2>2. Tokens(T) /\ Sound(T)
    BY ReadingIs DEF Reading
  <2>3. Level(T, RootOf(T), xmlPos) = Len(path)
    BY <1>2, <1>3, <2>2, OnPathIs
  <2> QED BY <1>1, <1>3, <1>4, <2>1, <2>3, NestingAssumption
<1> QED BY <1>1, <1>5, LostStep

\* Every element of a document that means something has a known name.
LEMMA UnknownKeeps ==
  ASSUME NEW T, Reading(T), Walk(T), Unknown
  PROVE  FALSE
<1>1. xmlPc = "element" /\ XMLToken.start \notin Containers \cup Scalars \cup Booleans
  BY DEF Unknown, Element
<1>2. PICK path : OnPath(T, path) /\ AtElement(T, path)
  BY <1>1, WalkAt
<1> QED BY <1>1, <1>2, ElementIs

\* Only a document that fails is refused for it.
LEMMA ScalarCutOffKeeps ==
  ASSUME NEW T, Reading(T), Walk(T), ScalarCutOff
  PROVE  Walk(T)'
<1>1. /\ xmlPc = "element" /\ EndOf(xmlDoc.tokens, xmlPos) >= limit /\ xmlPc' = "error" /\ xmlDoc' = xmlDoc /\ limit' = limit
  BY DEF ScalarCutOff, Element, Stop, decoder
<1>2. PICK path : OnPath(T, path) /\ AtElement(T, path)
  BY <1>1, WalkAt
<1>3. /\ xmlPos \in StartTags(T) /\ EndOf(T, xmlPos) <= EndOf(T, RootOf(T)) /\ EndOf(T, xmlPos) \in Nat /\ xmlPos # limit
  BY <1>1, <1>2, ElementIs
<1>4. /\ Tokens(T) /\ Tokens(xmlDoc.tokens) /\ Begins(xmlDoc.tokens, T) /\ limit \in 1 .. Len(xmlDoc.tokens) + 1
      /\ limit \in Nat
  BY ReadingIs DEF Reading
<1>5. xmlPos <= Len(xmlDoc.tokens)
  BY <1>3, TokenIs
<1>6. EndOf(xmlDoc.tokens, xmlPos) \in Nat
  <2>1. Len(xmlDoc.tokens) \in Nat /\ xmlPos \in Nat \ {0}
    BY <1>3, <1>4, ReadingIs, StartTagIs
  <2> QED BY <2>1, EndOfRange
<1>7. ~(EndOf(xmlDoc.tokens, xmlPos) < limit)
  BY <1>1, <1>4, <1>6
<1>8. ~(EndOf(T, xmlPos) < limit)
  BY <1>3, <1>4, <1>5, <1>7, SameElement
<1>9. ~Whole(T)
  <2> SUFFICES ASSUME Whole(T) PROVE FALSE
    OBVIOUS
  <2>1. EndOf(T, RootOf(T)) < limit
    BY WholeIs
  <2>2. EndOf(T, RootOf(T)) \in Nat
    BY <1>4, RootIs, StartTagIs DEF Reading
  <2> QED BY <1>3, <1>4, <1>8, <2>1, <2>2
<1> QED BY <1>1, <1>9, LostStep

\* A leaf returns what it stands for.
LEMMA LeafReturns ==
  ASSUME NEW T, Reading(T), xmlPc = "element", NEW path, OnPath(T, path), WaitingAlong(T, path), AtElement(T, path),
         Leaf(T, xmlPos), T[xmlPos].start \notin Unnamed,
         ReturnStored(T[xmlPos].attrs, ValuesByEnd(T)[EndOf(T, xmlPos)]),
         xmlPos' = EndOf(T, xmlPos) + 1 \/ (xmlPos' = limit /\ ~(EndOf(T, xmlPos) < limit)),
         xmlStack' = xmlStack, limit' = limit
  PROVE  Walk(T)'
<1>0. PICK q : q = xmlPos
  OBVIOUS
<1> DEFINE e == EndOf(T, q)
           n == xmlPos - 1
<1>1. /\ xmlPos \in StartTags(T) /\ xmlPos = path[Len(path)] /\ Len(path) = Len(xmlStack) + 1
      /\ idrefs = Known(T, xmlPos - 1) /\ e <= Len(T) /\ e \in Nat
  BY <1>0, ElementIs
<1>2. Tokens(T) /\ limit \in Nat /\ xmlPos \in Nat
  BY ReadingIs
<1>3. n \in Int /\ idrefs = Known(T, n)
  BY <1>1, <1>2
<1>4. Completed(T, n) = Completed(T, e - 1)
  BY <1>0, <1>1, <1>2, LeafCompleted
<1> HIDE DEF n
<1>5. /\ Stored(T[xmlPos].attrs, ValuesByEnd(T)[e], Known(T, n)) = Known(T, e)
      /\ Found(T[xmlPos].attrs, ValuesByEnd(T)[e], Known(T, n)) = Value(T, xmlPos)
  BY <1>0, <1>1, <1>2, <1>3, <1>4, ReturnStep
<1>6. xmlPc' = "return" /\ idrefs' = Known(T, e) /\ xmlRet' = Value(T, xmlPos)
  BY <1>0, <1>3, <1>5 DEF ReturnStored
<1>7. Unread(T, e + 1)'
  <2>1. xmlPos' = e + 1 \/ (xmlPos' = limit /\ ~(e < limit))
    BY <1>0
  <2> HIDE DEF e
  <2>2. CASE xmlPos' = e + 1
    <3>1. xmlPos' <= e + 1 /\ xmlPos' .. (e + 1) - 1 = {}
      BY <1>1, <2>2
    <3> QED BY <3>1 DEF Unread
  <2>3. CASE xmlPos' = limit /\ ~(e < limit)
    <3>1. xmlPos' <= e + 1 /\ \A k \in xmlPos' .. (e + 1) - 1 : ~(k < limit)
      BY <1>1, <1>2, <2>3
    <3> QED BY <3>1 DEF Unread
  <2> QED BY <2>1, <2>2, <2>3
<1>8. AtReturn(T, path)'
  BY <1>0, <1>1, <1>6, <1>7 DEF AtReturn
<1>9. WaitingAlong(T, path)'
  BY WaitingSame
<1> QED BY <1>8, <1>9, ReturnedStep

\* The scalars, a wrong one of which is none of a document that means something.
LEMMA ScalarKeeps ==
  ASSUME NEW T, Reading(T), Walk(T), Scalar
  PROVE  Walk(T)'
<1> DEFINE last == EndOf(xmlDoc.tokens, xmlPos)
           scanned == ScalarValue(XMLToken.start, TextWithin(xmlDoc.tokens, xmlPos, last))
<1>1. /\ xmlPc = "element" /\ XMLToken.start \in Scalars /\ xmlStack' = xmlStack /\ limit' = limit /\ last < limit
      /\ IF scanned.ok
         THEN ReturnStored(XMLToken.attrs, scanned.value) /\ ntags' = ntags + 1 /\ xmlPos' = last + 1
         ELSE xmlPc' = "error" /\ UNCHANGED <<ntags, xmlPos, idrefs, xmlRet>>
  BY DEF Scalar, Element, decoder
<1>2. PICK path : OnPath(T, path) /\ WaitingAlong(T, path) /\ AtElement(T, path)
  BY <1>1, WalkAt
<1>3. /\ xmlPos \in StartTags(T) /\ XMLToken = T[xmlPos] /\ SoundElement(T, xmlPos) /\ EndOf(T, xmlPos) <= Len(T) /\ xmlPos # limit
  BY <1>1, <1>2, ElementIs
<1>4. /\ Tokens(T) /\ Tokens(xmlDoc.tokens) /\ Begins(xmlDoc.tokens, T) /\ limit \in 1 .. Len(xmlDoc.tokens) + 1
  BY ReadingIs DEF Reading
<1>5. xmlPos <= Len(xmlDoc.tokens)
  BY <1>3, TokenIs
<1>6. last = EndOf(T, xmlPos) /\ TextWithin(xmlDoc.tokens, xmlPos, last) = ContentOf(T, xmlPos)
  BY <1>1, <1>3, <1>4, <1>5, SameElement
<1>7. scanned = ScalarValue(T[xmlPos].start, ContentOf(T, xmlPos))
  BY <1>3, <1>6
<1>8. Leaf(T, xmlPos) /\ ScalarValue(T[xmlPos].start, ContentOf(T, xmlPos)).ok
  <2>1. T[xmlPos].start \in Scalars /\ SoundElement(T, xmlPos)
    BY <1>1, <1>3
  <2>2. T[xmlPos].start \notin Booleans \cup {"key", "plist", "array", "dict"}
    BY <2>1 DEF Scalars, EmptyValue, Booleans
  <2> QED BY ONLY <2>1, <2>2, Zenon DEF SoundElement
<1>9. ValuesByEnd(T)[EndOf(T, xmlPos)] = ScalarValue(T[xmlPos].start, ContentOf(T, xmlPos)).value
  BY <1>1, <1>3, <1>4, LeafMade
<1>10. T[xmlPos].start \notin Unnamed
  BY <1>1, <1>3 DEF Scalars, EmptyValue, Unnamed
<1> HIDE DEF last, scanned
<1>11. /\ ReturnStored(T[xmlPos].attrs, ValuesByEnd(T)[EndOf(T, xmlPos)]) /\ xmlPos' = EndOf(T, xmlPos) + 1
  BY <1>1, <1>3, <1>6, <1>7, <1>8, <1>9
<1> QED BY <1>1, <1>2, <1>8, <1>10, <1>11, LeafReturns

\* The booleans, whose end may be missing where the document is cut off.
LEMMA TruthKeeps ==
  ASSUME NEW T, Reading(T), Walk(T), Truth
  PROVE  Walk(T)'
<1> DEFINE last == EndOf(xmlDoc.tokens, xmlPos)
<1>1. /\ xmlPc = "element" /\ XMLToken.start \in Booleans /\ xmlStack' = xmlStack /\ limit' = limit
      /\ ReturnStored(XMLToken.attrs, Boolean(XMLToken.start = "true")) /\ xmlPos' = After(last)
  BY DEF Truth, Element, decoder
<1>2. PICK path : OnPath(T, path) /\ WaitingAlong(T, path) /\ AtElement(T, path)
  BY <1>1, WalkAt
<1>3. /\ xmlPos \in StartTags(T) /\ XMLToken = T[xmlPos] /\ SoundElement(T, xmlPos) /\ EndOf(T, xmlPos) <= Len(T) /\ xmlPos # limit
  BY <1>1, <1>2, ElementIs
<1>4. /\ Tokens(T) /\ Tokens(xmlDoc.tokens) /\ Begins(xmlDoc.tokens, T) /\ limit \in 1 .. Len(xmlDoc.tokens) + 1
  BY ReadingIs DEF Reading
<1>5. xmlPos <= Len(xmlDoc.tokens)
  BY <1>3, TokenIs
<1>6. /\ last < limit => last = EndOf(T, xmlPos)
      /\ ~(last < limit) => ~(EndOf(T, xmlPos) < limit)
  BY <1>3, <1>4, <1>5, SameElement
<1> HIDE DEF last
<1>7. xmlPos' = EndOf(T, xmlPos) + 1 \/ (xmlPos' = limit /\ ~(EndOf(T, xmlPos) < limit))
  BY <1>1, <1>6 DEF After
<1>8. Leaf(T, xmlPos) /\ T[xmlPos].start \notin Unnamed
  <2>1. T[xmlPos].start \notin Scalars
    BY <1>1, <1>3 DEF Booleans, Scalars, EmptyValue
  <2> QED BY <1>1, <1>3, <2>1 DEF SoundElement, Booleans, Unnamed
<1>9. ReturnStored(T[xmlPos].attrs, ValuesByEnd(T)[EndOf(T, xmlPos)])
  <2>1. ValuesByEnd(T)[EndOf(T, xmlPos)] = Boolean(T[xmlPos].start = "true")
    BY <1>1, <1>3, <1>4, LeafMade
  <2> QED BY <1>1, <1>3, <2>1
<1> QED BY <1>1, <1>2, <1>7, <1>8, <1>9, LeafReturns

\* A container is opened: nothing in it is read yet.
LEMMA OpenKeeps ==
  ASSUME NEW T, Reading(T), Walk(T), OpenElement
  PROVE  Walk(T)'
<1>1. /\ xmlPc = "element" /\ xmlStack' = Append(xmlStack, ElementFrame(XMLToken)) /\ xmlPc' = "content" /\ xmlPos' = xmlPos + 1
      /\ idrefs' = idrefs
  BY DEF OpenElement, Element, GotoToken
<1>2. PICK path : OnPath(T, path) /\ WaitingAlong(T, path) /\ AtElement(T, path)
  BY <1>1, WalkAt
<1>3. /\ xmlPos \in StartTags(T) /\ XMLToken = T[xmlPos] /\ EndOf(T, xmlPos) <= Len(T) /\ EndOf(T, xmlPos) \in Nat
      /\ xmlPos = path[Len(path)] /\ Len(path) = Len(xmlStack) + 1 /\ Len(xmlStack) \in Nat /\ xmlPos < EndOf(T, xmlPos)
      /\ idrefs = Known(T, xmlPos - 1)
  BY <1>1, <1>2, ElementIs
<1>4. Tokens(T) /\ xmlPos \in Nat /\ Len(T) \in Nat /\ Level(T, xmlPos, xmlPos) = 1 /\ Is("start", T[xmlPos])
  BY <1>3, ReadingIs, StartTagIs
<1>0. PICK s, m : s = xmlPos /\ m = xmlPos + 1
  OBVIOUS
<1> DEFINE f == ElementFrame(T[s])
<1>5. m \in 1 .. Len(T) /\ xmlPos < m /\ m <= EndOf(T, xmlPos) /\ m - 1 = xmlPos
  BY <1>0, <1>3, <1>4
<1>6. ReadyAt(f, T, s, m)
  BY <1>0, <1>3, <1>4, FrameOpened
<1>7. KidsBefore(T, s, m) = {}
  BY <1>0, <1>3, <1>4, NoKidYet
<1>8. Known(T, xmlPos - 1) = Known(T, xmlPos)
  <2> DEFINE n == xmlPos - 1
  <2>1. n \in Int /\ xmlPos \in Int /\ n <= xmlPos
    BY <1>4
  <2>2. ASSUME NEW q \in StartTags(T), EndOf(T, q) <= xmlPos PROVE EndOf(T, q) <= n
    <3>1. EndOf(T, q) \in Nat /\ EndOf(T, q) <= Len(T)
      BY <1>3, <1>4, <2>2, StartTagIs
    <3>2. ~Is("start", T[EndOf(T, q)])
      BY <1>4, <3>1, EndTagIs
    <3>3. EndOf(T, q) # xmlPos
      BY <1>4, <3>2
    <3> QED BY <1>4, <2>2, <3>1, <3>3
  <2> HIDE DEF n
  <2>3. Known(T, n) = Known(T, xmlPos)
    BY <1>4, <2>1, <2>2, CompletedSame
  <2> QED BY <2>3 DEF n
<1>9. /\ Len(Append(xmlStack, f)) = Len(xmlStack) + 1 /\ Append(xmlStack, f)[Len(xmlStack) + 1] = f
      /\ \A i \in 1 .. Len(xmlStack) : Append(xmlStack, f)[i] = xmlStack[i]
  <2>1. xmlStack \in Seq(Range(xmlStack))
    BY DEF Reading, IInv, FramesRight
  <2> QED BY <2>1, Pushed
<1> HIDE DEF f
<1>10. xmlStack' = Append(xmlStack, f)
  BY <1>0, <1>1, <1>3 DEF f
<1>11. WaitingAlong(T, path)'
  <2>1. Len(path) - 1 = Len(xmlStack)
    BY <1>3
  <2>2. \A i \in 1 .. Len(path) - 1 : xmlStack'[i] = xmlStack[i]
    BY <1>9, <1>10, <2>1
  <2> QED BY <1>2, <2>2, WaitingSame
<1>12. xmlPos' = m /\ Len(xmlStack') = Len(path) /\ xmlStack'[Len(xmlStack')] = f
  BY <1>0, <1>1, <1>3, <1>9, <1>10
<1>13. Unread(T, m)'
  <2>1. xmlPos' <= m /\ xmlPos' .. m - 1 = {}
    BY <1>5, <1>12
  <2> QED BY <2>1 DEF Unread
<1>14. idrefs' = Known(T, m - 1) /\ Level(T, s, m - 1) = 1
  BY <1>0, <1>1, <1>3, <1>4, <1>5, <1>8
<1>15. InContent(T, path, m)'
  BY <1>0, <1>1, <1>3, <1>5, <1>6, <1>7, <1>12, <1>13, <1>14 DEF InContent
<1> QED BY <1>2, <1>5, <1>11, <1>15, ContentStep

--------------------------------------------------------------------------------
\* The loops of the containers.
LEMMA TopIs ==
  ASSUME NEW T, Reading(T), NEW path, OnPath(T, path), NEW m \in 1 .. Len(T), InContent(T, path, m),
         NEW s, s = path[Len(path)]
  PROVE  /\ s \in InRoot(T) /\ s \in StartTags(T) /\ SoundElement(T, s) /\ EndOf(T, s) <= Len(T)
         /\ EndOf(T, s) \in Nat /\ EndOf(T, s) <= EndOf(T, RootOf(T))
         /\ Len(path) = Len(xmlStack) /\ Len(xmlStack) \in Nat \ {0} /\ xmlStack \in Seq(Range(xmlStack)) /\ xmlStack # << >>
         /\ TopElement = xmlStack[Len(xmlStack)] /\ ReadyAt(TopElement, T, s, m)
         /\ TopElement.kind = T[s].start /\ TopElement.attrs = T[s].attrs /\ TopElement.key = Pending(T, s, m)
         /\ T[s].start \in Containers
         /\ s < m /\ m <= EndOf(T, s) /\ Level(T, s, m - 1) = 1
         /\ idrefs = Known(T, m - 1) /\ Unread(T, m)
         /\ T[s].start = "plist" => xmlPos = m /\ KidsBefore(T, s, m) = {}
<1>1. Tokens(T) /\ Sound(T) /\ Len(path) \in Nat \ {0} /\ s \in InRoot(T)
  BY ReadingIs, OnPathIs DEF Reading
<1>2. /\ s \in StartTags(T) /\ SoundElement(T, s) /\ EndOf(T, s) <= Len(T)
      /\ EndOf(T, s) \in Nat /\ EndOf(T, s) <= EndOf(T, RootOf(T))
  BY <1>1, InRootIs
<1>3. /\ Len(path) = Len(xmlStack) /\ ReadyAt(xmlStack[Len(xmlStack)], T, s, m)
      /\ s < m /\ m <= EndOf(T, s) /\ Level(T, s, m - 1) = 1
      /\ idrefs = Known(T, m - 1) /\ Unread(T, m)
      /\ T[s].start = "plist" => xmlPos = m /\ KidsBefore(T, s, m) = {}
  BY DEF InContent
<1>4. /\ xmlStack \in Seq(Range(xmlStack)) /\ \A i \in 1 .. Len(xmlStack) : FrameOK(xmlStack[i])
  BY DEF Reading, IInv, FramesRight
<1>5. TopElement = xmlStack[Len(xmlStack)]
  BY DEF TopElement, Last
<1>6. Len(xmlStack) \in Nat \ {0} /\ xmlStack # << >> /\ Len(xmlStack) \in 1 .. Len(xmlStack)
  BY <1>1, <1>3
<1>7. /\ TopElement.kind = T[s].start /\ TopElement.attrs = T[s].attrs /\ TopElement.key = Pending(T, s, m)
  BY <1>3, <1>5 DEF ReadyAt, FrameAt
<1>8. TopElement.kind \in Containers
  BY <1>4, <1>5, <1>6 DEF FrameOK
<1> QED BY <1>1, <1>2, <1>3, <1>4, <1>5, <1>6, <1>7, <1>8

\* The next token, for the loop that reads the element at s.
LEMMA ContentIs ==
  ASSUME NEW T, Reading(T), xmlPos # limit, NEW path, OnPath(T, path), NEW m \in 1 .. Len(T), InContent(T, path, m),
         NEW s, s = path[Len(path)]
  PROVE  /\ Starts => xmlPos = m /\ m \in Kids(T, s) /\ XMLToken = T[m]
         /\ EndsTop => xmlPos = m /\ m = EndOf(T, s)
         /\ ~Starts /\ ~EndsTop => \/ xmlPos \in Nat /\ xmlPos < m
                                   \/ /\ xmlPos = m /\ ~Is("start", T[m]) /\ ~Is("end", T[m])
                                      /\ m < EndOf(T, s) /\ Level(T, s, m) = 1 /\ m \notin Kids(T, s)
<1>1. /\ s \in StartTags(T) /\ SoundElement(T, s) /\ EndOf(T, s) <= Len(T) /\ TopElement.kind = T[s].start
      /\ T[s].start \in Containers /\ s < m /\ m <= EndOf(T, s) /\ Level(T, s, m - 1) = 1 /\ Unread(T, m)
      /\ T[s].start = "plist" => xmlPos = m
  BY TopIs
<1>2. Tokens(T) /\ m \in Nat /\ xmlPos \in Nat /\ limit \in Nat /\ xmlPos < limit
  BY ReadingIs
<1>3. /\ Is("start", T[m]) => m \in Kids(T, s)
      /\ Is("end", T[m]) => m = EndOf(T, s)
      /\ ~Is("start", T[m]) /\ ~Is("end", T[m]) => m < EndOf(T, s) /\ Level(T, s, m) = 1
  BY <1>1, <1>2, NextToken
<1>4. /\ Starts <=> Is("start", T[xmlPos])
      /\ Is("end", XMLToken) <=> Is("end", T[xmlPos])
      /\ Is("start", T[xmlPos]) \/ Is("end", T[xmlPos]) => XMLToken = T[xmlPos]
  BY TokenIs
<1>5. xmlPos <= m
  BY <1>1 DEF Unread
<1>6. xmlPos < m => ~Is("start", T[xmlPos]) /\ (Is("end", T[xmlPos]) => T[xmlPos].end \notin {"array", "dict"})
  <2> SUFFICES ASSUME xmlPos < m
               PROVE  ~Is("start", T[xmlPos]) /\ (Is("end", T[xmlPos]) => T[xmlPos].end \notin {"array", "dict"})
    OBVIOUS
  <2>1. xmlPos \in xmlPos .. m - 1
    BY <1>2
  <2> QED BY <1>1, <1>2, <2>1 DEF Unread
<1>7. Starts => xmlPos = m /\ m \in Kids(T, s) /\ XMLToken = T[m]
  BY <1>2, <1>3, <1>4, <1>5, <1>6
<1>8. EndsTop => xmlPos = m /\ m = EndOf(T, s)
  <2> SUFFICES ASSUME EndsTop PROVE xmlPos = m /\ m = EndOf(T, s)
    OBVIOUS
  <2>1. Is("end", T[xmlPos]) /\ T[xmlPos].end = T[s].start
    BY <1>1, <1>4 DEF EndsTop
  <2>2. xmlPos = m
    <3> SUFFICES ASSUME xmlPos # m PROVE FALSE
      OBVIOUS
    <3>1. xmlPos < m
      BY <1>2, <1>5
    <3>2. T[s].start \notin {"array", "dict"}
      BY <1>6, <2>1, <3>1
    <3> QED BY <1>1, <3>2 DEF Containers
  <2> QED BY <1>3, <2>1, <2>2
<1>9. ASSUME ~Starts, ~EndsTop, ~(xmlPos < m)
      PROVE  /\ xmlPos = m /\ ~Is("start", T[m]) /\ ~Is("end", T[m])
             /\ m < EndOf(T, s) /\ Level(T, s, m) = 1 /\ m \notin Kids(T, s)
  <2>1. xmlPos = m
    BY <1>2, <1>5, <1>9
  <2>2. ~Is("start", T[m])
    BY <1>4, <1>9, <2>1
  <2>3. ~Is("end", T[m])
    <3> SUFFICES ASSUME Is("end", T[m]) PROVE FALSE
      OBVIOUS
    <3>1. m = EndOf(T, s)
      BY <1>3
    <3>2. T[m].end = T[s].start
      BY <1>1, <3>1 DEF SoundElement
    <3> QED BY <1>1, <1>4, <1>9, <2>1, <3>2 DEF EndsTop
  <2>4. m \notin Kids(T, s)
    BY <2>2 DEF Kids, StartTags
  <2> QED BY <1>3, <2>1, <2>2, <2>3, <2>4
<1> QED BY <1>2, <1>7, <1>8, <1>9

\* A container that is cut off is no whole document.
LEMMA ContentCutOffKeeps ==
  ASSUME NEW T, Reading(T), Walk(T), ContentCutOff
  PROVE  Walk(T)'
<1>1. xmlPc = "content" /\ xmlPos = limit /\ xmlPc' = "error" /\ xmlDoc' = xmlDoc /\ limit' = limit
  BY DEF ContentCutOff, NoToken, Stop, decoder
<1>2. ~Whole(T)
  <2> SUFFICES ASSUME Whole(T) PROVE FALSE
    OBVIOUS
  <2>1. PICK path : OnPath(T, path) /\ \E m \in 1 .. Len(T) : InContent(T, path, m)
    BY <1>1, WalkAt
  <2>2. PICK m \in 1 .. Len(T) : InContent(T, path, m)
    BY <2>1
  <2>3. PICK s : s = path[Len(path)]
    OBVIOUS
  <2>4. /\ m <= EndOf(T, s) /\ EndOf(T, s) <= EndOf(T, RootOf(T)) /\ Unread(T, m) /\ EndOf(T, s) \in Nat
    BY <2>1, <2>2, <2>3, TopIs
  <2>5. EndOf(T, RootOf(T)) < limit
    BY WholeIs
  <2>6. Tokens(T) /\ Sound(T) /\ limit \in Nat
    BY ReadingIs DEF Reading
  <2>7. EndOf(T, RootOf(T)) \in Nat /\ m \in Nat /\ xmlPos <= m
    BY <2>4, <2>6, RootIs, StartTagIs DEF Unread
  <2> QED BY <1>1, <2>4, <2>5, <2>6, <2>7
<1> QED BY <1>1, <1>2, LostStep

\* A token that is skipped is no child, or was left behind by a plist element.
LEMMA SkipTokenKeeps ==
  ASSUME NEW T, Reading(T), Walk(T), SkipToken
  PROVE  Walk(T)'
<1>1. /\ xmlPc = "content" /\ xmlPos # limit /\ ~Starts /\ ~EndsTop /\ xmlPc' = "content" /\ xmlPos' = xmlPos + 1
      /\ idrefs' = idrefs /\ xmlStack' = xmlStack /\ limit' = limit
  BY DEF SkipToken, AtToken, NoToken, GotoToken, decoder
<1>2. PICK path : OnPath(T, path) /\ WaitingAlong(T, path) /\ \E m \in 1 .. Len(T) : InContent(T, path, m)
  BY <1>1, WalkAt
<1>3. PICK m \in 1 .. Len(T) : InContent(T, path, m)
  BY <1>2
<1>4. PICK s : s = path[Len(path)]
  OBVIOUS
<1>5. /\ s \in StartTags(T) /\ EndOf(T, s) <= Len(T) /\ EndOf(T, s) \in Nat
      /\ Len(path) = Len(xmlStack) /\ TopElement = xmlStack[Len(xmlStack)] /\ ReadyAt(TopElement, T, s, m)
      /\ s < m /\ m <= EndOf(T, s) /\ Level(T, s, m - 1) = 1
      /\ idrefs = Known(T, m - 1) /\ Unread(T, m)
      /\ T[s].start = "plist" => xmlPos = m /\ KidsBefore(T, s, m) = {}
  <2>1. OnPath(T, path) /\ InContent(T, path, m) /\ s = path[Len(path)]
    BY <1>2, <1>3, <1>4
  <2>2. /\ s \in StartTags(T) /\ EndOf(T, s) <= Len(T) /\ EndOf(T, s) \in Nat
        /\ Len(path) = Len(xmlStack) /\ TopElement = xmlStack[Len(xmlStack)] /\ ReadyAt(TopElement, T, s, m)
    BY <2>1, TopIs
  <2>3. /\ s < m /\ m <= EndOf(T, s) /\ Level(T, s, m - 1) = 1
        /\ idrefs = Known(T, m - 1) /\ Unread(T, m)
        /\ T[s].start = "plist" => xmlPos = m /\ KidsBefore(T, s, m) = {}
    BY <2>1 DEF InContent
  <2> QED BY <2>2, <2>3
<1>6. WaitingAlong(T, path)'
  BY <1>1, <1>2, WaitingSame
<1>7. Tokens(T) /\ m \in Nat /\ Len(T) \in Nat /\ s \in Nat
  BY <1>5, ReadingIs, StartTagIs
<1>8. CASE xmlPos \in Nat /\ xmlPos < m
  <2>1. Unread(T, m)'
    <3>1. xmlPos' <= m /\ \A k \in xmlPos' .. m - 1 : k \in xmlPos .. m - 1
      BY <1>1, <1>7, <1>8
    <3>2. \A k \in xmlPos .. m - 1 :
            k < limit => ~Is("start", T[k]) /\ (Is("end", T[k]) => T[k].end \notin {"array", "dict"})
      BY <1>5 DEF Unread
    <3> QED BY <1>1, <3>1, <3>2 DEF Unread
  <2>2. T[s].start # "plist"
    BY <1>5, <1>7, <1>8
  <2>3. InContent(T, path, m)'
    BY <1>1, <1>4, <1>5, <2>1, <2>2 DEF InContent
  <2> QED BY <1>2, <1>6, <2>3, ContentStep
<1>9. CASE /\ xmlPos = m /\ ~Is("start", T[m]) /\ ~Is("end", T[m])
           /\ m < EndOf(T, s) /\ Level(T, s, m) = 1 /\ m \notin Kids(T, s)
  <2>1. PICK m1 : m1 = m + 1
    OBVIOUS
  <2>2. m1 \in 1 .. Len(T) /\ s < m1 /\ m1 <= EndOf(T, s) /\ m1 - 1 = m
    BY <1>5, <1>7, <1>9, <2>1
  <2>3. ReadyAt(TopElement, T, s, m1)
    BY <1>5, <1>7, <1>9, <2>1, FrameSkipped
  <2>4. KidsBefore(T, s, m1) = KidsBefore(T, s, m)
    BY <1>5, <1>7, <1>9, <2>1, NoKidAdded
  <2>5. Known(T, m - 1) = Known(T, m)
    <3> DEFINE n == m - 1
    <3>1. n \in Int /\ m \in Int /\ n <= m
      BY <1>7
    <3>2. ASSUME NEW q \in StartTags(T), EndOf(T, q) <= m PROVE EndOf(T, q) <= n
      <4>1. EndOf(T, q) \in Nat
        BY <1>7, StartTagIs
      <4>2. EndOf(T, q) <= Len(T)
        BY <1>7, <3>2, <4>1
      <4>3. EndOf(T, q) # m
        BY <1>7, <1>9, <4>2, EndTagIs
      <4> QED BY <1>7, <3>2, <4>1, <4>3
    <3> HIDE DEF n
    <3>3. Known(T, n) = Known(T, m)
      BY <1>7, <3>1, <3>2, CompletedSame
    <3> QED BY <3>3 DEF n
  <2>6. Unread(T, m1)'
    <3>1. xmlPos' <= m1 /\ xmlPos' .. m1 - 1 = {}
      BY <1>1, <1>7, <1>9, <2>1
    <3> QED BY <3>1 DEF Unread
  <2>7. idrefs' = Known(T, m1 - 1) /\ Level(T, s, m1 - 1) = 1
    BY <1>1, <1>5, <1>9, <2>2, <2>5
  <2>8. xmlPos' = m1
    BY <1>1, <1>9, <2>1
  <2>9. InContent(T, path, m1)'
    BY <1>1, <1>4, <1>5, <2>2, <2>3, <2>4, <2>6, <2>7, <2>8 DEF InContent
  <2> QED BY <1>2, <1>6, <2>2, <2>9, ContentStep
<1> QED BY <1>1, <1>2, <1>3, <1>4, <1>8, <1>9, ContentIs

\* A child is read.
LEMMA ChildStep ==
  ASSUME NEW T, Reading(T), NEW path, OnPath(T, path), WaitingAlong(T, path), Len(path) = Len(xmlStack),
         NEW s, s = path[Len(path)], NEW q \in ValueKids(T, s),
         Len(xmlStack') = Len(xmlStack), \A i \in 1 .. Len(xmlStack) - 1 : xmlStack'[i] = xmlStack[i],
         WaitingAt(xmlStack'[Len(xmlStack)], T, s, q),
         xmlPc' = "element", xmlPos' = q, idrefs' = Known(T, q - 1)
  PROVE  Walk(T)'
<1>1. Tokens(T) /\ Sound(T)
  BY ReadingIs DEF Reading
<1>2. PICK new : new = Append(path, q)
  OBVIOUS
<1>3. /\ OnPath(T, new) /\ Len(new) = Len(path) + 1 /\ new[Len(path) + 1] = q
      /\ \A i \in 1 .. Len(path) : new[i] = path[i]
  BY <1>1, <1>2, PathPushed
<1>4. Len(path) \in Nat \ {0}
  BY <1>1, OnPathIs
<1>5. AtElement(T, new)'
  BY <1>3, <1>4 DEF AtElement
<1>6. WaitingAlong(T, new)'
  <2> SUFFICES ASSUME NEW i \in 1 .. Len(new) - 1 PROVE WaitingAt(xmlStack'[i], T, new[i], new[i + 1])
    BY DEF WaitingAlong
  <2>1. i \in 1 .. Len(path)
    BY <1>3, <1>4
  <2>2. CASE i = Len(path)
    BY <1>3, <2>1, <2>2
  <2>3. CASE i # Len(path)
    <3>1. i \in 1 .. Len(path) - 1 /\ i + 1 \in 1 .. Len(path)
      BY <1>4, <2>1, <2>3
    <3>2. WaitingAt(xmlStack[i], T, path[i], path[i + 1])
      BY <3>1 DEF WaitingAlong
    <3> QED BY <1>3, <2>1, <3>1, <3>2
  <2> QED BY <2>2, <2>3
<1> QED BY <1>3, <1>5, <1>6, ElementStep

\* The child of a plist element or of an array.
LEMMA ChildKeeps ==
  ASSUME NEW T, Reading(T), Walk(T), PlistChild \/ ArrayChild
  PROVE  Walk(T)'
<1>1. /\ xmlPc = "content" /\ xmlPos # limit /\ Starts /\ xmlPc' = "element" /\ xmlPos' = xmlPos
      /\ idrefs' = idrefs /\ xmlStack' = xmlStack /\ TopElement.kind \in {"plist", "array"}
  BY DEF PlistChild, ArrayChild, Child, AtToken, NoToken, GotoToken
<1>2. PICK path : OnPath(T, path) /\ WaitingAlong(T, path) /\ \E m \in 1 .. Len(T) : InContent(T, path, m)
  BY <1>1, WalkAt
<1>3. PICK m \in 1 .. Len(T) : InContent(T, path, m)
  BY <1>2
<1>4. PICK s : s = path[Len(path)]
  OBVIOUS
<1>5. /\ s \in StartTags(T) /\ SoundElement(T, s) /\ TopElement.kind = T[s].start
      /\ Len(path) = Len(xmlStack) /\ TopElement = xmlStack[Len(xmlStack)] /\ ReadyAt(TopElement, T, s, m)
      /\ idrefs = Known(T, m - 1)
  BY <1>2, <1>3, <1>4, TopIs
<1>6. xmlPos = m /\ m \in Kids(T, s)
  BY <1>1, <1>2, <1>3, <1>4, ContentIs
<1>7. Kids(T, s) = ValueKids(T, s)
  <2>1. /\ "plist" \notin Scalars /\ "plist" \notin Booleans \cup {"key"}
        /\ "array" \notin Scalars /\ "array" \notin Booleans \cup {"key"}
    BY DEF Scalars, EmptyValue, Booleans
  <2> QED BY <1>1, <1>5, <2>1 DEF SoundElement
<1>8. Tokens(T)
  BY ReadingIs
<1>9. WaitingAt(TopElement, T, s, m)
  BY <1>1, <1>5, <1>7, <1>8, FrameAskedNoKey
<1>10. m \in ValueKids(T, s)
  BY <1>6, <1>7
<1>11. /\ Len(xmlStack') = Len(xmlStack) /\ \A i \in 1 .. Len(xmlStack) - 1 : xmlStack'[i] = xmlStack[i]
       /\ WaitingAt(xmlStack'[Len(xmlStack)], T, s, m) /\ xmlPos' = m /\ idrefs' = Known(T, m - 1)
  BY <1>1, <1>5, <1>6, <1>9
<1> QED BY <1>1, <1>2, <1>4, <1>5, <1>10, <1>11, ChildStep

\* ChangeTop changes the frame on top only.
LEMMA TopIsChanged ==
  ASSUME IInv, xmlStack # << >>, NEW keys, NEW values, NEW key, ChangeTop(keys, values, key)
  PROVE  /\ Len(xmlStack) \in Nat \ {0} /\ Len(xmlStack') = Len(xmlStack)
         /\ \A i \in 1 .. Len(xmlStack) - 1 : xmlStack'[i] = xmlStack[i]
         /\ xmlStack'[Len(xmlStack)] = [kind |-> TopElement.kind, attrs |-> TopElement.attrs, keys |-> keys, values |-> values, key |-> key]
<1> DEFINE v == [kind |-> TopElement.kind, attrs |-> TopElement.attrs, keys |-> keys, values |-> values, key |-> key]
           S == Range(xmlStack) \cup {v}
<1>1. xmlStack' = [xmlStack EXCEPT ![Len(xmlStack)] = v]
  BY DEF ChangeTop, TopElement, Last
<1>2. xmlStack \in Seq(Range(xmlStack))
  BY DEF IInv, FramesRight
<1>3. xmlStack \in Seq(S) /\ v \in S
  BY <1>2
<1> HIDE DEF v, S
<1>4. /\ Len(xmlStack) \in Nat \ {0} /\ Len([xmlStack EXCEPT ![Len(xmlStack)] = v]) = Len(xmlStack)
      /\ \A i \in 1 .. Len(xmlStack) - 1 : [xmlStack EXCEPT ![Len(xmlStack)] = v][i] = xmlStack[i]
      /\ [xmlStack EXCEPT ![Len(xmlStack)] = v][Len(xmlStack)] = v
  BY <1>3, TopChanged
<1> QED BY <1>1, <1>4 DEF v

\* A dictionary has its keys and values in pairs.
LEMMA DictIs ==
  ASSUME NEW T, NEW s, SoundElement(T, s), T[s].start = "dict"
  PROVE  Paired(T, s)
<1>1. "dict" \notin Scalars /\ "dict" \notin Booleans \cup {"key"} /\ "dict" \notin {"plist", "array"}
  BY DEF Scalars, EmptyValue, Booleans
<1> QED BY <1>1 DEF SoundElement

\* A value of a dictionary, whose key is there,
LEMMA DictValueKeeps ==
  ASSUME NEW T, Reading(T), Walk(T), DictValue
  PROVE  Walk(T)'
<1>1. /\ xmlPc = "content" /\ xmlPos # limit /\ Starts /\ xmlPc' = "element" /\ xmlPos' = xmlPos
      /\ idrefs' = idrefs /\ TopElement.kind = "dict" /\ XMLToken.start # "key" /\ TopElement.key # << >>
      /\ ChangeTop(Append(TopElement.keys, TopElement.key[1]), TopElement.values, << >>)
  BY DEF DictValue, Child, AtToken, NoToken, GotoToken
<1>2. PICK path : OnPath(T, path) /\ WaitingAlong(T, path) /\ \E m \in 1 .. Len(T) : InContent(T, path, m)
  BY <1>1, WalkAt
<1>3. PICK m \in 1 .. Len(T) : InContent(T, path, m)
  BY <1>2
<1>4. PICK s : s = path[Len(path)]
  OBVIOUS
<1>5. /\ s \in StartTags(T) /\ xmlStack # << >>
      /\ Len(path) = Len(xmlStack) /\ TopElement = xmlStack[Len(xmlStack)] /\ ReadyAt(TopElement, T, s, m)
      /\ idrefs = Known(T, m - 1)
  BY <1>2, <1>3, <1>4, TopIs
<1>6. xmlPos = m /\ m \in Kids(T, s) /\ XMLToken = T[m]
  BY <1>1, <1>2, <1>3, <1>4, ContentIs
<1>7. m \in ValueKids(T, s)
  BY <1>1, <1>6 DEF ValueKids
<1>8. Tokens(T)
  BY ReadingIs
<1>9. WaitingAt([kind |-> TopElement.kind, attrs |-> TopElement.attrs, keys |-> Append(TopElement.keys, TopElement.key[1]),
                 values |-> TopElement.values, key |-> << >>], T, s, m)
  BY <1>1, <1>5, <1>7, <1>8, FrameAsked
<1>10. /\ Len(xmlStack') = Len(xmlStack) /\ \A i \in 1 .. Len(xmlStack) - 1 : xmlStack'[i] = xmlStack[i]
       /\ xmlStack'[Len(xmlStack)] = [kind |-> TopElement.kind, attrs |-> TopElement.attrs, keys |-> Append(TopElement.keys, TopElement.key[1]),
                                      values |-> TopElement.values, key |-> << >>]
  <2>1. PICK keys, values : keys = Append(TopElement.keys, TopElement.key[1]) /\ values = TopElement.values
    OBVIOUS
  <2>2. IInv /\ xmlStack # << >> /\ ChangeTop(keys, values, << >>)
    BY <1>1, <1>5, <2>1 DEF Reading
  <2>3. /\ Len(xmlStack') = Len(xmlStack) /\ \A i \in 1 .. Len(xmlStack) - 1 : xmlStack'[i] = xmlStack[i]
        /\ xmlStack'[Len(xmlStack)] = [kind |-> TopElement.kind, attrs |-> TopElement.attrs, keys |-> keys, values |-> values,
                                       key |-> << >>]
    BY ONLY <2>2, TopIsChanged
  <2> QED BY <2>1, <2>3
<1>11. WaitingAt(xmlStack'[Len(xmlStack)], T, s, m) /\ xmlPos' = m /\ idrefs' = Known(T, m - 1)
  BY <1>1, <1>5, <1>6, <1>9, <1>10
<1> QED BY <1>1, <1>2, <1>4, <1>5, <1>7, <1>10, <1>11, ChildStep

\* as it always is.
LEMMA KeyMissingKeeps ==
  ASSUME NEW T, Reading(T), Walk(T), KeyMissing
  PROVE  FALSE
<1>1. /\ xmlPc = "content" /\ xmlPos # limit /\ Starts /\ TopElement.kind = "dict" /\ XMLToken.start # "key" /\ TopElement.key = << >>
  BY DEF KeyMissing, AtToken, NoToken
<1>2. PICK path : OnPath(T, path) /\ \E m \in 1 .. Len(T) : InContent(T, path, m)
  BY <1>1, WalkAt
<1>3. PICK m \in 1 .. Len(T) : InContent(T, path, m)
  BY <1>2
<1>4. PICK s : s = path[Len(path)]
  OBVIOUS
<1>5. /\ s \in StartTags(T) /\ SoundElement(T, s) /\ TopElement.kind = T[s].start /\ TopElement.key = Pending(T, s, m)
  BY <1>2, <1>3, <1>4, TopIs
<1>6. m \in Kids(T, s) /\ XMLToken = T[m]
  BY <1>1, <1>2, <1>3, <1>4, ContentIs
<1>7. m \in ValueKids(T, s) /\ Paired(T, s) /\ Tokens(T)
  BY <1>1, <1>5, <1>6, DictIs, ReadingIs DEF ValueKids
<1> QED BY <1>1, <1>5, <1>7, KeyWaits

\* The loop goes on in a container that is not a plist element.
LEMMA LoopStep ==
  ASSUME NEW T, NEW path, OnPath(T, path), WaitingAlong(T, path), Len(path) = Len(xmlStack),
         NEW s, s = path[Len(path)], T[s].start # "plist",
         Len(xmlStack') = Len(xmlStack), \A i \in 1 .. Len(xmlStack) - 1 : xmlStack'[i] = xmlStack[i],
         NEW m \in 1 .. Len(T), s < m, m <= EndOf(T, s), Level(T, s, m - 1) = 1,
         ReadyAt(xmlStack'[Len(xmlStack)], T, s, m), idrefs' = Known(T, m - 1), Unread(T, m)', xmlPc' = "content"
  PROVE  Walk(T)'
<1>1. InContent(T, path, m)'
  BY DEF InContent
<1>2. WaitingAlong(T, path)'
  BY WaitingSame
<1> QED BY <1>1, <1>2, ContentStep

\* A key, whose end may be missing where the document is cut off.
LEMMA KeyKeeps ==
  ASSUME NEW T, Reading(T), Walk(T), KeyChild
  PROVE  Walk(T)'
<1> DEFINE last == EndOf(xmlDoc.tokens, xmlPos)
           key == <<IF last < limit THEN TextWithin(xmlDoc.tokens, xmlPos, last) ELSE << >>>>
<1>1. /\ xmlPc = "content" /\ xmlPos # limit /\ Starts /\ TopElement.kind = "dict" /\ XMLToken.start = "key"
      /\ ChangeTop(TopElement.keys, TopElement.values, key) /\ xmlPos' = After(last)
      /\ xmlDoc' = xmlDoc /\ limit' = limit /\ idrefs' = idrefs /\ xmlPc' = "content"
  BY DEF KeyChild, AtToken, NoToken, decoder
<1>2. PICK path : OnPath(T, path) /\ WaitingAlong(T, path) /\ \E m \in 1 .. Len(T) : InContent(T, path, m)
  BY <1>1, WalkAt
<1>3. PICK m \in 1 .. Len(T) : InContent(T, path, m)
  BY <1>2
<1>4. PICK s : s = path[Len(path)]
  OBVIOUS
<1>5. /\ s \in InRoot(T) /\ s \in StartTags(T) /\ EndOf(T, s) <= Len(T) /\ TopElement.kind = T[s].start /\ xmlStack # << >>
      /\ Len(path) = Len(xmlStack) /\ TopElement = xmlStack[Len(xmlStack)] /\ ReadyAt(TopElement, T, s, m)
      /\ idrefs = Known(T, m - 1)
  BY <1>2, <1>3, <1>4, TopIs
<1>6. xmlPos = m /\ m \in Kids(T, s) /\ XMLToken = T[m]
  BY <1>1, <1>2, <1>3, <1>4, ContentIs
<1>7. /\ Tokens(T) /\ Tokens(xmlDoc.tokens) /\ Begins(xmlDoc.tokens, T) /\ limit \in 1 .. Len(xmlDoc.tokens) + 1
      /\ Sound(T)
  BY ReadingIs DEF Reading
<1>8. m \in InRoot(T)
  BY <1>5, <1>6, <1>7, InRootIs
<1>9. /\ m \in StartTags(T) /\ SoundElement(T, m) /\ EndOf(T, m) <= Len(T) /\ EndOf(T, m) \in Nat
      /\ EndOf(T, m) <= EndOf(T, RootOf(T)) /\ m < EndOf(T, m)
  BY <1>7, <1>8, InRootIs
<1>10. m <= Len(xmlDoc.tokens)
  BY <1>1, <1>6, TokenIs
<1>11. /\ last < limit => last = EndOf(T, m) /\ TextWithin(xmlDoc.tokens, xmlPos, last) = ContentOf(T, m)
       /\ ~(last < limit) => ~(EndOf(T, m) < limit)
  BY <1>6, <1>7, <1>9, <1>10, SameElement
<1>12. CASE ~(last < limit)
  <2>1. xmlPos' = limit
    BY <1>1, <1>12 DEF After
  <2>2. ~Whole(T)
    <3> SUFFICES ASSUME Whole(T) PROVE FALSE
      OBVIOUS
    <3>1. EndOf(T, RootOf(T)) < limit
      BY WholeIs
    <3>2. RootOf(T) \in InRoot(T)
      BY <1>7, RootIs
    <3>3. EndOf(T, RootOf(T)) \in Nat /\ EndOf(T, m) \in Nat /\ limit \in Nat /\ ~(EndOf(T, m) < limit)
      BY <1>7, <1>9, <1>11, <1>12, <3>2, InRootIs
    <3> HIDE DEF last
    <3> QED BY <1>9, <3>1, <3>3
  <2> QED BY <1>1, <2>1, <2>2, LostStep
<1>13. CASE last < limit
  <2>1. PICK m1 : m1 = EndOf(T, m) + 1
    OBVIOUS
  <2>2. key = <<ContentOf(T, m)>> /\ xmlPos' = m1
    BY <1>1, <1>11, <1>13, <2>1 DEF After
  <2>3. Leaf(T, m) /\ T[m].start = "key"
    <3>1. "key" \notin Scalars
      BY DEF Scalars, EmptyValue
    <3> QED BY <1>1, <1>6, <1>9, <3>1 DEF SoundElement
  <2>4. Known(T, m - 1) = Known(T, EndOf(T, m))
    BY <1>7, <1>9, <2>3, LeafCompleted DEF Unnamed
  <2>5. /\ m1 \in Nat /\ s < m1 /\ m1 <= EndOf(T, s) /\ Level(T, s, m1 - 1) = 1
    BY <1>5, <1>6, <1>7, <2>1, KidAdded
  <2>6. ReadyAt([kind |-> TopElement.kind, attrs |-> TopElement.attrs, keys |-> TopElement.keys, values |-> TopElement.values,
                 key |-> <<ContentOf(T, m)>>], T, s, m1)
    BY <1>5, <1>6, <1>7, <2>1, <2>3, FrameKeyed
  <2>7. PICK keys, values, k : keys = TopElement.keys /\ values = TopElement.values /\ k = <<ContentOf(T, m)>>
    OBVIOUS
  <2>8. IInv /\ xmlStack # << >> /\ ChangeTop(keys, values, k)
    BY <1>1, <1>5, <2>2, <2>7 DEF Reading
  <2>9. /\ Len(xmlStack') = Len(xmlStack) /\ \A i \in 1 .. Len(xmlStack) - 1 : xmlStack'[i] = xmlStack[i]
        /\ xmlStack'[Len(xmlStack)] = [kind |-> TopElement.kind, attrs |-> TopElement.attrs, keys |-> keys, values |-> values,
                                       key |-> k]
    BY ONLY <2>8, TopIsChanged
  <2>10. ReadyAt(xmlStack'[Len(xmlStack)], T, s, m1)
    BY ONLY <2>6, <2>7, <2>9
  <2>11. idrefs' = Known(T, m1 - 1) /\ m1 - 1 = EndOf(T, m) /\ m1 \in 1 .. Len(T)
    <3>1. m1 - 1 = EndOf(T, m)
      BY <1>9, <2>1
    <3>2. m1 \in 1 .. Len(T)
      <4>1. EndOf(T, s) \in Nat /\ Len(T) \in Nat
        BY <1>5, <1>7, StartTagIs
      <4> QED BY <1>5, <1>9, <2>1, <2>5, <4>1
    <3> QED BY <1>1, <1>5, <2>4, <3>1, <3>2
  <2>12. Unread(T, m1)'
    <3>1. xmlPos' <= m1 /\ xmlPos' .. m1 - 1 = {}
      BY <2>2, <2>5
    <3> QED BY <3>1 DEF Unread
  <2>13. T[s].start # "plist"
    BY <1>1, <1>5
  <2> QED BY <1>1, <1>2, <1>4, <1>5, <2>5, <2>9, <2>10, <2>11, <2>12, <2>13, LoopStep
<1> QED BY <1>12, <1>13

\* A container is complete, and its value stored and returned.
LEMMA CloseKeeps ==
  ASSUME NEW T, Reading(T), Walk(T), CloseElement
  PROVE  Walk(T)'
<1>1. /\ xmlPc = "content" /\ xmlPos # limit /\ EndsTop /\ TopElement.kind # "plist"
      /\ ReturnStored(TopElement.attrs, CollectionOf(TopElement)) /\ xmlStack' = Front(xmlStack) /\ xmlPos' = xmlPos + 1
  BY DEF CloseElement, AtToken, NoToken, Pop
<1>2. PICK path : OnPath(T, path) /\ WaitingAlong(T, path) /\ \E m \in 1 .. Len(T) : InContent(T, path, m)
  BY <1>1, WalkAt
<1>3. PICK m \in 1 .. Len(T) : InContent(T, path, m)
  BY <1>2
<1>4. PICK s : s = path[Len(path)]
  OBVIOUS
<1>5. /\ s \in StartTags(T) /\ EndOf(T, s) <= Len(T) /\ TopElement.kind = T[s].start /\ TopElement.attrs = T[s].attrs
      /\ xmlStack # << >> /\ xmlStack \in Seq(Range(xmlStack)) /\ T[s].start \in Containers
      /\ Len(path) = Len(xmlStack) /\ ReadyAt(TopElement, T, s, m) /\ idrefs = Known(T, m - 1)
  BY <1>2, <1>3, <1>4, TopIs
<1>6. xmlPos = m /\ m = EndOf(T, s)
  BY <1>1, <1>2, <1>3, <1>4, ContentIs
<1>7. Tokens(T) /\ m \in Nat /\ m - 1 \in Int
  BY ReadingIs
<1>8. T[s].start \in {"array", "dict"} /\ T[s].start \notin Unnamed
  BY <1>1, <1>5 DEF Containers, Unnamed
<1>9. CollectionOf(TopElement) = ValuesByEnd(T)[EndOf(T, s)]
  BY <1>5, <1>6, <1>7, <1>8, FrameClosed
<1>10. /\ Stored(T[s].attrs, CollectionOf(TopElement), Known(T, m - 1)) = Known(T, EndOf(T, s))
       /\ Found(T[s].attrs, CollectionOf(TopElement), Known(T, m - 1)) = Value(T, s)
  <2>1. PICK n, value : n = m - 1 /\ value = CollectionOf(TopElement)
    OBVIOUS
  <2>2. n \in Int /\ Completed(T, n) = Completed(T, EndOf(T, s) - 1) /\ value = ValuesByEnd(T)[EndOf(T, s)]
    BY <1>6, <1>7, <1>9, <2>1
  <2>3. /\ Stored(T[s].attrs, value, Known(T, n)) = Known(T, EndOf(T, s))
        /\ Found(T[s].attrs, value, Known(T, n)) = Value(T, s)
    BY <1>5, <1>7, <1>8, <2>2, ReturnStep
  <2> QED BY <2>1, <2>3
<1>11. xmlPc' = "return" /\ idrefs' = Known(T, EndOf(T, s)) /\ xmlRet' = Value(T, s)
  BY <1>1, <1>5, <1>10 DEF ReturnStored
<1>12. /\ Len(xmlStack) \in Nat \ {0} /\ Len(xmlStack') = Len(xmlStack) - 1
       /\ \A i \in 1 .. Len(xmlStack) - 1 : xmlStack'[i] = xmlStack[i]
  BY <1>1, <1>5, Popped
<1>13. PICK m1 : m1 = EndOf(T, s) + 1
  OBVIOUS
<1>14. Unread(T, m1)'
  <2>1. xmlPos' <= m1 /\ xmlPos' .. m1 - 1 = {}
    BY <1>1, <1>6, <1>7, <1>13
  <2> QED BY <2>1 DEF Unread
<1>15. AtReturn(T, path)'
  BY <1>4, <1>5, <1>11, <1>12, <1>13, <1>14 DEF AtReturn
<1>16. WaitingAlong(T, path)'
  BY <1>2, <1>5, <1>12, WaitingSame
<1> QED BY <1>2, <1>15, <1>16, ReturnedStep

\* No key is left without its value.
LEMMA ValueMissingKeeps ==
  ASSUME NEW T, Reading(T), Walk(T), ValueMissing
  PROVE  FALSE
<1>1. xmlPc = "content" /\ xmlPos # limit /\ EndsTop /\ TopElement.key # << >>
  BY DEF ValueMissing, AtToken, NoToken
<1>2. PICK path : OnPath(T, path) /\ \E m \in 1 .. Len(T) : InContent(T, path, m)
  BY <1>1, WalkAt
<1>3. PICK m \in 1 .. Len(T) : InContent(T, path, m)
  BY <1>2
<1>4. PICK s : s = path[Len(path)]
  OBVIOUS
<1>5. /\ s \in StartTags(T) /\ SoundElement(T, s) /\ TopElement.key = Pending(T, s, m) /\ T[s].start \in Containers
  BY <1>2, <1>3, <1>4, TopIs
<1>6. m = EndOf(T, s)
  BY <1>1, <1>2, <1>3, <1>4, ContentIs
<1>7. Tokens(T)
  BY ReadingIs
<1>8. CASE T[s].start = "dict"
  <2>1. Paired(T, s)
    BY <1>5, <1>8, DictIs
  <2> QED BY <1>1, <1>5, <1>6, <1>7, <2>1, ValueFollowed
<1>9. CASE T[s].start \in {"plist", "array"}
  <2>1. /\ "plist" \notin Scalars /\ "plist" \notin Booleans \cup {"key"}
        /\ "array" \notin Scalars /\ "array" \notin Booleans \cup {"key"}
    BY DEF Scalars, EmptyValue, Booleans
  <2>2. Kids(T, s) = ValueKids(T, s)
    BY <1>5, <1>9, <2>1 DEF SoundElement
  <2> QED BY <1>1, <1>5, <1>7, <2>2, NoKeyHere
<1> QED BY <1>5, <1>8, <1>9 DEF Containers

\* A plist element has a single child.
LEMMA PlistIs ==
  ASSUME NEW T, Tokens(T), NEW s, SoundElement(T, s), T[s].start = "plist"
  PROVE  \E q : Kids(T, s) = {q} /\ ValueKids(T, s) = {q}
<1>1. "plist" \notin Scalars /\ "plist" \notin Booleans \cup {"key"}
  BY DEF Scalars, EmptyValue, Booleans
<1>2. Kids(T, s) = ValueKids(T, s) /\ Cardinality(Kids(T, s)) = 1
  BY <1>1 DEF SoundElement
<1>3. IsFiniteSet(Kids(T, s))
  <2>1. Kids(T, s) \subseteq 0 .. Len(T) /\ Len(T) \in Nat
    BY KidsAre
  <2>2. IsFiniteSet(0 .. Len(T))
    BY <2>1, FS_Interval
  <2> QED BY <2>1, <2>2, FS_Subset
<1>4. \E q : Kids(T, s) = {q}
  BY <1>2, <1>3, FS_Singleton
<1> QED BY <1>2, <1>4

\* No plist element is empty.
LEMMA CloseEmptyPlistKeeps ==
  ASSUME NEW T, Reading(T), Walk(T), CloseEmptyPlist
  PROVE  FALSE
<1>1. xmlPc = "content" /\ xmlPos # limit /\ EndsTop /\ TopElement.kind = "plist"
  BY DEF CloseEmptyPlist, AtToken, NoToken
<1>2. PICK path : OnPath(T, path) /\ \E m \in 1 .. Len(T) : InContent(T, path, m)
  BY <1>1, WalkAt
<1>3. PICK m \in 1 .. Len(T) : InContent(T, path, m)
  BY <1>2
<1>4. PICK s : s = path[Len(path)]
  OBVIOUS
<1>5. /\ s \in StartTags(T) /\ SoundElement(T, s) /\ TopElement.kind = T[s].start
      /\ T[s].start = "plist" => xmlPos = m /\ KidsBefore(T, s, m) = {}
  <2>1. s \in StartTags(T) /\ SoundElement(T, s) /\ TopElement.kind = T[s].start
    BY <1>2, <1>3, <1>4, TopIs
  <2>2. T[s].start = "plist" => xmlPos = m /\ KidsBefore(T, s, m) = {}
    BY <1>2, <1>3, <1>4 DEF InContent
  <2> QED BY <2>1, <2>2
<1>6. m = EndOf(T, s)
  BY <1>1, <1>2, <1>3, <1>4, ContentIs
<1>7. Tokens(T)
  BY ReadingIs
<1>8. Kids(T, s) = {}
  BY <1>1, <1>5, <1>6, <1>7, AllKids
<1>9. \E q : Kids(T, s) = {q}
  BY <1>1, <1>5, <1>7, PlistIs
<1> QED BY <1>8, <1>9

\* The call below, when one has returned.
LEMMA ReturnedTo ==
  ASSUME NEW T, Reading(T), xmlStack # << >>, NEW path, OnPath(T, path), WaitingAlong(T, path), AtReturn(T, path),
         NEW new, new = Front(path), NEW s, s = new[Len(new)], NEW q, q = path[Len(path)]
  PROVE  /\ OnPath(T, new) /\ WaitingAlong(T, new) /\ Len(new) = Len(xmlStack) /\ Len(xmlStack) \in Nat \ {0}
         /\ \A i \in 1 .. Len(new) - 1 : new[i] = path[i]
         /\ s \in InRoot(T) /\ s \in StartTags(T) /\ SoundElement(T, s) /\ EndOf(T, s) <= Len(T)
         /\ q \in ValueKids(T, s) /\ q \in Kids(T, s) /\ EndOf(T, q) \in Nat
         /\ WaitingAt(TopElement, T, s, q) /\ TopElement.kind = T[s].start
         /\ xmlStack \in Seq(Range(xmlStack))
         /\ xmlRet = Value(T, q) /\ idrefs = Known(T, EndOf(T, q)) /\ Unread(T, EndOf(T, q) + 1)
<1> DEFINE n == Len(xmlStack)
<1>1. xmlStack \in Seq(Range(xmlStack)) /\ n \in Nat \ {0}
  <2>1. xmlStack \in Seq(Range(xmlStack))
    BY DEF Reading, IInv, FramesRight
  <2> QED BY <2>1
<1>2. Len(path) = n + 1 /\ Len(path) > 1 /\ Len(path) - 1 = n
  BY <1>1 DEF AtReturn
<1>3. Tokens(T) /\ Sound(T)
  BY ReadingIs DEF Reading
<1>4. /\ OnPath(T, new) /\ Len(new) = n /\ new[n] = path[n] /\ q \in ValueKids(T, path[n])
      /\ \A i \in 1 .. n : new[i] = path[i]
  BY <1>2, <1>3, PathPopped
<1>5. s = path[n] /\ q = path[n + 1]
  BY <1>2, <1>4
<1> HIDE DEF n
<1>6. s \in InRoot(T)
  BY <1>3, <1>4, OnPathIs
<1>7. s \in StartTags(T) /\ SoundElement(T, s) /\ EndOf(T, s) <= Len(T)
  BY <1>3, <1>6, InRootIs
<1>8. q \in ValueKids(T, s) /\ q \in Kids(T, s)
  BY <1>4, <1>5 DEF ValueKids
<1>9. EndOf(T, q) \in Nat
  BY <1>3, <1>8, StartTagIs DEF Kids
<1>10. WaitingAt(TopElement, T, s, q)
  <2>1. n \in 1 .. Len(path) - 1
    BY <1>1, <1>2
  <2>2. WaitingAt(xmlStack[n], T, path[n], path[n + 1])
    BY <2>1 DEF WaitingAlong
  <2>3. TopElement = xmlStack[n]
    BY DEF TopElement, Last, n
  <2> QED BY <1>5, <2>2, <2>3
<1>11. TopElement.kind = T[s].start
  BY <1>10 DEF WaitingAt, FrameAt
<1>12. WaitingAlong(T, new)
  <2> SUFFICES ASSUME NEW i \in 1 .. Len(new) - 1 PROVE WaitingAt(xmlStack[i], T, new[i], new[i + 1])
    BY DEF WaitingAlong
  <2>1. i \in 1 .. n /\ i + 1 \in 1 .. n /\ i \in 1 .. Len(path) - 1
    BY <1>1, <1>2, <1>4
  <2>2. WaitingAt(xmlStack[i], T, path[i], path[i + 1])
    BY <2>1 DEF WaitingAlong
  <2> QED BY <1>4, <2>1, <2>2
<1>13. xmlRet = Value(T, q) /\ idrefs = Known(T, EndOf(T, q)) /\ Unread(T, EndOf(T, q) + 1)
  BY DEF AtReturn
<1>14. \A i \in 1 .. Len(new) - 1 : new[i] = path[i]
  BY <1>1, <1>4
<1> QED BY <1>1, <1>4, <1>6, <1>7, <1>8, <1>9, <1>10, <1>11, <1>12, <1>13, <1>14 DEF n

\* The loop goes on behind the child, with its value.
LEMMA GotValueKeeps ==
  ASSUME NEW T, Reading(T), Walk(T), GotValue
  PROVE  Walk(T)'
<1>1. /\ xmlPc = "return" /\ xmlStack # << >> /\ TopElement.kind # "plist" /\ xmlPc' = "content"
      /\ ChangeTop(TopElement.keys, Append(TopElement.values, xmlRet), TopElement.key)
      /\ xmlPos' = xmlPos /\ limit' = limit /\ idrefs' = idrefs
  BY DEF GotValue, Returned, decoder
<1>2. PICK path : OnPath(T, path) /\ WaitingAlong(T, path) /\ AtReturn(T, path)
  BY <1>1, WalkAt
<1>3. PICK new : new = Front(path)
  OBVIOUS
<1>4. PICK s, q : s = new[Len(new)] /\ q = path[Len(path)]
  OBVIOUS
<1>5. PICK m : m = EndOf(T, q) + 1
  OBVIOUS
<1>6. /\ OnPath(T, new) /\ WaitingAlong(T, new) /\ Len(new) = Len(xmlStack)
      /\ s \in StartTags(T) /\ EndOf(T, s) <= Len(T) /\ q \in ValueKids(T, s) /\ q \in Kids(T, s)
      /\ WaitingAt(TopElement, T, s, q) /\ TopElement.kind = T[s].start /\ EndOf(T, q) \in Nat
      /\ xmlRet = Value(T, q) /\ idrefs = Known(T, EndOf(T, q)) /\ Unread(T, EndOf(T, q) + 1)
  BY <1>1, <1>2, <1>3, <1>4, ReturnedTo
<1>7. Tokens(T)
  BY ReadingIs
<1>8. m \in Nat /\ s < m /\ m <= EndOf(T, s) /\ Level(T, s, m - 1) = 1
  BY <1>5, <1>6, <1>7, KidAdded
<1>9. ReadyAt([kind |-> TopElement.kind, attrs |-> TopElement.attrs, keys |-> TopElement.keys,
               values |-> Append(TopElement.values, Value(T, q)), key |-> TopElement.key], T, s, m)
  BY <1>5, <1>6, <1>7, FrameValued
<1>10. PICK keys, values, k : keys = TopElement.keys /\ values = Append(TopElement.values, Value(T, q)) /\ k = TopElement.key
  OBVIOUS
<1>11. IInv /\ xmlStack # << >> /\ ChangeTop(keys, values, k)
  BY <1>1, <1>6, <1>10 DEF Reading
<1>12. /\ Len(xmlStack') = Len(xmlStack) /\ \A i \in 1 .. Len(xmlStack) - 1 : xmlStack'[i] = xmlStack[i]
       /\ xmlStack'[Len(xmlStack)] = [kind |-> TopElement.kind, attrs |-> TopElement.attrs, keys |-> keys, values |-> values, key |-> k]
  BY ONLY <1>11, TopIsChanged
<1>13. ReadyAt(xmlStack'[Len(xmlStack)], T, s, m)
  BY ONLY <1>9, <1>10, <1>12
<1>14. m - 1 = EndOf(T, q) /\ m \in 1 .. Len(T)
  <2>1. EndOf(T, s) \in Nat /\ Len(T) \in Nat /\ s \in Nat
    BY <1>6, <1>7, StartTagIs
  <2> QED BY <1>5, <1>6, <1>8, <2>1
<1>15. idrefs' = Known(T, m - 1)
  BY <1>1, <1>6, <1>14
<1>16. Unread(T, m)'
  <2>1. Unread(T, m)
    BY <1>5, <1>6
  <2> QED BY <1>1, <2>1 DEF Unread
<1>17. T[s].start # "plist"
  BY <1>1, <1>6
<1> QED BY <1>1, <1>4, <1>6, <1>8, <1>12, <1>13, <1>14, <1>15, <1>16, <1>17, LoopStep

\* After its only child there is nothing in a plist element.
LEMMA PlistEnds ==
  ASSUME NEW T, Tokens(T), NEW s \in StartTags(T), EndOf(T, s) <= Len(T), SoundElement(T, s),
         T[s].start = "plist", NEW q \in ValueKids(T, s)
  PROVE  /\ ValueKids(T, s) = {q} /\ Known(T, EndOf(T, q)) = Known(T, EndOf(T, s))
         /\ EndOf(T, q) \in Nat /\ EndOf(T, s) \in Nat /\ EndOf(T, q) < EndOf(T, s)
         /\ \A k \in EndOf(T, q) + 1 .. EndOf(T, s) - 1 : ~Is("start", T[k]) /\ ~Is("end", T[k])
<1>1. Kids(T, s) = {q} /\ ValueKids(T, s) = {q}
  BY PlistIs
<1>2. PICK m, d, e : m = EndOf(T, q) + 1 /\ d = EndOf(T, q) /\ e = EndOf(T, s)
  OBVIOUS
<1>3. q \in StartTags(T) /\ q \in Kids(T, s)
  BY <1>1 DEF Kids
<1>4. m \in Nat /\ s < m /\ m <= e /\ Level(T, s, m - 1) = 1
  BY <1>2, <1>3, KidAdded
<1>5. /\ d \in Nat /\ e \in Nat /\ e \in 1 .. Len(T) /\ s \in Nat /\ q \in Nat /\ Len(T) \in Nat /\ s < e /\ d < e
      /\ q < d
  <2>1. d \in Nat /\ e \in Nat /\ s \in Nat /\ q \in Nat /\ Len(T) \in Nat /\ s < e
    BY <1>2, <1>3, StartTagIs
  <2>2. d < e
    BY <1>2, <1>4, <2>1
  <2>3. q < d
    BY <1>2, <1>3, <2>1, <2>2, StartTagIs
  <2> QED BY <1>2, <2>1, <2>2, <2>3
<1>6. \A k \in Kids(T, s) : k < m
  BY <1>1, <1>2, <1>5
<1>7. \A k \in m .. e - 1 : ~Is("start", T[k]) /\ ~Is("end", T[k])
  BY <1>2, <1>4, <1>6, NothingLeft
<1>8. ASSUME NEW r \in StartTags(T), T[r].start \notin Unnamed, EndOf(T, r) <= e
      PROVE  EndOf(T, r) <= d
  <2> SUFFICES ASSUME ~(EndOf(T, r) <= d) PROVE FALSE
    OBVIOUS
  <2>1. PICK x : x = EndOf(T, r)
    OBVIOUS
  <2>2. x \in Nat /\ r \in Nat /\ x <= Len(T) /\ x <= e /\ d < x
    <3>1. x \in Nat /\ r \in Nat
      BY <2>1, StartTagIs
    <3> QED BY <1>5, <1>8, <2>1, <3>1
  <2>3. Is("end", T[x]) /\ r < x
    BY <2>1, <2>2, EndTagIs, StartTagIs
  <2>4. x = e
    <3> SUFFICES ASSUME x # e PROVE FALSE
      OBVIOUS
    <3>1. x \in m .. e - 1
      BY <1>2, <1>5, <2>2
    <3> QED BY <1>7, <2>3, <3>1
  <2>5. r # s
    BY <1>8 DEF Unnamed
  <2>6. CASE r < s
    <3>1. EndOf(T, r) <= Len(T) /\ s < EndOf(T, r)
      BY <1>5, <2>1, <2>2, <2>4
    <3>2. EndOf(T, s) < EndOf(T, r)
      BY ONLY <2>6, <3>1, r \in StartTags(T), s \in StartTags(T), Tokens(T), NestedInside
    <3> QED BY <1>2, <1>5, <2>1, <2>4, <3>2
  <2>7. CASE s < r
    <3>1. r < EndOf(T, s)
      BY <1>2, <2>3, <2>4
    <3>2. EndOf(T, r) < EndOf(T, s)
      BY ONLY <2>7, <3>1, r \in StartTags(T), s \in StartTags(T), EndOf(T, s) <= Len(T), Tokens(T), NestedInside
    <3> QED BY <1>2, <1>5, <2>1, <2>4, <3>2
  <2> QED BY <1>5, <2>2, <2>5, <2>6, <2>7
<1>9. Known(T, d) = Known(T, e)
  BY <1>5, <1>8, CompletedSame
<1> QED BY <1>1, <1>2, <1>5, <1>7, <1>9

\* A plist element returns the value of its child, and leaves its end tag unread.
LEMMA GotPlistValueKeeps ==
  ASSUME NEW T, Reading(T), Walk(T), GotPlistValue
  PROVE  Walk(T)'
<1>1. /\ xmlPc = "return" /\ xmlStack # << >> /\ TopElement.kind = "plist" /\ xmlPc' = xmlPc /\ xmlRet' = xmlRet /\ xmlStack' = Front(xmlStack)
      /\ xmlPos' = xmlPos /\ limit' = limit /\ idrefs' = idrefs
  BY DEF GotPlistValue, Returned, Pop, decoder
<1>2. PICK path : OnPath(T, path) /\ WaitingAlong(T, path) /\ AtReturn(T, path)
  BY <1>1, WalkAt
<1>3. PICK new : new = Front(path)
  OBVIOUS
<1>4. PICK s, q : s = new[Len(new)] /\ q = path[Len(path)]
  OBVIOUS
<1>5. /\ OnPath(T, new) /\ WaitingAlong(T, new) /\ Len(new) = Len(xmlStack) /\ Len(xmlStack) \in Nat \ {0}
      /\ s \in StartTags(T) /\ EndOf(T, s) <= Len(T) /\ SoundElement(T, s)
      /\ q \in ValueKids(T, s) /\ T[s].start = "plist" /\ xmlStack \in Seq(Range(xmlStack))
      /\ xmlRet = Value(T, q) /\ idrefs = Known(T, EndOf(T, q)) /\ Unread(T, EndOf(T, q) + 1)
  BY <1>1, <1>2, <1>3, <1>4, ReturnedTo
<1>6. Tokens(T) /\ xmlPos \in Nat
  BY ReadingIs
<1>7. /\ ValueKids(T, s) = {q} /\ Known(T, EndOf(T, q)) = Known(T, EndOf(T, s))
      /\ EndOf(T, q) \in Nat /\ EndOf(T, s) \in Nat /\ EndOf(T, q) < EndOf(T, s)
      /\ \A k \in EndOf(T, q) + 1 .. EndOf(T, s) - 1 : ~Is("start", T[k]) /\ ~Is("end", T[k])
  BY <1>5, <1>6, PlistEnds
<1>8. Value(T, s) = Value(T, q)
  BY <1>5, <1>6, <1>7, PlistStandsFor
<1>9. Len(xmlStack') = Len(xmlStack) - 1 /\ \A i \in 1 .. Len(xmlStack) - 1 : xmlStack'[i] = xmlStack[i]
  BY <1>1, <1>5, Popped
<1>10. PICK d, m : d = EndOf(T, q) + 1 /\ m = EndOf(T, s) + 1
  OBVIOUS
<1>11. Unread(T, m)
  <2>1. xmlPos <= d /\ d <= m /\ d \in Nat /\ m \in Nat
    BY <1>5, <1>7, <1>10 DEF Unread
  <2>2. ASSUME NEW k \in xmlPos .. m - 1, k < limit
        PROVE  ~Is("start", T[k]) /\ (Is("end", T[k]) => T[k].end \notin {"array", "dict"})
    <3>1. CASE k < d
      <4>1. k \in xmlPos .. d - 1
        BY <1>6, <2>1, <3>1
      <4> QED BY <1>5, <1>10, <2>2, <4>1 DEF Unread
    <3>2. CASE ~(k < d) /\ k # EndOf(T, s)
      <4>1. k \in EndOf(T, q) + 1 .. EndOf(T, s) - 1
        BY <1>6, <1>7, <1>10, <2>1, <3>2
      <4> QED BY <1>7, <4>1
    <3>3. CASE k = EndOf(T, s)
      <4>1. ~Is("start", T[k])
        BY <1>5, <1>6, <3>3, EndTagIs
      <4>2. T[k].end = "plist"
        BY <1>5, <3>3 DEF SoundElement
      <4> QED BY <4>1, <4>2
    <3> QED BY <3>1, <3>2, <3>3
  <2>3. xmlPos <= m
    BY <1>6, <2>1
  <2> QED BY <2>2, <2>3 DEF Unread
<1>12. Unread(T, m)'
  BY <1>1, <1>11 DEF Unread
<1>13. AtReturn(T, new)'
  <2>1. Len(new) = Len(xmlStack') + 1
    BY <1>5, <1>9
  <2> QED BY <1>1, <1>4, <1>5, <1>7, <1>8, <1>10, <1>12, <2>1 DEF AtReturn
<1>14. WaitingAlong(T, new)'
  BY <1>5, <1>9, WaitingSame
<1> QED BY <1>5, <1>13, <1>14, ReturnedStep

--------------------------------------------------------------------------------
\* The theorems.

\* Every step of the parser, and every stutter, keeps the walk.
LEMMA WalkStep ==
  ASSUME NEW T, Reading(T), Walk(T), [XMLNext]_xmlVars
  PROVE  Walk(T)'
<1>1. CASE NotXML \/ SkipProlog \/ Root \/ FinishXML
  BY <1>1, NotXMLKeeps, SkipPrologKeeps, RootKeeps, FinishKeeps
<1>2. CASE ElementsExceeded \/ OpenElement \/ Scalar \/ ScalarCutOff \/ Truth \/ Unknown
  BY <1>2, NestingExceededKeeps, OpenKeeps, ScalarKeeps, ScalarCutOffKeeps, TruthKeeps, UnknownKeeps
<1>3. CASE ContentCutOff \/ SkipToken \/ PlistChild \/ ArrayChild \/ DictValue \/ KeyMissing \/ KeyChild
  BY <1>3, ContentCutOffKeeps, SkipTokenKeeps, ChildKeeps, DictValueKeeps, KeyMissingKeeps, KeyKeeps
<1>4. CASE CloseElement \/ ValueMissing \/ CloseEmptyPlist \/ GotPlistValue \/ GotValue
  BY <1>4, CloseKeeps, ValueMissingKeeps, CloseEmptyPlistKeeps, GotPlistValueKeeps, GotValueKeeps
<1>5. CASE UNCHANGED xmlVars
  <2>1. /\ xmlPc' = xmlPc /\ xmlPos' = xmlPos /\ limit' = limit /\ xmlDoc' = xmlDoc /\ idrefs' = idrefs /\ xmlStack' = xmlStack /\ xmlRet' = xmlRet
    BY <1>5 DEF xmlVars
  <2>2. CASE Lost /\ ~Whole(T)
    BY <2>1, <2>2 DEF Walk, Lost, Whole
  <2>3. CASE xmlPc \in {"document", "done"} /\ ~(Lost /\ ~Whole(T))
    BY <2>1, <2>3 DEF Walk, AtElement, AtReturn, InContent
  <2>4. ASSUME NEW path, OnPath(T, path), WaitingAlong(T, path) PROVE WaitingAlong(T, path)'
    BY <2>1, <2>4 DEF WaitingAlong
  <2>5. ASSUME NEW path, AtElement(T, path) PROVE AtElement(T, path)'
    BY <2>1, <2>5 DEF AtElement
  <2>6. ASSUME NEW path, AtReturn(T, path) PROVE AtReturn(T, path)'
    BY <2>1, <2>6 DEF AtReturn, Unread
  <2>7. ASSUME NEW path, NEW m, InContent(T, path, m) PROVE InContent(T, path, m)'
    BY <2>1, <2>7 DEF InContent, Unread
  <2>8. CASE ~(Lost /\ ~Whole(T)) /\ xmlPc \notin {"document", "done"}
    <3>1. PICK path : /\ OnPath(T, path) /\ WaitingAlong(T, path)
                      /\ \/ AtElement(T, path) \/ AtReturn(T, path)
                         \/ \E m \in 1 .. Len(T) : InContent(T, path, m)
      BY <2>8 DEF Walk
    <3>2. CASE AtElement(T, path)
      BY <2>4, <2>5, <3>1, <3>2, ElementStep
    <3>3. CASE AtReturn(T, path)
      BY <2>4, <2>6, <3>1, <3>3, ReturnedStep
    <3>4. CASE \E m \in 1 .. Len(T) : InContent(T, path, m)
      <4>1. PICK m \in 1 .. Len(T) : InContent(T, path, m)
        BY <3>4
      <4> QED BY <2>4, <2>7, <3>1, <4>1, ContentStep
    <3> QED BY <3>1, <3>2, <3>3, <3>4
  <2> QED BY <2>2, <2>3, <2>8
<1> QED BY <1>1, <1>2, <1>3, <1>4, <1>5 DEF XMLNext

\* The document and where it fails never change.
LEMMA DecoderKept ==
  ASSUME [XMLNext]_xmlVars
  PROVE  xmlDoc' = xmlDoc /\ limit' = limit
<1>1. CASE \/ NotXML \/ SkipProlog \/ Root \/ FinishXML \/ ElementsExceeded \/ OpenElement \/ Scalar \/ ScalarCutOff
           \/ Truth \/ Unknown
  BY <1>1 DEF NotXML, SkipProlog, Root, FinishXML, ElementsExceeded, OpenElement, Scalar, ScalarCutOff, Truth, Unknown,
              Stop, decoder
<1>2. CASE \/ ContentCutOff \/ SkipToken \/ PlistChild \/ ArrayChild \/ DictValue \/ KeyMissing \/ KeyChild
           \/ CloseElement \/ ValueMissing \/ CloseEmptyPlist \/ GotPlistValue \/ GotValue
  BY <1>2 DEF ContentCutOff, SkipToken, PlistChild, ArrayChild, DictValue, KeyMissing, KeyChild, Child,
              CloseElement, ValueMissing, CloseEmptyPlist, GotPlistValue, GotValue, Stop, decoder
<1> QED BY <1>1, <1>2 DEF XMLNext, xmlVars

\* The invariant of the walk.
Follows == xmlDoc \in XMLDocs /\ limit = FailsAt(xmlDoc.tokens) /\ Agrees

\* What the parser has read so far is what the document means so far, for every document that
\* means something and every beginning of one.
THEOREM MeaningFollowed == XMLSpec => []Follows
<1>1. XMLInit => Follows
  <2> SUFFICES ASSUME XMLInit PROVE Follows
    OBVIOUS
  <2>1. xmlDoc \in XMLDocs /\ limit = FailsAt(xmlDoc.tokens) /\ xmlPc = "document" /\ xmlPos = 1 /\ idrefs = NoIDs
    BY DEF XMLInit, XMLAtStart
  <2>2. ASSUME NEW T \in {xmlDoc.tokens, xmlDoc.whole}, Sound(T) PROVE Walk(T)
    <3>1. Tokens(T)
      <4>1. T \in Seq(Range(T)) /\ \A token \in Range(T) : ~(Is("start", token) /\ Is("end", token))
        BY <2>1, TokensAssumption
      <4>2. \A i \in 1 .. Len(T) : T[i] \in Range(T)
        BY <4>1 DEF Range
      <4> QED BY <4>1, <4>2 DEF Tokens
    <3>2. RootOf(T) \in Nat \ {0}
      BY <2>2, <3>1, RootIs, StartTagIs
    <3> QED BY <2>1, <3>2 DEF Walk
  <2> QED BY <2>1, <2>2 DEF Follows, Agrees
<1>2. IInv /\ Follows /\ [XMLNext]_xmlVars => Follows'
  <2> SUFFICES ASSUME IInv, Follows, [XMLNext]_xmlVars PROVE Follows'
    OBVIOUS
  <2>1. xmlDoc' = xmlDoc /\ limit' = limit
    BY DecoderKept
  <2>2. ASSUME NEW T \in {xmlDoc.tokens, xmlDoc.whole}, Begins(xmlDoc.tokens, T), Sound(T) PROVE Walk(T)'
    <3>1. Reading(T) /\ Walk(T)
      BY <2>2 DEF Follows, Agrees, Reading
    <3> QED BY <3>1, WalkStep
  <2>3. Agrees'
    BY <2>1, <2>2 DEF Agrees
  <2> QED BY <2>1, <2>3 DEF Follows
<1> QED BY <1>1, <1>2, Inductive, PTL DEF XMLSpec

\* parseDocument reads every document that means something, is nested no deeper than
\* maxNestingDepth and is not cut off, and returns what it means.
THEOREM WholeDocumentRead == XMLSpec => []MeaningRead
<1>1. IInv /\ Follows => MeaningRead
  <2> SUFFICES ASSUME IInv, Follows, XMLEnded, Readable(xmlDoc.tokens)
               PROVE  xmlPc = "done" /\ xmlRet = MeaningOf(xmlDoc.tokens)
    BY DEF MeaningRead
  <2>1. PICK T : T = xmlDoc.tokens
    OBVIOUS
  <2>2. T \in Seq(Range(T)) /\ Sound(T)
    BY <2>1, TokensAssumption DEF Follows, Readable
  <2>3. Begins(T, T)
    BY <2>2 DEF Begins
  <2>4. Walk(T)
    BY <2>1, <2>2, <2>3 DEF Follows, Agrees
  <2>5. Whole(T)
    BY <2>1 DEF Whole
  <2> QED BY <2>1, <2>4, <2>5, WalkAt DEF XMLEnded
<1> QED BY <1>1, Inductive, MeaningFollowed, PTL

\* What parseDocument accepts of a document that is cut off, anywhere, is all of its value.
THEOREM CutOffNeverShorter == XMLSpec => []CutOffHarmless
<1>1. Follows => CutOffHarmless
  <2> SUFFICES ASSUME Follows, xmlPc = "done", Begins(xmlDoc.tokens, xmlDoc.whole), Sound(xmlDoc.whole)
               PROVE  xmlRet = MeaningOf(xmlDoc.whole)
    BY DEF CutOffHarmless
  <2>1. Walk(xmlDoc.whole)
    BY DEF Follows, Agrees
  <2> QED BY <2>1, WalkAt
<1> QED BY <1>1, MeaningFollowed, PTL
================================================================================
