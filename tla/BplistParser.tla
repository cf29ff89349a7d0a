----------------------------- MODULE BplistParser ------------------------------
(***************************************************************************)
(* bplistParser.objectAtIndex and what it calls: the recursive descent     *)
(* through the object table with its memo table (objects), its container   *)
(* stack, and the panics that parseDocument recovers.                      *)
(*                                                                         *)
(* The goroutine's stack is the variable frames: one frame for each call   *)
(* of parseArrayAtOffset or parseDictionaryAtOffset that is still looping  *)
(* in parseObjectListAtOffset.  One action is one outcome of a call of     *)
(* objectAtIndex, or the return of a collection.  finished is a history    *)
(* variable: the ids in the order their memo entry is written.             *)
(***************************************************************************)
EXTENDS BplistDocument, SequencesExt

VARIABLES
  doc,             \* the document in the buffer; never changes
  objects,         \* bplistParser.objects
  frames,          \* the collections being parsed, outermost first
  containerStack,  \* bplistParser.containerStack
  status,          \* "parsing", then "ok" or "error" when parseDocument returns
  finished

parserVars == <<doc, objects, frames, containerStack, status, finished>>

NotParsed == [kind |-> "nil", elems |-> << >>]
Value == [kind : Kinds, elems : Seq(Ids)] \cup {NotParsed}
Frame == [id : Ids, elems : Seq(Ids)]

ParserInit ==
  /\ doc \in Documents
  /\ objects = [i \in Ids |-> NotParsed]
  /\ frames = << >>
  /\ containerStack = << >>
  /\ status = "parsing"
  /\ finished = << >>

-------------------------------------------------------------------------------
OffOf(i) == doc.offs[i]
RefsOf(f) == ObjectOf(doc, f.id).refs

\* The collection on top is still waiting for its next element.
Looping == frames # << >> => Len(Last(frames).elems) < Len(RefsOf(Last(frames)))

\* The index of the call of objectAtIndex that is about to be made.
Wanted ==
  IF frames = << >> THEN doc.top
  ELSE RefsOf(Last(frames))[Len(Last(frames).elems) + 1]

Calling == status = "parsing" /\ Looping

\* Mutant: the memo table is written but never read.
ParsingAgain == Calling /\ Wanted # BadRef

\* The call parses its object: the index is in range and its memo entry empty.
Parsing ==
  /\ Calling
  /\ Wanted # BadRef
  /\ objects[Wanted] = NotParsed

\* objectAtIndex returns i to the frame on top of stack, or to parseDocument.
Return(stack, i) ==
  IF stack = << >>
  THEN frames' = << >> /\ status' = "ok"
  ELSE /\ frames' = [stack EXCEPT ![Len(stack)] =
                       [id |-> @.id, elems |-> Append(@.elems, i)]]
       /\ status' = status

\* Mutant: the memo entry gets the element list instead of the object.
MemoizeList(i, v) ==
  /\ objects' = [objects EXCEPT ![i] = v.elems]
  /\ finished' = Append(finished, i)

Memoize(i, v) ==
  /\ objects' = [objects EXCEPT ![i] = v]
  /\ finished' = Append(finished, i)

\* A panic: every open frame runs its deferred popNestedObject.
Fail ==
  /\ status' = "error"
  /\ frames' = << >>
  /\ containerStack' =
       SubSeq(containerStack, 1, Len(containerStack) - Len(frames))
  /\ UNCHANGED <<doc, objects, finished>>

-------------------------------------------------------------------------------
\* Mutant: the range check is off by one, and the slice access that follows is
\* a runtime.Error, which parseDocument does not turn into an error.
RejectIndexOffByOne == FALSE

RejectIndex == Calling /\ Wanted = BadRef /\ Fail

FindParsed ==
  /\ Calling
  /\ Wanted # BadRef
  /\ objects[Wanted] # NotParsed
  /\ Return(frames, Wanted)
  /\ UNCHANGED <<doc, objects, containerStack, finished>>

RejectOffset == Parsing /\ OffOf(Wanted) = Beyond /\ Fail

\* A tag that names no object, or a scalar whose size is illegal.
RejectObject ==
  /\ Parsing
  /\ OffOf(Wanted) # Beyond
  /\ ObjectOf(doc, Wanted).kind = "illegal"
  /\ Fail

ParseScalar ==
  /\ Parsing
  /\ OffOf(Wanted) # Beyond
  /\ ObjectOf(doc, Wanted).kind \in {"scalar", "string"}
  /\ Memoize(Wanted, [kind |-> ObjectOf(doc, Wanted).kind, elems |-> << >>])
  /\ Return(frames, Wanted)
  /\ UNCHANGED <<doc, containerStack>>

\* Mutants: the nesting limit one too high and one too low; a cycle is looked
\* for in the innermost collection only.
TooDeepLate == Len(containerStack) > MaxNesting
TooDeepEarly == Len(containerStack) + 1 >= MaxNesting
SelfReferentialInner(off) ==
  containerStack # << >> /\ off = Last(containerStack)

\* The two panics of pushNestedObject.
TooDeep == Len(containerStack) >= MaxNesting
SelfReferential(off) == off \in Range(containerStack)

RejectNesting ==
  /\ Parsing
  /\ IsCollection(doc, Wanted)
  /\ TooDeep \/ SelfReferential(OffOf(Wanted))
  /\ Fail

RejectList ==
  /\ Parsing
  /\ IsCollection(doc, Wanted)
  /\ ~TooDeep
  /\ ~SelfReferential(OffOf(Wanted))
  /\ ~ObjectOf(doc, Wanted).fits
  /\ Fail

\* Mutants: the list's end is not compared with the offset table; the memo
\* entry is written before the elements are parsed.
OpenUnchecked ==
  /\ Parsing
  /\ IsCollection(doc, Wanted)
  /\ ~TooDeep
  /\ ~SelfReferential(OffOf(Wanted))
  /\ containerStack' = Append(containerStack, OffOf(Wanted))
  /\ frames' = Append(frames, [id |-> Wanted, elems |-> << >>])
  /\ UNCHANGED <<doc, objects, status, finished>>
OpenEarly ==
  /\ Parsing
  /\ IsCollection(doc, Wanted)
  /\ ~TooDeep
  /\ ~SelfReferential(OffOf(Wanted))
  /\ Memoize(Wanted, [kind |-> ObjectOf(doc, Wanted).kind, elems |-> << >>])
  /\ containerStack' = Append(containerStack, OffOf(Wanted))
  /\ frames' = Append(frames, [id |-> Wanted, elems |-> << >>])
  /\ UNCHANGED <<doc, status>>

OpenCollection ==
  /\ Parsing
  /\ IsCollection(doc, Wanted)
  /\ ~TooDeep
  /\ ~SelfReferential(OffOf(Wanted))
  /\ ObjectOf(doc, Wanted).fits
  /\ containerStack' = Append(containerStack, OffOf(Wanted))
  /\ frames' = Append(frames, [id |-> Wanted, elems |-> << >>])
  /\ UNCHANGED <<doc, objects, status, finished>>

\* Mutant: the last key is not looked at.
KeysButLastAreStrings(f) ==
  ObjectOf(doc, f.id).kind = "dict" =>
    \A k \in 1..(Len(f.elems) \div 2 - 1) : objects[f.elems[k]].kind = "string"

\* parseDictionaryAtOffset looks at the parsed keys once its list is complete.
KeysAreStrings(f) ==
  ObjectOf(doc, f.id).kind = "dict" =>
    \A k \in 1..(Len(f.elems) \div 2) : objects[f.elems[k]].kind = "string"

RejectKey ==
  /\ status = "parsing"
  /\ ~Looping
  /\ ~KeysAreStrings(Last(frames))
  /\ Fail

CloseCollection ==
  /\ status = "parsing"
  /\ ~Looping
  /\ KeysAreStrings(Last(frames))
  /\ LET f == Last(frames)
     IN  /\ Memoize(f.id, [kind |-> ObjectOf(doc, f.id).kind, elems |-> f.elems])
         /\ Return(Front(frames), f.id)
  /\ containerStack' = Front(containerStack)
  /\ UNCHANGED doc

ParserNext ==
  \/ RejectIndex \/ FindParsed \/ RejectOffset \/ RejectObject \/ ParseScalar
  \/ RejectNesting \/ RejectList \/ OpenCollection \/ RejectKey
  \/ CloseCollection

ParserSpec == ParserInit /\ [][ParserNext]_parserVars

-------------------------------------------------------------------------------
(***************************************************************************)
(* Properties.                                                             *)
(***************************************************************************)

\* Every variable has its type.
TypeOK ==
  /\ doc \in Document
  /\ objects \in [Ids -> Value]
  /\ frames \in Seq(Frame)
  /\ containerStack \in Seq(Offsets)
  /\ status \in {"parsing", "ok", "error"}
  /\ finished \in Seq(Ids)

\* containerStack is exactly the offsets of the calls still open, on every path
\* through the pushes, the deferred pops and the panics; no offset is open
\* twice, not even under two ids that share it; and it is empty again once
\* parseDocument has returned.
ContainerStackExact ==
  /\ containerStack = [k \in 1..Len(frames) |-> OffOf(frames[k].id)]
  /\ IsInjective(containerStack)
  /\ Len(containerStack) <= MaxNesting
  /\ status # "parsing" => containerStack = << >>

\* The memo table is written once for each id, although the write comes after
\* the whole subtree has been parsed and may be asked for again meanwhile.
ParsedOnce ==
  /\ IsInjective(finished)
  /\ Range(finished) = {i \in Ids : objects[i] # NotParsed}

\* A memoized collection holds only values memoized before it, so the values
\* handed out never form a cycle and a consumer's recursion over them ends.
ChildrenFirst ==
  \A n \in DOMAIN finished :
    \A k \in DOMAIN objects[finished[n]].elems :
      \E m \in 1..(n - 1) : finished[m] = objects[finished[n]].elems[k]

\* A well-formed document is accepted with exactly the value it denotes, and
\* any other document, or one that nests too deeply, is an error.
Promise ==
  INSTANCE BplistPromise WITH
    value <- IF status = "ok"
             THEN [i \in {j \in Ids : objects[j] # NotParsed} |-> objects[i]]
             ELSE << >>

ImplementsPromise == Promise!Spec

\* What the comment on maxNestingDepth (plist.go) says of it: no accepted
\* document nests more deeply.
NestingBounded == status = "ok" => NestingDepth(doc) <= MaxNesting
===============================================================================
