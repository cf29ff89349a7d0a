-------------------------------- MODULE TypeInfo --------------------------------
(***************************************************************************)
(* GetTypeInfo: what a struct type looks like as a dictionary, worked out  *)
(* by any number of goroutines at once and kept in the sync.Map tinfoMap.  *)
(* A goroutine that finds nothing in the map builds a TypeInfo of its own, *)
(* calling GetTypeInfo for each embedded struct, and stores it at the end, *)
(* over the one another goroutine may have stored meanwhile.               *)
(*                                                                         *)
(* A TypeInfo is a pointer; infos maps it to the fields it points to.  A   *)
(* goroutine's calls of GetTypeInfo that have not returned are its stack,  *)
(* and returned[g] is the pointer its last call gave back.                 *)
(***************************************************************************)
EXTENDS SequencesExt, Integers

CONSTANTS
  Goroutines,
  Structs,       \* the struct types
  Layout,        \* Structs -> sequence of the fields of the type
  Gathered,      \* Gathered[t][n]: what the first n fields of t come to, with no cache
  Pointers,      \* bound: the TypeInfos that can be allocated
  NoInfo,        \* a nil pointer
  MaxCalls       \* bound: how often the goroutines ask, together

ASSUME NoInfoAssumption == NoInfo \notin Pointers

VARIABLES tinfoMap, infos, stack, returned, calls

vars == <<tinfoMap, infos, stack, returned, calls>>

\* A field of a type is [name, anonymous, exported, tag, type], its name the one the
\* tag gives it if there is one.
Skipped(f) == f.tag = "-" \/ (~f.anonymous /\ ~f.exported)
Embeds(f) == (f.anonymous \/ f.tag = "inline") /\ f.type \in Structs
Hidden(f) == Skipped(f) \/ (~Embeds(f) /\ f.anonymous /\ ~f.exported)

\* A field of a TypeInfo: the path of indexes that leads to it, and its name.
FieldInfo(idx, f) == [idx |-> idx, Name |-> f.name, OmitEmpty |-> f.tag = "omitempty"]

\* addFieldInfo: a shallower field of that name hides the new one; otherwise the new
\* one replaces those there are.
Add(fields, new) ==
  IF \E i \in DOMAIN fields : fields[i].Name = new.Name /\ Len(fields[i].idx) < Len(new.idx)
  THEN fields
  ELSE Append(SelectSeq(fields, LAMBDA f : f.Name # new.Name), new)

\* The fields of an embedded struct, reached through the field i.
Through(i, fields) ==
  [k \in DOMAIN fields |-> [idx |-> <<i>> \o fields[k].idx, Name |-> fields[k].Name,
                            OmitEmpty |-> fields[k].OmitEmpty]]
AddAll(fields, new) == FoldLeft(Add, fields, new)

\* What one goroutine alone would gather.  No struct embeds itself, directly or through
\* others: GetTypeInfo would not return.
Whole(t) == Gathered[t][Len(Layout[t])]
ASSUME LayoutAssumption ==
  \A t \in Structs : Layout[t] \in Seq(Range(Layout[t]))
ASSUME GatheredAssumption ==
  \A t \in Structs :
    /\ Gathered[t][0] = << >>
    /\ \A n \in 1 .. Len(Layout[t]) :
         LET f == Layout[t][n]
             before == Gathered[t][n - 1]
         IN  Gathered[t][n] =
               IF Hidden(f) THEN before
               ELSE IF Embeds(f) THEN AddAll(before, Through(n, Whole(f.type)))
               ELSE Add(before, FieldInfo(<<n>>, f))

Frame(t) == [type |-> t, at |-> 1, info |-> NoInfo]
Top(g) == Head(stack[g])
CurrentField(g) == Layout[Top(g).type][Top(g).at]
Filling(g) == /\ stack[g] # << >> /\ returned[g] = NoInfo /\ Top(g).info # NoInfo
Became(g, frame) == stack' = [stack EXCEPT ![g] = <<frame>> \o Tail(@)]
AdvancedUnlessEmbedded(g) ==
  [type |-> Top(g).type, at |-> Top(g).at + (IF Embeds(CurrentField(g)) THEN 0 ELSE 1), info |-> Top(g).info]
Advanced(g) == [type |-> Top(g).type, at |-> Top(g).at + 1, info |-> Top(g).info]
Answer(g, info) ==
  /\ stack' = [stack EXCEPT ![g] = Tail(@)]
  /\ returned' = [returned EXCEPT ![g] = info]
Fill(info, fields) == infos' = [infos EXCEPT ![info] = fields]
Stored(t, info) == [u \in DOMAIN tinfoMap \cup {t} |-> IF u = t THEN info ELSE tinfoMap[u]]

Init ==
  /\ tinfoMap = << >>
  /\ infos = << >>
  /\ stack = [g \in Goroutines |-> << >>]
  /\ returned = [g \in Goroutines |-> NoInfo]
  /\ calls = 0

\* From marshalStruct or unmarshalDictionary, which may still hold what earlier calls gave
\* back: they ask for the types of a struct's fields while they go through its TypeInfo.
Call(g) ==
  /\ stack[g] = << >> /\ calls < MaxCalls
  /\ \E t \in Structs : stack' = [stack EXCEPT ![g] = <<Frame(t)>>]
  /\ returned' = [returned EXCEPT ![g] = NoInfo]
  /\ calls' = calls + 1
  /\ UNCHANGED <<tinfoMap, infos>>

LoadHit(g) ==
  /\ stack[g] # << >> /\ returned[g] = NoInfo /\ Top(g).info = NoInfo
  /\ Top(g).type \in DOMAIN tinfoMap
  /\ Answer(g, tinfoMap[Top(g).type])
  /\ UNCHANGED <<tinfoMap, infos, calls>>

Fresh == CHOOSE p \in Pointers : p \notin DOMAIN infos
AllocateNothing(g) ==
  UNCHANGED infos /\ Became(g, [type |-> Top(g).type, at |-> 1, info |-> Fresh])
Allocate(g) ==
  /\ infos' = [p \in DOMAIN infos \cup {Fresh} |-> IF p = Fresh THEN << >> ELSE infos[p]]
  /\ Became(g, [type |-> Top(g).type, at |-> 1, info |-> Fresh])
LoadMiss(g) ==
  /\ stack[g] # << >> /\ returned[g] = NoInfo /\ Top(g).info = NoInfo
  /\ Top(g).type \notin DOMAIN tinfoMap
  /\ ~(Pointers \subseteq DOMAIN infos)
  /\ Allocate(g)
  /\ UNCHANGED <<tinfoMap, returned, calls>>

AddPlain(g) ==
  /\ Filling(g) /\ Top(g).at <= Len(Layout[Top(g).type])
  /\ ~Hidden(CurrentField(g)) /\ ~Embeds(CurrentField(g))
  /\ Fill(Top(g).info, Add(infos[Top(g).info], FieldInfo(<<Top(g).at>>, CurrentField(g))))
  /\ Became(g, Advanced(g))
  /\ UNCHANGED <<tinfoMap, returned, calls>>

SkipField(g) ==
  /\ Filling(g) /\ Top(g).at <= Len(Layout[Top(g).type])
  /\ Hidden(CurrentField(g))
  /\ Became(g, Advanced(g))
  /\ UNCHANGED <<tinfoMap, infos, returned, calls>>

Descend(g) ==
  /\ Filling(g) /\ Top(g).at <= Len(Layout[Top(g).type])
  /\ ~Hidden(CurrentField(g)) /\ Embeds(CurrentField(g))
  /\ stack' = [stack EXCEPT ![g] = <<Frame(CurrentField(g).type)>> \o @]
  /\ UNCHANGED <<tinfoMap, infos, returned, calls>>

AddEmbeddedUnprefixed(g) ==
  /\ stack[g] # << >> /\ returned[g] # NoInfo
  /\ Fill(Top(g).info, AddAll(infos[Top(g).info], infos[returned[g]]))
  /\ returned' = [returned EXCEPT ![g] = NoInfo]
  /\ Became(g, Advanced(g))
  /\ UNCHANGED <<tinfoMap, calls>>
AddEmbedded(g) ==
  /\ stack[g] # << >> /\ returned[g] # NoInfo
  /\ Fill(Top(g).info, AddAll(infos[Top(g).info], Through(Top(g).at, infos[returned[g]])))
  /\ returned' = [returned EXCEPT ![g] = NoInfo]
  /\ Became(g, Advanced(g))
  /\ UNCHANGED <<tinfoMap, calls>>

StoreAt(g, last) ==
  /\ Filling(g) /\ Top(g).at > last
  /\ tinfoMap' = Stored(Top(g).type, Top(g).info)
  /\ Answer(g, Top(g).info)
  /\ UNCHANGED <<infos, calls>>
StoreEarly(g) ==
  \/ /\ Filling(g) /\ Top(g).at = 1 /\ Top(g).type \notin DOMAIN tinfoMap
     /\ tinfoMap' = Stored(Top(g).type, Top(g).info)
     /\ UNCHANGED <<stack, returned, infos, calls>>
  \/ StoreAt(g, Len(Layout[Top(g).type]))
Store(g) == StoreAt(g, Len(Layout[Top(g).type]))

Run(g) ==
  \/ LoadHit(g) \/ LoadMiss(g) \/ AddPlain(g) \/ SkipField(g)
  \/ Descend(g) \/ AddEmbedded(g) \/ Store(g)
Next == \E g \in Goroutines : Call(g) \/ Run(g)
Spec == Init /\ [][Next]_vars
\* The scheduler lets every running goroutine run; nobody has to call GetTypeInfo.
FairSpec == Spec /\ \A g \in Goroutines : WF_vars(Run(g))

--------------------------------------------------------------------------------
(***************************************************************************)
(* Properties.                                                             *)
(***************************************************************************)
\* The map, the stacks and the answers hold allocated pointers, and a goroutine
\* fills a TypeInfo only for a call that is still running.
TypeOK ==
  /\ DOMAIN tinfoMap \subseteq Structs /\ Range(tinfoMap) \subseteq DOMAIN infos
  /\ DOMAIN infos \subseteq Pointers
  /\ \A g \in Goroutines :
       /\ returned[g] \in DOMAIN infos \cup {NoInfo}
       /\ \A i \in DOMAIN stack[g] :
            /\ stack[g][i].type \in Structs
            /\ stack[g][i].info \in DOMAIN infos \cup {NoInfo}
            /\ i > 1 => stack[g][i].info # NoInfo

\* Whatever the interleaving, and whichever of two TypeInfos of a type wins the map, the
\* map holds what one goroutine alone would have gathered.
CacheCorrect == \A t \in DOMAIN tinfoMap : infos[tinfoMap[t]] = Whole(t)

\* A TypeInfo that a goroutine may hold is never written again, for readers take no lock.
\* It may be in the map or the answer of a call; or it may have been: once no call is
\* filling it any more, marshalStruct and unmarshalDictionary go through it for as long as
\* their own calls last, even if another has taken its place in the map.
BeingFilled(p) == \E g \in Goroutines : \E i \in DOMAIN stack[g] : stack[g][i].info = p
Published ==
  Range(tinfoMap) \cup {returned[g] : g \in Goroutines} \cup {p \in DOMAIN infos : ~BeingFilled(p)}
PublishedFrozen ==
  [][\A p \in Published \cap DOMAIN infos : infos'[p] = infos[p]]_vars

\* Every call of GetTypeInfo returns.
EveryCallReturns == \A g \in Goroutines : stack[g] # << >> ~> stack[g] = << >>
================================================================================
