----------------------------- MODULE KeyedArchiver -----------------------------
(***************************************************************************)
(* Archiver.Marshal: the recursive walk over a Go value that writes the    *)
(* object table, one call of marshal or of addObject a step.  The walk's   *)
(* goroutine stack is the variable stack; pending is what marshal was just *)
(* called with, or what it just returned.                                  *)
(*                                                                         *)
(* A Go value is [go, prim, type, items, ptr]: a primitive, a nil pointer  *)
(* or map, a value of a kind marshal does not know, or a composite.  items *)
(* are a slice's elements, a map's entries in sorted order, or a struct's  *)
(* fields, with the entry's or the field's name in key; "object" is a      *)
(* struct registered with ArchiverAddFoundation, and "leaf" a []byte, a    *)
(* date or a UUID, whose content is prim.  ptr says that the value is held *)
(* by a pointer, which marshal follows as if it were not there.            *)
(***************************************************************************)
EXTENDS ArchiverObjects, SequencesExt

CONSTANTS
  Values,        \* the Go values passed to Marshal
  Met,           \* the values marshal meets: those, and what is inside of them
  Tables,        \* what the caller may put into Archiver.Objects
  Second,        \* the whole second that a date lies in
  MaxCalls       \* bound: how often Marshal is called

Composites == {"slice", "map", "struct", "object", "leaf"}

VARIABLES stack, pending, arg, top, calls

vars == <<tableVars, stack, pending, arg, top, calls>>

NoUid == -1

Idle == [is |-> "idle"]
Step == [is |-> "step"]            \* the composite on top of the stack goes on
Call(v) == [is |-> "call", v |-> v]
Returned(uid) == [is |-> "uid", uid |-> uid]
NilElem == [is |-> "nil"]          \* errArchiverNilElem
Failed == [is |-> "error"]

\* The objects the archive holds beside primitives: class descriptions, and
\* what a composite is written as.  Maps and structs share the table form, and a
\* registered struct is a dictionary under the names of its fields.
Class(name) ==
  [kind |-> "class", data |-> name, names |-> << >>, keys |-> << >>, refs |-> << >>,
   class |-> NoUid]
Composite(f) ==
  [kind  |-> IF f.v.go \in {"map", "struct"} THEN "table" ELSE f.v.go,
   data  |-> CASE f.v.go = "leaf" /\ f.v.type = "NSDate" -> Second[f.v.prim]
               [] f.v.go = "leaf" /\ f.v.type # "NSDate" -> f.v.prim
               [] OTHER -> "",
   names |-> IF f.v.go = "object" THEN [k \in DOMAIN f.refs |-> f.v.items[k].key] ELSE << >>,
   keys  |-> f.keys, refs |-> f.refs, class |-> f.class]

ClassOf(v) ==
  CASE v.go \in {"map", "struct"} -> Class("NSMutableDictionary")
    [] v.go = "slice"             -> Class("NSMutableArray")
    [] OTHER                      -> Class(v.type)

\* Go values, as far as marshal looks at them.  Entries and fields have names.
ASSUME ValuesAssumption ==
  /\ Values \subseteq Met
  /\ \A v \in Met :
       /\ v.go \in {"prim", "nil", "unknown"} \cup Composites
       /\ v.prim \in Primitives
       /\ ClassOf(v).data \in ClassNames
       /\ v.items \in Seq(Range(v.items))
       /\ \A item \in Range(v.items) : item.value \in Met /\ item.key \in Primitives
  /\ Tables \subseteq Seq(Things)
  /\ Second \in [Primitives -> Primitives]
  /\ MaxCalls \in Nat

Frame(v) == [v |-> v, at |-> 0, keys |-> << >>, refs |-> << >>, key |-> NoUid, class |-> NoUid]
Top == Last(stack)
Item == Top.v.items[Top.at + 1]
Became(f) == stack' = Append(Front(stack), f)

Init ==
  /\ TableInit
  /\ stack = << >>
  /\ pending = Idle
  /\ arg = Idle
  /\ top = NoUid
  /\ calls = 0

-------------------------------------------------------------------------------
Marshal(v) ==
  /\ pending = Idle
  /\ calls < MaxCalls
  /\ calls' = calls + 1
  /\ Begin
  /\ arg' = v
  /\ pending' = Call(v)
  /\ UNCHANGED <<stack, top>>

\* Code outside the package writes to the exported field.
Assign ==
  /\ pending = Idle
  /\ \E objs \in Tables : Replace(objs)
  /\ UNCHANGED <<stack, pending, arg, top, calls>>

Calling(go) == pending.is = "call" /\ pending.v.go = go

MarshalPrimitive ==
  /\ Calling("prim")
  /\ pending.v.prim # Null
  /\ AddPrimitive(objects, pending.v.prim)
  /\ pending' = Returned(handed'.uid)
  /\ UNCHANGED <<open, stack, arg, top, calls>>

MarshalNull ==
  /\ Calling("prim")
  /\ pending.v.prim = Null
  /\ pending' = Returned(0)
  /\ UNCHANGED <<tableVars, stack, arg, top, calls>>

MarshalNil ==
  /\ Calling("nil")
  /\ pending' = NilElem
  /\ UNCHANGED <<tableVars, stack, arg, top, calls>>

MarshalUnknown ==
  /\ Calling("unknown")
  /\ pending' = Failed
  /\ UNCHANGED <<tableVars, stack, arg, top, calls>>

Descend ==
  /\ \E go \in Composites : Calling(go)
  /\ stack' = Append(stack, Frame(pending.v))
  /\ pending' = Step
  /\ UNCHANGED <<tableVars, arg, top, calls>>

-------------------------------------------------------------------------------
MoreItems == pending = Step /\ Top.at < Len(Top.v.items)

\* The next element, or the next field's value.
NextItem ==
  /\ MoreItems
  /\ Top.v.go # "map"
  /\ pending' = Call(Item.value)
  /\ UNCHANGED <<tableVars, stack, arg, top, calls>>

\* A map writes the key before it looks at the value.
NextEntry ==
  /\ MoreItems
  /\ Top.v.go = "map"
  /\ IF Item.key = Null
     THEN /\ Became([Top EXCEPT !.key = 0])
          /\ UNCHANGED <<objects, index, indexed, handed>>
     ELSE /\ AddPrimitive(objects, Item.key)
          /\ Became([Top EXCEPT !.key = handed'.uid])
  /\ pending' = Call(Item.value)
  /\ UNCHANGED <<open, arg, top, calls>>

Got == pending.is = "uid" /\ stack # << >>

GotElement ==
  /\ Got
  /\ Top.v.go \in {"slice", "object"}
  /\ Became([Top EXCEPT !.at = @ + 1, !.refs = Append(@, pending.uid)])
  /\ pending' = Step
  /\ UNCHANGED <<tableVars, arg, top, calls>>

GotEntry ==
  /\ Got
  /\ Top.v.go = "map"
  /\ Became([Top EXCEPT !.at = @ + 1, !.refs = Append(@, pending.uid),
                        !.keys = Append(@, Top.key)])
  /\ pending' = Step
  /\ UNCHANGED <<tableVars, arg, top, calls>>

\* A struct writes the field's name once it has the value.
GotField ==
  /\ Got
  /\ Top.v.go = "struct"
  /\ AddPrimitive(objects, Item.key)
  /\ Became([Top EXCEPT !.at = @ + 1, !.refs = Append(@, pending.uid),
                        !.keys = Append(@, handed'.uid)])
  /\ pending' = Step
  /\ UNCHANGED <<open, arg, top, calls>>

\* A map entry and an omitempty field leave out a value that is nil, or holds
\* one: a slice or an object passes errArchiverNilElem on as it is.
Skips == Top.v.go = "map" \/ (Top.v.go = "struct" /\ Item.omit)

\* Mutant: the key of the entry left out stays behind.
SkipNilKeepKey ==
  /\ pending = NilElem
  /\ stack # << >>
  /\ Skips
  /\ Became([Top EXCEPT !.at = @ + 1, !.keys = Append(@, Top.key)])
  /\ pending' = Step
  /\ UNCHANGED <<tableVars, arg, top, calls>>

SkipNil ==
  /\ pending = NilElem
  /\ stack # << >>
  /\ Skips
  /\ Became([Top EXCEPT !.at = @ + 1])
  /\ pending' = Step
  /\ UNCHANGED <<tableVars, arg, top, calls>>

PassError ==
  /\ pending \in {NilElem, Failed}
  /\ stack # << >>
  /\ pending = NilElem => ~Skips
  /\ stack' = Front(stack)
  /\ UNCHANGED <<tableVars, pending, arg, top, calls>>

-------------------------------------------------------------------------------
\* Mutant: the class is taken to be the object just appended.
WriteClassAhead ==
  /\ pending = Step
  /\ Top.at = Len(Top.v.items)
  /\ Top.class = NoUid
  /\ AddCompound(ClassOf(Top.v))
  /\ Became([Top EXCEPT !.class = Len(objects')])
  /\ UNCHANGED <<open, pending, arg, top, calls>>

WriteClass ==
  /\ pending = Step
  /\ Top.at = Len(Top.v.items)
  /\ Top.class = NoUid
  /\ AddCompound(ClassOf(Top.v))
  /\ Became([Top EXCEPT !.class = handed'.uid])
  /\ UNCHANGED <<open, pending, arg, top, calls>>

WriteComposite ==
  /\ pending = Step
  /\ Top.at = Len(Top.v.items)
  /\ Top.class # NoUid
  /\ AddCompound(Composite(Top))
  /\ stack' = Front(stack)
  /\ pending' = Returned(handed'.uid)
  /\ UNCHANGED <<open, arg, top, calls>>

Succeed ==
  /\ pending.is = "uid"
  /\ stack = << >>
  /\ top' = pending.uid
  /\ End
  /\ pending' = Idle
  /\ arg' = Idle
  /\ UNCHANGED <<stack, calls>>

\* Marshal returns the error; Top still names the root of an earlier archive.
GiveUp ==
  /\ pending \in {NilElem, Failed}
  /\ stack = << >>
  /\ End
  /\ pending' = Idle
  /\ arg' = Idle
  /\ UNCHANGED <<stack, top, calls>>

Next ==
  \/ \E v \in Values : Marshal(v)
  \/ Assign
  \/ MarshalPrimitive \/ MarshalNull \/ MarshalNil \/ MarshalUnknown \/ Descend
  \/ NextItem \/ NextEntry \/ GotElement \/ GotEntry \/ GotField \/ SkipNil
  \/ PassError \/ WriteClass \/ WriteComposite \/ Succeed \/ GiveUp

Spec == Init /\ [][Next]_vars

-------------------------------------------------------------------------------
(***************************************************************************)
(* Properties.                                                             *)
(***************************************************************************)
Uids(o) == Range(o.keys) \cup Range(o.refs) \cup {o.class}
IsObject(o) == o \notin Primitives /\ o.kind # "class"

\* Types: every UID in flight is a position of the table, and the walk's frames
\* are those of composites that are not finished.
TypeOK ==
  /\ open <=> pending # Idle
  /\ pending.is = "uid" => pending.uid \in 0..(Len(objects) - 1)
  /\ \A k \in DOMAIN stack :
       /\ stack[k].at \in 0..Len(stack[k].v.items)
       /\ Range(stack[k].keys) \cup Range(stack[k].refs) \subseteq 0..(Len(objects) - 1)
       /\ stack[k].class # NoUid => k = Len(stack) /\ stack[k].at = Len(stack[k].v.items)

\* An object that Marshal writes refers only to objects written before it, so a
\* reader's walk over the archive ends within maxArchiveDepth of the value's
\* own depth; sharing equal objects never creates a forward or a self reference.
BackwardReferences ==
  open => \A k \in DOMAIN objects :
    IsObject(objects[k]) => \A uid \in Uids(objects[k]) : uid \in 0..(k - 2)
===============================================================================
