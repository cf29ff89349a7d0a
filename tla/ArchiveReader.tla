----------------------------- MODULE ArchiveReader -----------------------------
(***************************************************************************)
(* The other half of keyed_archiver.go: an Archiver that Marshal has used  *)
(* reads archives (ReadFromData), unmarshals the root into a Go value and  *)
(* prints it.  The walks are recursive functions of the object table; what *)
(* survives a call is the table, Top and the depth counter, and any call   *)
(* may follow any other, also one that failed.                             *)
(*                                                                         *)
(* A Go type is given by a value of it; a slice without elements stands    *)
(* for the recursive type L with "type L []L".  Primitives are strings,    *)
(* but for the floats NaNs.  The items of an object are UIDs, or           *)
(* primitives that another program has put there directly.                 *)
(***************************************************************************)
EXTENDS KeyedArchiver

CONSTANTS
  Archives,          \* documents of other programs: a table and a root, or NoUid
  Types,             \* types Unmarshal is asked for beside that of the value written
  MaxArchiveDepth,
  MaxReads,          \* bound: how often the Archiver is read into or read from
  MaxReadsBefore     \* bound: how often before the last call of Marshal

ASSUME ReaderAssumption == MaxArchiveDepth \in Nat \ {0}

VARIABLES
  depth,      \* Archiver.depth
  file,       \* the document the last call of Marshal returned, if it did
  alone,      \* history: the value whose archive is all that the Archiver holds
  last,       \* history: the last call of Unmarshal or Print, and what it returned
  reads

readerVars == <<depth, file, alone, last, reads>>

Nothing == [is |-> "none"]

\* What a walk returns: its result, an error, or one of the panics, of which the
\* one in enter leaves the counter raised.
Ok(value) == [is |-> "ok", value |-> value]
Error == [is |-> "error"]
Malformed == [is |-> "malformed"]
TooDeep == [is |-> "deep"]

\* A loop ends with the first element that fails.
Loop(outcomes, Made(_)) ==
  LET bad == {k \in DOMAIN outcomes : outcomes[k].is # "ok"}
  IN  IF bad = {} THEN Ok(Made([k \in DOMAIN outcomes |-> outcomes[k].value]))
      ELSE outcomes[First(bad)]

-------------------------------------------------------------------------------
\* Written and read again, every object is a map, and only its class tells what
\* it was.
Decoded(o) == IF o \in Primitives THEN o ELSE [o EXCEPT !.kind = "dict"]
                  @@ [classname |-> IF o.kind = "class" THEN o.data ELSE ""]

InTable(tab, uid) == uid \in 0..(Len(tab) - 1)
IsDict(o) == o \notin Primitives /\ o.kind = "dict"
IsString(o) == o \in Primitives \ NaNs

\* getClass; it panics where there is no class, and for objects that have not
\* been written and read: they are Go structs still.
HasClass(tab, o) ==
  IsDict(o) /\ InTable(tab, o.class) /\ IsDict(tab[o.class + 1])
ClassName(tab, o) == tab[o.class + 1].classname

isDictionary(class) == class \in {"NSMutableDictionary", "NSDictionary"}
isArray(class) == class \in {"NSMutableArray", "NSArray"}
isData(class) == class \in {"NSMutableData", "NSData"}

\* A primitive, and what the composites are unmarshalled into.
Plain(p) == [go |-> "prim", prim |-> p, of |-> << >>]
Form(go, data, of) == [go |-> go, prim |-> data, of |-> of]
Untouched(T) == Form(T.go, "", << >>)

String == [go |-> "prim", prim |-> Null, type |-> "", items |-> << >>, ptr |-> FALSE]
Byte == [String EXCEPT !.go = "byte"]

IsBytes(T) == T.go = "leaf" /\ isData(T.type)
IsTime(T) == T.go = "leaf" /\ T.type = "NSDate"
IsUUID(T) == T.go = "leaf" /\ T.type = "NSUUID"
HasFields(T) == T.go \in {"struct", "object"}

Element(T) ==
  LET full == {k \in DOMAIN T.items : T.items[k].value.go # "nil"}
  IN  CASE IsBytes(T) -> Byte
        [] ~IsBytes(T) /\ T.items = << >> -> T
        [] T.items # << >> /\ full = {} -> [String EXCEPT !.ptr = TRUE]
        [] OTHER -> T.items[First(full)].value

RECURSIVE Unmarshalled(_, _, _, _, _)

\* An item is looked up and unmarshalled by a call of its own.
At(tab, item, T, behind, d) ==
  IF item \in Primitives THEN Unmarshalled(tab, item, T, behind, d + 1)
  ELSE IF InTable(tab, item) THEN Unmarshalled(tab, tab[item + 1], T, behind, d + 1)
  ELSE Malformed

\* The call for an element of a map or an array gets a pointer to a new one.  It
\* follows that pointer, and stands before the element's own.
AtElement(tab, item, T, d) == At(tab, item, Element(T), Element(T).ptr, d)

unmarshalString(o, T, behind) ==
  IF T.go \in {"prim", "nil"} /\ ~behind /\ (o \in NaNs <=> T.prim \in NaNs)
  THEN Ok(Plain(o)) ELSE Error

unmarshalMap(tab, o, T, d) ==
  LET Entry(k) ==
        LET key == At(tab, o.keys[k], String, FALSE, d)
        IN  IF key.is # "ok" THEN key
            ELSE Loop(<<key, AtElement(tab, o.refs[k], T, d)>>, LAMBDA kv : kv)
  IN  IF Len(o.keys) = Len(o.refs)
      THEN Loop([k \in DOMAIN o.refs |-> Entry(k)], LAMBDA of : Form("dictionary", Null, of))
      ELSE Error

\* A primitive that is no reference is appended as it is: reflect.Append panics
\* where the elements have another type.
unmarshalArray(tab, o, T, d) ==
  LET Appended(p) ==
        LET r == unmarshalString(p, Element(T), Element(T).ptr)
        IN  IF r.is = "ok" THEN r ELSE Malformed
  IN  Loop([k \in DOMAIN o.refs |->
              IF o.refs[k] \in Primitives THEN Appended(o.refs[k])
              ELSE AtElement(tab, o.refs[k], T, d)],
           LAMBDA of : Form("array", Null, of))

\* An array without a class.  Its UIDs are not looked up, and as they are numbers
\* only bytes take them; its elements are there, so that their pointer is followed.
unmarshalSlice(tab, o, T, d) ==
  LET Put(item) ==
        CASE d + 1 >= MaxArchiveDepth -> TooDeep
          [] d + 1 < MaxArchiveDepth /\ item \in Primitives ->
               unmarshalString(item, Element(T), FALSE)
          [] OTHER -> IF IsBytes(T) THEN Ok(Plain(item)) ELSE Error
  IN  Loop([k \in DOMAIN o.refs |-> Put(o.refs[k])], LAMBDA of : Form("array", Null, of))

\* Whether unmarshalStruct gets through the keys of a dictionary.
KeysReadable(tab, o) ==
  /\ Len(o.keys) <= Len(o.refs)
  /\ \A k \in DOMAIN o.keys :
       /\ InTable(tab, o.keys[k]) /\ IsString(tab[o.keys[k] + 1])
       /\ o.refs[k] \in Primitives \/ InTable(tab, o.refs[k])

\* A struct's fields are found in the table of a dictionary, the last entry of a
\* name counting, or, for any other class, in the object itself.
Named(tab, o, name) ==
  IF isDictionary(ClassName(tab, o))
  THEN LET at == {k \in DOMAIN o.keys : tab[o.keys[k] + 1] = name}
       IN  {o.refs[k] : k \in {j \in at : \A i \in at : i <= j}}
  ELSE {o.refs[k] : k \in {j \in DOMAIN o.names : o.names[j] = name}}

\* unmarshalStruct of a dictionary and unmarshalNSType of any other object, which
\* calls unmarshal for the fields it does not have as well.  What is no struct has
\* no fields, and stays as it is.
unmarshalStruct(tab, o, T, d) ==
  LET dictionary == isDictionary(ClassName(tab, o))
      found == SelectSeq(IF HasFields(T) THEN T.items ELSE << >>,
                         LAMBDA f : dictionary => Named(tab, o, f.key) # {})
      Filled(f) ==
        IF Named(tab, o, f.key) # {}
        THEN At(tab, CHOOSE item \in Named(tab, o, f.key) : TRUE, f.value, FALSE, d)
        ELSE IF d + 1 >= MaxArchiveDepth THEN TooDeep ELSE Ok(Untouched(f.value))
  IN  IF dictionary /\ ~KeysReadable(tab, o) THEN Malformed
      ELSE IF ~HasFields(T) THEN Ok(Untouched(T))
      ELSE Loop([k \in DOMAIN found |-> Filled(found[k])],
                LAMBDA of : Form("dictionary", Null,
                              [k \in DOMAIN of |-> <<Plain(found[k].key), of[k]>>]))

\* The content of a date, as unmarshalDate makes it.
Instant(o) == IF o.data \in Primitives THEN Second[o.data] ELSE o.data

\* Behind a second pointer lies what unmarshal takes for a struct, whatever it is.
\* Bytes cannot be set in the array that a UUID is.
unmarshalPointed(tab, o, T, d) ==
  LET class == ClassName(tab, o)
  IN  CASE class = "NSDate" /\ IsTime(T) -> Ok(Form(T.type, Instant(o), << >>))
        [] class = "NSUUID" /\ IsUUID(T) -> Malformed
        [] OTHER -> unmarshalStruct(tab, o, T, d)

unmarshalObject(tab, o, T, d) ==
  LET class == ClassName(tab, o)
      Wants(right, outcome) == IF right THEN outcome ELSE Error
  IN  CASE T.go = "map" -> Wants(isDictionary(class), unmarshalMap(tab, o, T, d))
        [] T.go = "slice" -> Wants(isArray(class), unmarshalArray(tab, o, T, d))
        [] IsBytes(T) -> IF isData(class) THEN Ok(Form(T.type, o.data, << >>))
                         ELSE Wants(isArray(class), unmarshalArray(tab, o, T, d))
        [] IsUUID(T) -> Wants(class = "NSUUID",
                              IF o.data = "" THEN Malformed ELSE Ok(Form(T.type, o.data, << >>)))
        [] HasFields(T) \/ IsTime(T) -> unmarshalPointed(tab, o, T, d)
        [] OTHER -> Error

\* One pointer has been followed; behind says that there is another.  Which of
\* several failures a walk meets first only decides its message.
Unmarshalled(tab, o, T, behind, d) ==
  IF d >= MaxArchiveDepth THEN TooDeep
  ELSE IF o \in Primitives THEN unmarshalString(o, T, behind)
  ELSE IF o.kind = "list"
  THEN IF (T.go = "slice" \/ IsBytes(T)) /\ ~behind THEN unmarshalSlice(tab, o, T, d) ELSE Error
  ELSE IF ~HasClass(tab, o) THEN IF o.kind \in {"dict", "object"} THEN Malformed ELSE Error
  ELSE IF behind THEN unmarshalPointed(tab, o, T, d) ELSE unmarshalObject(tab, o, T, d)

-------------------------------------------------------------------------------
RECURSIVE Printed(_, _, _)

\* An item is printed by a call of its own, a UID by one more.
Shown(tab, item, d) ==
  IF d + 1 >= MaxArchiveDepth THEN TooDeep
  ELSE IF item \in Primitives THEN Ok("text")
  ELSE IF InTable(tab, item) THEN Printed(tab, tab[item + 1], d + 2) ELSE Malformed

Text(of) == "text"
ShownAll(tab, uids, d) == Loop([k \in DOMAIN uids |-> Shown(tab, uids[k], d)], Text)

printStruct(tab, o, d) ==
  LET Key(k) == InTable(tab, o.keys[k]) /\ IsString(tab[o.keys[k] + 1]) /\ k <= Len(o.refs)
  IN  Loop([k \in DOMAIN o.keys |-> IF Key(k) THEN Shown(tab, o.refs[k], d) ELSE Malformed], Text)

\* An object of a class that is none of Foundation's is printed with all its
\* entries, $class among them.
Printed(tab, o, d) ==
  LET class == ClassName(tab, o)
  IN  IF d >= MaxArchiveDepth THEN TooDeep
      ELSE IF o \in Primitives THEN Ok("text")
      ELSE IF o.kind = "list" THEN ShownAll(tab, o.refs, d)
      ELSE IF ~HasClass(tab, o) THEN IF o.kind \in {"dict", "object"} THEN Malformed ELSE Ok("text")
      ELSE CASE isData(class) \/ class \in {"NSDate", "NSUUID"} -> Ok("text")
             [] isArray(class)      -> ShownAll(tab, o.refs, d)
             [] isDictionary(class) -> printStruct(tab, o, d)
             [] OTHER               -> ShownAll(tab, Append(o.refs, o.class), d)

-------------------------------------------------------------------------------
ReaderInit ==
  /\ Init
  /\ depth = 0
  /\ file = Nothing
  /\ alone = Idle
  /\ last = Nothing
  /\ reads = 0

\* Marshal and the caller's writes to Objects.  A document is returned when all
\* of Marshal has succeeded.
Write ==
  /\ Next
  /\ pending = Idle => pending' = Idle \/ reads <= MaxReadsBefore
  /\ file' = IF pending.is = "uid" /\ pending' = Idle
             THEN [objs |-> [k \in DOMAIN objects |-> Decoded(objects[k])],
                   root |-> top', of |-> arg]
             ELSE IF pending = Idle /\ pending' # Idle THEN Nothing ELSE file
  /\ alone' = Idle
  /\ last' = Nothing
  /\ UNCHANGED <<depth, reads>>

NewArchiver ==
  /\ pending = Idle
  /\ objects' = << >>
  /\ index' = NoIndex
  /\ indexed' = 0
  /\ top' = NoUid
  /\ depth' = 0
  /\ alone' = Idle
  /\ last' = Nothing
  /\ UNCHANGED <<open, handed, stack, pending, arg, calls, file, reads>>

Reading ==
  /\ pending = Idle
  /\ reads < MaxReads
  /\ reads' = reads + 1
  /\ UNCHANGED <<stack, pending, arg, calls, file>>

\* Decoding appends to the Objects there are and leaves a Top the document does
\* not have.
ReadFromData(doc) ==
  /\ Reading
  /\ Replace(objects \o doc.objs)
  /\ top' = IF doc.root = NoUid THEN top ELSE doc.root
  /\ alone' = IF doc = file /\ objects = << >> THEN doc.of ELSE Idle
  /\ last' = Nothing
  /\ UNCHANGED depth

\* Mutant: the counter keeps what a panic in enter left.
KeptDepth(outcome) == IF outcome = TooDeep THEN depth + 1 ELSE depth

\* recoverMalformed: the counter is reset, and a panic becomes an error.
ResetDepth(outcome) == 0
Recovered(outcome) == IF outcome.is = "ok" THEN outcome ELSE Error

Walked(call, T, outcome) ==
  /\ Reading
  /\ depth' = ResetDepth(outcome)
  /\ last' = [is |-> call, type |-> T, out |-> Recovered(outcome)]
  /\ UNCHANGED <<tableVars, top, alone>>

AtRoot(outcome) == IF InTable(objects, top) THEN outcome ELSE Malformed

Unmarshal(T) ==
  Walked("unmarshal", T, AtRoot(Unmarshalled(objects, objects[top + 1], T, FALSE, depth)))

PrintArchive == Walked("print", Nothing, AtRoot(Printed(objects, objects[top + 1], depth)))

\* Bound: once there is a document of Marshal's, those of other programs are read
\* into an empty Archiver only.
Documents ==
  IF file = Nothing THEN Archives ELSE {file} \cup (IF objects = << >> THEN Archives ELSE {})

ReaderNext ==
  \/ Write
  \/ NewArchiver
  \/ \E doc \in Documents : ReadFromData(doc)
  \/ \E T \in Types \cup (IF file = Nothing THEN {} ELSE {file.of}) : Unmarshal(T)
  \/ PrintArchive

ReaderSpec == ReaderInit /\ [][ReaderNext]_<<vars, readerVars>>
===============================================================================
