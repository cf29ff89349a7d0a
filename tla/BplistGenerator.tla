---------------------------- MODULE BplistGenerator ----------------------------
(***************************************************************************)
(* bplist_generator.go: flattenPlistValue turns a value into the object    *)
(* table, and generateDocument writes the table, the offset table and the  *)
(* trailer through a writer that may fail anywhere.                        *)
(*                                                                         *)
(* given is the value to write.  heap maps a node, the pointer of a dictionary or an array, to its       *)
(* entries: <<key, value>> pairs, the key of an array's element being      *)
(* << >>.  The recursion of flattenPlistValue is the stack work of values  *)
(* still to visit, the next one first.  Object numbers start at 0.         *)
(***************************************************************************)
EXTENDS BplistFormat

CONSTANTS
  Nodes,         \* the dictionaries and arrays
  Plists,        \* records [root, heap]: the values to write
  Pieces         \* how many cells of a failing Write arrive, from this set

VARIABLES given, heap, work, objmap, strmap, objtable, out, offtable, trailer, pc

buildVars == <<given, heap, work, objmap, strmap, objtable>>
fileVars == <<out, offtable, trailer, pc>>
vars == <<buildVars, fileVars>>

Nil == [kind |-> "nil", data |-> << >>]
IsContainer(v) == v.kind \in {"dict", "array"}
Str(chars) == [kind |-> "string", data |-> chars]

Scalars == {"string", "number", "real", "bool", "data", "date", "uid"}
Values == {v \in [kind : Scalars \cup {"dict", "array"}, data : Seq(Int \cup Nodes)] :
             IsContainer(v) => \E node \in Nodes : v.data = <<node>>}
Entries == Seq(Int) \X (Values \cup {Nil})
In(p) == {p.root} \cup UNION {{e[2] : e \in Range(p.heap[node])} : node \in Nodes}
\* A pointer is to a dictionary or to an array, not to both.
ASSUME PlistsAssumption ==
  \A p \in Plists :
    /\ p.root \in Values /\ p.heap \in [Nodes -> Seq(Entries)]
    /\ \A v, w \in In(p) : IsContainer(v) /\ IsContainer(w) /\ v.data = w.data => v = w

NegativeZero == 0 - 1
NaN == 7
Hash(v) ==     \* a map key -0.0 equals the key 0.0; a NaN is found again by its bits
  IF v.kind = "real" /\ v.data[2] = NegativeZero THEN Real(v.data[1], 0) ELSE v

ShouldUnique(v) == v.kind \in {"string", "number", "real", "date", "data"}

\* The index p assigns to the key k, for a map that may not hold it.
PutFresh(map, k, index) == [x \in {k} |-> index]
Put(map, k, index) == [x \in DOMAIN map \cup {k} |-> IF x = k THEN index ELSE map[x]]

--------------------------------------------------------------------------------
\* flattenPlistValue

NotNil(entries) == {i \in DOMAIN entries : entries[i][2] # Nil}
KeyLess(s, t) ==
  \E i \in 1 .. Len(s) + 1 :
     /\ \A j \in 1 .. i - 1 : j <= Len(t) /\ s[j] = t[j]
     /\ i <= Len(t) /\ (i > Len(s) \/ (i <= Len(s) /\ s[i] < t[i]))
Before(v, entries, i, j) ==     \* a dictionary is sorted by its keys
  IF v.kind = "dict" /\ entries[i][1] # entries[j][1] THEN KeyLess(entries[i][1], entries[j][1])
                                                     ELSE i < j
Rank(v, entries, i) == Cardinality({j \in NotNil(entries) : Before(v, entries, j, i)})
Normal(v, entries) ==
  [p \in 1 .. Cardinality(NotNil(entries)) |->
     entries[CHOOSE i \in NotNil(entries) : Rank(v, entries, i) = p - 1]]
Members(entries) == [i \in DOMAIN entries |-> entries[i][2]]
KeysOf(v, entries) ==
  IF v.kind = "dict" THEN [i \in DOMAIN entries |-> Str(entries[i][1])] ELSE << >>

SeenInOneMap(v) == ShouldUnique(v) /\ Hash(v) \in DOMAIN objmap
Seen(v) == IF v.kind = "string" THEN v.data \in DOMAIN strmap
                                ELSE ShouldUnique(v) /\ Hash(v) \in DOMAIN objmap
FoundNotNaN(v) ==
  IF v.kind = "string" THEN v.data \in DOMAIN strmap
                       ELSE Hash(v) \in DOMAIN objmap /\ ~(v.kind = "real" /\ v.data[2] = NaN)
Found(v) == IF v.kind = "string" THEN v.data \in DOMAIN strmap ELSE Hash(v) \in DOMAIN objmap
Lookup(map, k) == IF k \in DOMAIN map THEN map[k] ELSE 0
IndexFor(v) == IF v.kind = "string" THEN Lookup(strmap, v.data) ELSE Lookup(objmap, Hash(v))

Skip ==
  /\ pc = "flatten" /\ work # << >>
  /\ Seen(Head(work))
  /\ work' = Tail(work)
  /\ UNCHANGED <<given, heap, objmap, strmap, objtable, fileVars>>

AddNumbered(v, index) ==
  /\ objtable' = Append(objtable, v)
  /\ IF v.kind = "string"
     THEN strmap' = Put(strmap, v.data, index) /\ UNCHANGED objmap
     ELSE objmap' = Put(objmap, Hash(v), index) /\ UNCHANGED strmap
AddAfter(v) == AddNumbered(v, Len(objtable) + 1)
Add(v) == AddNumbered(v, Len(objtable))

AddScalar ==
  /\ pc = "flatten" /\ work # << >>
  /\ LET v == Head(work)
     IN  ~Seen(v) /\ ~IsContainer(v) /\ Add(v)
  /\ work' = Tail(work)
  /\ UNCHANGED <<given, heap, fileVars>>

AddContainer ==
  /\ pc = "flatten" /\ work # << >>
  /\ LET v == Head(work)
         entries == Normal(v, heap[v.data[1]])
     IN  /\ ~Seen(v) /\ IsContainer(v) /\ Add(v)
         /\ heap' = [heap EXCEPT ![v.data[1]] = entries]
         /\ work' = KeysOf(v, entries) \o Members(entries) \o Tail(work)
  /\ UNCHANGED <<given, fileVars>>

--------------------------------------------------------------------------------
\* generateDocument.  Write gives the cells to the writer, which takes them all
\* or fails after some of them; then the error is returned at once.

Write(cells, then) ==
  \/ out' = out \o cells /\ pc' = then
  \/ /\ \E n \in Pieces : n < Len(cells) /\ out' = out \o SubSeq(cells, 1, n)
     /\ pc' = "failed"

WriteHeader ==
  /\ pc = "flatten" /\ work = << >>
  /\ trailer' = [trailer EXCEPT !.NumObjects = Len(objtable),
                                !.ObjectRefSize = MinimumIntSize(Len(objtable))]
  /\ Write([j \in 1 .. HeaderSize |-> Cell("header", j)], "objects")
  /\ UNCHANGED <<buildVars, offtable>>

Refs(vs) == FlattenSeq([i \in DOMAIN vs |-> SizedInt(IndexFor(vs[i]), trailer.ObjectRefSize)])
ContainerTag(v) ==     \* writeDictionaryTag and writeArrayTag
  LET entries == heap[v.data[1]]
  IN  CountedTag(v.kind, Len(entries)) \o Refs(KeysOf(v, entries) \o Members(entries))
AllFound(v) ==
  IsContainer(v) =>
    LET entries == heap[v.data[1]]
    IN  \A i \in DOMAIN entries :
          Found(entries[i][2]) /\ (v.kind = "dict" => Found(Str(entries[i][1])))

Pending == pc = "objects" /\ Len(offtable) < Len(objtable)
WriteObjectFrom(base) ==
  /\ Pending
  /\ LET v == objtable[Len(offtable) + 1]
     IN  IF AllFound(v)
         THEN Write(IF IsContainer(v) THEN ContainerTag(v) ELSE ScalarTag(v), "objects")
         ELSE /\ out' = out \o CountedTag(v.kind, Len(heap[v.data[1]]))
              /\ pc' = "lost"       \* failed to find value in object map
  /\ offtable' = Append(offtable, base)
  /\ UNCHANGED <<buildVars, trailer>>
WriteObjectNoHeader == WriteObjectFrom(Len(out) - HeaderSize)
WriteObject == WriteObjectFrom(Len(out))

WriteOffsetTable ==
  /\ pc = "objects" /\ Len(offtable) = Len(objtable)
  /\ LET size == MinimumIntSize(Len(out))
     IN  /\ trailer' = [trailer EXCEPT !.OffsetIntSize = size,
                                       !.TopObject = Lookup(objmap, Hash(given.root)),
                                       !.OffsetTableOffset = Len(out)]
         /\ Write(FlattenSeq([i \in DOMAIN offtable |-> SizedInt(offtable[i], size)]), "trailer")
  /\ UNCHANGED <<buildVars, offtable>>

WriteTrailer ==     \* the last Write: a failure leaves less than a trailer
  /\ pc = "trailer"
  /\ pc' \in {"done", "failed"}
  /\ UNCHANGED <<buildVars, out, offtable, trailer>>

NoTrailer == [OffsetIntSize |-> 0, ObjectRefSize |-> 0, NumObjects |-> 0,
              TopObject |-> 0, OffsetTableOffset |-> 0]
Init ==
  /\ given \in Plists
  /\ heap = given.heap
  /\ work = <<given.root>>
  /\ objmap = << >> /\ strmap = << >> /\ objtable = << >>
  /\ out = << >> /\ offtable = << >>
  /\ trailer = NoTrailer
  /\ pc = "flatten"

Done == pc \in {"done", "failed", "lost"} /\ UNCHANGED vars

Next == Skip \/ AddScalar \/ AddContainer \/ WriteHeader \/ WriteObject \/ WriteOffsetTable
          \/ WriteTrailer \/ Done
Spec == Init /\ [][Next]_vars

--------------------------------------------------------------------------------
(***************************************************************************)
(* Properties.                                                             *)
(***************************************************************************)
\* The work left and the objects of the table are values; the keys of the two maps are
\* those of the objects, and what they are sent to are numbers of the table; there are
\* no more offsets than objects.
TablesTyped ==
  /\ given \in Plists /\ heap \in [Nodes -> Seq(Entries)]
  /\ work \in Seq(Values) /\ objtable \in Seq(Values)
  /\ pc \in {"flatten", "objects", "trailer", "done", "failed", "lost"}
  /\ DOMAIN strmap = {v.data : v \in {w \in Range(objtable) : w.kind = "string"}}
  /\ DOMAIN objmap = {Hash(v) : v \in {w \in Range(objtable) : w.kind # "string"}}
  /\ \A chars \in DOMAIN strmap : strmap[chars] \in 0 .. Len(objtable) - 1
  /\ \A k \in DOMAIN objmap : objmap[k] \in 0 .. Len(objtable) - 1
  /\ offtable \in Seq(Nat) /\ Len(offtable) <= Len(objtable)

\* The two maps agree with the table: what indexForPlistValue returns for a value is
\* the number of an object that is written as that value.
MapsSound ==
  /\ \A chars \in DOMAIN strmap :
       LET v == objtable[strmap[chars] + 1]
       IN  strmap[chars] + 1 \in DOMAIN objtable /\ v.kind = "string" /\ v.data = chars
  /\ \A k \in DOMAIN objmap :
       LET v == objtable[objmap[k] + 1]
       IN  objmap[k] + 1 \in DOMAIN objtable /\ v.kind # "string" /\ Hash(v) = k

\* Uniquing works although strings and the other values live in different maps: no
\* two objects are the same value, unless it is of a kind that is not uniqued.
UniqueObjects ==
  \A i, j \in DOMAIN objtable :
    i # j /\ Hash(objtable[i]) = Hash(objtable[j]) => ~ShouldUnique(objtable[i])

\* Each offset of the table is where that object's marker was written.
Marker(v) ==
  CASE v.kind = "string" -> IF IsASCII(v.data) THEN "ascii" ELSE "utf16"
    [] v.kind = "number" -> "integer"
    [] OTHER -> v.kind
OffsetsExact ==
  pc # "failed" => \A i \in DOMAIN offtable : At(out, offtable[i]).tag = Marker(objtable[i])

\* "invariant: keys have already been uniqued", and values too: writing a container
\* never meets a member flattenPlistValue did not record.
NothingLost == pc # "lost"
===============================================================================
