---------------------------- MODULE ArchiveRoundTrip ---------------------------
(***************************************************************************)
(* What a Go value means, and what follows from it for the archive that    *)
(* KeyedArchiver writes and ArchiveReader reads.                           *)
(***************************************************************************)
EXTENDS ArchiveReader

\* A value with its dropped parts gone; "nil" and "error" are what marshal of it
\* returns instead of a UID.
Bad == {"nil", "error"}
Absent(why) == [go |-> why, prim |-> Null, of |-> << >>]

RECURSIVE Meaning(_)
Meaning(v) ==
  LET n == Len(v.items)
      of == [k \in 1..n |-> Meaning(v.items[k].value)]
      Dropped(k) == of[k].go = "nil" /\ (v.go = "map" \/ (v.go = "struct" /\ v.items[k].omit))
      kept == SelectSeq([k \in 1..n |-> k], LAMBDA k : ~Dropped(k))
      broken == {k \in 1..n : of[k].go \in Bad /\ ~Dropped(k)}
  IN  CASE v.go = "prim"    -> Plain(v.prim)
        [] v.go = "nil"     -> Absent("nil")
        [] v.go = "unknown" -> Absent("error")
        [] v.go = "leaf"    -> Form(v.type, IF IsTime(v) THEN Second[v.prim] ELSE v.prim, << >>)
        [] broken # {}      -> of[First(broken)]
        [] v.go = "slice"   -> Form("array", Null, of)
        [] OTHER            -> Form("dictionary", Null,
                                 [k \in DOMAIN kept |->
                                    <<Plain(v.items[kept[k]].key), of[kept[k]]>>])

\* Whether the elements of slices and maps are pointers to nothing but structs and
\* dates: the others marshal follows and unmarshal does not.
RECURSIVE Followed(_)
Followed(v) ==
  \A k \in DOMAIN v.items :
    LET item == v.items[k].value
    IN  /\ v.go \in {"slice", "map"} /\ item.ptr => HasFields(item) \/ IsTime(item)
        /\ Followed(item)

\* An archive that Marshal wrote, read into an Archiver that holds nothing else,
\* unmarshals into a value of the same type as the value it was made from: dates cut
\* to their second, exactly the map entries and omitempty fields gone whose value is
\* nil or passes a nil on.  It need not if elements are pointers to strings, slices,
\* maps, bytes or UUIDs.  Marshal fails exactly when the value has no such meaning.
RoundTrip ==
  /\ last.is = "unmarshal" /\ alone # Idle /\ last.type = alone /\ Followed(alone) =>
       last.out = Ok(Meaning(alone))
  /\ pending # Idle /\ stack = << >> =>
       /\ pending.is = "uid" => Meaning(arg).go \notin Bad
       /\ pending = NilElem => Meaning(arg) = Absent("nil")
       /\ pending = Failed => Meaning(arg) = Absent("error")

-------------------------------------------------------------------------------
RECURSIVE HoldsRegistered(_)
HoldsRegistered(v) ==
  v.go = "object" \/ \E k \in DOMAIN v.items : HoldsRegistered(v.items[k].value)

Items(o) == IF o \notin Primitives THEN Range(o.refs) \ Primitives ELSE {}

\* The UIDs reached from uid over n references.
RECURSIVE Reach(_, _)
Reach(uids, n) ==
  IF n = 0 THEN uids
  ELSE Reach(UNION {Items(objects[uid + 1]) : uid \in {u \in uids : InTable(objects, u)}}, n - 1)

Recursive(T) == T.go = "slice" /\ T.items = << >>

\* Whatever calls failed before it, Print succeeds on an archive that Marshal wrote of
\* a value without objects of registered classes; and a walk over an object graph
\* with a cycle ends with an error.
WalksHonest ==
  /\ last.is = "print" /\ alone # Idle /\ ~HoldsRegistered(alone) => last.out.is = "ok"
  /\ last.is = "print" \/ (last.is = "unmarshal" /\ Recursive(last.type)) =>
       (last.out.is = "ok" => Reach({top}, Len(objects)) = {})

\* "Well-formed archives never reach" the recover of malformed ones: Print of an
\* archive that Marshal wrote succeeds.
PrintNeverMalformed == last.is = "print" /\ alone # Idle => last.out.is = "ok"
===============================================================================
