----------------------------- MODULE BplistPromise -----------------------------
(***************************************************************************)
(* What bplistParser.parseDocument promises its caller, in one step: a     *)
(* well-formed document is accepted with exactly the value it denotes, and *)
(* any other document is an error.  The one liberty is the nesting limit:  *)
(* a well-formed document that nests deeper than MaxNesting may be         *)
(* refused.                                                                *)
(***************************************************************************)
EXTENDS BplistDocument

VARIABLES doc, status, value

\* The value a document denotes: the graph of the objects its top reaches.
Denotation(d) ==
  [i \in Reachable(d) |-> [kind  |-> ObjectOf(d, i).kind,
                           elems |-> ObjectOf(d, i).refs]]

NoValue == << >>

Init ==
  /\ doc \in Document
  /\ status = "parsing"
  /\ value = NoValue

Accept ==
  /\ status = "parsing"
  /\ WellFormed(doc)
  /\ status' = "ok"
  /\ value' = Denotation(doc)
  /\ UNCHANGED doc

Refuse ==
  /\ status = "parsing"
  /\ ~WellFormed(doc) \/ NestingDepth(doc) > MaxNesting
  /\ status' = "error"
  /\ UNCHANGED <<doc, value>>

Next == Accept \/ Refuse

Spec == Init /\ [][Next]_<<doc, status, value>>
===============================================================================
