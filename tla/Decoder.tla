-------------------------------- MODULE Decoder --------------------------------
(***************************************************************************)
(* A Decoder that is used again and again on a stream whose content may be *)
(* replaced between two calls of Decode: it guesses the format, tries the  *)
(* parsers in turn, and then walks the parsed document, giving every       *)
(* reference its own copy and counting the copies (countNode).             *)
(***************************************************************************)
EXTENDS DecoderStreams

CONSTANT MaxCalls      \* bound: how often Decode is called

VARIABLES
  content,       \* the document in the stream
  Format, lax, nodes, budget,     \* fields of the Decoder
  stage,         \* where DecodeForReflect is
  tasks,         \* the recursion of unmarshal and valueInterface, innermost first
  result,        \* what the last call of Decode returned
  calls

decoderVars == <<Format, lax, nodes, budget>>
streamVars == <<content, decoderVars, stage, tasks, result, calls>>

DecoderInit ==
  /\ content \in Streams
  /\ Format = "Invalid" /\ lax = FALSE /\ nodes = 0 /\ budget = 0
  /\ stage = "idle" /\ tasks = << >> /\ result = "none" /\ calls = 0

\* The owner of the stream puts another document into it.
Replace ==
  /\ stage = "idle"
  /\ content' \in Streams
  /\ UNCHANGED <<decoderVars, stage, tasks, result, calls>>

EndCall(r) == stage' = "idle" /\ tasks' = << >> /\ result' = r

\* One call of Read for the header, which may return less than it was asked for,
\* and a Seek, which may fail.
Decode ==
  /\ stage = "idle" /\ calls < MaxCalls
  /\ calls' = calls + 1
  /\ \/ \E short \in BOOLEAN :
          /\ stage' = IF ~short /\ Header(content.kind) THEN "binary" ELSE "xml"
          /\ UNCHANGED <<tasks, result>>
     \/ EndCall("error")
  /\ UNCHANGED <<content, decoderVars>>

ParseBinary ==
  /\ stage = "binary"
  /\ IF BinaryVerdict(content.kind) = "ok"
     THEN Format' = "Binary" /\ stage' = "unmarshal" /\ UNCHANGED <<tasks, result>>
     ELSE EndCall("error") /\ UNCHANGED Format
  /\ UNCHANGED <<content, lax, nodes, budget, calls>>

ParseXMLOnly ==
  /\ stage = "xml"
  /\ IF XMLVerdict(content.kind) \in {"ok", "error"}
     THEN Format' = "XML" /\ stage' = "unmarshal" /\ UNCHANGED <<tasks, result>>
     ELSE stage' = "text" /\ UNCHANGED <<Format, tasks, result>>
  /\ UNCHANGED <<content, lax, nodes, budget, calls>>
ParseXML ==
  /\ stage = "xml"
  /\ CASE XMLVerdict(content.kind) = "ok" ->
            Format' = "XML" /\ stage' = "unmarshal" /\ UNCHANGED <<tasks, result>>
       [] XMLVerdict(content.kind) = "error" -> EndCall("error") /\ UNCHANGED Format
       [] OTHER ->     \* rewind
            /\ (stage' = "text" /\ UNCHANGED <<tasks, result>>) \/ EndCall("error")
            /\ UNCHANGED Format
  /\ UNCHANGED <<content, lax, nodes, budget, calls>>

ParseText ==
  /\ stage = "text"
  /\ IF TextVerdict(content.kind) = "error"
     THEN EndCall("error") /\ UNCHANGED <<Format, lax>>
     ELSE /\ Format' = TextVerdict(content.kind)
          /\ lax' = (lax \/ Format' = "OpenStep")
          /\ stage' = "unmarshal"
          /\ UNCHANGED <<tasks, result>>
  /\ UNCHANGED <<content, nodes, budget, calls>>

--------------------------------------------------------------------------------
\* The walk.  A task is what is called with which value: unmarshal into an empty
\* interface ("any"), into a concrete type ("typed") or into nothing ("skip"), or
\* valueInterface ("value").

Task(does, n) == [does |-> does, n |-> n]
Tasks(does, ns) == [i \in DOMAIN ns |-> Task(does, ns[i])]
Kids(n) == content.kids[n]
HasMembers(n) == n \in DOMAIN content.kids

StartUncounted ==
  /\ stage = "unmarshal"
  /\ \E does \in {"any", "typed", "skip"} : tasks' = <<Task(does, content.root)>>
  /\ stage' = "walk"
  /\ UNCHANGED <<content, decoderVars, result, calls>>
Start ==
  /\ stage = "unmarshal"
  /\ nodes' = 0 /\ budget' = 0
  /\ \E does \in {"any", "typed", "skip"} : tasks' = <<Task(does, content.root)>>
  /\ stage' = "walk"
  /\ UNCHANGED <<content, Format, lax, result, calls>>

\* distinctValues: one for the root, and for each container, visited once, its
\* members and keys.
Distinct(doc) ==
  1 + SumFunction([n \in DOMAIN doc.kids |-> Len(doc.kids[n]) + doc.keys[n]])
Limit(doc) == IF Factor * Distinct(doc) > Free THEN Factor * Distinct(doc) ELSE Free

BudgetOnce == budget' = IF budget = 0 THEN Limit(content) ELSE budget
ExceedsBefore == nodes + 1 > Free /\ nodes > (IF budget = 0 THEN Limit(content) ELSE budget)
Exceeds == nodes + 1 > Free /\ nodes + 1 > (IF budget = 0 THEN Limit(content) ELSE budget)

\* countNode: the budget is worked out when the first node beyond the free ones is
\* counted, and its error unwinds the whole call.
CountNode ==
  /\ nodes' = nodes + 1
  /\ IF nodes + 1 > Free THEN BudgetOnce ELSE UNCHANGED budget

Uncounted(task) == task.does # "value" /\ task.n = Unresolved
MembersOf(task) ==
  IF task.n = Unresolved \/ ~HasMembers(task.n) THEN {<< >>}
  ELSE CASE task.does = "any"   -> {}
         [] task.does = "value" -> {Tasks("value", Kids(task.n))}
         [] task.does = "typed" -> {Tasks("any", Kids(task.n)), Tasks("typed", Kids(task.n))}
         [] task.does = "skip"  -> {<< >>}
Follow(task) ==
  IF task.does = "any" /\ task.n # Unresolved THEN {<<Task("value", task.n)>>} ELSE MembersOf(task)

SkipNil ==
  /\ stage = "walk" /\ tasks # << >> /\ Uncounted(Head(tasks))
  /\ tasks' = Tail(tasks)
  /\ UNCHANGED <<content, decoderVars, stage, result, calls>>

Visit ==
  /\ stage = "walk" /\ tasks # << >> /\ ~Uncounted(Head(tasks)) /\ ~Exceeds
  /\ CountNode
  /\ \E next \in Follow(Head(tasks)) : tasks' = next \o Tail(tasks)
  /\ UNCHANGED <<content, Format, lax, stage, result, calls>>

Refuse ==
  /\ stage = "walk" /\ tasks # << >> /\ ~Uncounted(Head(tasks)) /\ Exceeds
  /\ CountNode
  /\ EndCall("expands")
  /\ UNCHANGED <<content, Format, lax, calls>>

Mismatch ==     \* the destination has the wrong type
  /\ stage = "walk" /\ tasks # << >> /\ Head(tasks).does = "typed" /\ ~Uncounted(Head(tasks)) /\ ~Exceeds
  /\ CountNode
  /\ EndCall("error")
  /\ UNCHANGED <<content, Format, lax, calls>>

Finish ==
  /\ stage = "walk" /\ tasks = << >>
  /\ EndCall("ok")
  /\ UNCHANGED <<content, decoderVars, calls>>

DecoderNext ==
  \/ Replace \/ Decode \/ ParseBinary \/ ParseXML \/ ParseText
  \/ Start \/ SkipNil \/ Visit \/ Refuse \/ Mismatch \/ Finish
DecoderSpec == DecoderInit /\ [][DecoderNext]_streamVars

--------------------------------------------------------------------------------
(***************************************************************************)
(* Properties.                                                             *)
(***************************************************************************)
\* One call of Decode never copies more values than the limit for its document,
\* however often the document shares its containers and whatever was decoded before.
ExpansionBounded ==
  stage = "walk" => nodes <= Limit(content)

\* "no legitimately shared structure comes close to" the limit: a document that names
\* every container once is never refused, although unmarshal and valueInterface both
\* count a value that goes into an interface.
Referenced(doc, n) ==
  (IF n = doc.root THEN 1 ELSE 0)
    + SumFunction([m \in DOMAIN doc.kids |->
                     Cardinality({i \in DOMAIN doc.kids[m] : doc.kids[m][i] = n})])
IsTree(doc) == \A n \in DOMAIN doc.kids : Referenced(doc, n) = 1
TreesAccepted == IsTree(content) /\ stage = "walk" /\ tasks # << >> /\ ~Uncounted(Head(tasks)) => ~Exceeds

\* Format names a format the document really has, after a header that was cut short or
\* a parser that gave up as well: the one format of a document that a single parser
\* accepts.  Which format it is depends on the read for binary documents only: of a text
\* document that quotes an XML one it is always XML.
FormatTruthful ==
  stage = "walk" =>
       /\ Format \in Formats(content.kind)
       /\ ~Header(content.kind) /\ "XML" \in Formats(content.kind) => Format = "XML"

\* "Decode works like Unmarshal": what a Decoder makes of a document does not depend
\* on the documents it decoded before, so it is lax for OpenStep documents alone.
WorksLikeUnmarshal == stage = "walk" => lax = (Format = "OpenStep")
================================================================================
