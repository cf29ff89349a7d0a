----------------------------- MODULE DecoderStreams -----------------------------
(***************************************************************************)
(* What a Decoder can meet in its stream, and how the parsers judge it.    *)
(*                                                                         *)
(* A document is [kind, root, kids, keys]: its kind, and the graph a       *)
(* parser makes of it.  kids[n] are the members of the container n,        *)
(* keys[n] how many dictionary keys it has; every n is reachable from the  *)
(* root.  The value Unresolved stands for a nil from an IDREF.  The kind   *)
(* is what each parser says of the bytes: several may accept the same      *)
(* ones, since a string in one format can quote a document of another.     *)
(***************************************************************************)
EXTENDS SequencesExt, FiniteSetsExt, Integers

CONSTANTS
  Streams,       \* what the stream can hold
  Unresolved,    \* the nil value
  Free,          \* expansionFreeNodes, 2^20 in the code
  Factor         \* expansionFactor, 256 in the code

ASSUME LimitsAssumption == Free \in Nat /\ Factor \in Nat /\ Factor >= 2
\* What a parser returns is finite.
\* The text parser names one of its two formats or fails.
ASSUME StreamsAssumption ==
  \A doc \in Streams :
    /\ doc.kind.text \in {"OpenStep", "GNUStep", "error"}
    /\ IsFiniteSet(DOMAIN doc.kids)
    /\ \A n \in DOMAIN doc.kids :
         doc.kids[n] \in Seq(Range(doc.kids[n])) /\ doc.keys[n] \in Nat

\* The first six bytes are the magic of a binary property list.
Header(kind) == kind.header
BinaryVerdict(kind) == kind.binary
\* The XML parser skips what comes before the first element.  It calls a stream
\* invalid when it meets no known element; only then the text parser has its turn.
XMLVerdict(kind) == kind.xml
TextVerdict(kind) == kind.text

Kind(header, binary, xml, text) ==
  [header |-> header, binary |-> binary, xml |-> xml, text |-> text]
\* Documents of one format, and some that no parser accepts.
Binary    == Kind(TRUE, "ok", "invalid", "error")
XML       == Kind(FALSE, "error", "ok", "error")
OpenStep  == Kind(FALSE, "error", "invalid", "OpenStep")
GNUStep   == Kind(FALSE, "error", "invalid", "GNUStep")
BadBinary == Kind(TRUE, "error", "invalid", "error")
BadXML    == Kind(FALSE, "error", "error", "error")
Unknown   == Kind(FALSE, "error", "invalid", "error")
\* A text document, or a binary one, with a string that holds <plist/> or the
\* beginning of an element; a binary document whose string opens a text comment,
\* which hides the rest.
TextQuoting    == Kind(FALSE, "error", "ok", "OpenStep")
BinaryQuoting  == Kind(TRUE, "ok", "ok", "error")
BinaryOpening  == Kind(TRUE, "ok", "error", "error")
BinaryAsText   == Kind(TRUE, "ok", "invalid", "OpenStep")

\* The formats whose parsers accept a document.
Formats(kind) ==
  (IF Header(kind) /\ BinaryVerdict(kind) = "ok" THEN {"Binary"} ELSE {})
    \cup (IF XMLVerdict(kind) = "ok" THEN {"XML"} ELSE {})
    \cup (IF TextVerdict(kind) = "error" THEN {} ELSE {TextVerdict(kind)})

================================================================================
