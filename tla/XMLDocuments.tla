------------------------------ MODULE XMLDocuments ------------------------------
(***************************************************************************)
(* What an XML parser can be given, as the tokens encoding/xml makes of    *)
(* it: [tokens, whole], where whole is the document of which tokens are    *)
(* the beginning, or the whole of it.                                      *)
(***************************************************************************)
EXTENDS PlistValues

CONSTANT XMLDocs

ASSUME TokensAssumption ==
  \A d \in XMLDocs : \A T \in {d.tokens, d.whole} :
    T \in Seq(Range(T)) /\ \A token \in Range(T) : ~(Is("start", token) /\ Is("end", token))
================================================================================
