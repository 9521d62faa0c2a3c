------------------------------ MODULE MC_Intake ------------------------------
(***************************************************************************)
(* The documents offered: of a routed type, mixed content routed to both   *)
(* investigators, unclassifiable ones, and an invalid file.  Two uploads   *)
(* are called parsed.txt, and the name of one leads to the parsed.txt of   *)
(* the first document.                                                     *)
(***************************************************************************)
EXTENDS Intake, TLC

Upload(filename, form, doc_type, explicit) ==
  [filename |-> filename, form |-> form, doc_type |-> doc_type, explicit |-> explicit]

SmallUploads ==
  { Upload("policy.pdf", "binary", "dpa", "none"),
    Upload("parsed.txt", "text", "security_questionnaire", "both"),
    Upload("parsed.txt", "binary", "soc_report", "none"),
    Upload("policy.pdf", "text", "other", "none"),
    Upload("policy.pdf", "text", "dpa", "sales"),
    Upload("../1/parsed.txt", "text", "other", "security"),
    Upload("policy.pdf", "invalid", "dpa", "none") }

\* Sessions and vendors are alike: no action and no invariant names one.
Symmetry == Permutations(Sessions) \cup Permutations(Vendors)

SmallLeadsTo == [name \in {"../1/parsed.txt"} |-> << 1, "parsed.txt" >>]
=============================================================================
