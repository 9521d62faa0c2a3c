----------------------------- MODULE MC_Scoring -----------------------------
(***************************************************************************)
(* Two claims of one document that compete for the same predictions, then  *)
(* a case of one claim, and a contradiction in both: every overlap below,  *)
(* at and over the threshold, predictions about other documents, and       *)
(* failed cases.                                                           *)
(***************************************************************************)
EXTENDS Scoring

TwoCases == <<
  [manifest |-> {"d1", "d2"}, claims |-> <<
     [doc |-> "d1", expected |-> "unverified", issue |-> "missing_evidence"],
     [doc |-> "d1", expected |-> "contradicted", issue |-> "direct_contradiction"] >>],
  [manifest |-> {"d1"}, claims |-> <<
     [doc |-> "d1", expected |-> "contradicted", issue |-> "subtle_contradiction"] >>] >>
=============================================================================
