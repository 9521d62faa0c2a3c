---------------------------- MODULE MC_EvalRunner ----------------------------
(***************************************************************************)
(* The call counts of a run: two investigators (none for a case whose      *)
(* domains are empty, one where a single domain has documents), the        *)
(* baseline's one call a case, and reconciliation's zero to three (one for *)
(* each deterministic conflict and one adjudication).                      *)
(***************************************************************************)
EXTENDS EvalRunner

Investigators  == [calls |-> << 2, 1, 0, 2 >>, catches |-> TRUE]
Baseline       == [calls |-> << 1, 1, 1, 1 >>, catches |-> TRUE]
Reconciliation == [calls |-> << 0, 3, 1, 2 >>, catches |-> FALSE]

AllRunners   == {Investigators, Baseline, Reconciliation}
BaselineOnly == {Baseline}
=============================================================================
