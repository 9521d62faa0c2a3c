SPECIFICATION Spec
CONSTANTS
  GroundTruth <- TwoCases
  Documents = {"d1", "d2"}
  Statuses = {"unverified", "contradicted"}
  IssueTypes = {"direct_contradiction", "subtle_contradiction", "missing_evidence"}
  Scores = {10, 25, 40}
  MATCH_THRESHOLD = 25
  MaxPredictions = 3
CHECK_DEADLOCK FALSE
INVARIANTS
  MatchesAreBest
  NoPredictionCountsTwice
  ExtrasNeverCostAMatch
  ReportsAreConsistent
