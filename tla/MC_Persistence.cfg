SPECIFICATION PSpec
CONSTANTS
  NSecurity = 3
  NPrivacy = 1
  Predicates = {p1}
  Values = {v1, v2}
  Verdicts = {"supported", "contradicted"}
  Unknown = Unknown
  Topics <- SmallTopics
  Citations <- SmallCitations
  MaxSemantic = 2
CHECK_DEADLOCK FALSE
INVARIANTS
  TypeOK
  StatusIsLastVerdict
  EveryDisagreementOnce
  PersistedGraphIsExact
  EachReinvestigationStoredOnce
  BadCitationLeavesNothing
  HistoryTellsTheCase
