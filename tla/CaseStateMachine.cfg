SPECIFICATION FairSpec
CONSTANTS
  Sessions = {s1, s2}
  NoSession = NoSession
INVARIANTS
  TypeOK
  HistoryMatchesStatus
  AuditMatchesHistory
  ReviewAndReinvestigation
  OneRowPerHop
  OneWinner
PROPERTIES
  TerminalIsForever
  ImplementsLifecycle
  EveryCallIsAnswered
