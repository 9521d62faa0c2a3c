SPECIFICATION FairSpec
CONSTANTS
  MaxAttempts = 5
  BaseDelay = 1
  MaxDelay = 3
CHECK_DEADLOCK FALSE
INVARIANTS
  EveryObservationEnded
  OutcomeIsJustified
PROPERTIES
  ImplementsRetryPolicy
