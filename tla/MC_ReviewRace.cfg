SPECIFICATION FairSpec
CONSTANTS
  Requests = {r1, r2, r3}
  NoRequest = NoRequest
  t1 = t1 t2 = t2 t3 = t3 b1 = b1 b2 = b2
  Tabs = {t1}
  Browsers = {b1}
  BrowserOf <- TabBrowser
  Findings = {f1}
  OtherFindings = {}
  MaxOverrides = 2
  MaxTokens = 1
  VALID_DECISIONS = {"approved"}
  InvalidDecision = "invalid"
CHECK_DEADLOCK FALSE
INVARIANTS
  OneDecision
  FailedLeavesNothing
PROPERTIES
  ImplementsReviewDecision
  EverySubmissionIsAnswered
