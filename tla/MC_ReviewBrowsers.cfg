SPECIFICATION Spec
CONSTANTS
  Requests = {r1, r2}
  NoRequest = NoRequest
  t1 = t1 t2 = t2 t3 = t3 b1 = b1 b2 = b2
  Tabs = {t1, t2, t3}
  Browsers = {b1, b2}
  BrowserOf <- TabBrowser
  Findings = {}
  OtherFindings = {g1}
  MaxOverrides = 1
  MaxTokens = 3
  VALID_DECISIONS = {"approved"}
  InvalidDecision = "invalid"
CHECK_DEADLOCK FALSE
INVARIANTS
  TypeOK
  FinalizedPageShowsReview
PROPERTIES
  LatestFormIsAccepted
