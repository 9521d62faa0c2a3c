SPECIFICATION Spec
CONSTANTS
  Sessions = {s1}
  Vendors = {v1}
  Uploads <- SmallUploads
  LeadsTo <- SmallLeadsTo
  MaxCases = 1
  MaxDocuments = 2
CHECK_DEADLOCK FALSE
INVARIANTS
  OriginalIsKept
