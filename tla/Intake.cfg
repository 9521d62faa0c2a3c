SPECIFICATION Spec
CONSTANTS
  Sessions = {s1, s2}
  Vendors = {v1, v2}
  Uploads <- SmallUploads
  LeadsTo <- SmallLeadsTo
  MaxCases = 3
  MaxDocuments = 2
SYMMETRY Symmetry
CHECK_DEADLOCK FALSE
INVARIANTS
  TypeOK
  EveryDocumentIsAccountedFor
  ParsedTextIsReadable
  OriginalIsLostOnlyByName
  NoDocumentIsUnread
