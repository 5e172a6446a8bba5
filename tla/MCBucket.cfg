SPECIFICATION Spec
CONSTANTS
  a = a
  b = b
  c = c
  e = e
  n = n
  Listing <- MCListing
  Suffix <- MCSuffix
  Etag <- MCEtag
  Size <- MCSize
  Allowed = {"pdf", "docx"}
  Requested <- MCRequested
  Asked <- MCAsked
  MaxFiles = 2
  MaxFileSize = 3
  MaxBytes = 2
INVARIANTS
  TypeOK
  RowsNeverCollide
  OneVerdictEach
PROPERTIES
  ImportKeepsQuota
  SmallPrefixImported
