SPECIFICATION RepeatSpec
CONSTANTS
  a = a
  b = b
  c = c
  e = e
  n = n
  Listing <- MCSmall
  Suffix <- MCSuffix
  Etag <- MCEtag
  Size <- MCSize
  Allowed = {"pdf", "docx"}
  Requested = {}
  Asked = {{}}
  MaxFiles = 1
  MaxFileSize = 3
  MaxBytes = 3
PROPERTIES
  RepeatedImportTakesNew
CHECK_DEADLOCK FALSE
