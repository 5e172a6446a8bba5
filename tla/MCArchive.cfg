SPECIFICATION Spec
CONSTANTS
  x = x
  y = y
  z = z
  Archives <- MCArchives
  Contents = {x, y, z}
  Bases = {"doc", ""}
  Folders = {"a", "b", "c", "d"}
  Extensions <- MCExtensions
  Lower <- MCLower
  Nested = {"zip"}
  Allowed = {"txt"}
  MaxEntries = 3
  MaxTotal = 8
  MaxRatio = 2
  MaxFile = 3
INVARIANTS
  TypeOK
  VerdictsAddUp
  NamesStayApart
  EveryContentArrives
