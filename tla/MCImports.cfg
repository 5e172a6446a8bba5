SPECIFICATION Spec
CONSTANTS
  g1 = g1
  g2 = g2
  d1 = d1
  d2 = d2
  d3 = d3
  f1 = f1
  f2 = f2
  i1 = i1
  i2 = i2
  b1 = b1
  b2 = b2
  x = x
  y = y
  z = z
  None = None
  Contents = {x, y, z}
  RagOf <- MCRagOf
  ContentOf <- MCContentOf
  OriginOf <- MCOriginOf
  BatchRag <- MCBatchRag
  Rags = {g1}
  Docs = {d1, i1, i2}
  Foreign = {}
  Batches = {b1, b2}
  Archives = {b1}
  Chunks = {k1}
  MaxDocs = 2
  RefreshAfterLoad = TRUE
  Faults = {"tooBig", "worker", "import", "purge"}
  Requests = {r1}
  Workers = {w1}
  Ops = {"createRag", "upload", "archive", "prefix", "deleteDocument", "deleteRag"}
SYMMETRY Symmetry
INVARIANTS
  NoForgottenDocument
  BatchCountsDocuments
  StagedArchiveIsOwed
CHECK_DEADLOCK FALSE
