SPECIFICATION FairSpec
CONSTANTS
  g1 = g1
  g2 = g2
  d1 = d1
  d2 = d2
  d3 = d3
  f1 = f1
  f2 = f2
  i1 = i1
  i2 = i2
  b1 = b1
  b2 = b2
  x = x
  y = y
  z = z
  None = None
  Contents = {x, y, z}
  RagOf <- MCRagOf
  ContentOf <- MCContentOf
  OriginOf <- MCOriginOf
  BatchRag <- MCBatchRag
  Rags = {g1}
  Docs = {d1, d2}
  Foreign = {}
  Batches = {}
  Archives = {}
  Chunks = {k1}
  MaxDocs = 2
  RefreshAfterLoad = TRUE
  Faults = {}
  Requests = {r1, r2}
  Workers = {w1}
  Ops = {"createRag", "upload"}
PROPERTIES
  OrphansCollected
CHECK_DEADLOCK FALSE
