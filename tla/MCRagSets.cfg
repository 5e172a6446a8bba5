SPECIFICATION Spec
CONSTANTS
  me = me
  Rags = {g1, g2, g3}
  Owners = {me}
  OwnerOf <- MCOwnerOf
  Requests = {r1, r2}
  Names = {n1, n2, n3}
  Prompts = {p1}
  Null = Null
  Absent = Absent
  MaxSets = 1
SYMMETRY Symmetry
INVARIANTS
  TypeOK
  LimitOvershootBounded
  NamesAreUnique
PROPERTIES
  PatchMerges
CHECK_DEADLOCK FALSE
