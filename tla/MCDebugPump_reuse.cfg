SPECIFICATION Spec
CONSTANTS
  c1 = c1
  c2 = c2
  d1 = d1
  h1 = h1
  h2 = h2
  Root = Root
  Nobody = Nobody
  Child = {c1, c2}
  Affine = {c1}
  Descendant = {}
  Handle = {h1, h2}
  Codes = {}
  OtherKinds = {}
  MaxBlocked = 1
INVARIANTS
  AffinityOnlyWhereAsked
CHECK_DEADLOCK FALSE
