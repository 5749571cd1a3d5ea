SPECIFICATION FairSpec
CONSTANTS
  c1 = c1
  c2 = c2
  d1 = d1
  h1 = h1
  h2 = h2
  Root = Root
  Nobody = Nobody
  Child = {c1, c2}
  Affine = {}
  Descendant = {}
  Handle = {h1, h2}
  Codes = {}
  OtherKinds = {"OTHER"}
  MaxBlocked = 1
PROPERTIES
  SpawnReturns
  DropReturns
  WaitReturns
  ImplementsExitReport
CHECK_DEADLOCK FALSE
