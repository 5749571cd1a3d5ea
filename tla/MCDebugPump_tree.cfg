SPECIFICATION Spec
CONSTANTS
  c1 = c1
  c2 = c2
  d1 = d1
  h1 = h1
  h2 = h2
  Root = Root
  Nobody = Nobody
  Child = {c1}
  Affine = {c1}
  Descendant = {d1}
  Handle = {h1}
  Codes = {"BREAKPOINT"}
  OtherKinds = {"RIP"}
  MaxBlocked = 2
INVARIANTS
  TrackedMeansUnreported
  DiagnosisMatchesHistory
CHECK_DEADLOCK FALSE
