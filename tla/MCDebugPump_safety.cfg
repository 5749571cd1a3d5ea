SPECIFICATION Spec
CONSTANTS
  c1 = c1
  c2 = c2
  d1 = d1
  h1 = h1
  h2 = h2
  Root = Root
  Nobody = Nobody
  Child = {c1, c2}
  Affine = {c1, c2}
  Descendant = {}
  Handle = {h1, h2}
  Codes = {"ACCESS_VIOLATION", "STACK_BUFFER_OVERRUN"}
  OtherKinds = {"RIP"}
  MaxBlocked = 1
SYMMETRY Symmetry
INVARIANTS
  TypeOK
  TrackedMeansUnreported
  NoCallerFindsPumpGone
  DiagnosisMatchesHistory
  
  FallBackOnlyWithoutPump
  HandOver
  
CHECK_DEADLOCK FALSE
