SPECIFICATION Spec
CONSTANTS
  c1 = c1
  c2 = c2
  s1 = s1
  n1 = n1
  n2 = n2
  n3 = n3
  Root = Root
  Nobody = Nobody
  Call = {c1, c2}
  Stranger = {s1}
  Pid = {n1, n2, n3}
  PidReuse = FALSE
  LossyJob = TRUE
SYMMETRY Symmetry
INVARIANTS
  TypeOK
  RegistrationMeetsExit
  ReportOnlyAfterExit
  
  FallBackOnlyWithoutListener
  ShutdownAfterJobClosed
  RegisteredMeansUnreported
  HandOver
  
CHECK_DEADLOCK FALSE
