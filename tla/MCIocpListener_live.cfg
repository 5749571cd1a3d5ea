SPECIFICATION FairSpec
CONSTANTS
  c1 = c1
  c2 = c2
  s1 = s1
  n1 = n1
  n2 = n2
  n3 = n3
  Root = Root
  Nobody = Nobody
  Call = {c1}
  Stranger = {s1}
  Pid = {n1, n2}
  PidReuse = FALSE
  LossyJob = TRUE
PROPERTIES
  WaitReturns
  DropReturns
  ImplementsExitReport
CHECK_DEADLOCK FALSE
