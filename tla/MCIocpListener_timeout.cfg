SPECIFICATION Spec
CONSTANTS
  c1 = c1
  c2 = c2
  s1 = s1
  n1 = n1
  n2 = n2
  n3 = n3
  Root = Root
  Nobody = Nobody
  Call = {c1}
  Stranger = {}
  Pid = {n1}
  PidReuse = FALSE
  LossyJob = FALSE
INVARIANTS
  ListenerEndsOnlyOnShutdown
CHECK_DEADLOCK FALSE
