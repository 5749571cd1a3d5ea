SPECIFICATION FairSpec
CONSTANTS
  c1 = c1
  c2 = c2
  h1 = h1
  Root = Root
  Parent = Parent
  Child = {c1, c2}
  Heir = {h1}
  Scenarios <- TwoSentinels
PROPERTY SentinelResolves
CHECK_DEADLOCK FALSE
