SPECIFICATION FairSpec
CONSTANTS
  s1 = s1
  s2 = s2
  c1 = c1
  c2 = c2
  k1 = k1
  None = None
  Services = {s1, s2}
  Conns = {c1, c2}
  Closers = {k1}
  CallFuncPanics = TRUE
CHECK_DEADLOCK FALSE
 
PROPERTY CloseReturns
