CONSTANTS
  Inst = {i1, i2}
  Dests = {d1}
  Starters = {s1, s2}
  Executors = {e1}
  MaxCalls = 2
  MaxAttempts = 1
  MaxExpiries = 1
  Locking = TRUE
  None = None
SPECIFICATION Spec
INVARIANT TypeOK
 
CHECK_DEADLOCK FALSE
