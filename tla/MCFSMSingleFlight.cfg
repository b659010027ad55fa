CONSTANTS
  Inst = {i1}
  Dests = {d1, d2}
  Starters = {s1, s2}
  Executors = {e1, e2}
  MaxCalls = 3
  MaxAttempts = 1
  MaxExpiries = 1
  Locking = TRUE
  None = None
SPECIFICATION Spec

INVARIANT SingleFlight

CHECK_DEADLOCK FALSE
