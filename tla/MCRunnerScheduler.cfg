CONSTANTS
  r1 = r1
  r2 = r2
  e1 = e1
  d1 = d1
  None = None
  Runners <- MCRunners
  Endpoint <- MCEndpoint
  Depls <- MCDepls
SPECIFICATION Spec
INVARIANT ReservedHasTimeout
PROPERTY ReservationsEnd RestartRegisters
CHECK_DEADLOCK FALSE
