CONSTANTS
  a = a  b = b  c = c
  Builtin = builtin
  None = None
  Local <- MCLocal
  Deps <- MCDeps
  MaxEdits = 2
  InitDeployed = {}
  GetSchemaOK = TRUE
  ChanCap = 8
  DeployMayFail = FALSE
  Removable = {}
  TerminateMayFail = FALSE
SPECIFICATION Spec
INVARIANT BuildOrder
CHECK_DEADLOCK FALSE
