CONSTANTS
  a = a  b = b  c = c
  Builtin = builtin
  None = None
  Local <- MCLocal
  Deps <- MCDepsFork
  MaxEdits = 2
  InitDeployed <- MCLocal
  GetSchemaOK = FALSE
  ChanCap = 8
  DeployMayFail = TRUE
  Removable = {}
  TerminateMayFail = FALSE
SPECIFICATION Spec
INVARIANT DeployedWithDeps
PROPERTY NoLostEdit
CHECK_DEADLOCK FALSE
