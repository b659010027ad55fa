CONSTANTS
  a = a  b = b  c = c
  Builtin = builtin
  None = None
  Local <- MCLocal
  Deps <- MCDeps
  MaxEdits = 2
  InitDeployed <- MCLocal
  GetSchemaOK = TRUE
  ChanCap = 2
  DeployMayFail = FALSE
  Removable = {a}
  TerminateMayFail = FALSE
SPECIFICATION Spec
INVARIANT TypeOK
PROPERTY NoLostEdit
PROPERTY DeploysInOrder
PROPERTY RemovedUndeployed
PROPERTY Convergence
CHECK_DEADLOCK FALSE
