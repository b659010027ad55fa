CONSTANTS
  Builtin = builtin
  a = a
  b = b
  d = d
  e = e
  f = f
  g = g
  h = h
  x = x
  c = c
  Local <- MCLocal
  Deps <- MCDeps
  Remote <- MCRemote
  RemoteImports <- MCRemoteImports
  DeployMayFail = TRUE
SPECIFICATION Spec
CHECK_DEADLOCK FALSE
INVARIANT DeployedAfterDeps SuccessMeansAllDeployed
