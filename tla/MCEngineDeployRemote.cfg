CONSTANTS
  Builtin = builtin
  a = a
  b = b
  d = d
  e = e
  f = f
  g = g
  h = h
  x = x
  c = c
  Local <- MCLocal
  Deps <- MCDepsRemote
  Remote <- MCRemote
  RemoteImports <- MCRemoteImports
  DeployMayFail = FALSE
SPECIFICATION Spec
CHECK_DEADLOCK FALSE
PROPERTY DeploysWithoutFaults
