CONSTANTS
  Builtin = builtin
  Local = {a, b}
  Remote = {c}
  Shadowed = {a}
SPECIFICATION Spec
INVARIANT GraphIsReachableClosure
INVARIANT CallKeepsErrorKind
CHECK_DEADLOCK FALSE
