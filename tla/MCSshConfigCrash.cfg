\* The documented promise, with a run killed while it appends: violated.
CONSTANTS
  a = a
  b = b
  Aliases = {a, b}
  u = u
  v = v
  UserLines = {u, v}
  NoAlias = NoAlias
SPECIFICATION Spec
INVARIANT RemovalSparesUser
