\* Two aliases, two lines of the user's, kills at any moment.
CONSTANTS
  a = a
  b = b
  Aliases = {a, b}
  u = u
  v = v
  UserLines = {u, v}
  NoAlias = NoAlias
SPECIFICATION Spec
INVARIANTS IInv UserLinesKept OneBlockEach
PROPERTY LostOnlyBehindTear
