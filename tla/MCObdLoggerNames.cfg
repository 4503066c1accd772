SPECIFICATION Spec
CONSTANTS
  Files = {1, 2, 3, 4}
  NoFile = 0
  Params = {a}
  Limit = 1
  MaxDbFiles = 1
  MaxResets = 1
  a = a
INVARIANT RowsNamed
