CONSTANTS
  p1 = p1
  p2 = p2
  h1 = h1
  h2 = h2
  h3 = h3
  n1 = n1
  n2 = n2
  Process = {p1, p2}
  Handle = {h1, h2, h3}
  Name = {n1, n2}
  MaxKeys = 2
  Foreign <- MCForeign
  None = None
SPECIFICATION Spec
SYMMETRY Symmetry
INVARIANTS
  ObjectsAccounted
  StoredKeysLoadable
