CONSTANTS
  p1 = p1
  p2 = p2
  rsa = rsa
  ecdsa = ecdsa
  h1 = h1
  h2 = h2
  Client = {p1, p2}
  SRKHandles = {"srk"}
  EKHandle = "ek"
  Alg = {rsa, ecdsa}
  Slot = {h1, h2}
  None = None
SPECIFICATION Spec
SYMMETRY Symmetry
INVARIANTS
  TypeOK
  HandlesAccounted
  BlobsLoadable
