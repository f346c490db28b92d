CONSTANTS
  p1 = p1
  s1 = s1
  s2 = s2
  Process = {p1}
  Slot = {s1, s2}
  Configs <- MCConfigs
  Devs <- MCDevs
  Channels = {"sim"}
  Version <- MCVersion
  Managed = {"tpm2"}
  DaemonTPM = "tpm1"
  CGO = TRUE
  Nonce <- MCNonce
  Certs <- MCCerts
  Unreliable = {}
  Size = 2
  MaxAbandoned = 1
  None = None
SPECIFICATION Spec
SYMMETRY Symmetry
INVARIANTS
  DefaultWithoutNonce
