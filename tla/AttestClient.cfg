CONSTANTS
  ev = ev
  ebs = ebs
  PCRIndex = {0, 5, 16}
  Unlogged = {16}
  Bank = {"sha1", "sha256"}
  Algs <- MCAlgs
  Nonce = {"n1"}
  NoNonce = "empty"
  Digest = {ev, ebs}
  Measurements <- ClientMeasurements
  Broken = Broken
  Bugs <- MCBugs
  WorkaroundPCR = 5
  Workarounds <- MCWorkarounds
  ConfigLogs <- ClientConfigLogs
  PresentedLogs = {}
  MaxHistory = 3
  MaxAccepted = 1
SPECIFICATION Spec
INVARIANTS
  TypeOK
  AttestedSnapshot
  ReturnedVerifies
  PartialReadsSuffice
  FailureHasCause
  NoMissedMeasurement
  FailoverSuffices
PROPERTIES
  AttestPlatformReturns
CHECK_DEADLOCK FALSE
