CONSTANTS
  ev = ev
  ebs = ebs
  PCRIndex = {5}
  Unlogged = {}
  Bank = {"sha1", "sha256"}
  Algs <- MCAlgs
  Nonce = {"n1", "n2"}
  NoNonce = "empty"
  Digest = {ev, ebs}
  Measurements <- RemoteMeasurements
  Broken = Broken
  Bugs <- RemoteBugs
  WorkaroundPCR = 5
  Workarounds <- MCWorkarounds
  ConfigLogs = {}
  PresentedLogs <- RemoteLogs
  MaxHistory = 3
  MaxAccepted = 1
SPECIFICATION Spec
INVARIANTS
  AcceptedAuthentic
CHECK_DEADLOCK FALSE
PROPERTIES
  KeepsPromise
