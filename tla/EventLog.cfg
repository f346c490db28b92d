CONSTANTS
  inv = inv
  succ = succ
  fail = fail
  PCRIndex = {0, 5}
  WorkaroundPCR = 5
  Workarounds <- MCWorkarounds
  NoNonce = "empty"
  LocalityPCR = 0
  Localities = {0, 3}
  Bank = {"sha1", "sha256"}
  LogAlgs <- MCLogAlgs
  Digest = {inv, succ, fail}
  Measurements <- MCMeasurements
  Forged = {succ}
  Broken = Broken
  Bugs <- MCBugs
  ShortDigest = ShortDigest
  Selections <- MCSelections
  MaxEvents = 2
  Inputs <- MCInputs
SPECIFICATION MCSpec
INVARIANTS
  VerifiedAuthentic
  InLogOrder
  HonestLogVerifies
  InjectHasEvent
  DecidesAsSpecified
  ParsesAsWritten
  AppendKeepsEvents
PROPERTIES
  VerifyReturns
CHECK_DEADLOCK FALSE
