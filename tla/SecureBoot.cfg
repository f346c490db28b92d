CONSTANTS
  Inputs <- MCInputs
SPECIFICATION Spec
INVARIANTS
  AcceptsAsVerified
  StateAsMeasured
CHECK_DEADLOCK FALSE
