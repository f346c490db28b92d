CONSTANTS
  PCRIndex = {0, 1}
  Bank <- MCBank
  HashID <- MCHashID
  Digest <- MCDigest
  Nonce = {"n1", "n2", "empty"}
  NoNonce = "empty"
  Quotes <- MCQuotes
  Slices <- MCSlices
  KeyTypes = {"rsa", "ecdsa"}
  MaxCalls = 2
  MaxQuotes = 2
SPECIFICATION Spec
INVARIANTS
  MarksAuthentic
  DecidesAsSpecified
CHECK_DEADLOCK FALSE
