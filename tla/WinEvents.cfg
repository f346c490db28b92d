SPECIFICATION WinSpec
CONSTANT WinInputs <- MCWinInputs
INVARIANT TypeOK
INVARIANT LatchesAsReported
INVARIANT CountsAsReported
INVARIANT ModulesAsLoaded
INVARIANT ELAMAsReported
INVARIANT AcceptsWellFormed
CHECK_DEADLOCK FALSE
