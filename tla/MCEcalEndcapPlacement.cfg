CONSTANTS
  SCDim = 3
  CRDim = 2
  NSCTypes = 2
  NColumns = 3
  UBits = 8
  Inputs <- MCInputs
  ProfValues <- MCProfValues
SPECIFICATION Spec
INVARIANT TypeOK
INVARIANT CrystalsFollowProfile
INVARIANT CentersFromInput
INVARIANT NoOutOfBounds
\* algorithm() returns 1, or the assert aborts.
CHECK_DEADLOCK FALSE
