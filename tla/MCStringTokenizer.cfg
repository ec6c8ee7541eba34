CONSTANTS
  Del = ","
  Inputs <- MCInputs
SPECIFICATION Spec
INVARIANT TypeOK
INVARIANT TokensAreNonEmptyPieces
\* std::for_each stops after the last character.
CHECK_DEADLOCK FALSE
