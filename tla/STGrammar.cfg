CONSTANTS
  Del = ","
  Inputs <- MCInputs
SPECIFICATION Spec
INVARIANT AcceptedOnlyIfGrammatical
\* std::for_each stops after the last character.
CHECK_DEADLOCK FALSE
