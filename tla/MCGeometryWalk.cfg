CONSTANTS
  World = World
  EmptyArg = EmptyArg
  Garbage = Garbage
  Elements <- MCElements
  NameOrder <- MCNameOrder
  ArgVectors <- MCArgVectors
SPECIFICATION Spec
INVARIANT TypeOK
INVARIANT OutputIsPreorderWalks
\* run() returns or throws and is not called again.
CHECK_DEADLOCK FALSE
