CONSTANTS
  a = a
  b = b
  CellBits = 5
  IntBits = 2
  MaxFields = 2
  Names <- MCNames
  Descriptions <- MCDescriptions
  Values <- MCValues

SPECIFICATION Spec

INVARIANT TypeOK
INVARIANT BoundsBracketValues
INVARIANT DescriptionRoundTrip
PROPERTY ImplementsCellIDFields

\* A constructor that throws leaves no coder to call: that state is final.
CHECK_DEADLOCK FALSE
