CONSTANTS
  W = W
  D1 = D1
  D2 = D2
  T = T
  Air = Air
  Si = Si
  Pb = Pb
  Cu = Cu
  None = None
  NoMaterial = NoMaterial
  NoPlacement = NoPlacement
  NullMaterial <- NoMaterial
  NullPlacement <- NoPlacement
  Medium <- MCMedium
  MinStep = 2
  StepMax = 8
  MaxTracks = 2
  MatData <- MCMatData
  Bounds <- EdgeBounds
  Layer <- MCLayer
  Points <- EdgePoints
  Epsilons <- ZeroEpsilon
  Origin <- OriginElsewhere

SPECIFICATION Spec

INVARIANT PathLengthCovered
