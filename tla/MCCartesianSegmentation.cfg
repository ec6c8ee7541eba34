CONSTANTS
  CellBits = 10
  IntBits = 4
  MaxFields = 5
  Names <- MCNames
  Descriptions <- MCDescriptions
  Values <- MCValues
  GridSize <- MCGridSize
  Offset <- MCOffset
  Positions <- MCPositions
  VolumeIDs <- MCVolumeIDs
  MaxCalls = 4
SPECIFICATION SegSpec
\* A caller may stop calling; after MaxCalls calls the segmentation is idle.
CHECK_DEADLOCK FALSE
INVARIANT SegTypeOK
INVARIANT RoundTrip
INVARIANT CellIDIdempotent
INVARIANT VolumeFieldsKept
INVARIANT CellIDRebuilt
