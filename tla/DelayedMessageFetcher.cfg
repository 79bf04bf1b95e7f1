SPECIFICATION Spec

CONSTANTS
  MaxBlock = 2
  MaxIndex = 1
  Blocks <- MCBlocks
  Indices <- MCIndices
  Data = {d1, d2}
  MaxPerBlock = 1
  maxBlocksPerScan = 1
  startBlockLookback = 0
  waitForFinality = TRUE
  NoMessage = NoMessage

SYMMETRY DataSymmetry

CHECK_DEADLOCK FALSE

INVARIANTS
  TypeOK
  NothingSkipped
  AnswerIsFinal
