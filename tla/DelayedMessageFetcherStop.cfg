SPECIFICATION FairSpec

CONSTANTS
  MaxBlock = 1
  MaxIndex = 0
  Blocks <- MCBlocks
  Indices <- MCIndices
  Data = {d1}
  MaxPerBlock = 1
  maxBlocksPerScan = 1
  startBlockLookback = 0
  waitForFinality = TRUE
  NoMessage = NoMessage

CHECK_DEADLOCK FALSE

PROPERTY
  StopReturns
