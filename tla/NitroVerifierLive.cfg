SPECIFICATION FairSpec

CONSTANTS
  MaxPos = 2
  Positions <- MCPositions
  Numbers <- MCNumbers
  Heights = {0, 1, 2}
  Height <- inOrder
  Delayed = {}
  Contents = {c1}
  EspressoContent = c1
  InitialHeight = 1
  NoFile = NoFile
  NoMessage = NoMessage

PROPERTIES
  NitroFinalityWins
  StopReturns
