SPECIFICATION Spec

CONSTANTS
  MaxPos = 2
  Positions <- MCPositions
  Numbers <- MCNumbers
  Heights = {0, 1, 2}
  Height <- reversed
  Delayed = {}
  Contents = {c1}
  EspressoContent = c1
  InitialHeight = 1
  NoFile = NoFile
  NoMessage = NoMessage

INVARIANT
  FallbackCoversRest
