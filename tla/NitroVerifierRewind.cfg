SPECIFICATION SteadySpec

CONSTANTS
  MaxPos = 4
  Positions <- MCPositions
  Numbers <- MCNumbers
  Heights = {0, 1, 2, 3, 4}
  Height <- inOrder
  Delayed = {}
  Contents = {c1}
  EspressoContent = c1
  InitialHeight = 1
  NoFile = NoFile
  NoMessage = NoMessage

PROPERTY
  EspressoLeads
