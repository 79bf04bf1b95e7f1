SPECIFICATION Spec

CONSTANTS
  MaxPos = 2
  Positions <- MCPositions
  Numbers <- MCNumbers
  Heights = {0, 1, 2}
  Height <- reversed
  Delayed = {2}
  Contents = {c1, c2}
  EspressoContent = c1
  InitialHeight = 1
  NoFile = NoFile
  NoMessage = NoMessage

INVARIANTS
  TypeOK
  NoGap
  FeedAcceptsWhatIsNext

PROPERTY
  TagNeverMovesBackwards
