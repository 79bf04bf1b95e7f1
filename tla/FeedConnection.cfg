SPECIFICATION FairSpec
CONSTANTS
  MaxPosition = 3
  Positions <- MCPositions
  Contents = {m}
  NoMessage = NoMessage
  StartSeqNums = {0, 1}
  startBackOff = 1
  maxBackoff = 10
INVARIANTS
  TypeOK
  NothingMissed
  NothingLeftBehind
PROPERTIES
  FeedCatchesUp
CHECK_DEADLOCK FALSE
