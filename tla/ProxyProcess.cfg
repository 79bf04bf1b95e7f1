SPECIFICATION FairSpec
CONSTANTS
  NoFile = NoFile
  MaxNumber = 2
  MaxHeight = 2
  Numbers <- MCNumbers
  Heights <- MCHeights
  Clients = {c1}
INVARIANTS
  RestartAccepted
  NeverAheadOfDisk
  MemoryIsFile
  ReadyIsForEver
  RequestsComplete
  StopsInOrder
PROPERTIES
  TagNeverMovesBackwards
  ShutdownEnds
