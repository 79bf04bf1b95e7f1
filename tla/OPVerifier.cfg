SPECIFICATION FairSpec
CONSTANTS
  g = g
  a1 = a1
  a2 = a2
  a3 = a3
  b2 = b2
  NoBlock = NoBlock
  NoFile = NoFile
  Block <- MCBlock
  Genesis = g
  Number <- MCNumber
  Parent <- MCParent
  Batch = {a1, a3, b2}
  Heights = {0, 1}
  Numbers = {0, 1, 2, 3}
INVARIANTS
  TypeOK
  NoGap
  SaveAdvances
  OriginFollowsTip
PROPERTIES
  TipFollowsChain
  TagNeverMovesBackwards
  EthereumFinalityWins
  StopReturns
