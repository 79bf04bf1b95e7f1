SPECIFICATION Spec
CONSTANTS
  Clients = {c1, c2}
  firstClient = c1
  HTTPRequests <- MCHTTPRequests
  JSONValues <- MCJSONValues
  nesting <- height
  size <- bodyLength
  MaxNumber = 2
  maxJSONDepth = 2
  maxBatchSize = 2
  maxRequestBodySize = 15
  CORSConfigs <- MCConfigs
  PageOrigins = {"o1", "o2"}
  PageRequests <- MCPageRequests
INVARIANTS
  ResolvedAsOne
  RefusedForCause
  NeverBehindEarlierAnswer
  OnlyCheckedReachesNode
  AnsweredOnce
  PageServedByPolicy
