SPECIFICATION CORSSpec
CONSTANTS
  CORSConfigs <- MCConfigs
  PageOrigins = {"o1", "o2"}
  PageRequests <- MCPageRequests
INVARIANT
  DefaultAllowsAllHeaders
