SPECIFICATION FairServerSpec
CONSTANTS
  h0 = h0
  Earlier = h0
  h1 = h1
  h2 = h2
  d1 = d1
  d2 = d2
  Host <- MCHost
  Digest <- MCDigest
  None = None
  Torn = Torn
  Asks <- MCAsks
  MaxStarts <- MCMaxStarts
  MaxFaults = 1
CHECK_DEADLOCK FALSE
INVARIANT ServersAreDiscoverable
INVARIANT OneChildPerHost
PROPERTY EveryOperationReturns
