\* Two clients, a burst of two requests at one request every two ticks, and a
\* clean-up as early as the assumption allows; a Lookup of three record types at
\* two resolvers, behind an egress limiter of two tokens; two goroutines in each of
\* the caches with flights of their own (their bounds are in MCWaits).
SPECIFICATION MCSpec
CONSTANTS
  c1 = c1
  c2 = c2
  Clients <- TwoClients
  Types <- SomeTypes
  Servers <- TwoServers
  RRSets <- SomeRRSets
  g1 = g1
  g2 = g2
  k1 = k1
  k2 = k2
  found = found
  NoProc = NoProc
  NoKey = NoKey
  Failure = Failure
  Nothing = Nothing
  NoIP = NoIP
  Full = 4
  Cost = 2
  Cleanup = 3
  MaxNow = 8
  Burst = 2
  NoTTL = 9
CHECK_DEADLOCK FALSE
INVARIANTS
  TypeOK
  WithinBudget
  NSDecides
  ThrottledByLimiter
PROPERTIES
  ImplementsTokenBucket
  EveryLookupEnds
  EveryCallReturns
  EveryRequestEnds
