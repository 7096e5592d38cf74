SPECIFICATION FrontSpec
CONSTANTS
  Parts = {"limit", "requests", "sign in", "pages"}
  c1 = c1
  c2 = c2
  t1 = t1
  t2 = t2
  t3 = t3
  k1 = k1
  k2 = k2
  Threads <- TheThreads
  Containers <- TheContainers
  Home <- TwoAndOne
  Tokens <- TheTokens
  Faults <- TableCalls
  CodeFor = 1
  SessionFor = 2
  CacheFor = 1
  CacheLimit = 1
  MaxTime = 3
  Subscribers <- TheSubscribers
  Wide <- TheNetworks
  Hosts <- TwoHosts
  Edges <- TheEdge
  MaxTokens = 4
  Refill = 1
  Cost = 2
  MaxClock = 3
  Paths <- ThePaths
  Keyed <- Repeated
  Life = 1
  Ledgers <- TheLedgers
  Days = 2
  NextKey = 4
  PageSize = 2
  MaxPages = 2
  Limits <- TheLimits
  Budgets <- TheBudgets
  MaxRecorded = 1
  MaxFailures = 1
SYMMETRY Alike
CHECK_DEADLOCK FALSE
INVARIANTS Metered AnswersAreTheAskers WritesOnce SingleUse EndsInTime ListingsWhole
