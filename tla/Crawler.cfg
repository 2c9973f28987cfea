SPECIFICATION FairSpec
CONSTANTS
  a = a
  b = b
  c = c
  d = d
  Pages <- MCPages
  Seeds <- SeedAC
  Links <- Diamond
  BadHref <- BadB
  MaxDepth = 2
  MaxPages = 3
  Concurrency = 2
  MaxAttempts = 3
CHECK_DEADLOCK FALSE
INVARIANTS TypeOK ActiveCount EndIsComplete FetchedOnce ResultsConserved
PROPERTIES WorkersEnd LimitEndsCrawl
