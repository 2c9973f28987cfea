SPECIFICATION FairSpec
CONSTANTS
  a = a
  b = b
  c = c
  d = d
  Pages <- MCPages
  Seeds <- SeedA
  Links <- Chain
  BadHref <- NoBad
  MaxDepth = 2
  MaxPages = 4
  Concurrency = 2
  MaxAttempts = 2
CHECK_DEADLOCK FALSE
PROPERTIES CrawlTerminates
