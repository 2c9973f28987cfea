SPECIFICATION MCSpec
CONSTANTS
  k1 = k1
  k2 = k2
  k3 = k3
  v1 = v1
  v2 = v2
  None = None
  Keys <- MCKeys
  Values <- MCValues
  MaxSize = 2
  Ttl = 2
  MaxTime = 4
  Requests <- MCRequests
  CacheSize = 2
  Tokens <- MCTokens
  Raws <- MCRaws
  Docs <- MCDocs
  Lower <- MCLower
  Lemmas <- MCLemmas
  MaxExpansion = 2
  NavSignals = {"x.org"}
  TransSignals = {"dog"}
  QuestionStarts = {"how"}
CHECK_DEADLOCK FALSE
INVARIANTS TypeOK KeepsRecent AnswersAreRight
PROPERTIES NeverLies
