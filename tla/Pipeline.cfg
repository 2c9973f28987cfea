SPECIFICATION FairSpec
CONSTANTS
  p1 = p1
  p2 = p2
  p3 = p3
  p4 = p4
  x = x
  None = None
  RankCall = RankCall
  NoText = NoText
  Raises = Raises
  Urls <- MCUrls
  Pages <- MCPages
  Html <- MCHtml
  Outlinks <- MCOutlinks
  Probes <- MCProbes
  WordScore <- MCWordScore
  QueueSize = 1
  MaxBoosts = 1
  ExtractWorkers = 2
  EmbedBatch = 2
  Iterations = 3
  Tolerance = 1
  DampNum = 1
  DampDen = 2
  Unit = 207360000
  EnoughWords = 50
  MinWords = 80
  MaxLinkDensity = 4000
  Threshold = 350
CHECK_DEADLOCK FALSE
INVARIANTS TypeOK SentinelLast JobAddsUp LinksFirst RanksAreCurrent IndexedIsGood
PROPERTIES JobEnds
