SPECIFICATION MCSpec
CONSTANTS
  u1 = u1
  u2 = u2
  t1 = t1
  t2 = t2
  t3 = t3
  j1 = j1
  j2 = j2
  Urls <- MCUrls
  Texts <- MCTexts
  Near <- MCNear
  Jobs <- MCJobs
  EmbedBatch = 2
  IndexTypes <- AllTypes
  TrainAt = 20
  CrashPoints <- Anywhere
  MaxDocs = 3
SYMMETRY Alike
INVARIANTS TypeOK Aligned UrlMapLatest OncePerLifetime SearchReturnsBest
PROPERTIES LexicalSpec DenseSpec BreaksOnlyInAWrite
CHECK_DEADLOCK FALSE
