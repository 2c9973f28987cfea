SPECIFICATION Spec
CONSTANTS
  u1 = u1
  u2 = u2
  t1 = t1
  t2 = t2
  t3 = t3
  j1 = j1
  j2 = j2
  Urls <- MCUrls
  Texts <- MCTexts
  Near <- MCNear
  Jobs <- OneJob
  EmbedBatch = 2
  IndexTypes <- Ivf
  TrainAt = 20
  CrashPoints <- OnlyWhenUp
  MaxDocs = 3
INVARIANTS SameSpace
