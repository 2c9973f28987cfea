SPECIFICATION MCSpec
CONSTANTS
  d1 = d1
  d2 = d2
  d3 = d3
  q1 = q1
  q2 = q2
  NoQuery = NoQuery
  crawl = crawl
  single = single
  Docs <- MCDocs
  Queries <- MCQueries
  Lex <- MCLex
  Den <- MCDen
  Close <- MCClose
  Cross <- MCCross
  PageRank <- MCPageRank
  Requests <- MCRequests
  Batches <- MCBatches
  UrlJobs <- MCUrlJobs
  JobDocs <- MCJobDocs
  CandidateK = 2
  MaxHeld = 1
INVARIANTS TypeOK CacheHidesDeleted CachedIsAnswer CacheLagsOnlyJobs SimsAreOfQuery PageIsRight
