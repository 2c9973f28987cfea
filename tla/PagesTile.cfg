SPECIFICATION Spec
CONSTANTS
  d1 = d1
  d2 = d2
  d3 = d3
  q1 = q1
  q2 = q2
  NoQuery = NoQuery
  crawl = crawl
  single = single
  Docs <- MCDocs
  Queries <- MCQueries
  Lex <- MCLex
  Den <- MCDen
  Close <- MCClose
  Cross <- MCCross
  PageRank <- MCPageRank
  Requests <- FilteredRequests
  Batches <- MCBatches
  UrlJobs <- MCUrlJobs
  JobDocs <- MCJobDocs
  CandidateK = 3
  MaxHeld = 1
INVARIANTS PagesTile
