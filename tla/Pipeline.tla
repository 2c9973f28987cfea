------------------------------ MODULE Pipeline ------------------------------
(***************************************************************************)
(* IndexPipeline.run for one crawl job: three stages that run together,    *)
(* joined by two bounded queues, each ended by None.  What the extractor   *)
(* and the quality gate make of a page is Extraction's part, what becomes  *)
(* of its links LinkGraph's; the near-duplicate filter and the indices     *)
(* are DocIndex's: a refusal by the filter is a choice here.               *)
(***************************************************************************)
EXTENDS Integers, Sequences, FiniteSets, SequencesExt

CONSTANTS
  QueueSize,       \* maxsize of crawl_q and of extract_q
  ExtractWorkers,  \* extraction tasks that may hold the semaphore
  EmbedBatch,      \* pages per embedding call
  Urls,
  Pages,           \* pages the crawler may yield, each with a URL of its own
  Html,            \* what is in each page
  Outlinks,        \* its links to other domains, in document order
  None,            \* the sentinel
  MaxBoosts,       \* searches that ask for a score before the job ends
  RankCall,        \* a request for PageRank among the calls to the link graph
  Probes,          \* contents that the gates are checked on besides
  Iterations, Tolerance, DampNum, DampDen, Unit,                   \* LinkGraph's
  NoText, Raises, WordScore, EnoughWords, MinWords, MaxLinkDensity, Threshold  \* Extraction's

Links   == INSTANCE LinkGraph
Content == INSTANCE Extraction

ASSUME PipelineAssumption ==
  /\ Links!GraphAssumption /\ Content!ExtractionAssumption
  /\ QueueSize \in Nat \ {0} /\ ExtractWorkers \in Nat \ {0} /\ EmbedBatch \in Nat \ {0}
  /\ Pages \subseteq Urls /\ Outlinks \in [Pages -> Seq(Urls)] /\ DOMAIN Html = Pages
  /\ \A h \in Probes \union {Html[p] : p \in Pages} : Content!IsPage(h)
  /\ None \notin Pages /\ RankCall \notin Pages

\* Of use to the ranks only.
ASSUME UnitAssumption == Links!UnitIsDivisible

VARIABLES
  status,                           \* the job that runs the pipeline
  crawl, extract, index,            \* where each stage is
  crawl_q, extract_q,               \* the queues between them
  waiting, extracting, putting,     \* pages of extraction tasks, by what these wait for
  batch,                            \* batch_pages
  stats,                            \* IndexStats
  calls,                            \* what was asked of the link graph, in order
  crawled, empty, indexed           \* history: pages yielded, without content, in the index

vars == <<status, crawl, extract, index, crawl_q, extract_q, waiting, extracting,
          putting, batch, stats, calls, crawled, empty, indexed>>

crawlVars   == <<crawl, crawled>>
extractVars == <<extract, waiting, extracting, putting, empty>>
indexVars   == <<index, batch, indexed>>

StatFields == {"crawled", "extracted", "deduped", "quality_dropped", "indexed"}
Items == Pages \union {None}

\* The link graph: every call leaves behind what AddPage or Refreshed makes of
\* the graph that it finds.
graph ==
  LET after[n \in 0 .. Len(calls)] ==
        IF n = 0 THEN Links!NoGraph
        ELSE IF calls[n] = RankCall THEN Links!Refreshed(after[n - 1])
        ELSE Links!AddPage(after[n - 1], calls[n], Outlinks[calls[n]])
  IN after[Len(calls)]
recorded == ToSet(calls) \ {RankCall}

TypeOK ==
  /\ status \in {"pending", "running", "done", "failed"}
  /\ crawl \in {"next", "putting", "ended", "over"}
  /\ extract \in {"loop", "gather", "over"}
  /\ index \in {"loop", "embedding", "last", "over", "failed"}
  /\ crawl_q \in Seq(Items) /\ extract_q \in Seq(Items)
  /\ waiting \in Seq(Pages) /\ batch \in Seq(Pages)
  /\ extracting \subseteq Pages /\ putting \subseteq Pages
  /\ Cardinality(extracting) + Cardinality(putting) <= ExtractWorkers
  /\ stats \in [StatFields -> Nat]
  /\ calls \in Seq(Pages \union {RankCall}) /\ Links!IsGraph(graph)
  /\ crawled \in Seq(Pages) /\ empty \subseteq Pages /\ indexed \subseteq Pages

Init ==
  /\ status = "pending"
  /\ crawl = "next" /\ extract = "loop" /\ index = "loop"
  /\ crawl_q = <<>> /\ extract_q = <<>>
  /\ waiting = <<>> /\ extracting = {} /\ putting = {} /\ batch = <<>>
  /\ stats = [f \in StatFields |-> 0]
  /\ calls = <<>> /\ crawled = <<>> /\ empty = {} /\ indexed = {}

\* The job starts: run() starts its stages.  A job that has failed does not
\* stop the stages that have not.
Begin ==
  /\ status = "pending" /\ status' = "running"
  /\ UNCHANGED <<crawlVars, extractVars, indexVars, calls, crawl_q, extract_q, stats>>

Started == status # "pending"
Full(q) == Len(q) >= QueueSize
Count(f) == stats' = [stats EXCEPT ![f] = @ + 1]

-----------------------------------------------------------------------------
(* Stage 1: crawl *)

\* The crawler yields a page, which is counted and then put.
CrawlNext(p) ==
  /\ Started /\ crawl = "next" /\ p \notin ToSet(crawled)
  /\ Count("crawled") /\ crawled' = Append(crawled, p) /\ crawl' = "putting"
  /\ UNCHANGED <<status, extractVars, indexVars, calls, crawl_q, extract_q>>

CrawlPut ==
  /\ crawl = "putting" /\ ~Full(crawl_q)
  /\ crawl_q' = Append(crawl_q, Last(crawled)) /\ crawl' = "next"
  /\ UNCHANGED <<status, crawled, extractVars, indexVars, calls, extract_q, stats>>

\* The crawler has no more pages.
CrawlEnds ==
  /\ Started /\ crawl = "next" /\ crawl' = "ended"
  /\ UNCHANGED <<status, crawled, extractVars, indexVars, calls, crawl_q, extract_q, stats>>

CrawlSentinel ==
  /\ crawl = "ended" /\ ~Full(crawl_q)
  /\ crawl_q' = Append(crawl_q, None) /\ crawl' = "over"
  /\ UNCHANGED <<status, crawled, extractVars, indexVars, calls, extract_q, stats>>

-----------------------------------------------------------------------------
(* Stage 2: extract, with one task per page *)

\* One task per page, however many there are: the semaphore limits those that
\* work, not those that wait.
ExtractTake ==
  /\ Started /\ extract = "loop" /\ crawl_q # <<>>
  /\ crawl_q' = Tail(crawl_q)
  /\ IF Head(crawl_q) = None
     THEN extract' = "gather" /\ UNCHANGED waiting
     ELSE waiting' = Append(waiting, Head(crawl_q)) /\ UNCHANGED extract
  /\ UNCHANGED <<status, crawlVars, extracting, putting, empty, indexVars, calls,
                 extract_q, stats>>

\* Mutation: a task that waits for room in the queue has given its slot back.
AcquireEarly ==
  /\ waiting # <<>> /\ Cardinality(extracting) < ExtractWorkers
  /\ waiting' = Tail(waiting) /\ extracting' = extracting \union {Head(waiting)}
  /\ UNCHANGED <<status, crawlVars, extract, putting, empty, indexVars, calls,
                 crawl_q, extract_q, stats>>

\* The semaphore admits tasks in the order of their pages.
Acquire ==
  /\ waiting # <<>> /\ Cardinality(extracting) + Cardinality(putting) < ExtractWorkers
  /\ waiting' = Tail(waiting) /\ extracting' = extracting \union {Head(waiting)}
  /\ UNCHANGED <<status, crawlVars, extract, putting, empty, indexVars, calls,
                 crawl_q, extract_q, stats>>

Leave(p) == p \in extracting /\ extracting' = extracting \ {p}

\* The page has no content: the task ends.
NoContent(p) ==
  /\ Leave(p) /\ Content!Extract(Html[p]) = NoText
  /\ empty' = empty \union {p}
  /\ UNCHANGED <<status, crawlVars, extract, waiting, putting, indexVars, calls,
                 crawl_q, extract_q, stats>>

HasContent(p) == Content!Extract(Html[p]) # NoText

\* The quality gate, and then the near-duplicate filter.
Refuse(p) ==
  /\ Leave(p) /\ HasContent(p)
  /\ IF Content!Good(Html[p]) THEN Count("deduped") ELSE Count("quality_dropped")
  /\ UNCHANGED <<status, crawlVars, extract, waiting, putting, empty, indexVars, calls,
                 crawl_q, extract_q>>

\* add_page for the links of a page.
Record(p) == calls' = Append(calls, p)

\* The page goes on to the index stage, at once when the queue has room; its
\* links are recorded after the put.
Admit(p) ==
  /\ Leave(p) /\ HasContent(p) /\ Content!Good(Html[p])
  /\ Count("extracted")
  /\ IF Full(extract_q)
     THEN putting' = putting \union {p} /\ UNCHANGED <<extract_q, calls>>
     ELSE extract_q' = Append(extract_q, p) /\ Record(p) /\ UNCHANGED putting
  /\ UNCHANGED <<status, crawlVars, extract, waiting, empty, indexVars, crawl_q>>

\* Mutation: links are not recorded after a put that had to wait.
PutUnrecorded(p) ==
  /\ p \in putting /\ ~Full(extract_q) /\ putting' = putting \ {p}
  /\ extract_q' = Append(extract_q, p)
  /\ UNCHANGED <<status, crawlVars, extract, waiting, extracting, empty, indexVars,
                 calls, crawl_q, stats>>

Put(p) ==
  /\ p \in putting /\ ~Full(extract_q) /\ putting' = putting \ {p}
  /\ extract_q' = Append(extract_q, p) /\ Record(p)
  /\ UNCHANGED <<status, crawlVars, extract, waiting, extracting, empty, indexVars,
                 crawl_q, stats>>

\* Mutation: the tasks are not gathered.
ExtractSentinelEarly ==
  /\ extract = "gather" /\ ~Full(extract_q)
  /\ extract_q' = Append(extract_q, None) /\ extract' = "over"
  /\ UNCHANGED <<status, crawlVars, waiting, extracting, putting, empty, indexVars,
                 calls, crawl_q, stats>>

\* Mutation: the sentinel is not passed on.
ExtractNoSentinel ==
  /\ extract = "gather" /\ waiting = <<>> /\ extracting \union putting = {}
  /\ extract' = "over"
  /\ UNCHANGED <<status, crawlVars, waiting, extracting, putting, empty, indexVars,
                 calls, crawl_q, extract_q, stats>>

\* gather(*tasks) has returned and there is room for the sentinel.
ExtractSentinel ==
  /\ extract = "gather" /\ waiting = <<>> /\ extracting \union putting = {}
  /\ ~Full(extract_q)
  /\ extract_q' = Append(extract_q, None) /\ extract' = "over"
  /\ UNCHANGED <<status, crawlVars, waiting, extracting, putting, empty, indexVars,
                 calls, crawl_q, stats>>

-----------------------------------------------------------------------------
(* Stage 3: index *)

AfterTake(pages) == IF Len(pages) >= EmbedBatch THEN "embedding" ELSE "loop"

\* Mutation: the remainder is dropped.
IndexTakeNoRemainder ==
  /\ Started /\ index = "loop" /\ extract_q # <<>>
  /\ extract_q' = Tail(extract_q)
  /\ IF Head(extract_q) = None
     THEN index' = "over" /\ UNCHANGED batch
     ELSE batch' = Append(batch, Head(extract_q)) /\ index' = AfterTake(batch')
  /\ UNCHANGED <<status, crawlVars, extractVars, calls, indexed, crawl_q, stats>>

\* A page joins the batch, and a full batch is embedded.  After None the
\* remainder is, if there is one.
IndexTake ==
  /\ Started /\ index = "loop" /\ extract_q # <<>>
  /\ extract_q' = Tail(extract_q)
  /\ IF Head(extract_q) = None
     THEN index' = (IF batch = <<>> THEN "over" ELSE "last") /\ UNCHANGED batch
     ELSE batch' = Append(batch, Head(extract_q)) /\ index' = AfterTake(batch')
  /\ UNCHANGED <<status, crawlVars, extractVars, calls, indexed, crawl_q, stats>>

\* The vectors are back: all pages of the batch are indexed.
Flush ==
  /\ index \in {"embedding", "last"}
  /\ index' = IF index = "last" THEN "over" ELSE "loop"
  /\ stats' = [stats EXCEPT !["indexed"] = @ + Len(batch)]
  /\ indexed' = indexed \union ToSet(batch) /\ batch' = <<>>
  /\ UNCHANGED <<status, crawlVars, extractVars, calls, crawl_q, extract_q>>

\* The embedder or the vector store raises: the stage ends, and run() raises
\* at once while the other stages go on.
FlushFails ==
  /\ index \in {"embedding", "last"} /\ index' = "failed" /\ status' = "failed"
  /\ UNCHANGED <<crawlVars, extractVars, batch, indexed, calls, crawl_q, extract_q, stats>>

\* All three stages have returned: PageRank is computed, dirty or not.
Return ==
  /\ status = "running" /\ crawl = "over" /\ extract = "over" /\ index = "over"
  /\ status' = "done" /\ calls' = Append(calls, RankCall)
  /\ UNCHANGED <<crawlVars, extractVars, indexVars, crawl_q, extract_q, stats>>

\* A search asks for the score of one of its results, at any time.
Boost ==
  /\ Cardinality({i \in DOMAIN calls : calls[i] = RankCall}) < MaxBoosts
  /\ calls' = Append(calls, RankCall)
  /\ UNCHANGED <<status, crawlVars, extractVars, indexVars, crawl_q, extract_q, stats>>

-----------------------------------------------------------------------------
CrawlStage   == (\E p \in Pages : CrawlNext(p)) \/ CrawlPut \/ CrawlEnds \/ CrawlSentinel
TaskStep     == \/ Acquire
                \/ \E p \in Pages : NoContent(p) \/ Refuse(p)
                \/ \E p \in Pages : Admit(p)
                \/ \E p \in Pages : Put(p)
ExtractStage == ExtractTake \/ ExtractSentinel
IndexStage   == IndexTake \/ Flush \/ FlushFails

JobStep == Begin \/ CrawlStage \/ ExtractStage \/ IndexStage \/ TaskStep \/ Return

Next == JobStep \/ Boost

Spec == Init /\ [][Next]_vars

\* The event loop runs something of the job while anything of it can run; which
\* stage that is, is left open.  That the crawler ends is an assumption here
\* (Pages bounds it); Crawler shows when it does.
Fairness == WF_vars(JobStep)

FairSpec == Spec /\ Fairness

-----------------------------------------------------------------------------
(* Correctness *)

\* Nothing follows None in a queue, and no stage ends before it has seen it:
\* a page is never left behind a sentinel.
Ended(q) == \E i \in DOMAIN q : q[i] = None
SentinelLast ==
  /\ \A i \in 1 .. Len(crawl_q) - 1 : crawl_q[i] # None
  /\ \A i \in 1 .. Len(extract_q) - 1 : extract_q[i] # None
  /\ Ended(crawl_q) => crawl = "over" /\ extract = "loop"
  /\ Ended(extract_q) => extract = "over" /\ index \in {"loop", "embedding", "failed"}
  /\ index \in {"last", "over"} => extract_q = <<>> /\ extract = "over"

\* The counters of a finished job add up: every page crawled had no content,
\* was refused at a gate or is indexed, and the links of every page that was
\* indexed, and of no other, are in the graph.
JobAddsUp ==
  status = "done" =>
    /\ stats["crawled"] = Cardinality(empty) + stats["quality_dropped"] + stats["deduped"]
                          + stats["extracted"]
    /\ stats["extracted"] = stats["indexed"] /\ stats["indexed"] = Cardinality(indexed)
    /\ recorded = indexed

\* The links of the pages recorded are the graph, whatever pages and searches came
\* in whatever order: each is there once and at both of its ends, none is there that
\* no page has, and no score outlives a link that changes it.
linksRecorded == UNION {{p} \X ToSet(Outlinks[p]) : p \in recorded}
GraphIsExact  == Links!Holds(graph, linksRecorded) /\ Links!UpToDate(graph)

\* At no time is a page indexed whose links are not recorded, whatever the queue
\* between the stages did, and what is recorded is the graph.
LinksFirst == indexed \union ToSet(batch) \subseteq recorded /\ GraphIsExact

\* So a score that a search takes, computed anew or not, is the rank over all links
\* recorded so far: no page added between two searches, or while a job ends, is
\* left out.
RanksAreCurrent == Links!Ranks(graph, linksRecorded)

\* Only pages that pass the gates come to be indexed, and the gates are what they
\* are for: checked on every content in Probes, not only on the pages at hand.
ProbesPass == Content!GatesAreSound(Probes)
IndexedIsGood ==
  /\ ProbesPass
  /\ \A p \in indexed \union ToSet(batch) \union putting :
       /\ Content!Extract(Html[p]).words >= MinWords
       /\ Content!Good(Html[p])

\* The stages never wait for each other for good, however small the queues: a
\* job that starts ends, in success or in failure.
JobEnds == <>(status \in {"done", "failed"})
=============================================================================
