# Axon Search in TLA+

A verification project for Axon Search, the hybrid search engine in `src/`:
modules that model its components, TLC runs that check them on small
instances, and theorems about the core that TLAPS checks for every instance.
Paths below are relative to the repository (`src/indexer/bm25.py` and so on).

## 1. Inventory

| Component | State it keeps | Operations | Hard behaviour | What makes it correct |
|---|---|---|---|---|
| BM25 leg, `indexer/bm25.py` | corpus, metadata, `_url_to_id`, `_deleted`, lazily built scorer, `_dirty` | add, search, delete, save, load | stale scorer, tombstones counted into the fetch size, re-indexed URLs | newest version per URL; the best live hits, never fewer than there are |
| Vector leg, `indexer/vector_store.py` | FAISS rows, `_doc_ids`, `_deleted` | add (with IVF training), search, delete, save, load | FAISS refuses a vector; row numbers and ids must agree | same documents, ids and tombstones as the BM25 leg |
| Dedup filter, `utils/dedup.py` | signatures seen in this process | `is_duplicate` | check and insertion are one call; shared by concurrent jobs | no two near-duplicates indexed; a refusal has a reason |
| Pipeline, `indexer/pipeline.py` | two bounded queues, extraction tasks, batch, counters | three stages per job | sentinels, back-pressure, a stage that raises while others run on | a job ends; counters add up; no page lost behind a sentinel |
| Crawler, `crawler/async_crawler.py` | frontier, `_seen`, tasks, result queue, `active` | crawl, worker, retry | one driver counting workers through their end markers | the count is exact; no URL twice; no result lost; the crawl ends |
| Robots cache, `crawler/robots.py` | parsed robots.txt per domain, locks | `is_allowed` | double-checked locking, expiry, fetch failures | one fetch serves all; the fallback is the documented one |
| Link graph, `crawler/link_graph.py` | ids, edges both ways, ranks, `_dirty` | add_page, compute_pagerank, scores | lazily recomputed ranks | edges agree both ways; ranks are never stale |
| Index API, `api/routes/index.py` | job registry | index one URL, batch job, delete, stats | background jobs, failure, cache invalidation | DELETE hides the URL; job status is honest |
| Search API, `api/routes/search.py`, `search/*` | search cache; metadata shared with the indices | search, suggest | stale cached answers; pagination window | answers reflect the index; pages do not overlap |
| Search cache, `utils/cache.py` | LRU-ordered entries with expiry | get, set, clear | eviction and expiry together | never an old value; keeps the fresh values of the keys used last |
| Rate limiter, `api/rate_limit.py` | admission times per client | dispatch | sliding window, rounding | at most N per window; honest Retry-After |
| Lifespan, `api/server.py` | three index files | load, save | kill during a save, restart | what was saved is what is loaded |
| Content extractor, quality scorer, `crawler/content_extractor.py`, `utils/quality_scorer.py` | none | extract, score | a cascade with its own thresholds before a gate with others; failures caught in different places | what passes is long enough and not made of links, by the text that is indexed |
| Query processor, `search/query_processor.py` | none | process | patterns that do not know of each other, read in one order and removed in another | no word lost, no operator left in the text, each operator holds of the results |
| Embedder, `indexer/embedder.py` | vectors by query text, oldest out first | encode_query, encode | room made for a vector that may never come; a search may look it up twice, for its normalised words and for its raw query | each vector is of the text it was asked for |
| API keys, metrics, `api/auth.py`, `api/metrics.py` | request counters | dispatch, record, render | the order of the middlewares; handlers that raise | every request is counted once, unknown keys are limited |
| Reranker, neural filter, `search/` | the filter's verdict in shared metadata | rerank, filter | metadata that outlives the query | order and similarity belong to the query |
| Text cleaner, configuration | none | | no caller; values only | |

The components talk in three ways. A **job** (POST /index/batch or /index/url)
runs a pipeline, which consumes the crawler as a generator and writes into the
indices, the filter and the graph, which all jobs share. A **request** reads
those and the cache in one uninterrupted step, since its handler does not await.
The **lifespan** loads and saves the indices around all of it. Everything runs
on one event loop; the only threads are the executor calls that extract a page
or embed a batch, and the code awaits them. So the atomic steps of the models
are the stretches of code between two awaits.

## 2. Modules

- `DocIndex` (core) models both index legs, the dedup filter, the jobs as far
  as they touch these, DELETE, save, kill and start. A job is `idle`, `running`,
  `draining` (the extraction stage has put its sentinel), `over`, or a `zombie`:
  `asyncio.gather` reports a failed index stage at once and cancels nothing, so
  extraction goes on and feeds the filter for a job that has failed.
  `Gate` is the stretch from the quality gate to the put; `Flush` is the loop
  of `_flush` after the embeddings have come back, which has no await and is
  one step; `EmbedFails` and `FlushRefused` are its failures. `Search` is the
  rebuild a search may do; what a search returns are the operators
  `LexicalHits` and `DenseHits`, with the ranking by score as a parameter.
  `OpenBM25` ... `WriteMeta` are the six points of a save between which a kill
  makes a difference: opening a file for writing empties it. `Crash` may fall at any
  of them; `disk.mixed` remembers, as history, that one has fallen where one file of a
  save was complete and a later one was not (`Mixing`), so that the files may be of two
  saves. `index_type` is
  chosen once from `IndexTypes`; an IVF index refuses vectors until it has seen
  `TrainAt` of them. Document text is a model value; `Near` says which texts
  MinHash takes for near duplicates, a reflexive and symmetric relation that need
  not be transitive. FAISS search is modelled as exact.
- `IndexStore` is what a leg promises: documents are appended and never
  move, tombstones only grow, a stop and a start return to the last save.
  `DocIndex` instantiates it twice (`Lexical`, `Dense`).
- `SearchService` models the API over one document space: POST /search with its
  cache, retrieval, neural filter, reranker and pagination; the two kinds of
  jobs (`Batches`, `UrlJobs`) as far as a search sees them, page by page; DELETE;
  a restart. A search is one step, because its handler has no await. The rank
  orders of the legs, of the cross-encoder and of the neural filter are constants
  per query (models are deterministic); scores of fusion are the code's, in exact
  integer units. `PageRank` gives each document's log score for every set of pages
  whose links are recorded; the module models *which* of these is used (`dirty`,
  `scores`). `Lex` and `Den` stand on what `SearchReturnsBest` of `DocIndex` checks:
  a leg returns the best live documents. The metadata filter looks at the dict of the
  leg that a result carries (`LegOf`), and the dicts of the legs have different keys, so
  `Passing` is a set for each leg. What raises on the way loses the response but not the
  scores and similarities written before (`SearchFails`). A response carries, as history, the
  documents and recorded pages there were when it was computed; expiry and
  eviction are `Forget`, at any time, so nothing depends on the TTL.
- `TTLCache` models that cache on its own, with the clock and the LRU order;
  `CacheSpec` is its promise: a lookup returns the last value set, unexpired and
  not cleared, or nothing.
- `SearchPath` puts that cache in front of the query processor and the embedder: a
  request is looked up under its raw query (`Ask`); on a miss the query is processed,
  its normalised words are encoded through the embedder's query cache and, with the
  neural filter on, the raw query through the same cache (`Answer`). Each of the two
  lookups may put a vector in and push another out, the second even the first's. The
  model may raise at either, after the cache has made room (`EncodeFails`), and
  anything else that the handler calls may raise before, between and after them, hits
  included (`SearchFails`): the vectors stay, no response is stored. Between `Ask` and
  its end only the clock moves (`busy`), since the handler has no await. A vector is the
  text that it encodes, so that equal texts share one, whichever lookup they come from.
- `QueryProcessor` is `process()` on tokens (`ParseOperators`, `StripOperators`,
  `Expand`, `DetectIntent`) together with `_apply_filters` (`Passes`). A token is
  what the patterns see in it: a sign, a field, the matched value and the rest. `Asked`
  says, without these operators, what a query asks of a document.
- `Crawler` models `AsyncCrawler.crawl`: the driver's program counter follows the
  loops of `_drain_frontier` and the tail, `tasks` are the workers. `Suspended`
  says when the driver has given the event loop away; workers move only then.
- `Politeness` opens up the workers' `_fetch_one`: the look into the robots cache,
  the lock per domain and the second look, the fetch and its three outcomes
  (rules, unread parser, allow-all), the bucket that sleeps under its lock, the
  request, tenacity's attempts. An `asyncio.Lock` is the queue of its holder and
  waiters. Clocks count ticks and saturate where the code no longer distinguishes
  values (`age` beyond the TTL, `since` at the delay), so time runs without bound.
- `Pipeline` models one job's three stages page by page. `waiting`, `extracting` and
  `putting` are its extraction tasks: those that wait for the semaphore (first come
  first served), those in the executor and those that wait for room in the extract
  queue, with the slot still theirs. What a page is comes from `Extraction`, where its
  links go from `LinkGraph`; `calls` is what was asked of the graph, by this job and by
  searches (`Boost`), and `graph` what the code makes of it.
- `LinkGraph` is `link_graph.py` as operators on one graph value: ids, edges at both
  ends, PageRank by rounds with dangling nodes and the break at convergence, the dirty
  flag, save and load. `RankOf` is the reference: PageRank of a set of links, written
  without ids, lists or flags. Ranks are integers; `Unit` is divisible often enough
  for the rounds to be exact (`UnitIsDivisible`): 207 360 000 is (60 · 2)^4, for three
  rounds among at most five nodes and a damping of a half.
- `Extraction` is the cascade of `content_extractor.py` and the score of
  `quality_scorer.py`, on the counts that they use. Signals and scores are in
  thousandths, rounded down, the sigmoid is a table; link densities are in
  ten-thousandths, as the code rounds them, so the hard gates are exact.
- `RateLimit` models the limiter with a clock in ticks, several per second,
  because Retry-After rounds to seconds.
- `Gateway` wraps it as `create_app` does: metrics around the limiter around the API
  keys around handlers that run concurrently, finish in any order or raise. An
  arrival is one step, as none of the three awaits before it decides.
- `Lists` is what the search code does with Python lists, for `DocIndex`,
  `SearchService`, `LinkGraph` and `QueryProcessor`: cut (`Best`), filter (`Only`),
  sort (`Sorted`), look up (`Rank`). The standard `SelectSeq` and `SortSeq` take
  operators, which the prover cannot handle; here a filter is a set and an order a set
  of pairs.
- `MC*` modules give the constants their values; each `.cfg` is one run.
- `DocIndexProofs`, `SearchServiceProofs`, `PipelineProofs` (which covers `LinkGraph`
  and `Extraction`), `CrawlerProofs`, `PolitenessProofs`, `GatewayProofs` (with
  `RateLimit`) and `TTLCacheProofs` (with `SearchPath` and `QueryProcessor`) hold the
  theorems about the modules of those names; `ListsProofs` has the lemmas about lists
  that they share.

Which module composes which: `DocIndex` stands on `IndexStore` (refinement, twice),
`TTLCache` on `CacheSpec` (refinement); both `DocIndex` and `SearchService` use
`Lists`. `Pipeline` composes `LinkGraph` and `Extraction`,
`Gateway` extends `RateLimit`, `SearchPath` extends `TTLCache` and
`QueryProcessor`. `SearchService` uses the promises of
`DocIndex` and `TTLCache` as its atomic steps, `DocIndex` those of `Pipeline` (a
batch follows its pages, the sentinel follows the last page), `Crawler` those of
`Politeness` (an attempt ends, with a page, without one or with an exception).

Definitions whose comment starts with "Mutation:" are faults a change of the
code could introduce; replacing the definition below them makes the named
property fail, which shows that the property can fail.

## 3. Runs

| Run | Bounds | States | Shows |
|---|---|---|---|
| `DocIndex` | 2 URLs, 3 texts (t1~t2~t3, t1 and t3 apart), 2 jobs, batches of 2, 3 documents over all lifetimes, HNSW and IVF, kills at every point; on files of two saves no job runs (`Mixed`) | 206 495 up to symmetry | types; `Aligned`; `UrlMapLatest`; `OncePerLifetime`; `SearchReturnsBest`; each leg implements `IndexStore` (`LexicalSpec`, `DenseSpec`); which kills leave files that no start can load, and that no other stop does (`BreaksOnlyInAWrite`) |
| `IvfRefused` | 1 job, IVF index too small to train | | violated: `SameSpace` |
| `DeleteOldVersion` | 1 job, HNSW | | violated: `DeleteHidesUrl` |
| `SearchService` | 3 documents, 2 queries, 4 requests (plain second page; the same with a metadata filter; reranked, with the neural filter; with the neural filter and a metadata filter on a key of one leg), a batch of two pages, one POST /index/url, 2 hits per leg, 1 cached response at a time, one deletion | 199 445 | a cached response hides what is deleted (`CacheHidesDeleted`), is the answer to its own request (`CachedIsAnswer`), lags only behind jobs that still run, failed or came by POST /index/url (`CacheLagsOnlyJobs`), and shows similarities to its own query (`SimsAreOfQuery`); every page is the right cut of the right order (`PageIsRight`) |
| `StaleAnswers` | same | | violated: `ReindexInvalidates` |
| `PagesTile` | same, requests with first pages, 3 hits per leg | | violated: `PagesTile` |
| `Crawler` | 4 pages in a cyclic graph, 2 seeds, 2 workers, depth 2, limit 3, 3 attempts, one page with an href that raises | 37 329 | the driver's count; completeness of a crawl that ends; no URL twice; results conserved; tasks end; a crawl that reaches its limit ends unless a worker died |
| `CrawlerHang` | 2 pages | | violated: `CrawlTerminates` |
| `Politeness` | 3 tasks of one domain, one of them disallowed, delay 2, TTL 2, 3 attempts | 192 915 | one fetch of robots.txt serves all (`RobotsFetchedOnce`); requests keep their distance (`Spaced`); every task ends (`EveryTaskEnds`) |
| `Pipeline` | 4 pages (found by the first extractor, by the second, too short, empty), queues of 1, 2 slots, batches of 2, 1 search in the middle, 3 rounds of PageRank with damping 1/2; some 3 000 contents for the gates | 58 874 | sentinels, counters, the links of what is indexed come first, and the graph is exactly the links recorded (`LinksFirst`); ranks are those of all links so far and the whole mass (`RanksAreCurrent`); only what passes sound gates is indexed (`IndexedIsGood`); the job ends |
| `RateLimit` | 2 keys, one of them accepted, an API path and an exempt one, limit 2, window of 4 ticks, 2 ticks per second, 9 ticks, 5 requests | 944 351 | the window slides and counts its admissions exactly (`LimitIsExact`), Retry-After is honest, and each request is counted, at work or raised (`EveryRequestAccounted`) |
| `TTLCache` | 3 keys in 2 slots, ttl 2, 4 ticks; with any client (2 values) and behind searches (3 requests, with and without the neural filter, room for 2 vectors); 211 queries of 14 tokens and 64 documents | 195 407 | the cache implements `CacheSpec` and keeps the keys used last (`KeepsRecent`); responses are of their own request, from the vectors of its own texts (`AnswersAreRight`); as an assumption of the module (`HonouredHolds`), operators select what was asked for |

Why the bounds are enough. Three documents are two batches, so a URL can be
indexed twice in a batch, across batches, across jobs and across a restart, with
a near-duplicate in flight in the other job. In `SearchService` the legs disagree
on the order, links turn the order around, one document is found by meaning only,
one moves from a leg's metadata to the other's when another document is missing, the
filters drop one document of each query, and two requests differ in their filter alone,
where keys could collide; `MaxHeld = 1` is no loss, since no property relates two entries
and no step reads more than one; what a second deletion could do is left to the proofs,
which have no such bound. The crawler's graph has a
cycle, a page with two parents and a duplicate link; more workers than two add no
new kind of overtaking. Three tasks of one domain are a holder of a lock, a waiter
and one that comes in later; domains share nothing, so one is enough; a delay and
a TTL of two ticks let an entry expire while tasks sleep. A queue of one makes
both producers wait for room and still lets a sentinel be misplaced; two good pages
fill a batch, or leave a remainder when one is refused, in either order of their
links; the two pages' links have a double link, a cycle, a page that is not crawled
and dangling ones. What the gates and the query operators do is checked on far
more inputs than the state machines use: every combination of lengths around 50 and
80 words, link densities around the limit, sentences, vocabulary and boilerplate, and
all queries of up to two tokens with one more appended. Nine ticks are more than two
windows, and five requests are more than two limits of one key. Three keys in two
slots force every eviction; with room for two vectors and up to two lookups in a
search, requests that share a text, or not, find, displace and replace each other's
vectors. A process that runs on files of two saves starts, searches, deletes, stops and
is killed in `DocIndex`, but its jobs, which would start from legs of different age, are
cut off: `Aligned` and `DenseSpec` say nothing of them, and the other properties are
proved without that bound (section 5). `Alike` lets TLC keep one of each set of states
that differ in the names of jobs or URLs, or in `t1` and `t3`: the model treats them
alike (`Near` is symmetric in `t1` and `t3`, nothing chooses among them), and the run
has no liveness property.

Runs whose system stops by itself (a finished crawl, a finished job, a clock at its
bound, a server whose files no longer load) say `CHECK_DEADLOCK FALSE`; the others
check for deadlock.

Fairness. `Crawler`: the event loop runs every ready callback (`WF` for the
driver), and each request has a timeout and each URL a bounded number of
attempts, so a task that can move again and again does (`SF`, because the driver
interrupts the workers: whenever it runs they cannot). No fairness forces a
fetch to succeed. `Politeness`: `WF` for each task, since every await of it ends
(locks are first come first served, requests time out, sleeps are finite), and
for the clock. `Pipeline`: `WF` for the job as a whole: while any of its stages
or tasks can move, the event loop moves one of them; which one is left open. Searches
get no fairness. That the crawler ends is assumed there by the bound, and is exactly
what `CrawlerHang` refutes.

## 4. Where the code and its word part

Five runs have a counterexample:

1. `CrawlerHang`: `_drain_frontier` collects results only after it has taken a
   URL from the frontier. When the frontier is empty while the last tasks run, it
   sleeps and looks again for ever, because `active` falls only where results are
   collected. Any crawl with fewer pages than `max_pages` hangs; its job stays
   `running`. The comment at `src/crawler/async_crawler.py:203-209` excludes it.
2. `IvfRefused`: an IVF index never trains, since the pipeline adds one vector at
   a time; the first page is in BM25 when FAISS refuses its vector, and the two
   legs no longer share a document space (`src/indexer/vector_store.py:32`).
3. `DeleteOldVersion`: DELETE hides only the newest version of a URL.
4. `StaleAnswers`: POST /index/url reports a page as indexed and leaves the cache
   as it is, though README.md:22 of the repository says reindexing invalidates it.
   A batch that fails after a flush leaves it, too. `CacheLagsOnlyJobs`
   shows that nothing else does.
5. `PagesTile`: the window is cut before the neural filter, and `offset` counts
   after it, so documents fall between two pages. `PageIsRight` shows that each
   page by itself, and all pages of an unfiltered list, are right.

Disagreements met while modelling for which there is no run:

- "Persist index across container restarts" (`docker-compose.yml:14`, with a restart
  policy at `:28`) does not hold of a process that is killed while it saves, since the
  files are overwritten in place (`src/api/server.py:124`, `src/indexer/bm25.py:240`,
  `src/indexer/vector_store.py:200`). The disagreement is part of a property:
  `BreaksOnlyInAWrite` is an equivalence. A kill while `bm25.pkl`, `faiss.index` or
  `meta.pkl` is being written, or in the first save ever between the last two, always
  leaves files on which every later start raises; no other stop ever does.
- A kill between two files leaves some of this save and some of the one before. They
  load, and the legs then differ ("so the two indices share the same document space",
  `src/indexer/vector_store.py:32`). `disk.mixed` marks these states: `Aligned` and
  `DenseSpec` hold up to them and promise nothing there, `LexicalSpec` holds throughout.
- A text counts as seen before it is indexed (`src/utils/dedup.py:55`, "of an
  already-indexed doc"); a failed batch makes its pages unindexable until a restart.
- An href on which `urljoin` raises kills a worker without its end marker
  (`src/crawler/async_crawler.py:216`); `Crawler` has the step (`LinkError`).
- Every seed goes onto the frontier without a look at `_seen`
  (`src/crawler/async_crawler.py:183`), and POST /index/batch hands over the list it
  got, so a URL that is named twice is fetched and delivered twice, against header line
  7. That there is no other way is the theorem `OnlySeedsTwice`. With several workers
  pages do not arrive breadth-first (`:4`).
- The cache may push out a fresh entry while it keeps an expired one that was used
  later (`src/utils/cache.py:60-61`, against line 23, "LRU among *unexpired* entries").
  `Evict` follows the code; `KeepsRecent` is what is left of the promise, that the keys
  used last are kept, and does not exclude this.
- A robots.txt answered with another status than 200 denies everything for 24
  hours (`src/crawler/robots.py:115`), though line 6 promises allow-all on failure;
  Crawl-Delay is parsed and never used (`:7`).
- `neural_sim` of an earlier query shows in later answers without the filter, since
  it lives in the metadata of the index, and is saved with it.
- With reranking the candidates are five times the window, so two pages of one
  list are ranked from different candidate sets.
- `max_pages` can be exceeded by the whole frontier, which becomes tasks before the
  first result is collected (`src/crawler/async_crawler.py:233-256`).
- The link graph is not saved: after a restart PageRank starts from nothing.
- `site:` keeps its capitals while the URL is compared in lower case
  (`src/search/hybrid_retriever.py:203`), so a site with a capital has no results;
  `Passes` follows the code.
- `filetype:`, `lang:`, `after:` and `before:` are parsed and stripped, and nothing
  filters by them. All filters apply after the candidates are cut.
- A sign before a field is read twice: `-site:x` selects site x, excludes the word
  "site" and leaves a "-" in the text (`src/search/query_processor.py:147`, `:161`);
  `Signed` and `Rest` follow the code, and `Honoured` is about whole operators.
- A request whose handler raises is in no counter (`src/api/metrics.py:85`, "Times
  every request and records it" at 77), and a request that is turned away is counted
  under its raw path (`:90`, against the comment at 87-88). `Gateway` has both.
- The query cache drops its oldest vector, used or not (`src/indexer/embedder.py:136`;
  line 10 says LRU), and does so before a model that may raise.
- Quality settings of the configuration are not passed to the scorer
  (`src/api/server.py:99`), which uses its own defaults.
- Suggestions are ranked by occurrences (`src/indexer/bm25.py:120`), in deleted
  documents too, where `src/api/routes/search.py:166` says document frequency.

## 5. Proofs

`DocIndexProofs` proves, for any finite or infinite sets of URLs, texts and
jobs, any batch size and any number of documents:

- `TypeCorrect`: `Spec => []TypeOK`, one lemma per operator that builds
  sequences.
- `UrlMapCorrect`: `Spec => []UrlMapLatest`. The invariant is not inductive alone:
  a start takes both documents and map from `bm25.pkl`, so it is strengthened by
  the same statement about the file (`DiskMapLatest`).
- `AlignedCorrect`: `Spec => []Aligned`, wherever kills fall. That the index is not IVF
  is part of `Aligned`, and `IvfRefused` shows it has to be; so is that no kill has left
  files of two saves. `AlignInv` adds that files which a start can load agree with each
  other: a kill inside the writing of one leaves a server that no longer starts, and
  one between two sets `disk.mixed` for good (`CrashDisk`, `MixedStays`). It is proved
  for every index that takes all vectors (`Takes`), an IVF index that trains on its
  first one included.
- `BreaksOnlyInAWriteCorrect`: `Spec => BreaksOnlyInAWrite`, both ways. `SnapInv` says of
  each phase of a save which file is torn and which hold what is in memory;
  `ExposedBreaks` is the direction that `docker-compose.yml:14` forgets.
- `OncePerLifetimeCorrect`: `Spec => []OncePerLifetime`. `DedupInv` adds the pages
  that are queued: what is indexed or queued, in whichever job, is pairwise
  apart and remembered by the filter. It uses that `Near` is symmetric and
  nowhere that it is transitive.
- `LexicalCorrect`, `DenseCorrect`: `Spec => LexicalSpec` and `Spec => DenseSpec`, the
  refinements of `IndexStore`. The phases of a save are one `Save` of the abstraction:
  for the lexical leg when `bm25.pkl` is complete, so that no kill can break it, for the
  dense leg when `faiss.index` is, and `meta.pkl` must follow; `DenseSpec` allows any step
  that leaves files of two saves, and any after it. That a tombstone names a
  document that is there comes from `UrlMapLatest` in the lexical leg. In the dense leg
  it comes from `AlignInv`, or from `NoRows`: an IVF index that refuses its first
  vector stays empty for good.
- `SearchReturnsBestCorrect`: `Spec => []SearchReturnsBest`: each leg returns the first k
  documents of its own ranking that are not hidden, for every k, ranking and set of
  tombstones (the dense one on files of one save). Two things carry it. `ScoreInv`
  says that a scorer that is not marked stale covers all documents and that tombstones
  name documents; and `OverFetch` of `ListsProofs`, that k more hits than there are
  tombstones always contain the first k live ones.

None of these has a hypothesis on `CrashPoints`: kills fall anywhere.
The assumptions are those of `DocIndex` (`NearAssumption`, `ConstantAssumption`).
TLC checked the inductive invariants before they were proved.

`SearchServiceProofs` proves, for any documents, queries, requests and jobs:

- `CacheLagsCorrect`: `Spec => []CacheLagsOnlyJobs`, from no assumption on the
  constants. `LagInv` only adds that cache and registry are total. The step that
  carries it is `BatchDone`: `_run_batch_job` marks the job done and clears the
  cache with no await in between, and when it does not clear it there was nothing
  to see, since the batch indexed no page and `Settled` (a pipeline returns after
  its extraction tasks) leaves none of its links unindexed.
- `TypeCorrect`, `CacheHidesDeletedCorrect`, `CachedIsAnswerCorrect` and
  `SimsAreOfQueryCorrect`: `Spec => []` of `TypeOK`, `CacheHidesDeleted`, `CachedIsAnswer`
  and `SimsAreOfQuery`, from `ServiceAssumption`. `ServiceInv` is their conjunction with
  one more part, that PageRank scores are those of the graph unless they are marked
  stale. A search stores the page over the documents and links there are
  (`SearchAnswers`), because what it does to the scores on its way is what `Hits`
  presumes (`RanksOfSearch`), or it finds nothing and leaves them alone
  (`NothingFound`); one that raises stores nothing and leaves scores that are those of
  the graph (`SearchFailsStep`). DELETE, a batch that is done and a restart empty the cache; every
  other step leaves what a cached response was computed from as it is remembered.
- `PageIsRightCorrect`: `Spec => []PageIsRight`. This one is about the operators: for any
  live documents, links and request, a page has no document twice, none that is
  deleted, filtered out or dissimilar, and without a second stage it is the cut of one
  order of all candidates (`WholeIs`). That a document's place in a sorted list is the
  number of those that come before it (`CountIs`) makes the page independent of how the
  list was sorted. It uses that the cross-encoder scores every document
  (`ToSet(Cross[q]) = Docs`) and that no ranking has a document twice.

`PipelineProofs` proves, for any pages, links and contents, any sizes of queue and
batch and any number of extraction workers:

- `SentinelLastCorrect`: `Spec => []SentinelLast`. `SentinelInv` adds what the
  steps need: a queue holds `None` only at its end; once the crawl queue holds it
  or has given it out, the crawl is over for good; and `ExtractSentinel` leaves no
  task behind that could put a page after it (`TaskSide`).
- `LinksFirstCorrect`: `Spec => []LinksFirst`. `LinksInv` starts the promise at the
  put: whatever is in `extract_q`, in the batch or indexed has its links recorded
  (`RecordedFirst`). It holds because `add_page` follows the put with no await in
  between. That what is recorded is the graph is `GraphIsExactCorrect`.
- `JobAddsUpCorrect`: `Spec => []JobAddsUp`. What a finished job promises says nothing
  of a running one, so `PlaceInv` says where the pages are at every moment: each page
  crawled is at one of nine places at most (the crawler's hand, a queue, a task, the
  batch, the index, ...), once in its queue, and every counter is a sum of the
  numbers of pages at the places (`Counted`). Each action moves one page from a place
  to another (`MoveSafe`, `EarlyCounted`, `LateCounted`) or none (`StaySafe`); only
  `Flush` moves a whole batch, and adds the batch's length to a counter: that is the
  number of its pages because none is in it twice. At the end `SentinelInv` says that
  all places but two are empty.
- `TypeCorrect`: `Spec => []TypeOK`. What carries it is that the tasks, those that wait
  for room in the queue included, never hold more slots than the semaphore has
  (`SlotsStep`), and that the link graph names no node that it does not have.
- `GraphIsExactCorrect`: `Spec => []GraphIsExact`, a conjunct of `LinksFirst`. `Exact` says
  of a graph and a set of links that the one is the other: a node for each end of a
  link, each link once and at both ends, and scores that are marked stale or are what
  would be computed now. A new node (`NodeFits`), a new edge (`EdgeFits`), a link that is
  there already (`AddLinkExact`), a whole page (`AddPageExact`) and a computation of the
  ranks (`RefreshedExact`) keep it, so every list of calls does (`GraphExact`), by
  induction over its length.
- `RanksAreCurrentCorrect`: `Spec => []RanksAreCurrent`, for any links, damping, number of
  rounds and tolerance. `Exact` leaves three facts about one graph, which `ExactRanks`
  puts together. PageRank over ids and lists is `RankOf` over nodes and links
  (`RanksAlike`): what `InSum` and `DanglingSum` add up for an id is what the surfers on
  all nodes bring to its node (`InSumIs`, `DanglingSumIs`, `FlowsAre`), so a round is a
  round (`RoundAlike`) and changes as much (`DeltaAlike`), and both sides stop at the
  same one. No round loses mass (`SurfWhole`): the surfers on a node all go somewhere
  (`FlowOut`), so the table of who brings what to whom adds up to the whole by its rows,
  and by its columns as well. A graph that is saved and loaded again lists the same
  links (`ReloadedListed`), so its ranks are the same `RankOf`.
- `IndexedIsGoodCorrect`: `Spec => []IndexedIsGood`. `GoodInv` says of every page that
  is recorded or waits in a put that it has passed both gates: only `Admit` adds one,
  and by `LinksInv` what is in a batch or indexed is recorded.
- `GatesSound`, which says what the gates are worth, for any texts, pages, scores of
  words and thresholds that satisfy `ExtractionAssumption`: the cascade of extractors
  gives a text with words or has a reason not to (`ExtractIs`), the score is between 0
  and 1 and falls with the link density (`ScoreFalls`), and the density, rounded as the
  code rounds it, bounds the words in links and grows with them (`DensityIs`,
  `DensityGrows`). The sum over the signals is unrolled: `TotalExists` gives the
  function that the definition chooses, `TotalIs` its last value.

`SentinelLastCorrect`, `RecordedFirst` and `JobAddsUpCorrect` use of
`PipelineAssumption` only `None \notin Pages` and `RankCall \notin Pages`; none uses
fairness, or that the queues are bounded. `RanksAreCurrentCorrect` alone uses
`UnitAssumption`: the code has floating point where the model has parts of `Unit`, and
what would be rounding there is a remainder here. The assumption says that no division
in any round has one: `SharedOut` and `SurfWhole` show that a part of a part is again
whole (`PartsAre`), and only the sum of the ranks depends on it.

`CrawlerProofs` proves, for any link graph, seeds, depth, page limit and number of
workers, from `CrawlAssumption`:

- `TypeCorrect`, `ActiveCountCorrect`, `ResultsConservedCorrect`,
  `EndIsCompleteCorrect`: `Spec => []` of `TypeOK`, `ActiveCount`, `ResultsConserved`
  and `EndIsComplete`. `CrawlInv` is their conjunction with what the steps need: a
  task has its page only when it has ended (`GotAtTheEnd`), what was seen has a task or
  is on the frontier (`SeenAre`), and once draining has ended below the limit nothing
  is left to start or running (`TailWaits`). `ResultsConserved` says of the yielded
  pages followed by the queue that only `None` occurs twice in it, which survives the
  hand-over from the draining loop to the tail because both take from the head.
- `OnlySeedsTwice`: a URL has two tasks only if it was named twice among the seeds.
  `OrderInv` looks at the URLs of tasks and frontier as one sequence, in which
  `_extract_and_enqueue` appends only what is not in it. That rests on `NewLinksAre`,
  which says what the fold over a page's links collects, for every list of links: by
  taking the least turn of the fold at which it would fail.
- `FetchedOnceCorrect`: `Spec => []FetchedOnce` if no seed is named twice. The
  hypothesis is needed: see the seeds in section 4.

`PolitenessProofs` proves, for any tasks, domains, delay, TTL and number of attempts,
from `PolitenessAssumption`:

- `TypeCorrect`: `Spec => []TypeOK`.
- `RobotsFetchedOnceCorrect`, `SpacedCorrect`: the action properties. `PoliteInv` adds
  to the types that who fetches robots.txt is at the head of its lock's queue
  (`FetcherHolds`), and that who sleeps in a bucket is at the head of that queue and
  will not wake before the delay is over (`SleeperHolds`). Mutual exclusion then is
  that a queue has one head; `JoinKeepsHolder` and `LeaveKeepsOthers` say what a
  task's coming and going does to it.

`GatewayProofs` proves, for any keys and paths (finitely many), any limit, window and
number of requests in flight, from `RateAssumption` and `GatewayAssumption`:

- `TypeCorrect`: `Spec => []GatewayTypeOK`, with the bound of every deque.
- `LimitIsExactCorrect`, `RetryAfterIsEnoughCorrect`: `WindowOK` says that the deque of
  a key is a suffix of all its admissions, that what it misses is too old to count, and
  that admissions `Limit` apart are more than a window apart. The first two make the
  deque's length the number of admissions that count; the third is why no window
  holds more.
- `EveryRequestAccountedCorrect`: the sum over the counters is a fold over a function;
  `SumGrows` shows by induction over its turns that one more in one counter is one more
  in the sum. The rest is one equation per action.

`TTLCacheProofs` proves, for any keys and values, any size (0 too) and any time to live
(0 and less too), from `CacheAssumption`:

- `TypeCorrect`: `Spec => []TypeOK`, with the bound on the entries and one per key.
- `NeverLiesCorrect`: `Spec => NeverLies`, the refinement of `CacheSpec`: every
  step is a step of it or leaves its variables alone. The invariant part for it
  is `Stored`: an entry is the last value set under its key, and its end is its time
  plus `Ttl`.
- `KeepsRecentCorrect`: `Spec => []KeepsRecent`. `Linked` says that the entries are in
  the order of the history of use; `FewAfter` counts, by the pigeonhole principle, that
  an entry with `MaxSize` others behind it is not among the `MaxSize` keys used last, so
  the eviction loop may take it (`StoreEntry`). `DropKeeps` says what deleting from an
  OrderedDict leaves, for entries and history alike.
- `AnswersAreRightCorrect`: `PathSpec => []AnswersAreRight`, from `PathAssumption`, for any
  requests and any size of the embedder's cache. `PathInv` says of both caches what they
  hold: every response is its own request's (`OwnEntries`), every vector is of the text
  under whose key it is, none is there twice and no more than fit (`OwnVectors`). A
  lookup for any text keeps it so (`AfterIs`) and gives the vector of that text, whether
  another lookup left it there or not (`OwnVector`), so both lookups of a search do, one
  after the other (`LookupsAre`); a failure at either leaves only more room (`RoomIs`),
  and one anywhere else what the lookups before it have left. A response is the request's
  own because it is made from those two vectors (`OwnValues`).
- `HonouredCorrect`: `Honoured`, the promise of the query processor, which TLC evaluates
  as the assumption `HonouredHolds` of `MCTTLCache`; proved for any set of queries, of
  documents and of words, from
  `QueryAssumption` and the shape of tokens that `PathAssumption` states. `WordsStay` says
  that what is left of a query is its words (filtering commutes with a change of each item,
  `OnlyMaps`), `PassesAsked` that the parsed operators let through what was asked for,
  `MoreIsStricter` that one more token lets in no other document, and `NamesAre` and
  `ExpandIs`, by induction along the loops of `_expand`, that synonyms are new, each once
  and within their bound.

None of these uses fairness or the bounds on clocks and requests of the runs.

`ListsProofs` is about the operations of `Lists`, for lists of any length: `OnlyIs`,
`OnlyOrder` (what filtering keeps, and in which order), `OnlyMaps`, `BestIs`, `SortIs`
(there is a sorted list, and it holds the same), `RankIs`, `CountIs`, `OverFetch`. Induction is
`SetInduction`: a set of numbers that has 0 and with each number the next has all. A
recursive function is dealt with in three steps, here as in `PipelineProofs` and
`TTLCacheProofs`: there is a function that meets its equation (`KeptExists`, or
`StepsExist` for any step), the definition's choice is one (`OnlyKept`), and what holds at
each of its steps holds at the last.

Its second half is about `SumFunctionOnSet` of the community modules, over any finite set
of integers. The fold takes its elements in an order that nobody knows; `SumsExist` and
`SumsAgree` say that there is such a fold and that it depends on the terms alone, and
`SumTakesAny` that any element may be taken first. The rest follows by induction over
finite sets (`SmallerFirst`): terms that sit elsewhere (`SumMoved`), sums of sums
(`SumPlus`), disjoint unions (`SumApart`), tables by rows and by columns (`SumSwaps`).

Folds of the community modules unfold in the prover, and induction is done by hand
with a set of numbers or a least counterexample (`NatLessThanWellFounded`, `WFMin`), so
what they compute can be proved for every input. Left to TLC are liveness and fairness,
which the prover does not treat: `WorkersEnd`, `LimitEndsCrawl`, `EveryTaskEnds`, `JobEnds`.

## 6. Not modelled

HTML parsing, the splitting of a query into tokens, WordNet and the neural models
are external or data: what they find is a constant of the modules. Snippets are
layout. `suggest` with the vocabulary only reads counters that grow with the corpus
and are saved with it. Latency sums and the text format of `/metrics` are left out. The
numbers PageRank computes are floating point; `LinkGraph` computes them exactly on
small graphs, so rounding is not seen. No module imports `utils/text_cleaner.py`;
`add_batch`, `to_gpu`, `crawl_delay`, `score_pairs`, `top_k`, `report` and
`DedupFilter.reset` have no caller. FAISS approximates; `DenseHits` does not. Several
worker processes (`api_workers`) share nothing but the files: limits, caches and
counters are per process, and the models are of one.

## 7. Plan

Modelled: every component with state. What is left:

1. `suggest()` with the vocabulary in `DocIndex`.
2. Two crawlers on one domain, each with its own buckets and robots cache.
