---------------------------- MODULE SearchService ----------------------------
(***************************************************************************)
(* POST /search over an index that jobs, deletes and restarts change: the  *)
(* result cache, hybrid retrieval with its PageRank boost, the neural      *)
(* filter, reranking and pagination; POST /index/batch and POST /index/url *)
(* as far as they change what a search sees or what the cache holds.       *)
(*                                                                         *)
(* The search handler has no await: a search is one step.  The two legs    *)
(* return the best live documents, which DocIndex checks of them.          *)
(***************************************************************************)
EXTENDS Lists

CONSTANTS
  Docs,         \* documents the jobs may index, each with a URL of its own
  Queries,
  NoQuery,      \* no similarity was ever written
  Lex, Den,     \* per query, the documents that match, best first, in each leg
  Close,        \* per query, the documents the neural filter lets through
  Cross,        \* per query, all documents in the order of the cross-encoder
  PageRank,     \* log score of each document, for each set of recorded pages
  Requests,     \* the search requests clients send
  Batches,      \* POST /index/batch jobs
  UrlJobs,      \* POST /index/url requests
  JobDocs,      \* the documents each of them finds
  CandidateK,   \* hits taken from each leg
  MaxHeld       \* bound: responses in the cache at a time; more need a Forget first

Jobs    == Batches \union UrlJobs
Legs    == {"bm25", "vector"}

\* filter: the documents it lets through, by the metadata dict of each leg.
Request == [query : Queries, top_k : Nat \ {0}, offset : Nat, rerank : BOOLEAN,
            neural : BOOLEAN, filter : [Legs -> SUBSET Docs]]

ASSUME ServiceAssumption ==
  /\ NoQuery \notin Queries
  /\ Lex \in [Queries -> Seq(Docs)] /\ Den \in [Queries -> Seq(Docs)]
  /\ Close \in [Queries -> SUBSET Docs] /\ Cross \in [Queries -> Seq(Docs)]
  /\ \A q \in Queries : IsInjective(Lex[q]) /\ IsInjective(Den[q]) /\ IsInjective(Cross[q])
  /\ \A q \in Queries : ToSet(Cross[q]) = Docs
  /\ PageRank \in [SUBSET Docs -> [Docs -> Nat]]
  /\ PageRank[{}] = [d \in Docs |-> 0]
  /\ Requests \subseteq Request
  /\ JobDocs \in [Jobs -> SUBSET Docs] /\ Batches \intersect UrlJobs = {}
  /\ \A i, j \in Jobs : i # j => JobDocs[i] \intersect JobDocs[j] = {}
  /\ CandidateK \in Nat \ {0} /\ MaxHeld \in Nat \ {0}

VARIABLES
  indexed, deleted,   \* documents in both legs; those with a tombstone
  graph,              \* LinkGraph: pages whose outlinks are recorded
  dirty, scores,      \* its flag, and the graph its scores were computed on
  neural_sim,         \* per leg and document, the query whose similarity its metadata holds
  cache,              \* per key, the response held
  job                 \* the state of each job

vars  == <<indexed, deleted, graph, dirty, scores, neural_sim, cache, job>>
index == <<indexed, deleted>>
links == <<graph, dirty, scores>>

NoEntry == [items |-> <<>>, docs |-> {}, pages |-> {}, held |-> FALSE]
NoSims  == [l \in Legs |-> [d \in Docs |-> NoQuery]]

\* A response; docs and pages are history: what the search had to work with.
Response == [items : Seq([doc : Docs, sim : Queries \union {NoQuery}]),
             docs : SUBSET Docs, pages : SUBSET Docs, held : BOOLEAN]
\* "over": of an earlier process.
JobStates == {"new", "pending", "running", "done", "failed", "over"}

TypeOK ==
  /\ indexed \subseteq Docs /\ deleted \subseteq indexed
  /\ graph \subseteq Docs /\ dirty \in BOOLEAN /\ scores \subseteq graph
  /\ neural_sim \in [Legs -> [Docs -> Queries \union {NoQuery}]]
  /\ cache \in [Requests -> Response]
  /\ job \in [Jobs -> JobStates]

Empty == [r \in Requests |-> NoEntry]

Init ==
  /\ indexed = {} /\ deleted = {}
  /\ graph = {} /\ dirty = TRUE /\ scores = {}
  /\ neural_sim = NoSims
  /\ cache = Empty
  /\ job = [j \in Jobs |-> "new"]

-----------------------------------------------------------------------------
(* Retrieval *)

\* What a leg returns of its ranking over a set of live documents.
Hits(ranking, live) == Best(CandidateK, Only(ranking, live))

\* 1 / (60 + rank), in units in which the first ranks are exact.
Unit == 61 * 62 * 63
Share(hits, d) == IF d \in ToSet(hits) THEN Unit \div (60 + Rank(hits, d)) ELSE 0

\* rrf_score after the boost, pagerank_alpha = 0.1, in tenths of a unit.
Score(lex, den, pages, d) ==
  (Share(lex, d) + Share(den, d)) * (10 + PageRank[pages][d])

\* The documents of both legs, in the order fusion meets them.
Fused(q, live) ==
  LET lex == Hits(Lex[q], live)
  IN lex \o Only(Hits(Den[q], live), Docs \ ToSet(lex))

\* The leg whose metadata dict a result carries, which the filters read and the
\* neural filter writes: bm25's, for what bm25 found.
LegOf(r, d, live) == IF d \in ToSet(Hits(Lex[r.query], live)) THEN "bm25" ELSE "vector"
Passing(r, live) ==
  LET lexical == ToSet(Hits(Lex[r.query], live))
  IN (r.filter["bm25"] \intersect lexical) \union (r.filter["vector"] \ lexical)

Filtered(r, live) == Only(Fused(r.query, live), Passing(r, live))

\* list.sort(reverse=True) is stable: equal scores stay in the order of fusion.
SortFused(r, live, pages, docs) ==
  LET lex == Hits(Lex[r.query], live)
      den == Hits(Den[r.query], live)
      score(d) == Score(lex, den, pages, d)
      before   == {p \in ToSet(docs) \X ToSet(docs) :
                     \/ score(p[1]) > score(p[2])
                     \/ score(p[1]) = score(p[2]) /\ Rank(docs, p[1]) < Rank(docs, p[2])}
  IN Sorted(docs, before)

Window(r) == r.offset + r.top_k
Wanted(r) == IF r.rerank THEN Window(r) * 5 ELSE Window(r)

\* Mutation: the list is cut before it is filtered.
RetrieveCutFirst(r, live, pages) ==
  Only(Best(Wanted(r), SortFused(r, live, pages, Fused(r.query, live))), Passing(r, live))

Retrieve(r, live, pages) ==
  Best(Wanted(r), SortFused(r, live, pages, Filtered(r, live)))

-----------------------------------------------------------------------------
(* The search handler *)

NeuralFilter(r, candidates) ==
  IF r.neural THEN Only(candidates, Close[r.query]) ELSE candidates

SortCross(q, docs) ==
  Sorted(docs, {p \in ToSet(docs) \X ToSet(docs) : Rank(Cross[q], p[1]) < Rank(Cross[q], p[2])})

Rerank(r, candidates) ==
  Best(Window(r), IF r.rerank THEN SortCross(r.query, candidates) ELSE candidates)

\* The documents on the page a request asks for.
Page(r, live, pages) ==
  LET window == Rerank(r, NeuralFilter(r, Retrieve(r, live, pages)))
  IN IF r.offset < Len(window) THEN SubSeq(window, r.offset + 1, Len(window)) ELSE <<>>

Live == indexed \ deleted

\* Mutation: a similarity already present is kept.
FilteredSimsOnce(r, pages) ==
  LET seen == ToSet(Retrieve(r, Live, pages))
  IN [l \in Legs |-> [d \in Docs |->
        IF r.neural /\ d \in seen /\ LegOf(r, d, Live) = l /\ neural_sim[l][d] = NoQuery
        THEN r.query ELSE neural_sim[l][d]]]

\* The filter writes the similarity of every candidate into its metadata.
FilteredSims(r, pages) ==
  LET seen == ToSet(Retrieve(r, Live, pages))
  IN [l \in Legs |-> [d \in Docs |->
        IF r.neural /\ d \in seen /\ LegOf(r, d, Live) = l THEN r.query ELSE neural_sim[l][d]]]

\* Mutation: the metadata filters are no part of the key.
KeyNoFilter(r) == CHOOSE k \in Requests : r = [k EXCEPT !.filter = r.filter]

\* make_key: every part of the request counts.
Key(r) == r

\* PageRank is computed when a result is boosted and links were added since;
\* it is not when there are no links at all.
RankedPages(r) == IF dirty /\ Filtered(r, Live) # <<>> THEN graph ELSE scores
StillDirty(r)  == dirty /\ ~(Filtered(r, Live) # <<>> /\ graph # {})

\* A search that misses the cache.
Search(r) ==
  /\ ~cache[Key(r)].held /\ Cardinality({k \in Requests : cache[k].held}) < MaxHeld
  /\ scores' = RankedPages(r) /\ dirty' = StillDirty(r)
  /\ neural_sim' = FilteredSims(r, scores')
  /\ LET docs  == Page(r, Live, scores')
         items == [i \in DOMAIN docs |-> [doc |-> docs[i],
                     sim |-> neural_sim'[LegOf(r, docs[i], Live)][docs[i]]]]
     IN cache' = [cache EXCEPT ![Key(r)] =
                    [items |-> items, docs |-> indexed, pages |-> graph, held |-> TRUE]]
  /\ UNCHANGED <<index, graph, job>>

\* A search that raises on its way (the reranker, an encoding): no response, but
\* the ranks it had computed and the similarities it had written stay.
SearchFails(r) ==
  /\ ~cache[Key(r)].held /\ Cardinality({k \in Requests : cache[k].held}) < MaxHeld
  /\ scores' = RankedPages(r) /\ dirty' = StillDirty(r)
  /\ neural_sim' \in {neural_sim, FilteredSims(r, scores')}
  /\ UNCHANGED <<index, graph, cache, job>>

\* An entry expires or is evicted.
Forget(r) ==
  /\ cache[r].held
  /\ cache' = [cache EXCEPT ![r] = NoEntry]
  /\ UNCHANGED <<index, links, neural_sim, job>>

-----------------------------------------------------------------------------
(* Indexing and deleting *)

\* POST /index/batch registers the job and answers.
Queue(j) ==
  /\ j \in Batches /\ job[j] = "new"
  /\ job' = [job EXCEPT ![j] = "pending"]
  /\ UNCHANGED <<index, links, neural_sim, cache>>

\* The background task of a batch begins, or POST /index/url does.
StartJob(j) ==
  /\ job[j] = (IF j \in Batches THEN "pending" ELSE "new")
  /\ job' = [job EXCEPT ![j] = "running"]
  /\ UNCHANGED <<index, links, neural_sim, cache>>

\* The outlinks of a page are recorded.  Extraction outlives a failed job.
RecordLinks(j, d) ==
  /\ job[j] \in {"running", "failed"} /\ d \in JobDocs[j] \ graph
  /\ graph' = graph \union {d} /\ dirty' = TRUE
  /\ UNCHANGED <<index, scores, neural_sim, cache, job>>

\* The page reaches both legs, before or after its links are recorded.
IndexDoc(j, d) ==
  /\ job[j] = "running" /\ d \in JobDocs[j] \ indexed
  /\ indexed' = indexed \union {d}
  /\ UNCHANGED <<deleted, links, neural_sim, cache, job>>

\* Every page of the job that was admitted is indexed and its links recorded.
Settled(j) == indexed \intersect JobDocs[j] = graph \intersect JobDocs[j]

\* Mutation: the cache is left alone.
BatchDoneKeepsCache(j) ==
  /\ j \in Batches /\ job[j] = "running" /\ Settled(j)
  /\ job' = [job EXCEPT ![j] = "done"]
  /\ UNCHANGED <<index, links, neural_sim, cache>>

\* A batch that indexed something clears the cache in the same step.
BatchDone(j) ==
  /\ j \in Batches /\ job[j] = "running" /\ Settled(j)
  /\ job' = [job EXCEPT ![j] = "done"]
  /\ cache' = IF indexed \intersect JobDocs[j] # {} THEN Empty ELSE cache
  /\ UNCHANGED <<index, links, neural_sim>>

\* POST /index/url registers its job when it is done, and leaves the cache.
UrlDone(j) ==
  /\ j \in UrlJobs /\ job[j] = "running" /\ Settled(j)
  /\ job' = [job EXCEPT ![j] = "done"]
  /\ UNCHANGED <<index, links, neural_sim, cache>>

\* The pipeline raises: a batch is marked, POST /index/url answers 500.
JobFails(j) ==
  /\ job[j] = "running"
  /\ job' = [job EXCEPT ![j] = "failed"]
  /\ UNCHANGED <<index, links, neural_sim, cache>>

\* Mutation: the cache is left alone.
DeleteKeepsCache(d) ==
  /\ d \in indexed
  /\ deleted' = deleted \union {d}
  /\ UNCHANGED <<indexed, links, neural_sim, cache, job>>

\* DELETE /index/url of an indexed URL.
Delete(d) ==
  /\ d \in indexed
  /\ deleted' = deleted \union {d} /\ cache' = Empty
  /\ UNCHANGED <<indexed, links, neural_sim, job>>

\* Mutation: the ranks of the graph that is gone are kept.
RestartKeepsRanks ==
  /\ \A j \in Jobs : job[j] \notin {"pending", "running"}
  /\ graph' = {} /\ UNCHANGED <<dirty, scores>>
  /\ cache' = Empty
  /\ job' = [j \in Jobs |-> IF job[j] = "new" THEN "new" ELSE "over"]
  /\ UNCHANGED <<index, neural_sim>>

\* Shutdown and start: both legs come back with their metadata; the link graph,
\* the cache and the job registry start empty.
Restart ==
  /\ \A j \in Jobs : job[j] \notin {"pending", "running"}
  /\ graph' = {} /\ dirty' = TRUE /\ scores' = {}
  /\ cache' = Empty
  /\ job' = [j \in Jobs |-> IF job[j] = "new" THEN "new" ELSE "over"]
  /\ UNCHANGED <<index, neural_sim>>

-----------------------------------------------------------------------------
JobStep(j) ==
  \/ Queue(j) \/ StartJob(j) \/ BatchDone(j) \/ UrlDone(j) \/ JobFails(j)
  \/ \E d \in JobDocs[j] : RecordLinks(j, d) \/ IndexDoc(j, d)

Next == (\E r \in Requests : Search(r) \/ SearchFails(r) \/ Forget(r))
        \/ (\E j \in Jobs : JobStep(j)) \/ (\E d \in Docs : Delete(d)) \/ Restart

Spec == Init /\ [][Next]_vars
-----------------------------------------------------------------------------
(* Correctness *)

\* "Soft document deletion (immediate exclusion from results)", README.md:21:
\* no response in the cache shows a deleted document.
CacheHidesDeleted ==
  \A r \in Requests : \A i \in DOMAIN cache[r].items : cache[r].items[i].doc \notin deleted

Shown(entry) == [i \in DOMAIN entry.items |-> entry.items[i].doc]

\* A request that finds its key in the cache gets its own answer: the page a
\* search gives today over the documents and links it could see then.  So no
\* two requests share a key, and PageRank was up to date when it was used.
CachedIsAnswer ==
  \A r \in Requests : LET entry == cache[Key(r)] IN
    entry.held => Shown(entry) = Page(r, entry.docs \ deleted, entry.pages)

\* What a cached response has not seen comes from a job that still runs or has
\* failed, or from POST /index/url: "newly indexed docs invalidate cached
\* result sets" (routes/index.py:203) for every batch that is done.
Unannounced ==
  UNION {JobDocs[j] : j \in {i \in Jobs : \/ job[i] \in {"running", "failed"}
                                          \/ i \in UrlJobs /\ job[i] = "done"}}
CacheLagsOnlyJobs ==
  \A r \in Requests : cache[r].held =>
    /\ indexed \ cache[r].docs \subseteq Unannounced
    /\ graph \ cache[r].pages \subseteq Unannounced

\* A response to a filtered search shows similarities to its own query, though
\* they pass through the metadata of the index (neural_filter.py:82).
SimsAreOfQuery ==
  \A r \in Requests : r.neural =>
    \A i \in DOMAIN cache[r].items : cache[r].items[i].sim = r.query

\* The number of candidates that come before d by their true score.
Before(r, d) ==
  LET lex == Hits(Lex[r.query], Live)
      den == Hits(Den[r.query], Live)
      fused == Fused(r.query, Live)
      score(e) == Score(lex, den, graph, e)
      mine == score(d)
  IN Cardinality({e \in ToSet(fused) \intersect Passing(r, Live) :
                    \/ score(e) > mine
                    \/ score(e) = mine /\ Rank(fused, e) < Rank(fused, d)})

\* Whatever was indexed, linked and deleted in whatever order, a page shows no
\* document twice, none that is deleted, filtered out or dissimilar, and none
\* beyond the window; without a second stage it holds exactly the candidates
\* whose place in the order of their scores is on the page.
PageIsRight ==
  \A r \in Requests :
    LET page    == Page(r, Live, RankedPages(r))
        passing == Passing(r, Live)
    IN
    /\ IsInjective(page) /\ Len(page) <= r.top_k
    /\ \A i \in DOMAIN page :
         /\ page[i] \in Live \intersect passing
         /\ r.neural => page[i] \in Close[r.query]
         /\ Before(r, page[i]) < Wanted(r)
    /\ r.rerank => \A i, k \in DOMAIN page :
         i < k => Rank(Cross[r.query], page[i]) < Rank(Cross[r.query], page[k])
    /\ ~r.rerank /\ ~r.neural =>
         \A d \in ToSet(Fused(r.query, Live)) \intersect passing :
           \A n \in 1 .. r.top_k :
             Before(r, d) = r.offset + n - 1 <=> n \in DOMAIN page /\ page[n] = d

\* "short-TTL search cache (auto-invalidated on delete/reindex)", README.md:22:
\* once a job is done no response from before it is in the cache.
ReindexInvalidates ==
  \A r \in Requests, j \in Jobs : cache[r].held /\ job[j] = "done" =>
    indexed \intersect JobDocs[j] \subseteq cache[r].docs

\* "callers can page through results" (search.py:21-25): the pages of one
\* result list show each of its documents once.
PagesTile ==
  \A r \in Requests : r.offset = 0 =>
    LET n       == Cardinality(Docs)
        whole   == Page([r EXCEPT !.top_k = n], Live, RankedPages(r))
        page(i) == Page([r EXCEPT !.offset = i * r.top_k], Live, RankedPages(r))
    IN \A d \in ToSet(whole) :
         Cardinality({i \in 0 .. n : d \in ToSet(page(i))}) = 1
=============================================================================
