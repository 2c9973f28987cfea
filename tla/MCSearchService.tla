-------------------------- MODULE MCSearchService ---------------------------
(* Small instances of SearchService for TLC. *)
EXTENDS SearchService

CONSTANTS d1, d2, d3, q1, q2, crawl, single

MCDocs    == {d1, d2, d3}
MCQueries == {q1, q2}

\* The legs disagree; d3 matches q1 in meaning only, and d2 is a lexical hit of
\* q2 only as long as d1 or d3 is not there.
MCLex   == (q1 :> <<d1, d2>>)     @@ (q2 :> <<d3, d1, d2>>)
MCDen   == (q1 :> <<d2, d3, d1>>) @@ (q2 :> <<d2, d1, d3>>)
MCClose == (q1 :> {d2, d3})       @@ (q2 :> {d1, d2})
MCCross == (q1 :> <<d3, d1, d2>>) @@ (q2 :> <<d2, d1, d3>>)

\* d1 and d2 link to d3, d3 links to d1: links decide the order of q1's hits.
Inlinks    == (d1 :> {d3}) @@ (d2 :> {}) @@ (d3 :> {d1, d2})
MCPageRank == [P \in SUBSET MCDocs |-> [d \in MCDocs |-> 6 * Cardinality(P \intersect Inlinks[d])]]

Req(q, k, o, re, ne, f) ==
  [query |-> q, top_k |-> k, offset |-> o, rerank |-> re, neural |-> ne, filter |-> f]

\* A filter on a key that both legs' metadata hold, or that bm25's alone does.
Both(docs) == [l \in Legs |-> docs]
InBM25(docs) == ("bm25" :> docs) @@ ("vector" :> {})

MCRequests ==
  {Req(q1, 1, 1, FALSE, FALSE, Both(MCDocs)), Req(q1, 1, 1, FALSE, FALSE, Both({d2, d3})),
   Req(q1, 2, 0, TRUE, TRUE, Both(MCDocs)), Req(q2, 2, 0, FALSE, TRUE, InBM25({d1, d2}))}
FilteredRequests == {Req(q1, 1, 0, FALSE, TRUE, Both(MCDocs)),
                     Req(q1, 2, 0, FALSE, FALSE, Both(MCDocs))}

MCBatches == {crawl}
MCUrlJobs == {single}
MCJobDocs == (crawl :> {d1, d2}) @@ (single :> {d3})

\* Bound of the interleaving run: one document is deleted.
MCNext == Next /\ Cardinality(deleted') <= 1
MCSpec == Init /\ [][MCNext]_vars
=============================================================================
