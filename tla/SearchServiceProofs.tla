------------------------ MODULE SearchServiceProofs -------------------------
(* Theorems about SearchService, for every value of its constants. *)
EXTENDS SearchService, ListsProofs

-----------------------------------------------------------------------------
(* The cache lags only behind jobs that have not announced themselves *)

\* The cache and the job registry are total on requests and jobs.
Total == /\ cache = [r \in Requests |-> cache[r]]
         /\ job = [j \in Jobs |-> job[j]]

LagInv == Total /\ CacheLagsOnlyJobs

\* The documents of job j do not count as announced while its state is s.
Silent(j, s) == s \in {"running", "failed"} \/ (j \in UrlJobs /\ s = "done")

\* Unannounced, as membership.
LEMMA UnannouncedMember ==
  \A x : x \in Unannounced <=> \E j \in Jobs : Silent(j, job[j]) /\ x \in JobDocs[j]
BY DEF Unannounced, Silent

\* A job that changes its state takes no document out of Unannounced, unless
\* it was silent and is so no more.
LEMMA JobMoves ==
  ASSUME Total, NEW j \in Jobs, NEW s, job' = [job EXCEPT ![j] = s],
         Silent(j, job[j]) => Silent(j, s)
  PROVE  Unannounced \subseteq Unannounced'
<1>1. \A i \in Jobs : job'[i] = IF i = j THEN s ELSE job[i]
  BY DEF Total
<1>2. \A x : x \in Unannounced' <=> \E i \in Jobs : Silent(i, job'[i]) /\ x \in JobDocs[i]
  BY DEF Unannounced, Silent
<1> QED
  BY <1>1, <1>2, UnannouncedMember

\* An empty cache lags behind nothing.
LEMMA EmptyLags ==
  ASSUME cache' = Empty
  PROVE  cache' = [r \in Requests |-> cache'[r]] /\ CacheLagsOnlyJobs'
BY DEF Empty, NoEntry, CacheLagsOnlyJobs

\* The server starts with an empty cache.
LEMMA LagInit == Init => LagInv
BY DEF Init, LagInv, Total, CacheLagsOnlyJobs, Empty, NoEntry

\* A cache that stays as it is while more documents become unannounced.
LEMMA CacheStays ==
  ASSUME CacheLagsOnlyJobs, UNCHANGED cache, Unannounced \subseteq Unannounced',
         indexed' \ indexed \subseteq Unannounced', graph' \ graph \subseteq Unannounced'
  PROVE  CacheLagsOnlyJobs'
BY DEF CacheLagsOnlyJobs

\* A search caches what it has just seen.
LEMMA SearchLags ==
  ASSUME LagInv, NEW r \in Requests, Search(r)
  PROVE  LagInv'
<1>1. PICK items : cache' = [cache EXCEPT ![r] =
        [items |-> items, docs |-> indexed, pages |-> graph, held |-> TRUE]]
  BY DEF Search, Key
<1>2. UNCHANGED <<indexed, graph, job>>
  BY DEF Search, index
<1>3. Total'
  BY <1>1, <1>2 DEF LagInv, Total
<1>4. \A q \in Requests \ {r} : cache'[q] = cache[q]
  BY <1>1 DEF LagInv, Total
<1>5. cache'[r].docs = indexed /\ cache'[r].pages = graph
  BY <1>1 DEF LagInv, Total
<1>6. Unannounced' = Unannounced
  BY <1>2 DEF Unannounced
<1>7. CacheLagsOnlyJobs'
  BY <1>2, <1>4, <1>5, <1>6 DEF LagInv, CacheLagsOnlyJobs
<1> QED
  BY <1>3, <1>7 DEF LagInv

\* A batch that ends has indexed nothing, and recorded no links, or clears
\* the cache.
LEMMA BatchDoneLags ==
  ASSUME LagInv, NEW j \in Jobs, BatchDone(j)
  PROVE  LagInv'
<1>1. job' = [job EXCEPT ![j] = "done"] /\ indexed' = indexed /\ graph' = graph
  BY DEF BatchDone, index, links
<1>2. job' = [i \in Jobs |-> job'[i]]
  BY <1>1 DEF LagInv, Total
<1>3. CASE indexed \intersect JobDocs[j] # {}
  <2>1. cache' = Empty
    BY <1>3 DEF BatchDone
  <2> QED
    BY <1>2, <2>1, EmptyLags DEF LagInv, Total
<1>4. CASE indexed \intersect JobDocs[j] = {}
  <2>1. graph \intersect JobDocs[j] = {} /\ cache' = cache
    BY <1>4 DEF BatchDone, Settled
  <2>2. \A i \in Jobs \ {j} : job'[i] = job[i]
    BY <1>1 DEF LagInv, Total
  <2>3. \A x : x \in Unannounced' <=> \E i \in Jobs : Silent(i, job'[i]) /\ x \in JobDocs[i]
    BY DEF Unannounced, Silent
  <2>4. \A x \in indexed \union graph : x \in Unannounced => x \in Unannounced'
    BY <1>4, <2>1, <2>2, <2>3, UnannouncedMember
  <2>5. CacheLagsOnlyJobs'
    BY <1>1, <2>1, <2>4 DEF LagInv, CacheLagsOnlyJobs
  <2> QED
    BY <1>2, <2>1, <2>5 DEF LagInv, Total
<1> QED
  BY <1>3, <1>4

\* Every step keeps what a cached response may lag behind.
LEMMA LagStep == LagInv /\ [Next]_vars => LagInv'
<1> SUFFICES ASSUME LagInv, [Next]_vars PROVE LagInv'
  OBVIOUS
<1>1. CASE \E r \in Requests : Search(r)
  BY <1>1, SearchLags
<1>2. ASSUME NEW r \in Requests, Forget(r) PROVE LagInv'
  <2>1. cache' = [cache EXCEPT ![r] = NoEntry] /\ UNCHANGED <<indexed, graph, job>>
    BY <1>2 DEF Forget, index, links
  <2>2. Total'
    BY <2>1 DEF LagInv, Total
  <2>3. \A q \in Requests : cache'[q] = IF q = r THEN NoEntry ELSE cache[q]
    BY <2>1 DEF LagInv, Total
  <2>4. Unannounced' = Unannounced
    BY <2>1 DEF Unannounced
  <2> QED
    BY <2>1, <2>2, <2>3, <2>4 DEF LagInv, CacheLagsOnlyJobs, NoEntry
<1>3. ASSUME NEW j \in Jobs, Queue(j) \/ StartJob(j) \/ UrlDone(j) \/ JobFails(j) PROVE LagInv'
  <2>1. UNCHANGED <<indexed, graph, cache>>
    BY <1>3 DEF Queue, StartJob, UrlDone, JobFails, index, links
  <2>2. PICK s : job' = [job EXCEPT ![j] = s] /\ (Silent(j, job[j]) => Silent(j, s))
    BY <1>3 DEF Queue, StartJob, UrlDone, JobFails, Silent
  <2>3. Total'
    BY <2>1, <2>2 DEF LagInv, Total
  <2>4. Unannounced \subseteq Unannounced'
    BY <2>2, JobMoves DEF LagInv
  <2> QED
    BY <2>1, <2>3, <2>4, CacheStays DEF LagInv
<1>4. CASE \E j \in Jobs : BatchDone(j)
  BY <1>4, BatchDoneLags
<1>5. ASSUME NEW j \in Jobs, NEW d \in JobDocs[j], RecordLinks(j, d) \/ IndexDoc(j, d)
      PROVE  LagInv'
  <2>1. UNCHANGED <<cache, job>> /\ Silent(j, job[j])
    BY <1>5 DEF RecordLinks, IndexDoc, Silent
  <2>2. Unannounced' = Unannounced
    BY <2>1 DEF Unannounced
  <2>3. d \in Unannounced
    BY <2>1, UnannouncedMember
  <2>4. indexed' \ indexed \subseteq {d} /\ graph' \ graph \subseteq {d}
    BY <1>5 DEF RecordLinks, IndexDoc, index, links
  <2>5. Total'
    BY <2>1 DEF LagInv, Total
  <2>6. CacheLagsOnlyJobs'
    BY <2>1, <2>2, <2>3, <2>4, CacheStays DEF LagInv
  <2> QED
    BY <2>5, <2>6 DEF LagInv
<1>6. ASSUME NEW d \in Docs, Delete(d) PROVE LagInv'
  <2>1. cache' = Empty /\ job' = job
    BY <1>6 DEF Delete
  <2> QED
    BY <2>1, EmptyLags DEF LagInv, Total
<1>7. CASE Restart
  <2>1. cache' = Empty /\ job' = [j \in Jobs |-> IF job[j] = "new" THEN "new" ELSE "over"]
    BY <1>7 DEF Restart
  <2> QED
    BY <2>1, EmptyLags DEF LagInv, Total
<1>8. CASE UNCHANGED vars
  BY <1>8 DEF vars, LagInv, Total, CacheLagsOnlyJobs, Unannounced
<1>9. ASSUME NEW r \in Requests, SearchFails(r) PROVE LagInv'
  <2>1. UNCHANGED <<indexed, graph, cache, job>>
    BY <1>9 DEF SearchFails, index
  <2> QED
    BY <2>1 DEF LagInv, Total, CacheLagsOnlyJobs, Unannounced
<1> QED
  BY <1>1, <1>2, <1>3, <1>4, <1>5, <1>6, <1>7, <1>8, <1>9 DEF Next, JobStep

\* Whatever jobs, searches, deletes and restarts do, in whatever order: what a
\* cached response has not seen was brought by a job that still runs, has
\* failed, or came by POST /index/url (routes/index.py:203).
THEOREM CacheLagsCorrect == Spec => []CacheLagsOnlyJobs
<1>1. LagInv => CacheLagsOnlyJobs
  BY DEF LagInv
<1> QED
  BY LagInit, LagStep, <1>1, PTL DEF Spec

-----------------------------------------------------------------------------
(* A search *)

\* A leg returns some of its live documents.
LEMMA HitsAre ==
  ASSUME ServiceAssumption, NEW ranking \in Seq(Docs), IsInjective(ranking), NEW live
  PROVE  /\ Hits(ranking, live) \in Seq(Docs) /\ IsInjective(Hits(ranking, live))
         /\ ToSet(Hits(ranking, live)) \subseteq ToSet(ranking) \intersect live
PROOF
<1> DEFINE o == Only(ranking, live)
<1>1. o \in Seq(Docs) /\ IsInjective(o) /\ ToSet(o) = ToSet(ranking) \intersect live  BY OnlyIs
<1>2. CandidateK \in Nat  BY DEF ServiceAssumption
<1> HIDE DEF o
<1>3. /\ Best(CandidateK, o) \in Seq(Docs) /\ IsInjective(Best(CandidateK, o))
      /\ ToSet(Best(CandidateK, o)) \subseteq ToSet(o)
  BY <1>1, <1>2, BestIs
<1>4. QED  BY <1>1, <1>3 DEF Hits, o

\* Fusion has every live hit of the two legs once.
LEMMA FusedIs ==
  ASSUME ServiceAssumption, NEW q \in Queries, NEW live
  PROVE  /\ Fused(q, live) \in Seq(Docs) /\ IsInjective(Fused(q, live))
         /\ ToSet(Fused(q, live)) = ToSet(Hits(Lex[q], live)) \union ToSet(Hits(Den[q], live))
         /\ ToSet(Fused(q, live)) \subseteq live \intersect Docs
PROOF
<1> DEFINE lex == Hits(Lex[q], live)
           den == Hits(Den[q], live)
           rest == Only(den, Docs \ ToSet(lex))
<1>1. /\ Lex[q] \in Seq(Docs) /\ Den[q] \in Seq(Docs)
      /\ IsInjective(Lex[q]) /\ IsInjective(Den[q])
  BY DEF ServiceAssumption
<1>2. lex \in Seq(Docs) /\ IsInjective(lex) /\ ToSet(lex) \subseteq live  BY <1>1, HitsAre
<1>3. den \in Seq(Docs) /\ IsInjective(den) /\ ToSet(den) \subseteq live  BY <1>1, HitsAre
<1>4. Fused(q, live) = lex \o rest  BY DEF Fused
<1> HIDE DEF lex, den
<1>5. /\ rest \in Seq(Docs) /\ IsInjective(rest)
      /\ ToSet(rest) = ToSet(den) \intersect (Docs \ ToSet(lex))
  BY <1>3, OnlyIs
<1> HIDE DEF rest
<1>6. ToSet(den) \subseteq Docs /\ ToSet(lex) \subseteq Docs
  <2>1. ASSUME NEW s \in Seq(Docs) PROVE ToSet(s) \subseteq Docs
    <3>1. DOMAIN s = 1 .. Len(s) /\ \A i \in 1 .. Len(s) : s[i] \in Docs
      BY LenProperties, ElementOfSeq
    <3>2. QED  BY <3>1 DEF ToSet
  <2>2. QED  BY <1>2, <1>3, <2>1
<1>7. ToSet(lex) \intersect ToSet(rest) = {}  BY <1>5
<1>8. /\ lex \o rest \in Seq(Docs) /\ ToSet(lex \o rest) = ToSet(lex) \union ToSet(rest)
      /\ IsInjective(lex \o rest)
  BY <1>2, <1>5, <1>7, ConcatIs
<1>9. ToSet(lex \o rest) = ToSet(lex) \union ToSet(den)  BY <1>5, <1>6, <1>8
<1>10. ToSet(lex \o rest) \subseteq live \intersect Docs  BY <1>2, <1>3, <1>6, <1>9
<1>11. QED  BY <1>4, <1>8, <1>9, <1>10 DEF lex, den

\* Scores are numbers.
LEMMA ScoreIs ==
  ASSUME ServiceAssumption, NEW lex \in Seq(Docs), NEW den \in Seq(Docs),
         NEW pages \in SUBSET Docs, NEW d \in Docs
  PROVE  Score(lex, den, pages, d) \in Nat
PROOF
<1>1. ASSUME NEW s \in Seq(Docs) PROVE Share(s, d) \in Nat
  <2>1. CASE d \in ToSet(s)
    <3>1. Rank(s, d) \in Nat
      <4>1. Rank(s, d) \in 1 .. Len(s)  BY <2>1, RankIs
      <4>2. QED  BY <4>1
    <3> DEFINE n == 60 + Rank(s, d)
    <3>2. n \in Nat \ {0} /\ Unit \in Nat  BY <3>1 DEF Unit
    <3> HIDE DEF n
    <3>3. Unit \div n \in Nat  BY ONLY <3>2
    <3>4. QED  BY <2>1, <3>3 DEF Share, n
  <2>2. CASE d \notin ToSet(s)  BY <2>2 DEF Share
  <2>3. QED  BY <2>1, <2>2
<1>2. Share(lex, d) \in Nat /\ Share(den, d) \in Nat  BY <1>1
<1>3. PageRank[pages][d] \in Nat
  <2>1. PageRank \in [SUBSET Docs -> [Docs -> Nat]]  BY DEF ServiceAssumption
  <2>2. PageRank[pages] \in [Docs -> Nat]  BY ONLY <2>1, pages \in SUBSET Docs
  <2>3. QED  BY ONLY <2>2, d \in Docs
<1> DEFINE a == Share(lex, d) + Share(den, d)
           b == 10 + PageRank[pages][d]
<1>4. a \in Nat /\ b \in Nat  BY <1>2, <1>3
<1>5. Score(lex, den, pages, d) = a * b  BY DEF Score
<1> HIDE DEF a, b
<1>6. QED  BY <1>4, <1>5

\* Fusion sorts by score, and keeps the order of equal scores.
Beats(r, live, pages, docs, d, e) ==
  LET lex == Hits(Lex[r.query], live)
      den == Hits(Den[r.query], live)
      score(x) == Score(lex, den, pages, x)
  IN \/ score(d) > score(e)
     \/ score(d) = score(e) /\ Rank(docs, d) < Rank(docs, e)

\* The same, as a relation between the candidates.
BeatsIn(r, live, pages, docs) ==
  {p \in ToSet(docs) \X ToSet(docs) : Beats(r, live, pages, docs, p[1], p[2])}

\* No two candidates are tied: a list of them has one order.
LEMMA BeatsStrict ==
  ASSUME ServiceAssumption, NEW r \in Requests, NEW live, NEW pages \in SUBSET Docs,
         NEW docs \in Seq(Docs), IsInjective(docs)
  PROVE  Strict(BeatsIn(r, live, pages, docs), ToSet(docs))
PROOF
<1> DEFINE lex == Hits(Lex[r.query], live)
           den == Hits(Den[r.query], live)
           score(x) == Score(lex, den, pages, x)
           S == ToSet(docs)
           R == {p \in S \X S : Beats(r, live, pages, docs, p[1], p[2])}
<1>1. r.query \in Queries  BY DEF ServiceAssumption, Request
<1>2. lex \in Seq(Docs) /\ den \in Seq(Docs)  BY <1>1, HitsAre DEF ServiceAssumption
<1>3. \A d \in S : d \in Docs
  <2>1. DOMAIN docs = 1 .. Len(docs) /\ \A i \in 1 .. Len(docs) : docs[i] \in Docs
    BY LenProperties, ElementOfSeq
  <2>2. QED  BY <2>1 DEF ToSet
<1>4. \A d \in S : score(d) \in Nat
  <2> HIDE DEF lex, den
  <2>1. QED  BY <1>2, <1>3, ScoreIs
<1>5. \A d \in S : Rank(docs, d) \in Nat /\ docs[Rank(docs, d)] = d
  <2>1. ASSUME NEW d \in S PROVE Rank(docs, d) \in 1 .. Len(docs) /\ docs[Rank(docs, d)] = d
    BY RankIs
  <2>2. QED  BY <2>1
<1>6. \A d, e : Beats(r, live, pages, docs, d, e) <=>
                  \/ score(d) > score(e)
                  \/ score(d) = score(e) /\ Rank(docs, d) < Rank(docs, e)
  BY DEF Beats
<1> HIDE DEF lex, den, score, S
<1>7. \A d, e \in S : <<d, e>> \in R <=> Beats(r, live, pages, docs, d, e)  OBVIOUS
<1>8. Strict(R, S)
  <2> HIDE DEF R
  <2>1. ASSUME NEW d \in S PROVE <<d, d>> \notin R
    <3>1. score(d) \in Nat /\ Rank(docs, d) \in Nat  BY <1>4, <1>5
    <3> DEFINE x == score(d)
               y == Rank(docs, d)
    <3>2. Beats(r, live, pages, docs, d, d) => x > x \/ y < y  BY <1>6
    <3>3. x \in Nat /\ y \in Nat  BY <3>1
    <3> HIDE DEF x, y
    <3>4. ~(x > x \/ y < y)  BY <3>3
    <3>5. QED  BY <1>7, <3>2, <3>4
  <2>2. ASSUME NEW d \in S, NEW e \in S PROVE d = e \/ <<d, e>> \in R \/ <<e, d>> \in R
    <3>1. CASE Rank(docs, d) = Rank(docs, e)  BY <1>5, <3>1
    <3>2. CASE Rank(docs, d) # Rank(docs, e)
      <4>1. /\ score(d) \in Nat /\ score(e) \in Nat
            /\ Rank(docs, d) \in Nat /\ Rank(docs, e) \in Nat
        BY <1>4, <1>5
      <4>2. Beats(r, live, pages, docs, d, e) \/ Beats(r, live, pages, docs, e, d)
        BY <1>6, <3>2, <4>1
      <4>3. QED  BY <1>7, <4>2
    <3>3. QED  BY <3>1, <3>2
  <2>3. ASSUME NEW c \in S, NEW d \in S, NEW e \in S, <<c, d>> \in R, <<d, e>> \in R
        PROVE  <<c, e>> \in R
    <3>1. Beats(r, live, pages, docs, c, d) /\ Beats(r, live, pages, docs, d, e)
      BY <1>7, <2>3
    <3>2. /\ score(c) \in Nat /\ score(d) \in Nat /\ score(e) \in Nat /\ Rank(docs, c) \in Nat
          /\ Rank(docs, d) \in Nat /\ Rank(docs, e) \in Nat
      BY <1>4, <1>5
    <3>3. Beats(r, live, pages, docs, c, e)  BY <1>6, <3>1, <3>2
    <3>4. QED  BY <1>7, <3>3
  <2>4. QED  BY <2>1, <2>2, <2>3 DEF Strict
<1>9. QED
  <2> HIDE DEF R
  <2>1. R = BeatsIn(r, live, pages, docs)  BY DEF R, BeatsIn, S
  <2>2. QED  BY <1>8, <2>1 DEF S

\* Fusion's list is the candidates in that order.
LEMMA SortFusedIs ==
  ASSUME ServiceAssumption, NEW r \in Requests, NEW live, NEW pages \in SUBSET Docs,
         NEW docs \in Seq(Docs), IsInjective(docs), NEW t, t = SortFused(r, live, pages, docs)
  PROVE  /\ Arranges(t, docs, Docs)
         /\ \A i, j \in DOMAIN docs : i < j => <<t[i], t[j]>> \in BeatsIn(r, live, pages, docs)
PROOF
<1> DEFINE R == BeatsIn(r, live, pages, docs)
<1>1. t = Sorted(docs, R)  BY DEF SortFused, BeatsIn, Beats
<1>2. Strict(R, ToSet(docs))  BY BeatsStrict
<1> HIDE DEF R
<1>3. Arranges(t, docs, Docs)  BY <1>1, <1>2, SortIs
<1>4. \A i, j \in DOMAIN docs : i < j => <<t[i], t[j]>> \in R  BY <1>1, <1>2, SortIs
<1>5. QED  BY <1>3, <1>4 DEF R

\* What retrieval returns: candidates that the request's filter lets through.
LEMMA RetrieveIs ==
  ASSUME ServiceAssumption, NEW r \in Requests, NEW live, NEW pages \in SUBSET Docs
  PROVE  LET docs == Filtered(r, live)
             t    == SortFused(r, live, pages, docs)
         IN /\ docs \in Seq(Docs) /\ IsInjective(docs)
            /\ ToSet(docs) = ToSet(Fused(r.query, live)) \intersect Passing(r, live)
            /\ Retrieve(r, live, pages) = Best(Wanted(r), t)
            /\ Retrieve(r, live, pages) \in Seq(Docs) /\ IsInjective(Retrieve(r, live, pages))
            /\ ToSet(Retrieve(r, live, pages)) \subseteq ToSet(docs)
            /\ Wanted(r) \in Nat /\ Window(r) \in Nat /\ Window(r) = r.offset + r.top_k
PROOF
<1> DEFINE docs == Filtered(r, live)
           fused == Fused(r.query, live)
           t == SortFused(r, live, pages, docs)
<1>1. r.query \in Queries /\ r.top_k \in Nat \ {0} /\ r.offset \in Nat /\ r.rerank \in BOOLEAN
  BY DEF ServiceAssumption, Request
<1>2. fused \in Seq(Docs) /\ IsInjective(fused)  BY <1>1, FusedIs
<1>3. /\ docs \in Seq(Docs) /\ IsInjective(docs)
      /\ ToSet(docs) = ToSet(fused) \intersect Passing(r, live)
  <2> HIDE DEF fused
  <2>1. docs = Only(fused, Passing(r, live))  BY DEF Filtered, fused
  <2>2. QED  BY <1>2, <2>1, OnlyIs
<1> HIDE DEF docs, fused
<1>4. t \in Seq(Docs) /\ IsInjective(t) /\ ToSet(t) = ToSet(docs)
  <2>1. docs \in Seq(Docs) /\ IsInjective(docs)  BY <1>3
  <2>2. t = SortFused(r, live, pages, docs)  OBVIOUS
  <2> HIDE DEF t
  <2>3. Arranges(t, docs, Docs)  BY <2>1, <2>2, SortFusedIs
  <2>4. QED  BY <2>3 DEF Arranges
<1>5. Window(r) = r.offset + r.top_k /\ Window(r) \in Nat /\ Wanted(r) \in Nat
  BY <1>1 DEF Window, Wanted
<1>6. Retrieve(r, live, pages) = Best(Wanted(r), t)  BY DEF Retrieve, docs
<1> HIDE DEF t
<1>7. /\ Best(Wanted(r), t) \in Seq(Docs) /\ IsInjective(Best(Wanted(r), t))
      /\ ToSet(Best(Wanted(r), t)) \subseteq ToSet(t)
  BY <1>4, <1>5, BestIs
<1>8. QED  BY <1>3, <1>4, <1>5, <1>6, <1>7 DEF docs, fused, t

\* The second stage sorts by the cross-encoder.
LEMMA CrossSorted ==
  ASSUME ServiceAssumption, NEW q \in Queries, NEW docs \in Seq(Docs), IsInjective(docs),
         NEW t, t = SortCross(q, docs)
  PROVE  /\ Arranges(t, docs, Docs)
         /\ \A i, j \in DOMAIN docs : i < j => Rank(Cross[q], t[i]) < Rank(Cross[q], t[j])
PROOF
<1> DEFINE S == ToSet(docs)
           rank(d) == Rank(Cross[q], d)
           R == {p \in S \X S : rank(p[1]) < rank(p[2])}
<1>1. \A d \in S : d \in Docs
  <2>1. DOMAIN docs = 1 .. Len(docs) /\ \A i \in 1 .. Len(docs) : docs[i] \in Docs
    BY LenProperties, ElementOfSeq
  <2>2. QED  BY <2>1 DEF ToSet
<1>2. \A d \in S : rank(d) \in Nat /\ Cross[q][rank(d)] = d
  <2>1. Cross[q] \in Seq(Docs) /\ ToSet(Cross[q]) = Docs  BY DEF ServiceAssumption
  <2>2. ASSUME NEW d \in S PROVE rank(d) \in 1 .. Len(Cross[q]) /\ Cross[q][rank(d)] = d
    BY <1>1, <2>1, RankIs
  <2>3. QED  BY <2>2
<1>3. t = Sorted(docs, R)  BY DEF SortCross
<1> HIDE DEF rank, S
<1>4. \A d, e \in S : <<d, e>> \in R <=> rank(d) < rank(e)  OBVIOUS
<1>5. Strict(R, S)
  <2> HIDE DEF R
  <2>1. ASSUME NEW d \in S PROVE <<d, d>> \notin R
    <3>1. rank(d) \in Nat  BY <1>2
    <3>2. ~(rank(d) < rank(d))  BY <3>1
    <3>3. QED  BY <1>4, <3>2
  <2>2. ASSUME NEW d \in S, NEW e \in S PROVE d = e \/ <<d, e>> \in R \/ <<e, d>> \in R
    <3>1. rank(d) \in Nat /\ rank(e) \in Nat  BY <1>2
    <3>2. rank(d) = rank(e) \/ rank(d) < rank(e) \/ rank(e) < rank(d)  BY <3>1
    <3>3. QED  BY <1>2, <1>4, <3>2
  <2>3. ASSUME NEW c \in S, NEW d \in S, NEW e \in S, <<c, d>> \in R, <<d, e>> \in R
        PROVE  <<c, e>> \in R
    <3>1. rank(c) < rank(d) /\ rank(d) < rank(e)  BY <1>4, <2>3
    <3>2. rank(c) \in Nat /\ rank(d) \in Nat /\ rank(e) \in Nat  BY <1>2
    <3>3. rank(c) < rank(e)  BY <3>1, <3>2
    <3>4. QED  BY <1>4, <3>3
  <2>4. QED  BY <2>1, <2>2, <2>3 DEF Strict
<1> HIDE DEF R
<1>6. Arranges(t, docs, Docs)  BY <1>3, <1>5, SortIs DEF S
<1>7. \A i, j \in DOMAIN docs : i < j => <<t[i], t[j]>> \in R  BY <1>3, <1>5, SortIs DEF S
<1>8. \A i, j \in DOMAIN docs : i < j => rank(t[i]) < rank(t[j])
  <2>1. \A i, j \in DOMAIN docs : i < j => rank(t[i]) < rank(t[j])  BY <1>7 DEF R
  <2>2. QED  BY <2>1
<1>9. QED  BY <1>6, <1>8 DEF rank

\* The second stage: candidates of retrieval, similar to the query if the
\* request asks for that, at most as many as the window takes, in the order of
\* the cross-encoder if the request asks for that and else the first of them.
SecondStage(r, live, pages) == Rerank(r, NeuralFilter(r, Retrieve(r, live, pages)))

\* It keeps to what retrieval found, to the window and to the order asked for.
LEMMA SecondStageIs ==
  ASSUME ServiceAssumption, NEW r \in Requests, NEW live, NEW pages \in SUBSET Docs,
         NEW w, w = SecondStage(r, live, pages),
         NEW found, found = Retrieve(r, live, pages)
  PROVE  /\ w \in Seq(Docs) /\ IsInjective(w) /\ Len(w) <= Window(r)
         /\ ToSet(w) \subseteq ToSet(found)
         /\ r.neural => ToSet(w) \subseteq Close[r.query]
         /\ r.rerank => \A i, j \in 1 .. Len(w) :
                         i < j => Rank(Cross[r.query], w[i]) < Rank(Cross[r.query], w[j])
         /\ ~r.neural /\ ~r.rerank =>
              /\ Len(w) = IF Window(r) < Len(found) THEN Window(r) ELSE Len(found)
              /\ \A i \in 1 .. Len(w) : w[i] = found[i]
PROOF
<1>1. r.query \in Queries /\ r.neural \in BOOLEAN /\ r.rerank \in BOOLEAN
  BY DEF ServiceAssumption, Request
<1>2. found \in Seq(Docs) /\ IsInjective(found) /\ Window(r) \in Nat  BY RetrieveIs
<1> DEFINE kept == NeuralFilter(r, found)
           order == IF r.rerank THEN SortCross(r.query, kept) ELSE kept
<1>3. /\ kept \in Seq(Docs) /\ IsInjective(kept) /\ ToSet(kept) \subseteq ToSet(found)
      /\ r.neural => ToSet(kept) \subseteq Close[r.query]
      /\ ~r.neural => kept = found
  <2>1. CASE r.neural
    <3>1. kept = Only(found, Close[r.query])  BY <2>1 DEF NeuralFilter
    <3>2. /\ kept \in Seq(Docs) /\ IsInjective(kept)
          /\ ToSet(kept) = ToSet(found) \intersect Close[r.query]
      BY <1>2, <3>1, OnlyIs
    <3>3. QED  BY <2>1, <3>2
  <2>2. CASE ~r.neural  BY <1>2, <2>2 DEF NeuralFilter
  <2>3. QED  BY <2>1, <2>2
<1>4. w = Best(Window(r), order)  BY DEF SecondStage, Rerank
<1> HIDE DEF kept
<1>5. /\ Arranges(order, kept, Docs)
      /\ r.rerank => \A i, j \in 1 .. Len(kept) :
                       i < j => Rank(Cross[r.query], order[i]) < Rank(Cross[r.query], order[j])
      /\ ~r.rerank => order = kept
  <2>1. CASE r.rerank
    <3>1. order = SortCross(r.query, kept)  BY <2>1
    <3> HIDE DEF order
    <3>2. Arranges(order, kept, Docs)  BY <1>1, <1>3, <3>1, CrossSorted
    <3>3. \A i, j \in DOMAIN kept :
            i < j => Rank(Cross[r.query], order[i]) < Rank(Cross[r.query], order[j])
      BY <1>1, <1>3, <3>1, CrossSorted
    <3>4. DOMAIN kept = 1 .. Len(kept)  BY <1>3, LenProperties
    <3>5. QED  BY <2>1, <3>2, <3>3, <3>4
  <2>2. CASE ~r.rerank
    <3>1. order = kept  BY <2>2
    <3>2. QED  BY <1>3, <2>2, <3>1 DEF Arranges
  <2>3. QED  BY <2>1, <2>2
<1> HIDE DEF order
<1>6. /\ order \in Seq(Docs) /\ IsInjective(order) /\ ToSet(order) = ToSet(kept)
      /\ Len(order) = Len(kept)
  BY <1>5 DEF Arranges
<1>7. /\ w \in Seq(Docs) /\ Len(w) = (IF Window(r) < Len(order) THEN Window(r) ELSE Len(order))
      /\ \A i \in 1 .. Len(w) : i \in 1 .. Len(order) /\ w[i] = order[i]
      /\ ToSet(w) \subseteq ToSet(order) /\ IsInjective(w)
  BY <1>2, <1>4, <1>6, BestIs
<1>8. Len(w) <= Window(r)
  <2>1. Len(order) \in Nat  BY <1>6, LenProperties
  <2>2. QED  BY <1>2, <1>7, <2>1
<1>9. ASSUME r.rerank, NEW i \in 1 .. Len(w), NEW j \in 1 .. Len(w), i < j
      PROVE  Rank(Cross[r.query], w[i]) < Rank(Cross[r.query], w[j])
  <2>1. i \in 1 .. Len(kept) /\ w[i] = order[i]  BY <1>6, <1>7
  <2>2. j \in 1 .. Len(kept) /\ w[j] = order[j]  BY <1>6, <1>7
  <2>3. Rank(Cross[r.query], order[i]) < Rank(Cross[r.query], order[j])
    BY <1>5, <1>9, <2>1, <2>2
  <2>4. QED  BY <2>1, <2>2, <2>3
<1>10. ToSet(w) \subseteq ToSet(found) /\ (r.neural => ToSet(w) \subseteq Close[r.query])
  BY <1>3, <1>6, <1>7
<1>11. ASSUME ~r.neural, ~r.rerank PROVE order = found  BY <1>3, <1>5, <1>11
<1>12. QED  BY <1>7, <1>8, <1>9, <1>10, <1>11

\* A page is the part of the second stage after the offset.
LEMMA PageIs ==
  ASSUME ServiceAssumption, NEW r \in Requests, NEW live, NEW pages \in SUBSET Docs,
         NEW p, p = Page(r, live, pages), NEW w, w = SecondStage(r, live, pages)
  PROVE  /\ p \in Seq(Docs)
         /\ Len(p) = IF r.offset < Len(w) THEN Len(w) - r.offset ELSE 0
         /\ \A i \in 1 .. Len(p) : r.offset + i \in 1 .. Len(w) /\ p[i] = w[r.offset + i]
PROOF
<1>1. w \in Seq(Docs)  BY SecondStageIs
<1>2. Len(w) \in Nat /\ r.offset \in Nat
  <2>1. Len(w) \in Nat  BY <1>1, LenProperties
  <2>2. QED  BY <2>1 DEF ServiceAssumption, Request
<1>3. p = IF r.offset < Len(w) THEN SubSeq(w, r.offset + 1, Len(w)) ELSE <<>>
  BY DEF Page, SecondStage
<1>4. CASE r.offset < Len(w)
  <2> DEFINE m == r.offset + 1
             n == Len(w)
  <2>1. m \in 1 .. n + 1 /\ n \in 0 .. n /\ m \in 1 .. n  BY <1>2, <1>4
  <2>2. p = SubSeq(w, m, n)  BY <1>3, <1>4
  <2>3. m \in 1 .. Len(w) + 1 /\ n \in m - 1 .. Len(w)
    <3>1. n = Len(w) /\ n \in Nat  BY <1>2
    <3>2. m - 1 = r.offset  BY <1>2
    <3>3. n \in m - 1 .. n  BY <1>2, <1>4, <3>1, <3>2
    <3>4. QED  BY <2>1, <3>1, <3>3
  <2> HIDE DEF m, n
  <2>4. /\ p \in Seq(Docs) /\ Len(p) = n - m + 1
        /\ \A i \in 1 .. n - m + 1 : p[i] = w[m + i - 1]
    <3>1. SubSeq(w, m, n) \in Seq(Docs)
      BY ONLY <1>1, <2>3, SubSeqProperties
    <3>2. Len(SubSeq(w, m, n)) = IF m <= n THEN n - m + 1 ELSE 0
      BY ONLY <1>1, <2>3, SubSeqProperties
    <3>3. \A i \in 1 .. n - m + 1 : SubSeq(w, m, n)[i] = w[m + i - 1]
      BY ONLY <1>1, <2>3, SubSeqProperties
    <3>4. m <= n  BY <1>2, <1>4 DEF m, n
    <3>5. QED  BY <2>2, <3>1, <3>2, <3>3, <3>4
  <2>5. n - m + 1 = Len(w) - r.offset  BY <1>2 DEF m, n
  <2>6. Len(p) = Len(w) - r.offset  BY <2>4, <2>5
  <2>7. ASSUME NEW i \in 1 .. Len(p)
        PROVE  r.offset + i \in 1 .. Len(w) /\ p[i] = w[r.offset + i]
    <3>1. i \in Nat /\ 1 <= i /\ i <= Len(w) - r.offset  BY <1>2, <2>6
    <3>2. m + i - 1 = r.offset + i  BY <1>2, <3>1 DEF m
    <3>3. p[i] = w[m + i - 1]  BY <2>4, <2>7
    <3>4. r.offset + i \in 1 .. Len(w)  BY <1>2, <3>1
    <3>5. QED  BY <3>2, <3>3, <3>4
  <2>8. QED  BY <1>4, <2>4, <2>6, <2>7
<1>5. CASE ~(r.offset < Len(w))
  <2>1. p = <<>>  BY <1>3, <1>5
  <2>2. p \in Seq(Docs) /\ Len(p) = 0  BY <2>1
  <2>3. QED  BY <1>5, <2>2
<1>6. QED  BY <1>4, <1>5

\* So a page shows no document twice, only candidates, and at most top_k.
LEMMA PageShows ==
  ASSUME ServiceAssumption, NEW r \in Requests, NEW live, NEW pages \in SUBSET Docs,
         NEW p, p = Page(r, live, pages)
  PROVE  /\ p \in Seq(Docs) /\ IsInjective(p) /\ Len(p) <= r.top_k
         /\ ToSet(p) \subseteq ToSet(Retrieve(r, live, pages))
         /\ ToSet(p) \subseteq ToSet(Filtered(r, live))
         /\ ToSet(p) \subseteq live \intersect Passing(r, live)
         /\ r.neural => ToSet(p) \subseteq Close[r.query]
PROOF
<1> DEFINE w == SecondStage(r, live, pages)
           found == Retrieve(r, live, pages)
<1>1. w = SecondStage(r, live, pages) /\ found = Retrieve(r, live, pages)  OBVIOUS
<1> HIDE DEF w, found
<1>2. /\ w \in Seq(Docs) /\ IsInjective(w) /\ Len(w) <= Window(r)
      /\ ToSet(w) \subseteq ToSet(found) /\ (r.neural => ToSet(w) \subseteq Close[r.query])
  BY <1>1, SecondStageIs
<1>3. /\ p \in Seq(Docs) /\ Len(p) = (IF r.offset < Len(w) THEN Len(w) - r.offset ELSE 0)
      /\ \A i \in 1 .. Len(p) : r.offset + i \in 1 .. Len(w) /\ p[i] = w[r.offset + i]
  BY <1>1, PageIs
<1>4. /\ Len(w) \in Nat /\ DOMAIN w = 1 .. Len(w) /\ Len(p) \in Nat /\ DOMAIN p = 1 .. Len(p)
  BY <1>2, <1>3, LenProperties
<1>5. r.offset \in Nat /\ r.top_k \in Nat /\ r.query \in Queries
  BY DEF ServiceAssumption, Request
<1>6. Window(r) = r.offset + r.top_k  BY DEF Window
<1>7. Len(p) <= r.top_k  BY <1>2, <1>3, <1>4, <1>5, <1>6
<1>8. IsInjective(p)
  <2>1. ASSUME NEW i \in DOMAIN p, NEW j \in DOMAIN p, p[i] = p[j] PROVE i = j
    <3>1. i \in Nat /\ j \in Nat  BY <1>4
    <3>2. r.offset + i \in DOMAIN w /\ p[i] = w[r.offset + i]  BY <1>3, <1>4
    <3>3. r.offset + j \in DOMAIN w /\ p[j] = w[r.offset + j]  BY <1>3, <1>4
    <3>4. r.offset + i = r.offset + j  BY <1>2, <2>1, <3>2, <3>3 DEF IsInjective
    <3>5. QED  BY <1>5, <3>1, <3>4
  <2>2. QED  BY <2>1 DEF IsInjective
<1>9. ToSet(p) \subseteq ToSet(w)  BY <1>3, <1>4 DEF ToSet
<1>10. /\ ToSet(found) \subseteq ToSet(Filtered(r, live))
       /\ ToSet(Filtered(r, live)) = ToSet(Fused(r.query, live)) \intersect Passing(r, live)
  BY <1>1, RetrieveIs
<1>11. ToSet(Fused(r.query, live)) \subseteq live  BY <1>5, FusedIs
<1>12. QED  BY <1>1, <1>2, <1>3, <1>7, <1>8, <1>9, <1>10, <1>11

-----------------------------------------------------------------------------
(* What the cache holds *)

Item == [doc : Docs, sim : Queries \union {NoQuery}]

\* PageRank is up to date unless it is marked dirty; every response in the cache
\* shows live documents, the page over what its search could see, and, if it
\* was filtered by similarity, similarities to its own query.
ServiceInv ==
  /\ TypeOK
  /\ ~dirty => scores = graph
  /\ CacheHidesDeleted /\ CachedIsAnswer /\ SimsAreOfQuery

\* An empty cache holds nothing that could be wrong.
LEMMA EmptyIsRight ==
  ASSUME cache' = Empty
  PROVE  /\ cache' \in [Requests -> Response]
         /\ CacheHidesDeleted' /\ CachedIsAnswer' /\ SimsAreOfQuery'
PROOF
<1>1. \A r \in Requests : cache'[r] = NoEntry  BY DEF Empty
<1>2. NoEntry \in Response
  <2>1. <<>> \in Seq(Item)  OBVIOUS
  <2>2. QED  BY <2>1 DEF NoEntry, Response, Item
<1>3. cache' \in [Requests -> Response]  BY <1>2 DEF Empty
<1>4. NoEntry.items = <<>> /\ ~NoEntry.held /\ DOMAIN <<>> = {}  BY DEF NoEntry
<1>5. CacheHidesDeleted'  BY <1>1, <1>4 DEF CacheHidesDeleted
<1>6. SimsAreOfQuery'  BY <1>1, <1>4 DEF SimsAreOfQuery
<1>7. CachedIsAnswer'  BY <1>1, <1>4 DEF CachedIsAnswer, Key
<1>8. QED  BY <1>3, <1>5, <1>6, <1>7

\* A cache that stays as it is stays right as long as nothing is deleted.
LEMMA CacheStaysRight ==
  ASSUME ServiceInv, UNCHANGED <<cache, deleted>>
  PROVE  CacheHidesDeleted' /\ CachedIsAnswer' /\ SimsAreOfQuery'
PROOF
<1>1. CacheHidesDeleted'  BY DEF ServiceInv, CacheHidesDeleted
<1>2. SimsAreOfQuery'  BY DEF ServiceInv, SimsAreOfQuery
<1>3. CachedIsAnswer'  BY DEF ServiceInv, CachedIsAnswer, Key
<1>4. QED  BY <1>1, <1>2, <1>3

\* With no candidates there is nothing to show, whatever the ranks.
LEMMA NothingFound ==
  ASSUME ServiceAssumption, NEW r \in Requests, NEW live, NEW pages \in SUBSET Docs,
         Filtered(r, live) = <<>>
  PROVE  Page(r, live, pages) = <<>>
PROOF
<1> DEFINE p == Page(r, live, pages)
<1>1. p = Page(r, live, pages)  OBVIOUS
<1> HIDE DEF p
<1>2. p \in Seq(Docs) /\ ToSet(p) \subseteq ToSet(Filtered(r, live))  BY <1>1, PageShows
<1>3. ToSet(<<>>) = {}  BY DEF ToSet
<1>4. DOMAIN p = 1 .. Len(p) /\ Len(p) \in Nat  BY <1>2, LenProperties
<1>5. DOMAIN p = {}
  <2>1. ToSet(p) = {}  BY <1>2, <1>3
  <2>2. ASSUME NEW i \in DOMAIN p PROVE p[i] \in ToSet(p)  BY DEF ToSet
  <2>3. QED  BY <2>1, <2>2
<1>6. Len(p) = 0  BY <1>4, <1>5
<1>7. QED  BY <1>1, <1>2, <1>6, EmptySeq

\* The ranks a search works with are those of the recorded links, unless it
\* finds nothing.
LEMMA RanksOfSearch ==
  ASSUME ServiceInv, NEW r \in Requests
  PROVE  /\ RankedPages(r) \in SUBSET Docs /\ RankedPages(r) \subseteq graph
         /\ ~StillDirty(r) => RankedPages(r) = graph
         /\ Filtered(r, Live) # <<>> => RankedPages(r) = graph
BY DEF ServiceInv, TypeOK, RankedPages, StillDirty

\* What a search answers is the page over the documents and links of the moment.
LEMMA SearchAnswers ==
  ASSUME ServiceAssumption, ServiceInv, NEW r \in Requests
  PROVE  Page(r, Live, RankedPages(r)) = Page(r, Live, graph)
PROOF
<1>1. RankedPages(r) \in SUBSET Docs /\ graph \in SUBSET Docs
  BY RanksOfSearch DEF ServiceInv, TypeOK
<1>2. CASE Filtered(r, Live) = <<>>
  <2>1. Page(r, Live, RankedPages(r)) = <<>> /\ Page(r, Live, graph) = <<>>
    BY <1>1, <1>2, NothingFound
  <2>2. QED  BY <2>1
<1>3. CASE Filtered(r, Live) # <<>>
  <2>1. RankedPages(r) = graph  BY <1>3, RanksOfSearch
  <2>2. QED  BY <2>1
<1>4. QED  BY <1>2, <1>3

\* The similarities a search leaves behind.
LEMMA SimsWritten ==
  ASSUME ServiceAssumption, ServiceInv, NEW r \in Requests, NEW pages \in SUBSET Docs
  PROVE  /\ FilteredSims(r, pages) \in [Legs -> [Docs -> Queries \union {NoQuery}]]
         /\ \A d \in Docs : LegOf(r, d, Live) \in Legs
         /\ r.neural => \A d \in Docs : d \in ToSet(Retrieve(r, Live, pages)) =>
              FilteredSims(r, pages)[LegOf(r, d, Live)][d] = r.query
PROOF
<1> DEFINE seen == ToSet(Retrieve(r, Live, pages))
<1>1. r.query \in Queries  BY DEF ServiceAssumption, Request
<1>2. neural_sim \in [Legs -> [Docs -> Queries \union {NoQuery}]]  BY DEF ServiceInv, TypeOK
<1>3. FilteredSims(r, pages) =
        [l \in Legs |-> [d \in Docs |->
           IF r.neural /\ d \in seen /\ LegOf(r, d, Live) = l THEN r.query ELSE neural_sim[l][d]]]
  BY DEF FilteredSims
<1>4. \A d \in Docs : LegOf(r, d, Live) \in Legs  BY DEF LegOf, Legs
<1> HIDE DEF seen
<1>5. FilteredSims(r, pages) \in [Legs -> [Docs -> Queries \union {NoQuery}]]
  BY <1>1, <1>2, <1>3
<1>6. ASSUME r.neural, NEW d \in Docs, d \in seen
      PROVE  FilteredSims(r, pages)[LegOf(r, d, Live)][d] = r.query
  BY <1>3, <1>4, <1>6
<1>7. QED  BY <1>4, <1>5, <1>6 DEF seen

\* A search that misses the cache stores a response that is right.
LEMMA SearchStep ==
  ASSUME ServiceAssumption, ServiceInv, NEW r \in Requests, Search(r)
  PROVE  ServiceInv'
PROOF
<1> DEFINE docs == Page(r, Live, RankedPages(r))
           sims == FilteredSims(r, RankedPages(r))
           items == [i \in DOMAIN docs |->
                       [doc |-> docs[i], sim |-> sims[LegOf(r, docs[i], Live)][docs[i]]]]
           entry == [items |-> items, docs |-> indexed, pages |-> graph, held |-> TRUE]
<1>1. /\ scores' = RankedPages(r) /\ dirty' = StillDirty(r) /\ neural_sim' = sims
      /\ cache' = [cache EXCEPT ![r] = entry]
      /\ UNCHANGED <<indexed, deleted, graph, job>>
  BY DEF Search, Key, index
<1>2. /\ RankedPages(r) \in SUBSET Docs /\ RankedPages(r) \subseteq graph
      /\ ~StillDirty(r) => RankedPages(r) = graph
  BY RanksOfSearch
<1>3. docs = Page(r, Live, RankedPages(r))  OBVIOUS
<1>4. docs = Page(r, Live, graph)  BY SearchAnswers
<1> HIDE DEF docs
<1>5. /\ docs \in Seq(Docs) /\ ToSet(docs) \subseteq ToSet(Retrieve(r, Live, RankedPages(r)))
      /\ ToSet(docs) \subseteq Live
  <2> DEFINE live == Live
  <2>1. docs = Page(r, live, RankedPages(r))  BY <1>3
  <2> HIDE DEF live
  <2>2. docs \in Seq(Docs)  BY <1>2, <2>1, PageShows
  <2>3. ToSet(docs) \subseteq ToSet(Retrieve(r, live, RankedPages(r)))  BY <1>2, <2>1, PageShows
  <2>4. ToSet(docs) \subseteq live \intersect Passing(r, live)  BY <1>2, <2>1, PageShows
  <2>5. QED  BY <2>2, <2>3, <2>4 DEF live
<1>6. /\ DOMAIN docs = 1 .. Len(docs) /\ Len(docs) \in Nat
      /\ \A i \in 1 .. Len(docs) : docs[i] \in Docs
  BY <1>5, LenProperties, ElementOfSeq
<1>7. /\ sims \in [Legs -> [Docs -> Queries \union {NoQuery}]]
      /\ \A d \in Docs : LegOf(r, d, Live) \in Legs
      /\ r.neural => \A d \in Docs : d \in ToSet(Retrieve(r, Live, RankedPages(r))) =>
            sims[LegOf(r, d, Live)][d] = r.query
  <2>1. sims \in [Legs -> [Docs -> Queries \union {NoQuery}]]  BY <1>2, SimsWritten
  <2>2. \A d \in Docs : LegOf(r, d, Live) \in Legs  BY <1>2, SimsWritten
  <2>3. r.neural => \A d \in Docs : d \in ToSet(Retrieve(r, Live, RankedPages(r))) =>
            sims[LegOf(r, d, Live)][d] = r.query
    BY <1>2, SimsWritten
  <2>4. QED  BY <2>1, <2>2, <2>3
<1> HIDE DEF sims
<1>8. \A i \in 1 .. Len(docs) : sims[LegOf(r, docs[i], Live)][docs[i]] \in Queries \union {NoQuery}
  BY <1>6, <1>7
<1>9. DOMAIN items = 1 .. Len(docs) /\ items \in Seq(Item)
  <2>1. items \in [1 .. Len(docs) -> Item]  BY <1>6, <1>8 DEF Item
  <2>2. items \in Seq(Item)  BY <1>6, <2>1, SeqDef
  <2>3. QED  BY <2>1, <2>2
<1>10. \A i \in 1 .. Len(docs) :
         items[i].doc = docs[i] /\ items[i].sim = sims[LegOf(r, docs[i], Live)][docs[i]]
  BY <1>6
<1> HIDE DEF items
<1>11. cache \in [Requests -> Response]  BY DEF ServiceInv, TypeOK
<1>12. entry \in Response /\ entry.items = items /\ entry.docs = indexed /\ entry.pages = graph
  BY <1>9 DEF ServiceInv, TypeOK, Response, Item
<1> HIDE DEF entry
<1>13. cache' \in [Requests -> Response]  BY <1>1, <1>11, <1>12
<1>14. \A k \in Requests : cache'[k] = IF k = r THEN entry ELSE cache[k]  BY <1>1, <1>11
<1>15. TypeOK'
  BY <1>1, <1>2, <1>7, <1>13 DEF ServiceInv, TypeOK, StillDirty
<1>16. ~dirty' => scores' = graph'  BY <1>1, <1>2
<1>17. CacheHidesDeleted'
  <2>1. ASSUME NEW i \in DOMAIN items PROVE items[i].doc \notin deleted
    <3>1. docs[i] \in Live  BY <1>5, <1>6, <1>9 DEF ToSet
    <3>2. QED  BY <1>9, <1>10, <3>1 DEF Live
  <2>2. ASSUME NEW k \in Requests, NEW i \in DOMAIN cache'[k].items
        PROVE  cache'[k].items[i].doc \notin deleted
    <3>1. CASE k = r  BY <1>12, <1>14, <2>1, <3>1
    <3>2. CASE k # r  BY <1>14, <3>2 DEF ServiceInv, CacheHidesDeleted
    <3>3. QED  BY <3>1, <3>2
  <2>3. QED  BY <1>1, <2>2 DEF CacheHidesDeleted
<1>18. SimsAreOfQuery'
  <2>1. ASSUME r.neural, NEW i \in DOMAIN items PROVE items[i].sim = r.query
    <3>1. docs[i] \in ToSet(Retrieve(r, Live, RankedPages(r))) /\ docs[i] \in Docs
      BY <1>5, <1>6, <1>9 DEF ToSet
    <3>2. QED  BY <1>7, <1>9, <1>10, <2>1, <3>1
  <2>2. ASSUME NEW k \in Requests, k.neural, NEW i \in DOMAIN cache'[k].items
        PROVE  cache'[k].items[i].sim = k.query
    <3>1. CASE k = r  BY <1>12, <1>14, <2>1, <2>2, <3>1
    <3>2. CASE k # r  BY <1>14, <2>2, <3>2 DEF ServiceInv, SimsAreOfQuery
    <3>3. QED  BY <3>1, <3>2
  <2>3. QED  BY <2>2 DEF SimsAreOfQuery
<1>19. CachedIsAnswer'
  <2>1. Shown(entry) = docs
    <3>1. Shown(entry) = [i \in 1 .. Len(docs) |-> docs[i]]  BY <1>9, <1>10, <1>12 DEF Shown
    <3>2. docs = [i \in 1 .. Len(docs) |-> docs[i]]
      <4>1. docs \in [1 .. Len(docs) -> Docs]  BY <1>5, LenProperties
      <4>2. QED  BY <4>1
    <3>3. QED  BY <3>1, <3>2
  <2>2. ASSUME NEW k \in Requests, cache'[k].held
        PROVE  Shown(cache'[k]) = Page(k, cache'[k].docs \ deleted, cache'[k].pages)
    <3>1. CASE k = r  BY <1>4, <1>12, <1>14, <2>1, <3>1 DEF Live
    <3>2. CASE k # r  BY <1>14, <2>2, <3>2 DEF ServiceInv, CachedIsAnswer, Key
    <3>3. QED  BY <3>1, <3>2
  <2>3. QED  BY <1>1, <2>2 DEF CachedIsAnswer, Key
<1>20. QED  BY <1>15, <1>16, <1>17, <1>18, <1>19 DEF ServiceInv

\* A search that raises leaves up-to-date ranks and similarities, and no response.
LEMMA SearchFailsStep ==
  ASSUME ServiceAssumption, ServiceInv, NEW r \in Requests, SearchFails(r)
  PROVE  ServiceInv'
PROOF
<1>1. /\ scores' = RankedPages(r) /\ dirty' = StillDirty(r)
      /\ neural_sim' = neural_sim \/ neural_sim' = FilteredSims(r, RankedPages(r))
      /\ UNCHANGED <<indexed, deleted, graph, cache, job>>
  BY DEF SearchFails, index
<1>2. /\ RankedPages(r) \in SUBSET Docs /\ RankedPages(r) \subseteq graph
      /\ ~StillDirty(r) => RankedPages(r) = graph
  BY RanksOfSearch
<1>3. neural_sim' \in [Legs -> [Docs -> Queries \union {NoQuery}]]
  <2>1. FilteredSims(r, RankedPages(r)) \in [Legs -> [Docs -> Queries \union {NoQuery}]]
    BY <1>2, SimsWritten
  <2>2. neural_sim \in [Legs -> [Docs -> Queries \union {NoQuery}]]  BY DEF ServiceInv, TypeOK
  <2>3. QED  BY <1>1, <2>1, <2>2
<1>4. TypeOK'  BY <1>1, <1>2, <1>3 DEF ServiceInv, TypeOK, StillDirty
<1>5. CacheHidesDeleted' /\ CachedIsAnswer' /\ SimsAreOfQuery'  BY <1>1, CacheStaysRight
<1>6. QED  BY <1>1, <1>2, <1>4, <1>5 DEF ServiceInv

\* An entry that is forgotten leaves the others as they are.
LEMMA ForgetStep ==
  ASSUME ServiceInv, NEW r \in Requests, Forget(r)
  PROVE  ServiceInv'
PROOF
<1>1. cache \in [Requests -> Response]  BY DEF ServiceInv, TypeOK
<1>2. NoEntry \in Response
  <2>1. <<>> \in Seq(Item)  OBVIOUS
  <2>2. QED  BY <2>1 DEF NoEntry, Response, Item
<1>3. NoEntry.items = <<>> /\ ~NoEntry.held /\ DOMAIN <<>> = {}  BY DEF NoEntry
<1>4. cache' = [cache EXCEPT ![r] = NoEntry]  BY DEF Forget
<1> HIDE DEF NoEntry
<1>5. \A k \in Requests : cache'[k] = IF k = r THEN NoEntry ELSE cache[k]  BY <1>1, <1>4
<1>6. cache' \in [Requests -> Response]  BY <1>1, <1>2, <1>4
<1>7. UNCHANGED <<indexed, deleted, graph, dirty, scores, neural_sim, job>>
  BY DEF Forget, index, links
<1>8. TypeOK'  BY <1>6, <1>7 DEF ServiceInv, TypeOK
<1>9. ~dirty' => scores' = graph'  BY <1>7 DEF ServiceInv
<1>10. CacheHidesDeleted'  BY <1>3, <1>5, <1>7 DEF ServiceInv, CacheHidesDeleted
<1>11. SimsAreOfQuery'  BY <1>3, <1>5 DEF ServiceInv, SimsAreOfQuery
<1>12. CachedIsAnswer'  BY <1>3, <1>5, <1>7 DEF ServiceInv, CachedIsAnswer, Key
<1>13. QED  BY <1>8, <1>9, <1>10, <1>11, <1>12 DEF ServiceInv

\* A job that only changes its own state.
LEMMA JobStateStep ==
  ASSUME ServiceInv, NEW j \in Jobs, NEW s \in JobStates, job' = [job EXCEPT ![j] = s],
         UNCHANGED <<index, links, neural_sim, cache>>
  PROVE  ServiceInv'
PROOF
<1>1. UNCHANGED <<indexed, deleted, graph, dirty, scores, neural_sim, cache>>  BY DEF index, links
<1>2. TypeOK'  BY <1>1 DEF ServiceInv, TypeOK
<1>3. CacheHidesDeleted' /\ CachedIsAnswer' /\ SimsAreOfQuery'  BY <1>1, CacheStaysRight
<1>4. QED  BY <1>1, <1>2, <1>3 DEF ServiceInv

\* The inductive step.
LEMMA ServiceStep ==
  ASSUME ServiceAssumption, ServiceInv, [Next]_vars
  PROVE  ServiceInv'
PROOF
<1>1. ASSUME NEW r \in Requests, Search(r) PROVE ServiceInv'  BY <1>1, SearchStep
<1>2. ASSUME NEW r \in Requests, Forget(r) PROVE ServiceInv'  BY <1>2, ForgetStep
<1>3. ASSUME NEW j \in Jobs, Queue(j) PROVE ServiceInv'
  <2>1. "pending" \in JobStates  BY DEF JobStates
  <2>2. job' = [job EXCEPT ![j] = "pending"] /\ UNCHANGED <<index, links, neural_sim, cache>>
    BY <1>3 DEF Queue
  <2>3. QED  BY <2>1, <2>2, JobStateStep
<1>4. ASSUME NEW j \in Jobs, StartJob(j) PROVE ServiceInv'
  <2>1. "running" \in JobStates  BY DEF JobStates
  <2>2. job' = [job EXCEPT ![j] = "running"] /\ UNCHANGED <<index, links, neural_sim, cache>>
    BY <1>4 DEF StartJob
  <2>3. QED  BY <2>1, <2>2, JobStateStep
<1>5. ASSUME NEW j \in Jobs, UrlDone(j) PROVE ServiceInv'
  <2>1. "done" \in JobStates  BY DEF JobStates
  <2>2. job' = [job EXCEPT ![j] = "done"] /\ UNCHANGED <<index, links, neural_sim, cache>>
    BY <1>5 DEF UrlDone
  <2>3. QED  BY <2>1, <2>2, JobStateStep
<1>6. ASSUME NEW j \in Jobs, JobFails(j) PROVE ServiceInv'
  <2>1. "failed" \in JobStates  BY DEF JobStates
  <2>2. job' = [job EXCEPT ![j] = "failed"] /\ UNCHANGED <<index, links, neural_sim, cache>>
    BY <1>6 DEF JobFails
  <2>3. QED  BY <2>1, <2>2, JobStateStep
<1>7. ASSUME NEW j \in Jobs, BatchDone(j) PROVE ServiceInv'
  <2>1. /\ UNCHANGED <<indexed, deleted, graph, dirty, scores, neural_sim>>
        /\ job' = [job EXCEPT ![j] = "done"] /\ (cache' = Empty \/ cache' = cache)
    BY <1>7 DEF BatchDone, index, links
  <2>2. CASE cache' = Empty
    <3>1. /\ cache' \in [Requests -> Response]
          /\ CacheHidesDeleted' /\ CachedIsAnswer' /\ SimsAreOfQuery'
      BY <2>2, EmptyIsRight
    <3>2. TypeOK'  BY <2>1, <3>1 DEF ServiceInv, TypeOK, JobStates
    <3>3. QED  BY <2>1, <3>1, <3>2 DEF ServiceInv
  <2>3. CASE cache' = cache
    <3>1. "done" \in JobStates  BY DEF JobStates
    <3>2. UNCHANGED <<index, links, neural_sim, cache>>  BY <2>1, <2>3 DEF index, links
    <3>3. QED  BY <2>1, <3>1, <3>2, JobStateStep
  <2>4. QED  BY <2>1, <2>2, <2>3
<1>8. ASSUME NEW j \in Jobs, NEW d \in JobDocs[j], RecordLinks(j, d) PROVE ServiceInv'
  <2>1. d \in Docs  BY DEF ServiceAssumption
  <2>2. /\ graph' = graph \union {d} /\ dirty' = TRUE
        /\ UNCHANGED <<indexed, deleted, scores, neural_sim, cache, job>>
    BY <1>8 DEF RecordLinks, index
  <2>3. TypeOK'  BY <2>1, <2>2 DEF ServiceInv, TypeOK
  <2>4. CacheHidesDeleted' /\ CachedIsAnswer' /\ SimsAreOfQuery'  BY <2>2, CacheStaysRight
  <2>5. QED  BY <2>2, <2>3, <2>4 DEF ServiceInv
<1>9. ASSUME NEW j \in Jobs, NEW d \in JobDocs[j], IndexDoc(j, d) PROVE ServiceInv'
  <2>1. d \in Docs  BY DEF ServiceAssumption
  <2>2. /\ indexed' = indexed \union {d}
        /\ UNCHANGED <<deleted, graph, dirty, scores, neural_sim, cache, job>>
    BY <1>9 DEF IndexDoc, links
  <2>3. TypeOK'  BY <2>1, <2>2 DEF ServiceInv, TypeOK
  <2>4. CacheHidesDeleted' /\ CachedIsAnswer' /\ SimsAreOfQuery'  BY <2>2, CacheStaysRight
  <2>5. QED  BY <2>2, <2>3, <2>4 DEF ServiceInv
<1>10. ASSUME NEW d \in Docs, Delete(d) PROVE ServiceInv'
  <2>1. /\ d \in indexed /\ deleted' = deleted \union {d} /\ cache' = Empty
        /\ UNCHANGED <<indexed, graph, dirty, scores, neural_sim, job>>
    BY <1>10 DEF Delete, links
  <2>2. /\ cache' \in [Requests -> Response]
        /\ CacheHidesDeleted' /\ CachedIsAnswer' /\ SimsAreOfQuery'
    BY <2>1, EmptyIsRight
  <2>3. TypeOK'  BY <2>1, <2>2 DEF ServiceInv, TypeOK
  <2>4. QED  BY <2>1, <2>2, <2>3 DEF ServiceInv
<1>11. ASSUME Restart PROVE ServiceInv'
  <2>1. /\ graph' = {} /\ dirty' = TRUE /\ scores' = {} /\ cache' = Empty
        /\ job' = [j \in Jobs |-> IF job[j] = "new" THEN "new" ELSE "over"]
        /\ UNCHANGED <<indexed, deleted, neural_sim>>
    BY <1>11 DEF Restart, index
  <2>2. /\ cache' \in [Requests -> Response]
        /\ CacheHidesDeleted' /\ CachedIsAnswer' /\ SimsAreOfQuery'
    BY <2>1, EmptyIsRight
  <2>3. TypeOK'  BY <2>1, <2>2 DEF ServiceInv, TypeOK, JobStates
  <2>4. QED  BY <2>1, <2>2, <2>3 DEF ServiceInv
<1>12. CASE UNCHANGED vars
  <2>1. /\ UNCHANGED <<indexed, deleted, graph, dirty, scores, neural_sim, cache, job>>
    BY <1>12 DEF vars
  <2>2. TypeOK'  BY <2>1 DEF ServiceInv, TypeOK
  <2>3. CacheHidesDeleted' /\ CachedIsAnswer' /\ SimsAreOfQuery'  BY <2>1, CacheStaysRight
  <2>4. QED  BY <2>1, <2>2, <2>3 DEF ServiceInv
<1>13. ASSUME NEW r \in Requests, SearchFails(r) PROVE ServiceInv'  BY <1>13, SearchFailsStep
<1>14. QED
  BY <1>1, <1>2, <1>3, <1>4, <1>5, <1>6, <1>7, <1>8, <1>9, <1>10, <1>11, <1>12, <1>13
     DEF Next, JobStep

\* The server starts with an empty index and an empty cache.
LEMMA ServiceInit == ServiceAssumption /\ Init => ServiceInv
PROOF
<1> SUFFICES ASSUME ServiceAssumption, Init PROVE ServiceInv
  OBVIOUS
<1>1. \A r \in Requests : cache[r] = NoEntry  BY DEF Init, Empty
<1>2. NoEntry \in Response
  <2>1. <<>> \in Seq(Item)  OBVIOUS
  <2>2. QED  BY <2>1 DEF NoEntry, Response, Item
<1>3. NoEntry.items = <<>> /\ ~NoEntry.held /\ DOMAIN <<>> = {}  BY DEF NoEntry
<1>4. cache \in [Requests -> Response]  BY <1>2 DEF Init, Empty
<1>5. TypeOK  BY <1>4 DEF Init, TypeOK, NoSims, JobStates
<1>6. CacheHidesDeleted  BY <1>1, <1>3 DEF CacheHidesDeleted
<1>7. SimsAreOfQuery  BY <1>1, <1>3 DEF SimsAreOfQuery
<1>8. CachedIsAnswer  BY <1>1, <1>3 DEF CachedIsAnswer, Key
<1>9. dirty  BY DEF Init
<1>10. QED  BY <1>5, <1>6, <1>7, <1>8, <1>9 DEF ServiceInv

\* The invariant holds in every state.
LEMMA ServiceAlways == Spec => []ServiceInv
PROOF
<1>1. Init => ServiceInv  BY ServiceAssumption, ServiceInit
<1>2. ServiceInv /\ [Next]_vars => ServiceInv'  BY ServiceAssumption, ServiceStep
<1>3. QED  BY <1>1, <1>2, PTL DEF Spec

\* Every variable has its type; in particular only indexed documents are
\* deleted and the ranks are those of pages whose links are recorded.
THEOREM TypeCorrect == Spec => []TypeOK
PROOF
<1>1. ServiceInv => TypeOK  BY DEF ServiceInv
<1>2. QED  BY <1>1, ServiceAlways, PTL

\* No response in the cache shows a deleted document (README.md:21): DELETE
\* empties the cache in the step that sets the tombstone.
THEOREM CacheHidesDeletedCorrect == Spec => []CacheHidesDeleted
PROOF
<1>1. ServiceInv => CacheHidesDeleted  BY DEF ServiceInv
<1>2. QED  BY <1>1, ServiceAlways, PTL

\* A cached response is the page its own request gets over the documents and
\* links there were, with PageRank up to date whenever it mattered.
THEOREM CachedIsAnswerCorrect == Spec => []CachedIsAnswer
PROOF
<1>1. ServiceInv => CachedIsAnswer  BY DEF ServiceInv
<1>2. QED  BY <1>1, ServiceAlways, PTL

\* A cached response to a search with the neural filter shows similarities to
\* its own query, though they pass through metadata that all searches share.
THEOREM SimsAreOfQueryCorrect == Spec => []SimsAreOfQuery
PROOF
<1>1. ServiceInv => SimsAreOfQuery  BY DEF ServiceInv
<1>2. QED  BY <1>1, ServiceAlways, PTL

-----------------------------------------------------------------------------
(* The page a search shows *)

\* The list that a search is cut from, with the ranks of all recorded links.
Whole(r) == SortFused(r, Live, graph, Filtered(r, Live))

\* It holds every candidate once, each at the place its true score gives it.
LEMMA WholeIs ==
  ASSUME ServiceAssumption, graph \in SUBSET Docs, NEW r \in Requests,
         NEW t, t = Whole(r)
  PROVE  /\ t \in Seq(Docs) /\ IsInjective(t)
         /\ ToSet(t) = ToSet(Fused(r.query, Live)) \intersect Passing(r, Live)
         /\ \A k \in 1 .. Len(t) : Before(r, t[k]) = k - 1
PROOF
<1> DEFINE docs == Filtered(r, Live)
           fused == Fused(r.query, Live)
           R == BeatsIn(r, Live, graph, docs)
<1>1. r.query \in Queries  BY DEF ServiceAssumption, Request
<1>2. fused \in Seq(Docs) /\ IsInjective(fused)  BY <1>1, FusedIs
<1>3. docs = Only(fused, Passing(r, Live))  BY DEF Filtered
<1>4. t = SortFused(r, Live, graph, docs)  BY DEF Whole
<1>5. R = BeatsIn(r, Live, graph, docs)  OBVIOUS
<1>6. \A d, e : <<d, e>> \in R <=> d \in ToSet(docs) /\ e \in ToSet(docs)
                                 /\ Beats(r, Live, graph, docs, d, e)
  BY DEF BeatsIn
<1>7. \A d : Before(r, d) = Cardinality({e \in ToSet(fused) \intersect Passing(r, Live) :
                                          Beats(r, Live, graph, fused, e, d)})
  BY DEF Before, Beats
<1>8. \A d, e : (Rank(docs, e) < Rank(docs, d) <=> Rank(fused, e) < Rank(fused, d)) =>
         (Beats(r, Live, graph, docs, e, d) <=> Beats(r, Live, graph, fused, e, d))
  BY DEF Beats
<1> HIDE DEF docs, fused, R
<1>9. docs \in Seq(Docs) /\ IsInjective(docs) /\ ToSet(docs) = ToSet(fused) \intersect Passing(r, Live)
  BY <1>2, <1>3, OnlyIs
<1>10. Arranges(t, docs, Docs)  BY <1>4, <1>9, SortFusedIs
<1>11. t \in Seq(Docs) /\ IsInjective(t) /\ Len(t) = Len(docs) /\ ToSet(t) = ToSet(docs)
  BY <1>10 DEF Arranges
<1>12. DOMAIN docs = 1 .. Len(docs) /\ DOMAIN t = 1 .. Len(t)  BY <1>9, <1>11, LenProperties
<1>13. \A i, j \in 1 .. Len(t) : i < j => <<t[i], t[j]>> \in R
  <2>1. \A i, j \in DOMAIN docs : i < j => <<t[i], t[j]>> \in BeatsIn(r, Live, graph, docs)
    BY <1>4, <1>9, SortFusedIs
  <2>2. QED  BY <1>5, <1>11, <1>12, <2>1
<1>14. Strict(R, ToSet(t))
  <2>1. Strict(BeatsIn(r, Live, graph, docs), ToSet(docs))  BY <1>9, BeatsStrict
  <2>2. QED  BY <1>5, <1>11, <2>1
<1>15. ASSUME NEW k \in 1 .. Len(t) PROVE Before(r, t[k]) = k - 1
  <2>1. Cardinality({e \in ToSet(t) : <<e, t[k]>> \in R}) = k - 1
    BY ONLY <1>11, <1>13, <1>14, k \in 1 .. Len(t), CountIs
  <2>2. t[k] \in ToSet(docs)  BY <1>11, <1>12 DEF ToSet
  <2>3. ASSUME NEW e \in ToSet(docs)
        PROVE  <<e, t[k]>> \in R <=> Beats(r, Live, graph, fused, e, t[k])
    <3>1. Rank(docs, e) < Rank(docs, t[k]) <=> Rank(fused, e) < Rank(fused, t[k])
      BY <1>2, <1>3, <2>2, OnlyRanks
    <3>2. QED  BY <1>6, <1>8, <2>2, <3>1
  <2>4. {e \in ToSet(fused) \intersect Passing(r, Live) : Beats(r, Live, graph, fused, e, t[k])}
          = {e \in ToSet(t) : <<e, t[k]>> \in R}
    BY <1>9, <1>11, <2>3
  <2>5. QED  BY <1>7, <2>1, <2>4
<1>16. QED  BY <1>9, <1>11, <1>15 DEF fused

\* What a page shows, place by place.
LEMMA PageRight ==
  ASSUME ServiceAssumption, graph \in SUBSET Docs, NEW r \in Requests,
         NEW page, page = Page(r, Live, graph)
  PROVE  /\ IsInjective(page) /\ Len(page) <= r.top_k
         /\ \A i \in DOMAIN page :
              /\ page[i] \in Live \intersect Passing(r, Live)
              /\ r.neural => page[i] \in Close[r.query]
              /\ Before(r, page[i]) < Wanted(r)
         /\ r.rerank => \A i, k \in DOMAIN page :
              i < k => Rank(Cross[r.query], page[i]) < Rank(Cross[r.query], page[k])
         /\ ~r.rerank /\ ~r.neural =>
              \A d \in ToSet(Fused(r.query, Live)) \intersect Passing(r, Live) :
                \A n \in 1 .. r.top_k :
                  Before(r, d) = r.offset + n - 1 <=> n \in DOMAIN page /\ page[n] = d
PROOF
<1> DEFINE w == SecondStage(r, Live, graph)
           found == Retrieve(r, Live, graph)
           t == Whole(r)
<1>1. w = SecondStage(r, Live, graph) /\ found = Retrieve(r, Live, graph) /\ t = Whole(r)
  OBVIOUS
<1>2. found = Best(Wanted(r), t)  BY DEF Retrieve, Whole
<1>3. /\ r.offset \in Nat /\ r.top_k \in Nat \ {0} /\ r.query \in Queries
      /\ r.neural \in BOOLEAN /\ r.rerank \in BOOLEAN
  BY DEF ServiceAssumption, Request
<1>4. /\ Window(r) = r.offset + r.top_k /\ Window(r) \in Nat /\ Wanted(r) \in Nat
      /\ ~r.rerank => Wanted(r) = Window(r)
  BY <1>3 DEF Window, Wanted
<1> HIDE DEF w, found, t
<1>5. /\ t \in Seq(Docs) /\ IsInjective(t)
      /\ ToSet(t) = ToSet(Fused(r.query, Live)) \intersect Passing(r, Live)
      /\ \A k \in 1 .. Len(t) : Before(r, t[k]) = k - 1
  BY <1>1, WholeIs
<1>6. /\ found \in Seq(Docs)
      /\ Len(found) = IF Wanted(r) < Len(t) THEN Wanted(r) ELSE Len(t)
      /\ \A i \in 1 .. Len(found) : i \in 1 .. Len(t) /\ found[i] = t[i]
  BY <1>2, <1>4, <1>5, BestIs
<1>7. /\ w \in Seq(Docs) /\ ToSet(w) \subseteq ToSet(found)
      /\ r.rerank => \A i, j \in 1 .. Len(w) :
           i < j => Rank(Cross[r.query], w[i]) < Rank(Cross[r.query], w[j])
      /\ ~r.neural /\ ~r.rerank =>
           /\ Len(w) = IF Window(r) < Len(found) THEN Window(r) ELSE Len(found)
           /\ \A i \in 1 .. Len(w) : w[i] = found[i]
  BY <1>1, SecondStageIs
<1>8. /\ page \in Seq(Docs)
      /\ Len(page) = IF r.offset < Len(w) THEN Len(w) - r.offset ELSE 0
      /\ \A i \in 1 .. Len(page) : r.offset + i \in 1 .. Len(w) /\ page[i] = w[r.offset + i]
  BY <1>1, PageIs
<1>9. /\ IsInjective(page) /\ Len(page) <= r.top_k /\ ToSet(page) \subseteq ToSet(found)
      /\ ToSet(page) \subseteq Live \intersect Passing(r, Live)
      /\ r.neural => ToSet(page) \subseteq Close[r.query]
  BY <1>1, PageShows
<1>10. /\ DOMAIN page = 1 .. Len(page) /\ Len(page) \in Nat /\ DOMAIN t = 1 .. Len(t)
       /\ Len(t) \in Nat /\ DOMAIN found = 1 .. Len(found) /\ Len(w) \in Nat
       /\ Len(found) \in Nat
  BY <1>5, <1>6, <1>7, <1>8, LenProperties
<1>11. ASSUME NEW i \in DOMAIN page
       PROVE  /\ page[i] \in Live \intersect Passing(r, Live)
              /\ r.neural => page[i] \in Close[r.query]
              /\ Before(r, page[i]) < Wanted(r)
  <2>1. page[i] \in ToSet(page)  BY DEF ToSet
  <2>2. PICK k \in 1 .. Len(found) : page[i] = found[k]
    <3>1. page[i] \in ToSet(found)  BY <1>9, <2>1
    <3>2. QED  BY <1>10, <3>1 DEF ToSet
  <2>3. Before(r, page[i]) = k - 1  BY <1>5, <1>6, <2>2
  <2>4. k \in Nat /\ k <= Wanted(r)  BY <1>4, <1>6, <1>10
  <2>5. Before(r, page[i]) < Wanted(r)  BY <1>4, <2>3, <2>4
  <2>6. QED  BY <1>9, <2>1, <2>5
<1>12. ASSUME r.rerank, NEW i \in DOMAIN page, NEW k \in DOMAIN page, i < k
       PROVE  Rank(Cross[r.query], page[i]) < Rank(Cross[r.query], page[k])
  <2>1. r.offset + i \in 1 .. Len(w) /\ page[i] = w[r.offset + i]  BY <1>8, <1>10
  <2>2. r.offset + k \in 1 .. Len(w) /\ page[k] = w[r.offset + k]  BY <1>8, <1>10
  <2>3. i \in Nat /\ k \in Nat  BY <1>10
  <2>4. r.offset + i < r.offset + k  BY <1>3, <1>12, <2>3
  <2>5. QED  BY <1>7, <1>12, <2>1, <2>2, <2>4
<1>13. ASSUME ~r.rerank, ~r.neural, NEW d \in ToSet(Fused(r.query, Live)) \intersect Passing(r, Live),
              NEW n \in 1 .. r.top_k
       PROVE  Before(r, d) = r.offset + n - 1 <=> n \in DOMAIN page /\ page[n] = d
  <2>1. PICK k \in 1 .. Len(t) : d = t[k]
    <3>1. d \in ToSet(t)  BY <1>5
    <3>2. QED  BY <1>10, <3>1 DEF ToSet
  <2>2. Before(r, d) = k - 1  BY <1>5, <2>1
  <2>3. /\ Len(w) = IF Window(r) < Len(t) THEN Window(r) ELSE Len(t)
        /\ \A i \in 1 .. Len(w) : i \in 1 .. Len(t) /\ w[i] = t[i]
    <3>1. /\ Len(found) = IF Window(r) < Len(t) THEN Window(r) ELSE Len(t)
          /\ Len(w) = IF Window(r) < Len(found) THEN Window(r) ELSE Len(found)
          /\ \A i \in 1 .. Len(w) : w[i] = found[i]
      BY <1>4, <1>6, <1>7, <1>13
    <3>2. Len(w) = Len(found)  BY <1>4, <1>10, <3>1
    <3>3. QED  BY <1>6, <3>1, <3>2
  <2>4. n \in Nat /\ 1 <= n /\ n <= r.top_k /\ k \in Nat /\ 1 <= k /\ k <= Len(t)
    BY <1>3, <1>10
  <2>5. ASSUME Before(r, d) = r.offset + n - 1 PROVE n \in DOMAIN page /\ page[n] = d
    <3>1. k = r.offset + n
      <4> DEFINE o == r.offset
      <4>1. k - 1 = o + n - 1  BY <2>2, <2>5
      <4>2. o \in Nat /\ n \in Nat /\ k \in Nat  BY <1>3, <2>4
      <4> HIDE DEF o
      <4>3. k = o + n  BY ONLY <4>1, <4>2
      <4>4. QED  BY <4>3 DEF o
    <3>2. k <= Len(w) /\ k \in 1 .. Len(w)  BY <1>3, <1>4, <1>10, <2>3, <2>4, <3>1
    <3>3. r.offset < Len(w) /\ n <= Len(w) - r.offset  BY <1>3, <1>10, <2>4, <3>1, <3>2
    <3>4. Len(page) = Len(w) - r.offset  BY <1>8, <3>3
    <3>5. n \in 1 .. Len(page)  BY <1>3, <1>10, <2>4, <3>3, <3>4
    <3>6. page[n] = w[k] /\ w[k] = t[k]  BY <1>8, <2>3, <3>1, <3>2, <3>5
    <3>7. QED  BY <1>10, <2>1, <3>5, <3>6
  <2>6. ASSUME n \in DOMAIN page, page[n] = d PROVE Before(r, d) = r.offset + n - 1
    <3>1. r.offset + n \in 1 .. Len(w) /\ page[n] = w[r.offset + n]  BY <1>8, <1>10, <2>6
    <3>2. r.offset + n \in 1 .. Len(t) /\ d = t[r.offset + n]  BY <2>3, <2>6, <3>1
    <3> DEFINE k2 == r.offset + n
    <3>3. k2 \in 1 .. Len(t) /\ d = t[k2]  BY <3>2
    <3> HIDE DEF k2
    <3>4. Before(r, t[k2]) = k2 - 1  BY <1>5, <3>3
    <3>5. Before(r, d) = k2 - 1  BY <3>3, <3>4
    <3>6. k2 - 1 = r.offset + n - 1
      <4> DEFINE o == r.offset
      <4>1. o \in Nat /\ n \in Nat /\ k2 = o + n  BY <1>3, <2>4 DEF k2
      <4> HIDE DEF o
      <4>2. k2 - 1 = o + n - 1  BY ONLY <4>1
      <4>3. QED  BY <4>2 DEF o
    <3>7. QED  BY <3>5, <3>6
  <2>7. QED  BY <2>5, <2>6
<1>14. QED  BY <1>9, <1>11, <1>12, <1>13

\* Whatever was indexed, linked and deleted in whatever order, a page shows no
\* document twice and none that is deleted, filtered out or dissimilar, and,
\* without a second stage, exactly the candidates whose scores place them on it.
THEOREM PageIsRightCorrect == Spec => []PageIsRight
PROOF
<1>1. ASSUME ServiceInv PROVE PageIsRight
  <2>1. graph \in SUBSET Docs  BY <1>1 DEF ServiceInv, TypeOK
  <2>2. ASSUME NEW r \in Requests
        PROVE  Page(r, Live, RankedPages(r)) = Page(r, Live, graph)
    BY <1>1, ServiceAssumption, SearchAnswers
  <2>3. ASSUME NEW r \in Requests, NEW page, page = Page(r, Live, graph)
        PROVE  /\ IsInjective(page) /\ Len(page) <= r.top_k
               /\ \A i \in DOMAIN page :
                    /\ page[i] \in Live \intersect Passing(r, Live)
                    /\ r.neural => page[i] \in Close[r.query]
                    /\ Before(r, page[i]) < Wanted(r)
               /\ r.rerank => \A i, k \in DOMAIN page :
                    i < k => Rank(Cross[r.query], page[i]) < Rank(Cross[r.query], page[k])
               /\ ~r.rerank /\ ~r.neural =>
                    \A d \in ToSet(Fused(r.query, Live)) \intersect Passing(r, Live) :
                      \A n \in 1 .. r.top_k :
                        Before(r, d) = r.offset + n - 1 <=> n \in DOMAIN page /\ page[n] = d
    BY <2>1, <2>3, ServiceAssumption, PageRight
  <2>4. QED  BY <2>2, <2>3 DEF PageIsRight
<1>2. QED  BY <1>1, ServiceAlways, PTL
=============================================================================
