------------------------------ MODULE DocIndex ------------------------------
(***************************************************************************)
(* The document index of Axon Search: BM25Index and VectorStore, which     *)
(* number documents alike; the near-duplicate filter every crawl job       *)
(* passes its pages through; DELETE /index/url; and the files the indices  *)
(* are saved to at shutdown and loaded from at startup.                    *)
(*                                                                         *)
(* All of it runs on one event loop, so code between two awaits is one     *)
(* step.  The awaits that matter here are the executor call that embeds a  *)
(* batch (between Gate and Flush) and the queue between the stages.        *)
(***************************************************************************)
EXTENDS Lists

CONSTANTS
  Urls, Texts,   \* page addresses, and page texts up to tokenisation
  Near,          \* pairs of texts whose MinHash signatures share an LSH band
  Jobs,          \* crawl jobs one process lifetime may start
  EmbedBatch,    \* pages per embedding call
  IndexTypes,    \* settings of VECTOR_INDEX_TYPE: "flat", "hnsw", "ivf"
  TrainAt,       \* vectors an IVF index needs at once to train: nlist * 10
  CrashPoints,   \* phases in which the process may be killed
  MaxDocs        \* bound: documents admitted over all lifetimes

Files  == {"bm25", "faiss", "meta"}
Saving == {"bm25", "bm25_saved", "faiss", "faiss_saved", "meta"}
Phases == {"up", "down"} \union Saving
Mixing == {"bm25_saved", "faiss_saved", "meta"}   \* a file is complete, a later one is not

ASSUME NearAssumption ==
  /\ Near \subseteq Texts \X Texts
  /\ \A t \in Texts : <<t, t>> \in Near
  /\ \A s, t \in Texts : <<s, t>> \in Near => <<t, s>> \in Near
ASSUME ConstantAssumption ==
  /\ IndexTypes \subseteq {"flat", "hnsw", "ivf"}
  /\ EmbedBatch \in Nat \ {0}
  /\ TrainAt \in Nat /\ MaxDocs \in Nat
  /\ CrashPoints \subseteq Phases \ {"down"}

VARIABLES
  corpus, url_to_id, deleted,   \* BM25Index: documents, newest id per URL, tombstones
  dirty, built,                 \* BM25Index: the scorer is stale; documents it covers
  rows, doc_ids, vdeleted,      \* VectorStore: FAISS rows, their doc ids, tombstones
  index_type,                   \* VectorStore: the same in every start
  seen,                         \* DedupFilter: texts in the LSH
  job, pending,                 \* per job: its stage, and its pages not yet indexed
  phase, file, disk,            \* the process, its three files and what they hold;
                                \* disk.mixed, history: files of two saves
  base                          \* history: documents loaded by the last start

bm25  == <<corpus, url_to_id, deleted>>
store == <<rows, doc_ids, vdeleted, index_type>>
vars  == <<corpus, url_to_id, deleted, dirty, built, rows, doc_ids, vdeleted,
           index_type, seen, job, pending, phase, file, disk, base>>

Pages == [url : Urls, text : Texts]
NoId  == -1                     \* url_to_id.get(url) is None
NoUrl == [u \in Urls |-> NoId]

\* "running": all stages run; "draining": extraction has posted its sentinel;
\* "zombie": indexing failed, the crawl and extract stages still run.
JobStates == {"idle", "running", "draining", "zombie", "over"}

TypeOK ==
  /\ corpus \in Seq(Pages) /\ url_to_id \in [Urls -> Nat \union {NoId}]
  /\ deleted \subseteq Nat
  /\ dirty \in BOOLEAN /\ built \in Nat
  /\ rows \in Seq(Texts) /\ doc_ids \in Seq(Nat) /\ vdeleted \subseteq Nat
  /\ index_type \in IndexTypes
  /\ seen \subseteq Texts
  /\ job \in [Jobs -> JobStates] /\ pending \in [Jobs -> Seq(Pages)]
  /\ phase \in Phases /\ file \in [Files -> {"none", "torn", "ok"}]
  /\ disk \in [corpus : Seq(Pages), url_to_id : [Urls -> Nat \union {NoId}],
               deleted : SUBSET Nat, rows : Seq(Texts), doc_ids : Seq(Nat),
               vdeleted : SUBSET Nat, mixed : BOOLEAN]
  /\ base \in Nat

Memory == <<corpus, url_to_id, deleted, dirty, built, rows, doc_ids, vdeleted,
            index_type, seen, job, pending, base>>

Init ==
  /\ corpus = <<>> /\ url_to_id = NoUrl /\ deleted = {}
  /\ dirty = FALSE /\ built = 0
  /\ rows = <<>> /\ doc_ids = <<>> /\ vdeleted = {} /\ index_type \in IndexTypes
  /\ seen = {}
  /\ job = [j \in Jobs |-> "idle"] /\ pending = [j \in Jobs |-> <<>>]
  /\ base = 0
  /\ phase = "down"
  /\ file = [f \in Files |-> "none"]
  /\ disk = [corpus |-> <<>>, url_to_id |-> NoUrl, deleted |-> {},
             rows |-> <<>>, doc_ids |-> <<>>, vdeleted |-> {}, mixed |-> FALSE]

-----------------------------------------------------------------------------
(* Crawl jobs *)

StartJob(j) ==
  /\ phase = "up" /\ job[j] = "idle"
  /\ job' = [job EXCEPT ![j] = "running"]
  /\ UNCHANGED <<bm25, dirty, built, store, seen, pending, phase, file, disk, base>>

\* Mutation: the gate looks in the index instead of the filter's own memory.
DuplicateOfIndexed(t) == \E i \in 1 .. Len(corpus) : <<corpus[i].text, t>> \in Near

Duplicate(t) == \E s \in seen : <<s, t>> \in Near

\* A page reaches the dedup gate and, if it is new, the extract queue.  The
\* queue of a failed job has no reader: the page is marked seen and lost.
Gate(j, p) ==
  /\ phase = "up" /\ job[j] \in {"running", "zombie"}
  /\ base + Cardinality(seen) < MaxDocs
  /\ ~Duplicate(p.text)
  /\ seen' = seen \union {p.text}
  /\ pending' = IF job[j] = "zombie" THEN pending
                ELSE [pending EXCEPT ![j] = Append(@, p)]
  /\ UNCHANGED <<bm25, dirty, built, store, job, phase, file, disk, base>>

\* The last extraction task of the job has ended.
EndExtract(j) ==
  /\ phase = "up" /\ job[j] \in {"running", "zombie"}
  /\ job' = [job EXCEPT ![j] = IF @ = "running" THEN "draining" ELSE "over"]
  /\ UNCHANGED <<bm25, dirty, built, store, seen, pending, phase, file, disk, base>>

\* The index stage has a full batch, or the sentinel and a remainder.
BatchReady(j) ==
  /\ phase = "up"
  /\ \/ job[j] = "running"  /\ Len(pending[j]) >= EmbedBatch
     \/ job[j] = "draining" /\ Len(pending[j]) > 0

Batch(j) == SubSeq(pending[j], 1, IF Len(pending[j]) < EmbedBatch
                                  THEN Len(pending[j]) ELSE EmbedBatch)

\* Mutation: a known URL keeps its first id.
NewestIdsStale(ps) == [u \in Urls |-> IF url_to_id[u] # NoId THEN url_to_id[u] ELSE
                         IF \E i \in DOMAIN ps : ps[i].url = u THEN Len(corpus) ELSE NoId]

\* url_to_id after adding ps: the last page of a URL wins.
NewestIds(ps) ==
  [u \in Urls |->
     IF \E i \in DOMAIN ps : ps[i].url = u
     THEN Len(corpus) - 1 + (CHOOSE i \in DOMAIN ps :
             ps[i].url = u /\ \A k \in DOMAIN ps : ps[k].url = u => k <= i)
     ELSE url_to_id[u]]

BM25Add(ps) ==
  /\ corpus' = corpus \o ps
  /\ url_to_id' = NewestIds(ps)
  /\ dirty' = TRUE
  /\ UNCHANGED <<deleted, built>>

\* Vectors are added one at a time, so an IVF index must be trainable from
\* its present rows and one more; else FAISS refuses the vector.
VectorAddWorks == index_type = "ivf" => Len(rows) + 1 >= TrainAt

\* Mutation: ids taken before BM25 has grown.
VectorAddOffByOne(ps) ==
  /\ rows' = rows \o [i \in DOMAIN ps |-> ps[i].text]
  /\ doc_ids' = doc_ids \o [i \in DOMAIN ps |-> Len(corpus) + i - 2]
  /\ UNCHANGED <<vdeleted, index_type>>

VectorAdd(ps) ==
  /\ rows' = rows \o [i \in DOMAIN ps |-> ps[i].text]
  /\ doc_ids' = doc_ids \o [i \in DOMAIN ps |-> Len(corpus) + i - 1]
  /\ UNCHANGED <<vdeleted, index_type>>

\* The indexing stage of a job raises: gather cancels nothing, so extraction
\* that still runs goes on with nobody reading its queue.
FailJob(j) ==
  /\ job' = [job EXCEPT ![j] = IF @ = "running" THEN "zombie" ELSE "over"]
  /\ pending' = [pending EXCEPT ![j] = <<>>]

\* The embeddings of a batch are back: every page goes into both indices,
\* without an await in between.
Flush(j) ==
  /\ BatchReady(j) /\ VectorAddWorks
  /\ BM25Add(Batch(j)) /\ VectorAdd(Batch(j))
  /\ pending' = [pending EXCEPT ![j] = SubSeq(@, Len(Batch(j)) + 1, Len(@))]
  /\ UNCHANGED <<seen, job, phase, file, disk, base>>

\* FAISS refuses the first vector, after BM25 has taken its page.
FlushRefused(j) ==
  /\ BatchReady(j) /\ ~VectorAddWorks
  /\ BM25Add(<<Head(pending[j])>>)
  /\ FailJob(j)
  /\ UNCHANGED <<store, seen, phase, file, disk, base>>

\* The embedder raises in its executor thread: the batch is lost.
EmbedFails(j) ==
  /\ BatchReady(j)
  /\ FailJob(j)
  /\ UNCHANGED <<bm25, dirty, built, store, seen, phase, file, disk, base>>

\* The sentinel, with no remainder left to index.
EndJob(j) ==
  /\ phase = "up" /\ job[j] = "draining" /\ pending[j] = <<>>
  /\ job' = [job EXCEPT ![j] = "over"]
  /\ UNCHANGED <<bm25, dirty, built, store, seen, pending, phase, file, disk, base>>

-----------------------------------------------------------------------------
(* Deleting and searching *)

\* Mutation: the vector store is not told.
DeleteLexicalOnly(u) ==
  /\ phase = "up" /\ url_to_id[u] # NoId
  /\ deleted' = deleted \union {url_to_id[u]}
  /\ UNCHANGED <<corpus, url_to_id, dirty, built, store,
                 seen, job, pending, phase, file, disk, base>>

\* DELETE /index/url for a URL the index knows; it answers 404 otherwise.
Delete(u) ==
  /\ phase = "up" /\ url_to_id[u] # NoId
  /\ LET id == url_to_id[u] IN
       /\ deleted' = IF id < Len(corpus) THEN deleted \union {id} ELSE deleted
       /\ vdeleted' = IF id \in ToSet(doc_ids) THEN vdeleted \union {id} ELSE vdeleted
  /\ UNCHANGED <<corpus, url_to_id, dirty, built, rows, doc_ids, index_type,
                 seen, job, pending, phase, file, disk, base>>

\* Rebuild the scorer over the whole corpus; an empty corpus is left alone.
Rebuild == IF corpus = <<>> THEN UNCHANGED <<dirty, built>>
           ELSE dirty' = FALSE /\ built' = Len(corpus)

\* The part of a search that changes state.
Search ==
  /\ phase = "up" /\ dirty
  /\ Rebuild
  /\ UNCHANGED <<bm25, store, seen, job, pending, phase, file, disk, base>>

\* The documents a search scores.
Scored == IF dirty \/ built = 0 THEN Len(corpus) ELSE built

\* Mutation: tombstones are not allowed for.
FetchKPlain(k, dead, n) == IF k < n THEN k ELSE n

\* How many candidates a search for k hits fetches of n, dead of them hidden.
FetchK(k, dead, n) == IF k + dead < n THEN k + dead ELSE n

\* BM25 hits for a query that ranks the documents in the order rank (ids, best
\* first) and gives its first pos documents a positive score.
LexicalHits(rank, pos, k) ==
  LET scored  == Only(rank, 0 .. Scored - 1)
      fetch_k == FetchK(k, Cardinality(deleted), Scored)
      found   == ToSet(SubSeq(rank, 1, pos)) \ deleted
  IN Best(k, Only(SubSeq(scored, 1, fetch_k), found))

\* Dense hits for a query that ranks the rows (0-based) in the order rank.
DenseHits(rank, k) ==
  LET fetch_k == FetchK(k, Cardinality(vdeleted), Len(rows))
      ids     == [i \in 1 .. fetch_k |-> doc_ids[rank[i] + 1]]
  IN Best(k, Only(ids, Nat \ vdeleted))

-----------------------------------------------------------------------------
(* Shutdown, crash, start *)

\* Nothing is left of a process that ends.
EndProcess ==
  /\ corpus' = <<>> /\ url_to_id' = NoUrl /\ deleted' = {}
  /\ dirty' = FALSE /\ built' = 0
  /\ rows' = <<>> /\ doc_ids' = <<>> /\ vdeleted' = {} /\ UNCHANGED index_type
  /\ seen' = {}
  /\ job' = [j \in Jobs |-> "idle"] /\ pending' = [j \in Jobs |-> <<>>]
  /\ base' = 0

\* The server stops once no request or background job runs: bm25.pkl is
\* rebuilt and opened, which empties it.
OpenBM25 ==
  /\ phase = "up" /\ \A j \in Jobs : job[j] \notin {"running", "draining"}
  /\ phase' = "bm25" /\ file' = [file EXCEPT !["bm25"] = "torn"]
  /\ IF dirty THEN Rebuild ELSE UNCHANGED <<dirty, built>>
  /\ UNCHANGED <<bm25, store, seen, job, pending, disk, base>>

\* Mutation: the tombstones are not saved.
WriteBM25WithoutDeleted ==
  /\ phase = "bm25"
  /\ phase' = "bm25_saved" /\ file' = [file EXCEPT !["bm25"] = "ok"]
  /\ disk' = [disk EXCEPT !.corpus = corpus, !.url_to_id = url_to_id]
  /\ UNCHANGED Memory

WriteBM25 ==
  /\ phase = "bm25"
  /\ phase' = "bm25_saved" /\ file' = [file EXCEPT !["bm25"] = "ok"]
  /\ disk' = [disk EXCEPT !.corpus = corpus, !.url_to_id = url_to_id, !.deleted = deleted]
  /\ UNCHANGED Memory

OpenFaiss ==
  /\ phase = "bm25_saved"
  /\ phase' = "faiss" /\ file' = [file EXCEPT !["faiss"] = "torn"]
  /\ UNCHANGED <<Memory, disk>>

\* Mutation: the process ends before meta.pkl is written.
WriteFaissOnly ==
  /\ phase = "faiss"
  /\ phase' = "down" /\ file' = [file EXCEPT !["faiss"] = "ok"]
  /\ disk' = [disk EXCEPT !.rows = rows]
  /\ EndProcess

\* Mutation: an existing faiss.index is kept.
WriteFaissOnce ==
  /\ phase = "faiss"
  /\ phase' = "faiss_saved" /\ file' = [file EXCEPT !["faiss"] = "ok"]
  /\ disk' = IF disk.rows = <<>> THEN [disk EXCEPT !.rows = rows] ELSE disk
  /\ UNCHANGED Memory

WriteFaiss ==
  /\ phase = "faiss"
  /\ phase' = "faiss_saved" /\ file' = [file EXCEPT !["faiss"] = "ok"]
  /\ disk' = [disk EXCEPT !.rows = rows]
  /\ UNCHANGED Memory

OpenMeta ==
  /\ phase = "faiss_saved"
  /\ phase' = "meta" /\ file' = [file EXCEPT !["meta"] = "torn"]
  /\ UNCHANGED <<Memory, disk>>

\* The last file is complete: the process ends.
WriteMeta ==
  /\ phase = "meta"
  /\ phase' = "down" /\ file' = [file EXCEPT !["meta"] = "ok"]
  /\ disk' = [disk EXCEPT !.doc_ids = doc_ids, !.vdeleted = vdeleted]
  /\ EndProcess

\* A kill, wherever it falls.  Between two files of a save it leaves some of this
\* save and some of the one before.
Crash ==
  /\ phase \in CrashPoints
  /\ phase' = "down"
  /\ EndProcess
  /\ disk' = [disk EXCEPT !.mixed = @ \/ phase \in Mixing]
  /\ UNCHANGED file

\* The files a start reads can be read: the vector files count only when
\* faiss.index exists.
Loadable ==
  /\ file["bm25"] # "torn"
  /\ file["faiss"] = "none" \/ (file["faiss"] = "ok" /\ file["meta"] = "ok")

\* Startup loads each index whose file exists, and an empty dedup filter.
Start ==
  /\ phase = "down" /\ Loadable
  /\ phase' = "up"
  /\ IF file["bm25"] = "ok"
     THEN /\ corpus' = disk.corpus /\ url_to_id' = disk.url_to_id
          /\ deleted' = disk.deleted /\ dirty' = TRUE
          /\ base' = Len(disk.corpus)
     ELSE UNCHANGED <<corpus, url_to_id, deleted, dirty, base>>
  /\ IF file["faiss"] = "ok"
     THEN /\ rows' = disk.rows /\ doc_ids' = disk.doc_ids /\ vdeleted' = disk.vdeleted
          /\ UNCHANGED index_type
     ELSE UNCHANGED store
  /\ UNCHANGED <<built, seen, job, pending, file, disk>>

-----------------------------------------------------------------------------
JobStep(j) ==
  \/ StartJob(j) \/ \E p \in Pages : Gate(j, p)
  \/ EndExtract(j) \/ Flush(j) \/ FlushRefused(j) \/ EmbedFails(j) \/ EndJob(j)

SaveStep == OpenBM25 \/ WriteBM25 \/ OpenFaiss \/ WriteFaiss \/ OpenMeta \/ WriteMeta

Next == (\E j \in Jobs : JobStep(j)) \/ (\E u \in Urls : Delete(u))
        \/ Search \/ SaveStep \/ Crash \/ Start

Spec == Init /\ [][Next]_vars
-----------------------------------------------------------------------------
(* Correctness *)

\* Row n of FAISS is the vector of BM25's document n.
SameDocs(docs, ids, vecs) ==
  /\ Len(vecs) = Len(docs) /\ Len(ids) = Len(docs)
  /\ \A i \in 1 .. Len(docs) : ids[i] = i - 1 /\ vecs[i] = docs[i].text

\* Both indices hold the same documents under the same ids and hide the same
\* ones ("aligns with BM25Index's doc_ids", vector_store.py:32).
SameSpace == SameDocs(corpus, doc_ids, rows) /\ vdeleted = deleted

\* So it is through jobs that interleave and fail, deletes, restarts and kills,
\* unless a kill has left files of two saves, with every index type that takes a
\* vector when it is offered one.
Aligned == index_type # "ivf" /\ ~disk.mixed => SameSpace

\* DELETE finds the newest version of a page: url_to_id is the largest id of a
\* document with that URL, through batches, jobs and restarts.
Latest(docs, map) ==
  \A u \in Urls :
    /\ map[u] = NoId => \A i \in 1 .. Len(docs) : docs[i].url # u
    /\ map[u] # NoId => /\ map[u] + 1 \in 1 .. Len(docs) /\ docs[map[u] + 1].url = u
                        /\ \A i \in 1 .. Len(docs) : docs[i].url = u => i <= map[u] + 1

UrlMapLatest == Latest(corpus, url_to_id)

\* Of the documents indexed since the process started no two are near
\* duplicates, whichever jobs and batches they came through.
OncePerLifetime ==
  \A i, k \in base + 1 .. Len(corpus) :
    i # k => <<corpus[i].text, corpus[k].text>> \notin Near

Rankings == {r \in [1 .. Len(corpus) -> 0 .. Len(corpus) - 1] :
               \A i, k \in DOMAIN r : r[i] = r[k] => i = k}

\* Over-fetching by the tombstone count is enough, and the scorer is never
\* stale when used: however a query ranks the documents and however many of
\* them match it, BM25 returns the k best matching ones that are not deleted
\* (bm25.py:158), and so does the vector store (vector_store.py:130).
SearchReturnsBest ==
  phase = "up" =>
    \A r \in Rankings, k \in 1 .. MaxDocs :
      /\ \A pos \in 0 .. Len(corpus) :
           LexicalHits(r, pos, k) = Best(k, Only(SubSeq(r, 1, pos), Nat \ deleted))
      /\ Len(rows) = Len(corpus) /\ ~disk.mixed =>
           DenseHits(r, k) = Best(k, Only(r, Nat \ vdeleted))

\* "Persist index across container restarts" (docker-compose.yml:14), as far as
\* the code keeps it.  Files are overwritten in place: a kill while one is being
\* written, or in the first save ever between faiss.index and meta.pkl, leaves
\* files on which no start succeeds, and every other end, a kill between two
\* files included, leaves files that the next start takes.
Exposed == {"bm25", "faiss", "meta"}
           \union (IF file["meta"] = "none" THEN {"faiss_saved"} ELSE {})
BreaksOnlyInAWrite ==
  [][phase # "down" /\ phase' = "down" =>
       (Loadable' <=> ~(Crash /\ phase \in Exposed))]_vars

\* "Soft-delete a previously indexed URL ... Removes the document from BM25
\* and vector search results" (routes/index.py:79): after the DELETE no
\* document of that URL can be found.
SearchableUrls == {corpus[i].url : i \in {n \in 1 .. Len(corpus) : n - 1 \notin deleted}}
DeleteHidesUrl == [][\A u \in Urls : Delete(u) => u \notin SearchableUrls']_vars

\* Each leg is an IndexStore: documents never move, tombstones only grow, a
\* save replaces the snapshot as a whole and a start returns to it.  For the
\* lexical leg the save is the writing of bm25.pkl, one file, so that the leg
\* keeps its promise wherever the process is killed.
Lexical == INSTANCE IndexStore WITH
  docs  <- corpus, tombs <- deleted, up <- phase # "down",
  saved <- [docs |-> disk.corpus, tombs |-> disk.deleted]

\* For the dense leg it is the writing of faiss.index, which meta.pkl must
\* follow: the leg keeps its promise until a kill between the two.
Dense == INSTANCE IndexStore WITH
  docs  <- rows, tombs <- vdeleted, up <- phase # "down",
  saved <- IF phase \in {"faiss_saved", "meta"} THEN [docs |-> rows, tombs |-> vdeleted]
           ELSE [docs |-> disk.rows, tombs |-> disk.vdeleted]

LexicalSpec == Lexical!Spec
DenseSpec   == Dense!Init /\ [][disk'.mixed \/ Dense!Next]_(Dense!vars)
=============================================================================
