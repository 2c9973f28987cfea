--------------------------- MODULE DocIndexProofs ---------------------------
(* Theorems about DocIndex, for every value of its constants. *)
EXTENDS DocIndex, ListsProofs

\* A batch is a prefix of the pages the job has pending.
LEMMA BatchType ==
  ASSUME TypeOK, NEW j \in Jobs
  PROVE  /\ Batch(j) \in Seq(Pages)
         /\ Len(Batch(j)) <= Len(pending[j])
         /\ \A i \in 1 .. Len(Batch(j)) : Batch(j)[i] = pending[j][i]
PROOF
<1>1. pending[j] \in Seq(Pages) /\ Len(pending[j]) \in Nat
  BY LenProperties DEF TypeOK
<1>2. EmbedBatch \in Nat \ {0}
  BY ConstantAssumption
<1>. DEFINE n == IF Len(pending[j]) < EmbedBatch THEN Len(pending[j]) ELSE EmbedBatch
<1>3. n \in Nat /\ n <= Len(pending[j])
  BY <1>1, <1>2
<1>4. \A i \in 1 .. n : pending[j][i] \in Pages
  BY <1>1, <1>3, ElementOfSeq
<1>. HIDE DEF n
<1>5. /\ SubSeq(pending[j], 1, n) \in Seq(Pages)
      /\ Len(SubSeq(pending[j], 1, n)) = IF 1 <= n THEN n - 1 + 1 ELSE 0
      /\ \A i \in 1 .. n - 1 + 1 : SubSeq(pending[j], 1, n)[i] = pending[j][1 + i - 1]
  BY <1>3, <1>4, SubSeqProperties
<1>6. Batch(j) = SubSeq(pending[j], 1, n)
  BY DEF Batch, n
<1>7. Len(Batch(j)) = n
  BY <1>3, <1>5, <1>6
<1>. QED
  BY <1>1, <1>3, <1>5, <1>6, <1>7

\* Of the pages of a sequence that have a given URL, one comes last.
LEMMA LastOfUrl ==
  ASSUME NEW ps \in Seq(Pages), NEW u, NEW w \in DOMAIN ps, ps[w].url = u
  PROVE  \E i \in DOMAIN ps :
           ps[i].url = u /\ \A k \in DOMAIN ps : ps[k].url = u => k <= i
PROOF
<1>1. Len(ps) \in Nat /\ DOMAIN ps = 1 .. Len(ps)
  BY LenProperties
<1>. DEFINE gaps == {g \in Nat : \E i \in DOMAIN ps : ps[i].url = u /\ g = Len(ps) - i}
<1>2. gaps \subseteq Nat /\ gaps # {}
  <2>1. Len(ps) - w \in gaps
    BY <1>1
  <2>. QED
    BY <2>1
<1>3. PICK g \in gaps : \A h \in gaps : ~(<<h, g>> \in OpToRel(<, Nat))
  <2>. HIDE DEF gaps
  <2>. QED
    BY <1>2, NatLessThanWellFounded, WFMin
<1>4. \A h \in gaps : ~(h < g)
  BY <1>2, <1>3 DEF OpToRel
<1>5. PICK i \in DOMAIN ps : ps[i].url = u /\ g = Len(ps) - i
  BY <1>3
<1>6. ASSUME NEW k \in DOMAIN ps, ps[k].url = u
      PROVE  k <= i
  <2>1. Len(ps) - k \in gaps
    BY <1>1, <1>6
  <2>. QED
    BY <1>1, <1>4, <1>5, <2>1
<1>. QED
  BY <1>5, <1>6

\* Adding pages keeps url_to_id well-typed and pointing at newest versions.
LEMMA NewestIdsProperties ==
  ASSUME corpus \in Seq(Pages), url_to_id \in [Urls -> Nat \union {NoId}],
         NEW ps \in Seq(Pages)
  PROVE  /\ NewestIds(ps) \in [Urls -> Nat \union {NoId}]
         /\ Latest(corpus, url_to_id) => Latest(corpus \o ps, NewestIds(ps))
PROOF
<1>1. /\ Len(corpus) \in Nat /\ DOMAIN corpus = 1 .. Len(corpus)
      /\ Len(ps) \in Nat /\ DOMAIN ps = 1 .. Len(ps)
  BY LenProperties
<1>. DEFINE last(u) == CHOOSE i \in DOMAIN ps :
                         ps[i].url = u /\ \A k \in DOMAIN ps : ps[k].url = u => k <= i
            has(u)  == \E i \in DOMAIN ps : ps[i].url = u
<1>2. ASSUME NEW u \in Urls, has(u)
      PROVE  /\ last(u) \in 1 .. Len(ps) /\ ps[last(u)].url = u
             /\ \A k \in DOMAIN ps : ps[k].url = u => k <= last(u)
             /\ NewestIds(ps)[u] = Len(corpus) - 1 + last(u)
  <2>1. \E i \in DOMAIN ps : ps[i].url = u /\ \A k \in DOMAIN ps : ps[k].url = u => k <= i
    BY <1>2, LastOfUrl
  <2>2. NewestIds(ps)[u] = Len(corpus) - 1 + last(u)
    BY <1>2 DEF NewestIds
  <2>. QED
    BY <2>1, <2>2, <1>1
<1>3. ASSUME NEW u \in Urls, ~has(u)
      PROVE  NewestIds(ps)[u] = url_to_id[u]
  BY <1>3 DEF NewestIds
<1>. HIDE DEF last
<1>4. NewestIds(ps) \in [Urls -> Nat \union {NoId}]
  <2>1. \A u \in Urls : NewestIds(ps)[u] \in Nat \union {NoId}
    BY <1>1, <1>2, <1>3
  <2>2. \E e : NewestIds(ps) = [u \in Urls |-> NewestIds(ps)[u]]
    BY DEF NewestIds
  <2>. QED
    BY <2>1, <2>2
<1>5. ASSUME Latest(corpus, url_to_id)
      PROVE  Latest(corpus \o ps, NewestIds(ps))
  <2>1. /\ Len(corpus \o ps) = Len(corpus) + Len(ps)
        /\ \A i \in 1 .. Len(corpus) + Len(ps) :
             (corpus \o ps)[i] = IF i <= Len(corpus) THEN corpus[i] ELSE ps[i - Len(corpus)]
    BY ConcatProperties
  <2>2. SUFFICES ASSUME NEW u \in Urls
        PROVE  LET m == NewestIds(ps)[u] IN
               /\ m = NoId => \A i \in 1 .. Len(corpus) + Len(ps) : (corpus \o ps)[i].url # u
               /\ m # NoId => /\ m + 1 \in 1 .. Len(corpus) + Len(ps)
                              /\ (corpus \o ps)[m + 1].url = u
                              /\ \A i \in 1 .. Len(corpus) + Len(ps) :
                                   (corpus \o ps)[i].url = u => i <= m + 1
    BY <2>1 DEF Latest
  <2>3. CASE has(u)
    <3>1. PICK n \in 1 .. Len(ps) :
                 /\ NewestIds(ps)[u] = Len(corpus) - 1 + n /\ ps[n].url = u
                 /\ \A k \in 1 .. Len(ps) : ps[k].url = u => k <= n
      BY <1>1, <1>2, <2>3
    <3>2. (corpus \o ps)[Len(corpus) + n] = ps[n]
      BY <1>1, <2>1
    <3>3. ASSUME NEW i \in 1 .. Len(corpus) + Len(ps), (corpus \o ps)[i].url = u
          PROVE  i <= Len(corpus) + n
      BY <1>1, <2>1, <3>1, <3>3
    <3>. QED
      BY <1>1, <3>1, <3>2, <3>3 DEF NoId
  <2>4. CASE ~has(u)
    <3>1. NewestIds(ps)[u] = url_to_id[u]
      BY <1>3, <2>4
    <3>2. \A i \in 1 .. Len(corpus) + Len(ps) :
            (corpus \o ps)[i].url = u => i <= Len(corpus) /\ corpus[i].url = u
      BY <1>1, <2>1, <2>4
    <3>3. CASE url_to_id[u] = NoId
      BY <1>1, <1>5, <3>1, <3>2, <3>3 DEF Latest
    <3>4. CASE url_to_id[u] # NoId
      <4>1. /\ url_to_id[u] + 1 \in 1 .. Len(corpus) /\ corpus[url_to_id[u] + 1].url = u
            /\ \A i \in 1 .. Len(corpus) : corpus[i].url = u => i <= url_to_id[u] + 1
        BY <1>5, <3>4 DEF Latest
      <4>. QED
        BY <1>1, <2>1, <3>1, <3>2, <3>4, <4>1
    <3>. QED
      BY <3>3, <3>4
  <2>. QED
    BY <2>3, <2>4
<1>. QED
  BY <1>4, <1>5

\* BM25Index.add keeps its own state well-typed.
LEMMA BM25AddType ==
  ASSUME TypeOK, NEW ps \in Seq(Pages), BM25Add(ps)
  PROVE  /\ corpus' \in Seq(Pages) /\ url_to_id' \in [Urls -> Nat \union {NoId}]
         /\ deleted' \subseteq Nat /\ dirty' \in BOOLEAN /\ built' \in Nat
PROOF
<1>1. corpus' \in Seq(Pages)
  BY ConcatProperties DEF TypeOK, BM25Add
<1>2. url_to_id' \in [Urls -> Nat \union {NoId}]
  BY NewestIdsProperties DEF TypeOK, BM25Add
<1>. QED
  BY <1>1, <1>2 DEF TypeOK, BM25Add

\* What a batch adds to the vector store, row by row.
LEMMA VectorAddProperties ==
  ASSUME TypeOK, NEW ps \in Seq(Pages), VectorAdd(ps)
  PROVE  /\ rows' \in Seq(Texts) /\ doc_ids' \in Seq(Nat) /\ vdeleted' = vdeleted
         /\ index_type' = index_type
         /\ Len(rows') = Len(rows) + Len(ps)
         /\ Len(doc_ids') = Len(doc_ids) + Len(ps)
         /\ \A i \in 1 .. Len(rows') :
              rows'[i] = IF i <= Len(rows) THEN rows[i] ELSE ps[i - Len(rows)].text
         /\ \A i \in 1 .. Len(doc_ids') :
              doc_ids'[i] = IF i <= Len(doc_ids) THEN doc_ids[i]
                            ELSE Len(corpus) + (i - Len(doc_ids)) - 1
PROOF
<1>1. /\ rows \in Seq(Texts) /\ doc_ids \in Seq(Nat) /\ Len(corpus) \in Nat
      /\ Len(rows) \in Nat /\ Len(doc_ids) \in Nat
      /\ Len(ps) \in Nat /\ DOMAIN ps = 1 .. Len(ps)
      /\ \A i \in 1 .. Len(ps) : ps[i] \in Pages
  BY LenProperties, ElementOfSeq DEF TypeOK
<1>. DEFINE ts  == [i \in DOMAIN ps |-> ps[i].text]
            ids == [i \in DOMAIN ps |-> Len(corpus) + i - 1]
<1>2. ts \in Seq(Texts) /\ Len(ts) = Len(ps) /\ \A i \in 1 .. Len(ps) : ts[i] = ps[i].text
  <2>1. \A i \in 1 .. Len(ps) : ps[i].text \in Texts
    BY <1>1 DEF Pages
  <2>. QED
    BY <1>1, <2>1
<1>3. /\ ids \in Seq(Nat) /\ Len(ids) = Len(ps)
      /\ \A i \in 1 .. Len(ps) : ids[i] = Len(corpus) + i - 1
  BY <1>1
<1>4. /\ rows' = rows \o ts /\ doc_ids' = doc_ids \o ids /\ vdeleted' = vdeleted
      /\ index_type' = index_type
  BY DEF VectorAdd
<1>. HIDE DEF ts, ids
<1>5. /\ rows \o ts \in Seq(Texts) /\ Len(rows \o ts) = Len(rows) + Len(ts)
      /\ \A i \in 1 .. Len(rows) + Len(ts) :
           (rows \o ts)[i] = IF i <= Len(rows) THEN rows[i] ELSE ts[i - Len(rows)]
  BY <1>1, <1>2, ConcatProperties
<1>6. /\ doc_ids \o ids \in Seq(Nat) /\ Len(doc_ids \o ids) = Len(doc_ids) + Len(ids)
      /\ \A i \in 1 .. Len(doc_ids) + Len(ids) :
           (doc_ids \o ids)[i] = IF i <= Len(doc_ids) THEN doc_ids[i]
                                 ELSE ids[i - Len(doc_ids)]
  <2>. DEFINE N == Nat
  <2>1. doc_ids \in Seq(N) /\ ids \in Seq(N)
    BY <1>1, <1>3
  <2>. HIDE DEF N
  <2>2. /\ doc_ids \o ids \in Seq(N) /\ Len(doc_ids \o ids) = Len(doc_ids) + Len(ids)
        /\ \A i \in 1 .. Len(doc_ids) + Len(ids) :
             (doc_ids \o ids)[i] = IF i <= Len(doc_ids) THEN doc_ids[i]
                                   ELSE ids[i - Len(doc_ids)]
    BY <2>1, ConcatProperties
  <2>. QED
    BY <2>2 DEF N
<1>7. \A i \in 1 .. Len(rows') :
        rows'[i] = IF i <= Len(rows) THEN rows[i] ELSE ps[i - Len(rows)].text
  <2>. SUFFICES ASSUME NEW i \in 1 .. Len(rows) + Len(ps)
       PROVE  (rows \o ts)[i] = IF i <= Len(rows) THEN rows[i] ELSE ps[i - Len(rows)].text
    BY <1>2, <1>4, <1>5
  <2>1. CASE i <= Len(rows)
    BY <1>1, <1>2, <1>5, <2>1
  <2>2. CASE ~(i <= Len(rows))
    <3>1. i - Len(rows) \in 1 .. Len(ps)
      BY <1>1, <2>2
    <3>. QED
      BY <1>2, <1>5, <2>2, <3>1
  <2>. QED
    BY <2>1, <2>2
<1>8. \A i \in 1 .. Len(doc_ids') :
        doc_ids'[i] = IF i <= Len(doc_ids) THEN doc_ids[i]
                      ELSE Len(corpus) + (i - Len(doc_ids)) - 1
  <2>. SUFFICES ASSUME NEW i \in 1 .. Len(doc_ids) + Len(ps)
       PROVE  (doc_ids \o ids)[i] = IF i <= Len(doc_ids) THEN doc_ids[i]
                                    ELSE Len(corpus) + (i - Len(doc_ids)) - 1
    BY <1>3, <1>4, <1>6
  <2>1. CASE i <= Len(doc_ids)
    BY <1>1, <1>3, <1>6, <2>1
  <2>2. CASE ~(i <= Len(doc_ids))
    <3>1. i - Len(doc_ids) \in 1 .. Len(ps)
      BY <1>1, <2>2
    <3>. QED
      BY <1>3, <1>6, <2>2, <3>1
  <2>. QED
    BY <2>1, <2>2
<1>. QED
  BY <1>2, <1>3, <1>4, <1>5, <1>6, <1>7, <1>8

\* What a batch leaves pending are pages.
LEMMA PendingType ==
  ASSUME TypeOK, NEW j \in Jobs
  PROVE  SubSeq(pending[j], Len(Batch(j)) + 1, Len(pending[j])) \in Seq(Pages)
PROOF
<1>1. pending[j] \in Seq(Pages) /\ Len(pending[j]) \in Nat /\ Len(Batch(j)) \in Nat
  BY BatchType, LenProperties DEF TypeOK
<1>2. \A i \in Len(Batch(j)) + 1 .. Len(pending[j]) : pending[j][i] \in Pages
  BY <1>1, ElementOfSeq
<1>. QED
  BY <1>1, <1>2, SubSeqProperties

\* A kill leaves what the files hold as it was; it can only make them files of
\* two saves.
LEMMA CrashDisk ==
  ASSUME TypeOK, Crash
  PROVE  /\ disk' \in [corpus : Seq(Pages), url_to_id : [Urls -> Nat \union {NoId}],
                       deleted : SUBSET Nat, rows : Seq(Texts), doc_ids : Seq(Nat),
                       vdeleted : SUBSET Nat, mixed : BOOLEAN]
         /\ disk'.corpus = disk.corpus /\ disk'.url_to_id = disk.url_to_id
         /\ disk'.deleted = disk.deleted /\ disk'.rows = disk.rows
         /\ disk'.doc_ids = disk.doc_ids /\ disk'.vdeleted = disk.vdeleted
         /\ disk'.mixed = (disk.mixed \/ phase \in Mixing)
PROOF
<1>. DEFINE m == disk.mixed \/ phase \in Mixing
<1>1. disk' = [disk EXCEPT !.mixed = m]
  BY DEF Crash
<1>2. m \in BOOLEAN
  BY DEF TypeOK
<1>. HIDE DEF m
<1>. QED
  BY <1>1, <1>2 DEF TypeOK, m

\* Every step of the system keeps every variable in its type.
LEMMA TypeStep == TypeOK /\ [Next]_vars => TypeOK'
PROOF
<1>. SUFFICES ASSUME TypeOK, [Next]_vars PROVE TypeOK'
  OBVIOUS
<1>1. ASSUME NEW j \in Jobs, StartJob(j) PROVE TypeOK'
  BY <1>1 DEF StartJob, TypeOK, JobStates, bm25, store
<1>2. ASSUME NEW j \in Jobs, NEW p \in Pages, Gate(j, p) PROVE TypeOK'
  <2>1. seen' \subseteq Texts
    BY <1>2 DEF Gate, TypeOK, Pages
  <2>2. pending' \in [Jobs -> Seq(Pages)]
    BY <1>2 DEF Gate, TypeOK
  <2>. QED
    BY <1>2, <2>1, <2>2 DEF Gate, TypeOK, bm25, store
<1>3. ASSUME NEW j \in Jobs, EndExtract(j) PROVE TypeOK'
  BY <1>3 DEF EndExtract, TypeOK, JobStates, bm25, store
<1>4. ASSUME NEW j \in Jobs, Flush(j) PROVE TypeOK'
  <2>1. Batch(j) \in Seq(Pages)
    BY BatchType
  <2>2. pending' \in [Jobs -> Seq(Pages)]
    BY <1>4, PendingType DEF Flush, TypeOK
  <2>3. /\ corpus' \in Seq(Pages) /\ url_to_id' \in [Urls -> Nat \union {NoId}]
        /\ deleted' \subseteq Nat /\ dirty' \in BOOLEAN /\ built' \in Nat
    BY <1>4, <2>1, BM25AddType DEF Flush
  <2>4. /\ rows' \in Seq(Texts) /\ doc_ids' \in Seq(Nat) /\ vdeleted' = vdeleted
        /\ index_type' = index_type
    BY <1>4, <2>1, VectorAddProperties DEF Flush
  <2>. QED
    BY <1>4, <2>2, <2>3, <2>4 DEF Flush, TypeOK
<1>5. ASSUME NEW j \in Jobs, FlushRefused(j) PROVE TypeOK'
  <2>1. pending[j] \in Seq(Pages) /\ pending[j] # <<>>
    BY <1>5, ConstantAssumption DEF FlushRefused, BatchReady, TypeOK
  <2>2. <<Head(pending[j])>> \in Seq(Pages)
    BY <2>1, HeadTailProperties
  <2>3. /\ corpus' \in Seq(Pages) /\ url_to_id' \in [Urls -> Nat \union {NoId}]
        /\ deleted' \subseteq Nat /\ dirty' \in BOOLEAN /\ built' \in Nat
    BY <1>5, <2>2, BM25AddType DEF FlushRefused
  <2>4. job' \in [Jobs -> JobStates] /\ pending' \in [Jobs -> Seq(Pages)]
    BY <1>5 DEF FlushRefused, FailJob, TypeOK, JobStates
  <2>. QED
    BY <1>5, <2>3, <2>4 DEF FlushRefused, TypeOK, store
<1>6. ASSUME NEW j \in Jobs, EmbedFails(j) PROVE TypeOK'
  <2>1. job' \in [Jobs -> JobStates] /\ pending' \in [Jobs -> Seq(Pages)]
    BY <1>6 DEF EmbedFails, FailJob, TypeOK, JobStates
  <2>. QED
    BY <1>6, <2>1 DEF EmbedFails, TypeOK, bm25, store
<1>7. ASSUME NEW j \in Jobs, EndJob(j) PROVE TypeOK'
  BY <1>7 DEF EndJob, TypeOK, JobStates, bm25, store
<1>8. ASSUME NEW u \in Urls, Delete(u) PROVE TypeOK'
  <2>1. url_to_id[u] \in Nat
    BY <1>8 DEF Delete, TypeOK
  <2>2. deleted' \subseteq Nat /\ vdeleted' \subseteq Nat
    BY <1>8, <2>1 DEF Delete, TypeOK
  <2>. QED
    BY <1>8, <2>2 DEF Delete, TypeOK
<1>9. ASSUME Search PROVE TypeOK'
  <2>1. dirty \in BOOLEAN /\ built \in Nat /\ Len(corpus) \in Nat
    BY LenProperties DEF TypeOK
  <2>2. dirty' \in BOOLEAN /\ built' \in Nat
    BY <1>9, <2>1 DEF Search, Rebuild
  <2>. QED
    BY <1>9, <2>2 DEF Search, TypeOK, bm25, store
<1>10. ASSUME OpenBM25 PROVE TypeOK'
  <2>1. dirty \in BOOLEAN /\ built \in Nat /\ Len(corpus) \in Nat
    BY LenProperties DEF TypeOK
  <2>2. dirty' \in BOOLEAN /\ built' \in Nat
    BY <1>10, <2>1 DEF OpenBM25, Rebuild
  <2>. QED
    BY <1>10, <2>2 DEF OpenBM25, TypeOK, bm25, store, Files, Phases, Saving
<1>11. ASSUME WriteBM25 PROVE TypeOK'
  BY <1>11 DEF WriteBM25, TypeOK, Memory, Files, Phases, Saving
<1>12. ASSUME OpenFaiss PROVE TypeOK'
  BY <1>12 DEF OpenFaiss, TypeOK, Memory, Files, Phases, Saving
<1>13. ASSUME WriteFaiss PROVE TypeOK'
  BY <1>13 DEF WriteFaiss, TypeOK, Memory, Files, Phases, Saving
<1>14. ASSUME OpenMeta PROVE TypeOK'
  BY <1>14 DEF OpenMeta, TypeOK, Memory, Files, Phases, Saving
<1>15. ASSUME EndProcess, file' \in [Files -> {"none", "torn", "ok"}],
              disk' \in [corpus : Seq(Pages), url_to_id : [Urls -> Nat \union {NoId}],
                         deleted : SUBSET Nat, rows : Seq(Texts), doc_ids : Seq(Nat),
                         vdeleted : SUBSET Nat, mixed : BOOLEAN],
              phase' = "down"
       PROVE  TypeOK'
  BY <1>15, EmptySeq DEF EndProcess, TypeOK, NoUrl, JobStates, Phases
<1>16. ASSUME WriteMeta PROVE TypeOK'
  BY <1>15, <1>16 DEF WriteMeta, TypeOK, Files
<1>17. ASSUME Crash PROVE TypeOK'
  BY <1>15, <1>17, CrashDisk DEF Crash, TypeOK
<1>18. ASSUME Start PROVE TypeOK'
  <2>1. /\ disk.corpus \in Seq(Pages) /\ disk.url_to_id \in [Urls -> Nat \union {NoId}]
        /\ disk.deleted \subseteq Nat /\ disk.rows \in Seq(Texts)
        /\ disk.doc_ids \in Seq(Nat) /\ disk.vdeleted \subseteq Nat
    BY DEF TypeOK
  <2>2. /\ corpus' \in Seq(Pages) /\ url_to_id' \in [Urls -> Nat \union {NoId}]
        /\ deleted' \subseteq Nat /\ dirty' \in BOOLEAN /\ base' \in Nat
    <3>1. CASE file["bm25"] = "ok"
      <4>1. Len(disk.corpus) \in Nat
        BY <2>1, LenProperties
      <4>. QED
        BY <1>18, <2>1, <3>1, <4>1 DEF Start
    <3>2. CASE file["bm25"] # "ok"
      BY <1>18, <3>2 DEF Start, TypeOK
    <3>. QED
      BY <3>1, <3>2
  <2>3. /\ rows' \in Seq(Texts) /\ doc_ids' \in Seq(Nat) /\ vdeleted' \subseteq Nat
        /\ index_type' \in IndexTypes
    <3>1. CASE file["faiss"] = "ok"
      BY <1>18, <2>1, <3>1 DEF Start, TypeOK
    <3>2. CASE file["faiss"] # "ok"
      BY <1>18, <3>2 DEF Start, TypeOK, store
    <3>. QED
      BY <3>1, <3>2
  <2>. QED
    BY <1>18, <2>2, <2>3 DEF Start, TypeOK, Phases
<1>19. CASE UNCHANGED vars
  BY <1>19 DEF TypeOK, vars
<1>. QED
  BY <1>1, <1>2, <1>3, <1>4, <1>5, <1>6, <1>7, <1>8, <1>9, <1>10, <1>11, <1>12, <1>13,
     <1>14, <1>16, <1>17, <1>18, <1>19 DEF Next, JobStep, SaveStep

\* The state of the index, the files and the jobs is always well-typed.
THEOREM TypeCorrect == Spec => []TypeOK
PROOF
<1>1. Init => TypeOK
  <2>. SUFFICES ASSUME Init PROVE TypeOK
    OBVIOUS
  <2>1. NoUrl \in [Urls -> Nat \union {NoId}] /\ \A S : <<>> \in Seq(S)
    BY DEF NoUrl
  <2>2. disk \in [corpus : Seq(Pages), url_to_id : [Urls -> Nat \union {NoId}],
                  deleted : SUBSET Nat, rows : Seq(Texts), doc_ids : Seq(Nat),
                  vdeleted : SUBSET Nat, mixed : BOOLEAN]
    BY <2>1 DEF Init
  <2>3. job \in [Jobs -> JobStates] /\ pending \in [Jobs -> Seq(Pages)]
    BY <2>1 DEF Init, JobStates
  <2>. QED
    BY <2>1, <2>2, <2>3 DEF Init, TypeOK, Phases
<1>. QED
  BY <1>1, TypeStep, PTL DEF Spec

-----------------------------------------------------------------------------
(* The newest version of a URL *)

DiskMapLatest == Latest(disk.corpus, disk.url_to_id)

\* An empty index has an exact, empty URL map.
LEMMA EmptyLatest == Latest(<<>>, NoUrl)
PROOF
<1>. \A u \in Urls : NoUrl[u] = NoId
  BY DEF NoUrl
<1>. QED
  BY DEF Latest

\* Every step keeps the URL map exact, in memory and in the saved file: a
\* batch is the only step that changes either of documents and map.
LEMMA UrlMapStep ==
  TypeOK /\ UrlMapLatest /\ DiskMapLatest /\ [Next]_vars => UrlMapLatest' /\ DiskMapLatest'
PROOF
<1>. SUFFICES ASSUME TypeOK, UrlMapLatest, DiskMapLatest, [Next]_vars
     PROVE  UrlMapLatest' /\ DiskMapLatest'
  OBVIOUS
<1>1. ASSUME UNCHANGED <<corpus, url_to_id, disk>>
      PROVE  UrlMapLatest' /\ DiskMapLatest'
  BY <1>1 DEF UrlMapLatest, DiskMapLatest, Latest
<1>2. ASSUME NEW ps \in Seq(Pages), BM25Add(ps), UNCHANGED disk
      PROVE  UrlMapLatest' /\ DiskMapLatest'
  <2>1. Latest(corpus', url_to_id')
    BY <1>2, NewestIdsProperties DEF BM25Add, TypeOK, UrlMapLatest
  <2>. QED
    BY <1>2, <2>1 DEF UrlMapLatest, DiskMapLatest, Latest
<1>3. ASSUME EndProcess, disk'.corpus = disk.corpus, disk'.url_to_id = disk.url_to_id
      PROVE  UrlMapLatest' /\ DiskMapLatest'
  <2>1. UrlMapLatest'
    BY <1>3, EmptyLatest DEF EndProcess, UrlMapLatest, Latest, NoUrl
  <2>. QED
    BY <1>3, <2>1 DEF DiskMapLatest, Latest
<1>4. ASSUME NEW j \in Jobs, Flush(j) PROVE UrlMapLatest' /\ DiskMapLatest'
  BY <1>2, <1>4, BatchType DEF Flush
<1>5. ASSUME NEW j \in Jobs, FlushRefused(j) PROVE UrlMapLatest' /\ DiskMapLatest'
  <2>1. pending[j] \in Seq(Pages) /\ pending[j] # <<>>
    BY <1>5, ConstantAssumption DEF FlushRefused, BatchReady, TypeOK
  <2>2. <<Head(pending[j])>> \in Seq(Pages)
    BY <2>1, HeadTailProperties
  <2>. QED
    BY <1>2, <1>5, <2>2 DEF FlushRefused
<1>6. ASSUME WriteBM25 PROVE UrlMapLatest' /\ DiskMapLatest'
  <2>1. disk'.corpus = corpus /\ disk'.url_to_id = url_to_id
    BY <1>6 DEF WriteBM25, TypeOK
  <2>2. corpus' = corpus /\ url_to_id' = url_to_id
    BY <1>6 DEF WriteBM25, Memory
  <2>. QED
    BY <2>1, <2>2 DEF UrlMapLatest, DiskMapLatest, Latest
<1>7. ASSUME WriteMeta PROVE UrlMapLatest' /\ DiskMapLatest'
  <2>1. disk'.corpus = disk.corpus /\ disk'.url_to_id = disk.url_to_id
    BY <1>7 DEF WriteMeta, TypeOK
  <2>. QED
    BY <1>3, <1>7, <2>1 DEF WriteMeta
<1>8. ASSUME WriteFaiss PROVE UrlMapLatest' /\ DiskMapLatest'
  <2>1. disk'.corpus = disk.corpus /\ disk'.url_to_id = disk.url_to_id
    BY <1>8 DEF WriteFaiss, TypeOK
  <2>. QED
    BY <1>8, <2>1 DEF WriteFaiss, Memory, UrlMapLatest, DiskMapLatest, Latest
<1>9. ASSUME Crash PROVE UrlMapLatest' /\ DiskMapLatest'
  BY <1>3, <1>9 DEF Crash
<1>10. ASSUME Start PROVE UrlMapLatest' /\ DiskMapLatest'
  <2>1. CASE file["bm25"] = "ok"
    BY <1>10, <2>1 DEF Start, UrlMapLatest, DiskMapLatest, Latest
  <2>2. CASE file["bm25"] # "ok"
    BY <1>1, <1>10, <2>2 DEF Start
  <2>. QED
    BY <2>1, <2>2
<1>11. ASSUME NEW j \in Jobs, StartJob(j) \/ EndExtract(j) \/ EmbedFails(j) \/ EndJob(j)
       PROVE  UrlMapLatest' /\ DiskMapLatest'
  BY <1>1, <1>11 DEF StartJob, EndExtract, EmbedFails, EndJob, bm25
<1>12. ASSUME NEW j \in Jobs, NEW p \in Pages, Gate(j, p) PROVE UrlMapLatest' /\ DiskMapLatest'
  BY <1>1, <1>12 DEF Gate, bm25
<1>13. ASSUME NEW u \in Urls, Delete(u) PROVE UrlMapLatest' /\ DiskMapLatest'
  BY <1>1, <1>13 DEF Delete
<1>14. CASE Search \/ OpenBM25 \/ OpenFaiss \/ OpenMeta \/ UNCHANGED vars
  BY <1>1, <1>14 DEF Search, OpenBM25, OpenFaiss, OpenMeta, bm25, Memory, vars
<1>. QED
  BY <1>4, <1>5, <1>6, <1>7, <1>8, <1>9, <1>10, <1>11, <1>12, <1>13, <1>14
     DEF Next, JobStep, SaveStep

\* DELETE /index/url always finds the newest version of a page: url_to_id is
\* exact whatever the index type and wherever the process is killed, because
\* bm25.pkl holds both the documents and the map.
THEOREM UrlMapCorrect == Spec => []UrlMapLatest
PROOF
<1>1. Init => UrlMapLatest /\ DiskMapLatest
  BY EmptyLatest DEF Init, UrlMapLatest, DiskMapLatest
<1>. QED
  BY <1>1, UrlMapStep, TypeCorrect, PTL DEF Spec

-----------------------------------------------------------------------------
(* The three files *)

\* What has been written so far is the present contents.
WrittenBM25  == file["bm25"] = "ok" /\ disk.corpus = corpus /\ disk.deleted = deleted
WrittenFaiss == file["faiss"] = "ok" /\ disk.rows = rows

\* The vector files are both there and whole, or neither is there.
PairLoads == file["faiss"] = "none" \/ (file["faiss"] = "ok" /\ file["meta"] = "ok")

\* A process that is down has nothing in memory; without a file there is nothing
\* in it; only the file a save is writing is torn, and what the save has written
\* is what is in memory.  So it is wherever kills fall: a process that starts is
\* one whose files could be loaded.
SnapInv ==
  /\ phase = "down" => corpus = <<>> /\ deleted = {} /\ rows = <<>> /\ vdeleted = {}
  /\ file["bm25"] = "none" => disk.corpus = <<>> /\ disk.deleted = {}
  /\ file["faiss"] = "none" => /\ file["meta"] = "none"
                               /\ disk.rows = <<>> /\ disk.vdeleted = {}
  /\ phase \in {"up", "bm25", "bm25_saved"} => PairLoads
  /\ phase = "up" => file["bm25"] # "torn"
  /\ phase = "bm25" => file["bm25"] = "torn"
  /\ phase \in Saving \ {"bm25"} => WrittenBM25
  /\ phase = "faiss" => file["faiss"] = "torn" /\ file["meta"] # "torn"
  /\ phase \in {"faiss_saved", "meta"} => WrittenFaiss
  /\ phase = "faiss_saved" => file["meta"] # "torn"
  /\ phase = "meta" => file["meta"] = "torn"

\* A server that was never started has no files.
LEMMA SnapInit == Init => SnapInv
PROOF
  BY DEF Init, SnapInv, Files, Saving, PairLoads

\* Every step keeps the files so, a kill anywhere included.
LEMMA SnapStep == TypeOK /\ SnapInv /\ [Next]_vars => SnapInv'
PROOF
<1>. SUFFICES ASSUME TypeOK, SnapInv, [Next]_vars PROVE SnapInv'
  OBVIOUS
<1>1. ASSUME phase' = phase, phase \in {"up", "down"}, UNCHANGED <<file, disk>>,
             phase = "down" => UNCHANGED <<corpus, deleted, rows, vdeleted>>
      PROVE  SnapInv'
  BY <1>1 DEF SnapInv, Saving, PairLoads, WrittenBM25, WrittenFaiss
<1>2. ASSUME NEW j \in Jobs, JobStep(j) PROVE SnapInv'
  <2>1. phase = "up" /\ UNCHANGED <<phase, file, disk>>
    BY <1>2 DEF JobStep, StartJob, Gate, EndExtract, Flush, FlushRefused, EmbedFails, EndJob,
                BatchReady
  <2>. QED
    BY <1>1, <2>1
<1>3. CASE Search \/ \E u \in Urls : Delete(u)
  <2>1. phase = "up" /\ UNCHANGED <<phase, file, disk>>
    BY <1>3 DEF Search, Delete
  <2>. QED
    BY <1>1, <2>1
<1>4. CASE OpenBM25
  <2>1. /\ file'["bm25"] = "torn" /\ file'["faiss"] = file["faiss"]
        /\ file'["meta"] = file["meta"]
    BY <1>4 DEF OpenBM25, TypeOK, Files
  <2>. QED
    BY <1>4, <2>1 DEF OpenBM25, SnapInv, Saving, PairLoads
<1>5. CASE WriteBM25
  <2>1. /\ disk'.corpus = corpus /\ disk'.deleted = deleted
        /\ disk'.rows = disk.rows /\ disk'.vdeleted = disk.vdeleted
        /\ file'["bm25"] = "ok" /\ file'["faiss"] = file["faiss"]
        /\ file'["meta"] = file["meta"]
    BY <1>5 DEF WriteBM25, TypeOK, Files
  <2>. QED
    BY <1>5, <2>1 DEF WriteBM25, SnapInv, Saving, PairLoads, WrittenBM25, Memory
<1>6. CASE OpenFaiss
  <2>1. /\ file'["bm25"] = file["bm25"] /\ file'["faiss"] = "torn"
        /\ file'["meta"] = file["meta"]
    BY <1>6 DEF OpenFaiss, TypeOK, Files
  <2>2. file["meta"] # "torn"
    BY <1>6 DEF OpenFaiss, SnapInv, PairLoads
  <2>. QED
    BY <1>6, <2>1, <2>2 DEF OpenFaiss, SnapInv, Saving, WrittenBM25, Memory
<1>7. CASE WriteFaiss
  <2>1. /\ file'["bm25"] = file["bm25"] /\ file'["faiss"] = "ok"
        /\ file'["meta"] = file["meta"]
        /\ disk'.corpus = disk.corpus /\ disk'.deleted = disk.deleted /\ disk'.rows = rows
    BY <1>7 DEF WriteFaiss, TypeOK, Files
  <2>. QED
    BY <1>7, <2>1 DEF WriteFaiss, SnapInv, Saving, WrittenBM25, WrittenFaiss, Memory
<1>8. CASE OpenMeta
  <2>1. /\ file'["bm25"] = file["bm25"] /\ file'["faiss"] = file["faiss"]
        /\ file'["meta"] = "torn"
    BY <1>8 DEF OpenMeta, TypeOK, Files
  <2>. QED
    BY <1>8, <2>1 DEF OpenMeta, SnapInv, Saving, WrittenBM25, WrittenFaiss, Memory
<1>9. CASE WriteMeta
  <2>1. file["bm25"] = "ok" /\ file["faiss"] = "ok"
    BY <1>9 DEF WriteMeta, SnapInv, Saving, WrittenBM25, WrittenFaiss
  <2>2. file'["bm25"] = "ok" /\ file'["faiss"] = "ok" /\ file'["meta"] = "ok"
    BY <1>9, <2>1 DEF WriteMeta, TypeOK, Files
  <2>3. phase' = "down" /\ EndProcess
    BY <1>9 DEF WriteMeta
  <2>. QED
    BY <2>2, <2>3 DEF SnapInv, Saving, EndProcess
<1>10. CASE Crash
  <2>1. phase' = "down" /\ EndProcess /\ UNCHANGED file
    BY <1>10 DEF Crash
  <2>2. /\ disk'.corpus = disk.corpus /\ disk'.deleted = disk.deleted
        /\ disk'.rows = disk.rows /\ disk'.vdeleted = disk.vdeleted
    BY <1>10, CrashDisk
  <2>. QED
    BY <2>1, <2>2 DEF SnapInv, Saving, EndProcess
<1>11. CASE Start
  <2>1. phase = "down" /\ phase' = "up" /\ Loadable /\ UNCHANGED <<file, disk>>
    BY <1>11 DEF Start
  <2>. QED
    BY <2>1 DEF SnapInv, Saving, Loadable, PairLoads
<1>12. CASE UNCHANGED vars
  BY <1>12 DEF vars, SnapInv, PairLoads, WrittenBM25, WrittenFaiss
<1>. QED
  BY <1>2, <1>3, <1>4, <1>5, <1>6, <1>7, <1>8, <1>9, <1>10, <1>11, <1>12 DEF Next, SaveStep

\* The save protocol holds in every reachable state.
LEMMA SnapCorrect == Spec => []SnapInv
PROOF
  BY SnapInit, SnapStep, TypeCorrect, PTL DEF Spec

\* A kill while a file is being written, or in the first save ever between
\* faiss.index and meta.pkl, leaves files that no start can load.
LEMMA ExposedBreaks ==
  ASSUME TypeOK, SnapInv, Crash, phase \in Exposed
  PROVE  ~Loadable'
PROOF
<1>1. UNCHANGED file
  BY DEF Crash
<1>2. CASE phase = "bm25"
  BY <1>1, <1>2 DEF SnapInv, Loadable
<1>3. CASE phase = "faiss"
  BY <1>1, <1>3 DEF SnapInv, Loadable
<1>4. CASE phase = "meta"
  BY <1>1, <1>4 DEF SnapInv, Loadable, WrittenFaiss
<1>5. CASE phase = "faiss_saved" /\ file["meta"] = "none"
  BY <1>1, <1>5 DEF SnapInv, Loadable, WrittenFaiss
<1>. QED
  BY <1>2, <1>3, <1>4, <1>5 DEF Exposed

\* Whatever jobs, failures, deletes and kills came before: when the process ends,
\* the next start can load what it finds exactly if it was not killed while a file
\* was being written or, in the first save ever, between faiss.index and meta.pkl.
THEOREM BreaksOnlyInAWriteCorrect == Spec => BreaksOnlyInAWrite
PROOF
<1>. DEFINE A == phase # "down" /\ phase' = "down"
                   => (Loadable' <=> ~(Crash /\ phase \in Exposed))
<1>1. TypeOK /\ SnapInv /\ [Next]_vars => [A]_vars
  <2>. SUFFICES ASSUME TypeOK, SnapInv, Next, phase # "down", phase' = "down",
                       ~(Crash /\ phase \in Exposed)
                PROVE  Loadable'
    BY ExposedBreaks DEF A
  <2>1. CASE Crash
    <3>1. UNCHANGED file /\ phase \in Phases /\ phase \notin Exposed
      BY <2>1 DEF Crash, TypeOK
    <3>2. CASE phase \in {"up", "bm25_saved"}
      BY <3>1, <3>2 DEF SnapInv, PairLoads, Loadable, WrittenBM25, Saving
    <3>3. CASE phase = "faiss_saved" /\ file["meta"] # "none"
      <4>1. file["meta"] = "ok"
        BY <3>3 DEF SnapInv, TypeOK, Files
      <4>. QED
        BY <3>1, <3>3, <4>1 DEF SnapInv, Loadable, WrittenBM25, WrittenFaiss, Saving
    <3>. QED
      BY <3>1, <3>2, <3>3 DEF Exposed, Phases, Saving
  <2>2. CASE WriteMeta
    <3>1. file["bm25"] = "ok" /\ file["faiss"] = "ok"
      BY <2>2 DEF WriteMeta, SnapInv, Saving, WrittenBM25, WrittenFaiss
    <3>2. file'["bm25"] = "ok" /\ file'["faiss"] = "ok" /\ file'["meta"] = "ok"
      BY <2>2, <3>1 DEF WriteMeta, TypeOK, Files
    <3>. QED
      BY <3>2 DEF Loadable
  <2>3. CASE OpenBM25 \/ WriteBM25 \/ OpenFaiss \/ WriteFaiss \/ OpenMeta \/ Start
    BY <2>3 DEF OpenBM25, WriteBM25, OpenFaiss, WriteFaiss, OpenMeta, Start
  <2>4. CASE Search \/ (\E u \in Urls : Delete(u)) \/ (\E j \in Jobs : JobStep(j))
    BY <2>4 DEF Search, Delete, JobStep, StartJob, Gate, EndExtract, Flush, FlushRefused,
                EmbedFails, EndJob, BatchReady
  <2>. QED
    BY <2>1, <2>2, <2>3, <2>4 DEF Next, SaveStep
<1>. QED
  BY <1>1, SnapCorrect, TypeCorrect, PTL DEF Spec, BreaksOnlyInAWrite

-----------------------------------------------------------------------------
(* Both indices hold the same documents *)

FilesAgree ==
  /\ SameDocs(disk.corpus, disk.doc_ids, disk.rows) /\ disk.vdeleted = disk.deleted
  /\ file["bm25"] = "ok" <=> file["faiss"] = "ok"

\* FAISS takes every vector: an index that must train first refuses the first one.
Takes == index_type = "ivf" => TrainAt <= 1

\* Until a kill mixes files of two saves, files that a start can load agree: a
\* kill inside the writing of one leaves a server that no longer starts.
AlignInv ==
  /\ SameSpace
  /\ phase = "up" \/ (phase = "down" /\ Loadable) => FilesAgree

\* Two empty indices are aligned.
LEMMA SameDocsEmpty == SameDocs(<<>>, <<>>, <<>>)
PROOF
  BY DEF SameDocs

\* In aligned indices the vector store knows exactly BM25's ids.
LEMMA AlignedIds ==
  ASSUME TypeOK, SameSpace, NEW id \in Nat
  PROVE  id < Len(corpus) <=> id \in ToSet(doc_ids)
PROOF
<1>1. /\ Len(corpus) \in Nat /\ Len(doc_ids) = Len(corpus)
      /\ DOMAIN doc_ids = 1 .. Len(corpus)
      /\ \A i \in 1 .. Len(corpus) : doc_ids[i] = i - 1
  BY LenProperties DEF TypeOK, SameSpace, SameDocs
<1>2. ASSUME id < Len(corpus) PROVE id \in ToSet(doc_ids)
  <2>1. id + 1 \in 1 .. Len(corpus) /\ doc_ids[id + 1] = id
    BY <1>1, <1>2
  <2>. QED
    BY <1>1, <2>1 DEF ToSet
<1>3. ASSUME id \in ToSet(doc_ids) PROVE id < Len(corpus)
  BY <1>1, <1>3 DEF ToSet
<1>. QED
  BY <1>2, <1>3

\* A batch goes into both indices or, with an index that never refuses a
\* vector, into neither.
LEMMA FlushAligned ==
  ASSUME TypeOK, SameSpace, NEW j \in Jobs, Flush(j)
  PROVE  SameSpace'
PROOF
<1>. DEFINE ps == Batch(j)
<1>1. ps \in Seq(Pages) /\ Len(ps) \in Nat /\ corpus \in Seq(Pages) /\ Len(corpus) \in Nat
  BY BatchType, LenProperties DEF TypeOK
<1>. HIDE DEF ps
<1>2. BM25Add(ps) /\ VectorAdd(ps)
  BY DEF Flush, ps
<1>3. /\ Len(corpus') = Len(corpus) + Len(ps)
      /\ \A i \in 1 .. Len(corpus) + Len(ps) :
           corpus'[i] = IF i <= Len(corpus) THEN corpus[i] ELSE ps[i - Len(corpus)]
  BY <1>1, <1>2, ConcatProperties DEF BM25Add
<1>4. /\ Len(rows) = Len(corpus) /\ Len(doc_ids) = Len(corpus) /\ vdeleted = deleted
      /\ \A i \in 1 .. Len(corpus) : doc_ids[i] = i - 1 /\ rows[i] = corpus[i].text
  BY DEF SameSpace, SameDocs
<1>5. /\ vdeleted' = vdeleted /\ deleted' = deleted
      /\ Len(rows') = Len(rows) + Len(ps) /\ Len(doc_ids') = Len(doc_ids) + Len(ps)
      /\ \A i \in 1 .. Len(rows') :
           rows'[i] = IF i <= Len(rows) THEN rows[i] ELSE ps[i - Len(rows)].text
      /\ \A i \in 1 .. Len(doc_ids') :
           doc_ids'[i] = IF i <= Len(doc_ids) THEN doc_ids[i]
                         ELSE Len(corpus) + (i - Len(doc_ids)) - 1
  BY <1>1, <1>2, VectorAddProperties DEF BM25Add
<1>6. ASSUME NEW i \in 1 .. Len(corpus')
      PROVE  doc_ids'[i] = i - 1 /\ rows'[i] = corpus'[i].text
  <2>1. CASE i <= Len(corpus)
    <3>1. i \in 1 .. Len(rows') /\ i \in 1 .. Len(doc_ids') /\ i \in 1 .. Len(corpus)
      BY <1>1, <1>3, <1>4, <1>5, <2>1
    <3>2. rows'[i] = rows[i] /\ corpus'[i] = corpus[i] /\ doc_ids'[i] = doc_ids[i]
      BY <1>1, <1>3, <1>4, <1>5, <2>1, <3>1
    <3>. QED
      BY <1>4, <3>1, <3>2
  <2>2. CASE ~(i <= Len(corpus))
    <3>1. i \in 1 .. Len(rows') /\ i \in 1 .. Len(doc_ids')
      BY <1>1, <1>3, <1>4, <1>5
    <3>2. rows'[i] = ps[i - Len(corpus)].text /\ corpus'[i] = ps[i - Len(corpus)]
      BY <1>1, <1>3, <1>4, <1>5, <2>2, <3>1
    <3>3. doc_ids'[i] = Len(corpus) + (i - Len(corpus)) - 1
      BY <1>4, <1>5, <2>2, <3>1
    <3>. QED
      BY <1>1, <3>1, <3>2, <3>3
  <2>. QED
    BY <2>1, <2>2
<1>. QED
  BY <1>1, <1>3, <1>4, <1>5, <1>6 DEF SameSpace, SameDocs

\* Files of two saves are never told apart again.
LEMMA MixedStays == TypeOK /\ [Next]_vars /\ ~disk'.mixed => ~disk.mixed
PROOF
<1>. SUFFICES ASSUME TypeOK, [Next]_vars PROVE disk.mixed => disk'.mixed
  OBVIOUS
<1>1. ASSUME NEW j \in Jobs, JobStep(j) PROVE UNCHANGED disk
  BY <1>1 DEF JobStep, StartJob, Gate, EndExtract, Flush, FlushRefused, EmbedFails, EndJob
<1>2. CASE (\E u \in Urls : Delete(u)) \/ Search \/ Start \/ UNCHANGED vars
  BY <1>2 DEF Delete, Search, Start, vars
<1>3. CASE SaveStep
  BY <1>3 DEF SaveStep, OpenBM25, WriteBM25, OpenFaiss, WriteFaiss, OpenMeta, WriteMeta,
              TypeOK
<1>4. CASE Crash
  BY <1>4, CrashDisk
<1>. QED
  BY <1>1, <1>2, <1>3, <1>4 DEF Next

\* Until files are mixed, every step keeps the two indices aligned, and the files
\* of a finished save with each other.
LEMMA AlignStep ==
  TypeOK /\ Takes /\ SnapInv /\ AlignInv /\ ~disk'.mixed /\ [Next]_vars => AlignInv'
PROOF
<1>. SUFFICES ASSUME TypeOK, Takes, SnapInv, AlignInv, ~disk'.mixed, [Next]_vars
     PROVE  AlignInv'
  OBVIOUS
<1>1. ASSUME UNCHANGED <<corpus, deleted, store, phase, file, disk>> PROVE AlignInv'
  BY <1>1 DEF AlignInv, SameSpace, SameDocs, FilesAgree, Loadable, store
<1>2. ASSUME NEW j \in Jobs, Flush(j) PROVE AlignInv'
  <2>1. phase = "up" /\ UNCHANGED <<phase, file, disk>>
    BY <1>2 DEF Flush, BatchReady
  <2>2. SameSpace'
    BY <1>2, FlushAligned DEF AlignInv
  <2>. QED
    BY <2>1, <2>2 DEF AlignInv, FilesAgree, SameDocs
<1>3. ASSUME NEW j \in Jobs, FlushRefused(j) PROVE FALSE
  <2>1. Len(rows) \in Nat /\ TrainAt \in Nat
    BY LenProperties, ConstantAssumption DEF TypeOK
  <2>. QED
    BY <1>3, <2>1 DEF FlushRefused, VectorAddWorks, Takes
<1>4. ASSUME NEW u \in Urls, Delete(u) PROVE AlignInv'
  <2>1. url_to_id[u] \in Nat
    BY <1>4 DEF Delete, TypeOK
  <2>2. url_to_id[u] < Len(corpus) <=> url_to_id[u] \in ToSet(doc_ids)
    BY <2>1, AlignedIds DEF AlignInv
  <2>3. SameSpace'
    BY <1>4, <2>2 DEF Delete, AlignInv, SameSpace, SameDocs
  <2>. QED
    BY <1>4, <2>3 DEF Delete, AlignInv, FilesAgree, SameDocs
<1>5. ASSUME OpenBM25 \/ WriteBM25 \/ OpenFaiss \/ WriteFaiss \/ OpenMeta PROVE AlignInv'
  <2>1. phase' \in Saving /\ UNCHANGED <<corpus, deleted, rows, doc_ids, vdeleted>>
    BY <1>5 DEF OpenBM25, WriteBM25, OpenFaiss, WriteFaiss, OpenMeta, Saving, Memory,
                bm25, store
  <2>. QED
    BY <2>1 DEF AlignInv, SameSpace, SameDocs, Saving
<1>6. ASSUME WriteMeta PROVE AlignInv'
  <2>1. /\ file'["bm25"] = file["bm25"] /\ file'["faiss"] = file["faiss"]
        /\ disk'.corpus = disk.corpus /\ disk'.deleted = disk.deleted
        /\ disk'.rows = disk.rows /\ disk'.doc_ids = doc_ids /\ disk'.vdeleted = vdeleted
    BY <1>6 DEF WriteMeta, TypeOK, Files
  <2>2. WrittenBM25 /\ WrittenFaiss /\ SameSpace
    BY <1>6 DEF WriteMeta, SnapInv, AlignInv, Saving
  <2>3. FilesAgree'
    BY <2>1, <2>2 DEF FilesAgree, WrittenBM25, WrittenFaiss, SameSpace, SameDocs
  <2>4. SameSpace'
    BY <1>6, SameDocsEmpty DEF WriteMeta, EndProcess, SameSpace, SameDocs
  <2>. QED
    BY <2>3, <2>4 DEF AlignInv
<1>7. ASSUME Crash PROVE AlignInv'
  <2>1. /\ phase' = "down" /\ UNCHANGED file
        /\ disk'.corpus = disk.corpus /\ disk'.deleted = disk.deleted
        /\ disk'.rows = disk.rows /\ disk'.doc_ids = disk.doc_ids
        /\ disk'.vdeleted = disk.vdeleted
    BY <1>7, CrashDisk DEF Crash
  <2>2. phase \in {"up", "bm25", "faiss"}
    <3>1. phase \notin Mixing
      BY <1>7, CrashDisk
    <3>. QED
      BY <1>7, <3>1, ConstantAssumption DEF Crash, Mixing, Phases, Saving
  <2>3. SameSpace'
    BY <1>7, SameDocsEmpty DEF Crash, EndProcess, SameSpace, SameDocs
  <2>4. CASE phase = "up"
    BY <2>1, <2>3, <2>4 DEF AlignInv, FilesAgree, SameDocs
  <2>5. CASE phase \in {"bm25", "faiss"}
    <3>1. ~Loadable
      BY <2>5 DEF SnapInv, Loadable
    <3>. QED
      BY <2>1, <2>3, <3>1 DEF AlignInv, Loadable
  <2>. QED
    BY <2>2, <2>4, <2>5
<1>8. ASSUME Start PROVE AlignInv'
  <2>1. phase = "down" /\ phase' = "up" /\ Loadable /\ UNCHANGED <<file, disk>>
    BY <1>8 DEF Start
  <2>2. FilesAgree
    BY <2>1 DEF AlignInv
  <2>3. SameSpace'
    BY <1>8, <2>2 DEF Start, AlignInv, FilesAgree, SameSpace, SameDocs, store
  <2>. QED
    BY <2>1, <2>2, <2>3 DEF AlignInv, FilesAgree, SameDocs
<1>9. ASSUME NEW j \in Jobs, StartJob(j) \/ EndExtract(j) \/ EmbedFails(j) \/ EndJob(j)
       PROVE  AlignInv'
  BY <1>1, <1>9 DEF StartJob, EndExtract, EmbedFails, EndJob, bm25
<1>10. ASSUME NEW j \in Jobs, NEW p \in Pages, Gate(j, p) PROVE AlignInv'
  BY <1>1, <1>10 DEF Gate, bm25
<1>11. CASE Search \/ UNCHANGED vars
  BY <1>1, <1>11 DEF Search, bm25, store, vars
<1>. QED
  BY <1>2, <1>3, <1>4, <1>5, <1>6, <1>7, <1>8, <1>9, <1>10, <1>11
     DEF Next, JobStep, SaveStep

\* The index type is chosen once.
LEMMA SameIndexType == [Next]_vars => index_type' = index_type
PROOF
<1>. SUFFICES ASSUME [Next]_vars PROVE index_type' = index_type
  OBVIOUS
<1>1. ASSUME NEW j \in Jobs, JobStep(j) PROVE index_type' = index_type
  <2>1. CASE StartJob(j) \/ EndExtract(j) \/ EmbedFails(j) \/ EndJob(j)
    BY <2>1 DEF StartJob, EndExtract, EmbedFails, EndJob, store
  <2>2. CASE \E p \in Pages : Gate(j, p)
    BY <2>2 DEF Gate, store
  <2>3. CASE Flush(j)
    BY <2>3 DEF Flush, VectorAdd
  <2>4. CASE FlushRefused(j)
    BY <2>4 DEF FlushRefused, store
  <2>. QED
    BY <1>1, <2>1, <2>2, <2>3, <2>4 DEF JobStep
<1>2. ASSUME NEW u \in Urls, Delete(u) PROVE index_type' = index_type
  BY <1>2 DEF Delete
<1>3. CASE SaveStep
  BY <1>3 DEF SaveStep, OpenBM25, WriteBM25, OpenFaiss, WriteFaiss, OpenMeta, WriteMeta,
              Memory, store, EndProcess
<1>4. CASE Start
  BY <1>4 DEF Start, store
<1>5. CASE Search \/ Crash \/ UNCHANGED vars
  BY <1>5 DEF Search, Crash, EndProcess, store, vars
<1>. QED
  BY <1>1, <1>2, <1>3, <1>4, <1>5 DEF Next

\* Aligned and what it rests on, with any index type that takes every vector.
LEMMA AlignCorrect == Spec => [](Takes /\ ~disk.mixed => AlignInv)
PROOF
<1>1. Init => (Takes /\ ~disk.mixed => AlignInv)
  <2>. SUFFICES ASSUME Init PROVE AlignInv
    OBVIOUS
  <2>1. file["bm25"] = "none" /\ file["faiss"] = "none"
    BY DEF Init, Files
  <2>2. SameSpace /\ FilesAgree
    BY <2>1, SameDocsEmpty DEF Init, SameSpace, FilesAgree
  <2>. QED
    BY <2>2 DEF AlignInv
<1>2. TypeOK /\ SnapInv /\ (Takes /\ ~disk.mixed => AlignInv) /\ [Next]_vars
        => (Takes /\ ~disk.mixed => AlignInv)'
  BY AlignStep, MixedStays, SameIndexType DEF Takes
<1>. QED
  BY <1>1, <1>2, TypeCorrect, SnapCorrect, PTL DEF Spec

\* With an index type that takes every vector, both indices hold the same documents
\* under the same ids and the same tombstones, across jobs, failures, deletes,
\* restarts and kills, until a kill leaves files of two saves.
THEOREM AlignedCorrect == Spec => []Aligned
PROOF
<1>1. (Takes /\ ~disk.mixed => AlignInv) => Aligned
  BY DEF Takes, AlignInv, Aligned
<1>. QED
  BY <1>1, AlignCorrect, PTL

-----------------------------------------------------------------------------
(* No near-duplicates within one process lifetime *)

Live == base + 1 .. Len(corpus)

DedupInv ==
  /\ base <= Len(corpus)
  /\ phase = "down" => corpus = <<>> /\ base = 0 /\ seen = {}
                       /\ \A j \in Jobs : pending[j] = <<>>
  /\ \A i \in Live : corpus[i].text \in seen
  /\ \A j \in Jobs : \A i \in 1 .. Len(pending[j]) : pending[j][i].text \in seen
  /\ \A i, k \in Live : i # k => <<corpus[i].text, corpus[k].text>> \notin Near
  /\ \A j \in Jobs : \A i \in 1 .. Len(pending[j]), k \in Live :
       <<pending[j][i].text, corpus[k].text>> \notin Near
  /\ \A j, l \in Jobs : \A i \in 1 .. Len(pending[j]), k \in 1 .. Len(pending[l]) :
       (j # l \/ i # k) => <<pending[j][i].text, pending[l][k].text>> \notin Near

\* A page the dedup gate admits is near nothing that is indexed or queued.
LEMMA GateDedup ==
  ASSUME TypeOK, DedupInv, NEW j \in Jobs, NEW p \in Pages, Gate(j, p)
  PROVE  DedupInv'
PROOF
<1>1. /\ phase = "up" /\ UNCHANGED <<corpus, base, phase>>
      /\ seen' = seen \union {p.text} /\ p.text \in Texts
      /\ \A s \in seen : <<s, p.text>> \notin Near /\ <<p.text, s>> \notin Near
  BY NearAssumption DEF Gate, Duplicate, bm25, TypeOK, Pages
<1>2. CASE job[j] = "zombie"
  <2>1. pending' = pending
    BY <1>2 DEF Gate
  <2>. QED
    BY <1>1, <2>1 DEF DedupInv, Live
<1>3. CASE job[j] # "zombie"
  <2>1. pending[j] \in Seq(Pages) /\ Len(pending[j]) \in Nat
    BY LenProperties DEF TypeOK
  <2>2. pending' = [pending EXCEPT ![j] = Append(@, p)]
    BY <1>3 DEF Gate
  <2>3. \A l \in Jobs : l # j => pending'[l] = pending[l]
    BY <2>2 DEF TypeOK
  <2>4. /\ Len(pending'[j]) = Len(pending[j]) + 1
        /\ pending'[j][Len(pending[j]) + 1] = p
        /\ \A i \in 1 .. Len(pending[j]) : pending'[j][i] = pending[j][i]
    BY <2>1, <2>2, AppendProperties DEF TypeOK
  \* A pending page after the step is the new one or was pending before.
  <2>5. ASSUME NEW l \in Jobs, NEW i \in 1 .. Len(pending'[l])
        PROVE  \/ i \in 1 .. Len(pending[l]) /\ pending'[l][i] = pending[l][i]
               \/ l = j /\ i = Len(pending[j]) + 1 /\ pending'[l][i] = p
    BY <2>1, <2>3, <2>4
  <2>6. \A l \in Jobs : \A i \in 1 .. Len(pending'[l]) : pending'[l][i].text \in seen'
    BY <1>1, <2>5 DEF DedupInv
  <2>7. \A l \in Jobs : \A i \in 1 .. Len(pending'[l]), k \in Live :
          <<pending'[l][i].text, corpus[k].text>> \notin Near
    BY <1>1, <2>5 DEF DedupInv
  <2>8. \A l, m \in Jobs : \A i \in 1 .. Len(pending'[l]), k \in 1 .. Len(pending'[m]) :
          (l # m \/ i # k) => <<pending'[l][i].text, pending'[m][k].text>> \notin Near
    <3>. SUFFICES ASSUME NEW l \in Jobs, NEW m \in Jobs, NEW i \in 1 .. Len(pending'[l]),
                         NEW k \in 1 .. Len(pending'[m]), l # m \/ i # k
         PROVE  <<pending'[l][i].text, pending'[m][k].text>> \notin Near
      OBVIOUS
    <3>1. CASE /\ i \in 1 .. Len(pending[l]) /\ pending'[l][i] = pending[l][i]
               /\ k \in 1 .. Len(pending[m]) /\ pending'[m][k] = pending[m][k]
      BY <3>1 DEF DedupInv
    <3>2. CASE /\ i \in 1 .. Len(pending[l]) /\ pending'[l][i] = pending[l][i]
               /\ pending'[m][k] = p
      <4>1. pending[l][i].text \in seen
        BY <3>2 DEF DedupInv
      <4>. QED
        BY <1>1, <3>2, <4>1
    <3>3. CASE /\ k \in 1 .. Len(pending[m]) /\ pending'[m][k] = pending[m][k]
               /\ pending'[l][i] = p
      <4>1. pending[m][k].text \in seen
        BY <3>3 DEF DedupInv
      <4>. QED
        BY <1>1, <3>3, <4>1
    <3>. QED
      BY <2>5, <3>1, <3>2, <3>3
  <2>. QED
    BY <1>1, <2>6, <2>7, <2>8 DEF DedupInv, Live
<1>. QED
  BY <1>2, <1>3

\* Pages that leave one job's queue for the corpus stay apart from each other
\* and from all that is queued.
LEMMA MoveDedup ==
  ASSUME TypeOK, DedupInv, phase = "up", NEW j \in Jobs, NEW ps \in Seq(Pages),
         NEW d \in Nat, Len(ps) <= d,
         \A i \in 1 .. Len(ps) : i \in 1 .. Len(pending[j]) /\ ps[i] = pending[j][i],
         corpus' = corpus \o ps, UNCHANGED <<base, seen, phase>>,
         \A l \in Jobs : l # j => pending'[l] = pending[l],
         \A i \in 1 .. Len(pending'[j]) :
           i + d \in 1 .. Len(pending[j]) /\ pending'[j][i] = pending[j][i + d]
  PROVE  DedupInv'
PROOF
<1>1. /\ Len(corpus) \in Nat /\ Len(ps) \in Nat /\ base \in Nat
      /\ Len(corpus') = Len(corpus) + Len(ps)
      /\ \A i \in 1 .. Len(corpus) + Len(ps) :
           corpus'[i] = IF i <= Len(corpus) THEN corpus[i] ELSE ps[i - Len(corpus)]
  BY LenProperties, ConcatProperties DEF TypeOK
<1>2. ASSUME NEW i \in Live'
      PROVE  \/ i \in Live /\ corpus'[i] = corpus[i]
             \/ /\ i > Len(corpus) /\ i - Len(corpus) \in 1 .. Len(pending[j])
                /\ i - Len(corpus) <= d
                /\ corpus'[i] = pending[j][i - Len(corpus)]
  BY <1>1, <1>2 DEF Live
<1>3. \A i \in Live' : corpus'[i].text \in seen'
  BY <1>2 DEF DedupInv
<1>. DEFINE was(l, i) == IF l = j THEN i + d ELSE i
<1>9. ASSUME NEW l \in Jobs, NEW i \in 1 .. Len(pending'[l])
      PROVE  was(l, i) \in 1 .. Len(pending[l]) /\ pending'[l][i] = pending[l][was(l, i)]
  BY <1>9
<1>10. \A l \in Jobs, i, k \in Int : i # k => was(l, i) # was(l, k)
  OBVIOUS
<1>. HIDE DEF was
<1>11. \A l \in Jobs : \A i \in 1 .. Len(pending[l]) : \A k \in Live :
         <<pending[l][i].text, corpus[k].text>> \notin Near
  BY DEF DedupInv
<1>12. \A l, m \in Jobs : \A i \in 1 .. Len(pending[l]) : \A k \in 1 .. Len(pending[m]) :
         (l # m \/ i # k) => <<pending[l][i].text, pending[m][k].text>> \notin Near
  BY DEF DedupInv
<1>4. \A l \in Jobs : \A i \in 1 .. Len(pending'[l]) : pending'[l][i].text \in seen'
  BY <1>9 DEF DedupInv
<1>5. ASSUME NEW i \in Live', NEW k \in Live', i # k
      PROVE  <<corpus'[i].text, corpus'[k].text>> \notin Near
  <2>1. \A s, t \in Texts : <<s, t>> \in Near => <<t, s>> \in Near
    BY NearAssumption
  <2>2. /\ \A m \in Live : corpus[m].text \in Texts
        /\ \A m \in 1 .. Len(pending[j]) : pending[j][m].text \in Texts
    BY DEF DedupInv, TypeOK
  <2>3. CASE i \in Live /\ corpus'[i] = corpus[i] /\ k \in Live /\ corpus'[k] = corpus[k]
    BY <1>5, <2>3 DEF DedupInv
  <2>4. CASE /\ i > Len(corpus) /\ i - Len(corpus) \in 1 .. Len(pending[j])
             /\ corpus'[i] = pending[j][i - Len(corpus)]
             /\ k \in Live /\ corpus'[k] = corpus[k]
    BY <2>4 DEF DedupInv
  <2>5. CASE /\ k > Len(corpus) /\ k - Len(corpus) \in 1 .. Len(pending[j])
             /\ corpus'[k] = pending[j][k - Len(corpus)]
             /\ i \in Live /\ corpus'[i] = corpus[i]
    <3>1. <<pending[j][k - Len(corpus)].text, corpus[i].text>> \notin Near
      BY <2>5 DEF DedupInv
    <3>. QED
      BY <2>1, <2>2, <2>5, <3>1
  <2>6. CASE /\ i > Len(corpus) /\ i - Len(corpus) \in 1 .. Len(pending[j])
             /\ corpus'[i] = pending[j][i - Len(corpus)]
             /\ k > Len(corpus) /\ k - Len(corpus) \in 1 .. Len(pending[j])
             /\ corpus'[k] = pending[j][k - Len(corpus)]
    <3>1. i - Len(corpus) # k - Len(corpus)
      BY <1>1, <1>5 DEF Live
    <3>. QED
      BY <2>6, <3>1 DEF DedupInv
  <2>. QED
    BY <1>2, <2>3, <2>4, <2>5, <2>6
<1>6. ASSUME NEW l \in Jobs, NEW i \in 1 .. Len(pending'[l]), NEW k \in Live'
      PROVE  <<pending'[l][i].text, corpus'[k].text>> \notin Near
  <2>1. CASE k \in Live /\ corpus'[k] = corpus[k]
    <3>1. was(l, i) \in 1 .. Len(pending[l]) /\ pending'[l][i] = pending[l][was(l, i)]
      BY <1>6, <1>9
    <3>. QED
      BY <1>11, <2>1, <3>1
  <2>2. CASE /\ k > Len(corpus) /\ k - Len(corpus) \in 1 .. Len(pending[j])
             /\ k - Len(corpus) <= d
             /\ corpus'[k] = pending[j][k - Len(corpus)]
    <3>1. l # j \/ was(l, i) # k - Len(corpus)
      BY <1>1, <1>6, <2>2 DEF was
    <3>2. was(l, i) \in 1 .. Len(pending[l]) /\ pending'[l][i] = pending[l][was(l, i)]
      BY <1>6, <1>9
    <3>3. <<pending[l][was(l, i)].text, pending[j][k - Len(corpus)].text>> \notin Near
      BY <1>6, <1>12, <2>2, <3>1, <3>2
    <3>. QED
      BY <2>2, <3>2, <3>3
  <2>. QED
    BY <1>2, <2>1, <2>2
<1>7. ASSUME NEW l \in Jobs, NEW m \in Jobs, NEW i \in 1 .. Len(pending'[l]),
             NEW k \in 1 .. Len(pending'[m]), l # m \/ i # k
      PROVE  <<pending'[l][i].text, pending'[m][k].text>> \notin Near
  <2>1. l # m \/ was(l, i) # was(m, k)
    BY <1>7, <1>10
  <2>2. /\ was(l, i) \in 1 .. Len(pending[l]) /\ pending'[l][i] = pending[l][was(l, i)]
        /\ was(m, k) \in 1 .. Len(pending[m]) /\ pending'[m][k] = pending[m][was(m, k)]
    BY <1>7, <1>9
  <2>3. <<pending[l][was(l, i)].text, pending[m][was(m, k)].text>> \notin Near
    BY <1>7, <1>12, <2>1, <2>2
  <2>. QED
    BY <2>2, <2>3
<1>8. base' <= Len(corpus') /\ phase' # "down"
  BY <1>1 DEF DedupInv
<1>. QED
  BY <1>3, <1>4, <1>5, <1>6, <1>7, <1>8 DEF DedupInv, Live

\* Every step keeps indexed and queued texts apart, and all of them in the
\* filter's memory.
LEMMA DedupStep == TypeOK /\ DedupInv /\ [Next]_vars => DedupInv'
PROOF
<1>. SUFFICES ASSUME TypeOK, DedupInv, [Next]_vars PROVE DedupInv'
  OBVIOUS
<1>1. ASSUME UNCHANGED <<corpus, base, seen, pending>>, phase' # "down" \/ phase = "down"
      PROVE  DedupInv'
  BY <1>1 DEF DedupInv, Live
<1>2. ASSUME NEW j \in Jobs, NEW p \in Pages, Gate(j, p) PROVE DedupInv'
  BY <1>2, GateDedup
<1>3. ASSUME NEW j \in Jobs, Flush(j) PROVE DedupInv'
  <2>1. /\ Batch(j) \in Seq(Pages) /\ Len(Batch(j)) \in Nat
        /\ Len(Batch(j)) <= Len(pending[j])
        /\ \A i \in 1 .. Len(Batch(j)) : Batch(j)[i] = pending[j][i]
        /\ pending[j] \in Seq(Pages) /\ Len(pending[j]) \in Nat
    BY BatchType, LenProperties DEF TypeOK
  <2>. DEFINE d == Len(Batch(j))
  <2>2. /\ pending'[j] = SubSeq(pending[j], d + 1, Len(pending[j]))
        /\ \A l \in Jobs : l # j => pending'[l] = pending[l]
    BY <1>3 DEF Flush, TypeOK
  <2>. HIDE DEF d
  <2>3. d \in Nat /\ d <= Len(pending[j])
    BY <2>1 DEF d
  <2>4. \A i \in d + 1 .. Len(pending[j]) : pending[j][i] \in Pages
    BY <2>1, <2>3, ElementOfSeq
  <2>5. /\ Len(pending'[j]) = IF d + 1 <= Len(pending[j])
                             THEN Len(pending[j]) - (d + 1) + 1 ELSE 0
        /\ \A i \in 1 .. Len(pending[j]) - (d + 1) + 1 :
             pending'[j][i] = pending[j][d + 1 + i - 1]
    BY <2>1, <2>2, <2>3, <2>4, SubSeqProperties
  <2>6. \A i \in 1 .. Len(pending'[j]) :
          i + d \in 1 .. Len(pending[j]) /\ pending'[j][i] = pending[j][i + d]
    BY <2>1, <2>3, <2>5
  <2>7. phase = "up" /\ corpus' = corpus \o Batch(j) /\ UNCHANGED <<base, seen, phase>>
    BY <1>3 DEF Flush, BatchReady, BM25Add
  <2>8. \A i \in 1 .. Len(Batch(j)) :
          i \in 1 .. Len(pending[j]) /\ Batch(j)[i] = pending[j][i]
    BY <2>1
  <2>9. Len(Batch(j)) <= d
    BY <2>1 DEF d
  <2>. QED
    BY <2>1, <2>2, <2>3, <2>6, <2>7, <2>8, <2>9, MoveDedup
<1>4. ASSUME NEW j \in Jobs, FlushRefused(j) PROVE DedupInv'
  <2>1. pending[j] \in Seq(Pages) /\ pending[j] # <<>> /\ Len(pending[j]) \in Nat \ {0}
    BY <1>4, ConstantAssumption, EmptySeq DEF FlushRefused, BatchReady, TypeOK
  <2>. DEFINE ps == <<Head(pending[j])>>
  <2>2. ps \in Seq(Pages) /\ Len(ps) = 1 /\ ps[1] = pending[j][1]
    BY <2>1, HeadTailProperties
  <2>3. corpus' = corpus \o ps /\ phase = "up" /\ UNCHANGED <<base, seen, phase>>
    BY <1>4 DEF FlushRefused, BatchReady, BM25Add
  <2>4. pending'[j] = <<>> /\ \A l \in Jobs : l # j => pending'[l] = pending[l]
    BY <1>4 DEF FlushRefused, FailJob, TypeOK
  <2>5. \A i \in 1 .. Len(pending'[j]) :
          i + 1 \in 1 .. Len(pending[j]) /\ pending'[j][i] = pending[j][i + 1]
    BY <2>4
  <2>6. \A i \in 1 .. Len(ps) : i \in 1 .. Len(pending[j]) /\ ps[i] = pending[j][i]
    BY <2>1, <2>2
  <2>. HIDE DEF ps
  <2>7. 1 \in Nat /\ Len(ps) <= 1
    BY <2>2
  <2>. QED
    BY <2>2, <2>3, <2>4, <2>5, <2>6, <2>7, MoveDedup
<1>5. ASSUME NEW j \in Jobs, EmbedFails(j) PROVE DedupInv'
  <2>1. phase = "up" /\ UNCHANGED <<corpus, base, seen, phase>>
    BY <1>5 DEF EmbedFails, BatchReady, bm25
  <2>2. \A l \in Jobs : pending'[l] = IF l = j THEN <<>> ELSE pending[l]
    BY <1>5 DEF EmbedFails, FailJob, TypeOK
  <2>3. ASSUME NEW l \in Jobs, NEW i \in 1 .. Len(pending'[l])
        PROVE  i \in 1 .. Len(pending[l]) /\ pending'[l] = pending[l]
    BY <2>2, <2>3
  <2>. QED
    BY <2>1, <2>3 DEF DedupInv, Live
<1>6. ASSUME EndProcess PROVE DedupInv'
  <2>1. /\ corpus' = <<>> /\ base' = 0 /\ seen' = {} /\ Len(corpus') = 0
        /\ \A j \in Jobs : pending'[j] = <<>> /\ 1 .. Len(pending'[j]) = {}
    BY <1>6 DEF EndProcess
  <2>2. Live' = {}
    BY <2>1 DEF Live
  <2>. QED
    BY <2>1, <2>2 DEF DedupInv
<1>7. ASSUME Start PROVE DedupInv'
  <2>1. /\ phase = "down" /\ phase' = "up" /\ seen = {} /\ UNCHANGED <<seen, pending>>
        /\ \A j \in Jobs : pending[j] = <<>> /\ 1 .. Len(pending[j]) = {}
    BY <1>7 DEF Start, DedupInv
  <2>2. base' = Len(corpus') /\ Len(corpus') \in Nat
    <3>1. CASE file["bm25"] = "ok"
      BY <1>7, <3>1, LenProperties DEF Start, TypeOK
    <3>2. CASE file["bm25"] # "ok"
      BY <1>7, <2>1, <3>2 DEF Start, DedupInv
    <3>. QED
      BY <3>1, <3>2
  <2>3. Live' = {}
    BY <2>2 DEF Live
  <2>. QED
    BY <2>1, <2>2, <2>3 DEF DedupInv
<1>8. ASSUME NEW j \in Jobs, StartJob(j) \/ EndExtract(j) \/ EndJob(j) PROVE DedupInv'
  BY <1>1, <1>8 DEF StartJob, EndExtract, EndJob, bm25
<1>9. ASSUME NEW u \in Urls, Delete(u) PROVE DedupInv'
  BY <1>1, <1>9 DEF Delete
<1>10. CASE Search \/ OpenBM25 \/ WriteBM25 \/ OpenFaiss \/ WriteFaiss \/ OpenMeta \/ UNCHANGED vars
  BY <1>1, <1>10 DEF Search, OpenBM25, WriteBM25, OpenFaiss, WriteFaiss, OpenMeta,
                     bm25, Memory, vars
<1>11. CASE WriteMeta \/ Crash
  BY <1>6, <1>11 DEF WriteMeta, Crash
<1>. QED
  BY <1>2, <1>3, <1>4, <1>5, <1>7, <1>8, <1>9, <1>10, <1>11 DEF Next, JobStep, SaveStep

\* Whatever jobs run at the same time and whatever fails, no two documents
\* indexed in one process lifetime are near-duplicates: a text is marked in
\* the filter in the same step that queries it.
THEOREM OncePerLifetimeCorrect == Spec => []OncePerLifetime
PROOF
<1>1. Init => DedupInv
  <2>. SUFFICES ASSUME Init PROVE DedupInv
    OBVIOUS
  <2>1. /\ corpus = <<>> /\ base = 0 /\ seen = {} /\ Len(corpus) = 0
        /\ \A j \in Jobs : pending[j] = <<>> /\ 1 .. Len(pending[j]) = {}
    BY DEF Init
  <2>2. Live = {}
    BY <2>1 DEF Live
  <2>. QED
    BY <2>1, <2>2 DEF DedupInv
<1>2. DedupInv => OncePerLifetime
  BY DEF DedupInv, Live, OncePerLifetime
<1>. QED
  BY <1>1, <1>2, DedupStep, TypeCorrect, PTL DEF Spec

-----------------------------------------------------------------------------
(* Each leg is an IndexStore *)

\* What is appended leaves the front as it is.
LEMMA FrontStays ==
  ASSUME NEW S, NEW s \in Seq(S), NEW t \in Seq(S), t # <<>>
  PROVE  Len(s \o t) > Len(s) /\ SubSeq(s \o t, 1, Len(s)) = s
PROOF
<1>1. Len(s) \in Nat /\ Len(t) \in Nat \ {0}
  BY LenProperties, EmptySeq
<1>2. Len(s \o t) > Len(s)
  BY <1>1, ConcatProperties
<1>3. SubSeq(s \o t, 1, Len(s)) = s
  <2>1. CASE Len(s) = 0
    <3>1. s = <<>>
      BY <2>1, EmptySeq
    <3>2. SubSeq(s \o t, 1, Len(s)) = <<>>
      BY <2>1, SubSeqEmpty
    <3>. QED
      BY <3>1, <3>2
  <2>2. CASE Len(s) # 0
    <3>1. SubSeq(s \o t, 1, Len(s)) = SubSeq(s, 1, Len(s))
      BY <1>1, <2>2, SubSeqOfConcat1
    <3>. QED
      BY <3>1, SubSeqFull
  <2>. QED
    BY <2>1, <2>2
<1>. QED
  BY <1>2, <1>3

\* A batch that is ready has a page.
LEMMA BatchNotEmpty ==
  ASSUME TypeOK, NEW j \in Jobs, BatchReady(j)
  PROVE  Batch(j) \in Seq(Pages) /\ Batch(j) # <<>>
PROOF
<1>1. Batch(j) \in Seq(Pages)
  BY BatchType
<1>2. Len(pending[j]) \in Nat \ {0} /\ EmbedBatch \in Nat \ {0}
  <2>1. Len(pending[j]) \in Nat
    BY LenProperties DEF TypeOK
  <2>. QED
    BY <2>1, ConstantAssumption DEF BatchReady
<1>. DEFINE n == IF Len(pending[j]) < EmbedBatch THEN Len(pending[j]) ELSE EmbedBatch
<1>3. n \in Nat \ {0} /\ n <= Len(pending[j])
  BY <1>2
<1>4. \A i \in 1 .. n : pending[j][i] \in Pages
  BY <1>2, <1>3, ElementOfSeq DEF TypeOK
<1>5. Batch(j) = SubSeq(pending[j], 1, n)
  BY DEF Batch
<1>. HIDE DEF n
<1>6. Len(SubSeq(pending[j], 1, n)) = IF 1 <= n THEN n - 1 + 1 ELSE 0
  BY <1>3, <1>4, SubSeqProperties
<1>7. Len(Batch(j)) # 0
  BY <1>3, <1>5, <1>6
<1>. QED
  BY <1>1, <1>7, EmptySeq

\* The texts of a batch, as many as its pages.
LEMMA RowsGrow ==
  ASSUME TypeOK, NEW j \in Jobs, BatchReady(j), VectorAdd(Batch(j))
  PROVE  Len(rows') > Len(rows) /\ SubSeq(rows', 1, Len(rows)) = rows
PROOF
<1>. DEFINE ts == [i \in DOMAIN Batch(j) |-> Batch(j)[i].text]
<1>1. /\ Batch(j) \in Seq(Pages) /\ Len(Batch(j)) \in Nat \ {0}
      /\ DOMAIN Batch(j) = 1 .. Len(Batch(j))
      /\ \A i \in 1 .. Len(Batch(j)) : Batch(j)[i] \in Pages
  BY BatchNotEmpty, EmptySeq, LenProperties, ElementOfSeq
<1>2. ts \in Seq(Texts) /\ Len(ts) = Len(Batch(j))
  <2>1. \A i \in 1 .. Len(Batch(j)) : Batch(j)[i].text \in Texts
    BY <1>1 DEF Pages
  <2>. QED
    BY <1>1, <2>1
<1>3. rows' = rows \o ts /\ rows \in Seq(Texts)
  BY DEF VectorAdd, TypeOK
<1>. HIDE DEF ts
<1>4. ts # <<>>
  BY <1>1, <1>2, EmptySeq
<1>. QED
  BY <1>2, <1>3, <1>4, FrontStays

\* Steps of jobs that are no flush touch neither leg.
LEMMA JobStays ==
  ASSUME NEW j \in Jobs, JobStep(j), ~Flush(j), ~FlushRefused(j)
  PROVE  phase = "up" /\ UNCHANGED <<bm25, store, phase, disk>>
PROOF
  BY DEF JobStep, StartJob, Gate, EndExtract, EmbedFails, EndJob, BatchReady

\* Every step of the index is a step of the lexical leg, or none for it.
LEMMA LexicalStep ==
  TypeOK /\ SnapInv /\ UrlMapLatest /\ [Next]_vars => [Lexical!Next]_Lexical!vars
PROOF
<1>. SUFFICES ASSUME TypeOK, SnapInv, UrlMapLatest, [Next]_vars
     PROVE  [Lexical!Next]_Lexical!vars
  OBVIOUS
<1>1. ASSUME UNCHANGED <<corpus, deleted, phase, disk>> PROVE [Lexical!Next]_Lexical!vars
  BY <1>1 DEF Lexical!vars
<1>2. ASSUME NEW j \in Jobs, Flush(j) \/ FlushRefused(j) PROVE Lexical!Extend
  <2>1. /\ phase = "up" /\ UNCHANGED <<phase, disk, deleted>>
        /\ \E ps \in Seq(Pages) : ps # <<>> /\ corpus' = corpus \o ps
    <3>1. CASE Flush(j)
      <4>1. Batch(j) \in Seq(Pages) /\ Batch(j) # <<>>
        BY <3>1, BatchNotEmpty DEF Flush
      <4>. QED
        BY <3>1, <4>1 DEF Flush, BatchReady, BM25Add
    <3>2. CASE FlushRefused(j)
      <4>1. pending[j] \in Seq(Pages) /\ pending[j] # <<>>
        BY <3>2, ConstantAssumption DEF FlushRefused, BatchReady, TypeOK
      <4>2. <<Head(pending[j])>> \in Seq(Pages) /\ <<Head(pending[j])>> # <<>>
        BY <4>1, HeadTailProperties
      <4>. QED
        BY <3>2, <4>2 DEF FlushRefused, BatchReady, BM25Add
    <3>. QED
      BY <1>2, <3>1, <3>2
  <2>2. Len(corpus') > Len(corpus) /\ SubSeq(corpus', 1, Len(corpus)) = corpus
    BY <2>1, FrontStays DEF TypeOK
  <2>. QED
    BY <2>1, <2>2 DEF Lexical!Extend
<1>3. ASSUME NEW u \in Urls, Delete(u) PROVE Lexical!Hide
  <2>1. url_to_id[u] \in Nat /\ Len(corpus) \in Nat /\ url_to_id[u] # NoId
    BY <1>3, LenProperties DEF Delete, TypeOK
  <2>2. url_to_id[u] + 1 \in 1 .. Len(corpus)
    BY <2>1 DEF UrlMapLatest, Latest
  <2>3. url_to_id[u] \in 0 .. Len(corpus) - 1 /\ deleted' = deleted \union {url_to_id[u]}
    BY <1>3, <2>1, <2>2 DEF Delete
  <2>4. phase = "up" /\ UNCHANGED <<phase, disk, corpus>>
    BY <1>3 DEF Delete
  <2>. QED
    BY <2>3, <2>4 DEF Lexical!Hide
<1>4. CASE WriteBM25
  <2>1. phase = "bm25" /\ phase' = "bm25_saved" /\ UNCHANGED <<corpus, deleted>>
    BY <1>4 DEF WriteBM25, Memory
  <2>2. disk'.corpus = corpus /\ disk'.deleted = deleted
    BY <1>4 DEF WriteBM25, TypeOK
  <2>3. Lexical!Save
    BY <2>1, <2>2 DEF Lexical!Save
  <2>. QED
    BY <2>3 DEF Lexical!Next
<1>5. CASE OpenBM25 \/ OpenFaiss \/ WriteFaiss \/ OpenMeta
  <2>1. /\ phase # "down" /\ phase' # "down" /\ UNCHANGED <<corpus, deleted>>
        /\ disk'.corpus = disk.corpus /\ disk'.deleted = disk.deleted
    BY <1>5 DEF OpenBM25, OpenFaiss, WriteFaiss, OpenMeta, Memory, bm25, TypeOK
  <2>. QED
    BY <2>1 DEF Lexical!vars
<1>6. CASE WriteMeta
  <2>1. /\ phase = "meta" /\ phase' = "down" /\ corpus' = <<>> /\ deleted' = {}
        /\ disk'.corpus = disk.corpus /\ disk'.deleted = disk.deleted
    BY <1>6 DEF WriteMeta, EndProcess, TypeOK
  <2>2. Lexical!Stop
    BY <2>1 DEF Lexical!Stop
  <2>. QED
    BY <2>2 DEF Lexical!Next
<1>7. CASE Crash
  <2>1. /\ phase # "down" /\ phase' = "down" /\ corpus' = <<>> /\ deleted' = {}
        /\ disk'.corpus = disk.corpus /\ disk'.deleted = disk.deleted
    BY <1>7, CrashDisk, ConstantAssumption DEF Crash, EndProcess
  <2>2. Lexical!Stop
    BY <2>1 DEF Lexical!Stop
  <2>. QED
    BY <2>2 DEF Lexical!Next
<1>8. CASE Start
  <2>1. phase = "down" /\ phase' = "up" /\ UNCHANGED disk
    BY <1>8 DEF Start
  <2>2. corpus' = disk.corpus /\ deleted' = disk.deleted
    <3>1. CASE file["bm25"] = "ok"
      BY <1>8, <3>1 DEF Start
    <3>2. CASE file["bm25"] # "ok"
      <4>1. file["bm25"] = "none"
        BY <1>8, <3>2 DEF Start, Loadable, TypeOK, Files
      <4>. QED
        BY <1>8, <2>1, <3>2, <4>1 DEF Start, SnapInv
    <3>. QED
      BY <3>1, <3>2
  <2>3. Lexical!Start
    BY <2>1, <2>2 DEF Lexical!Start
  <2>. QED
    BY <2>3 DEF Lexical!Next
<1>9. CASE Search \/ UNCHANGED vars
  BY <1>1, <1>9 DEF Search, bm25, vars
<1>10. ASSUME NEW j \in Jobs, JobStep(j), ~Flush(j), ~FlushRefused(j)
       PROVE  [Lexical!Next]_Lexical!vars
  BY <1>1, <1>10, JobStays DEF bm25
<1>. QED
  BY <1>2, <1>3, <1>4, <1>5, <1>6, <1>7, <1>8, <1>9, <1>10 DEF Next, SaveStep, Lexical!Next

\* BM25Index implements IndexStore: no document moves, no tombstone is lost, a save
\* takes effect as a whole, and a start returns to the last one; for all jobs,
\* failures, batch sizes and index types, and wherever the process is killed.
THEOREM LexicalCorrect == Spec => LexicalSpec
PROOF
<1>1. Init => Lexical!Init
  BY DEF Init, Lexical!Init
<1>. QED
  BY <1>1, LexicalStep, TypeCorrect, SnapCorrect, UrlMapCorrect, PTL
     DEF Spec, LexicalSpec, Lexical!Spec

\* An empty sequence holds nothing.
LEMMA EmptyRows == ToSet(<<>>) = {}
PROOF
  BY DEF ToSet

\* An index that refuses its first vector stays empty.
NoRows == ~Takes => /\ rows = <<>> /\ doc_ids = <<>> /\ vdeleted = {}
                    /\ disk.rows = <<>> /\ disk.doc_ids = <<>> /\ disk.vdeleted = {}

\* It is empty at first.
LEMMA NoRowsInit == Init => NoRows
PROOF
  BY DEF Init, NoRows

\* No step puts a row into such an index.
LEMMA NoRowsStep == TypeOK /\ NoRows /\ [Next]_vars => NoRows'
PROOF
<1>. SUFFICES ASSUME TypeOK, NoRows, [Next]_vars, ~Takes PROVE NoRows'
  BY SameIndexType DEF Takes, NoRows
<1>0. /\ rows = <<>> /\ doc_ids = <<>> /\ vdeleted = {}
      /\ disk.rows = <<>> /\ disk.doc_ids = <<>> /\ disk.vdeleted = {}
  BY DEF NoRows
<1>1. ASSUME UNCHANGED <<rows, doc_ids, vdeleted, disk>> PROVE NoRows'
  BY <1>0, <1>1 DEF NoRows
<1>2. ASSUME NEW j \in Jobs, Flush(j) PROVE FALSE
  <2>1. Len(rows) = 0 /\ TrainAt \in Nat
    BY <1>0, EmptySeq, ConstantAssumption
  <2>. QED
    BY <1>2, <2>1 DEF Flush, VectorAddWorks, Takes
<1>3. ASSUME NEW j \in Jobs, FlushRefused(j) PROVE NoRows'
  BY <1>1, <1>3 DEF FlushRefused, store
<1>4. ASSUME NEW j \in Jobs, JobStep(j), ~Flush(j), ~FlushRefused(j) PROVE NoRows'
  BY <1>1, <1>4, JobStays DEF store
<1>5. ASSUME NEW u \in Urls, Delete(u) PROVE NoRows'
  <2>1. vdeleted' = vdeleted
    BY <1>0, <1>5, EmptyRows DEF Delete
  <2>. QED
    BY <1>1, <1>5, <2>1 DEF Delete
<1>6. CASE WriteBM25 \/ WriteFaiss \/ WriteMeta \/ Crash
  <2>1. /\ disk'.rows \in {disk.rows, rows} /\ disk'.doc_ids \in {disk.doc_ids, doc_ids}
        /\ disk'.vdeleted \in {disk.vdeleted, vdeleted}
    BY <1>6 DEF WriteBM25, WriteFaiss, WriteMeta, Crash, TypeOK
  <2>2. rows' \in {rows, <<>>} /\ doc_ids' \in {doc_ids, <<>>} /\ vdeleted' \in {vdeleted, {}}
    BY <1>6 DEF WriteBM25, WriteFaiss, WriteMeta, Crash, EndProcess, Memory
  <2>. QED
    BY <1>0, <2>1, <2>2 DEF NoRows
<1>7. CASE Start
  BY <1>0, <1>7 DEF Start, NoRows, store
<1>8. CASE Search \/ OpenBM25 \/ OpenFaiss \/ OpenMeta \/ UNCHANGED vars
  BY <1>1, <1>8 DEF Search, OpenBM25, OpenFaiss, OpenMeta, store, Memory, vars
<1>. QED
  BY <1>2, <1>3, <1>4, <1>5, <1>6, <1>7, <1>8 DEF Next, SaveStep

\* What VectorStore.delete finds has a row.
LEMMA IdsHaveRows ==
  ASSUME TypeOK, Takes /\ ~disk.mixed => AlignInv, ~disk.mixed, NoRows, NEW id \in ToSet(doc_ids)
  PROVE  id \in 0 .. Len(rows) - 1
PROOF
<1>1. Takes
  BY EmptyRows DEF NoRows
<1>2. /\ Len(rows) = Len(corpus) /\ Len(doc_ids) = Len(corpus)
      /\ \A i \in 1 .. Len(corpus) : doc_ids[i] = i - 1
  BY <1>1 DEF AlignInv, SameSpace, SameDocs
<1>3. DOMAIN doc_ids = 1 .. Len(corpus) /\ Len(corpus) \in Nat
  BY <1>2, LenProperties DEF TypeOK
<1>. QED
  BY <1>2, <1>3 DEF ToSet

\* Every step of the index is a step of the dense leg, or none for it, until one
\* leaves files of two saves.
LEMMA DenseStep ==
  TypeOK /\ SnapInv /\ (Takes /\ ~disk.mixed => AlignInv) /\ NoRows /\ [Next]_vars
    => [disk'.mixed \/ Dense!Next]_(Dense!vars)
PROOF
<1>. SUFFICES ASSUME TypeOK, SnapInv, Takes /\ ~disk.mixed => AlignInv, NoRows, [Next]_vars,
                     ~disk'.mixed
     PROVE  [Dense!Next]_Dense!vars
  OBVIOUS
<1>0. ~disk.mixed
  BY MixedStays
<1>1. ASSUME UNCHANGED <<rows, vdeleted, phase, disk>> PROVE [Dense!Next]_Dense!vars
  BY <1>1 DEF Dense!vars
<1>2. ASSUME NEW j \in Jobs, Flush(j) PROVE Dense!Extend
  <2>1. phase = "up" /\ UNCHANGED <<phase, disk, vdeleted>>
    BY <1>2 DEF Flush, BatchReady, VectorAdd
  <2>2. Len(rows') > Len(rows) /\ SubSeq(rows', 1, Len(rows)) = rows
    BY <1>2, RowsGrow DEF Flush
  <2>. QED
    BY <2>1, <2>2 DEF Dense!Extend
<1>3. ASSUME NEW u \in Urls, Delete(u) PROVE [Dense!Next]_Dense!vars
  <2>1. phase = "up" /\ UNCHANGED <<phase, disk, rows>>
    BY <1>3 DEF Delete
  <2>2. CASE url_to_id[u] \in ToSet(doc_ids)
    <3>1. /\ url_to_id[u] \in 0 .. Len(rows) - 1
          /\ vdeleted' = vdeleted \union {url_to_id[u]}
      BY <1>0, <1>3, <2>2, IdsHaveRows DEF Delete
    <3>2. Dense!Hide
      BY <2>1, <3>1 DEF Dense!Hide
    <3>. QED
      BY <3>2 DEF Dense!Next
  <2>3. CASE url_to_id[u] \notin ToSet(doc_ids)
    <3>1. vdeleted' = vdeleted
      BY <1>3, <2>3 DEF Delete
    <3>. QED
      BY <1>1, <2>1, <3>1
  <2>. QED
    BY <2>2, <2>3
<1>4. CASE WriteFaiss
  <2>1. phase = "faiss" /\ phase' = "faiss_saved" /\ UNCHANGED <<rows, vdeleted>>
    BY <1>4 DEF WriteFaiss, Memory, store
  <2>2. Dense!Save
    BY <2>1 DEF Dense!Save
  <2>. QED
    BY <2>2 DEF Dense!Next
<1>5. CASE OpenBM25 \/ WriteBM25 \/ OpenFaiss \/ OpenMeta
  <2>1. /\ phase # "down" /\ phase' # "down" /\ UNCHANGED <<rows, vdeleted>>
        /\ disk'.rows = disk.rows /\ disk'.vdeleted = disk.vdeleted
        /\ phase \in {"faiss_saved", "meta"} <=> phase' \in {"faiss_saved", "meta"}
    BY <1>5 DEF OpenBM25, WriteBM25, OpenFaiss, OpenMeta, Memory, store, TypeOK
  <2>. QED
    BY <2>1 DEF Dense!vars
<1>6. CASE WriteMeta
  <2>1. /\ phase = "meta" /\ phase' = "down" /\ rows' = <<>> /\ vdeleted' = {}
    BY <1>6 DEF WriteMeta, EndProcess
  <2>2. disk'.rows = rows /\ disk'.vdeleted = vdeleted
    <3>1. disk.rows = rows
      BY <2>1 DEF SnapInv, Saving, WrittenFaiss
    <3>2. disk'.rows = disk.rows /\ disk'.vdeleted = vdeleted
      BY <1>6 DEF WriteMeta, TypeOK
    <3>. QED
      BY <3>1, <3>2
  <2>3. Dense!Stop
    BY <2>1, <2>2 DEF Dense!Stop
  <2>. QED
    BY <2>3 DEF Dense!Next
<1>7. CASE Crash
  <2>1. /\ phase \notin {"down", "faiss_saved", "meta"} /\ phase' = "down"
        /\ rows' = <<>> /\ vdeleted' = {}
        /\ disk'.rows = disk.rows /\ disk'.vdeleted = disk.vdeleted
    <3>1. phase \notin Mixing
      BY <1>7, CrashDisk
    <3>. QED
      BY <1>7, <3>1, CrashDisk, ConstantAssumption DEF Crash, EndProcess, Mixing
  <2>2. Dense!Stop
    BY <2>1 DEF Dense!Stop
  <2>. QED
    BY <2>2 DEF Dense!Next
<1>8. CASE Start
  <2>1. phase = "down" /\ phase' = "up" /\ UNCHANGED disk
    BY <1>8 DEF Start
  <2>2. rows' = disk.rows /\ vdeleted' = disk.vdeleted
    <3>1. CASE file["faiss"] = "ok"
      BY <1>8, <3>1 DEF Start
    <3>2. CASE file["faiss"] # "ok"
      <4>1. file["faiss"] = "none"
        BY <1>8, <3>2 DEF Start, Loadable
      <4>. QED
        BY <1>8, <2>1, <3>2, <4>1 DEF Start, SnapInv, store
    <3>. QED
      BY <3>1, <3>2
  <2>3. Dense!Start
    BY <2>1, <2>2 DEF Dense!Start
  <2>. QED
    BY <2>3 DEF Dense!Next
<1>9. CASE Search \/ UNCHANGED vars
  BY <1>1, <1>9 DEF Search, store, vars
<1>10. ASSUME NEW j \in Jobs, JobStep(j), ~Flush(j) PROVE [Dense!Next]_Dense!vars
  <2>1. CASE FlushRefused(j)
    BY <1>1, <2>1 DEF FlushRefused, store
  <2>2. CASE ~FlushRefused(j)
    BY <1>1, <1>10, <2>2, JobStays DEF store
  <2>. QED
    BY <2>1, <2>2
<1>. QED
  BY <1>2, <1>3, <1>4, <1>5, <1>6, <1>7, <1>8, <1>9, <1>10 DEF Next, SaveStep, Dense!Next

\* VectorStore implements IndexStore as well, with an IVF index too, which either
\* takes every vector or none: a tombstone always names a row that is there.  So it
\* is until a kill falls between two files or into the writing of the last one,
\* which comes after the new rows have replaced the old ones.
THEOREM DenseCorrect == Spec => DenseSpec
PROOF
<1>1. Init => Dense!Init
  BY DEF Init, Dense!Init
<1>2. TypeOK /\ NoRows /\ [Next]_vars => NoRows'
  BY NoRowsStep
<1>. QED
  BY <1>1, <1>2, NoRowsInit, DenseStep, TypeCorrect, SnapCorrect, AlignCorrect, PTL
     DEF Spec, DenseSpec

-----------------------------------------------------------------------------
(* Searching finds what is best *)

\* A scorer that is not stale covers every document, and only documents are hidden,
\* in memory and in the saved file.
ScoreInv ==
  /\ dirty \/ built \in {0, Len(corpus)}
  /\ deleted \subseteq 0 .. Len(corpus) - 1
  /\ disk.deleted \subseteq 0 .. Len(disk.corpus) - 1

\* There is nothing to score at first.
LEMMA ScoreInit == Init => ScoreInv
PROOF
  BY DEF Init, ScoreInv

\* Every step keeps it so: what grows is stale until it is rebuilt, and what is
\* hidden was the newest document of a URL.
LEMMA ScoreStep == TypeOK /\ UrlMapLatest /\ ScoreInv /\ [Next]_vars => ScoreInv'
PROOF
<1>. SUFFICES ASSUME TypeOK, UrlMapLatest, ScoreInv, [Next]_vars PROVE ScoreInv'
  OBVIOUS
<1>1. ASSUME UNCHANGED <<corpus, deleted, dirty, built, disk>> PROVE ScoreInv'
  BY <1>1 DEF ScoreInv
<1>2. ASSUME NEW ps \in Seq(Pages), BM25Add(ps), UNCHANGED disk PROVE ScoreInv'
  <2>1. Len(corpus) \in Nat /\ Len(ps) \in Nat /\ Len(corpus') = Len(corpus) + Len(ps)
    BY <1>2, LenProperties, ConcatProperties DEF BM25Add, TypeOK
  <2>2. 0 .. Len(corpus) - 1 \subseteq 0 .. Len(corpus') - 1
    BY <2>1
  <2>. QED
    BY <1>2, <2>2 DEF BM25Add, ScoreInv
<1>3. ASSUME EndProcess, disk'.corpus = disk.corpus, disk'.deleted = disk.deleted
      PROVE  ScoreInv'
  BY <1>3 DEF EndProcess, ScoreInv
<1>4. ASSUME Rebuild, UNCHANGED <<corpus, deleted, disk>> PROVE ScoreInv'
  BY <1>4 DEF Rebuild, ScoreInv
<1>5. ASSUME NEW j \in Jobs, Flush(j) PROVE ScoreInv'
  BY <1>2, <1>5, BatchType DEF Flush
<1>6. ASSUME NEW j \in Jobs, FlushRefused(j) PROVE ScoreInv'
  <2>1. pending[j] \in Seq(Pages) /\ pending[j] # <<>>
    BY <1>6, ConstantAssumption DEF FlushRefused, BatchReady, TypeOK
  <2>2. <<Head(pending[j])>> \in Seq(Pages)
    BY <2>1, HeadTailProperties
  <2>. QED
    BY <1>2, <1>6, <2>2 DEF FlushRefused
<1>7. ASSUME NEW u \in Urls, Delete(u) PROVE ScoreInv'
  <2>1. url_to_id[u] \in Nat /\ Len(corpus) \in Nat /\ url_to_id[u] # NoId
    BY <1>7, LenProperties DEF Delete, TypeOK
  <2>2. url_to_id[u] + 1 \in 1 .. Len(corpus)
    BY <2>1 DEF UrlMapLatest, Latest
  <2>3. url_to_id[u] \in 0 .. Len(corpus) - 1 /\ deleted' = deleted \union {url_to_id[u]}
    BY <1>7, <2>1, <2>2 DEF Delete
  <2>4. UNCHANGED <<corpus, dirty, built, disk>>
    BY <1>7 DEF Delete
  <2>. QED
    BY <2>3, <2>4 DEF ScoreInv
<1>8. CASE Search
  BY <1>4, <1>8 DEF Search, bm25
<1>9. CASE OpenBM25
  BY <1>1, <1>4, <1>9 DEF OpenBM25, bm25
<1>10. CASE WriteBM25
  <2>1. disk'.corpus = corpus /\ disk'.deleted = deleted
    BY <1>10 DEF WriteBM25, TypeOK
  <2>2. UNCHANGED <<corpus, deleted, dirty, built>>
    BY <1>10 DEF WriteBM25, Memory
  <2>. QED
    BY <2>1, <2>2 DEF ScoreInv
<1>11. CASE WriteFaiss
  <2>1. disk'.corpus = disk.corpus /\ disk'.deleted = disk.deleted
    BY <1>11 DEF WriteFaiss, TypeOK
  <2>2. UNCHANGED <<corpus, deleted, dirty, built>>
    BY <1>11 DEF WriteFaiss, Memory
  <2>. QED
    BY <2>1, <2>2 DEF ScoreInv
<1>12. CASE WriteMeta
  <2>1. disk'.corpus = disk.corpus /\ disk'.deleted = disk.deleted
    BY <1>12 DEF WriteMeta, TypeOK
  <2>. QED
    BY <1>3, <1>12, <2>1 DEF WriteMeta
<1>13. CASE Crash
  BY <1>3, <1>13 DEF Crash
<1>14. CASE Start
  BY <1>14 DEF Start, ScoreInv
<1>15. CASE OpenFaiss \/ OpenMeta \/ UNCHANGED vars
  BY <1>1, <1>15 DEF OpenFaiss, OpenMeta, Memory, vars
<1>16. ASSUME NEW j \in Jobs, StartJob(j) \/ EndExtract(j) \/ EmbedFails(j) \/ EndJob(j)
       PROVE  ScoreInv'
  BY <1>1, <1>16 DEF StartJob, EndExtract, EmbedFails, EndJob, bm25
<1>17. ASSUME NEW j \in Jobs, NEW p \in Pages, Gate(j, p) PROVE ScoreInv'
  BY <1>1, <1>17 DEF Gate, bm25
<1>. QED
  BY <1>5, <1>6, <1>7, <1>8, <1>9, <1>10, <1>11, <1>12, <1>13, <1>14, <1>15, <1>16, <1>17
     DEF Next, JobStep, SaveStep

\* A ranking lists every document once.
LEMMA RankingIs ==
  ASSUME TypeOK, NEW r \in Rankings
  PROVE  /\ r \in Seq(Nat) /\ Len(r) = Len(corpus) /\ IsInjective(r)
         /\ ToSet(r) \subseteq 0 .. Len(corpus) - 1
         /\ \A i \in 1 .. Len(corpus) : r[i] \in 0 .. Len(corpus) - 1
PROOF
<1>1. Len(corpus) \in Nat
  BY LenProperties DEF TypeOK
<1>2. /\ r \in [1 .. Len(corpus) -> 0 .. Len(corpus) - 1] /\ DOMAIN r = 1 .. Len(corpus)
      /\ \A i, k \in DOMAIN r : r[i] = r[k] => i = k
  BY DEF Rankings
<1>3. r \in [1 .. Len(corpus) -> Nat]
  BY <1>1, <1>2
<1>4. r \in Seq(Nat)
  BY <1>1, <1>3, SeqDef
<1>5. Len(r) = Len(corpus)
  BY <1>1, <1>3, <1>4, LenProperties
<1>. QED
  BY <1>2, <1>4, <1>5 DEF IsInjective, ToSet

\* Only documents are hidden, so there are as many as the fetch allows for.
LEMMA HiddenAre ==
  ASSUME NEW n \in Nat, NEW dead \in SUBSET (0 .. n - 1)
  PROVE  IsFiniteSet(dead) /\ Cardinality(dead) \in Nat
PROOF
<1>1. IsFiniteSet(0 .. n - 1)
  BY FS_Interval
<1>2. IsFiniteSet(dead)
  BY <1>1, FS_Subset
<1>. QED
  BY <1>2, FS_CardinalityType

\* What a search fetches: everything, or the hits asked for and the hidden ones.
LEMMA FetchIs ==
  ASSUME NEW k \in Nat, NEW m \in Nat, NEW n \in Nat
  PROVE  FetchK(k, m, n) \in 0 .. n /\ (FetchK(k, m, n) = n \/ FetchK(k, m, n) = k + m)
PROOF
  BY DEF FetchK

\* A front of a list that is long enough is what Best takes.
LEMMA FrontIs ==
  ASSUME NEW S, NEW s \in Seq(S), NEW n \in 0 .. Len(s)
  PROVE  SubSeq(s, 1, n) = Best(n, s)
PROOF
<1>1. Len(s) \in Nat
  BY LenProperties
<1>2. n = IF n < Len(s) THEN n ELSE Len(s)
  BY <1>1
<1>. QED
  BY <1>2 DEF Best

\* BM25 returns the k best matching documents that are not deleted.
LEMMA LexicalBest ==
  ASSUME TypeOK, ScoreInv, NEW r \in Rankings, NEW k \in Nat, NEW pos \in 0 .. Len(corpus)
  PROVE  LexicalHits(r, pos, k) = Best(k, Only(SubSeq(r, 1, pos), Nat \ deleted))
PROOF
<1>. DEFINE n == Len(corpus)
            m == Cardinality(deleted)
            f == FetchK(k, m, n)
            found == ToSet(Best(pos, r)) \ deleted
<1>1. n \in Nat /\ Scored = n
  BY LenProperties DEF TypeOK, ScoreInv, Scored
<1>2. IsFiniteSet(deleted) /\ m \in Nat
  BY <1>1, HiddenAre DEF ScoreInv
<1>3. r \in Seq(Nat) /\ Len(r) = n /\ IsInjective(r) /\ ToSet(r) \subseteq 0 .. n - 1
  BY RankingIs
<1>4. Only(r, 0 .. Scored - 1) = r
  BY <1>1, <1>3, OnlyAll
<1>5. f \in 0 .. n /\ (f = n \/ f = k + m)
  BY <1>1, <1>2, FetchIs
<1>6. SubSeq(r, 1, pos) = Best(pos, r) /\ SubSeq(r, 1, f) = Best(f, r)
  BY <1>3, <1>5, FrontIs
<1>7. LexicalHits(r, pos, k) = Best(k, Only(Best(f, r), found))
  <2>1. LexicalHits(r, pos, k)
          = Best(k, Only(SubSeq(r, 1, f), ToSet(SubSeq(r, 1, pos)) \ deleted))
    BY <1>1, <1>4 DEF LexicalHits
  <2>. QED
    BY <1>6, <2>1
<1>8. /\ deleted \intersect (Nat \ deleted) = {}
      /\ ToSet(r) \subseteq (Nat \ deleted) \union deleted
  BY <1>1, <1>3
<1>9. pos \in 0 .. n
  OBVIOUS
<1>. HIDE DEF f, n, m, found
<1>10. Best(k, Only(Best(f, r), found)) = Best(k, Only(Best(pos, r), Nat \ deleted))
  <2>1. n = Len(r) /\ m = Cardinality(deleted) /\ found = ToSet(Best(pos, r)) \ deleted
    BY <1>3 DEF n, m, found
  <2>. DEFINE L == Nat \ deleted
             N == Nat
  <2>2. r \in Seq(N) /\ deleted \intersect L = {} /\ ToSet(r) \subseteq L \union deleted
    BY <1>3, <1>8
  <2>. HIDE DEF L, N
  <2>3. Best(k, Only(Best(f, r), found)) = Best(k, Only(Best(pos, r), L))
    BY <1>1, <1>2, <1>3, <1>5, <1>9, <2>1, <2>2, OverFetch
  <2>. QED
    BY <2>3 DEF L
<1>. QED
  BY <1>6, <1>7, <1>10

\* So does a vector store whose row n has doc id n and hides only rows it has.
LEMMA DenseBest ==
  ASSUME TypeOK, NEW r \in Rankings, NEW k \in Nat, Len(rows) = Len(corpus),
         \A i \in 1 .. Len(rows) : doc_ids[i] = i - 1,
         vdeleted \subseteq 0 .. Len(rows) - 1
  PROVE  DenseHits(r, k) = Best(k, Only(r, Nat \ vdeleted))
PROOF
<1>. DEFINE n == Len(corpus)
            m == Cardinality(vdeleted)
            f == FetchK(k, m, n)
            L == Nat \ vdeleted
<1>1. n \in Nat
  BY LenProperties DEF TypeOK
<1>2. IsFiniteSet(vdeleted) /\ m \in Nat
  BY <1>1, HiddenAre
<1>3. /\ r \in Seq(Nat) /\ Len(r) = n /\ IsInjective(r) /\ ToSet(r) \subseteq 0 .. n - 1
      /\ \A i \in 1 .. n : r[i] \in 0 .. n - 1
  BY RankingIs
<1>4. f \in 0 .. n /\ (f = n \/ f = k + m)
  BY <1>1, <1>2, FetchIs
<1>5. [i \in 1 .. f |-> doc_ids[r[i] + 1]] = Best(f, r)
  <2>1. \A i \in 1 .. f : doc_ids[r[i] + 1] = r[i]
    <3>. HIDE DEF f
    <3>1. \A i \in 1 .. f : r[i] \in 0 .. n - 1
      BY <1>1, <1>3, <1>4
    <3>2. \A x \in 0 .. n - 1 : x + 1 \in 1 .. Len(rows) /\ x + 1 - 1 = x
      BY <1>1
    <3>3. \A x \in 0 .. n - 1 : doc_ids[x + 1] = x
      BY <3>2
    <3>. QED
      BY <3>1, <3>3
  <2>2. [i \in 1 .. f |-> doc_ids[r[i] + 1]] = [i \in 1 .. f |-> r[i]]
    BY <2>1
  <2>3. [i \in 1 .. f |-> r[i]] = SubSeq(r, 1, f)
    <3>. HIDE DEF f
    <3>. QED
      BY <1>1, <1>4
  <2>. QED
    BY <1>3, <1>4, <2>2, <2>3, FrontIs
<1>6. DenseHits(r, k) = Best(k, Only(Best(f, r), L))
  BY <1>5 DEF DenseHits
<1>7. Best(n, r) = r
  <2>1. SubSeq(r, 1, n) = r
    BY <1>3, SubSeqFull
  <2>2. n \in 0 .. Len(r)
    BY <1>1, <1>3
  <2>. QED
    BY <1>3, <2>1, <2>2, FrontIs
<1>. DEFINE found == ToSet(Best(n, r)) \ vdeleted
            N == Nat
<1>8. /\ n = Len(r) /\ m = Cardinality(vdeleted) /\ n \in 0 .. n
      /\ r \in Seq(N) /\ vdeleted \intersect L = {} /\ ToSet(r) \subseteq L \union vdeleted
  BY <1>1, <1>3
<1>9. found = ToSet(r) \ vdeleted
  BY <1>7
<1>10. found = ToSet(Best(n, r)) \ vdeleted
  OBVIOUS
<1>. HIDE DEF f, n, m, L, N, found
<1>11. Best(k, Only(Best(f, r), found)) = Best(k, Only(Best(n, r), L))
  BY <1>1, <1>2, <1>3, <1>4, <1>8, <1>10, OverFetch
<1>12. Only(Best(f, r), found) = Only(Best(f, r), L)
  <2>. DEFINE a == Best(f, r)
  <2>1. a \in Seq(N) /\ ToSet(a) \subseteq ToSet(r)
    BY <1>1, <1>4, <1>8, BestIs
  <2>2. Len(a) \in Nat /\ DOMAIN a = 1 .. Len(a)
    BY <2>1, LenProperties
  <2>. HIDE DEF a
  <2>3. \A i \in 1 .. Len(a) : a[i] \in found <=> a[i] \in L
    <3>1. \A i \in 1 .. Len(a) : a[i] \in ToSet(r)
      BY <2>1, <2>2 DEF ToSet
    <3>. QED
      BY <1>8, <1>9, <3>1
  <2>4. Begins(a, a) /\ \A i \in Len(a) + 1 .. Len(a) : a[i] \notin L
    BY <2>2 DEF Begins
  <2>5. Only(a, L) = Only(a, found)
    BY <2>1, <2>3, <2>4, OnlyBegins
  <2>. QED
    BY <2>5 DEF a
<1>. QED
  BY <1>6, <1>7, <1>11, <1>12 DEF L

\* Over-fetching by the tombstone count is enough in both legs, and the scorer is
\* never stale when used, however a query ranks the documents and however many match;
\* for the dense leg until a kill leaves files of two saves.
THEOREM SearchReturnsBestCorrect == Spec => []SearchReturnsBest
PROOF
<1>1. TypeOK /\ ScoreInv /\ (Takes /\ ~disk.mixed => AlignInv) /\ NoRows => SearchReturnsBest
  <2>. SUFFICES ASSUME TypeOK, ScoreInv, Takes /\ ~disk.mixed => AlignInv, NoRows,
                       NEW r \in Rankings, NEW k \in 1 .. MaxDocs
       PROVE  /\ \A pos \in 0 .. Len(corpus) :
                   LexicalHits(r, pos, k) = Best(k, Only(SubSeq(r, 1, pos), Nat \ deleted))
              /\ Len(rows) = Len(corpus) /\ ~disk.mixed =>
                   DenseHits(r, k) = Best(k, Only(r, Nat \ vdeleted))
    BY DEF SearchReturnsBest
  <2>1. k \in Nat
    BY ConstantAssumption
  <2>2. ASSUME NEW pos \in 0 .. Len(corpus)
        PROVE  LexicalHits(r, pos, k) = Best(k, Only(SubSeq(r, 1, pos), Nat \ deleted))
    BY <2>1, LexicalBest
  <2>3. ASSUME Len(rows) = Len(corpus), ~disk.mixed
        PROVE  DenseHits(r, k) = Best(k, Only(r, Nat \ vdeleted))
    <3>1. /\ \A i \in 1 .. Len(rows) : doc_ids[i] = i - 1
          /\ vdeleted \subseteq 0 .. Len(rows) - 1
      <4>1. CASE Takes
        BY <2>3, <4>1 DEF AlignInv, SameSpace, SameDocs, ScoreInv
      <4>2. CASE ~Takes
        <5>1. rows = <<>> /\ vdeleted = {} /\ Len(rows) = 0
          BY <4>2 DEF NoRows
        <5>. QED
          BY <5>1
      <4>. QED
        BY <4>1, <4>2
    <3>. QED
      BY <2>1, <2>3, <3>1, DenseBest
  <2>. QED
    BY <2>2, <2>3
<1>2. TypeOK /\ NoRows /\ [Next]_vars => NoRows'
  BY NoRowsStep
<1>. QED
  BY <1>1, <1>2, NoRowsInit, ScoreInit, ScoreStep, TypeCorrect, UrlMapCorrect, AlignCorrect, PTL
     DEF Spec
=============================================================================
