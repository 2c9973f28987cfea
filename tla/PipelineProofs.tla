--------------------------- MODULE PipelineProofs ---------------------------
(* Theorems about Pipeline, for every value of its constants. *)
EXTENDS Pipeline, ListsProofs

-----------------------------------------------------------------------------
(* Queues *)

OnlyLast(q) == \A i \in 1 .. Len(q) - 1 : q[i] # None

\* What put() does to the items of a queue.
LEMMA PutItems ==
  ASSUME NEW S, NEW q \in Seq(S), NEW e \in S
  PROVE  /\ Append(q, e) \in Seq(S) /\ Len(Append(q, e)) = Len(q) + 1
         /\ \A i \in 1 .. Len(q) : Append(q, e)[i] = q[i]
         /\ Append(q, e)[Len(q) + 1] = e
         /\ ToSet(Append(q, e)) = ToSet(q) \union {e}
PROOF
<1>1. /\ Append(q, e) \in Seq(S) /\ Len(Append(q, e)) = Len(q) + 1
      /\ \A i \in 1 .. Len(q) : Append(q, e)[i] = q[i]
      /\ Append(q, e)[Len(q) + 1] = e
  BY AppendProperties
<1>2. Len(q) \in Nat /\ DOMAIN q = 1 .. Len(q) /\ DOMAIN Append(q, e) = 1 .. Len(q) + 1
  BY <1>1, LenProperties
<1>3. ToSet(Append(q, e)) \subseteq ToSet(q) \union {e}
  BY <1>1, <1>2 DEF ToSet
<1>4. ToSet(q) \subseteq ToSet(Append(q, e))
  BY <1>1, <1>2 DEF ToSet
<1>5. e \in ToSet(Append(q, e))
  BY <1>1, <1>2 DEF ToSet
<1>. QED
  BY <1>1, <1>3, <1>4, <1>5

\* What get() does to them.
LEMMA GetItems ==
  ASSUME NEW S, NEW q \in Seq(S), q # <<>>
  PROVE  /\ Head(q) \in S /\ Head(q) = q[1]
         /\ Tail(q) \in Seq(S) /\ Len(Tail(q)) = Len(q) - 1
         /\ \A i \in 1 .. Len(q) - 1 : Tail(q)[i] = q[i + 1]
         /\ ToSet(q) = ToSet(Tail(q)) \union {Head(q)}
PROOF
<1>1. /\ Head(q) \in S /\ Head(q) = q[1]
      /\ Tail(q) \in Seq(S) /\ Len(Tail(q)) = Len(q) - 1
      /\ \A i \in 1 .. Len(q) - 1 : Tail(q)[i] = q[i + 1]
  BY HeadTailProperties
<1>2. Len(q) \in Nat \ {0} /\ DOMAIN q = 1 .. Len(q) /\ DOMAIN Tail(q) = 1 .. Len(q) - 1
  BY <1>1, LenProperties, EmptySeq
<1>3. ToSet(Tail(q)) \union {Head(q)} \subseteq ToSet(q)
  BY <1>1, <1>2 DEF ToSet
<1>4. ASSUME NEW i \in 1 .. Len(q) PROVE q[i] \in ToSet(Tail(q)) \union {Head(q)}
  <2>1. CASE i = 1
    BY <1>1, <2>1
  <2>2. CASE i # 1
    <3>1. i - 1 \in 1 .. Len(q) - 1 /\ Tail(q)[i - 1] = q[i]
      BY <1>1, <1>2, <2>2
    <3>. QED
      BY <1>2, <3>1 DEF ToSet
  <2>. QED
    BY <2>1, <2>2
<1>5. ToSet(q) \subseteq ToSet(Tail(q)) \union {Head(q)}
  BY <1>2, <1>4 DEF ToSet
<1>. QED
  BY <1>1, <1>3, <1>5

\* An empty queue holds no sentinel.
LEMMA EmptyQueue == ToSet(<<>>) = {} /\ ~Ended(<<>>) /\ OnlyLast(<<>>)
PROOF
  BY DEF ToSet, Ended, OnlyLast

\* A queue without None stays so when a page is put, and gets its only None last.
LEMMA PutOrder ==
  ASSUME NEW q \in Seq(Items), NEW e \in Items, ~Ended(q)
  PROVE  /\ OnlyLast(Append(q, e))
         /\ Ended(Append(q, e)) <=> e = None
PROOF
<1>1. Len(q) \in Nat /\ DOMAIN q = 1 .. Len(q) /\ DOMAIN Append(q, e) = 1 .. Len(q) + 1
  BY PutItems, LenProperties
<1>2. /\ Len(Append(q, e)) = Len(q) + 1 /\ Append(q, e)[Len(q) + 1] = e
      /\ \A i \in 1 .. Len(q) : Append(q, e)[i] = q[i]
  BY PutItems
<1>3. \A i \in 1 .. Len(q) : q[i] # None
  BY <1>1 DEF Ended
<1>4. OnlyLast(Append(q, e))
  BY <1>1, <1>2, <1>3 DEF OnlyLast
<1>5. Ended(Append(q, e)) => e = None
  BY <1>1, <1>2, <1>3 DEF Ended
<1>6. e = None => Ended(Append(q, e))
  BY <1>1, <1>2 DEF Ended
<1>. QED
  BY <1>4, <1>5, <1>6

\* Who takes None leaves an empty queue; who takes a page leaves None where it is.
LEMMA GetOrder ==
  ASSUME NEW q \in Seq(Items), q # <<>>, OnlyLast(q)
  PROVE  /\ OnlyLast(Tail(q))
         /\ Head(q) = None => Tail(q) = <<>> /\ Ended(q)
         /\ Ended(Tail(q)) => Ended(q)
PROOF
<1>1. /\ Tail(q) \in Seq(Items) /\ Len(Tail(q)) = Len(q) - 1 /\ Head(q) = q[1]
      /\ \A i \in 1 .. Len(q) - 1 : Tail(q)[i] = q[i + 1]
  BY GetItems
<1>2. Len(q) \in Nat \ {0} /\ DOMAIN q = 1 .. Len(q) /\ DOMAIN Tail(q) = 1 .. Len(q) - 1
  BY <1>1, LenProperties, EmptySeq
<1>3. OnlyLast(Tail(q))
  BY <1>1, <1>2 DEF OnlyLast
<1>4. ASSUME Head(q) = None PROVE Tail(q) = <<>> /\ Ended(q)
  <2>1. ~(1 \in 1 .. Len(q) - 1)
    BY <1>1, <1>4 DEF OnlyLast
  <2>2. Len(Tail(q)) = 0
    BY <1>1, <1>2, <2>1
  <2>3. Tail(q) = <<>>
    BY <1>1, <2>2, EmptySeq
  <2>4. 1 \in DOMAIN q /\ q[1] = None
    BY <1>1, <1>2, <1>4
  <2>. QED
    BY <2>3, <2>4 DEF Ended
<1>5. Ended(Tail(q)) => Ended(q)
  <2>1. ASSUME NEW i \in 1 .. Len(q) - 1, Tail(q)[i] = None
        PROVE  i + 1 \in DOMAIN q /\ q[i + 1] = None
    BY <1>1, <1>2, <2>1
  <2>. QED
    BY <1>2, <2>1 DEF Ended
<1>. QED
  BY <1>3, <1>4, <1>5

-----------------------------------------------------------------------------
(* The sentinels *)

\* What the steps need to know of types; TypeCorrect has the rest.
Shape ==
  /\ crawl \in {"next", "putting", "ended", "over"}
  /\ extract \in {"loop", "gather", "over"}
  /\ index \in {"loop", "embedding", "last", "over", "failed"}
  /\ crawl_q \in Seq(Items) /\ extract_q \in Seq(Items)
  /\ waiting \in Seq(Pages) /\ crawled \in Seq(Pages) /\ batch \in Seq(Pages)
  /\ extracting \subseteq Pages /\ putting \subseteq Pages
  /\ calls \in Seq(Pages \union {RankCall})
  /\ crawl = "putting" => crawled # <<>>

\* The first queue: once the extractor has seen None, the crawl is over for good.
CrawlSide ==
  /\ OnlyLast(crawl_q)
  /\ Ended(crawl_q) => crawl = "over" /\ extract = "loop"
  /\ extract # "loop" => crawl = "over" /\ crawl_q = <<>>

\* The second: None is put when no task is left, and none comes after.
TaskSide ==
  /\ OnlyLast(extract_q)
  /\ extract = "over" => waiting = <<>> /\ extracting = {} /\ putting = {}
  /\ Ended(extract_q) => extract = "over" /\ index \in {"loop", "embedding", "failed"}
  /\ index \in {"last", "over"} => extract_q = <<>> /\ extract = "over"

SentinelInv == Shape /\ CrawlSide /\ TaskSide

\* A job starts with empty queues and no task.
LEMMA SentinelInit == Init => SentinelInv
PROOF
<1>1. SUFFICES ASSUME Init PROVE SentinelInv
  OBVIOUS
<1>2. Shape
  BY <1>1, EmptySeq DEF Init, Shape
<1>3. CrawlSide /\ TaskSide
  BY <1>1, EmptyQueue DEF Init, CrawlSide, TaskSide
<1>. QED
  BY <1>2, <1>3 DEF SentinelInv

\* Every step keeps a sentinel at the end of its queue.
LEMMA ShapeStep == Shape /\ [Next]_vars => Shape'
PROOF
<1>. SUFFICES ASSUME Shape, [Next]_vars PROVE Shape'
  OBVIOUS
<1>. USE DEF Shape
<1>1. CASE Begin
  BY <1>1 DEF Begin, crawlVars, extractVars, indexVars
<1>2. ASSUME NEW p \in Pages, CrawlNext(p) PROVE Shape'
  <2>1. crawled' \in Seq(Pages) /\ crawled' # <<>>
    BY <1>2, AppendProperties DEF CrawlNext
  <2>. QED
    BY <1>2, <2>1 DEF CrawlNext, extractVars, indexVars
<1>3. CASE CrawlPut
  <2>1. Last(crawled) \in Items
    <3>1. Len(crawled) \in Nat \ {0}
      BY <1>3, EmptySeq DEF CrawlPut
    <3>. QED
      BY <3>1, ElementOfSeq DEF Last, Items
  <2>2. crawl_q' \in Seq(Items)
    BY <1>3, <2>1, AppendProperties DEF CrawlPut
  <2>. QED
    BY <1>3, <2>2 DEF CrawlPut, extractVars, indexVars
<1>4. CASE CrawlEnds
  BY <1>4 DEF CrawlEnds, extractVars, indexVars
<1>5. CASE CrawlSentinel
  <2>1. crawl_q' \in Seq(Items)
    BY <1>5, AppendProperties DEF CrawlSentinel, Items
  <2>. QED
    BY <1>5, <2>1 DEF CrawlSentinel, extractVars, indexVars
<1>6. CASE ExtractTake
  <2>1. Head(crawl_q) \in Items /\ crawl_q' \in Seq(Items)
    BY <1>6, GetItems DEF ExtractTake
  <2>2. waiting' \in Seq(Pages) /\ extract' \in {"loop", "gather"}
    <3>1. CASE Head(crawl_q) = None
      BY <1>6, <3>1 DEF ExtractTake
    <3>2. CASE Head(crawl_q) # None
      <4>1. Head(crawl_q) \in Pages
        BY <2>1, <3>2 DEF Items
      <4>2. Append(waiting, Head(crawl_q)) \in Seq(Pages)
        BY <4>1, AppendProperties
      <4>. QED
        BY <1>6, <3>2, <4>2 DEF ExtractTake
    <3>. QED
      BY <3>1, <3>2
  <2>. QED
    BY <1>6, <2>1, <2>2 DEF ExtractTake, crawlVars, indexVars
<1>7. CASE Acquire
  <2>1. waiting' \in Seq(Pages) /\ extracting' \subseteq Pages
    BY <1>7, GetItems DEF Acquire
  <2>. QED
    BY <1>7, <2>1 DEF Acquire, crawlVars, indexVars
<1>8. ASSUME NEW p \in Pages, NoContent(p) \/ Refuse(p) PROVE Shape'
  BY <1>8 DEF NoContent, Refuse, Leave, crawlVars, indexVars
<1>9. ASSUME NEW p \in Pages, Admit(p) PROVE Shape'
  <2>1. Append(extract_q, p) \in Seq(Items) /\ Append(calls, p) \in Seq(Pages \union {RankCall})
    BY AppendProperties DEF Items
  <2>. QED
    BY <1>9, <2>1 DEF Admit, Record, Leave, crawlVars, indexVars
<1>10. ASSUME NEW p \in Pages, Put(p) PROVE Shape'
  <2>1. Append(extract_q, p) \in Seq(Items) /\ Append(calls, p) \in Seq(Pages \union {RankCall})
    BY AppendProperties DEF Items
  <2>. QED
    BY <1>10, <2>1 DEF Put, Record, crawlVars, indexVars
<1>11. CASE ExtractSentinel
  <2>1. Append(extract_q, None) \in Seq(Items)
    BY AppendProperties DEF Items
  <2>. QED
    BY <1>11, <2>1 DEF ExtractSentinel, crawlVars, indexVars
<1>12. CASE IndexTake
  <2>1. Head(extract_q) \in Items /\ extract_q' \in Seq(Items)
    BY <1>12, GetItems DEF IndexTake
  <2>2. batch' \in Seq(Pages)
    <3>1. CASE Head(extract_q) = None
      BY <1>12, <3>1 DEF IndexTake
    <3>2. CASE Head(extract_q) # None
      <4>1. Head(extract_q) \in Pages
        BY <2>1, <3>2 DEF Items
      <4>2. Append(batch, Head(extract_q)) \in Seq(Pages)
        BY <4>1, AppendProperties
      <4>. QED
        BY <1>12, <3>2, <4>2 DEF IndexTake
    <3>. QED
      BY <3>1, <3>2
  <2>3. index' \in {"loop", "embedding", "last", "over"}
    BY <1>12 DEF IndexTake, AfterTake
  <2>. QED
    BY <1>12, <2>1, <2>2, <2>3 DEF IndexTake, crawlVars, extractVars
<1>13. CASE Flush
  BY <1>13, EmptySeq DEF Flush, crawlVars, extractVars
<1>14. CASE FlushFails
  BY <1>14 DEF FlushFails, crawlVars, extractVars
<1>15. CASE Return \/ Boost
  <2>1. Append(calls, RankCall) \in Seq(Pages \union {RankCall})
    BY AppendProperties
  <2>. QED
    BY <1>15, <2>1 DEF Return, Boost, crawlVars, extractVars, indexVars
<1>16. CASE UNCHANGED vars
  BY <1>16 DEF vars
<1>. QED
  BY <1>1, <1>2, <1>3, <1>4, <1>5, <1>6, <1>7, <1>8, <1>9, <1>10, <1>11, <1>12, <1>13, <1>14,
     <1>15, <1>16
     DEF Next, JobStep, CrawlStage, TaskStep, ExtractStage, IndexStage

\* No action of a stage undoes what the sentinels say of the queues.
LEMMA CrawlSideStep == SentinelInv /\ [Next]_vars => CrawlSide'
PROOF
<1>. SUFFICES ASSUME SentinelInv, [Next]_vars PROVE CrawlSide'
  OBVIOUS
<1>0. Shape /\ CrawlSide /\ crawl_q \in Seq(Items)
  BY DEF SentinelInv, Shape
<1>1. CASE UNCHANGED <<crawl, crawl_q, extract>>
  BY <1>0, <1>1 DEF CrawlSide, OnlyLast, Ended
<1>2. CASE CrawlStage
  <2>1. CASE CrawlPut
    <3>1. ~Ended(crawl_q) /\ extract = "loop" /\ crawl' = "next" /\ UNCHANGED extract
      BY <1>0, <2>1 DEF CrawlSide, CrawlPut, extractVars
    <3>2. Last(crawled) \in Items /\ Last(crawled) # None
      <4>1. crawled \in Seq(Pages) /\ Len(crawled) \in Nat \ {0}
        BY <1>0, <2>1, EmptySeq DEF Shape, CrawlPut
      <4>2. Last(crawled) \in Pages
        BY <4>1, ElementOfSeq DEF Last
      <4>. QED
        BY <4>2, PipelineAssumption DEF Items
    <3>3. crawl_q' = Append(crawl_q, Last(crawled))
      BY <2>1 DEF CrawlPut
    <3>4. OnlyLast(crawl_q)' /\ ~Ended(crawl_q)'
      BY <1>0, <3>1, <3>2, <3>3, PutOrder DEF OnlyLast, Ended
    <3>. QED
      BY <3>1, <3>4 DEF CrawlSide
  <2>2. CASE CrawlSentinel
    <3>1. ~Ended(crawl_q) /\ extract = "loop" /\ crawl' = "over" /\ UNCHANGED extract
      BY <1>0, <2>2 DEF CrawlSide, CrawlSentinel, extractVars
    <3>2. crawl_q' = Append(crawl_q, None) /\ None \in Items
      BY <2>2 DEF CrawlSentinel, Items
    <3>3. OnlyLast(crawl_q)'
      BY <1>0, <3>1, <3>2, PutOrder DEF OnlyLast
    <3>. QED
      BY <3>1, <3>3 DEF CrawlSide
  <2>3. CASE CrawlEnds \/ \E p \in Pages : CrawlNext(p)
    <3>1. ~Ended(crawl_q) /\ extract = "loop" /\ UNCHANGED <<crawl_q, extract>>
      BY <1>0, <2>3 DEF CrawlSide, CrawlEnds, CrawlNext, extractVars
    <3>. QED
      BY <1>0, <3>1 DEF CrawlSide, OnlyLast, Ended
  <2>. QED
    BY <1>2, <2>1, <2>2, <2>3 DEF CrawlStage
<1>3. CASE ExtractTake
  <2>1. /\ crawl_q # <<>> /\ crawl_q' = Tail(crawl_q) /\ extract = "loop" /\ UNCHANGED crawl
        /\ extract' = IF Head(crawl_q) = None THEN "gather" ELSE "loop"
    BY <1>3 DEF ExtractTake, crawlVars
  <2>2. OnlyLast(crawl_q)
    BY <1>0 DEF CrawlSide
  <2>3. /\ OnlyLast(crawl_q)'
        /\ Head(crawl_q) = None => crawl_q' = <<>> /\ Ended(crawl_q)
        /\ Ended(crawl_q)' => Ended(crawl_q)
    BY <1>0, <2>1, <2>2, GetOrder DEF OnlyLast, Ended
  <2>4. CASE Head(crawl_q) = None
    <3>1. crawl_q' = <<>> /\ crawl' = "over" /\ extract' = "gather"
      BY <1>0, <2>1, <2>3, <2>4 DEF CrawlSide
    <3>2. ~Ended(crawl_q)'
      BY <3>1, EmptyQueue DEF Ended
    <3>. QED
      BY <2>3, <3>1, <3>2 DEF CrawlSide
  <2>5. CASE Head(crawl_q) # None
    BY <1>0, <2>1, <2>3, <2>5 DEF CrawlSide
  <2>. QED
    BY <2>4, <2>5
<1>4. CASE ExtractSentinel
  <2>1. extract = "gather" /\ extract' = "over" /\ UNCHANGED <<crawl, crawl_q>>
    BY <1>4 DEF ExtractSentinel, crawlVars
  <2>2. ~Ended(crawl_q) /\ crawl = "over" /\ crawl_q = <<>>
    BY <1>0, <2>1 DEF CrawlSide
  <2>. QED
    BY <1>0, <2>1, <2>2 DEF CrawlSide, OnlyLast, Ended
<1>5. CASE Begin \/ TaskStep \/ IndexStage \/ Return \/ Boost \/ UNCHANGED vars
  <2>1. UNCHANGED <<crawl, crawl_q, extract>>
    BY <1>5 DEF Begin, TaskStep, IndexStage, Return, Boost, vars, crawlVars, extractVars, Acquire,
                NoContent, Refuse, Admit, Put, IndexTake, Flush, FlushFails
  <2>. QED
    BY <1>1, <2>1
<1>. QED
  BY <1>2, <1>3, <1>4, <1>5 DEF Next, JobStep, ExtractStage

\* Every step keeps tasks and sentinel apart: none is left that could put a
\* page after it.
LEMMA TaskSideStep == SentinelInv /\ [Next]_vars => TaskSide'
PROOF
<1>. SUFFICES ASSUME SentinelInv, [Next]_vars PROVE TaskSide'
  OBVIOUS
<1>0. Shape /\ CrawlSide /\ TaskSide /\ extract_q \in Seq(Items) /\ waiting \in Seq(Pages)
  BY DEF SentinelInv, Shape
<1>1. CASE Begin \/ CrawlStage \/ Return \/ Boost \/ UNCHANGED vars
  <2>1. UNCHANGED <<extract_q, extract, waiting, extracting, putting, index>>
    BY <1>1 DEF Begin, CrawlStage, CrawlNext, CrawlPut, CrawlEnds, CrawlSentinel, Return, Boost,
                vars, extractVars, indexVars
  <2>. QED
    BY <1>0, <2>1 DEF TaskSide, OnlyLast, Ended
<1>2. CASE ExtractTake
  <2>1. /\ extract = "loop" /\ extract' # "over"
        /\ UNCHANGED <<extract_q, index>>
    BY <1>2 DEF ExtractTake, indexVars
  <2>2. ~Ended(extract_q) /\ index \notin {"last", "over"} /\ OnlyLast(extract_q)
    BY <1>0, <2>1 DEF TaskSide
  <2>. QED
    BY <2>1, <2>2 DEF TaskSide, OnlyLast, Ended
<1>3. CASE TaskStep
  <2>1. extract # "over"
    <3>1. CASE Acquire
      BY <1>0, <3>1 DEF TaskSide, Acquire
    <3>2. CASE \E p \in Pages : NoContent(p) \/ Refuse(p) \/ Admit(p) \/ Put(p)
      BY <1>0, <3>2 DEF TaskSide, NoContent, Refuse, Admit, Put, Leave
    <3>. QED
      BY <1>3, <3>1, <3>2 DEF TaskStep
  <2>2. ~Ended(extract_q) /\ index \notin {"last", "over"} /\ OnlyLast(extract_q)
    BY <1>0, <2>1 DEF TaskSide
  <2>3. UNCHANGED <<extract, index>>
    BY <1>3 DEF TaskStep, Acquire, NoContent, Refuse, Admit, Put, Leave, indexVars
  <2>4. extract_q' = extract_q \/ \E p \in Pages : extract_q' = Append(extract_q, p)
    BY <1>3 DEF TaskStep, Acquire, NoContent, Refuse, Admit, Put, Leave
  <2>5. OnlyLast(extract_q)' /\ ~Ended(extract_q)'
    <3>1. CASE extract_q' = extract_q
      BY <2>2, <3>1 DEF OnlyLast, Ended
    <3>2. ASSUME NEW p \in Pages, extract_q' = Append(extract_q, p)
          PROVE  OnlyLast(extract_q)' /\ ~Ended(extract_q)'
      <4>1. p \in Items /\ p # None
        BY PipelineAssumption DEF Items
      <4>. QED
        BY <1>0, <2>2, <3>2, <4>1, PutOrder DEF OnlyLast, Ended
    <3>. QED
      BY <2>4, <3>1, <3>2
  <2>. QED
    BY <2>1, <2>2, <2>3, <2>5 DEF TaskSide
<1>4. CASE ExtractSentinel
  <2>1. /\ extract # "over" /\ extract' = "over" /\ extract_q' = Append(extract_q, None)
        /\ waiting' = <<>> /\ extracting' = {} /\ putting' = {} /\ UNCHANGED index
    BY <1>4 DEF ExtractSentinel, indexVars
  <2>2. ~Ended(extract_q) /\ index \in {"loop", "embedding", "failed"}
    BY <1>0, <2>1 DEF TaskSide, Shape
  <2>3. OnlyLast(extract_q)'
    <3>1. None \in Items
      BY DEF Items
    <3>. QED
      BY <1>0, <2>1, <2>2, <3>1, PutOrder DEF OnlyLast
  <2>. QED
    BY <2>1, <2>2, <2>3 DEF TaskSide
<1>5. CASE IndexTake
  <2>1. /\ extract_q # <<>> /\ extract_q' = Tail(extract_q) /\ index = "loop"
        /\ UNCHANGED <<extract, waiting, extracting, putting>>
    BY <1>5 DEF IndexTake, extractVars
  <2>2. /\ Head(extract_q) = None => index' \in {"last", "over"}
        /\ Head(extract_q) # None => index' \in {"loop", "embedding"}
    BY <1>5 DEF IndexTake, AfterTake
  <2>3. OnlyLast(extract_q)
    BY <1>0 DEF TaskSide
  <2>4. /\ OnlyLast(extract_q)'
        /\ Head(extract_q) = None => extract_q' = <<>> /\ Ended(extract_q)
        /\ Ended(extract_q)' => Ended(extract_q)
    BY <1>0, <2>1, <2>3, GetOrder DEF OnlyLast, Ended
  <2>5. CASE Head(extract_q) = None
    <3>1. extract_q' = <<>> /\ extract' = "over" /\ extract = "over"
      BY <1>0, <2>1, <2>4, <2>5 DEF TaskSide
    <3>2. ~Ended(extract_q)'
      BY <3>1, EmptyQueue DEF Ended
    <3>. QED
      BY <1>0, <2>1, <2>4, <3>1, <3>2 DEF TaskSide
  <2>6. CASE Head(extract_q) # None
    BY <1>0, <2>1, <2>2, <2>4, <2>6 DEF TaskSide
  <2>. QED
    BY <2>5, <2>6
<1>6. CASE Flush \/ FlushFails
  <2>1. UNCHANGED <<extract_q, extract, waiting, extracting, putting>>
    BY <1>6 DEF Flush, FlushFails, extractVars
  <2>2. /\ index \in {"embedding", "last"} /\ index' \in {"loop", "over", "failed"}
        /\ index' = "over" => index = "last"
    BY <1>6 DEF Flush, FlushFails
  <2>3. CASE index = "embedding"
    BY <1>0, <2>1, <2>2, <2>3 DEF TaskSide, OnlyLast, Ended
  <2>4. CASE index = "last"
    <3>1. extract_q' = <<>> /\ extract' = "over"
      BY <1>0, <2>1, <2>4 DEF TaskSide
    <3>2. ~Ended(extract_q)'
      BY <3>1, EmptyQueue DEF Ended
    <3>. QED
      BY <1>0, <2>1, <3>1, <3>2 DEF TaskSide, OnlyLast
  <2>. QED
    BY <2>2, <2>3, <2>4
<1>. QED
  BY <1>1, <1>2, <1>3, <1>4, <1>5, <1>6 DEF Next, JobStep, ExtractStage, IndexStage

\* None is the last thing in either queue, and each stage ends only after it has
\* seen it with nothing left behind: for every number of pages, of extraction
\* workers, every queue size and every batch size of IndexPipeline.
THEOREM SentinelLastCorrect == Spec => []SentinelLast
PROOF
<1>1. SentinelInv => SentinelLast
  BY DEF SentinelInv, CrawlSide, TaskSide, OnlyLast, SentinelLast
<1>2. SentinelInv /\ [Next]_vars => SentinelInv'
  BY ShapeStep, CrawlSideStep, TaskSideStep DEF SentinelInv
<1>. QED
  BY <1>1, <1>2, SentinelInit, PTL DEF Spec

-----------------------------------------------------------------------------
(* Links before the index *)

\* Every page that has been put for the index stage, or is past it, has its links
\* recorded: what LinksFirst is about begins at the put.
Admitted == (ToSet(extract_q) \ {None}) \union ToSet(batch) \union indexed
LinksInv == Shape /\ Admitted \subseteq recorded

\* A call to the link graph, for links or for ranks, takes nothing back.
LEMMA CallsGrow ==
  ASSUME Shape, NEW c \in Pages \union {RankCall}, calls' = Append(calls, c)
  PROVE  recorded' = recorded \union ({c} \ {RankCall})
PROOF
<1>1. ToSet(calls)' = ToSet(calls) \union {c}
  <2>1. calls \in Seq(Pages \union {RankCall})
    BY DEF Shape
  <2>2. ToSet(Append(calls, c)) = ToSet(calls) \union {c}
    BY <2>1, PutItems
  <2>. QED
    BY <2>2 DEF ToSet
<1>. QED
  BY <1>1 DEF recorded

\* Every step keeps the links of all pages past the put recorded.
LEMMA LinksStep == LinksInv /\ [Next]_vars => LinksInv'
PROOF
<1>. SUFFICES ASSUME LinksInv, [Next]_vars PROVE LinksInv'
  OBVIOUS
<1>0. /\ Shape /\ Shape' /\ Admitted \subseteq recorded
      /\ extract_q \in Seq(Items) /\ batch \in Seq(Pages)
  BY ShapeStep DEF LinksInv, Shape
<1>1. SUFFICES Admitted' \subseteq recorded'
  BY <1>0 DEF LinksInv
<1>2. ASSUME UNCHANGED <<extract_q, batch, indexed>>, recorded \subseteq recorded'
      PROVE  Admitted' \subseteq recorded'
  BY <1>0, <1>2 DEF Admitted, ToSet
<1>3. CASE Begin \/ CrawlStage \/ ExtractTake \/ Acquire \/ FlushFails \/ UNCHANGED vars
           \/ \E p \in Pages : NoContent(p) \/ Refuse(p)
  <2>1. UNCHANGED <<extract_q, batch, indexed, calls>>
    BY <1>3 DEF Begin, CrawlStage, CrawlNext, CrawlPut, CrawlEnds, CrawlSentinel, ExtractTake,
                Acquire, FlushFails, NoContent, Refuse, vars, extractVars, indexVars
  <2>2. recorded' = recorded
    BY <2>1 DEF recorded, ToSet
  <2>. QED
    BY <1>2, <2>1, <2>2
<1>4. CASE Return \/ Boost
  <2>1. UNCHANGED <<extract_q, batch, indexed>> /\ calls' = Append(calls, RankCall)
    BY <1>4 DEF Return, Boost, indexVars
  <2>2. recorded \subseteq recorded'
    BY <1>0, <2>1, CallsGrow
  <2>. QED
    BY <1>2, <2>1, <2>2
<1>5. ASSUME NEW p \in Pages, Admit(p) \/ Put(p) PROVE Admitted' \subseteq recorded'
  <2>1. CASE UNCHANGED <<extract_q, calls>>
    <3>1. UNCHANGED <<batch, indexed>>
      BY <1>5 DEF Admit, Put, indexVars
    <3>2. recorded' = recorded
      BY <2>1 DEF recorded, ToSet
    <3>. QED
      BY <1>2, <2>1, <3>1, <3>2
  <2>2. CASE extract_q' = Append(extract_q, p) /\ calls' = Append(calls, p)
    <3>1. UNCHANGED <<batch, indexed>>
      BY <1>5 DEF Admit, Put, indexVars
    <3>2. recorded' = recorded \union {p}
      BY <1>0, <2>2, CallsGrow, PipelineAssumption
    <3>3. ToSet(extract_q)' = ToSet(extract_q) \union {p}
      <4>1. ToSet(Append(extract_q, p)) = ToSet(extract_q) \union {p}
        <5>1. p \in Items
          BY DEF Items
        <5>. QED
          BY <1>0, <5>1, PutItems
      <4>. QED
        BY <2>2, <4>1 DEF ToSet
    <3>4. UNCHANGED <<ToSet(batch), indexed>>
      BY <3>1 DEF ToSet
    <3>. QED
      BY <1>0, <3>2, <3>3, <3>4 DEF Admitted
  <2>. QED
    BY <1>5, <2>1, <2>2 DEF Admit, Put, Record
<1>6. CASE ExtractSentinel
  <2>1. UNCHANGED <<batch, indexed, calls>> /\ extract_q' = Append(extract_q, None)
    BY <1>6 DEF ExtractSentinel, indexVars
  <2>2. ToSet(extract_q)' = ToSet(extract_q) \union {None}
    <3>1. ToSet(Append(extract_q, None)) = ToSet(extract_q) \union {None}
      BY <1>0, PutItems DEF Items
    <3>. QED
      BY <2>1, <3>1 DEF ToSet
  <2>3. UNCHANGED <<ToSet(batch), indexed, recorded>>
    BY <2>1 DEF ToSet, recorded
  <2>. QED
    BY <1>0, <2>2, <2>3 DEF Admitted
<1>7. CASE IndexTake
  <2>1. extract_q # <<>> /\ extract_q' = Tail(extract_q) /\ UNCHANGED <<calls, indexed>>
    BY <1>7 DEF IndexTake
  <2>2. UNCHANGED <<recorded, indexed>>
    BY <2>1 DEF recorded, ToSet
  <2>3. ToSet(extract_q) = ToSet(extract_q)' \union {Head(extract_q)} /\ Head(extract_q) \in Items
    <3>1. ToSet(extract_q) = ToSet(Tail(extract_q)) \union {Head(extract_q)}
      BY <1>0, <2>1, GetItems
    <3>2. Head(extract_q) \in Items
      BY <1>0, <2>1, GetItems
    <3>. QED
      BY <2>1, <3>1, <3>2 DEF ToSet
  <2>4. CASE Head(extract_q) = None
    <3>1. ToSet(batch)' = ToSet(batch)
      BY <1>7, <2>4 DEF IndexTake, ToSet
    <3>. QED
      BY <1>0, <2>2, <2>3, <3>1 DEF Admitted
  <2>5. CASE Head(extract_q) # None
    <3>1. Head(extract_q) \in Pages /\ batch' = Append(batch, Head(extract_q))
      BY <1>7, <2>3, <2>5 DEF IndexTake, Items
    <3>2. ToSet(Append(batch, Head(extract_q))) = ToSet(batch) \union {Head(extract_q)}
      BY <1>0, <3>1, PutItems
    <3>3. ToSet(batch)' = ToSet(batch) \union {Head(extract_q)}
      BY <3>1, <3>2 DEF ToSet
    <3>. QED
      BY <1>0, <2>2, <2>3, <2>5, <3>3 DEF Admitted
  <2>. QED
    BY <2>4, <2>5
<1>8. CASE Flush
  <2>1. /\ UNCHANGED <<extract_q, calls>> /\ batch' = <<>>
        /\ indexed' = indexed \union ToSet(batch)
    BY <1>8 DEF Flush
  <2>2. UNCHANGED <<ToSet(extract_q), recorded>>
    BY <2>1 DEF recorded, ToSet
  <2>3. ToSet(batch)' = {}
    BY <2>1, EmptyQueue DEF ToSet
  <2>. QED
    BY <1>0, <2>1, <2>2, <2>3 DEF Admitted
<1>. QED
  BY <1>3, <1>4, <1>5, <1>6, <1>7, <1>8
     DEF Next, JobStep, TaskStep, ExtractStage, IndexStage

\* Whatever the queue between the stages does, no page reaches a batch or the
\* indices whose links have not been given to the link graph by add_page.
LEMMA RecordedFirst == Spec => [](indexed \union ToSet(batch) \subseteq recorded)
PROOF
<1>1. Init => LinksInv
  <2>1. ASSUME Init PROVE Shape
    BY <2>1, SentinelInit DEF SentinelInv
  <2>2. ASSUME Init PROVE Admitted \subseteq recorded
    BY <2>2, EmptyQueue DEF Init, Admitted
  <2>. QED
    BY <2>1, <2>2 DEF LinksInv
<1>2. LinksInv => indexed \union ToSet(batch) \subseteq recorded
  BY DEF LinksInv, Admitted
<1>. QED
  BY <1>1, <1>2, LinksStep, PTL DEF Spec


-----------------------------------------------------------------------------
(* Every page in one place *)

Places == {"crawl", "crawl_q", "waiting", "extracting", "putting", "extract_q", "batch",
           "indexed", "empty"}

ItemsOf(q) == ToSet(q) \ {None}

\* The pages at each place.  "crawl" is the crawler's own hand: the page that is
\* counted and waits for room.
at == [l \in Places |->
         CASE l = "crawl"      -> IF crawl = "putting" THEN {Last(crawled)} ELSE {}
           [] l = "crawl_q"    -> ItemsOf(crawl_q)
           [] l = "waiting"    -> ItemsOf(waiting)
           [] l = "extracting" -> extracting
           [] l = "putting"    -> putting
           [] l = "extract_q"  -> ItemsOf(extract_q)
           [] l = "batch"      -> ItemsOf(batch)
           [] l = "indexed"    -> indexed
           [] l = "empty"      -> empty]

\* A page goes from one place to another; nothing else happens to the places.
Moved(F, G, p, a, b) ==
  /\ a \in Places /\ b \in Places /\ a # b /\ p \in F[a]
  /\ G[a] = F[a] \ {p} /\ G[b] = F[b] \union {p}
  /\ \A l \in Places : l # a /\ l # b => G[l] = F[l]

\* The places share no page, and hold finitely many of the pages crawled.
Apart(F, all) ==
  /\ \A l, m \in Places : l # m => F[l] \intersect F[m] = {}
  /\ \A l \in Places : IsFiniteSet(F[l]) /\ F[l] \subseteq all

N(l) == Cardinality(at[l])

\* A page at one place is at no other.
LEMMA MoveKeepsApart ==
  ASSUME NEW F, NEW G, NEW p, NEW a, NEW b, NEW all, Apart(F, all), Moved(F, G, p, a, b)
  PROVE  /\ Apart(G, all) /\ p \notin F[b]
         /\ Cardinality(G[a]) = Cardinality(F[a]) - 1
         /\ Cardinality(G[b]) = Cardinality(F[b]) + 1
         /\ \A l \in Places : l # a /\ l # b => Cardinality(G[l]) = Cardinality(F[l])
PROOF
<1>1. p \notin F[b]  BY DEF Apart, Moved
<1>2. IsFiniteSet(F[a]) /\ IsFiniteSet(F[b]) /\ p \in F[a]  BY DEF Apart, Moved
<1>3. IsFiniteSet(G[a]) /\ Cardinality(G[a]) = Cardinality(F[a]) - 1
  BY <1>2, FS_RemoveElement DEF Moved
<1>4. IsFiniteSet(G[b]) /\ Cardinality(G[b]) = Cardinality(F[b]) + 1
  <2>1. /\ IsFiniteSet(F[b] \union {p})
        /\ Cardinality(F[b] \union {p}) = Cardinality(F[b]) + 1
    BY <1>1, <1>2, FS_AddElement
  <2>2. QED  BY <2>1 DEF Moved
<1>5. \A l \in Places : l # a /\ l # b => G[l] = F[l]  BY DEF Moved
<1>6. \A l, m \in Places : l # m => G[l] \intersect G[m] = {}
  BY <1>1, <1>2 DEF Apart, Moved
<1>7. \A l \in Places : IsFiniteSet(G[l]) /\ G[l] \subseteq all
  <2>1. G[a] \subseteq all /\ G[b] \subseteq all  BY DEF Apart, Moved
  <2>2. QED  BY <1>3, <1>4, <1>5, <2>1 DEF Apart
<1>8. QED  BY <1>1, <1>3, <1>4, <1>5, <1>6, <1>7 DEF Apart

\* No page is twice in a queue.
Once(q) == \A i, j \in DOMAIN q : q[i] = q[j] /\ q[i] # None => i = j

\* Who puts a page that is not in the queue leaves it so.
LEMMA PutOnce ==
  ASSUME NEW q \in Seq(Items), NEW p \in Items, Once(q), p \notin ItemsOf(q)
  PROVE  /\ Once(Append(q, p))
         /\ ItemsOf(Append(q, p)) = ItemsOf(q) \union ({p} \ {None})
PROOF
<1>1. /\ Append(q, p) \in Seq(Items) /\ Len(Append(q, p)) = Len(q) + 1
      /\ \A i \in 1 .. Len(q) : Append(q, p)[i] = q[i]
      /\ Append(q, p)[Len(q) + 1] = p
      /\ ToSet(Append(q, p)) = ToSet(q) \union {p}
  BY PutItems
<1>2. Len(q) \in Nat /\ DOMAIN q = 1 .. Len(q) /\ DOMAIN Append(q, p) = 1 .. Len(q) + 1
  BY <1>1, LenProperties
<1>3. \A i \in 1 .. Len(q) : q[i] = p => p = None
  BY <1>2 DEF ItemsOf, ToSet
<1>4. Once(Append(q, p))
  BY <1>1, <1>2, <1>3 DEF Once
<1>5. QED  BY <1>1, <1>4 DEF ItemsOf

\* Who takes a page from such a queue takes the only one.
LEMMA GetOnce ==
  ASSUME NEW q \in Seq(Items), q # <<>>, Once(q)
  PROVE  /\ Once(Tail(q)) /\ ItemsOf(Tail(q)) = ItemsOf(q) \ {Head(q)}
         /\ Head(q) # None => Head(q) \in ItemsOf(q)
         /\ Head(q) \in Items
PROOF
<1>1. /\ Head(q) \in Items /\ Head(q) = q[1]
      /\ Tail(q) \in Seq(Items) /\ Len(Tail(q)) = Len(q) - 1
      /\ \A i \in 1 .. Len(q) - 1 : Tail(q)[i] = q[i + 1]
      /\ ToSet(q) = ToSet(Tail(q)) \union {Head(q)}
  BY GetItems
<1>2. Len(q) \in Nat \ {0} /\ DOMAIN q = 1 .. Len(q) /\ DOMAIN Tail(q) = 1 .. Len(q) - 1
  BY <1>1, LenProperties, EmptySeq
<1>3. Once(Tail(q))
  BY <1>1, <1>2 DEF Once
<1>4. Head(q) # None => Head(q) \notin ToSet(Tail(q))
  <2>1. ASSUME NEW i \in 1 .. Len(q) - 1, Tail(q)[i] = Head(q) PROVE Head(q) = None
    <3>1. q[i + 1] = q[1] /\ i + 1 \in DOMAIN q /\ 1 \in DOMAIN q /\ i + 1 # 1
      BY <1>1, <1>2, <2>1
    <3>2. QED  BY <1>1, <3>1 DEF Once
  <2>2. QED  BY <1>2, <2>1 DEF ToSet
<1>5. QED  BY <1>1, <1>3, <1>4 DEF ItemsOf

-----------------------------------------------------------------------------
(* The counters *)

\* The counters are the numbers of pages at the places.
Counted ==
  /\ stats \in [StatFields -> Nat]
  /\ stats["crawled"] = N("crawl") + N("crawl_q") + N("waiting") + N("extracting") + N("empty")
                        + stats["quality_dropped"] + stats["deduped"] + stats["extracted"]
  /\ stats["extracted"] = N("putting") + N("extract_q") + N("batch") + N("indexed")
  /\ stats["indexed"] = N("indexed")
  /\ Len(batch) = N("batch")

\* The stages are at their ends when the job is.
Finished ==
  /\ index = "over" => batch = <<>>
  /\ status = "done" => crawl = "over" /\ extract = "over" /\ index = "over"

PlaceInv ==
  /\ SentinelInv /\ Finished
  /\ Apart(at, ToSet(crawled))
  /\ Once(crawl_q) /\ Once(waiting) /\ Once(extract_q)
  /\ Counted
  /\ recorded = at["extract_q"] \union at["batch"] \union at["indexed"]

\* The places, one by one.
LEMMA AtIs ==
  /\ at["crawl"] = IF crawl = "putting" THEN {Last(crawled)} ELSE {}
  /\ at["crawl_q"] = ItemsOf(crawl_q) /\ at["waiting"] = ItemsOf(waiting)
  /\ at["extracting"] = extracting /\ at["putting"] = putting
  /\ at["extract_q"] = ItemsOf(extract_q) /\ at["batch"] = ItemsOf(batch)
  /\ at["indexed"] = indexed /\ at["empty"] = empty
PROOF
  BY DEF at, Places

\* The same after a step.
LEMMA AtIsNext ==
  /\ at'["crawl"] = IF crawl' = "putting" THEN {Last(crawled')} ELSE {}
  /\ at'["crawl_q"] = ItemsOf(crawl_q') /\ at'["waiting"] = ItemsOf(waiting')
  /\ at'["extracting"] = extracting' /\ at'["putting"] = putting'
  /\ at'["extract_q"] = ItemsOf(extract_q') /\ at'["batch"] = ItemsOf(batch')
  /\ at'["indexed"] = indexed' /\ at'["empty"] = empty'
PROOF
  BY DEF at, Places, ItemsOf

\* A finished job adds up in every state of the invariant.
LEMMA PlacesAddUp == PlaceInv => JobAddsUp
PROOF
<1> SUFFICES ASSUME PlaceInv, status = "done"
             PROVE  /\ stats["crawled"] = Cardinality(empty) + stats["quality_dropped"]
                                          + stats["deduped"] + stats["extracted"]
                    /\ stats["extracted"] = stats["indexed"]
                    /\ stats["indexed"] = Cardinality(indexed)
                    /\ recorded = indexed
  BY DEF JobAddsUp
<1>1. crawl = "over" /\ extract = "over" /\ index = "over" /\ batch = <<>>
  BY DEF PlaceInv, Finished
<1>2. crawl_q = <<>> /\ waiting = <<>> /\ extracting = {} /\ putting = {} /\ extract_q = <<>>
  BY <1>1 DEF PlaceInv, SentinelInv, CrawlSide, TaskSide
<1>3. /\ at["crawl"] = {} /\ at["crawl_q"] = {} /\ at["waiting"] = {} /\ at["extracting"] = {}
      /\ at["putting"] = {} /\ at["extract_q"] = {} /\ at["batch"] = {}
      /\ at["indexed"] = indexed /\ at["empty"] = empty
  BY <1>1, <1>2, AtIs, EmptyQueue DEF ItemsOf
<1>4. Cardinality({}) = 0  BY FS_EmptySet
<1>5. /\ N("crawl") = 0 /\ N("crawl_q") = 0 /\ N("waiting") = 0 /\ N("extracting") = 0
      /\ N("putting") = 0 /\ N("extract_q") = 0 /\ N("batch") = 0
      /\ N("indexed") = Cardinality(indexed) /\ N("empty") = Cardinality(empty)
  BY <1>3, <1>4 DEF N
<1>6. Cardinality(indexed) \in Nat /\ Cardinality(empty) \in Nat
  <2>1. IsFiniteSet(indexed) /\ IsFiniteSet(empty)
    BY <1>3 DEF PlaceInv, Apart, Places
  <2>2. QED  BY <2>1, FS_CardinalityType
<1>7. Counted  BY DEF PlaceInv
<1>8. stats["extracted"] \in Nat /\ stats["quality_dropped"] \in Nat /\ stats["deduped"] \in Nat
  BY <1>7 DEF Counted, StatFields
<1>9. recorded = indexed  BY <1>3 DEF PlaceInv
<1>10. /\ stats["crawled"] = 0 + 0 + 0 + 0 + Cardinality(empty)
                             + stats["quality_dropped"] + stats["deduped"] + stats["extracted"]
       /\ stats["extracted"] = 0 + 0 + 0 + Cardinality(indexed)
       /\ stats["indexed"] = Cardinality(indexed)
  <2>1. N("batch") = 0  BY <1>5
  <2>2. QED  BY <1>5, <1>7, <2>1 DEF Counted
<1>11. QED  BY <1>6, <1>8, <1>9, <1>10

\* A job starts with no page anywhere.
LEMMA PlaceInit == Init => PlaceInv
PROOF
<1> SUFFICES ASSUME Init PROVE PlaceInv  OBVIOUS
<1>1. /\ at["crawl"] = {} /\ at["crawl_q"] = {} /\ at["waiting"] = {} /\ at["extracting"] = {}
      /\ at["putting"] = {} /\ at["extract_q"] = {} /\ at["batch"] = {}
      /\ at["indexed"] = {} /\ at["empty"] = {}
  BY AtIs, EmptyQueue DEF Init, ItemsOf
<1>2. \A l \in Places : at[l] = {}  BY <1>1 DEF Places
<1>3. IsFiniteSet({}) /\ Cardinality({}) = 0  BY FS_EmptySet
<1>4. Apart(at, ToSet(crawled))  BY <1>2, <1>3 DEF Apart
<1>5. \A l \in Places : N(l) = 0  BY <1>2, <1>3 DEF N
<1>6. Counted
  <2>1. Len(batch) = 0  BY EmptySeq DEF Init
  <2>2. QED  BY <1>5, <2>1 DEF Counted, Init, StatFields, Places
<1>7. Once(crawl_q) /\ Once(waiting) /\ Once(extract_q)
  BY DEF Init, Once
<1>8. recorded = {}  BY EmptyQueue DEF Init, recorded
<1>9. Finished  BY DEF Init, Finished
<1>10. QED  BY <1>1, <1>4, <1>6, <1>7, <1>8, <1>9, SentinelInit DEF PlaceInv

-----------------------------------------------------------------------------
(* The steps *)

\* The numbers of pages are numbers.
LEMMA NumbersAre ==
  ASSUME PlaceInv
  PROVE  /\ \A l \in Places : N(l) \in Nat
         /\ \A f \in StatFields : stats[f] \in Nat
         /\ stats \in [StatFields -> Nat]
         /\ Shape /\ crawl_q \in Seq(Items) /\ extract_q \in Seq(Items)
         /\ waiting \in Seq(Items) /\ batch \in Seq(Items) /\ batch \in Seq(Pages)
         /\ waiting \in Seq(Pages) /\ crawled \in Seq(Pages)
         /\ Len(batch) \in Nat
PROOF
<1>1. \A l \in Places : N(l) \in Nat
  BY FS_CardinalityType DEF PlaceInv, Apart, N
<1>2. stats \in [StatFields -> Nat]  BY DEF PlaceInv, Counted
<1>3. Shape  BY DEF PlaceInv, SentinelInv
<1>4. /\ crawl_q \in Seq(Items) /\ extract_q \in Seq(Items)
      /\ waiting \in Seq(Pages) /\ batch \in Seq(Pages) /\ crawled \in Seq(Pages)
  BY <1>3 DEF Shape
<1>5. Pages \subseteq Items  BY DEF Items
<1>6. waiting \in Seq(Items) /\ batch \in Seq(Items)
  BY <1>4, <1>5, SeqMonotonic
<1>7. Len(batch) \in Nat  BY <1>4, LenProperties
<1>8. QED  BY <1>1, <1>2, <1>3, <1>4, <1>6, <1>7

\* What a step that moves one page does to the numbers.
LEMMA MoveSafe ==
  ASSUME PlaceInv, NEW p, NEW a, NEW b, Moved(at, at', p, a, b), crawled' = crawled
  PROVE  /\ Apart(at, ToSet(crawled))'
         /\ p \notin at[b]
         /\ N(a)' = N(a) - 1 /\ N(b)' = N(b) + 1
         /\ \A l \in Places : l # a /\ l # b => N(l)' = N(l)
PROOF
<1>1. Apart(at, ToSet(crawled))  BY DEF PlaceInv
<1> DEFINE G == at'
           all == ToSet(crawled)
<1>2. Moved(at, G, p, a, b)  OBVIOUS
<1>3. Apart(at, all)  BY <1>1
<1> HIDE DEF G, all
<1>4. /\ Apart(G, all) /\ p \notin at[b]
      /\ Cardinality(G[a]) = Cardinality(at[a]) - 1
      /\ Cardinality(G[b]) = Cardinality(at[b]) + 1
      /\ \A l \in Places : l # a /\ l # b => Cardinality(G[l]) = Cardinality(at[l])
  BY <1>2, <1>3, MoveKeepsApart
<1>5. ToSet(crawled)' = ToSet(crawled)  BY DEF ToSet
<1>6. QED  BY <1>4, <1>5 DEF G, all, N, Apart

\* A step that leaves every page where it is.
LEMMA StaySafe ==
  ASSUME PlaceInv, \A l \in Places : at'[l] = at[l], UNCHANGED <<crawled, stats, batch>>
  PROVE  Apart(at, ToSet(crawled))' /\ Counted'
PROOF
<1>1. Apart(at, ToSet(crawled))'
  <2>1. Apart(at, ToSet(crawled))  BY DEF PlaceInv
  <2>2. ToSet(crawled)' = ToSet(crawled)  BY DEF ToSet
  <2>3. QED  BY <2>1, <2>2 DEF Apart
<1>2. \A l \in Places : N(l)' = N(l)  BY DEF N
<1>3. Counted  BY DEF PlaceInv
<1>4. /\ N("crawl")' = N("crawl") /\ N("crawl_q")' = N("crawl_q")
      /\ N("waiting")' = N("waiting") /\ N("extracting")' = N("extracting")
      /\ N("putting")' = N("putting") /\ N("extract_q")' = N("extract_q")
      /\ N("batch")' = N("batch") /\ N("indexed")' = N("indexed") /\ N("empty")' = N("empty")
  BY <1>2 DEF Places
<1>5. Counted'  BY <1>3, <1>4 DEF Counted
<1>6. QED  BY <1>1, <1>5

\* The stages stay at their ends.
LEMMA FinishedStep == SentinelInv /\ Finished /\ [Next]_vars => Finished'
PROOF
<1> SUFFICES ASSUME SentinelInv, Finished, [Next]_vars PROVE Finished'  OBVIOUS
<1>1. CASE UNCHANGED <<index, batch, status, crawl, extract>>
  BY <1>1 DEF Finished
<1>2. CASE Begin  BY <1>2 DEF Begin, Finished, crawlVars, extractVars, indexVars
<1>3. CASE CrawlStage
  <2>1. crawl # "over" /\ UNCHANGED <<index, batch, status, extract>>
    BY <1>3 DEF CrawlStage, CrawlNext, CrawlPut, CrawlEnds, CrawlSentinel, extractVars, indexVars
  <2>2. QED  BY <2>1 DEF Finished
<1>4. CASE ExtractStage
  <2>1. extract # "over" /\ UNCHANGED <<index, batch, status, crawl>>
    BY <1>4 DEF ExtractStage, ExtractTake, ExtractSentinel, crawlVars, indexVars
  <2>2. QED  BY <2>1 DEF Finished
<1>5. CASE TaskStep
  <2>1. UNCHANGED <<index, batch, status, crawl, extract>>
    BY <1>5 DEF TaskStep, Acquire, NoContent, Refuse, Admit, Put, crawlVars, indexVars
  <2>2. QED  BY <1>1, <2>1
<1>6. CASE IndexTake
  <2>1. index = "loop" /\ UNCHANGED <<status, crawl, extract>>
    BY <1>6 DEF IndexTake, crawlVars, extractVars
  <2>2. index' = "over" => batch' = <<>>
    BY <1>6 DEF IndexTake, AfterTake
  <2>3. QED  BY <2>1, <2>2 DEF Finished
<1>7. CASE Flush
  <2>1. index # "over" /\ batch' = <<>> /\ UNCHANGED status  BY <1>7 DEF Flush
  <2>2. QED  BY <2>1 DEF Finished
<1>8. CASE FlushFails  BY <1>8 DEF FlushFails, Finished
<1>9. CASE Return
  BY <1>9 DEF Return, Finished, crawlVars, extractVars, indexVars
<1>10. CASE Boost \/ UNCHANGED vars
  <2>1. UNCHANGED <<index, batch, status, crawl, extract>>
    BY <1>10 DEF Boost, vars, crawlVars, extractVars, indexVars
  <2>2. QED  BY <1>1, <2>1
<1>11. QED
  BY <1>2, <1>3, <1>4, <1>5, <1>6, <1>7, <1>8, <1>9, <1>10 DEF Next, JobStep, IndexStage

\* What the steps below are to keep.
Parts ==
  /\ Apart(at, ToSet(crawled))
  /\ Once(crawl_q) /\ Once(waiting) /\ Once(extract_q)
  /\ Counted
  /\ recorded = at["extract_q"] \union at["batch"] \union at["indexed"]

\* Nobody records links in a step that makes no call to the graph.
LEMMA SameRecorded == UNCHANGED calls => recorded' = recorded
PROOF
  BY DEF recorded, ToSet

\* The crawler takes a page in hand.
LEMMA CrawlNextSafe ==
  ASSUME PlaceInv, NEW p \in Pages, CrawlNext(p)
  PROVE  Parts'
PROOF
<1>1. /\ crawl = "next" /\ p \notin ToSet(crawled) /\ crawled' = Append(crawled, p)
      /\ crawl' = "putting" /\ stats' = [stats EXCEPT !["crawled"] = @ + 1]
      /\ UNCHANGED <<extractVars, indexVars, calls, crawl_q, extract_q>>
  BY DEF CrawlNext, Count
<1>2. /\ ToSet(crawled') = ToSet(crawled) \union {p} /\ Last(crawled') = p
  <2>1. /\ Append(crawled, p) \in Seq(Pages) /\ Len(Append(crawled, p)) = Len(crawled) + 1
        /\ Append(crawled, p)[Len(crawled) + 1] = p
        /\ ToSet(Append(crawled, p)) = ToSet(crawled) \union {p}
    BY NumbersAre, PutItems
  <2>2. QED  BY <1>1, <2>1 DEF Last
<1>3. /\ at["crawl"] = {} /\ at'["crawl"] = {p}
      /\ \A l \in Places : l # "crawl" => at'[l] = at[l]
  BY <1>1, <1>2, AtIs, AtIsNext DEF Places, extractVars, indexVars
<1>4. Apart(at, ToSet(crawled))  BY DEF PlaceInv
<1>5. IsFiniteSet({p}) /\ Cardinality({p}) = 1  BY FS_Singleton
<1>6. Apart(at, ToSet(crawled))'
  <2>1. \A l \in Places : IsFiniteSet(at'[l]) /\ at'[l] \subseteq ToSet(crawled')
    BY <1>2, <1>3, <1>4, <1>5 DEF Apart
  <2>2. \A l \in Places : p \notin at[l]  BY <1>1, <1>4 DEF Apart
  <2>3. \A l, m \in Places : l # m => at'[l] \intersect at'[m] = {}
    BY <1>3, <1>4, <2>2 DEF Apart
  <2>4. ToSet(crawled)' = ToSet(crawled')  BY DEF ToSet
  <2>5. QED  BY <2>1, <2>3, <2>4 DEF Apart
<1>7. N("crawl") = 0 /\ N("crawl")' = 1 /\ \A l \in Places : l # "crawl" => N(l)' = N(l)
  BY <1>3, <1>5, FS_EmptySet DEF N
<1>8. Counted'
  <2>1. Counted  BY DEF PlaceInv
  <2>2. /\ stats'["crawled"] = stats["crawled"] + 1
        /\ \A f \in StatFields \ {"crawled"} : stats'[f] = stats[f]
        /\ stats' \in [StatFields -> Nat]
    BY <1>1, NumbersAre DEF StatFields
  <2>3. batch' = batch  BY <1>1 DEF indexVars
  <2>4. /\ N("crawl_q")' = N("crawl_q")
        /\ N("waiting")' = N("waiting") /\ N("extracting")' = N("extracting")
        /\ N("putting")' = N("putting") /\ N("extract_q")' = N("extract_q")
        /\ N("batch")' = N("batch") /\ N("indexed")' = N("indexed") /\ N("empty")' = N("empty")
    BY <1>7 DEF Places
  <2>5. /\ N("crawl_q") \in Nat /\ N("waiting") \in Nat /\ N("extracting") \in Nat
        /\ N("empty") \in Nat /\ stats["quality_dropped"] \in Nat /\ stats["deduped"] \in Nat
        /\ stats["extracted"] \in Nat
    BY NumbersAre DEF Places, StatFields
  <2>6. /\ stats'["quality_dropped"] = stats["quality_dropped"]
        /\ stats'["deduped"] = stats["deduped"] /\ stats'["extracted"] = stats["extracted"]
        /\ stats'["indexed"] = stats["indexed"]
    BY <2>2 DEF StatFields
  <2>7. stats'["crawled"] = N("crawl")' + N("crawl_q")' + N("waiting")' + N("extracting")'
                            + N("empty")' + stats'["quality_dropped"] + stats'["deduped"]
                            + stats'["extracted"]
    <3>1. stats["crawled"] = 0 + N("crawl_q") + N("waiting") + N("extracting") + N("empty")
            + stats["quality_dropped"] + stats["deduped"] + stats["extracted"]
      BY <1>7, <2>1 DEF Counted
    <3>2. QED  BY <1>7, <2>2, <2>4, <2>5, <2>6, <3>1
  <2>8. QED  BY <2>1, <2>2, <2>3, <2>4, <2>6, <2>7 DEF Counted
<1>9. recorded' = at'["extract_q"] \union at'["batch"] \union at'["indexed"]
  BY <1>1, <1>3, SameRecorded DEF PlaceInv, Places
<1>10. UNCHANGED <<crawl_q, waiting, extract_q>>  BY <1>1 DEF extractVars
<1>11. Once(crawl_q)' /\ Once(waiting)' /\ Once(extract_q)'
  BY <1>10 DEF PlaceInv, Once
<1>12. QED  BY <1>6, <1>8, <1>9, <1>11 DEF Parts

\* The numbers when a page moves among the places before the gates, or ends
\* there without content: the counters stay.
LEMMA EarlyCounted ==
  ASSUME PlaceInv, NEW a, NEW b,
         a \in {"crawl", "crawl_q", "waiting", "extracting"},
         b \in {"crawl_q", "waiting", "extracting", "empty"}, a # b,
         N(a)' = N(a) - 1, N(b)' = N(b) + 1,
         \A l \in Places : l # a /\ l # b => N(l)' = N(l),
         UNCHANGED <<stats, batch>>
  PROVE  Counted'
PROOF
<1>1. Counted  BY DEF PlaceInv
<1>2. /\ N("putting")' = N("putting") /\ N("extract_q")' = N("extract_q")
      /\ N("batch")' = N("batch") /\ N("indexed")' = N("indexed")
  BY DEF Places
<1>3. /\ N("crawl") \in Nat /\ N("crawl_q") \in Nat /\ N("waiting") \in Nat
      /\ N("extracting") \in Nat /\ N("empty") \in Nat
  BY NumbersAre DEF Places
<1>4. N("crawl")' + N("crawl_q")' + N("waiting")' + N("extracting")' + N("empty")'
      = N("crawl") + N("crawl_q") + N("waiting") + N("extracting") + N("empty")
  BY <1>3 DEF Places
<1>5. QED  BY <1>1, <1>2, <1>4 DEF Counted

\* put() of the crawler.
LEMMA CrawlPutSafe ==
  ASSUME PlaceInv, CrawlPut
  PROVE  Parts'
PROOF
<1> DEFINE p == Last(crawled)
<1>1. /\ crawl = "putting" /\ crawl' = "next" /\ crawl_q' = Append(crawl_q, p)
      /\ UNCHANGED <<crawled, extractVars, indexVars, calls, extract_q, stats>>
  BY DEF CrawlPut
<1>2. p \in Pages
  <2>1. Len(crawled) \in Nat \ {0} /\ crawled \in Seq(Pages)
    BY <1>1, NumbersAre, EmptySeq DEF Shape
  <2>2. QED  BY <2>1, ElementOfSeq DEF Last
<1> HIDE DEF p
<1>3. p \in Items /\ p # None  BY <1>2, PipelineAssumption DEF Items
<1>4. at["crawl"] = {p} /\ at'["crawl"] = {}  BY <1>1, AtIs, AtIsNext DEF p
<1>5. p \notin at["crawl_q"]  BY <1>4 DEF PlaceInv, Apart, Places
<1>6. Once(crawl_q') /\ ItemsOf(crawl_q') = ItemsOf(crawl_q) \union {p}
  <2>1. Once(crawl_q) /\ p \notin ItemsOf(crawl_q)  BY <1>5, AtIs DEF PlaceInv
  <2>2. QED  BY <1>1, <1>3, <2>1, NumbersAre, PutOnce
<1>7. Moved(at, at', p, "crawl", "crawl_q")
  <2>1. at'["crawl_q"] = at["crawl_q"] \union {p}  BY <1>6, AtIs, AtIsNext
  <2>2. \A l \in Places : l # "crawl" /\ l # "crawl_q" => at'[l] = at[l]
    BY <1>1, AtIs, AtIsNext DEF Places, extractVars, indexVars
  <2>3. QED  BY <1>4, <2>1, <2>2 DEF Moved, Places
<1>8. /\ Apart(at, ToSet(crawled))'
      /\ N("crawl")' = N("crawl") - 1 /\ N("crawl_q")' = N("crawl_q") + 1
      /\ \A l \in Places : l # "crawl" /\ l # "crawl_q" => N(l)' = N(l)
  BY <1>1, <1>7, MoveSafe
<1>9. Counted'
  <2>1. UNCHANGED <<stats, batch>>  BY <1>1 DEF indexVars
  <2>2. QED  BY <1>8, <2>1, EarlyCounted
<1>10. recorded' = at'["extract_q"] \union at'["batch"] \union at'["indexed"]
  BY <1>1, <1>7, SameRecorded DEF PlaceInv, Places, Moved
<1>11. Once(waiting)' /\ Once(extract_q)'
  BY <1>1 DEF PlaceInv, Once, extractVars
<1>12. Once(crawl_q)'  BY <1>6 DEF Once
<1>13. QED  BY <1>8, <1>9, <1>10, <1>11, <1>12 DEF Parts

\* get() of the extraction stage: a task for the page, or the end.
LEMMA ExtractTakeSafe ==
  ASSUME PlaceInv, ExtractTake
  PROVE  Parts'
PROOF
<1> DEFINE p == Head(crawl_q)
<1>1. /\ crawl_q # <<>> /\ crawl_q' = Tail(crawl_q)
      /\ p = None => UNCHANGED waiting
      /\ p # None => waiting' = Append(waiting, p)
      /\ UNCHANGED <<crawlVars, extracting, putting, empty, indexVars, calls, extract_q, stats>>
  BY DEF ExtractTake
<1>2. /\ Once(crawl_q') /\ ItemsOf(crawl_q') = ItemsOf(crawl_q) \ {p}
      /\ p # None => p \in ItemsOf(crawl_q)
      /\ p \in Items
  BY <1>1, NumbersAre, GetOnce DEF PlaceInv
<1> HIDE DEF p
<1>3. UNCHANGED <<crawled, crawl, batch>>  BY <1>1 DEF crawlVars, indexVars
<1>4. Once(crawl_q)' /\ Once(extract_q)'  BY <1>1, <1>2 DEF PlaceInv, Once
<1>5. CASE p = None
  <2>1. ItemsOf(crawl_q') = ItemsOf(crawl_q)  BY <1>2, <1>5 DEF ItemsOf
  <2>2. \A l \in Places : at'[l] = at[l]
    BY <1>1, <1>3, <1>5, <2>1, AtIs, AtIsNext DEF Places, indexVars
  <2>3. Apart(at, ToSet(crawled))' /\ Counted'  BY <1>1, <1>3, <2>2, StaySafe
  <2>4. recorded' = at'["extract_q"] \union at'["batch"] \union at'["indexed"]
    BY <1>1, <2>2, SameRecorded DEF PlaceInv, Places
  <2>5. Once(waiting)'  BY <1>1, <1>5 DEF PlaceInv, Once
  <2>6. QED  BY <1>4, <2>3, <2>4, <2>5 DEF Parts
<1>6. CASE p # None
  <2>1. p \in at["crawl_q"] /\ p \notin at["waiting"]
    BY <1>2, <1>6, AtIs DEF PlaceInv, Apart, Places
  <2>2. Once(waiting') /\ ItemsOf(waiting') = ItemsOf(waiting) \union {p}
    <3>1. Once(waiting) /\ p \notin ItemsOf(waiting)  BY <2>1, AtIs DEF PlaceInv
    <3>2. waiting' = Append(waiting, p) /\ waiting \in Seq(Items) /\ p \in Items
      BY <1>1, <1>2, <1>6, NumbersAre
    <3>3. /\ Once(Append(waiting, p))
          /\ ItemsOf(Append(waiting, p)) = ItemsOf(waiting) \union ({p} \ {None})
      BY <3>1, <3>2, PutOnce
    <3>4. QED  BY <1>6, <3>2, <3>3
  <2>3. Moved(at, at', p, "crawl_q", "waiting")
    <3>1. at'["crawl_q"] = at["crawl_q"] \ {p} /\ at'["waiting"] = at["waiting"] \union {p}
      BY <1>2, <2>2, AtIs, AtIsNext
    <3>2. \A l \in Places : l # "crawl_q" /\ l # "waiting" => at'[l] = at[l]
      BY <1>1, <1>3, AtIs, AtIsNext DEF Places, indexVars
    <3>3. QED  BY <2>1, <3>1, <3>2 DEF Moved, Places
  <2>4. /\ Apart(at, ToSet(crawled))'
        /\ N("crawl_q")' = N("crawl_q") - 1 /\ N("waiting")' = N("waiting") + 1
        /\ \A l \in Places : l # "crawl_q" /\ l # "waiting" => N(l)' = N(l)
    BY <1>3, <2>3, MoveSafe
  <2>5. Counted'  BY <1>1, <1>3, <2>4, EarlyCounted
  <2>6. recorded' = at'["extract_q"] \union at'["batch"] \union at'["indexed"]
    BY <1>1, <2>3, SameRecorded DEF PlaceInv, Places, Moved
  <2>7. Once(waiting)'  BY <2>2 DEF Once
  <2>8. QED  BY <1>4, <2>4, <2>5, <2>6, <2>7 DEF Parts
<1>7. QED  BY <1>5, <1>6

\* The semaphore lets a task in.
LEMMA AcquireSafe ==
  ASSUME PlaceInv, Acquire
  PROVE  Parts'
PROOF
<1> DEFINE p == Head(waiting)
<1>1. /\ waiting # <<>> /\ waiting' = Tail(waiting) /\ extracting' = extracting \union {p}
      /\ UNCHANGED <<crawlVars, putting, empty, indexVars, calls, crawl_q, extract_q, stats>>
  BY DEF Acquire
<1>2. /\ Once(waiting') /\ ItemsOf(waiting') = ItemsOf(waiting) \ {p}
      /\ p # None => p \in ItemsOf(waiting)
  BY <1>1, NumbersAre, GetOnce DEF PlaceInv
<1>3. p # None
  <2>1. p \in Pages  BY <1>1, NumbersAre, GetItems
  <2>2. QED  BY <2>1, PipelineAssumption
<1> HIDE DEF p
<1>4. UNCHANGED <<crawled, crawl, batch>>  BY <1>1 DEF crawlVars, indexVars
<1>5. Moved(at, at', p, "waiting", "extracting")
  <2>1. p \in at["waiting"]  BY <1>2, <1>3, AtIs
  <2>2. at'["waiting"] = at["waiting"] \ {p} /\ at'["extracting"] = at["extracting"] \union {p}
    BY <1>1, <1>2, AtIs, AtIsNext
  <2>3. \A l \in Places : l # "waiting" /\ l # "extracting" => at'[l] = at[l]
    BY <1>1, <1>4, AtIs, AtIsNext DEF Places, indexVars
  <2>4. QED  BY <2>1, <2>2, <2>3 DEF Moved, Places
<1>6. /\ Apart(at, ToSet(crawled))'
      /\ N("waiting")' = N("waiting") - 1 /\ N("extracting")' = N("extracting") + 1
      /\ \A l \in Places : l # "waiting" /\ l # "extracting" => N(l)' = N(l)
  BY <1>4, <1>5, MoveSafe
<1>7. Counted'  BY <1>1, <1>4, <1>6, EarlyCounted
<1>8. recorded' = at'["extract_q"] \union at'["batch"] \union at'["indexed"]
  BY <1>1, <1>5, SameRecorded DEF PlaceInv, Places, Moved
<1>9. Once(waiting)' /\ Once(crawl_q)' /\ Once(extract_q)'
  BY <1>1, <1>2 DEF PlaceInv, Once
<1>10. QED  BY <1>6, <1>7, <1>8, <1>9 DEF Parts

\* A page without content ends.
LEMMA NoContentSafe ==
  ASSUME PlaceInv, NEW p \in Pages, NoContent(p)
  PROVE  Parts'
PROOF
<1>1. /\ p \in extracting /\ extracting' = extracting \ {p} /\ empty' = empty \union {p}
      /\ UNCHANGED <<crawlVars, waiting, putting, indexVars, calls, crawl_q, extract_q, stats>>
  BY DEF NoContent, Leave
<1>2. UNCHANGED <<crawled, crawl, batch>>  BY <1>1 DEF crawlVars, indexVars
<1>3. Moved(at, at', p, "extracting", "empty")
  <2>1. /\ p \in at["extracting"] /\ at'["extracting"] = at["extracting"] \ {p}
        /\ at'["empty"] = at["empty"] \union {p}
    BY <1>1, AtIs, AtIsNext
  <2>2. \A l \in Places : l # "extracting" /\ l # "empty" => at'[l] = at[l]
    BY <1>1, <1>2, AtIs, AtIsNext DEF Places, indexVars
  <2>3. QED  BY <2>1, <2>2 DEF Moved, Places
<1>4. /\ Apart(at, ToSet(crawled))'
      /\ N("extracting")' = N("extracting") - 1 /\ N("empty")' = N("empty") + 1
      /\ \A l \in Places : l # "extracting" /\ l # "empty" => N(l)' = N(l)
  BY <1>2, <1>3, MoveSafe
<1>5. Counted'  BY <1>1, <1>2, <1>4, EarlyCounted
<1>6. recorded' = at'["extract_q"] \union at'["batch"] \union at'["indexed"]
  BY <1>1, <1>3, SameRecorded DEF PlaceInv, Places, Moved
<1>7. Once(waiting)' /\ Once(crawl_q)' /\ Once(extract_q)'
  BY <1>1 DEF PlaceInv, Once
<1>8. QED  BY <1>4, <1>5, <1>6, <1>7 DEF Parts

\* A page that is refused at a gate is nowhere, but in one of two counters.
LEMMA RefuseSafe ==
  ASSUME PlaceInv, NEW p \in Pages, Refuse(p)
  PROVE  Parts'
PROOF
<1>1. /\ p \in extracting /\ extracting' = extracting \ {p}
      /\ UNCHANGED <<crawlVars, waiting, putting, empty, indexVars, calls, crawl_q, extract_q>>
  BY DEF Refuse, Leave
<1>2. PICK f \in {"deduped", "quality_dropped"} : stats' = [stats EXCEPT ![f] = @ + 1]
  BY DEF Refuse, Count
<1>3. UNCHANGED <<crawled, crawl, batch>>  BY <1>1 DEF crawlVars, indexVars
<1>4. /\ p \in at["extracting"] /\ at'["extracting"] = at["extracting"] \ {p}
      /\ \A l \in Places : l # "extracting" => at'[l] = at[l]
  BY <1>1, <1>3, AtIs, AtIsNext DEF Places, indexVars
<1>5. Apart(at, ToSet(crawled))  BY DEF PlaceInv
<1>6. /\ IsFiniteSet(at'["extracting"])
      /\ Cardinality(at'["extracting"]) = Cardinality(at["extracting"]) - 1
  <2>1. IsFiniteSet(at["extracting"])  BY <1>5 DEF Apart, Places
  <2>2. QED  BY <1>4, <2>1, FS_RemoveElement
<1>7. Apart(at, ToSet(crawled))'
  <2>1. ToSet(crawled)' = ToSet(crawled)  BY <1>3 DEF ToSet
  <2>2. \A l \in Places : at'[l] \subseteq at[l]  BY <1>4
  <2>3. \A l \in Places : IsFiniteSet(at'[l])  BY <1>4, <1>5, <1>6 DEF Apart
  <2>4. QED  BY <1>5, <2>1, <2>2, <2>3 DEF Apart
<1>8. N("extracting")' = N("extracting") - 1 /\ \A l \in Places : l # "extracting" => N(l)' = N(l)
  BY <1>4, <1>6 DEF N
<1>9. Counted'
  <2>1. Counted  BY DEF PlaceInv
  <2>2. /\ N("crawl")' = N("crawl") /\ N("crawl_q")' = N("crawl_q")
        /\ N("waiting")' = N("waiting")
        /\ N("putting")' = N("putting") /\ N("extract_q")' = N("extract_q")
        /\ N("batch")' = N("batch") /\ N("indexed")' = N("indexed") /\ N("empty")' = N("empty")
    BY <1>8 DEF Places
  <2>3. /\ N("crawl") \in Nat /\ N("crawl_q") \in Nat /\ N("waiting") \in Nat
        /\ N("extracting") \in Nat /\ N("empty") \in Nat
        /\ stats["quality_dropped"] \in Nat /\ stats["deduped"] \in Nat
        /\ stats["extracted"] \in Nat
    BY NumbersAre DEF Places, StatFields
  <2>4. /\ stats' \in [StatFields -> Nat]
        /\ stats'["quality_dropped"] + stats'["deduped"]
             = stats["quality_dropped"] + stats["deduped"] + 1
        /\ stats'["quality_dropped"] \in Nat /\ stats'["deduped"] \in Nat
        /\ stats'["crawled"] = stats["crawled"] /\ stats'["extracted"] = stats["extracted"]
        /\ stats'["indexed"] = stats["indexed"]
    <3>1. stats' \in [StatFields -> Nat]
      BY <1>2, NumbersAre DEF StatFields
    <3>2. /\ stats'["crawled"] = stats["crawled"] /\ stats'["extracted"] = stats["extracted"]
          /\ stats'["indexed"] = stats["indexed"]
      BY <1>2, NumbersAre DEF StatFields
    <3>3. CASE f = "deduped"
      <4>1. /\ stats'["deduped"] = stats["deduped"] + 1
            /\ stats'["quality_dropped"] = stats["quality_dropped"]
        BY <1>2, <3>3, NumbersAre DEF StatFields
      <4>2. QED  BY <2>3, <3>1, <3>2, <4>1
    <3>4. CASE f = "quality_dropped"
      <4>1. /\ stats'["quality_dropped"] = stats["quality_dropped"] + 1
            /\ stats'["deduped"] = stats["deduped"]
        BY <1>2, <3>4, NumbersAre DEF StatFields
      <4>2. QED  BY <2>3, <3>1, <3>2, <4>1
    <3>5. QED  BY <3>3, <3>4
  <2>5. stats'["crawled"] = N("crawl")' + N("crawl_q")' + N("waiting")' + N("extracting")'
                            + N("empty")' + stats'["quality_dropped"] + stats'["deduped"]
                            + stats'["extracted"]
    <3>1. stats["crawled"] = N("crawl") + N("crawl_q") + N("waiting") + N("extracting")
            + N("empty") + stats["quality_dropped"] + stats["deduped"] + stats["extracted"]
      BY <2>1 DEF Counted
    <3>2. QED  BY <1>8, <2>2, <2>3, <2>4, <3>1
  <2>6. QED  BY <1>3, <2>1, <2>2, <2>4, <2>5 DEF Counted
<1>10. recorded' = at'["extract_q"] \union at'["batch"] \union at'["indexed"]
  BY <1>1, <1>4, SameRecorded DEF PlaceInv, Places
<1>11. Once(waiting)' /\ Once(crawl_q)' /\ Once(extract_q)'
  BY <1>1 DEF PlaceInv, Once
<1>12. QED  BY <1>7, <1>9, <1>10, <1>11 DEF Parts

\* Once counts a page as extracted: it leaves its task for the index stage's
\* queue or for the wait before it.
LEMMA AdmitCounted ==
  ASSUME PlaceInv, NEW b \in {"putting", "extract_q"},
         stats' = [stats EXCEPT !["extracted"] = @ + 1],
         N("extracting")' = N("extracting") - 1, N(b)' = N(b) + 1,
         \A l \in Places : l # "extracting" /\ l # b => N(l)' = N(l),
         UNCHANGED batch
  PROVE  Counted'
PROOF
<1>1. Counted  BY DEF PlaceInv
<1>2. /\ N("crawl")' = N("crawl") /\ N("crawl_q")' = N("crawl_q")
      /\ N("waiting")' = N("waiting") /\ N("empty")' = N("empty")
      /\ N("batch")' = N("batch") /\ N("indexed")' = N("indexed")
  BY DEF Places
<1>3. /\ N("crawl") \in Nat /\ N("crawl_q") \in Nat /\ N("waiting") \in Nat
      /\ N("extracting") \in Nat /\ N("empty") \in Nat /\ N("putting") \in Nat
      /\ N("extract_q") \in Nat /\ N("batch") \in Nat /\ N("indexed") \in Nat
      /\ stats["quality_dropped"] \in Nat /\ stats["deduped"] \in Nat
      /\ stats["extracted"] \in Nat
  BY NumbersAre DEF Places, StatFields
<1>4. stats' \in [StatFields -> Nat]  BY NumbersAre DEF StatFields
<1>5. /\ stats'["crawled"] = stats["crawled"] /\ stats'["extracted"] = stats["extracted"] + 1
      /\ stats'["indexed"] = stats["indexed"] /\ stats'["deduped"] = stats["deduped"]
      /\ stats'["quality_dropped"] = stats["quality_dropped"]
  BY NumbersAre DEF StatFields
<1>6. N("putting")' + N("extract_q")' = N("putting") + N("extract_q") + 1
      /\ N("putting")' \in Int /\ N("extract_q")' \in Int
  <2>1. CASE b = "putting"
    <3>1. N("putting")' = N("putting") + 1 /\ N("extract_q")' = N("extract_q")
      BY <2>1 DEF Places
    <3>2. QED  BY <1>3, <3>1
  <2>2. CASE b = "extract_q"
    <3>1. N("putting")' = N("putting") /\ N("extract_q")' = N("extract_q") + 1
      BY <2>2 DEF Places
    <3>2. QED  BY <1>3, <3>1
  <2>3. QED  BY <2>1, <2>2
<1>7. stats'["crawled"] = N("crawl")' + N("crawl_q")' + N("waiting")' + N("extracting")'
        + N("empty")' + stats'["quality_dropped"] + stats'["deduped"] + stats'["extracted"]
  <2>1. stats["crawled"] = N("crawl") + N("crawl_q") + N("waiting") + N("extracting")
          + N("empty") + stats["quality_dropped"] + stats["deduped"] + stats["extracted"]
    BY <1>1 DEF Counted
  <2>2. QED  BY <1>2, <1>3, <1>5, <2>1
<1>8. stats'["extracted"] = N("putting")' + N("extract_q")' + N("batch")' + N("indexed")'
  <2>1. stats["extracted"] = N("putting") + N("extract_q") + N("batch") + N("indexed")
    BY <1>1 DEF Counted
  <2>2. QED  BY <1>2, <1>3, <1>5, <1>6, <2>1
<1>9. QED  BY <1>1, <1>2, <1>4, <1>5, <1>7, <1>8 DEF Counted

\* The numbers when a page goes on behind the gates.
LEMMA LateCounted ==
  ASSUME PlaceInv, NEW a, NEW b,
         \/ a = "putting" /\ b = "extract_q" /\ Len(batch') = Len(batch)
         \/ a = "extract_q" /\ b = "batch" /\ Len(batch') = Len(batch) + 1,
         N(a)' = N(a) - 1, N(b)' = N(b) + 1,
         \A l \in Places : l # a /\ l # b => N(l)' = N(l),
         UNCHANGED stats
  PROVE  Counted'
PROOF
<1>1. Counted  BY DEF PlaceInv
<1>2. /\ N("crawl")' = N("crawl") /\ N("crawl_q")' = N("crawl_q")
      /\ N("waiting")' = N("waiting") /\ N("empty")' = N("empty")
      /\ N("extracting")' = N("extracting") /\ N("indexed")' = N("indexed")
  BY DEF Places
<1>3. /\ N("putting") \in Nat /\ N("extract_q") \in Nat /\ N("batch") \in Nat
      /\ N("indexed") \in Nat
  BY NumbersAre DEF Places
<1>4. /\ N("putting")' + N("extract_q")' + N("batch")'
           = N("putting") + N("extract_q") + N("batch")
      /\ Len(batch') = N("batch")'
  <2>1. Len(batch) = N("batch")  BY <1>1 DEF Counted
  <2>2. CASE a = "putting"
    <3>1. /\ b = "extract_q" /\ Len(batch') = Len(batch) /\ N("batch")' = N("batch")
          /\ N("putting")' = N("putting") - 1 /\ N("extract_q")' = N("extract_q") + 1
      BY <2>2 DEF Places
    <3>2. QED  BY <1>3, <2>1, <3>1
  <2>3. CASE a = "extract_q"
    <3>1. /\ b = "batch" /\ Len(batch') = Len(batch) + 1 /\ N("putting")' = N("putting")
          /\ N("extract_q")' = N("extract_q") - 1 /\ N("batch")' = N("batch") + 1
      BY <2>3 DEF Places
    <3>2. QED  BY <1>3, <2>1, <3>1
  <2>4. QED  BY <2>2, <2>3
<1>5. stats'["extracted"] = N("putting")' + N("extract_q")' + N("batch")' + N("indexed")'
  BY <1>1, <1>2, <1>4 DEF Counted
<1>6. QED  BY <1>1, <1>2, <1>4, <1>5 DEF Counted

\* A put into the queue of the index stage, with the links recorded.
LEMMA PutIndexQueue ==
  ASSUME PlaceInv, NEW p \in Pages, NEW a \in {"extracting", "putting"}, p \in at[a],
         extract_q' = Append(extract_q, p), calls' = Append(calls, p)
  PROVE  /\ Once(extract_q') /\ at'["extract_q"] = at["extract_q"] \union {p}
         /\ recorded' = recorded \union {p}
PROOF
<1>1. p \notin at["extract_q"]  BY DEF PlaceInv, Apart, Places
<1>2. p \in Items /\ p # None /\ p # RankCall  BY PipelineAssumption DEF Items
<1>3. Once(extract_q) /\ p \notin ItemsOf(extract_q)  BY <1>1, AtIs DEF PlaceInv
<1>4. Once(extract_q') /\ ItemsOf(extract_q') = ItemsOf(extract_q) \union {p}
  BY <1>2, <1>3, NumbersAre, PutOnce
<1>5. recorded' = recorded \union {p}  BY <1>2, NumbersAre, CallsGrow
<1>6. QED  BY <1>4, <1>5, AtIs, AtIsNext

\* A page passes the gates.
LEMMA AdmitSafe ==
  ASSUME PlaceInv, NEW p \in Pages, Admit(p)
  PROVE  Parts'
PROOF
<1>1. /\ p \in extracting /\ extracting' = extracting \ {p}
      /\ stats' = [stats EXCEPT !["extracted"] = @ + 1]
      /\ UNCHANGED <<crawlVars, waiting, empty, indexVars, crawl_q>>
  BY DEF Admit, Leave, Count
<1>2. UNCHANGED <<crawled, crawl, batch, indexed>>  BY <1>1 DEF crawlVars, indexVars
<1>3. p \in at["extracting"] /\ at'["extracting"] = at["extracting"] \ {p}
  BY <1>1, AtIs, AtIsNext
<1>4. Once(crawl_q)' /\ Once(waiting)'  BY <1>1 DEF PlaceInv, Once
<1>5. CASE putting' = putting \union {p} /\ UNCHANGED <<extract_q, calls>>
  <2>1. Moved(at, at', p, "extracting", "putting")
    <3>1. at'["putting"] = at["putting"] \union {p}  BY <1>5, AtIs, AtIsNext
    <3>2. \A l \in Places : l # "extracting" /\ l # "putting" => at'[l] = at[l]
      BY <1>1, <1>2, <1>5, AtIs, AtIsNext DEF Places
    <3>3. QED  BY <1>3, <3>1, <3>2 DEF Moved, Places
  <2>2. /\ Apart(at, ToSet(crawled))'
        /\ N("extracting")' = N("extracting") - 1 /\ N("putting")' = N("putting") + 1
        /\ \A l \in Places : l # "extracting" /\ l # "putting" => N(l)' = N(l)
    BY <1>2, <2>1, MoveSafe
  <2>3. Counted'  BY <1>1, <1>2, <2>2, AdmitCounted
  <2>4. recorded' = at'["extract_q"] \union at'["batch"] \union at'["indexed"]
    BY <1>5, <2>1, SameRecorded DEF PlaceInv, Places, Moved
  <2>5. Once(extract_q)'  BY <1>5 DEF PlaceInv, Once
  <2>6. QED  BY <1>4, <2>2, <2>3, <2>4, <2>5 DEF Parts
<1>6. CASE extract_q' = Append(extract_q, p) /\ calls' = Append(calls, p) /\ UNCHANGED putting
  <2>1. /\ Once(extract_q') /\ at'["extract_q"] = at["extract_q"] \union {p}
        /\ recorded' = recorded \union {p}
    BY <1>3, <1>6, PutIndexQueue
  <2>2. Moved(at, at', p, "extracting", "extract_q")
    <3>1. \A l \in Places : l # "extracting" /\ l # "extract_q" => at'[l] = at[l]
      BY <1>1, <1>2, <1>6, AtIs, AtIsNext DEF Places
    <3>2. QED  BY <1>3, <2>1, <3>1 DEF Moved, Places
  <2>3. /\ Apart(at, ToSet(crawled))'
        /\ N("extracting")' = N("extracting") - 1 /\ N("extract_q")' = N("extract_q") + 1
        /\ \A l \in Places : l # "extracting" /\ l # "extract_q" => N(l)' = N(l)
    BY <1>2, <2>2, MoveSafe
  <2>4. Counted'  BY <1>1, <1>2, <2>3, AdmitCounted
  <2>5. recorded' = at'["extract_q"] \union at'["batch"] \union at'["indexed"]
    BY <2>1, <2>2 DEF PlaceInv, Places, Moved
  <2>6. Once(extract_q)'  BY <2>1 DEF Once
  <2>7. QED  BY <1>4, <2>3, <2>4, <2>5, <2>6 DEF Parts
<1>7. QED  BY <1>5, <1>6 DEF Admit, Record

\* A put that had to wait.
LEMMA PutSafe ==
  ASSUME PlaceInv, NEW p \in Pages, Put(p)
  PROVE  Parts'
PROOF
<1>1. /\ p \in putting /\ putting' = putting \ {p}
      /\ extract_q' = Append(extract_q, p) /\ calls' = Append(calls, p)
      /\ UNCHANGED <<crawlVars, waiting, extracting, empty, indexVars, crawl_q, stats>>
  BY DEF Put, Record
<1>2. UNCHANGED <<crawled, crawl, batch, indexed>>  BY <1>1 DEF crawlVars, indexVars
<1>3. p \in at["putting"] /\ at'["putting"] = at["putting"] \ {p}
  BY <1>1, AtIs, AtIsNext
<1>4. /\ Once(extract_q') /\ at'["extract_q"] = at["extract_q"] \union {p}
      /\ recorded' = recorded \union {p}
  BY <1>1, <1>3, PutIndexQueue
<1>5. Moved(at, at', p, "putting", "extract_q")
  <2>1. \A l \in Places : l # "putting" /\ l # "extract_q" => at'[l] = at[l]
    BY <1>1, <1>2, AtIs, AtIsNext DEF Places
  <2>2. QED  BY <1>3, <1>4, <2>1 DEF Moved, Places
<1>6. /\ Apart(at, ToSet(crawled))'
      /\ N("putting")' = N("putting") - 1 /\ N("extract_q")' = N("extract_q") + 1
      /\ \A l \in Places : l # "putting" /\ l # "extract_q" => N(l)' = N(l)
  BY <1>2, <1>5, MoveSafe
<1>7. Counted'
  <2>1. Len(batch') = Len(batch)  BY <1>2
  <2>2. QED  BY <1>1, <1>6, <2>1, LateCounted
<1>8. recorded' = at'["extract_q"] \union at'["batch"] \union at'["indexed"]
  BY <1>4, <1>5 DEF PlaceInv, Places, Moved
<1>9. Once(crawl_q)' /\ Once(waiting)' /\ Once(extract_q)'
  BY <1>1, <1>4 DEF PlaceInv, Once
<1>10. QED  BY <1>6, <1>7, <1>8, <1>9 DEF Parts

\* get() of the index stage: a page joins the batch, or the end.
LEMMA IndexTakeSafe ==
  ASSUME PlaceInv, IndexTake
  PROVE  Parts'
PROOF
<1> DEFINE p == Head(extract_q)
<1>1. /\ extract_q # <<>> /\ extract_q' = Tail(extract_q)
      /\ p = None => UNCHANGED batch
      /\ p # None => batch' = Append(batch, p)
      /\ UNCHANGED <<crawlVars, extractVars, calls, indexed, crawl_q, stats>>
  BY DEF IndexTake
<1>2. /\ Once(extract_q') /\ ItemsOf(extract_q') = ItemsOf(extract_q) \ {p}
      /\ p # None => p \in ItemsOf(extract_q)
      /\ p \in Items
  BY <1>1, NumbersAre, GetOnce DEF PlaceInv
<1> HIDE DEF p
<1>3. UNCHANGED <<crawled, crawl, waiting, extracting, putting, empty>>
  BY <1>1 DEF crawlVars, extractVars
<1>4. Once(crawl_q)' /\ Once(waiting)' /\ Once(extract_q)'
  BY <1>1, <1>2, <1>3 DEF PlaceInv, Once
<1>5. CASE p = None
  <2>1. ItemsOf(extract_q') = ItemsOf(extract_q)  BY <1>2, <1>5 DEF ItemsOf
  <2>2. \A l \in Places : at'[l] = at[l]
    BY <1>1, <1>3, <1>5, <2>1, AtIs, AtIsNext DEF Places
  <2>3. Apart(at, ToSet(crawled))' /\ Counted'  BY <1>1, <1>3, <1>5, <2>2, StaySafe
  <2>4. recorded' = at'["extract_q"] \union at'["batch"] \union at'["indexed"]
    BY <1>1, <2>2, SameRecorded DEF PlaceInv, Places
  <2>5. QED  BY <1>4, <2>3, <2>4 DEF Parts
<1>6. CASE p # None
  <2>1. p \in at["extract_q"]  BY <1>2, <1>6, AtIs
  <2>2. batch' = Append(batch, p) /\ batch \in Seq(Items) /\ p \in Items
    BY <1>1, <1>2, <1>6, NumbersAre
  <2>3. ToSet(Append(batch, p)) = ToSet(batch) \union {p} /\ Len(Append(batch, p)) = Len(batch) + 1
    BY <2>2, PutItems
  <2>4. ItemsOf(batch') = ItemsOf(batch) \union {p} /\ Len(batch') = Len(batch) + 1
    BY <1>6, <2>2, <2>3 DEF ItemsOf
  <2>5. Moved(at, at', p, "extract_q", "batch")
    <3>1. /\ at'["extract_q"] = at["extract_q"] \ {p}
          /\ at'["batch"] = at["batch"] \union {p}
      BY <1>2, <2>4, AtIs, AtIsNext
    <3>2. \A l \in Places : l # "extract_q" /\ l # "batch" => at'[l] = at[l]
      BY <1>1, <1>3, AtIs, AtIsNext DEF Places
    <3>3. QED  BY <2>1, <3>1, <3>2 DEF Moved, Places
  <2>6. /\ Apart(at, ToSet(crawled))'
        /\ N("extract_q")' = N("extract_q") - 1 /\ N("batch")' = N("batch") + 1
        /\ \A l \in Places : l # "extract_q" /\ l # "batch" => N(l)' = N(l)
    BY <1>3, <2>5, MoveSafe
  <2>7. Counted'  BY <1>1, <2>4, <2>6, LateCounted
  <2>8. recorded' = at'["extract_q"] \union at'["batch"] \union at'["indexed"]
    <3>1. recorded' = recorded  BY <1>1, SameRecorded
    <3>2. recorded = at["extract_q"] \union at["batch"] \union at["indexed"]  BY DEF PlaceInv
    <3>3. at'["indexed"] = at["indexed"]  BY <1>1, AtIs, AtIsNext
    <3>4. QED  BY <2>1, <2>5, <3>1, <3>2, <3>3 DEF Moved
  <2>9. QED  BY <1>4, <2>6, <2>7, <2>8 DEF Parts
<1>7. QED  BY <1>5, <1>6

\* The whole batch comes to be indexed, and is counted page by page: no page is
\* in the batch twice or was indexed before.
LEMMA FlushSafe ==
  ASSUME PlaceInv, Flush
  PROVE  Parts'
PROOF
<1>1. /\ stats' = [stats EXCEPT !["indexed"] = @ + Len(batch)]
      /\ indexed' = indexed \union ToSet(batch) /\ batch' = <<>>
      /\ UNCHANGED <<crawlVars, extractVars, calls, crawl_q, extract_q>>
  BY DEF Flush
<1>2. UNCHANGED <<crawled, crawl, waiting, extracting, putting, empty>>
  BY <1>1 DEF crawlVars, extractVars
<1>3. ItemsOf(batch) = ToSet(batch)
  <2>1. ToSet(batch) \subseteq Pages
    <3>1. batch \in Seq(Pages)  BY NumbersAre
    <3>2. \A i \in DOMAIN batch : batch[i] \in Pages  BY <3>1
    <3>3. QED  BY <3>2 DEF ToSet
  <2>2. QED  BY <2>1, PipelineAssumption DEF ItemsOf
<1>4. /\ at'["batch"] = {} /\ at'["indexed"] = at["indexed"] \union at["batch"]
      /\ \A l \in Places : l # "batch" /\ l # "indexed" => at'[l] = at[l]
  <2>1. at'["batch"] = {}  BY <1>1, AtIsNext, EmptyQueue DEF ItemsOf
  <2>2. at'["indexed"] = at["indexed"] \union at["batch"]  BY <1>1, <1>3, AtIs, AtIsNext
  <2>3. \A l \in Places : l # "batch" /\ l # "indexed" => at'[l] = at[l]
    BY <1>1, <1>2, AtIs, AtIsNext DEF Places
  <2>4. QED  BY <2>1, <2>2, <2>3
<1>5. Apart(at, ToSet(crawled))  BY DEF PlaceInv
<1>6. /\ IsFiniteSet(at["batch"]) /\ IsFiniteSet(at["indexed"])
      /\ at["indexed"] \intersect at["batch"] = {}
  BY <1>5 DEF Apart, Places
<1>7. /\ IsFiniteSet(at'["indexed"])
      /\ Cardinality(at'["indexed"]) = Cardinality(at["indexed"]) + Cardinality(at["batch"])
  <2> DEFINE S == at["indexed"]
             T == at["batch"]
  <2>1. IsFiniteSet(S) /\ IsFiniteSet(T) /\ S \intersect T = {}  BY <1>6
  <2>2. at'["indexed"] = S \union T  BY <1>4
  <2> HIDE DEF S, T
  <2>3. /\ IsFiniteSet(S \union T)
        /\ Cardinality(S \union T)
             = Cardinality(S) + Cardinality(T) - Cardinality(S \intersect T)
    BY ONLY <2>1, FS_Union
  <2>4. Cardinality(S \intersect T) = 0  BY <2>1, FS_EmptySet
  <2>5. Cardinality(S) \in Nat /\ Cardinality(T) \in Nat  BY <2>1, FS_CardinalityType
  <2>6. Cardinality(S \union T) = Cardinality(S) + Cardinality(T)  BY ONLY <2>3, <2>4, <2>5
  <2>7. QED  BY <2>2, <2>3, <2>6 DEF S, T
<1>8. Apart(at, ToSet(crawled))'
  <2>1. ToSet(crawled)' = ToSet(crawled)  BY <1>2 DEF ToSet
  <2>2. \A l \in Places : IsFiniteSet(at'[l])
    BY <1>4, <1>5, <1>7, FS_EmptySet DEF Apart, Places
  <2>3. \A l \in Places : at'[l] \subseteq ToSet(crawled)
    BY <1>4, <1>5 DEF Apart, Places
  <2>4. \A l, m \in Places : l # m => at'[l] \intersect at'[m] = {}
    <3>1. \A l, m \in Places : l # m => at[l] \intersect at[m] = {}  BY <1>5 DEF Apart
    <3>2. "batch" \in Places /\ "indexed" \in Places  BY DEF Places
    <3>3. QED  BY <1>4, <3>1, <3>2
  <2>5. QED  BY <2>1, <2>2, <2>3, <2>4 DEF Apart
<1>9. /\ N("batch")' = 0 /\ N("indexed")' = N("indexed") + N("batch")
      /\ \A l \in Places : l # "batch" /\ l # "indexed" => N(l)' = N(l)
  BY <1>4, <1>7, FS_EmptySet DEF N
<1>10. Counted'
  <2>1. Counted  BY DEF PlaceInv
  <2>2. /\ N("crawl")' = N("crawl") /\ N("crawl_q")' = N("crawl_q")
        /\ N("waiting")' = N("waiting") /\ N("extracting")' = N("extracting")
        /\ N("putting")' = N("putting") /\ N("extract_q")' = N("extract_q")
        /\ N("empty")' = N("empty")
    BY <1>9 DEF Places
  <2>3. /\ N("putting") \in Nat /\ N("extract_q") \in Nat /\ N("batch") \in Nat
        /\ N("indexed") \in Nat /\ stats["indexed"] \in Nat /\ Len(batch) \in Nat
    BY NumbersAre DEF Places, StatFields
  <2>4. stats' \in [StatFields -> Nat]  BY <1>1, <2>3, NumbersAre DEF StatFields
  <2>5. /\ stats'["crawled"] = stats["crawled"] /\ stats'["extracted"] = stats["extracted"]
        /\ stats'["indexed"] = stats["indexed"] + Len(batch)
        /\ stats'["deduped"] = stats["deduped"]
        /\ stats'["quality_dropped"] = stats["quality_dropped"]
    BY <1>1, NumbersAre DEF StatFields
  <2>6. Len(batch') = 0  BY <1>1, EmptySeq
  <2>7. stats'["indexed"] = N("indexed")'
    <3>1. stats["indexed"] = N("indexed") /\ Len(batch) = N("batch")  BY <2>1 DEF Counted
    <3>2. QED  BY <1>9, <2>5, <3>1
  <2>8. stats'["extracted"] = N("putting")' + N("extract_q")' + N("batch")' + N("indexed")'
    <3>1. stats["extracted"] = N("putting") + N("extract_q") + N("batch") + N("indexed")
      BY <2>1 DEF Counted
    <3>2. QED  BY <1>9, <2>2, <2>3, <2>5, <3>1
  <2>9. stats'["crawled"] = N("crawl")' + N("crawl_q")' + N("waiting")' + N("extracting")'
          + N("empty")' + stats'["quality_dropped"] + stats'["deduped"] + stats'["extracted"]
    BY <2>1, <2>2, <2>5 DEF Counted
  <2>10. QED  BY <1>9, <2>4, <2>6, <2>7, <2>8, <2>9 DEF Counted
<1>11. recorded' = at'["extract_q"] \union at'["batch"] \union at'["indexed"]
  <2>1. recorded' = recorded  BY <1>1, SameRecorded
  <2>2. recorded = at["extract_q"] \union at["batch"] \union at["indexed"]  BY DEF PlaceInv
  <2>3. at'["extract_q"] = at["extract_q"]  BY <1>4 DEF Places
  <2>4. QED  BY <1>4, <2>1, <2>2, <2>3
<1>12. Once(crawl_q)' /\ Once(waiting)' /\ Once(extract_q)'
  BY <1>1, <1>2 DEF PlaceInv, Once
<1>13. QED  BY <1>8, <1>10, <1>11, <1>12 DEF Parts

\* A sentinel is no page: its put leaves the pages where they are.
LEMMA PutNone ==
  ASSUME NEW q \in Seq(Items), Once(q)
  PROVE  Once(Append(q, None)) /\ ItemsOf(Append(q, None)) = ItemsOf(q)
PROOF
<1>1. None \in Items /\ None \notin ItemsOf(q)  BY DEF Items, ItemsOf
<1>2. QED  BY <1>1, PutOnce

\* The steps of the two sentinels, and those that move no page.
LEMMA QuietSafe ==
  ASSUME PlaceInv,
         Begin \/ CrawlEnds \/ CrawlSentinel \/ ExtractSentinel \/ FlushFails
           \/ Return \/ Boost \/ UNCHANGED vars
  PROVE  Parts'
PROOF
<1>1. /\ UNCHANGED <<crawled, waiting, extracting, putting, empty, batch, indexed, stats>>
      /\ crawl' = crawl \/ (crawl # "putting" /\ crawl' # "putting")
      /\ crawl_q' \in {crawl_q, Append(crawl_q, None)}
      /\ extract_q' \in {extract_q, Append(extract_q, None)}
      /\ calls' \in {calls, Append(calls, RankCall)}
  BY DEF Begin, CrawlEnds, CrawlSentinel, ExtractSentinel, FlushFails, Return, Boost, vars,
         crawlVars, extractVars, indexVars
<1>2. Once(crawl_q) /\ Once(extract_q) /\ Once(waiting)  BY DEF PlaceInv
<1>3. Once(crawl_q') /\ ItemsOf(crawl_q') = ItemsOf(crawl_q)
  BY <1>1, <1>2, NumbersAre, PutNone
<1>4. Once(extract_q') /\ ItemsOf(extract_q') = ItemsOf(extract_q)
  BY <1>1, <1>2, NumbersAre, PutNone
<1>5. \A l \in Places : at'[l] = at[l]
  BY <1>1, <1>3, <1>4, AtIs, AtIsNext DEF Places
<1>6. Apart(at, ToSet(crawled))' /\ Counted'  BY <1>1, <1>5, StaySafe
<1>7. recorded' = recorded
  <2>1. CASE calls' = calls  BY <2>1, SameRecorded
  <2>2. CASE calls' = Append(calls, RankCall)
    BY <2>2, NumbersAre, CallsGrow
  <2>3. QED  BY <1>1, <2>1, <2>2
<1>8. recorded' = at'["extract_q"] \union at'["batch"] \union at'["indexed"]
  BY <1>5, <1>7 DEF PlaceInv, Places
<1>9. Once(crawl_q)' /\ Once(extract_q)' /\ Once(waiting)'
  BY <1>1, <1>2, <1>3, <1>4 DEF Once
<1>10. QED  BY <1>6, <1>8, <1>9 DEF Parts

\* Every step of the job, or of a search, leaves each page in one place.
LEMMA PlaceStep == PlaceInv /\ [Next]_vars => PlaceInv'
PROOF
<1> SUFFICES ASSUME PlaceInv, [Next]_vars PROVE PlaceInv'  OBVIOUS
<1>1. SentinelInv'
  BY ShapeStep, CrawlSideStep, TaskSideStep DEF PlaceInv, SentinelInv
<1>2. Finished'  BY FinishedStep DEF PlaceInv
<1>3. Parts'
  <2>1. ASSUME NEW p \in Pages, CrawlNext(p) PROVE Parts'  BY <2>1, CrawlNextSafe
  <2>2. CASE CrawlPut  BY <2>2, CrawlPutSafe
  <2>3. CASE ExtractTake  BY <2>3, ExtractTakeSafe
  <2>4. CASE Acquire  BY <2>4, AcquireSafe
  <2>5. ASSUME NEW p \in Pages, NoContent(p) PROVE Parts'  BY <2>5, NoContentSafe
  <2>6. ASSUME NEW p \in Pages, Refuse(p) PROVE Parts'  BY <2>6, RefuseSafe
  <2>7. ASSUME NEW p \in Pages, Admit(p) PROVE Parts'  BY <2>7, AdmitSafe
  <2>8. ASSUME NEW p \in Pages, Put(p) PROVE Parts'  BY <2>8, PutSafe
  <2>9. CASE IndexTake  BY <2>9, IndexTakeSafe
  <2>10. CASE Flush  BY <2>10, FlushSafe
  <2>11. CASE Begin \/ CrawlEnds \/ CrawlSentinel \/ ExtractSentinel \/ FlushFails
                \/ Return \/ Boost \/ UNCHANGED vars
    BY <2>11, QuietSafe
  <2>12. QED
    BY <2>1, <2>2, <2>3, <2>4, <2>5, <2>6, <2>7, <2>8, <2>9, <2>10, <2>11
       DEF Next, JobStep, CrawlStage, TaskStep, ExtractStage, IndexStage
<1>4. QED  BY <1>1, <1>2, <1>3 DEF PlaceInv, Parts

\* The counters of IndexStats add up in every finished job: every page crawled
\* had no content, was refused at a gate or is in the index, none is lost in a
\* queue or counted twice, and the links of the indexed pages, and of no other,
\* are in the graph; for all sizes of queues, batches and worker pools.
THEOREM JobAddsUpCorrect == Spec => []JobAddsUp
PROOF
<1>1. QED  BY PlaceInit, PlaceStep, PlacesAddUp, PTL DEF Spec

-----------------------------------------------------------------------------
(* The link graph *)

\* The link graph's instance speaks of lists as this module does.
LEMMA SameLists ==
  ASSUME NEW q
  PROVE  Links!ToSet(q) = ToSet(q) /\ (Links!IsInjective(q) <=> IsInjective(q))
PROOF
  BY DEF Links!ToSet, ToSet, Links!IsInjective, IsInjective

\* The fields hold these nodes and these links.
Fits(ids, out, in, nodes, links) ==
  /\ ids \in Seq(Urls) /\ out \in Seq(Seq(Nat)) /\ in \in Seq(Seq(Nat))
  /\ Len(out) = Len(ids) /\ Len(in) = Len(ids)
  /\ IsInjective(ids) /\ ToSet(ids) = nodes /\ Links!Nodes(links) \subseteq nodes
  /\ \A s \in 1 .. Len(ids) :
       /\ ToSet(out[s]) \subseteq 1 .. Len(ids) /\ IsInjective(out[s])
       /\ ToSet(in[s]) \subseteq 1 .. Len(ids) /\ IsInjective(in[s])
  /\ \A s, t \in 1 .. Len(ids) :
       /\ t \in ToSet(out[s]) <=> <<ids[s], ids[t]>> \in links
       /\ s \in ToSet(in[t]) <=> t \in ToSet(out[s])

\* A new node has no links.
LEMMA NodeFits ==
  ASSUME NEW ids, NEW out, NEW in, NEW nodes, NEW links, Fits(ids, out, in, nodes, links),
         NEW u \in Urls, u \notin nodes
  PROVE  Fits(Append(ids, u), Append(out, <<>>), Append(in, <<>>), nodes \union {u}, links)
PROOF
<1> DEFINE n == Len(ids)
           Elem == Seq(Nat)
           ids1 == Append(ids, u)
           out1 == Append(out, <<>>)
           in1 == Append(in, <<>>)
<1>1. /\ ids \in Seq(Urls) /\ out \in Seq(Elem) /\ in \in Seq(Elem) /\ n \in Nat
      /\ Len(out) = n /\ Len(in) = n /\ IsInjective(ids) /\ ToSet(ids) = nodes
      /\ DOMAIN ids = 1 .. n
  BY LenProperties DEF Fits
<1>2. <<>> \in Elem /\ ToSet(<<>>) = {} /\ IsInjective(<<>>)  BY DEF ToSet, IsInjective
<1> HIDE DEF Elem
<1>3. /\ ids1 \in Seq(Urls) /\ Len(ids1) = n + 1 /\ ToSet(ids1) = nodes \union {u}
      /\ IsInjective(ids1)
  BY <1>1, AppendIs
<1>4. ids1[n + 1] = u /\ \A i \in 1 .. n : ids1[i] = ids[i]
  BY <1>1, AppendProperties
<1>5. /\ out1 \in Seq(Elem) /\ Len(out1) = n + 1 /\ out1[n + 1] = <<>>
      /\ \A i \in 1 .. n : out1[i] = out[i]
  BY <1>1, <1>2, AppendProperties
<1>6. /\ in1 \in Seq(Elem) /\ Len(in1) = n + 1 /\ in1[n + 1] = <<>>
      /\ \A i \in 1 .. n : in1[i] = in[i]
  BY <1>1, <1>2, AppendProperties
<1>7. /\ Links!Nodes(links) \subseteq nodes
      /\ \A s \in 1 .. n : /\ ToSet(out[s]) \subseteq 1 .. n /\ IsInjective(out[s])
                           /\ ToSet(in[s]) \subseteq 1 .. n /\ IsInjective(in[s])
      /\ \A s, t \in 1 .. n : /\ t \in ToSet(out[s]) <=> <<ids[s], ids[t]>> \in links
                              /\ s \in ToSet(in[t]) <=> t \in ToSet(out[s])
  BY DEF Fits
<1>8. \A x : <<x, u>> \notin links /\ <<u, x>> \notin links
  <2>1. \A x, y : <<x, y>> \in links => x \in Links!Nodes(links) /\ y \in Links!Nodes(links)
    BY DEF Links!Nodes
  <2>2. QED  BY <1>7, <2>1
<1> HIDE DEF n, ids1, out1, in1
<1>9. \A s \in 1 .. n + 1 : s = n + 1 \/ s \in 1 .. n  BY <1>1
<1>10. 1 .. n \subseteq 1 .. n + 1 /\ n + 1 \notin 1 .. n  BY <1>1
<1>11. ASSUME NEW s \in 1 .. n + 1
       PROVE  /\ ToSet(out1[s]) \subseteq 1 .. n /\ IsInjective(out1[s])
              /\ ToSet(in1[s]) \subseteq 1 .. n /\ IsInjective(in1[s])
  <2>1. CASE s = n + 1  BY <1>2, <1>5, <1>6, <2>1
  <2>2. CASE s \in 1 .. n  BY <1>5, <1>6, <1>7, <2>2
  <2>3. QED  BY <1>9, <2>1, <2>2
<1>12. ASSUME NEW s \in 1 .. n + 1, NEW t \in 1 .. n + 1
       PROVE  /\ t \in ToSet(out1[s]) <=> <<ids1[s], ids1[t]>> \in links
              /\ s \in ToSet(in1[t]) <=> t \in ToSet(out1[s])
  <2>1. CASE s \in 1 .. n /\ t \in 1 .. n  BY <1>4, <1>5, <1>6, <1>7, <2>1
  <2>2. CASE s = n + 1
    <3>1. ToSet(out1[s]) = {} /\ s \notin ToSet(in1[t]) /\ ids1[s] = u
      BY <1>2, <1>4, <1>5, <1>10, <1>11, <2>2
    <3>2. QED  BY <1>8, <3>1
  <2>3. CASE t = n + 1
    <3>1. ToSet(in1[t]) = {} /\ t \notin ToSet(out1[s]) /\ ids1[t] = u
      BY <1>2, <1>4, <1>6, <1>10, <1>11, <2>3
    <3>2. QED  BY <1>8, <3>1
  <2>4. QED  BY <1>9, <2>1, <2>2, <2>3
<1>13. Fits(ids1, out1, in1, nodes \union {u}, links)
  BY <1>3, <1>5, <1>6, <1>7, <1>10, <1>11, <1>12 DEF Fits, Elem
<1>14. QED  BY <1>13 DEF ids1, out1, in1

\* An edge is entered at both ends.
LEMMA EdgeFits ==
  ASSUME NEW ids, NEW out, NEW in, NEW nodes, NEW links, Fits(ids, out, in, nodes, links),
         NEW s \in 1 .. Len(ids), NEW t \in 1 .. Len(ids), t \notin ToSet(out[s])
  PROVE  Fits(ids, [out EXCEPT ![s] = Append(@, t)], [in EXCEPT ![t] = Append(@, s)], nodes,
              links \union {<<ids[s], ids[t]>>})
PROOF
<1> DEFINE n == Len(ids)
           Elem == Nat
           Q == Seq(Elem)
           out1 == [out EXCEPT ![s] = Append(@, t)]
           in1 == [in EXCEPT ![t] = Append(@, s)]
           links1 == links \union {<<ids[s], ids[t]>>}
<1>1. /\ ids \in Seq(Urls) /\ out \in Seq(Q) /\ in \in Seq(Q) /\ n \in Nat
      /\ Len(out) = n /\ Len(in) = n /\ IsInjective(ids) /\ ToSet(ids) = nodes
      /\ DOMAIN ids = 1 .. n /\ DOMAIN out = 1 .. n /\ DOMAIN in = 1 .. n
  BY LenProperties DEF Fits
<1>2. /\ Links!Nodes(links) \subseteq nodes
      /\ \A i \in 1 .. n : /\ ToSet(out[i]) \subseteq 1 .. n /\ IsInjective(out[i])
                           /\ ToSet(in[i]) \subseteq 1 .. n /\ IsInjective(in[i])
      /\ \A i, j \in 1 .. n : /\ j \in ToSet(out[i]) <=> <<ids[i], ids[j]>> \in links
                              /\ i \in ToSet(in[j]) <=> j \in ToSet(out[i])
  BY DEF Fits
<1>3. s \in Elem /\ t \in Elem /\ s \in 1 .. n /\ t \in 1 .. n  BY <1>1
<1>4. out[s] \in Q /\ in[t] \in Q  BY <1>1, <1>3, ElementOfSeq
<1> HIDE DEF Elem
<1>5. /\ Append(out[s], t) \in Q /\ ToSet(Append(out[s], t)) = ToSet(out[s]) \union {t}
      /\ IsInjective(Append(out[s], t))
  BY <1>2, <1>3, <1>4, AppendIs
<1>6. s \notin ToSet(in[t])  BY <1>2, <1>3
<1>7. /\ Append(in[t], s) \in Q /\ ToSet(Append(in[t], s)) = ToSet(in[t]) \union {s}
      /\ IsInjective(Append(in[t], s))
  BY <1>2, <1>3, <1>4, <1>6, AppendIs
<1> HIDE DEF Q
<1>8. /\ out1 \in Seq(Q) /\ Len(out1) = n /\ out1[s] = Append(out[s], t)
      /\ \A i \in 1 .. n : i # s => out1[i] = out[i]
  <2>1. out1[s] = Append(out[s], t) /\ \A i \in 1 .. n : i # s => out1[i] = out[i]
    BY <1>1, <1>3
  <2>2. out1 \in Seq(Q) /\ Len(out1) = Len(out)
    BY <1>1, <1>3, <1>5, ExceptSeq
  <2>3. QED  BY <1>1, <2>1, <2>2
<1>9. /\ in1 \in Seq(Q) /\ Len(in1) = n /\ in1[t] = Append(in[t], s)
      /\ \A i \in 1 .. n : i # t => in1[i] = in[i]
  <2>1. in1[t] = Append(in[t], s) /\ \A i \in 1 .. n : i # t => in1[i] = in[i]
    BY <1>1, <1>3
  <2>2. in1 \in Seq(Q) /\ Len(in1) = Len(in)
    BY <1>1, <1>3, <1>7, ExceptSeq
  <2>3. QED  BY <1>1, <2>1, <2>2
<1> HIDE DEF out1, in1, links1
<1>10. Links!Nodes(links1) \subseteq nodes
  <2>1. ids[s] \in nodes /\ ids[t] \in nodes  BY <1>1, <1>3 DEF ToSet
  <2>2. Links!Nodes(links1) \subseteq Links!Nodes(links) \union {ids[s], ids[t]}
    BY DEF Links!Nodes, links1
  <2>3. QED  BY <1>2, <2>1, <2>2
<1>11. ASSUME NEW i \in 1 .. n
       PROVE  /\ ToSet(out1[i]) \subseteq 1 .. n /\ IsInjective(out1[i])
              /\ ToSet(in1[i]) \subseteq 1 .. n /\ IsInjective(in1[i])
  <2>1. ToSet(out1[i]) \subseteq 1 .. n /\ IsInjective(out1[i])
    BY <1>2, <1>3, <1>5, <1>8
  <2>2. ToSet(in1[i]) \subseteq 1 .. n /\ IsInjective(in1[i])
    BY <1>2, <1>3, <1>7, <1>9
  <2>3. QED  BY <2>1, <2>2
<1>12. ASSUME NEW i \in 1 .. n, NEW j \in 1 .. n
       PROVE  /\ j \in ToSet(out1[i]) <=> <<ids[i], ids[j]>> \in links1
              /\ i \in ToSet(in1[j]) <=> j \in ToSet(out1[i])
  <2>1. j \in ToSet(out1[i]) <=> j \in ToSet(out[i]) \/ (i = s /\ j = t)
    BY <1>5, <1>8
  <2>2. i \in ToSet(in1[j]) <=> i \in ToSet(in[j]) \/ (i = s /\ j = t)
    BY <1>7, <1>9
  <2>3. <<ids[i], ids[j]>> = <<ids[s], ids[t]>> <=> i = s /\ j = t
    BY <1>1, <1>3 DEF IsInjective
  <2>4. <<ids[i], ids[j]>> \in links1 <=> <<ids[i], ids[j]>> \in links \/ (i = s /\ j = t)
    BY <2>3 DEF links1
  <2>5. QED  BY <1>2, <2>1, <2>2, <2>4
<1>13. Fits(ids, out1, in1, nodes, links1)
  BY <1>1, <1>8, <1>9, <1>10, <1>11, <1>12 DEF Fits, Q, Elem
<1>14. QED  BY <1>13 DEF out1, in1, links1

\* A graph with these nodes and these links.
FitsGraph(g, nodes, links) ==
  /\ DOMAIN g = DOMAIN Links!NoGraph
  /\ Fits(g.ids, g.out, g.in, nodes, links)
  /\ DOMAIN g.scores \subseteq 1 .. Len(g.ids) /\ g.dirty \in BOOLEAN

\* It is one that holds them, and well-typed.
LEMMA FitsHolds ==
  ASSUME NEW g, NEW links, FitsGraph(g, Links!Nodes(links), links)
  PROVE  Links!IsGraph(g) /\ Links!Holds(g, links)
PROOF
<1> DEFINE n == Len(g.ids)
           node == DOMAIN g.ids
<1>1. /\ g.ids \in Seq(Urls) /\ g.out \in Seq(Seq(Nat)) /\ g.in \in Seq(Seq(Nat))
      /\ n \in Nat /\ node = 1 .. n /\ Len(g.out) = n /\ Len(g.in) = n
      /\ DOMAIN g = DOMAIN Links!NoGraph /\ DOMAIN g.scores \subseteq node /\ g.dirty \in BOOLEAN
  BY LenProperties DEF FitsGraph, Fits
<1>2. /\ IsInjective(g.ids) /\ ToSet(g.ids) = Links!Nodes(links)
      /\ \A s \in 1 .. n : /\ ToSet(g.out[s]) \subseteq 1 .. n /\ IsInjective(g.out[s])
                           /\ ToSet(g.in[s]) \subseteq 1 .. n /\ IsInjective(g.in[s])
      /\ \A s, t \in 1 .. n : /\ t \in ToSet(g.out[s]) <=> <<g.ids[s], g.ids[t]>> \in links
                              /\ s \in ToSet(g.in[t]) <=> t \in ToSet(g.out[s])
  BY DEF FitsGraph, Fits
<1> HIDE DEF n
<1>3. ASSUME NEW q \in Seq(Nat), ToSet(q) \subseteq node PROVE q \in Seq(node)
  <2>1. Len(q) \in Nat /\ DOMAIN q = 1 .. Len(q) /\ q \in [1 .. Len(q) -> Nat]
    BY LenProperties
  <2>2. \A i \in 1 .. Len(q) : q[i] \in node  BY <1>3, <2>1 DEF ToSet
  <2>3. q \in [1 .. Len(q) -> node]  BY <2>1, <2>2
  <2> HIDE DEF node
  <2>4. QED  BY <2>1, <2>3, SeqDef
<1>4. ASSUME NEW w \in Seq(Seq(Nat)), Len(w) = n, \A s \in 1 .. n : ToSet(w[s]) \subseteq 1 .. n
      PROVE  w \in [node -> Seq(node)]
  <2> DEFINE Q == Seq(Nat)
  <2>1. w \in Seq(Q)  OBVIOUS
  <2> HIDE DEF Q
  <2>2. w \in [1 .. n -> Q]  BY <1>4, <2>1, LenProperties
  <2>3. \A s \in 1 .. n : w[s] \in Seq(node)  BY <1>1, <1>3, <1>4, <2>2 DEF Q
  <2> HIDE DEF node
  <2>4. QED  BY <1>1, <2>2, <2>3
<1>5. g.out \in [node -> Seq(node)] /\ g.in \in [node -> Seq(node)]
  <2> HIDE DEF node
  <2>1. QED  BY <1>1, <1>2, <1>4
<1>6. Links!IsGraph(g)  BY <1>1, <1>5 DEF Links!IsGraph
<1>7. Links!Holds(g, links)  BY <1>1, <1>2, SameLists DEF Links!Holds
<1>8. QED  BY <1>6, <1>7

\* The graph has a node for a URL that is asked for.
LEMMA GetOrCreateFits ==
  ASSUME NEW g, NEW nodes, NEW links, FitsGraph(g, nodes, links), NEW u \in Urls
  PROVE  /\ FitsGraph(Links!GetOrCreate(g, u), nodes \union {u}, links)
         /\ u \in nodes => Links!GetOrCreate(g, u) = g
PROOF
<1> DEFINE h == Links!GetOrCreate(g, u)
<1>1. /\ DOMAIN g = {"ids", "out", "in", "scores", "dirty"}
      /\ Fits(g.ids, g.out, g.in, nodes, links)
      /\ DOMAIN g.scores \subseteq 1 .. Len(g.ids) /\ g.dirty \in BOOLEAN /\ ToSet(g.ids) = nodes
  BY DEF FitsGraph, Fits, Links!NoGraph
<1>2. CASE u \in nodes
  <2>1. h = g /\ nodes \union {u} = nodes  BY <1>1, <1>2, SameLists DEF Links!GetOrCreate
  <2> HIDE DEF h
  <2>2. QED  BY <2>1 DEF h
<1>3. CASE u \notin nodes
  <2>1. /\ h.ids = Append(g.ids, u) /\ h.out = Append(g.out, <<>>) /\ h.in = Append(g.in, <<>>)
        /\ h.scores = g.scores /\ h.dirty = g.dirty /\ DOMAIN h = DOMAIN g
    BY <1>1, <1>3, SameLists DEF Links!GetOrCreate
  <2>2. Fits(h.ids, h.out, h.in, nodes \union {u}, links)
    <3>1. Fits(Append(g.ids, u), Append(g.out, <<>>), Append(g.in, <<>>), nodes \union {u}, links)
      BY <1>1, <1>3, NodeFits
    <3> HIDE DEF h
    <3>2. QED  BY <2>1, <3>1
  <2> HIDE DEF h
  <2>3. 1 .. Len(g.ids) \subseteq 1 .. Len(h.ids)
    <3>1. Len(h.ids) = Len(g.ids) + 1 /\ Len(g.ids) \in Nat
      BY <1>1, <2>1, AppendProperties, LenProperties DEF Fits
    <3>2. QED  BY <3>1
  <2>4. FitsGraph(h, nodes \union {u}, links)
    <3>1. DOMAIN h = DOMAIN Links!NoGraph  BY <2>1 DEF FitsGraph
    <3>2. DOMAIN h.scores \subseteq 1 .. Len(h.ids) /\ h.dirty \in BOOLEAN  BY <1>1, <2>1, <2>3
    <3>3. QED  BY <2>2, <3>1, <3>2 DEF FitsGraph
  <2>5. QED  BY <1>3, <2>4 DEF h
<1>4. QED  BY <1>2, <1>3

\* A graph that holds these links and has no stale scores.
Exact(g, links) == FitsGraph(g, Links!Nodes(links), links) /\ Links!UpToDate(g)

\* So it stays when a link is added.
LEMMA AddLinkExact ==
  ASSUME NEW g, NEW links, Exact(g, links), NEW src \in Urls, NEW dst \in Urls
  PROVE  Exact(Links!AddLink(g, src, dst), links \union {<<src, dst>>})
PROOF
<1> DEFINE nodes == Links!Nodes(links)
           both == nodes \union {src} \union {dst}
           h1 == Links!GetOrCreate(g, src)
           h == Links!GetOrCreate(h1, dst)
           s == Links!Id(h, src)
           t == Links!Id(h, dst)
           links1 == links \union {<<src, dst>>}
           result == Links!AddLink(g, src, dst)
<1>1. FitsGraph(g, nodes, links) /\ Links!UpToDate(g)  BY DEF Exact
<1>2. FitsGraph(h1, nodes \union {src}, links) /\ (src \in nodes => h1 = g)
  <2> HIDE DEF nodes
  <2>1. QED  BY <1>1, GetOrCreateFits
<1>3. FitsGraph(h, both, links) /\ (dst \in nodes \union {src} => h = h1)
  <2> HIDE DEF nodes, h1
  <2>1. QED  BY <1>2, GetOrCreateFits
<1>4. Links!Nodes(links1) = both
  <2>1. \A l : l \in links1 <=> l \in links \/ l = <<src, dst>>  OBVIOUS
  <2>2. <<src, dst>>[1] = src /\ <<src, dst>>[2] = dst  OBVIOUS
  <2>3. \A x : x \in Links!Nodes(links) <=> (\E l \in links : x = l[1] \/ x = l[2])
    BY DEF Links!Nodes
  <2>4. \A x : x \in Links!Nodes(links1) <=> (\E l \in links1 : x = l[1] \/ x = l[2])
    BY DEF Links!Nodes
  <2> HIDE DEF links1
  <2>5. Links!Nodes(links1) \subseteq Links!Nodes(links) \union {src} \union {dst}
    BY <2>1, <2>2, <2>3, <2>4
  <2>6. Links!Nodes(links) \union {src} \union {dst} \subseteq Links!Nodes(links1)
    BY <2>1, <2>2, <2>3, <2>4
  <2>7. QED  BY <2>5, <2>6
<1>5. result = IF t \in ToSet(h.out[s]) THEN h
               ELSE [h EXCEPT !.out[s] = Append(@, t), !.in[t] = Append(@, s), !.dirty = TRUE]
  BY SameLists DEF Links!AddLink
<1>6. /\ Fits(h.ids, h.out, h.in, both, links) /\ h.ids \in Seq(Urls) /\ ToSet(h.ids) = both
      /\ DOMAIN h = {"ids", "out", "in", "scores", "dirty"}
      /\ DOMAIN h.scores \subseteq 1 .. Len(h.ids)
  BY <1>3 DEF FitsGraph, Fits, Links!NoGraph
<1> HIDE DEF h, h1, result, both
<1>7. s \in 1 .. Len(h.ids) /\ h.ids[s] = src /\ t \in 1 .. Len(h.ids) /\ h.ids[t] = dst
  <2>1. DOMAIN h.ids = 1 .. Len(h.ids)  BY <1>6, LenProperties
  <2>2. src \in ToSet(h.ids) /\ dst \in ToSet(h.ids)  BY <1>6 DEF both
  <2>3. (\E i \in DOMAIN h.ids : h.ids[i] = src) /\ (\E i \in DOMAIN h.ids : h.ids[i] = dst)
    BY <2>2 DEF ToSet
  <2>4. QED  BY <2>1, <2>3 DEF Links!Id
<1> HIDE DEF s, t
<1>8. t \in ToSet(h.out[s]) <=> <<src, dst>> \in links
  BY <1>6, <1>7 DEF Fits
<1>9. CASE <<src, dst>> \in links
  <2>1. links1 = links  BY <1>9
  <2>2. src \in nodes /\ dst \in nodes  BY <1>9 DEF Links!Nodes
  <2>3. h = g  BY <1>2, <1>3, <2>2
  <2>4. result = g  BY <1>5, <1>8, <1>9, <2>3
  <2> HIDE DEF links1
  <2>5. Exact(result, links1)  BY <2>1, <2>4
  <2>6. QED  BY <2>5 DEF result, links1
<1>10. CASE <<src, dst>> \notin links
  <2> DEFINE o == [h.out EXCEPT ![s] = Append(@, t)]
             i == [h.in EXCEPT ![t] = Append(@, s)]
  <2>1. result = [h EXCEPT !.out[s] = Append(@, t), !.in[t] = Append(@, s), !.dirty = TRUE]
    BY <1>5, <1>8, <1>10
  <2>2. /\ result.ids = h.ids /\ result.out = o /\ result.in = i /\ result.scores = h.scores
        /\ result.dirty = TRUE /\ DOMAIN result = DOMAIN h
    BY <1>6, <2>1
  <2>3. Fits(h.ids, o, i, both, links \union {<<h.ids[s], h.ids[t]>>})
    <3>1. t \notin ToSet(h.out[s])  BY <1>8, <1>10
    <3> HIDE DEF links1
    <3>2. QED  BY <1>6, <1>7, <3>1, EdgeFits
  <2> HIDE DEF o, i
  <2>4. Fits(result.ids, result.out, result.in, both, links1)  BY <1>7, <2>2, <2>3
  <2>5. Links!UpToDate(result)  BY <2>2 DEF Links!UpToDate
  <2>6. FitsGraph(result, both, links1)
    BY <1>3, <1>6, <2>2, <2>4 DEF FitsGraph
  <2> HIDE DEF links1
  <2>7. Exact(result, links1)  BY <1>4, <2>5, <2>6 DEF Exact
  <2>8. QED  BY <2>7 DEF result, links1
<1>11. QED  BY <1>9, <1>10

\* after of AddPage, up to n.
Added(g0, u, q, n, f) ==
  f = [i \in 0 .. n |-> IF i = 0 THEN g0 ELSE Links!AddLink(f[i - 1], u, q[i])]

\* There is such a function, for every list of links.
LEMMA AddedExists == ASSUME NEW g0, NEW u, NEW q, NEW n \in Nat PROVE \E f : Added(g0, u, q, n, f)
PROOF
<1> DEFINE P == {m \in Nat : \E f : Added(g0, u, q, m, f)}
<1>1. 0 \in P
  <2> DEFINE f == [i \in 0 .. 0 |-> g0]
  <2>1. Added(g0, u, q, 0, f)  BY DEF Added
  <2>2. QED  BY <2>1
<1>2. ASSUME NEW m \in P PROVE m + 1 \in P
  <2>1. PICK f : Added(g0, u, q, m, f)  OBVIOUS
  <2> DEFINE x == Links!AddLink(f[m], u, q[m + 1])
             g == [i \in 0 .. m + 1 |-> IF i = m + 1 THEN x ELSE f[i]]
  <2>2. \A i \in 0 .. m : f[i] = IF i = 0 THEN g0 ELSE Links!AddLink(f[i - 1], u, q[i])
    BY <2>1 DEF Added
  <2>3. m \in Nat  OBVIOUS
  <2>4. ASSUME NEW i \in 0 .. m + 1
        PROVE  g[i] = IF i = 0 THEN g0 ELSE Links!AddLink(g[i - 1], u, q[i])
    <3>1. CASE i = 0  BY <2>2, <2>3, <3>1
    <3>2. CASE i = m + 1
      <4>1. g[i] = x /\ g[i - 1] = f[m] /\ i # 0  BY <2>3, <3>2
      <4> HIDE DEF g
      <4>2. QED  BY <3>2, <4>1
    <3>3. CASE i # 0 /\ i # m + 1
      <4>1. i \in 0 .. m /\ i - 1 \in 0 .. m /\ i - 1 # m + 1  BY <2>3, <3>3
      <4>2. g[i] = f[i] /\ g[i - 1] = f[i - 1]  BY <2>3, <3>3, <4>1
      <4> HIDE DEF g
      <4>3. QED  BY <2>2, <3>3, <4>1, <4>2
    <3>4. QED  BY <3>1, <3>2, <3>3
  <2>5. g = [i \in 0 .. m + 1 |-> g[i]]  OBVIOUS
  <2>6. Added(g0, u, q, m + 1, g)
    <3> HIDE DEF g
    <3>1. QED  BY <2>4, <2>5 DEF Added
  <2>7. QED  BY <2>3, <2>6
<1>3. P = Nat
  <2>1. P \in SUBSET Nat  OBVIOUS
  <2> HIDE DEF P
  <2>2. QED  BY <1>1, <1>2, <2>1, SetInduction
<1>4. QED  BY <1>3

\* It stays when the links of a page are added.
LEMMA AddPageExact ==
  ASSUME NEW g, NEW links, Exact(g, links), NEW u \in Urls, NEW q \in Seq(Urls)
  PROVE  Exact(Links!AddPage(g, u, q), links \union ({u} \X ToSet(q)))
PROOF
<1>1. Len(q) \in Nat /\ DOMAIN q = 1 .. Len(q) /\ \A i \in 1 .. Len(q) : q[i] \in Urls
  BY LenProperties, ElementOfSeq
<1>2. PICK f : Added(g, u, q, Len(q), f) /\ Links!AddPage(g, u, q) = f[Len(q)]
  <2> DEFINE c == CHOOSE f : Added(g, u, q, Len(q), f)
  <2>1. Added(g, u, q, Len(q), c)  BY <1>1, AddedExists
  <2>2. Links!AddPage(g, u, q) = c[Len(q)]  BY DEF Links!AddPage, Added
  <2> HIDE DEF c
  <2>3. QED  BY <2>1, <2>2
<1>3. f[0] = g /\ \A i \in 1 .. Len(q) : f[i] = Links!AddLink(f[i - 1], u, q[i])
  <2>1. \A i \in 0 .. Len(q) : f[i] = IF i = 0 THEN g ELSE Links!AddLink(f[i - 1], u, q[i])
    BY <1>2 DEF Added
  <2>2. 0 \in 0 .. Len(q) /\ \A i \in 1 .. Len(q) : i \in 0 .. Len(q) /\ i # 0  BY <1>1
  <2>3. QED  BY <2>1, <2>2
<1> DEFINE to(n) == {<<u, q[j]>> : j \in 1 .. n}
           Good(n) == Exact(f[n], links \union to(n))
           P == {n \in Nat : n <= Len(q) => Good(n)}
<1>4. 0 \in P
  <2>1. links \union to(0) = links  OBVIOUS
  <2> HIDE DEF to
  <2>2. QED  BY <1>3, <2>1
<1>5. ASSUME NEW n \in P PROVE n + 1 \in P
  <2> SUFFICES ASSUME n + 1 <= Len(q) PROVE Good(n + 1)  OBVIOUS
  <2> DEFINE before == links \union to(n)
             new == before \union {<<u, q[n + 1]>>}
  <2>1. n \in Nat /\ n <= Len(q) /\ n + 1 \in 1 .. Len(q) /\ n + 1 - 1 = n  BY <1>1
  <2>2. Exact(f[n], before)  BY <2>1
  <2>3. f[n + 1] = Links!AddLink(f[n], u, q[n + 1]) /\ q[n + 1] \in Urls
    BY <1>1, <1>3, <2>1
  <2>4. links \union to(n + 1) = new
    <3>1. 1 .. n + 1 = (1 .. n) \union {n + 1}  BY <2>1
    <3>2. to(n + 1) = to(n) \union {<<u, q[n + 1]>>}  BY <3>1
    <3> HIDE DEF to
    <3>3. QED  BY <3>2
  <2> HIDE DEF before
  <2>5. Exact(f[n + 1], new)  BY <2>2, <2>3, AddLinkExact
  <2> HIDE DEF new, to
  <2>6. QED  BY <2>4, <2>5
<1>6. P = Nat
  <2>1. P \in SUBSET Nat  OBVIOUS
  <2> HIDE DEF P
  <2>2. QED  BY <1>4, <1>5, <2>1, SetInduction
<1>7. Good(Len(q))
  <2>1. Len(q) \in P
    <3> HIDE DEF P
    <3>1. QED  BY <1>1, <1>6
  <2>2. Len(q) <= Len(q)  BY <1>1
  <2> HIDE DEF Good
  <2>3. QED  BY <2>1, <2>2
<1>8. to(Len(q)) = {u} \X ToSet(q)  BY <1>1 DEF ToSet
<1> HIDE DEF to
<1>9. QED  BY <1>2, <1>7, <1>8

\* What PageRank starts from, and what a round makes of the round before.
FirstRound(ids) == [rank |-> [i \in DOMAIN ids |-> Unit \div Len(ids)], over |-> FALSE]
NextRound(out, in, last) ==
  IF last.over THEN last
  ELSE [rank |-> Links!NextRank(out, in, last.rank),
        over |-> Links!Delta(last.rank, Links!NextRank(out, in, last.rank)) < Tolerance]

\* after of PageRank, up to n.
Ranked(ids, out, in, n, f) ==
  f = [i \in 0 .. n |-> IF i = 0 THEN FirstRound(ids) ELSE NextRound(out, in, f[i - 1])]

\* There is such a function, for any number of rounds.
LEMMA RankedExists ==
  ASSUME NEW ids, NEW out, NEW in, NEW n \in Nat
  PROVE  \E f : Ranked(ids, out, in, n, f)
PROOF
<1> DEFINE P == {m \in Nat : \E f : Ranked(ids, out, in, m, f)}
<1>1. 0 \in P
  <2> DEFINE f == [i \in 0 .. 0 |-> FirstRound(ids)]
  <2>1. Ranked(ids, out, in, 0, f)  BY DEF Ranked
  <2>2. QED  BY <2>1
<1>2. ASSUME NEW m \in P PROVE m + 1 \in P
  <2>1. PICK f : Ranked(ids, out, in, m, f)  OBVIOUS
  <2> DEFINE x == NextRound(out, in, f[m])
             g == [i \in 0 .. m + 1 |-> IF i = m + 1 THEN x ELSE f[i]]
  <2>2. \A i \in 0 .. m : f[i] = IF i = 0 THEN FirstRound(ids) ELSE NextRound(out, in, f[i - 1])
    BY <2>1 DEF Ranked
  <2>3. m \in Nat  OBVIOUS
  <2>4. ASSUME NEW i \in 0 .. m + 1
        PROVE  g[i] = IF i = 0 THEN FirstRound(ids) ELSE NextRound(out, in, g[i - 1])
    <3>1. CASE i = 0  BY <2>2, <2>3, <3>1
    <3>2. CASE i = m + 1
      <4>1. g[i] = x /\ g[i - 1] = f[m] /\ i # 0  BY <2>3, <3>2
      <4> HIDE DEF g
      <4>2. QED  BY <3>2, <4>1
    <3>3. CASE i # 0 /\ i # m + 1
      <4>1. i \in 0 .. m /\ i - 1 \in 0 .. m /\ i - 1 # m + 1  BY <2>3, <3>3
      <4>2. g[i] = f[i] /\ g[i - 1] = f[i - 1]  BY <2>3, <3>3, <4>1
      <4> HIDE DEF g
      <4>3. QED  BY <2>2, <3>3, <4>1, <4>2
    <3>4. QED  BY <3>1, <3>2, <3>3
  <2>5. g = [i \in 0 .. m + 1 |-> g[i]]  OBVIOUS
  <2>6. Ranked(ids, out, in, m + 1, g)
    <3> HIDE DEF g
    <3>1. QED  BY <2>4, <2>5 DEF Ranked
  <2>7. QED  BY <2>3, <2>6
<1>3. P = Nat
  <2>1. P \in SUBSET Nat  OBVIOUS
  <2> HIDE DEF P
  <2>2. QED  BY <1>1, <1>2, <2>1, SetInduction
<1>4. QED  BY <1>3

\* The rounds of PageRank.
LEMMA RoundsRanked ==
  ASSUME NEW ids, NEW out, NEW in, Iterations \in Nat
  PROVE  \E f : /\ Links!PageRank(ids, out, in) = f[Iterations].rank
                /\ f[0] = FirstRound(ids)
                /\ \A i \in 1 .. Iterations : f[i] = NextRound(out, in, f[i - 1])
PROOF
<1> DEFINE c == CHOOSE f : Ranked(ids, out, in, Iterations, f)
<1>1. Ranked(ids, out, in, Iterations, c)  BY RankedExists
<1>2. Links!PageRank(ids, out, in) = c[Iterations].rank
  BY DEF Links!PageRank, Ranked, FirstRound, NextRound
<1> HIDE DEF c
<1>3. \A i \in 0 .. Iterations :
        c[i] = IF i = 0 THEN FirstRound(ids) ELSE NextRound(out, in, c[i - 1])
  BY <1>1 DEF Ranked
<1>4. 0 \in 0 .. Iterations /\ \A i \in 1 .. Iterations : i \in 0 .. Iterations /\ i # 0
  OBVIOUS
<1>5. c[0] = FirstRound(ids) /\ \A i \in 1 .. Iterations : c[i] = NextRound(out, in, c[i - 1])
  BY <1>3, <1>4
<1>6. QED  BY <1>2, <1>5

\* Every node gets a rank.
LEMMA RankDomain ==
  ASSUME NEW ids, NEW out, NEW in, Iterations \in Nat
  PROVE  DOMAIN Links!PageRank(ids, out, in) = DOMAIN ids
PROOF
<1>1. PICK f : /\ Links!PageRank(ids, out, in) = f[Iterations].rank
               /\ f[0] = FirstRound(ids)
               /\ \A i \in 1 .. Iterations : f[i] = NextRound(out, in, f[i - 1])
  BY RoundsRanked
<1> DEFINE P == {n \in Nat : n <= Iterations => DOMAIN f[n].rank = DOMAIN ids}
<1>2. 0 \in P  BY <1>1 DEF FirstRound
<1>3. ASSUME NEW n \in P PROVE n + 1 \in P
  <2> SUFFICES ASSUME n + 1 <= Iterations PROVE DOMAIN f[n + 1].rank = DOMAIN ids  OBVIOUS
  <2> DEFINE new == Links!NextRank(out, in, f[n].rank)
  <2>1. n \in Nat /\ n <= Iterations /\ n + 1 \in 1 .. Iterations /\ n + 1 - 1 = n  OBVIOUS
  <2>2. DOMAIN f[n].rank = DOMAIN ids  BY <2>1
  <2>3. f[n + 1] = NextRound(out, in, f[n])  BY <1>1, <2>1
  <2>4. DOMAIN new = DOMAIN ids  BY <2>2 DEF Links!NextRank
  <2> HIDE DEF new
  <2>5. f[n + 1].rank = f[n].rank \/ f[n + 1].rank = new  BY <2>3 DEF NextRound, new
  <2>6. QED  BY <2>2, <2>4, <2>5
<1>4. P = Nat
  <2>1. P \in SUBSET Nat  OBVIOUS
  <2> HIDE DEF P
  <2>2. QED  BY <1>2, <1>3, <2>1, SetInduction
<1>5. DOMAIN f[Iterations].rank = DOMAIN ids
  <2>1. Iterations \in P
    <3> HIDE DEF P
    <3>1. QED  BY <1>4
  <2>2. QED  BY <2>1
<1>6. QED  BY <1>1, <1>5

\* It stays when a score is asked for.
LEMMA RefreshedExact ==
  ASSUME NEW g, NEW links, Exact(g, links), Iterations \in Nat
  PROVE  Exact(Links!Refreshed(g), links)
PROOF
<1> DEFINE h == Links!Refreshed(g)
           ranks == Links!RanksNow(g)
<1>1. /\ FitsGraph(g, Links!Nodes(links), links)
      /\ DOMAIN g = {"ids", "out", "in", "scores", "dirty"}
      /\ g.ids \in Seq(Urls)
  BY DEF Exact, FitsGraph, Fits, Links!NoGraph
<1>2. DOMAIN ranks = 1 .. Len(g.ids)
  <2>1. DOMAIN g.ids = 1 .. Len(g.ids)  BY <1>1, LenProperties
  <2>2. QED  BY <2>1, RankDomain DEF Links!RanksNow
<1>3. h = g \/ h = [g EXCEPT !.scores = ranks, !.dirty = FALSE]
  BY DEF Links!Refreshed, Links!Computed
<1> HIDE DEF h, ranks
<1>4. CASE h = g  BY <1>4 DEF h
<1>5. CASE h = [g EXCEPT !.scores = ranks, !.dirty = FALSE]
  <2>1. /\ h.ids = g.ids /\ h.out = g.out /\ h.in = g.in /\ h.scores = ranks /\ h.dirty = FALSE
        /\ DOMAIN h = DOMAIN g
    BY <1>1, <1>5
  <2>2. FitsGraph(h, Links!Nodes(links), links)  BY <1>1, <1>2, <2>1 DEF FitsGraph
  <2>3. Links!UpToDate(h)  BY <2>1 DEF Links!UpToDate, Links!RanksNow, ranks
  <2>4. QED  BY <2>2, <2>3 DEF Exact, h
<1>6. QED  BY <1>3, <1>4, <1>5

\* An empty graph is exact.
LEMMA NoGraphExact == Exact(Links!NoGraph, {})
PROOF
<1> DEFINE g == Links!NoGraph
           N0 == Seq(Nat)
<1>1. g.ids = <<>> /\ g.out = <<>> /\ g.in = <<>> /\ g.scores = <<>> /\ g.dirty = TRUE
  BY DEF Links!NoGraph
<1>2. Links!Nodes({}) = {}  BY DEF Links!Nodes
<1>3. <<>> \in Seq(Urls) /\ <<>> \in Seq(N0) /\ Len(<<>>) = 0 /\ ToSet(<<>>) = {}
  BY EmptySeq DEF ToSet
<1>4. DOMAIN <<>> = {} /\ IsInjective(<<>>)  BY DEF IsInjective
<1> HIDE DEF g
<1>5. Fits(g.ids, g.out, g.in, {}, {})  BY <1>1, <1>2, <1>3, <1>4 DEF Fits
<1>6. FitsGraph(g, {}, {})  BY <1>1, <1>4, <1>5 DEF FitsGraph, g
<1>7. QED  BY <1>1, <1>2, <1>6 DEF Exact, Links!UpToDate, g

\* The links that the first calls bring.
LinksOf(n) == UNION {{calls[j]} \X ToSet(Outlinks[calls[j]]) :
                      j \in {i \in 1 .. n : calls[i] # RankCall}}

\* What a call makes of the graph that it finds.
CallOn(g, c) == IF c = RankCall THEN Links!Refreshed(g) ELSE Links!AddPage(g, c, Outlinks[c])

\* after of graph, up to n.
Called(n, f) ==
  f = [i \in 0 .. n |-> IF i = 0 THEN Links!NoGraph ELSE CallOn(f[i - 1], calls[i])]

\* There is such a function, for every list of calls.
LEMMA CalledExists == ASSUME NEW n \in Nat PROVE \E f : Called(n, f)
PROOF
<1> DEFINE P == {m \in Nat : \E f : Called(m, f)}
<1>1. 0 \in P
  <2> DEFINE f == [i \in 0 .. 0 |-> Links!NoGraph]
  <2>1. Called(0, f)  BY DEF Called
  <2>2. QED  BY <2>1
<1>2. ASSUME NEW m \in P PROVE m + 1 \in P
  <2>1. PICK f : Called(m, f)  OBVIOUS
  <2> DEFINE x == CallOn(f[m], calls[m + 1])
             g == [i \in 0 .. m + 1 |-> IF i = m + 1 THEN x ELSE f[i]]
  <2>2. \A i \in 0 .. m : f[i] = IF i = 0 THEN Links!NoGraph ELSE CallOn(f[i - 1], calls[i])
    BY <2>1 DEF Called
  <2>3. m \in Nat  OBVIOUS
  <2>4. ASSUME NEW i \in 0 .. m + 1
        PROVE  g[i] = IF i = 0 THEN Links!NoGraph ELSE CallOn(g[i - 1], calls[i])
    <3>1. CASE i = 0  BY <2>2, <2>3, <3>1
    <3>2. CASE i = m + 1
      <4>1. g[i] = x /\ g[i - 1] = f[m] /\ i # 0  BY <2>3, <3>2
      <4> HIDE DEF g
      <4>2. QED  BY <3>2, <4>1
    <3>3. CASE i # 0 /\ i # m + 1
      <4>1. i \in 0 .. m /\ i - 1 \in 0 .. m /\ i - 1 # m + 1  BY <2>3, <3>3
      <4>2. g[i] = f[i] /\ g[i - 1] = f[i - 1]  BY <2>3, <3>3, <4>1
      <4> HIDE DEF g
      <4>3. QED  BY <2>2, <3>3, <4>1, <4>2
    <3>4. QED  BY <3>1, <3>2, <3>3
  <2>5. g = [i \in 0 .. m + 1 |-> g[i]]  OBVIOUS
  <2>6. Called(m + 1, g)
    <3> HIDE DEF g
    <3>1. QED  BY <2>4, <2>5 DEF Called
  <2>7. QED  BY <2>3, <2>6
<1>3. P = Nat
  <2>1. P \in SUBSET Nat  OBVIOUS
  <2> HIDE DEF P
  <2>2. QED  BY <1>1, <1>2, <2>1, SetInduction
<1>4. QED  BY <1>3

\* The graph is exactly the links of the pages it was given, whatever the calls.
LEMMA GraphExact ==
  ASSUME calls \in Seq(Pages \union {RankCall})
  PROVE  Exact(graph, linksRecorded)
PROOF
<1>1. /\ Len(calls) \in Nat /\ DOMAIN calls = 1 .. Len(calls)
      /\ \A i \in 1 .. Len(calls) : calls[i] \in Pages \union {RankCall}
  BY LenProperties, ElementOfSeq
<1>2. /\ Pages \subseteq Urls /\ Outlinks \in [Pages -> Seq(Urls)] /\ RankCall \notin Pages
      /\ Iterations \in Nat
  BY PipelineAssumption DEF Links!GraphAssumption
<1>3. PICK f : Called(Len(calls), f) /\ graph = f[Len(calls)]
  <2> DEFINE c == CHOOSE f : Called(Len(calls), f)
  <2>1. Called(Len(calls), c)  BY <1>1, CalledExists
  <2>2. graph = c[Len(calls)]  BY DEF graph, Called, CallOn
  <2> HIDE DEF c
  <2>3. QED  BY <2>1, <2>2
<1>4. /\ f[0] = Links!NoGraph
      /\ \A i \in 1 .. Len(calls) :
           f[i] = IF calls[i] = RankCall THEN Links!Refreshed(f[i - 1])
                  ELSE Links!AddPage(f[i - 1], calls[i], Outlinks[calls[i]])
  <2>1. \A i \in 0 .. Len(calls) :
          f[i] = IF i = 0 THEN Links!NoGraph
                 ELSE IF calls[i] = RankCall THEN Links!Refreshed(f[i - 1])
                      ELSE Links!AddPage(f[i - 1], calls[i], Outlinks[calls[i]])
    BY <1>3 DEF Called, CallOn
  <2>2. 0 \in 0 .. Len(calls) /\ \A i \in 1 .. Len(calls) : i \in 0 .. Len(calls) /\ i # 0
    BY <1>1
  <2>3. QED  BY <2>1, <2>2
<1> DEFINE Good(n) == Exact(f[n], LinksOf(n))
           P == {n \in Nat : n <= Len(calls) => Good(n)}
<1>5. 0 \in P
  <2>1. LinksOf(0) = {}  BY DEF LinksOf
  <2>2. QED  BY <1>4, <2>1, NoGraphExact
<1>6. ASSUME NEW n \in P PROVE n + 1 \in P
  <2> SUFFICES ASSUME n + 1 <= Len(calls) PROVE Good(n + 1)  OBVIOUS
  <2> DEFINE c == calls[n + 1]
             before == LinksOf(n)
             new == {c} \X ToSet(Outlinks[c])
  <2>1. n \in Nat /\ n <= Len(calls) /\ n + 1 \in 1 .. Len(calls) /\ n + 1 - 1 = n  BY <1>1
  <2>2. Exact(f[n], before)  BY <2>1
  <2>3. 1 .. n + 1 = (1 .. n) \union {n + 1}  BY <2>1
  <2>4. CASE c = RankCall
    <3>1. f[n + 1] = Links!Refreshed(f[n])  BY <1>4, <2>1, <2>4
    <3>2. LinksOf(n + 1) = before
      <4>1. {j \in 1 .. n + 1 : calls[j] # RankCall} = {j \in 1 .. n : calls[j] # RankCall}
        BY <2>3, <2>4
      <4>2. QED  BY <4>1 DEF LinksOf
    <3> HIDE DEF before
    <3>3. Exact(f[n + 1], before)  BY <1>2, <2>2, <3>1, RefreshedExact
    <3>4. QED  BY <3>2, <3>3
  <2>5. CASE c # RankCall
    <3>1. f[n + 1] = Links!AddPage(f[n], c, Outlinks[c])  BY <1>4, <2>1, <2>5
    <3>2. c \in Urls /\ Outlinks[c] \in Seq(Urls)  BY <1>1, <1>2, <2>1, <2>5
    <3>3. LinksOf(n + 1) = before \union new
      <4>1. {j \in 1 .. n + 1 : calls[j] # RankCall}
              = {j \in 1 .. n : calls[j] # RankCall} \union {n + 1}
        BY <2>3, <2>5
      <4>2. QED  BY <4>1 DEF LinksOf
    <3> HIDE DEF before, c
    <3>4. Exact(f[n + 1], before \union new)  BY <2>2, <3>1, <3>2, AddPageExact
    <3> HIDE DEF new
    <3>5. QED  BY <3>3, <3>4
  <2>6. QED  BY <2>4, <2>5
<1>7. P = Nat
  <2>1. P \in SUBSET Nat  OBVIOUS
  <2> HIDE DEF P
  <2>2. QED  BY <1>5, <1>6, <2>1, SetInduction
<1>8. Good(Len(calls))
  <2>1. Len(calls) \in P
    <3> HIDE DEF P
    <3>1. QED  BY <1>1, <1>7
  <2>2. Len(calls) <= Len(calls)  BY <1>1
  <2> HIDE DEF Good
  <2>3. QED  BY <2>1, <2>2
<1>9. LinksOf(Len(calls)) = linksRecorded
  <2> DEFINE n == Len(calls)
             of(p) == {p} \X ToSet(Outlinks[p])
             js == {j \in 1 .. n : calls[j] # RankCall}
  <2>1. \A p : p \in recorded <=> \E j \in js : p = calls[j]
    BY <1>1 DEF recorded, ToSet
  <2>2. LinksOf(n) = UNION {of(calls[j]) : j \in js}  BY DEF LinksOf
  <2>3. linksRecorded = UNION {of(p) : p \in recorded}  BY DEF linksRecorded
  <2> HIDE DEF of, js, n
  <2>4. {of(calls[j]) : j \in js} = {of(p) : p \in recorded}  BY <2>1
  <2>5. LinksOf(n) = linksRecorded  BY <2>2, <2>3, <2>4
  <2>6. QED  BY <2>5 DEF n
<1>10. QED  BY <1>3, <1>8, <1>9

\* The link graph is the links of the pages recorded, each once and at both of its
\* ends, and no score in it is stale, whatever pages and searches came in whatever
\* order and however many.
THEOREM GraphIsExactCorrect == Spec => []GraphIsExact
PROOF
<1>1. Init => Shape  BY SentinelInit DEF SentinelInv
<1>2. Shape => GraphIsExact
  <2> SUFFICES ASSUME Shape PROVE GraphIsExact  OBVIOUS
  <2>1. Exact(graph, linksRecorded)  BY GraphExact DEF Shape
  <2>2. Links!Holds(graph, linksRecorded)  BY <2>1, FitsHolds DEF Exact
  <2>3. QED  BY <2>1, <2>2 DEF Exact, GraphIsExact
<1>3. QED  BY <1>1, <1>2, ShapeStep, PTL DEF Spec

\* At no time is a page in a batch or in the indices whose links are not edges of
\* the link graph, and the graph has no others.
THEOREM LinksFirstCorrect == Spec => []LinksFirst
PROOF
<1>1. (indexed \union ToSet(batch) \subseteq recorded) /\ GraphIsExact => LinksFirst
  BY DEF LinksFirst
<1>2. QED  BY <1>1, RecordedFirst, GraphIsExactCorrect, PTL

-----------------------------------------------------------------------------
(* The ranks *)

\* The link graph's instance sums as this module does.
LEMMA SameSums ==
  ASSUME NEW f, NEW S
  PROVE  /\ Links!SumFunctionOnSet(f, S) = SumFunctionOnSet(f, S)
         /\ Links!SumFunction(f) = SumFunctionOnSet(f, DOMAIN f)
PROOF
BY DEF Links!SumFunction, Links!SumFunctionOnSet, Links!FoldFunctionOnSet, Links!MapThenFoldSet,
       SumFunctionOnSet, FoldFunctionOnSet, MapThenFoldSet

\* And counts as it does.
LEMMA SameCounts ==
  ASSUME NEW S
  PROVE  Links!Cardinality(S) = Cardinality(S) /\ (Links!IsFiniteSet(S) <=> IsFiniteSet(S))
PROOF
BY DEF Links!Cardinality, Cardinality, Links!IsFiniteSet, IsFiniteSet

\* The lists are these links.
Listed(ids, out, in, links) ==
  ids # <<>> /\ Fits(ids, out, in, Links!Nodes(links), links)

\* The same ranks, by ids and by nodes.
Alike(ids, links, rank, by) ==
  /\ rank \in [1 .. Len(ids) -> Int] /\ by \in [Links!Nodes(links) -> Int]
  /\ \A i \in 1 .. Len(ids) : by[ids[i]] = rank[i]

\* What there is to say of lists that are the links.
LEMMA ListsAre ==
  ASSUME NEW ids, NEW out, NEW in, NEW links, Listed(ids, out, in, links)
  PROVE  /\ Len(ids) \in Nat \ {0} /\ DOMAIN ids = 1 .. Len(ids)
         /\ IsFiniteSet(1 .. Len(ids)) /\ IsFiniteSet(Links!Nodes(links))
         /\ Cardinality(Links!Nodes(links)) = Len(ids)
         /\ \A i \in 1 .. Len(ids) : ids[i] \in Links!Nodes(links)
         /\ \A i, j \in 1 .. Len(ids) : ids[i] = ids[j] => i = j
         /\ \A v \in Links!Nodes(links) : \E i \in 1 .. Len(ids) : ids[i] = v
PROOF
<1> DEFINE V == Links!Nodes(links)
           n == Len(ids)
<1>1. ids \in Seq(Urls) /\ IsInjective(ids) /\ ToSet(ids) = V /\ ids # <<>>
  BY DEF Listed, Fits
<1>2. n \in Nat \ {0} /\ DOMAIN ids = 1 .. n  BY <1>1, LenProperties, EmptySeq
<1>3. IsFiniteSet(1 .. n) /\ Cardinality(1 .. n) = n
  <2>1. n \in Int /\ n >= 1  BY <1>2
  <2> HIDE DEF n
  <2>2. QED  BY <2>1, FS_Interval
<1> HIDE DEF V, n
<1>4. /\ \A i \in 1 .. n : ids[i] \in V
      /\ \A i, j \in 1 .. n : ids[i] = ids[j] => i = j
      /\ \A v \in V : \E i \in 1 .. n : ids[i] = v
  BY <1>1, <1>2 DEF ToSet, IsInjective
<1>5. IsFiniteSet(V) /\ Cardinality(V) = n  BY <1>3, <1>4, ImageIs
<1>6. QED  BY <1>2, <1>3, <1>4, <1>5 DEF V, n

\* The links of a node, and those to it, as lists and as sets.
LEMMA EndsAre ==
  ASSUME NEW ids, NEW out, NEW in, NEW links, Listed(ids, out, in, links),
         NEW s \in 1 .. Len(ids)
  PROVE  /\ DOMAIN out[s] = 1 .. Len(out[s]) /\ DOMAIN in[s] = 1 .. Len(in[s])
         /\ Len(out[s]) \in Nat /\ Len(in[s]) \in Nat
         /\ Cardinality(Links!Targets(links, ids[s])) = Len(out[s])
         /\ (Links!Targets(links, ids[s]) = {} <=> out[s] = <<>>)
         /\ \A k \in 1 .. Len(in[s]) :
              in[s][k] \in 1 .. Len(ids) /\ <<ids[in[s][k]], ids[s]>> \in links
         /\ \A k, l \in 1 .. Len(in[s]) : in[s][k] = in[s][l] => k = l
         /\ \A i \in 1 .. Len(ids) :
              <<ids[i], ids[s]>> \in links => \E k \in 1 .. Len(in[s]) : in[s][k] = i
PROOF
<1> DEFINE V == Links!Nodes(links)
           n == Len(ids)
           q == out[s]
           p == in[s]
           T == Links!Targets(links, ids[s])
<1>1. /\ out \in Seq(Seq(Nat)) /\ in \in Seq(Seq(Nat)) /\ Len(out) = n /\ Len(in) = n
      /\ ToSet(q) \subseteq 1 .. n /\ IsInjective(q)
      /\ ToSet(p) \subseteq 1 .. n /\ IsInjective(p)
      /\ \A t \in 1 .. n : /\ t \in ToSet(q) <=> <<ids[s], ids[t]>> \in links
                           /\ t \in ToSet(p) <=> <<ids[t], ids[s]>> \in links
  BY DEF Listed, Fits
<1>2. q \in Seq(Nat) /\ p \in Seq(Nat)
  <2> DEFINE Q == Seq(Nat)
  <2>1. out \in Seq(Q) /\ in \in Seq(Q) /\ s \in 1 .. Len(out) /\ s \in 1 .. Len(in)  BY <1>1
  <2> HIDE DEF Q
  <2>2. out[s] \in Q /\ in[s] \in Q  BY <2>1, ElementOfSeq
  <2>3. QED  BY <2>2 DEF Q
<1>3. /\ \A i \in 1 .. n : ids[i] \in V
      /\ \A i, j \in 1 .. n : ids[i] = ids[j] => i = j
      /\ \A v \in V : \E i \in 1 .. n : ids[i] = v
  BY ListsAre
<1>4. \A v : v \in T <=> v \in V /\ <<ids[s], v>> \in links  BY DEF Links!Targets
<1> HIDE DEF V, n, T, q, p
<1>5. DOMAIN q = 1 .. Len(q) /\ Len(q) \in Nat /\ DOMAIN p = 1 .. Len(p) /\ Len(p) \in Nat
  BY <1>2, LenProperties
<1>6. /\ \A k \in 1 .. Len(q) : q[k] \in 1 .. n /\ <<ids[s], ids[q[k]]>> \in links
      /\ \A k, l \in 1 .. Len(q) : q[k] = q[l] => k = l
      /\ \A i \in 1 .. n : <<ids[s], ids[i]>> \in links => \E k \in 1 .. Len(q) : q[k] = i
  BY <1>1, <1>5 DEF ToSet, IsInjective
<1>7. /\ \A k \in 1 .. Len(p) : p[k] \in 1 .. n /\ <<ids[p[k]], ids[s]>> \in links
      /\ \A k, l \in 1 .. Len(p) : p[k] = p[l] => k = l
      /\ \A i \in 1 .. n : <<ids[i], ids[s]>> \in links => \E k \in 1 .. Len(p) : p[k] = i
  BY <1>1, <1>5 DEF ToSet, IsInjective
<1>8. Cardinality(T) = Len(q)
  <2> DEFINE h == [k \in 1 .. Len(q) |-> ids[q[k]]]
             K == 1 .. Len(q)
  <2>1. \A k \in K : h[k] \in T  BY <1>3, <1>4, <1>6
  <2>2. ASSUME NEW v \in T PROVE \E k \in K : h[k] = v
    <3>1. PICK i \in 1 .. n : ids[i] = v  BY <1>3, <1>4
    <3>2. PICK k \in 1 .. Len(q) : q[k] = i  BY <1>4, <1>6, <3>1
    <3>3. h[k] = v  BY <3>1, <3>2
    <3> HIDE DEF h
    <3>4. QED  BY <3>3
  <2>3. \A k, l \in K : h[k] = h[l] => k = l  BY <1>3, <1>6
  <2>4. IsFiniteSet(K) /\ Cardinality(K) = Len(q)
    <3> DEFINE m == Len(q)
    <3>1. m \in Int /\ m >= 0  BY <1>5
    <3> HIDE DEF m
    <3>2. IsFiniteSet(1 .. m) /\ Cardinality(1 .. m) = IF 1 > m THEN 0 ELSE m - 1 + 1
      BY <3>1, FS_Interval
    <3>3. Cardinality(1 .. m) = m  BY <3>1, <3>2
    <3>4. QED  BY <3>2, <3>3 DEF m
  <2> HIDE DEF h, K
  <2>5. QED  BY <2>1, <2>2, <2>3, <2>4, ImageIs
<1>9. T = {} <=> q = <<>>
  <2>1. CASE q = <<>>
    <3>1. 1 .. Len(q) = {}  BY <2>1
    <3>2. T = {}  BY <1>3, <1>4, <1>6, <3>1
    <3>3. QED  BY <2>1, <3>2
  <2>2. CASE q # <<>>
    <3>1. Len(q) # 0  BY <1>2, <2>2, EmptySeq
    <3>2. 1 \in 1 .. Len(q)  BY <1>5, <3>1
    <3>3. ids[q[1]] \in T  BY <1>3, <1>4, <1>6, <3>2
    <3>4. QED  BY <2>2, <3>3
  <2>3. QED  BY <2>1, <2>2
<1>10. QED  BY <1>5, <1>7, <1>8, <1>9 DEF n, q, p, T

\* What the nodes bring that link to a node is what InSum adds up.
LEMMA InSumIs ==
  ASSUME NEW ids, NEW out, NEW in, NEW links, Listed(ids, out, in, links),
         NEW rank, NEW by, Alike(ids, links, rank, by), NEW t \in 1 .. Len(ids)
  PROVE  Links!InSum(out, rank, in[t])
           = SumFunctionOnSet([u \in Links!Nodes(links) |-> Links!Flow(links, by, u, ids[t])],
                              {u \in Links!Nodes(links) : <<u, ids[t]>> \in links})
PROOF
<1> DEFINE V == Links!Nodes(links)
           n == Len(ids)
           p == in[t]
           A == {u \in V : <<u, ids[t]>> \in links}
           S == 1 .. Len(p)
           f == [k \in DOMAIN p |-> rank[p[k]] \div Len(out[p[k]])]
           flow == [u \in V |-> Links!Flow(links, by, u, ids[t])]
           h == [k \in S |-> ids[p[k]]]
<1>1. /\ DOMAIN p = S /\ Len(p) \in Nat
      /\ \A k \in S : p[k] \in 1 .. n /\ <<ids[p[k]], ids[t]>> \in links
      /\ \A k, l \in S : p[k] = p[l] => k = l
      /\ \A i \in 1 .. n : <<ids[i], ids[t]>> \in links => \E k \in S : p[k] = i
  BY EndsAre
<1>2. /\ \A i \in 1 .. n : ids[i] \in V
      /\ \A i, j \in 1 .. n : ids[i] = ids[j] => i = j
      /\ \A v \in V : \E i \in 1 .. n : ids[i] = v
  BY ListsAre
<1>3. \A i \in 1 .. n : by[ids[i]] = rank[i] /\ rank[i] \in Int  BY DEF Alike
<1>4. IsFiniteSet(S)
  <2> DEFINE m == Len(p)
  <2>1. m \in Int  BY <1>1
  <2> HIDE DEF m
  <2>2. IsFiniteSet(1 .. m)  BY <2>1, FS_Interval
  <2>3. QED  BY <2>2 DEF m
<1>5. ASSUME NEW k \in S PROVE f[k] \in Int /\ h[k] \in A /\ flow[h[k]] = f[k]
  <2> DEFINE i == p[k]
             T == Links!Targets(links, ids[i])
  <2>1. i \in 1 .. n /\ <<ids[i], ids[t]>> \in links /\ ids[i] \in V /\ ids[t] \in V
    BY <1>1, <1>2
  <2>2. ids[t] \in T  BY <2>1 DEF Links!Targets
  <2> HIDE DEF i
  <2>3. Cardinality(T) = Len(out[i]) /\ Len(out[i]) \in Nat
    BY <2>1, EndsAre
  <2>4. Len(out[i]) # 0
    <3>1. IsFiniteSet(T)
      <4>1. IsFiniteSet(V) /\ T \in SUBSET V  BY ListsAre DEF Links!Targets
      <4>2. QED  BY <4>1, FS_Subset
    <3>2. QED  BY <2>2, <2>3, <3>1, FS_EmptySet
  <2>5. Links!Flow(links, by, ids[i], ids[t]) = by[ids[i]] \div Cardinality(T)
    BY <2>2, SameCounts DEF Links!Flow
  <2>6. f[k] = rank[i] \div Len(out[i]) /\ h[k] = ids[i]  BY <1>1 DEF i
  <2>7. rank[i] \div Len(out[i]) \in Int  BY <1>3, <2>1, <2>3, <2>4
  <2>8. flow[ids[i]] = Links!Flow(links, by, ids[i], ids[t])  BY <2>1
  <2>9. ids[i] \in A  BY <2>1
  <2> HIDE DEF f, h, flow, A, T
  <2>10. by[ids[i]] = rank[i]  BY <1>3, <2>1
  <2>11. QED  BY <2>3, <2>5, <2>6, <2>7, <2>8, <2>9, <2>10
<1>6. ASSUME NEW k \in S, NEW l \in S, h[k] = h[l] PROVE k = l
  <2>1. h[k] = ids[p[k]] /\ h[l] = ids[p[l]] /\ p[k] \in 1 .. n /\ p[l] \in 1 .. n  BY <1>1
  <2> HIDE DEF h, p, n, S
  <2>2. p[k] = p[l]  BY <1>2, <1>6, <2>1
  <2>3. QED  BY <1>1, <2>2
<1>7. ASSUME NEW v \in A PROVE \E k \in S : h[k] = v
  <2>1. PICK i \in 1 .. n : ids[i] = v  BY <1>2
  <2>2. PICK k \in S : p[k] = i  BY <1>1, <2>1
  <2>3. h[k] = v  BY <2>1, <2>2
  <2> HIDE DEF h
  <2>4. QED  BY <2>3
<1>8. Links!InSum(out, rank, p) = SumFunctionOnSet(f, S)
  <2>1. Links!InSum(out, rank, p) = Links!SumFunction(f)  BY DEF Links!InSum
  <2>2. DOMAIN f = S  BY <1>1
  <2> HIDE DEF f
  <2>3. QED  BY <2>1, <2>2, SameSums
<1> HIDE DEF f, h, S, A, flow
<1>9. SumFunctionOnSet(f, S) = SumFunctionOnSet(flow, A)
  <2>1. PairsUp(h, S, A)  BY <1>5, <1>6, <1>7 DEF PairsUp
  <2>2. QED  BY <1>4, <1>5, <2>1, SumMoved
<1>10. QED  BY <1>8, <1>9 DEF flow, A

\* What the nodes without links bring is what DanglingSum adds up.
LEMMA DanglingSumIs ==
  ASSUME NEW ids, NEW out, NEW in, NEW links, Listed(ids, out, in, links),
         NEW rank, NEW by, Alike(ids, links, rank, by), NEW v \in Links!Nodes(links)
  PROVE  Links!DanglingSum(out, rank)
           = SumFunctionOnSet([u \in Links!Nodes(links) |-> Links!Flow(links, by, u, v)],
                              {u \in Links!Nodes(links) : Links!Targets(links, u) = {}})
PROOF
<1> DEFINE V == Links!Nodes(links)
           n == Len(ids)
           D == {u \in V : Links!Targets(links, u) = {}}
           S == {i \in DOMAIN rank : out[i] = <<>>}
           f == [i \in DOMAIN rank |-> rank[i] \div Len(rank)]
           flow == [u \in V |-> Links!Flow(links, by, u, v)]
<1>1. /\ n \in Nat \ {0} /\ IsFiniteSet(1 .. n) /\ Cardinality(V) = n
      /\ \A i \in 1 .. n : ids[i] \in V
      /\ \A i, j \in 1 .. n : ids[i] = ids[j] => i = j
      /\ \A u \in V : \E i \in 1 .. n : ids[i] = u
  BY ListsAre
<1>2. /\ rank \in [1 .. n -> Int] /\ DOMAIN rank = 1 .. n
      /\ \A i \in 1 .. n : by[ids[i]] = rank[i] /\ rank[i] \in Int
  BY DEF Alike
<1>3. Len(rank) = n
  <2> HIDE DEF n
  <2>1. rank \in Seq(Int)  BY <1>1, <1>2, SeqDef
  <2>2. QED  BY <1>1, <1>2, <2>1, LenProperties
<1>4. ASSUME NEW i \in 1 .. n PROVE Links!Targets(links, ids[i]) = {} <=> out[i] = <<>>
  <2>1. i \in 1 .. Len(ids) /\ Listed(ids, out, in, links)  OBVIOUS
  <2> HIDE DEF n
  <2>2. QED  BY <2>1, EndsAre
<1> HIDE DEF V, n
<1>5. IsFiniteSet(S) /\ S \subseteq 1 .. n  BY <1>1, <1>2, FS_Subset
<1>6. ASSUME NEW i \in S PROVE f[i] \in Int /\ ids[i] \in D /\ flow[ids[i]] = f[i]
  <2>1. i \in 1 .. n /\ out[i] = <<>>  BY <1>2
  <2>2. Links!Targets(links, ids[i]) = {} /\ ids[i] \in V  BY <1>1, <1>4, <2>1
  <2>3. Links!Flow(links, by, ids[i], v) = by[ids[i]] \div n  BY <1>1, <2>2, SameCounts DEF Links!Flow, V
  <2>4. f[i] = rank[i] \div n  BY <1>2, <1>3, <2>1
  <2>5. rank[i] \div n \in Int  BY <1>1, <1>2, <2>1
  <2>6. flow[ids[i]] = Links!Flow(links, by, ids[i], v)  BY <2>2
  <2>7. ids[i] \in D  BY <2>2
  <2> HIDE DEF f, flow, D
  <2>8. QED  BY <1>2, <2>1, <2>3, <2>4, <2>5, <2>6, <2>7
<1>7. \A i, j \in S : ids[i] = ids[j] => i = j  BY <1>1, <1>5
<1>8. \A u \in D : \E i \in S : ids[i] = u  BY <1>1, <1>2, <1>4
<1>9. Links!DanglingSum(out, rank) = SumFunctionOnSet(f, S)
  BY SameSums DEF Links!DanglingSum
<1> HIDE DEF f, S, D, flow
<1>10. SumFunctionOnSet(f, S) = SumFunctionOnSet(flow, D)
  <2>1. \A i \in S : f[i] \in Int  BY <1>6
  <2>2. \A i \in S : ids[i] \in D /\ flow[ids[i]] = f[i]  BY <1>6
  <2>3. PairsUp(ids, S, D)  BY <1>7, <1>8, <2>2 DEF PairsUp
  <2>4. IsFiniteSet(S)  BY <1>5
  <2>5. QED  BY ONLY <2>1, <2>2, <2>3, <2>4, SumMoved
<1>11. QED  BY <1>9, <1>10 DEF flow, D, V

\* What surfers bring is an integer.
LEMMA FlowType ==
  ASSUME NEW links, IsFiniteSet(Links!Nodes(links)),
         NEW by, by \in [Links!Nodes(links) -> Int], NEW u \in Links!Nodes(links), NEW v
  PROVE  Links!Flow(links, by, u, v) \in Int
PROOF
<1> DEFINE V == Links!Nodes(links)
           T == Links!Targets(links, u)
<1>1. IsFiniteSet(T)
  <2>1. T \in SUBSET V  BY DEF Links!Targets
  <2>2. QED  BY <2>1, FS_Subset
<1>2. Cardinality(V) \in Nat \ {0}
  <2>1. IsFiniteSet(V) /\ V # {}  OBVIOUS
  <2> HIDE DEF V
  <2>2. QED  BY <2>1, FS_CardinalityType, FS_EmptySet
<1>3. T # {} => Cardinality(T) \in Nat \ {0}  BY <1>1, FS_CardinalityType, FS_EmptySet
<1>4. Links!Flow(links, by, u, v)
        = IF T = {} THEN by[u] \div Cardinality(V)
          ELSE IF v \in T THEN by[u] \div Cardinality(T) ELSE 0
  BY SameCounts DEF Links!Flow
<1>5. by[u] \in Int  OBVIOUS
<1> HIDE DEF V, T
<1>6. QED  BY <1>2, <1>3, <1>4, <1>5

\* What comes to a node comes from nodes that link to it and from nodes without links.
LEMMA FlowsAre ==
  ASSUME NEW links, IsFiniteSet(Links!Nodes(links)),
         NEW by, by \in [Links!Nodes(links) -> Int], NEW v \in Links!Nodes(links)
  PROVE  LET V == Links!Nodes(links)
             flow == [u \in V |-> Links!Flow(links, by, u, v)]
         IN Links!SumFunction(flow)
              = SumFunctionOnSet(flow, {u \in V : <<u, v>> \in links})
                + SumFunctionOnSet(flow, {u \in V : Links!Targets(links, u) = {}})
PROOF
<1> DEFINE V == Links!Nodes(links)
           flow == [u \in V |-> Links!Flow(links, by, u, v)]
           A == {u \in V : <<u, v>> \in links}
           D == {u \in V : Links!Targets(links, u) = {}}
<1>1. Links!SumFunction(flow) = SumFunctionOnSet(flow, V)
  <2>1. DOMAIN flow = V  OBVIOUS
  <2> HIDE DEF flow, V
  <2>2. QED  BY <2>1, SameSums
<1>2. \A u \in V : flow[u] \in Int  BY FlowType
<1>3. \A u \in A : Links!Targets(links, u) # {}  BY DEF Links!Targets
<1>4. ASSUME NEW u \in V \ (A \union D) PROVE flow[u] = 0
  <2>1. Links!Targets(links, u) # {} /\ v \notin Links!Targets(links, u)
    BY DEF Links!Targets
  <2>2. Links!Flow(links, by, u, v) = 0  BY <2>1 DEF Links!Flow
  <2>3. QED  BY <2>2
<1>5. A \in SUBSET V /\ D \in SUBSET V /\ A \union D \in SUBSET V /\ A \cap D = {}
  BY <1>3
<1>6. IsFiniteSet(V) /\ IsFiniteSet(A) /\ IsFiniteSet(D)
  <2>1. IsFiniteSet(V)  OBVIOUS
  <2> HIDE DEF V, A, D
  <2>2. QED  BY <1>5, <2>1, FS_Subset
<1> HIDE DEF flow, A, D, V
<1>7. SumFunctionOnSet(flow, V) = SumFunctionOnSet(flow, A \union D)
  BY <1>2, <1>4, <1>5, <1>6, SumLeaves
<1>8. SumFunctionOnSet(flow, A \union D) = SumFunctionOnSet(flow, A) + SumFunctionOnSet(flow, D)
  <2>1. \A u \in A \union D : flow[u] \in Int  BY <1>2, <1>5
  <2>2. QED  BY <1>5, <1>6, <2>1, SumApart
<1>9. Links!SumFunction(flow) = SumFunctionOnSet(flow, A) + SumFunctionOnSet(flow, D)
  BY <1>1, <1>7, <1>8
<1>10. QED  BY <1>9 DEF flow, A, D, V

\* A round over ids is a round over nodes.
LEMMA RoundAlike ==
  ASSUME Links!GraphAssumption,
         NEW ids, NEW out, NEW in, NEW links, Listed(ids, out, in, links),
         NEW rank, NEW by, Alike(ids, links, rank, by)
  PROVE  Alike(ids, links, Links!NextRank(out, in, rank), Links!Surf(links, by))
PROOF
<1> DEFINE V == Links!Nodes(links)
           n == Len(ids)
           tele == ((DampDen - DampNum) * Unit) \div (DampDen * n)
           in1(i) == Links!InSum(out, rank, in[i])
           dang == Links!DanglingSum(out, rank)
           flow(v) == [u \in V |-> Links!Flow(links, by, u, v)]
           all(v) == Links!SumFunction(flow(v))
           new == Links!NextRank(out, in, rank)
           surf == Links!Surf(links, by)
<1>1. /\ n \in Nat \ {0} /\ IsFiniteSet(V) /\ Cardinality(V) = n
      /\ \A i \in 1 .. n : ids[i] \in V
      /\ \A v \in V : \E i \in 1 .. n : ids[i] = v
  BY ListsAre
<1>2. rank \in [1 .. n -> Int] /\ DOMAIN rank = 1 .. n /\ by \in [V -> Int]
  BY DEF Alike
<1>3. DampNum \in Nat /\ DampDen \in Nat \ {0} /\ Unit \in Nat
  BY DEF Links!GraphAssumption
<1>4. Len(rank) = n
  <2> HIDE DEF n
  <2>1. rank \in Seq(Int)  BY <1>1, <1>2, SeqDef
  <2>2. QED  BY <1>1, <1>2, <2>1, LenProperties
<1>5. ASSUME NEW v \in V PROVE all(v) \in Int
  <2>1. \A u \in V : flow(v)[u] \in Int  BY <1>1, <1>2, FlowType
  <2>2. DOMAIN flow(v) = V  OBVIOUS
  <2> HIDE DEF flow
  <2>3. all(v) = SumFunctionOnSet(flow(v), V)  BY <2>2, SameSums
  <2> HIDE DEF all
  <2>4. QED  BY <1>1, <2>1, <2>3, SumType
<1>6. ASSUME NEW i \in 1 .. n PROVE all(ids[i]) = in1(i) + dang
  <2> DEFINE v == ids[i]
             A == {u \in V : <<u, v>> \in links}
             D == {u \in V : Links!Targets(links, u) = {}}
  <2>1. v \in V  BY <1>1
  <2>2. all(v) = SumFunctionOnSet(flow(v), A) + SumFunctionOnSet(flow(v), D)
    <3>1. IsFiniteSet(V) /\ by \in [V -> Int] /\ v \in V  BY <1>1, <1>2, <2>1
    <3> HIDE DEF v
    <3>2. QED  BY ONLY <3>1, FlowsAre
  <2>3. in1(i) = SumFunctionOnSet(flow(v), A)  BY InSumIs
  <2>4. dang = SumFunctionOnSet(flow(v), D)
    <3>1. Listed(ids, out, in, links) /\ Alike(ids, links, rank, by)  OBVIOUS
    <3> HIDE DEF v
    <3>2. QED  BY ONLY <2>1, <3>1, DanglingSumIs
  <2> HIDE DEF all, in1, dang, flow, A, D
  <2>5. QED  BY <2>2, <2>3, <2>4
<1>7. new = [i \in 1 .. n |-> tele + (DampNum * (in1(i) + dang)) \div DampDen]
  BY <1>2, <1>4 DEF Links!NextRank
<1>8. surf = [v \in V |-> tele + (DampNum * all(v)) \div DampDen]
  BY <1>1, SameCounts DEF Links!Surf
<1>9. tele \in Int
  <2>1. DampDen * n \in Nat \ {0}  BY <1>1, <1>3
  <2>2. (DampDen - DampNum) * Unit \in Int  BY <1>3
  <2> HIDE DEF n
  <2>3. QED  BY <2>1, <2>2
<1> HIDE DEF tele, in1, dang, all, new, surf, V, n
<1>10. ASSUME NEW v \in V PROVE tele + (DampNum * all(v)) \div DampDen \in Int
  <2>1. DampNum * all(v) \in Int  BY <1>3, <1>5
  <2>2. QED  BY <1>3, <1>9, <2>1
<1>11. surf \in [V -> Int]  BY <1>8, <1>10
<1>12. ASSUME NEW i \in 1 .. n PROVE surf[ids[i]] = new[i]
  <2>1. ids[i] \in V  BY <1>1
  <2>2. surf[ids[i]] = tele + (DampNum * all(ids[i])) \div DampDen  BY <1>8, <2>1
  <2>3. new[i] = tele + (DampNum * (in1(i) + dang)) \div DampDen  BY <1>7
  <2>4. QED  BY <1>6, <2>2, <2>3
<1>13. new \in [1 .. n -> Int]
  <2>1. DOMAIN new = 1 .. n /\ new = [i \in 1 .. n |-> new[i]]  BY <1>7
  <2>2. \A i \in 1 .. n : new[i] \in Int  BY <1>1, <1>11, <1>12
  <2>3. QED  BY <2>1, <2>2
<1>14. QED  BY <1>11, <1>12, <1>13 DEF Alike, V, n, new, surf

\* And changes as much.
LEMMA DeltaAlike ==
  ASSUME NEW ids, NEW out, NEW in, NEW links, Listed(ids, out, in, links),
         NEW rank, NEW by, Alike(ids, links, rank, by),
         NEW new, NEW surf, Alike(ids, links, new, surf)
  PROVE  Links!Delta(rank, new) = Links!Delta(by, surf)
PROOF
<1> DEFINE V == Links!Nodes(links)
           S == 1 .. Len(ids)
           f == [i \in DOMAIN rank |-> IF new[i] > rank[i] THEN new[i] - rank[i] ELSE rank[i] - new[i]]
           g == [v \in DOMAIN by |-> IF surf[v] > by[v] THEN surf[v] - by[v] ELSE by[v] - surf[v]]
<1>1. /\ IsFiniteSet(S) /\ PairsUp(ids, S, V)
  BY ListsAre DEF PairsUp
<1>2. /\ DOMAIN rank = S /\ DOMAIN by = V
      /\ \A i \in S : rank[i] \in Int /\ by[ids[i]] = rank[i]
      /\ \A i \in S : new[i] \in Int /\ surf[ids[i]] = new[i]
  BY DEF Alike
<1>3. ASSUME NEW i \in S PROVE f[i] \in Int /\ g[ids[i]] = f[i]
  <2>1. ids[i] \in V  BY <1>1 DEF PairsUp
  <2> HIDE DEF V, S
  <2>2. f[i] = IF new[i] > rank[i] THEN new[i] - rank[i] ELSE rank[i] - new[i]  BY <1>2
  <2>3. g[ids[i]] = IF surf[ids[i]] > by[ids[i]] THEN surf[ids[i]] - by[ids[i]]
                    ELSE by[ids[i]] - surf[ids[i]]
    BY <1>2, <2>1
  <2> HIDE DEF f, g
  <2>4. QED  BY <1>2, <2>2, <2>3
<1>4. DOMAIN f = S /\ DOMAIN g = V  BY <1>2
<1>5. Links!Delta(rank, new) = Links!SumFunction(f) /\ Links!Delta(by, surf) = Links!SumFunction(g)
  BY DEF Links!Delta
<1> HIDE DEF f, g, S, V
<1>6. SumFunctionOnSet(f, S) = SumFunctionOnSet(g, V)  BY <1>1, <1>3, SumMoved
<1>7. QED  BY <1>4, <1>5, <1>6, SameSums

\* What RankOf starts from, and what a round makes of the round before.
FirstSurf(links) ==
  [rank |-> [v \in Links!Nodes(links) |-> Unit \div Links!Cardinality(Links!Nodes(links))],
   over |-> FALSE]
NextSurf(links, last) ==
  IF last.over THEN last
  ELSE [rank |-> Links!Surf(links, last.rank),
        over |-> Links!Delta(last.rank, Links!Surf(links, last.rank)) < Tolerance]

\* after of RankOf, up to n.
Surfed(links, n, f) ==
  f = [i \in 0 .. n |-> IF i = 0 THEN FirstSurf(links) ELSE NextSurf(links, f[i - 1])]

\* There is such a function, for any number of rounds.
LEMMA SurfedExists == ASSUME NEW links, NEW n \in Nat PROVE \E f : Surfed(links, n, f)
PROOF
<1> DEFINE P == {m \in Nat : \E f : Surfed(links, m, f)}
<1>1. 0 \in P
  <2> DEFINE f == [i \in 0 .. 0 |-> FirstSurf(links)]
  <2>1. Surfed(links, 0, f)  BY DEF Surfed
  <2>2. QED  BY <2>1
<1>2. ASSUME NEW m \in P PROVE m + 1 \in P
  <2>1. PICK f : Surfed(links, m, f)  OBVIOUS
  <2> DEFINE x == NextSurf(links, f[m])
             g == [i \in 0 .. m + 1 |-> IF i = m + 1 THEN x ELSE f[i]]
  <2>2. \A i \in 0 .. m : f[i] = IF i = 0 THEN FirstSurf(links) ELSE NextSurf(links, f[i - 1])
    BY <2>1 DEF Surfed
  <2>3. m \in Nat  OBVIOUS
  <2>4. ASSUME NEW i \in 0 .. m + 1
        PROVE  g[i] = IF i = 0 THEN FirstSurf(links) ELSE NextSurf(links, g[i - 1])
    <3>1. CASE i = 0  BY <2>2, <2>3, <3>1
    <3>2. CASE i = m + 1
      <4>1. g[i] = x /\ g[i - 1] = f[m] /\ i # 0  BY <2>3, <3>2
      <4> HIDE DEF g
      <4>2. QED  BY <3>2, <4>1
    <3>3. CASE i # 0 /\ i # m + 1
      <4>1. i \in 0 .. m /\ i - 1 \in 0 .. m /\ i - 1 # m + 1  BY <2>3, <3>3
      <4>2. g[i] = f[i] /\ g[i - 1] = f[i - 1]  BY <2>3, <3>3, <4>1
      <4> HIDE DEF g
      <4>3. QED  BY <2>2, <3>3, <4>1, <4>2
    <3>4. QED  BY <3>1, <3>2, <3>3
  <2>5. g = [i \in 0 .. m + 1 |-> g[i]]  OBVIOUS
  <2>6. Surfed(links, m + 1, g)
    <3> HIDE DEF g
    <3>1. QED  BY <2>4, <2>5 DEF Surfed
  <2>7. QED  BY <2>3, <2>6
<1>3. P = Nat
  <2>1. P \in SUBSET Nat  OBVIOUS
  <2> HIDE DEF P
  <2>2. QED  BY <1>1, <1>2, <2>1, SetInduction
<1>4. QED  BY <1>3

\* And the rounds of RankOf.
LEMMA RoundsOf ==
  ASSUME NEW links, Iterations \in Nat
  PROVE  \E f : /\ Links!RankOf(links) = f[Iterations].rank
                /\ f[0] = FirstSurf(links)
                /\ \A i \in 1 .. Iterations : f[i] = NextSurf(links, f[i - 1])
PROOF
<1> DEFINE c == CHOOSE f : Surfed(links, Iterations, f)
<1>1. Surfed(links, Iterations, c)  BY SurfedExists
<1>2. Links!RankOf(links) = c[Iterations].rank
  BY DEF Links!RankOf, Surfed, FirstSurf, NextSurf
<1> HIDE DEF c
<1>3. \A i \in 0 .. Iterations : c[i] = IF i = 0 THEN FirstSurf(links) ELSE NextSurf(links, c[i - 1])
  BY <1>1 DEF Surfed
<1>4. 0 \in 0 .. Iterations /\ \A i \in 1 .. Iterations : i \in 0 .. Iterations /\ i # 0
  OBVIOUS
<1>5. c[0] = FirstSurf(links) /\ \A i \in 1 .. Iterations : c[i] = NextSurf(links, c[i - 1])
  BY <1>3, <1>4
<1>6. QED  BY <1>2, <1>5

\* PageRank over ids and lists is PageRank of the links that they are.
LEMMA RanksAlike ==
  ASSUME Links!GraphAssumption,
         NEW ids, NEW out, NEW in, NEW links, Listed(ids, out, in, links)
  PROVE  Alike(ids, links, Links!PageRank(ids, out, in), Links!RankOf(links))
PROOF
<1>1. Iterations \in Nat /\ Unit \in Nat  BY DEF Links!GraphAssumption
<1>2. PICK f : /\ Links!PageRank(ids, out, in) = f[Iterations].rank
               /\ f[0] = FirstRound(ids)
               /\ \A i \in 1 .. Iterations : f[i] = NextRound(out, in, f[i - 1])
  BY <1>1, RoundsRanked
<1>3. PICK h : /\ Links!RankOf(links) = h[Iterations].rank
               /\ h[0] = FirstSurf(links)
               /\ \A i \in 1 .. Iterations : h[i] = NextSurf(links, h[i - 1])
  BY <1>1, RoundsOf
<1> DEFINE Same(n) == Alike(ids, links, f[n].rank, h[n].rank) /\ f[n].over = h[n].over
           P == {n \in Nat : n <= Iterations => Same(n)}
<1>4. 0 \in P
  <2> DEFINE n == Len(ids)
             V == Links!Nodes(links)
  <2>1. /\ n \in Nat \ {0} /\ DOMAIN ids = 1 .. n /\ Links!Cardinality(V) = n
        /\ \A i \in 1 .. n : ids[i] \in V
    BY ListsAre, SameCounts
  <2>2. /\ f[0].rank = [i \in 1 .. n |-> Unit \div n] /\ h[0].rank = [v \in V |-> Unit \div n]
        /\ f[0].over = FALSE /\ h[0].over = FALSE
    BY <1>2, <1>3, <2>1 DEF FirstRound, FirstSurf
  <2> HIDE DEF n, V
  <2>3. Unit \div n \in Int  BY <1>1, <2>1
  <2>4. Alike(ids, links, f[0].rank, h[0].rank)  BY <2>1, <2>2, <2>3 DEF Alike, n, V
  <2>5. QED  BY <2>2, <2>4
<1>5. ASSUME NEW n \in P PROVE n + 1 \in P
  <2> SUFFICES ASSUME n + 1 <= Iterations PROVE Same(n + 1)  OBVIOUS
  <2> DEFINE rank == f[n].rank
             by == h[n].rank
             new == Links!NextRank(out, in, rank)
             surf == Links!Surf(links, by)
  <2>1. n \in Nat /\ n <= Iterations /\ n + 1 \in 1 .. Iterations /\ n + 1 - 1 = n
    BY <1>1
  <2>2. Alike(ids, links, rank, by) /\ f[n].over = h[n].over  BY <2>1
  <2>3. f[n + 1] = NextRound(out, in, f[n]) /\ h[n + 1] = NextSurf(links, h[n])
    BY <1>2, <1>3, <2>1
  <2> HIDE DEF rank, by
  <2>4. Alike(ids, links, new, surf)  BY <2>2, RoundAlike
  <2> HIDE DEF new, surf
  <2>5. Links!Delta(rank, new) = Links!Delta(by, surf)  BY <2>2, <2>4, DeltaAlike
  <2>6. CASE f[n].over
    <3>1. f[n + 1] = f[n] /\ h[n + 1] = h[n]  BY <2>2, <2>3, <2>6 DEF NextRound, NextSurf
    <3>2. QED  BY <2>2, <3>1 DEF rank, by
  <2>7. CASE ~f[n].over
    <3>1. /\ f[n + 1] = [rank |-> new, over |-> Links!Delta(rank, new) < Tolerance]
          /\ h[n + 1] = [rank |-> surf, over |-> Links!Delta(by, surf) < Tolerance]
      BY <2>2, <2>3, <2>7 DEF NextRound, NextSurf, new, surf, rank, by
    <3>2. /\ f[n + 1].rank = new /\ h[n + 1].rank = surf
          /\ f[n + 1].over = (Links!Delta(rank, new) < Tolerance)
          /\ h[n + 1].over = (Links!Delta(by, surf) < Tolerance)
      BY <3>1
    <3>3. QED  BY <2>4, <2>5, <3>2
  <2>8. QED  BY <2>6, <2>7
<1>6. P = Nat
  <2>1. P \in SUBSET Nat  OBVIOUS
  <2> HIDE DEF P
  <2>2. QED  BY <1>4, <1>5, <2>1, SetInduction
<1>7. Same(Iterations)
  <2>1. Iterations \in P
    <3> HIDE DEF P
    <3>1. QED  BY <1>1, <1>6
  <2>2. Iterations <= Iterations  BY <1>1
  <2> HIDE DEF Same
  <2>3. QED  BY <2>1, <2>2
<1>8. QED  BY <1>2, <1>3, <1>7

\* m can be shared out evenly among any number up to n.
Even(m, n) == m \in Nat /\ \A k \in 1 .. n : m % k = 0

\* What a factor divides is a multiple of the other.
LEMMA MultipleOf ==
  ASSUME NEW c \in Int, NEW d \in Int, NEW a \in Int, Multiple(a, c * d)
  PROVE  Multiple(a, d)
PROOF
<1>1. PICK q \in Int : a = (c * d) * q  BY DEF Multiple
<1>2. a = d * (c * q) /\ c * q \in Int  BY <1>1
<1>3. QED  BY <1>2 DEF Multiple

\* The numbers of nodes that a surfer chooses from.
LEMMA ChoicesAre ==
  ASSUME NEW links, IsFiniteSet(Links!Nodes(links)), NEW u \in Links!Nodes(links)
  PROVE  LET V == Links!Nodes(links)
             T == Links!Targets(links, u)
         IN /\ Cardinality(V) \in Nat \ {0}
            /\ T \in SUBSET V /\ IsFiniteSet(T)
            /\ Cardinality(T) \in 0 .. Cardinality(V)
            /\ T # {} => Cardinality(T) # 0
PROOF
<1> DEFINE V == Links!Nodes(links)
           T == Links!Targets(links, u)
<1>1. T \in SUBSET V  BY DEF Links!Targets
<1>2. IsFiniteSet(V) /\ V # {}  OBVIOUS
<1> HIDE DEF V, T
<1>3. IsFiniteSet(T) /\ Cardinality(T) <= Cardinality(V)  BY <1>1, <1>2, FS_Subset
<1>4. Cardinality(V) \in Nat /\ Cardinality(T) \in Nat  BY <1>2, <1>3, FS_CardinalityType
<1>5. Cardinality(V) # 0  BY <1>2, FS_EmptySet
<1>6. T # {} => Cardinality(T) # 0  BY <1>3, FS_EmptySet
<1>7. Cardinality(T) \in 0 .. Cardinality(V)  BY <1>3, <1>4
<1>8. QED  BY <1>1, <1>3, <1>4, <1>5, <1>6, <1>7 DEF V, T

\* The surfers on a node all go somewhere, if they can be shared out evenly.
LEMMA FlowOut ==
  ASSUME NEW links, IsFiniteSet(Links!Nodes(links)), NEW u \in Links!Nodes(links),
         NEW m, Even(m, Cardinality(Links!Nodes(links))), NEW d \in Int,
         NEW by, by[u] \in Int, Multiple(by[u], m * d)
  PROVE  LET V == Links!Nodes(links)
         IN /\ \A v \in V : /\ Links!Flow(links, by, u, v) \in Int
                            /\ Multiple(Links!Flow(links, by, u, v), d)
            /\ SumFunctionOnSet([v \in V |-> Links!Flow(links, by, u, v)], V) = by[u]
PROOF
<1> DEFINE V == Links!Nodes(links)
           T == Links!Targets(links, u)
           a == by[u]
           f == [v \in V |-> Links!Flow(links, by, u, v)]
<1>1. /\ Cardinality(V) \in Nat \ {0}
      /\ T \in SUBSET V /\ IsFiniteSet(T)
      /\ Cardinality(T) \in 0 .. Cardinality(V)
      /\ T # {} => Cardinality(T) # 0
  BY ChoicesAre
<1>2. m \in Nat /\ \A k \in 1 .. Cardinality(V) : m % k = 0  BY DEF Even
<1>3. a \in Int /\ Multiple(a, m * d) /\ IsFiniteSet(V)  OBVIOUS
<1>4. \A v \in V : f[v] = IF T = {} THEN a \div Cardinality(V)
                          ELSE IF v \in T THEN a \div Cardinality(T) ELSE 0
  BY SameCounts DEF Links!Flow
<1>5. \A v \in V : f[v] = Links!Flow(links, by, u, v)  OBVIOUS
<1> HIDE DEF f, V, T, a
<1> SUFFICES /\ \A v \in V : f[v] \in Int /\ Multiple(f[v], d)
             /\ SumFunctionOnSet(f, V) = a
  BY <1>5 DEF f, V, a
<1>6. CASE T = {}
  <2> DEFINE k == Cardinality(V)
  <2>1. k \in Nat \ {0} /\ m % k = 0  BY <1>1, <1>2
  <2> HIDE DEF k
  <2>2. a \div k \in Int /\ k * (a \div k) = a /\ Multiple(a \div k, d)
    BY <1>2, <1>3, <2>1, SharedOut
  <2>3. \A v \in V : f[v] = a \div k  BY <1>4, <1>6 DEF k
  <2>4. SumFunctionOnSet(f, V) = Cardinality(V) * (a \div k)
    BY <1>3, <2>2, <2>3, SumConstant
  <2>5. QED  BY <2>2, <2>3, <2>4 DEF k
<1>7. CASE T # {}
  <2> DEFINE k == Cardinality(T)
  <2>1. k \in Nat \ {0} /\ m % k = 0  BY <1>1, <1>2, <1>7
  <2> HIDE DEF k
  <2>2. a \div k \in Int /\ k * (a \div k) = a /\ Multiple(a \div k, d)
    BY <1>2, <1>3, <2>1, SharedOut
  <2>3. /\ \A v \in T : f[v] = a \div k
        /\ \A v \in V \ T : f[v] = 0
    BY <1>1, <1>4, <1>7 DEF k
  <2>4. Multiple(0, d)  BY <2>2, MultipleIs
  <2>5. \A v \in V : f[v] \in Int /\ Multiple(f[v], d)
    <3>1. ASSUME NEW v \in V PROVE f[v] \in Int /\ Multiple(f[v], d)
      <4>1. CASE v \in T  BY <2>2, <2>3, <4>1
      <4>2. CASE v \notin T
        <5>1. f[v] = 0  BY <2>3, <4>2
        <5>2. QED  BY <2>4, <5>1
      <4>3. QED  BY <4>1, <4>2
    <3>2. QED  BY <3>1
  <2>6. SumFunctionOnSet(f, V) = SumFunctionOnSet(f, T)
    BY <1>1, <1>3, <2>3, <2>5, SumLeaves
  <2>7. SumFunctionOnSet(f, T) = Cardinality(T) * (a \div k)
    BY <1>1, <2>2, <2>3, SumConstant
  <2>8. QED  BY <2>2, <2>5, <2>6, <2>7 DEF k
<1>8. QED  BY <1>6, <1>7

\* The ranks are the whole mass, in parts of d.
Whole(links, by, d) ==
  /\ by \in [Links!Nodes(links) -> Int]
  /\ \A u \in Links!Nodes(links) : Multiple(by[u], d)
  /\ SumFunctionOnSet(by, Links!Nodes(links)) = Unit

\* The surfers that come in at all nodes are those that were on any.
LEMMA FlowsWhole ==
  ASSUME NEW links, IsFiniteSet(Links!Nodes(links)),
         NEW m, Even(m, Cardinality(Links!Nodes(links))), NEW d \in Int,
         NEW by, Whole(links, by, m * d)
  PROVE  LET V == Links!Nodes(links)
             all == [v \in V |-> Links!SumFunction([u \in V |-> Links!Flow(links, by, u, v)])]
         IN Whole(links, all, d)
PROOF
<1> DEFINE V == Links!Nodes(links)
           F == [u \in V |-> [v \in V |-> Links!Flow(links, by, u, v)]]
           row(u) == [v \in V |-> F[u][v]]
           col(v) == [u \in V |-> F[u][v]]
           rows == [u \in V |-> SumFunctionOnSet(row(u), V)]
           cols == [v \in V |-> SumFunctionOnSet(col(v), V)]
           all == [v \in V |-> Links!SumFunction([u \in V |-> Links!Flow(links, by, u, v)])]
<1>1. IsFiniteSet(V)  OBVIOUS
<1>2. /\ by \in [V -> Int] /\ \A u \in V : by[u] \in Int /\ Multiple(by[u], m * d)
      /\ SumFunctionOnSet(by, V) = Unit
  BY DEF Whole
<1>3. ASSUME NEW u \in V
      PROVE  /\ \A v \in V : F[u][v] \in Int /\ Multiple(F[u][v], d)
             /\ rows[u] = by[u]
  <2>1. by[u] \in Int /\ Multiple(by[u], m * d)  BY <1>2
  <2>2. /\ \A v \in V : /\ Links!Flow(links, by, u, v) \in Int
                        /\ Multiple(Links!Flow(links, by, u, v), d)
        /\ SumFunctionOnSet([v \in V |-> Links!Flow(links, by, u, v)], V) = by[u]
    BY <2>1, FlowOut
  <2>3. \A v \in V : F[u][v] = Links!Flow(links, by, u, v)  OBVIOUS
  <2>4. row(u) = [v \in V |-> Links!Flow(links, by, u, v)]  OBVIOUS
  <2>5. rows[u] = SumFunctionOnSet(row(u), V)  OBVIOUS
  <2>6. QED  BY ONLY <2>2, <2>3, <2>4, <2>5
<1>4. \A v \in V : col(v) = [u \in V |-> Links!Flow(links, by, u, v)] /\ DOMAIN col(v) = V
  OBVIOUS
<1>5. ASSUME NEW v \in V PROVE all[v] = cols[v]
  <2>1. all[v] = Links!SumFunction(col(v))  BY <1>4
  <2>2. cols[v] = SumFunctionOnSet(col(v), V) /\ DOMAIN col(v) = V  OBVIOUS
  <2> HIDE DEF all, cols, col
  <2>3. QED  BY <2>1, <2>2, SameSums
<1>6. ASSUME NEW v \in V PROVE cols[v] \in Int /\ Multiple(cols[v], d)
  <2>1. \A u \in V : col(v)[u] = F[u][v]  OBVIOUS
  <2>2. cols[v] = SumFunctionOnSet(col(v), V)  OBVIOUS
  <2>3. \A u \in V : F[u][v] \in Int /\ Multiple(F[u][v], d)  BY <1>3
  <2> HIDE DEF col, F, cols
  <2>4. \A u \in V : col(v)[u] \in Int /\ Multiple(col(v)[u], d)  BY <2>1, <2>3
  <2>5. SumFunctionOnSet(col(v), V) \in Int  BY <1>1, <2>4, SumType
  <2>6. Multiple(SumFunctionOnSet(col(v), V), d)  BY <1>1, <2>4, SumMultiple
  <2>7. QED  BY <2>2, <2>5, <2>6
<1>7. SumFunctionOnSet(rows, V) = SumFunctionOnSet(cols, V)
  <2>1. \A u \in V, v \in V : F[u][v] \in Int  BY <1>3
  <2> HIDE DEF F, V
  <2>2. SumFunctionOnSet([u \in V |-> SumFunctionOnSet([v \in V |-> F[u][v]], V)], V)
          = SumFunctionOnSet([v \in V |-> SumFunctionOnSet([u \in V |-> F[u][v]], V)], V)
    BY ONLY <1>1, <2>1, SumSwaps
  <2>3. QED  BY ONLY <2>2 DEF rows, cols, row, col
<1>8. all = cols
  <2>1. all = [v \in V |-> all[v]] /\ cols = [v \in V |-> cols[v]]  OBVIOUS
  <2> HIDE DEF all, cols
  <2>2. QED  BY <1>5, <2>1
<1>9. cols = [v \in V |-> cols[v]]  OBVIOUS
<1> HIDE DEF rows, cols, all
<1>10. SumFunctionOnSet(rows, V) = SumFunctionOnSet(by, V)  BY <1>1, <1>3, SumSame
<1>11. cols \in [V -> Int]  BY <1>6, <1>9
<1>12. Whole(links, all, d)  BY <1>2, <1>6, <1>7, <1>8, <1>10, <1>11 DEF Whole
<1>13. QED  BY <1>12 DEF all

\* A round loses nothing.
LEMMA SurfWhole ==
  ASSUME Links!GraphAssumption,
         NEW links, IsFiniteSet(Links!Nodes(links)), Links!Nodes(links) # {},
         NEW m, Even(m, Cardinality(Links!Nodes(links))), NEW e \in Int,
         Multiple(Unit, m * (DampDen * e)),
         NEW by, Whole(links, by, m * (DampDen * e))
  PROVE  Whole(links, Links!Surf(links, by), e)
PROOF
<1> DEFINE V == Links!Nodes(links)
           n == Cardinality(V)
           D == DampDen
           c == DampNum
           U == Unit
           all == [v \in V |-> Links!SumFunction([u \in V |-> Links!Flow(links, by, u, v)])]
           tele == ((D - c) * U) \div (D * n)
           surf == Links!Surf(links, by)
<1>1. D \in Nat \ {0} /\ c \in Nat /\ U \in Int  BY DEF Links!GraphAssumption
<1>2. IsFiniteSet(V) /\ Even(m, n) /\ m \in Nat  BY DEF Even
<1>3. n \in Nat \ {0} /\ m % n = 0
  <2>1. n \in Nat /\ n # 0
    <3> HIDE DEF V
    <3>1. QED  BY FS_CardinalityType, FS_EmptySet DEF V
  <2> HIDE DEF n
  <2>2. n \in 1 .. n  BY <2>1
  <2>3. QED  BY <1>2, <2>1, <2>2 DEF Even
<1>4. D * e \in Int  BY <1>1
<1>5. Whole(links, all, D * e)  BY <1>2, <1>4, FlowsWhole
<1>6. /\ DOMAIN all = V
      /\ \A v \in V : all[v] \in Int /\ Multiple(all[v], D * e)
      /\ SumFunctionOnSet(all, V) = U
  BY <1>5 DEF Whole
<1>7. surf = [v \in V |-> tele + (c * all[v]) \div D]  BY SameCounts DEF Links!Surf
<1>8. Multiple(U, m * (D * e))  OBVIOUS
<1> HIDE DEF V, n, all, surf, D, c, U
<1>9. PICK w \in Int : U = D * (n * w) /\ Multiple(w, e)
  <2>1. n * (U \div n) = U /\ Multiple(U \div n, D * e)
    BY <1>1, <1>2, <1>3, <1>4, <1>8, SharedOut
  <2>2. PICK q \in Int : U \div n = (D * e) * q  BY <2>1 DEF Multiple
  <2>3. n * ((D * e) * q) = D * (n * (e * q)) /\ e * q \in Int  BY <1>1, <1>3
  <2>4. Multiple(e * q, e)  BY DEF Multiple
  <2>5. QED  BY <2>1, <2>2, <2>3, <2>4
<1>10. tele = (D - c) * w
  <2>1. (D - c) * (D * (n * w)) = (D * n) * ((D - c) * w)  BY <1>1, <1>3
  <2>2. D * n \in Nat \ {0} /\ (D - c) * w \in Int  BY <1>1, <1>3
  <2> DEFINE k == D * n
             q == (D - c) * w
  <2> HIDE DEF k, q
  <2>3. (k * q) \div k = q  BY <2>2, DivExact DEF k, q
  <2>4. QED  BY <1>9, <2>1, <2>3 DEF k, q
<1> HIDE DEF tele
<1> DEFINE x == [v \in V |-> all[v] \div D]
<1>11. ASSUME NEW v \in V
       PROVE  /\ x[v] \in Int /\ all[v] = D * x[v] /\ Multiple(x[v], e)
              /\ (c * all[v]) \div D = c * x[v]
  <2>1. PICK q \in Int : all[v] = (D * e) * q  BY <1>6 DEF Multiple
  <2> DEFINE y == e * q
  <2>2. y \in Int /\ Multiple(y, e)  BY DEF Multiple
  <2>3. all[v] = D * y  BY <1>1, <2>1
  <2>4. c * all[v] = D * (c * y) /\ c * y \in Int
    <3> HIDE DEF y
    <3>1. QED  BY <1>1, <2>2, <2>3
  <2> HIDE DEF y
  <2>5. all[v] \div D = y  BY <1>1, <2>2, <2>3, DivExact
  <2> DEFINE z == c * y
  <2>6. z \in Int /\ c * all[v] = D * z  BY <2>4
  <2> HIDE DEF z
  <2>7. (c * all[v]) \div D = z  BY <1>1, <2>6, DivExact
  <2>8. x[v] = y  BY <2>5
  <2> HIDE DEF x
  <2>9. QED  BY <2>2, <2>3, <2>7, <2>8 DEF z
<1> HIDE DEF x
<1>12. \A v \in V : surf[v] = (D - c) * w + c * x[v]  BY <1>7, <1>10, <1>11
<1>13. SumFunctionOnSet(x, V) \in Int /\ SumFunctionOnSet(x, V) = n * w
  <2> DEFINE s == SumFunctionOnSet(x, V)
  <2>1. SumFunctionOnSet(all, V) = D * s  BY <1>1, <1>2, <1>11, SumTimes
  <2>2. s \in Int  BY <1>2, <1>11, SumType
  <2> HIDE DEF s
  <2>3. D * s = D * (n * w) /\ n * w \in Int  BY <1>3, <1>6, <1>9, <2>1
  <2> DEFINE t == n * w
  <2> HIDE DEF t
  <2>4. s = t  BY <1>1, <2>2, <2>3, Cancel DEF t
  <2>5. QED  BY <2>2, <2>4 DEF s, t
<1>14. SumFunctionOnSet(surf, V) = U
  <2> DEFINE k == (D - c) * w
             a == [v \in V |-> k]
             b == [v \in V |-> c * x[v]]
  <2>1. k \in Int  BY <1>1
  <2>2. \A v \in V : a[v] = k  OBVIOUS
  <2>3. \A v \in V : x[v] \in Int /\ b[v] = c * x[v]  BY <1>11
  <2>4. \A v \in V : surf[v] = a[v] + b[v]  BY <1>12
  <2> HIDE DEF k, a, b
  <2>5. SumFunctionOnSet(a, V) = n * k  BY <1>2, <2>1, <2>2, SumConstant DEF n
  <2>6. SumFunctionOnSet(b, V) = c * (n * w)  BY <1>1, <1>2, <1>13, <2>3, SumTimes
  <2>7. \A v \in V : a[v] \in Int /\ b[v] \in Int  BY <1>1, <2>1, <2>2, <2>3
  <2>8. SumFunctionOnSet(surf, V) = SumFunctionOnSet(a, V) + SumFunctionOnSet(b, V)
    BY <1>2, <2>4, <2>7, SumPlus
  <2>9. n * ((D - c) * w) + c * (n * w) = D * (n * w)  BY <1>1, <1>3
  <2>10. QED  BY <1>9, <2>5, <2>6, <2>8, <2>9 DEF k
<1>15. ASSUME NEW v \in V PROVE surf[v] \in Int /\ Multiple(surf[v], e)
  <2> DEFINE k == (D - c) * w
             z == c * x[v]
  <2>1. D - c \in Int /\ c \in Int /\ x[v] \in Int /\ Multiple(x[v], e)  BY <1>1, <1>11
  <2>2. k \in Int /\ z \in Int  BY <2>1
  <2>3. Multiple(k, e)  BY <1>9, <2>1, MultipleIs
  <2>4. Multiple(z, e)  BY <2>1, MultipleIs
  <2>5. surf[v] = k + z  BY <1>12
  <2> HIDE DEF k, z
  <2>6. Multiple(k + z, e)  BY <2>2, <2>3, <2>4, MultipleIs
  <2>7. QED  BY <2>2, <2>5, <2>6
<1>16. surf \in [V -> Int]
  <2>1. surf = [v \in V |-> surf[v]]  BY <1>7
  <2>2. QED  BY <1>15, <2>1
<1>17. QED  BY <1>14, <1>15, <1>16 DEF Whole, surf, V, U

\* parts of UnitIsDivisible, up to n.
Parted(m, n, f) == f = [i \in 0 .. n |-> IF i = 0 THEN 1 ELSE m * DampDen * f[i - 1]]

\* There is such a function, for any number of rounds.
LEMMA PartedExists == ASSUME NEW m, NEW n \in Nat PROVE \E f : Parted(m, n, f)
PROOF
<1> DEFINE P == {k \in Nat : \E f : Parted(m, k, f)}
<1>1. 0 \in P
  <2> DEFINE f == [i \in 0 .. 0 |-> 1]
  <2>1. Parted(m, 0, f)  BY DEF Parted
  <2>2. QED  BY <2>1
<1>2. ASSUME NEW k \in P PROVE k + 1 \in P
  <2>1. PICK f : Parted(m, k, f)  OBVIOUS
  <2> DEFINE x == m * DampDen * f[k]
             g == [i \in 0 .. k + 1 |-> IF i = k + 1 THEN x ELSE f[i]]
  <2>2. \A i \in 0 .. k : f[i] = IF i = 0 THEN 1 ELSE m * DampDen * f[i - 1]
    BY <2>1 DEF Parted
  <2>3. k \in Nat  OBVIOUS
  <2>4. ASSUME NEW i \in 0 .. k + 1
        PROVE  g[i] = IF i = 0 THEN 1 ELSE m * DampDen * g[i - 1]
    <3>1. CASE i = 0
      <4>1. 0 \in 0 .. k /\ 0 # k + 1 /\ 0 \in 0 .. k + 1  BY <2>3
      <4>2. g[0] = f[0]  BY <4>1
      <4> HIDE DEF g
      <4>3. QED  BY <2>2, <3>1, <4>1, <4>2
    <3>2. CASE i = k + 1
      <4>1. g[i] = x /\ g[i - 1] = f[k] /\ i # 0  BY <2>3, <3>2
      <4> HIDE DEF g
      <4>2. QED  BY <3>2, <4>1
    <3>3. CASE i # 0 /\ i # k + 1
      <4>1. i \in 0 .. k /\ i - 1 \in 0 .. k /\ i - 1 # k + 1  BY <2>3, <3>3
      <4>2. g[i] = f[i] /\ g[i - 1] = f[i - 1]  BY <2>3, <3>3, <4>1
      <4> HIDE DEF g
      <4>3. QED  BY <2>2, <3>3, <4>1, <4>2
    <3>4. QED  BY <3>1, <3>2, <3>3
  <2>5. g = [i \in 0 .. k + 1 |-> g[i]]  OBVIOUS
  <2>6. Parted(m, k + 1, g)
    <3> HIDE DEF g
    <3>1. QED  BY <2>4, <2>5 DEF Parted
  <2>7. QED  BY <2>3, <2>6
<1>3. P = Nat
  <2>1. P \in SUBSET Nat  OBVIOUS
  <2> HIDE DEF P
  <2>2. QED  BY <1>1, <1>2, <2>1, SetInduction
<1>4. QED  BY <1>3

\* The parts that Unit has in the round before the last i.
PartsAre(m, p) ==
  /\ Even(m, Cardinality(Urls)) /\ Multiple(Unit, p[Iterations + 1])
  /\ \A i \in 1 .. Iterations + 1 : p[i] = m * (DampDen * p[i - 1])
  /\ \A i \in 0 .. Iterations + 1 : p[i] \in Nat

\* There are such parts, if Unit is divisible.
LEMMA PartsExist ==
  ASSUME Links!GraphAssumption, Links!UnitIsDivisible
  PROVE  IsFiniteSet(Urls) /\ \E m, p : PartsAre(m, p)
PROOF
<1> DEFINE K == Iterations + 1
           mul(m) == CHOOSE f : Parted(m, K, f)
<1>1. Iterations \in Nat /\ K \in Nat /\ DampDen \in Nat \ {0} /\ Unit \in Nat
  BY DEF Links!GraphAssumption
<1>2. IsFiniteSet(Urls)  BY SameCounts DEF Links!UnitIsDivisible
<1>3. PICK m \in 1 .. Unit : /\ \A k \in 1 .. Cardinality(Urls) : m % k = 0
                             /\ Unit % mul(m)[K] = 0
  BY SameCounts DEF Links!UnitIsDivisible, Parted
<1> DEFINE p == mul(m)
<1>4. Parted(m, K, p)  BY <1>1, PartedExists
<1>5. Unit % p[K] = 0  BY <1>3
<1> HIDE DEF p, K
<1>6. \A i \in 0 .. K : p[i] = IF i = 0 THEN 1 ELSE m * DampDen * p[i - 1]
  BY <1>4 DEF Parted
<1>7. m \in Nat \ {0}  BY <1>1
<1>8. \A i \in 0 .. K : p[i] \in Nat \ {0}
  <2> DEFINE P == {i \in Nat : i <= K => p[i] \in Nat \ {0}}
  <2>1. 0 \in P
    <3>1. p[0] = 1  BY <1>1, <1>6
    <3>2. QED  BY <3>1
  <2>2. ASSUME NEW i \in P PROVE i + 1 \in P
    <3> SUFFICES ASSUME i + 1 <= K PROVE p[i + 1] \in Nat \ {0}  OBVIOUS
    <3>1. i \in Nat /\ i + 1 \in 0 .. K /\ i + 1 # 0 /\ i + 1 - 1 = i /\ i <= K  BY <1>1
    <3>2. p[i] \in Nat \ {0}  BY <3>1
    <3>3. p[i + 1] = m * DampDen * p[i]  BY <1>6, <3>1
    <3> DEFINE q == p[i]
               r == m * DampDen
    <3>4. r \in Nat \ {0}  BY <1>1, <1>7
    <3> HIDE DEF q, r
    <3>5. r * q \in Nat \ {0}  BY <3>2, <3>4 DEF q
    <3>6. QED  BY <3>3, <3>5 DEF q, r
  <2>3. P = Nat
    <3>1. P \in SUBSET Nat  OBVIOUS
    <3> HIDE DEF P
    <3>2. QED  BY <2>1, <2>2, <3>1, SetInduction
  <2>4. QED  BY <1>1, <2>3
<1>9. ASSUME NEW i \in 1 .. K PROVE p[i] = m * (DampDen * p[i - 1])
  <2>1. i \in 0 .. K /\ i # 0 /\ i - 1 \in 0 .. K  BY <1>1
  <2>2. p[i] = m * DampDen * p[i - 1] /\ p[i - 1] \in Nat  BY <1>6, <1>8, <2>1
  <2>3. QED  BY <1>1, <1>7, <2>2
<1>10. Multiple(Unit, p[K])
  <2> DEFINE d == p[K]
             a == Unit
  <2>1. d \in Nat \ {0} /\ a \in Nat /\ a % d = 0  BY <1>1, <1>5, <1>8
  <2> HIDE DEF d, a
  <2>2. a = d * (a \div d) /\ a \div d \in Int  BY <2>1
  <2>3. QED  BY <2>2 DEF Multiple, a, d
<1>11. Even(m, Cardinality(Urls))  BY <1>3, <1>7 DEF Even
<1>12. PartsAre(m, p)  BY <1>8, <1>9, <1>10, <1>11 DEF PartsAre, K
<1>13. QED  BY <1>2, <1>12

\* No round loses anything: the ranks are the whole mass.
LEMMA RanksWhole ==
  ASSUME Links!GraphAssumption, Links!UnitIsDivisible,
         NEW links, Links!Nodes(links) \subseteq Urls, Links!Nodes(links) # {}
  PROVE  SumFunctionOnSet(Links!RankOf(links), Links!Nodes(links)) = Unit
PROOF
<1> DEFINE V == Links!Nodes(links)
           n == Cardinality(V)
           I == Iterations
<1>1. I \in Nat /\ Unit \in Nat /\ DampDen \in Nat \ {0}  BY DEF Links!GraphAssumption
<1>2. PICK m, p : PartsAre(m, p)  BY PartsExist
<1>3. IsFiniteSet(V) /\ n \in Nat \ {0} /\ n <= Cardinality(Urls) /\ Cardinality(Urls) \in Nat
  <2>1. IsFiniteSet(Urls)  BY PartsExist
  <2>2. V \subseteq Urls /\ V # {}  OBVIOUS
  <2> HIDE DEF V
  <2>3. IsFiniteSet(V) /\ n <= Cardinality(Urls)  BY <2>1, <2>2, FS_Subset
  <2>4. QED  BY <2>1, <2>2, <2>3, FS_CardinalityType, FS_EmptySet
<1>4. Even(m, n) /\ m \in Nat /\ m % n = 0
  <2>1. m \in Nat /\ \A k \in 1 .. Cardinality(Urls) : m % k = 0  BY <1>2 DEF PartsAre, Even
  <2> HIDE DEF n
  <2>2. \A k \in 1 .. n : k \in 1 .. Cardinality(Urls)  BY <1>3
  <2>3. n \in 1 .. n  BY <1>3
  <2>4. QED  BY <2>1, <2>2, <2>3 DEF Even
<1>5. /\ \A i \in 1 .. I + 1 : p[i] = m * (DampDen * p[i - 1])
      /\ \A i \in 0 .. I + 1 : p[i] \in Int
      /\ Multiple(Unit, p[I + 1])
  BY <1>2 DEF PartsAre
<1>6. ASSUME NEW i \in 1 .. I + 1, NEW a \in Int, Multiple(a, p[i]) PROVE Multiple(a, p[i - 1])
  <2>1. p[i - 1] \in Int /\ p[i] = m * (DampDen * p[i - 1])
    <3>1. i - 1 \in 0 .. I + 1  BY <1>1
    <3>2. QED  BY <1>5, <3>1
  <2>2. p[i] = (m * DampDen) * p[i - 1] /\ m * DampDen \in Int  BY <1>1, <1>4, <2>1
  <2>3. Multiple(a, (m * DampDen) * p[i - 1])  BY <1>6, <2>2
  <2> DEFINE c == m * DampDen
             d == p[i - 1]
  <2> HIDE DEF c, d
  <2>4. Multiple(a, d)  BY <2>1, <2>2, <2>3, MultipleOf DEF c, d
  <2>5. QED  BY <2>4 DEF d
<1>7. PICK h : /\ Links!RankOf(links) = h[I].rank
               /\ h[0] = FirstSurf(links)
               /\ \A i \in 1 .. I : h[i] = NextSurf(links, h[i - 1])
  BY <1>1, RoundsOf
<1> DEFINE Good(r) == Whole(links, h[r].rank, p[I - r]) /\ Multiple(Unit, p[I - r])
           P == {r \in Nat : r <= I => Good(r)}
<1>8. 0 \in P
  <2> DEFINE k == n
             x == Unit \div k
             first == [v \in V |-> x]
  <2>1. h[0].rank = first  BY <1>7, SameCounts DEF FirstSurf
  <2>2. I + 1 \in 1 .. I + 1 /\ I + 1 - 1 = I /\ I - 0 = I /\ I \in 0 .. I + 1  BY <1>1
  <2>3. Multiple(Unit, p[I])
    <3>1. Multiple(Unit, p[I + 1 - 1])  BY <1>1, <1>5, <1>6, <2>2
    <3>2. QED  BY <2>2, <3>1
  <2>4. x \in Int /\ k * x = Unit /\ Multiple(x, p[I])
    <3>1. p[I + 1] = m * (DampDen * p[I]) /\ p[I] \in Int  BY <1>5, <2>2
    <3> DEFINE d == DampDen * p[I]
    <3>2. d \in Int  BY <1>1, <3>1
    <3>3. Multiple(Unit, m * d)  BY <1>5, <3>1
    <3> HIDE DEF k, d
    <3>4. Unit \in Int /\ k \in Nat \ {0} /\ m \in Nat /\ m % k = 0  BY <1>1, <1>3, <1>4 DEF k
    <3>5. /\ Unit \div k \in Int /\ k * (Unit \div k) = Unit
          /\ Multiple(Unit \div k, d)
      BY <3>2, <3>3, <3>4, SharedOut
    <3>6. Multiple(Unit \div k, DampDen * p[I])  BY <3>5 DEF d
    <3>7. Multiple(Unit \div k, p[I])
      <4>1. DampDen \in Int /\ p[I] \in Int /\ Unit \div k \in Int  BY <1>1, <3>1, <3>5
      <4>2. QED  BY ONLY <3>6, <4>1, MultipleOf
    <3>8. QED  BY <3>5, <3>7
  <2>5. \A v \in V : first[v] = x  OBVIOUS
  <2>6. first = [v \in V |-> first[v]]  OBVIOUS
  <2> HIDE DEF x, first, V
  <2>7. SumFunctionOnSet(first, V) = Unit
    <3>1. SumFunctionOnSet(first, V) = Cardinality(V) * x  BY <1>3, <2>4, <2>5, SumConstant
    <3>2. QED  BY <2>4, <3>1
  <2>8. first \in [V -> Int]  BY <2>4, <2>5, <2>6
  <2>9. Whole(links, first, p[I])  BY <2>4, <2>5, <2>7, <2>8 DEF Whole, V
  <2>10. QED  BY <2>1, <2>2, <2>3, <2>9
<1>9. ASSUME NEW r \in P PROVE r + 1 \in P
  <2> SUFFICES ASSUME r + 1 <= I PROVE Good(r + 1)  OBVIOUS
  <2> DEFINE j == I - r
             e == p[j - 1]
             by == h[r].rank
  <2>1. /\ r \in Nat /\ r <= I /\ r + 1 \in 1 .. I /\ r + 1 - 1 = r
        /\ j \in 1 .. I + 1 /\ I - (r + 1) = j - 1 /\ j - 1 \in 0 .. I + 1
    BY <1>1
  <2>2. Whole(links, by, p[j]) /\ Multiple(Unit, p[j])  BY <2>1
  <2>3. h[r + 1] = NextSurf(links, h[r])  BY <1>7, <2>1
  <2> HIDE DEF j
  <2>4. p[j] = m * (DampDen * e) /\ e \in Int  BY <1>5, <2>1
  <2>5. Multiple(Unit, e)  BY <1>1, <1>6, <2>1, <2>2
  <2>6. Whole(links, by, e)
    <3>1. \A u \in V : by[u] \in Int /\ Multiple(by[u], p[j])  BY <2>2 DEF Whole
    <3>2. \A u \in V : Multiple(by[u], e)
      <4> HIDE DEF by, V
      <4>1. QED  BY <1>6, <2>1, <3>1
    <3>3. QED  BY <2>2, <3>2 DEF Whole
  <2> HIDE DEF by, e
  <2>7. Whole(links, Links!Surf(links, by), e)
    <3>1. Multiple(Unit, m * (DampDen * e)) /\ Whole(links, by, m * (DampDen * e))
      BY <2>2, <2>4
    <3>2. IsFiniteSet(Links!Nodes(links)) /\ Even(m, Cardinality(Links!Nodes(links)))
      BY <1>3, <1>4
    <3>3. QED  BY <2>4, <3>1, <3>2, SurfWhole
  <2>8. h[r + 1].rank = by \/ h[r + 1].rank = Links!Surf(links, by)
    BY <2>3 DEF NextSurf, by
  <2>9. Whole(links, h[r + 1].rank, e)  BY <2>6, <2>7, <2>8
  <2>10. QED  BY <2>1, <2>5, <2>9 DEF e
<1>10. P = Nat
  <2>1. P \in SUBSET Nat  OBVIOUS
  <2> HIDE DEF P
  <2>2. QED  BY <1>8, <1>9, <2>1, SetInduction
<1>11. Good(I)
  <2>1. I \in P
    <3> HIDE DEF P
    <3>1. QED  BY <1>1, <1>10
  <2>2. I <= I  BY <1>1
  <2> HIDE DEF Good
  <2>3. QED  BY <2>1, <2>2
<1>12. QED  BY <1>7, <1>11 DEF Whole

\* A graph that is saved and loaded again is the same links.
LEMMA ReloadedListed ==
  ASSUME NEW g, NEW links, Exact(g, links), g.ids # <<>>
  PROVE  LET r == Links!Reloaded(g)
         IN r.ids = g.ids /\ r.out = g.out /\ Listed(g.ids, g.out, r.in, links)
PROOF
<1> DEFINE L == links
           n == Len(g.ids)
           r == Links!Reloaded(g)
           h == Links!Refreshed(g)
           ids == [s \in 1 .. n |-> s]
           from(i) == {s \in 1 .. n : i \in ToSet(g.out[s])}
           Q == Seq(Nat)
           in == [i \in 1 .. n |-> Only(ids, from(i))]
<1>1. /\ DOMAIN g = {"ids", "out", "in", "scores", "dirty"}
      /\ Fits(g.ids, g.out, g.in, Links!Nodes(L), L) /\ g.ids \in Seq(Urls)
  BY DEF Exact, FitsGraph, Fits, Links!NoGraph
<1>2. n \in Nat /\ DOMAIN g.ids = 1 .. n  BY <1>1, LenProperties
<1>3. h.ids = g.ids /\ h.out = g.out /\ DOMAIN h = DOMAIN g
  BY <1>1 DEF Links!Refreshed, Links!Computed
<1>4. \A q, S : Links!Only(q, S) = Only(q, S)  BY DEF Links!Only, Only
<1>5. /\ r.ids = g.ids /\ r.out = g.out
      /\ r.in = [i \in 1 .. n |-> Links!Only(ids, {s \in 1 .. n : i \in Links!ToSet(g.out[s])})]
  <2> HIDE DEF h
  <2>1. r = [h EXCEPT !.in = [i \in 1 .. n |-> Links!Only(ids, {s \in 1 .. n : i \in Links!ToSet(g.out[s])})],
                      !.dirty = FALSE]
    BY <1>2, <1>3 DEF Links!Reloaded, h
  <2> HIDE DEF r, ids
  <2>2. QED  BY <1>1, <1>3, <2>1
<1>6. r.in = in  BY <1>4, <1>5, SameLists
<1>7. ids \in Q /\ Len(ids) = n /\ ToSet(ids) = 1 .. n /\ IsInjective(ids)
  <2>1. ids \in Q
    <3> HIDE DEF n
    <3>1. ids \in [1 .. n -> Nat]  BY <1>2
    <3>2. QED  BY <1>2, <3>1, SeqDef
  <2>2. ToSet(ids) = 1 .. n /\ IsInjective(ids) /\ DOMAIN ids = 1 .. n  BY DEF ToSet, IsInjective
  <2> HIDE DEF ids, n
  <2>3. Len(ids) = n  BY <1>2, <2>1, <2>2, LenProperties
  <2>4. QED  BY <2>1, <2>2, <2>3
<1>8. \A s, t \in 1 .. n : t \in ToSet(g.out[s]) <=> <<g.ids[s], g.ids[t]>> \in L
  BY <1>1 DEF Fits
<1>9. \A i \in 1 .. n : in[i] = Only(ids, from(i)) /\ from(i) \subseteq 1 .. n  OBVIOUS
<1> HIDE DEF ids, n, L
<1>10. ASSUME NEW i \in 1 .. n
       PROVE  in[i] \in Q /\ ToSet(in[i]) = from(i) /\ IsInjective(in[i])
  <2> DEFINE o == Only(ids, from(i))
  <2>1. o \in Q /\ ToSet(o) = ToSet(ids) \intersect from(i) /\ IsInjective(o)
    <3>1. ids \in Seq(Nat)  BY <1>7
    <3> HIDE DEF from
    <3>2. QED  BY <1>7, <3>1, OnlyIs
  <2>2. in[i] = o  BY <1>9
  <2>3. from(i) \subseteq 1 .. n  BY <1>9
  <2> HIDE DEF o, in, from
  <2>4. QED  BY <1>7, <2>1, <2>2, <2>3
<1>11. in \in Seq(Q) /\ Len(in) = n
  <2>1. in = [i \in 1 .. n |-> in[i]] /\ DOMAIN in = 1 .. n  OBVIOUS
  <2> HIDE DEF in, Q
  <2>2. in \in [1 .. n -> Q]  BY <1>10, <2>1
  <2>3. in \in Seq(Q)  BY <1>2, <2>2, SeqDef
  <2>4. QED  BY <1>2, <2>1, <2>3, LenProperties
<1>12. \A s, t \in 1 .. n : s \in ToSet(in[t]) <=> t \in ToSet(g.out[s])
  <2>1. \A s, t \in 1 .. n : s \in from(t) <=> t \in ToSet(g.out[s])  OBVIOUS
  <2> HIDE DEF in, from
  <2>2. QED  BY <1>10, <2>1
<1>13. \A s \in 1 .. n : ToSet(in[s]) \subseteq 1 .. n /\ IsInjective(in[s])
  <2> HIDE DEF in, from
  <2>1. QED  BY <1>9, <1>10
<1> HIDE DEF in, r
<1>14. Fits(g.ids, g.out, in, Links!Nodes(L), L)
  BY <1>1, <1>11, <1>12, <1>13 DEF Fits, n, Q
<1>15. QED  BY <1>5, <1>6, <1>14 DEF Listed, L, r

\* What is asked of a graph that holds the links recorded.
LEMMA ExactRanks ==
  ASSUME Links!GraphAssumption, Links!UnitIsDivisible,
         NEW g, NEW links, Exact(g, links)
  PROVE  Links!Ranks(g, links)
PROOF
<1> DEFINE L == links
           V == Links!Nodes(L)
           n == Len(g.ids)
           fresh == Links!Refreshed(g)
           rank == Links!PageRank(g.ids, g.out, g.in)
           by == Links!RankOf(L)
<1> SUFFICES ASSUME g.ids # <<>>
    PROVE  /\ \A u \in V : Links!Score(fresh, u) = by[u]
           /\ Links!SumFunction(fresh.scores) = Unit
           /\ Links!RanksNow(Links!Reloaded(g)) = fresh.scores
  BY DEF Links!Ranks
<1>1. /\ DOMAIN g = {"ids", "out", "in", "scores", "dirty"} /\ g.dirty \in BOOLEAN
      /\ Fits(g.ids, g.out, g.in, V, L) /\ g.ids \in Seq(Urls) /\ Links!UpToDate(g)
  BY DEF Exact, FitsGraph, Fits, Links!NoGraph
<1>2. Listed(g.ids, g.out, g.in, L)  BY <1>1 DEF Listed
<1>3. fresh.ids = g.ids /\ fresh.scores = rank
  <2>1. CASE g.dirty
    <3>1. fresh = [g EXCEPT !.scores = rank, !.dirty = FALSE]
      BY <2>1 DEF Links!Refreshed, Links!Computed, Links!RanksNow
    <3> HIDE DEF fresh, rank
    <3>2. QED  BY <1>1, <3>1
  <2>2. CASE ~g.dirty
    <3>1. fresh = g /\ g.scores = rank
      BY <1>1, <2>2 DEF Links!Refreshed, Links!UpToDate, Links!RanksNow
    <3> HIDE DEF fresh, rank
    <3>2. QED  BY <3>1
  <2>3. QED  BY <1>1, <2>1, <2>2
<1>4. Alike(g.ids, L, rank, by)  BY <1>2, RanksAlike
<1>5. /\ n \in Nat \ {0} /\ DOMAIN g.ids = 1 .. n /\ IsFiniteSet(1 .. n)
      /\ PairsUp(g.ids, 1 .. n, V)
  BY <1>2, ListsAre DEF PairsUp
<1>6. /\ DOMAIN rank = 1 .. n /\ \A i \in 1 .. n : rank[i] \in Int /\ by[g.ids[i]] = rank[i]
  BY <1>4 DEF Alike
<1> HIDE DEF n, V, rank, by, fresh
<1>7. ASSUME NEW u \in V PROVE Links!Score(fresh, u) = by[u]
  <2> DEFINE i == Links!Id(fresh, u)
  <2>1. \E k \in 1 .. n : g.ids[k] = u  BY <1>5 DEF PairsUp
  <2>2. i \in 1 .. n /\ g.ids[i] = u  BY <1>3, <1>5, <2>1 DEF Links!Id
  <2>3. u \in Links!ToSet(fresh.ids)  BY <1>3, <1>5, <2>1, SameLists DEF ToSet
  <2>4. Links!Score(fresh, u) = rank[i]
    <3>1. i \in DOMAIN fresh.scores  BY <1>3, <1>6, <2>2
    <3>2. Links!Score(fresh, u) = fresh.scores[i]  BY <2>3, <3>1 DEF Links!Score
    <3> HIDE DEF i
    <3>3. QED  BY <1>3, <3>2
  <2> HIDE DEF i
  <2>5. QED  BY <1>6, <2>2, <2>4
<1>8. Links!SumFunction(fresh.scores) = Unit
  <2>1. Links!SumFunction(rank) = SumFunctionOnSet(rank, 1 .. n)  BY <1>6, SameSums
  <2>2. SumFunctionOnSet(rank, 1 .. n) = SumFunctionOnSet(by, V)
    BY <1>5, <1>6, SumMoved
  <2>3. SumFunctionOnSet(by, V) = Unit
    <3>1. V \subseteq Urls
      <4>1. ToSet(g.ids) = V /\ g.ids \in Seq(Urls)  BY <1>1 DEF Fits
      <4>2. \A i \in 1 .. n : g.ids[i] \in Urls  BY <4>1, ElementOfSeq DEF n
      <4>3. QED  BY <1>5, <4>1, <4>2 DEF ToSet
    <3>2. V # {}
      <4>1. 1 \in 1 .. n  BY <1>5
      <4>2. QED  BY <1>5, <4>1 DEF PairsUp
    <3>3. QED  BY <3>1, <3>2, RanksWhole DEF V, by
  <2>4. QED  BY <1>3, <2>1, <2>2, <2>3
<1>9. Links!RanksNow(Links!Reloaded(g)) = fresh.scores
  <2> DEFINE r == Links!Reloaded(g)
             again == Links!PageRank(g.ids, g.out, r.in)
  <2>1. r.ids = g.ids /\ r.out = g.out /\ Listed(g.ids, g.out, r.in, L)  BY ReloadedListed
  <2>2. Links!RanksNow(r) = again  BY <2>1 DEF Links!RanksNow
  <2> HIDE DEF r
  <2>3. Alike(g.ids, L, again, by)  BY <2>1, RanksAlike DEF by
  <2> HIDE DEF again
  <2>4. /\ again \in [1 .. n -> Int] /\ rank \in [1 .. n -> Int]
        /\ \A i \in 1 .. n : by[g.ids[i]] = again[i] /\ by[g.ids[i]] = rank[i]
    BY <1>4, <2>3 DEF Alike, n
  <2>5. \A i \in 1 .. n : again[i] = rank[i]  BY <2>4
  <2>6. again = [i \in 1 .. n |-> again[i]] /\ rank = [i \in 1 .. n |-> rank[i]]
    BY <2>4
  <2>7. again = rank  BY <2>5, <2>6
  <2>8. QED  BY <1>3, <2>2, <2>7 DEF r
<1>10. QED  BY <1>7, <1>8, <1>9 DEF V, by, fresh

\* A score that is asked for now, by a search or as a job ends, is the rank over the
\* links of all pages recorded and no other, the ranks of the nodes are the whole mass
\* together, and LinkGraph.from_dict(to_dict()) ranks alike: for any pages, links and
\* damping, any number of rounds, and whatever was asked in whatever order.
THEOREM RanksAreCurrentCorrect == Spec => []RanksAreCurrent
PROOF
<1>1. Init => Shape  BY SentinelInit DEF SentinelInv
<1>2. Shape => RanksAreCurrent
  <2> SUFFICES ASSUME Shape PROVE RanksAreCurrent  OBVIOUS
  <2>1. Exact(graph, linksRecorded)  BY GraphExact DEF Shape
  <2>2. Links!GraphAssumption /\ Links!UnitIsDivisible
    BY PipelineAssumption, UnitAssumption
  <2>3. Links!Ranks(graph, linksRecorded)
    <3> DEFINE g == graph
    <3>1. Exact(g, linksRecorded)  BY <2>1
    <3> HIDE DEF g
    <3>2. Links!Ranks(g, linksRecorded)  BY <2>2, <3>1, ExactRanks
    <3>3. QED  BY <3>2 DEF g
  <2>4. QED  BY <2>3 DEF RanksAreCurrent
<1>3. QED  BY <1>1, <1>2, ShapeStep, PTL DEF Spec

-----------------------------------------------------------------------------
(* Types *)

\* The semaphore's slots, and where a job is.
Slots ==
  /\ status \in {"pending", "running", "done", "failed"}
  /\ Cardinality(extracting) + Cardinality(putting) <= ExtractWorkers

\* A task that waits for room in the queue keeps its slot: no step hands out more
\* than there are.
LEMMA SlotsStep == PlaceInv /\ Slots /\ [Next]_vars => Slots'
PROOF
<1> SUFFICES ASSUME PlaceInv, Slots, [Next]_vars PROVE Slots'  OBVIOUS
<1>1. IsFiniteSet(extracting) /\ IsFiniteSet(putting)
  <2>1. Apart(at, ToSet(crawled))  BY DEF PlaceInv
  <2>2. IsFiniteSet(at["extracting"]) /\ IsFiniteSet(at["putting"])
    BY <2>1 DEF Apart, Places
  <2>3. QED  BY <2>2, AtIs
<1>2. ASSUME NEW S, IsFiniteSet(S), NEW x
      PROVE  /\ Cardinality(S) \in Nat
             /\ Cardinality(S \union {x}) \in Nat
             /\ Cardinality(S \union {x}) <= Cardinality(S) + 1
             /\ x \in S => Cardinality(S \ {x}) = Cardinality(S) - 1
  BY <1>2, FS_CardinalityType, FS_AddElement, FS_RemoveElement
<1>3. status' \in {"pending", "running", "done", "failed"}
  BY DEF Slots, Next, JobStep, CrawlStage, TaskStep, ExtractStage, IndexStage, vars, Begin,
         CrawlNext, CrawlPut, CrawlEnds, CrawlSentinel, ExtractTake, Acquire, NoContent, Refuse,
         Admit, Put, ExtractSentinel, IndexTake, Flush, FlushFails, Return, Boost
<1> DEFINE e == Cardinality(extracting)
           w == Cardinality(putting)
           e1 == Cardinality(extracting')
           w1 == Cardinality(putting')
<1>4. e \in Nat /\ w \in Nat /\ e + w <= ExtractWorkers /\ ExtractWorkers \in Nat
  BY <1>1, <1>2, PipelineAssumption DEF Slots
<1>5. e1 + w1 <= ExtractWorkers
  <2>1. CASE Acquire
    <3>1. extracting' = extracting \union {Head(waiting)} /\ putting' = putting
      BY <2>1 DEF Acquire
    <3>2. e + w < ExtractWorkers  BY <2>1 DEF Acquire
    <3>3. e1 \in Nat /\ e1 <= e + 1 /\ w1 = w  BY <1>1, <1>2, <3>1
    <3> HIDE DEF e, w, e1, w1
    <3>4. QED  BY <1>4, <3>2, <3>3
  <2>2. ASSUME NEW p \in Pages, NoContent(p) \/ Refuse(p) PROVE e1 + w1 <= ExtractWorkers
    <3>1. p \in extracting /\ extracting' = extracting \ {p} /\ putting' = putting
      BY <2>2 DEF NoContent, Refuse, Leave
    <3>2. e1 = e - 1 /\ w1 = w  BY <1>1, <1>2, <3>1
    <3> HIDE DEF e, w, e1, w1
    <3>3. QED  BY <1>4, <3>2
  <2>3. ASSUME NEW p \in Pages, Admit(p) PROVE e1 + w1 <= ExtractWorkers
    <3>1. /\ p \in extracting /\ extracting' = extracting \ {p}
          /\ putting' = putting \/ putting' = putting \union {p}
      BY <2>3 DEF Admit, Leave
    <3>2. e1 = e - 1 /\ w1 \in Nat /\ w1 <= w + 1
      <4>1. e1 = e - 1  BY <1>1, <1>2, <3>1
      <4>2. CASE putting' = putting  BY <1>4, <4>1, <4>2
      <4>3. CASE putting' = putting \union {p}  BY <1>1, <1>2, <4>1, <4>3
      <4>4. QED  BY <3>1, <4>2, <4>3
    <3> HIDE DEF e, w, e1, w1
    <3>3. QED  BY <1>4, <3>2
  <2>4. ASSUME NEW p \in Pages, Put(p) PROVE e1 + w1 <= ExtractWorkers
    <3>1. p \in putting /\ putting' = putting \ {p} /\ extracting' = extracting
      BY <2>4 DEF Put
    <3>2. w1 = w - 1 /\ e1 = e  BY <1>1, <1>2, <3>1
    <3> HIDE DEF e, w, e1, w1
    <3>3. QED  BY <1>4, <3>2
  <2>5. CASE UNCHANGED <<extracting, putting>>
    <3>1. e1 = e /\ w1 = w  BY <2>5
    <3>2. QED  BY <1>4, <3>1
  <2>6. \/ Acquire \/ (\E p \in Pages : NoContent(p) \/ Refuse(p)) \/ (\E p \in Pages : Admit(p))
        \/ (\E p \in Pages : Put(p)) \/ UNCHANGED <<extracting, putting>>
    BY DEF Next, JobStep, CrawlStage, TaskStep, ExtractStage, IndexStage, vars, extractVars, Begin,
           CrawlNext, CrawlPut, CrawlEnds, CrawlSentinel, ExtractTake, ExtractSentinel, IndexTake,
           Flush, FlushFails, Return, Boost
  <2>7. QED  BY <2>1, <2>2, <2>3, <2>4, <2>5, <2>6
<1>6. QED  BY <1>3, <1>5 DEF Slots

\* Every variable keeps its type: the tasks never hold more slots than the semaphore
\* has, and the link graph names no node that it does not have.
THEOREM TypeCorrect == Spec => []TypeOK
PROOF
<1>1. Init => PlaceInv /\ Slots
  <2> SUFFICES ASSUME Init PROVE Slots  BY PlaceInit
  <2>1. Cardinality({}) = 0  BY FS_EmptySet
  <2>2. QED  BY <2>1, PipelineAssumption DEF Init, Slots
<1>2. PlaceInv /\ Slots => TypeOK
  <2> SUFFICES ASSUME PlaceInv, Slots PROVE TypeOK  OBVIOUS
  <2>1. Shape /\ Apart(at, ToSet(crawled)) /\ Counted  BY DEF PlaceInv, SentinelInv
  <2>2. indexed \subseteq ToSet(crawled) /\ empty \subseteq ToSet(crawled)
    <3>1. at["indexed"] \subseteq ToSet(crawled) /\ at["empty"] \subseteq ToSet(crawled)
      BY <2>1 DEF Apart, Places
    <3>2. QED  BY <3>1, AtIs
  <2>3. ToSet(crawled) \subseteq Pages
    <3>1. crawled \in Seq(Pages)  BY <2>1 DEF Shape
    <3>2. \A i \in DOMAIN crawled : crawled[i] \in Pages  BY <3>1, LenProperties, ElementOfSeq
    <3>3. QED  BY <3>2 DEF ToSet
  <2>4. Links!IsGraph(graph)
    <3>1. Exact(graph, linksRecorded)  BY <2>1, GraphExact DEF Shape
    <3>2. QED  BY <3>1, FitsHolds DEF Exact
  <2>5. stats \in [StatFields -> Nat]  BY <2>1 DEF Counted
  <2>6. QED  BY <2>1, <2>2, <2>3, <2>4, <2>5 DEF Shape, Slots, TypeOK
<1>3. QED  BY <1>1, <1>2, PlaceStep, SlotsStep, PTL DEF Spec

-----------------------------------------------------------------------------
(* Quotients *)

\* What a quotient is.
LEMMA DivIs ==
  ASSUME NEW a \in Nat, NEW c \in Nat \ {0}
  PROVE  /\ a \div c \in Nat /\ c * (a \div c) <= a /\ a < c * (a \div c) + c
PROOF OBVIOUS

\* Rounding down keeps the order.
LEMMA DivMonotone ==
  ASSUME NEW a \in Nat, NEW b \in Nat, NEW c \in Nat \ {0}, a <= b
  PROVE  a \div c <= b \div c
PROOF
<1> DEFINE q == a \div c
           r == b \div c
<1>1. q \in Nat /\ r \in Nat /\ c * q <= a /\ b < c * r + c
  BY DivIs
<1> HIDE DEF q, r
<1>2. ASSUME r < q PROVE FALSE
  <2>1. c * (r + 1) <= c * q  BY <1>1, <1>2
  <2>2. c * (r + 1) = c * r + c  BY <1>1
  <2>3. QED  BY <1>1, <2>1, <2>2
<1>3. q <= r  BY <1>1, <1>2
<1>4. QED  BY <1>3 DEF q, r

-----------------------------------------------------------------------------
(* The score *)

\* The sum that Score takes of seven signals.
Sum(s) ==
  s[1][1] * s[1][2] + s[2][1] * s[2][2] + s[3][1] * s[3][2] + s[4][1] * s[4][2]
  + s[5][1] * s[5][2] + s[6][1] * s[6][2] + s[7][1] * s[7][2]

\* A function that is what the definition of total asks for.
LEMMA TotalExists ==
  ASSUME NEW s
  PROVE  \E f : f = [i \in 0 .. 7 |-> IF i = 0 THEN 0 ELSE f[i - 1] + s[i][1] * s[i][2]]
PROOF
<1> DEFINE v1 == 0 + s[1][1] * s[1][2]
           v2 == v1 + s[2][1] * s[2][2]
           v3 == v2 + s[3][1] * s[3][2]
           v4 == v3 + s[4][1] * s[4][2]
           v5 == v4 + s[5][1] * s[5][2]
           v6 == v5 + s[6][1] * s[6][2]
           v7 == v6 + s[7][1] * s[7][2]
           f == [i \in 0 .. 7 |-> IF i = 0 THEN 0 ELSE IF i = 1 THEN v1 ELSE IF i = 2 THEN v2
                 ELSE IF i = 3 THEN v3 ELSE IF i = 4 THEN v4 ELSE IF i = 5 THEN v5
                 ELSE IF i = 6 THEN v6 ELSE v7]
           step(i) == f[i - 1] + s[i][1] * s[i][2]
<1>1. /\ f[0] = 0 /\ f[1] = v1 /\ f[2] = v2 /\ f[3] = v3 /\ f[4] = v4 /\ f[5] = v5
      /\ f[6] = v6 /\ f[7] = v7
  OBVIOUS
<1>2. \A i \in 0 .. 7 : f[i] = IF i = 0 THEN 0 ELSE step(i)
  <2>1. ASSUME NEW i \in 0 .. 7 PROVE i \in {0, 1, 2, 3, 4, 5, 6, 7}  OBVIOUS
  <2>2. /\ f[1] = step(1) /\ f[2] = step(2) /\ f[3] = step(3) /\ f[4] = step(4)
        /\ f[5] = step(5) /\ f[6] = step(6) /\ f[7] = step(7)
    <3> HIDE DEF f
    <3>1. /\ 1 - 1 = 0 /\ 2 - 1 = 1 /\ 3 - 1 = 2 /\ 4 - 1 = 3 /\ 5 - 1 = 4 /\ 6 - 1 = 5
          /\ 7 - 1 = 6
      OBVIOUS
    <3>2. QED  BY ONLY <1>1, <3>1
  <2> HIDE DEF f, step
  <2>3. QED  BY <1>1, <2>1, <2>2
<1>3. f = [i \in 0 .. 7 |-> f[i]]  OBVIOUS
<1>4. f = [i \in 0 .. 7 |-> IF i = 0 THEN 0 ELSE f[i - 1] + s[i][1] * s[i][2]]
  <2> HIDE DEF f
  <2>1. QED  BY <1>2, <1>3
<1>5. QED  BY <1>4

\* And what its last value is.
LEMMA TotalIs ==
  ASSUME NEW s, \A i \in 1 .. 7 : s[i][1] * s[i][2] \in Int,
         NEW f, f = [i \in 0 .. 7 |-> IF i = 0 THEN 0 ELSE f[i - 1] + s[i][1] * s[i][2]]
  PROVE  f[7] = Sum(s)
PROOF
<1> DEFINE m(i) == s[i][1] * s[i][2]
<1>1. \A i \in 1 .. 7 : m(i) \in Int  OBVIOUS
<1>2. \A i \in 0 .. 7 : f[i] = IF i = 0 THEN 0 ELSE f[i - 1] + m(i)  OBVIOUS
<1>3. Sum(s) = m(1) + m(2) + m(3) + m(4) + m(5) + m(6) + m(7)  BY DEF Sum
<1> HIDE DEF m
<1>4. f[0] = 0 /\ f[1] = f[0] + m(1) /\ f[2] = f[1] + m(2) /\ f[3] = f[2] + m(3)
      /\ f[4] = f[3] + m(4) /\ f[5] = f[4] + m(5) /\ f[6] = f[5] + m(6) /\ f[7] = f[6] + m(7)
  BY ONLY <1>2
<1>5. QED  BY ONLY <1>1, <1>3, <1>4

\* Past the gates, Score is the sum of the signals over that of their weights.
LEMMA ScoreIs ==
  ASSUME NEW t, NEW d,
         \A i \in 1 .. 7 : Content!Signals(t, d)[i][1] * Content!Signals(t, d)[i][2] \in Int,
         ~(t.words < MinWords \/ d > MaxLinkDensity)
  PROVE  Content!Score(t, d) = Sum(Content!Signals(t, d)) \div 78
PROOF
<1> DEFINE s == Content!Signals(t, d)
<1>1. Len(s) = 7  BY DEF Content!Signals
<1> DEFINE T(f) == f = [i \in 0 .. 7 |-> IF i = 0 THEN 0 ELSE f[i - 1] + s[i][1] * s[i][2]]
           total == CHOOSE f : T(f)
<1> HIDE DEF s
<1>2. Content!Score(t, d) = total[7] \div 78
  BY <1>1 DEF Content!Score, s
<1>3. T(total)
  <2>1. \E f : T(f)  BY TotalExists
  <2> HIDE DEF T
  <2>2. QED  BY <2>1
<1>4. total[7] = Sum(s)
  <2> HIDE DEF total
  <2>1. \A i \in 1 .. 7 : s[i][1] * s[i][2] \in Int  BY DEF s
  <2>2. QED  BY <1>3, <2>1, TotalIs
<1>5. QED  BY <1>2, <1>4 DEF s

-----------------------------------------------------------------------------
(* The signals *)

\* A text with words in it, and its numbers.
LEMMA TextNumbers ==
  ASSUME Content!ExtractionAssumption, NEW t, Content!IsText(t)
  PROVE  /\ t.words \in Nat /\ t.distinct \in Nat /\ t.sentences \in Nat /\ t.boiler \in Nat
         /\ t.digits \in 0 .. 1000 /\ t.uppers \in 0 .. 1000
         /\ WordScore[t.words] \in 0 .. 1000
PROOF
<1>1. t.words \in Nat /\ WordScore[t.words] \in 0 .. 1000
  BY DEF Content!ExtractionAssumption, Content!IsText
<1>2. QED  BY <1>1 DEF Content!IsText

\* Membership in a range, for ranges that are too long for the prover.
LEMMA InRange ==
  ASSUME NEW n \in Int, NEW a \in Int, NEW b \in Int
  PROVE  n \in a .. b <=> a <= n /\ n <= b
PROOF OBVIOUS

\* The score of the sentences is between 0 and 1.
LEMMA SentenceRange == ASSUME NEW avg \in Nat PROVE Content!SentenceScore(avg) \in 0 .. 1000
PROOF
<1> DEFINE usual == avg \in 6000 .. 50000
<1>1. Content!SentenceScore(avg) = IF usual THEN 1000
                           ELSE IF avg < 6000 THEN avg \div 6
                           ELSE Content!AtLeast(0, 1000 - (avg - 50000) \div 50)
  BY DEF Content!SentenceScore
<1>2. avg \in Int /\ 6000 \in Int /\ 50000 \in Int  OBVIOUS
<1>3. usual <=> 6000 <= avg /\ avg <= 50000  BY InRange, avg \in Int, 6000 \in Int, 50000 \in Int
<1> HIDE DEF usual
<1>4. CASE usual  BY <1>1, <1>4
<1>5. CASE avg < 6000
  <2>1. avg \div 6 \in 0 .. 1000  BY <1>5
  <2>2. QED  BY <1>1, <1>3, <1>5, <2>1
<1>6. CASE avg > 50000
  <2>1. (avg - 50000) \div 50 \in Nat  BY <1>6
  <2>2. Content!SentenceScore(avg) = Content!AtLeast(0, 1000 - (avg - 50000) \div 50)
    BY <1>1, <1>3, <1>6
  <2> DEFINE q == (avg - 50000) \div 50
  <2> HIDE DEF q
  <2>3. Content!AtLeast(0, 1000 - q) \in 0 .. 1000  BY <2>1 DEF Content!AtLeast, q
  <2>4. QED  BY <2>2, <2>3 DEF q
<1>7. QED  BY <1>3, <1>4, <1>5, <1>6

\* What a link density costs is between 0 and 1, and no less for a greater one.
Freedom(d) == 1000 - Content!AtMost((1000 * d) \div MaxLinkDensity, 1000)
LEMMA FreedomFalls ==
  ASSUME Content!ExtractionAssumption, NEW a \in Nat, NEW b \in Nat, a <= b
  PROVE  Freedom(a) \in 0 .. 1000 /\ Freedom(b) \in 0 .. 1000 /\ Freedom(b) <= Freedom(a)
PROOF
<1> DEFINE q == (1000 * a) \div MaxLinkDensity
           r == (1000 * b) \div MaxLinkDensity
<1>1. MaxLinkDensity \in Nat \ {0}  BY DEF Content!ExtractionAssumption
<1>2. 1000 * a \in Nat /\ 1000 * b \in Nat /\ 1000 * a <= 1000 * b  OBVIOUS
<1>3. q \in Nat /\ r \in Nat /\ q <= r
  <2>1. q \in Nat /\ r \in Nat  BY ONLY <1>1, <1>2, DivIs
  <2>2. q <= r  BY ONLY <1>1, <1>2, DivMonotone
  <2>3. QED  BY <2>1, <2>2
<1>4. Freedom(a) = 1000 - Content!AtMost(q, 1000) /\ Freedom(b) = 1000 - Content!AtMost(r, 1000)
  BY DEF Freedom
<1> HIDE DEF q, r
<1>5. QED  BY <1>3, <1>4 DEF Content!AtMost

\* What the other signals add up to, of 63.
Others(t) ==
  20 * WordScore[t.words] + 15 * Content!AtMost((2000 * t.distinct) \div t.words, 1000)
  + 10 * Content!SentenceScore((1000 * t.words) \div Content!AtLeast(t.sentences, 1))
  + 5 * (1000 - Content!AtMost(5 * t.digits, 1000))
  + 5 * (1000 - Content!AtMost(3 * t.uppers, 1000))
  + 8 * Content!AtLeast(0, 1000 - 100 * t.boiler)

\* The seven signals of a text with words are numbers, and the weighted sum of
\* them is what the link density leaves and what the others add up to.
LEMMA SignalsAre ==
  ASSUME Content!ExtractionAssumption, NEW t, Content!IsText(t), t.words > 0, NEW d \in Nat
  PROVE  /\ Others(t) \in Nat /\ Others(t) <= 63000
         /\ \A i \in 1 .. 7 : Content!Signals(t, d)[i][1] * Content!Signals(t, d)[i][2] \in Int
         /\ Sum(Content!Signals(t, d)) = Others(t) + 15 * Freedom(d)
PROOF
<1> DEFINE avg == (1000 * t.words) \div Content!AtLeast(t.sentences, 1)
           rich == (2000 * t.distinct) \div t.words
           a == WordScore[t.words]
           b == Content!AtMost(rich, 1000)
           u == Content!SentenceScore(avg)
           v == 1000 - Content!AtMost(5 * t.digits, 1000)
           w == 1000 - Content!AtMost(3 * t.uppers, 1000)
           x == Content!AtLeast(0, 1000 - 100 * t.boiler)
           f == Freedom(d)
           s == Content!Signals(t, d)
<1>1. /\ t.words \in Nat /\ t.distinct \in Nat /\ t.sentences \in Nat /\ t.boiler \in Nat
      /\ t.digits \in 0 .. 1000 /\ t.uppers \in 0 .. 1000 /\ a \in 0 .. 1000
  BY TextNumbers
<1>2. b \in 0 .. 1000
  <2>1. 2000 * t.distinct \in Nat /\ t.words \in Nat \ {0}  BY <1>1
  <2>2. rich \in Nat  BY ONLY <2>1, DivIs
  <2> HIDE DEF rich
  <2>3. QED  BY <2>2 DEF Content!AtMost
<1>3. u \in 0 .. 1000
  <2>1. Content!AtLeast(t.sentences, 1) \in Nat \ {0}  BY <1>1 DEF Content!AtLeast
  <2>2. 1000 * t.words \in Nat  BY <1>1
  <2>3. avg \in Nat  BY ONLY <2>1, <2>2, DivIs
  <2> HIDE DEF avg
  <2>4. QED  BY <2>3, SentenceRange
<1>4. v \in 0 .. 1000 /\ w \in 0 .. 1000 /\ x \in 0 .. 1000
  <2>1. t.digits \in 0 .. 1000 => 1000 - Content!AtMost(5 * t.digits, 1000) \in 0 .. 1000
    BY DEF Content!AtMost
  <2>2. t.uppers \in 0 .. 1000 => 1000 - Content!AtMost(3 * t.uppers, 1000) \in 0 .. 1000
    BY DEF Content!AtMost
  <2>3. t.boiler \in Nat => Content!AtLeast(0, 1000 - 100 * t.boiler) \in 0 .. 1000
    BY DEF Content!AtLeast
  <2>4. QED  BY <1>1, <2>1, <2>2, <2>3
<1>5. f \in 0 .. 1000
  <2>1. d <= d  OBVIOUS
  <2>2. QED  BY <2>1, FreedomFalls
<1>6. s = <<<<a, 20>>, <<b, 15>>, <<f, 15>>, <<u, 10>>, <<v, 5>>, <<w, 5>>, <<x, 8>>>>
  BY DEF Content!Signals, Freedom
<1>7. Others(t) = 20 * a + 15 * b + 10 * u + 5 * v + 5 * w + 8 * x  BY DEF Others
<1> HIDE DEF avg, rich, a, b, u, v, w, x, f, s
<1>8. /\ s[1][1] * s[1][2] = a * 20 /\ s[2][1] * s[2][2] = b * 15
      /\ s[3][1] * s[3][2] = f * 15 /\ s[4][1] * s[4][2] = u * 10
      /\ s[5][1] * s[5][2] = v * 5 /\ s[6][1] * s[6][2] = w * 5
      /\ s[7][1] * s[7][2] = x * 8
  BY ONLY <1>6
<1>9. \A i \in 1 .. 7 : s[i][1] * s[i][2] \in Int
  <2>1. ASSUME NEW i \in 1 .. 7 PROVE i \in {1, 2, 3, 4, 5, 6, 7}  OBVIOUS
  <2>2. /\ a * 20 \in Int /\ b * 15 \in Int /\ f * 15 \in Int /\ u * 10 \in Int
        /\ v * 5 \in Int /\ w * 5 \in Int /\ x * 8 \in Int
    BY ONLY <1>1, <1>2, <1>3, <1>4, <1>5
  <2>3. QED  BY ONLY <1>8, <2>1, <2>2
<1>10. Others(t) \in Nat /\ Others(t) <= 63000
  <2>1. a \in 0 .. 1000  BY <1>1
  <2>2. /\ 20 * a + 15 * b + 10 * u + 5 * v + 5 * w + 8 * x \in Nat
        /\ 20 * a + 15 * b + 10 * u + 5 * v + 5 * w + 8 * x <= 63000
    BY ONLY <2>1, <1>2, <1>3, <1>4
  <2>3. QED  BY <1>7, <2>2
<1>11. Sum(s) = Others(t) + 15 * f
  <2>1. Sum(s) = a * 20 + b * 15 + f * 15 + u * 10 + v * 5 + w * 5 + x * 8
    BY ONLY <1>8 DEF Sum
  <2>2. QED  BY ONLY <1>1, <1>2, <1>3, <1>4, <1>5, <1>7, <2>1
<1>12. QED  BY <1>9, <1>10, <1>11 DEF f, s

\* Past the gates a score is what the signals add up to, in 78 parts.
LEMMA ScorePast ==
  ASSUME Content!ExtractionAssumption, NEW t, Content!IsText(t), t.words > 0, NEW d \in Nat,
         ~(t.words < MinWords \/ d > MaxLinkDensity)
  PROVE  Content!Score(t, d) = (Others(t) + 15 * Freedom(d)) \div 78
PROOF
<1>1. QED  BY SignalsAre, ScoreIs

\* A score is between 0 and 1, and a greater link density never raises it.
LEMMA ScoreFalls ==
  ASSUME Content!ExtractionAssumption, NEW t, Content!IsText(t), t.words > 0,
         NEW d \in Nat, NEW e \in Nat, e <= d
  PROVE  /\ Content!Score(t, d) \in 0 .. 1000 /\ Content!Score(t, e) \in 0 .. 1000
         /\ Content!Score(t, d) <= Content!Score(t, e)
PROOF
<1> DEFINE low == Others(t) + 15 * Freedom(d)
           high == Others(t) + 15 * Freedom(e)
<1>1. low \in Nat /\ high \in Nat /\ low <= high /\ high <= 78000
  <2>1. Freedom(e) \in 0 .. 1000 /\ Freedom(d) \in 0 .. 1000 /\ Freedom(d) <= Freedom(e)
    BY FreedomFalls
  <2>2. Others(t) \in Nat /\ Others(t) <= 63000  BY SignalsAre
  <2> DEFINE o == Others(t)
             f == Freedom(d)
             g == Freedom(e)
  <2> HIDE DEF o, f, g
  <2>4. o \in Nat /\ o <= 63000 /\ f \in 0 .. 1000 /\ g \in 0 .. 1000 /\ f <= g
    BY <2>1, <2>2 DEF o, f, g
  <2>5. /\ o + 15 * f \in Nat /\ o + 15 * g \in Nat /\ o + 15 * f <= o + 15 * g
        /\ o + 15 * g <= 78000
    BY ONLY <2>4
  <2>6. low = o + 15 * f /\ high = o + 15 * g  BY DEF o, f, g
  <2>7. QED  BY <2>5, <2>6
<1>2. low \div 78 \in 0 .. 1000 /\ high \div 78 \in 0 .. 1000 /\ low \div 78 <= high \div 78
  <2> HIDE DEF low, high
  <2>1. low \div 78 \in 0 .. 1000 /\ high \div 78 \in 0 .. 1000  BY ONLY <1>1
  <2>2. low \div 78 <= high \div 78
    <3>1. 78 \in Nat \ {0}  OBVIOUS
    <3>2. QED  BY ONLY <1>1, <3>1, DivMonotone
  <2>3. QED  BY <2>1, <2>2
<1>3. \A f \in Nat : (t.words < MinWords \/ f > MaxLinkDensity) => Content!Score(t, f) = 0
  BY DEF Content!Score
<1>4. ~(t.words < MinWords \/ e > MaxLinkDensity) => Content!Score(t, e) = high \div 78
  BY ScorePast
<1>5. ~(t.words < MinWords \/ d > MaxLinkDensity) => Content!Score(t, d) = low \div 78
  BY ScorePast
<1>6. e > MaxLinkDensity => d > MaxLinkDensity
  <2>1. MaxLinkDensity \in Nat  BY DEF Content!ExtractionAssumption
  <2>2. QED  BY <2>1
<1> HIDE DEF low, high
<1>7. QED  BY ONLY <1>2, <1>3, <1>4, <1>5, <1>6, d \in Nat, e \in Nat

\* A score is between 0 and 1.
LEMMA ScoreRange ==
  ASSUME Content!ExtractionAssumption, NEW t, Content!IsText(t), t.words > 0, NEW d \in Nat
  PROVE  Content!Score(t, d) \in 0 .. 1000
PROOF
<1> DEFINE o == Others(t)
           f == Freedom(d)
           n == o + 15 * f
<1>1. f \in 0 .. 1000
  <2>1. d <= d  OBVIOUS
  <2>2. QED  BY <2>1, FreedomFalls
<1>2. o \in Nat /\ o <= 63000  BY SignalsAre
<1>3. ~(t.words < MinWords \/ d > MaxLinkDensity) => Content!Score(t, d) = n \div 78
  BY ScorePast
<1>4. (t.words < MinWords \/ d > MaxLinkDensity) => Content!Score(t, d) = 0
  BY DEF Content!Score
<1>5. n \div 78 \in 0 .. 1000
  <2> HIDE DEF o, f
  <2>1. n \in Nat /\ n <= 78000  BY ONLY <1>1, <1>2
  <2> HIDE DEF n
  <2>2. QED  BY ONLY <2>1
<1> HIDE DEF n
<1>6. QED  BY ONLY <1>3, <1>4, <1>5

-----------------------------------------------------------------------------
(* The links *)

\* A link density is a number, and one within the limit bounds the words in links.
LEMMA DensityIs ==
  ASSUME Content!ExtractionAssumption, NEW h, NEW t, t.words \in Nat, t.words > 0, h.anchors \in Nat
  PROVE  /\ Content!LinkDensity(h, t) \in Nat
         /\ Content!LinkDensity(h, t) <= MaxLinkDensity
              => 20000 * h.anchors < (2 * MaxLinkDensity + 1) * t.words
PROOF
<1> DEFINE w == t.words
           a == h.anchors
           n == 20000 * a + w
           c == 2 * w
           q == n \div c
           max == MaxLinkDensity
<1>1. Content!LinkDensity(h, t) = q
  <2>1. Content!AtLeast(t.words, 1) = t.words  BY DEF Content!AtLeast
  <2>2. QED  BY <2>1 DEF Content!LinkDensity
<1>2. w \in Nat /\ w > 0 /\ a \in Nat /\ n \in Nat /\ c \in Nat \ {0} /\ max \in Nat
  BY DEF Content!ExtractionAssumption
<1>3. q \in Nat /\ n < c * q + c
  <2> HIDE DEF n, c
  <2>1. QED  BY ONLY <1>2, DivIs
<1>4. n = 20000 * a + w /\ c = 2 * w  OBVIOUS
<1> HIDE DEF w, a, n, c, q, max
<1>5. ASSUME q <= max PROVE 20000 * a < (2 * max + 1) * w
  <2> DEFINE m == w * max
             k == c * q
  <2>1. k \in Nat /\ k <= c * max  BY ONLY <1>2, <1>3, <1>5
  <2>2. c * max = 2 * m /\ (2 * max + 1) * w = 2 * m + w /\ m \in Nat
    BY ONLY <1>2, <1>4
  <2>3. n < k + c  BY <1>3
  <2> HIDE DEF m, k
  <2>4. 20000 * a < 2 * m + w  BY ONLY <1>2, <1>4, <2>1, <2>2, <2>3
  <2>5. QED  BY ONLY <2>2, <2>4
<1>6. QED  BY <1>1, <1>3, <1>5 DEF a, w, max

\* More words in links make the density no less.
LEMMA DensityGrows ==
  ASSUME NEW g, NEW h, NEW t, t.words \in Nat, t.words > 0,
         g.anchors \in Nat, h.anchors \in Nat, g.anchors <= h.anchors
  PROVE  Content!LinkDensity(g, t) <= Content!LinkDensity(h, t)
PROOF
<1> DEFINE w == t.words
           m == 20000 * g.anchors + w
           n == 20000 * h.anchors + w
<1>1. Content!LinkDensity(g, t) = m \div (2 * w) /\ Content!LinkDensity(h, t) = n \div (2 * w)
  <2>1. Content!AtLeast(t.words, 1) = t.words  BY DEF Content!AtLeast
  <2>2. QED  BY <2>1 DEF Content!LinkDensity
<1>2. m \in Nat /\ n \in Nat /\ m <= n /\ 2 * w \in Nat \ {0}  OBVIOUS
<1> HIDE DEF m, n, w
<1>3. QED  BY <1>1, <1>2, DivMonotone

-----------------------------------------------------------------------------
(* The gates *)

\* What is extracted from a page is a text with words, or nothing, and then for
\* a reason.
LEMMA ExtractIs ==
  ASSUME Content!ExtractionAssumption, NEW h, Content!IsPage(h)
  PROVE  IF Content!Extract(h) = NoText
         THEN ~h.meta \/ Raises \in {h.traf, h.raw} \/ h.raw = NoText \/ h.raw.words = 0
         ELSE /\ Content!IsText(Content!Extract(h))
              /\ Content!Extract(h).words \in Nat /\ Content!Extract(h).words > 0
              /\ Content!Extract(h) \in {h.traf, h.read, h.raw}
              /\ \A u \in {h.traf, h.read} :
                   Content!Long(u) => Content!Extract(h).words >= EnoughWords
PROOF
<1> DEFINE t == Content!ExtractText(h)
<1>1. EnoughWords \in Nat \ {0}  BY DEF Content!ExtractionAssumption
<1>2. \A u \in {h.traf, h.read, h.raw} \ {NoText, Raises} : Content!IsText(u) /\ u.words \in Nat
  BY TextNumbers DEF Content!IsPage
<1>3. t \in {h.traf, h.read, h.raw}  BY DEF Content!ExtractText
<1>4. CASE t \in {NoText, Raises} \/ t.words = 0 \/ ~h.meta
  <2>1. Content!Extract(h) = NoText  BY <1>4 DEF Content!Extract
  <2>2. CASE ~h.meta  BY <2>1, <2>2
  <2>3. CASE t \in {NoText, Raises} \/ t.words = 0
    <3>1. ASSUME NEW u \in {h.traf, h.read}, Content!Long(u)
          PROVE  ~(u \in {NoText, Raises} \/ u.words = 0)
      <4>1. u \notin {NoText, Raises} /\ u.words >= EnoughWords  BY <3>1 DEF Content!Long
      <4>2. u.words \in Nat  BY <1>2, <4>1
      <4>3. QED  BY <1>1, <4>1, <4>2
    <3>2. ~Content!Long(h.traf)
      <4>1. Content!Long(h.traf) => t = h.traf  BY DEF Content!ExtractText
      <4> HIDE DEF t
      <4>2. QED  BY <2>3, <3>1, <4>1
    <3>3. h.traf = Raises \/ t = h.raw
      <4>1. h.traf = Raises \/ (Content!Long(h.read) /\ t = h.read) \/ t = h.raw
        <5>1. ASSUME ~Content!Long(h.traf), h.traf # Raises
              PROVE  t = IF Content!Long(h.read) THEN h.read ELSE h.raw
          BY <5>1 DEF Content!ExtractText
        <5> HIDE DEF t
        <5>2. ASSUME h.traf # Raises, ~Content!Long(h.read) PROVE t = h.raw  BY <3>2, <5>1, <5>2
        <5>3. ASSUME h.traf # Raises, Content!Long(h.read) PROVE t = h.read  BY <3>2, <5>1, <5>3
        <5>4. QED  BY <5>2, <5>3
      <4> HIDE DEF t
      <4>2. QED  BY <2>3, <3>1, <4>1
    <3> HIDE DEF t
    <3>4. QED  BY <2>1, <2>3, <3>3
  <2>4. QED  BY <1>4, <2>2, <2>3
<1>5. CASE ~(t \in {NoText, Raises} \/ t.words = 0 \/ ~h.meta)
  <2>1. Content!Extract(h) = t /\ t # NoText  BY <1>5 DEF Content!Extract
  <2>2. Content!IsText(t) /\ t.words \in Nat /\ t.words > 0
    <3>1. Content!IsText(t) /\ t.words \in Nat  BY <1>2, <1>3, <1>5
    <3>2. QED  BY <1>5, <3>1
  <2>3. ASSUME NEW u \in {h.traf, h.read}, Content!Long(u) PROVE t.words >= EnoughWords
    <3>1. t # Raises  BY <1>5
    <3>2. t \in {h.traf, h.read} /\ Content!Long(t)  BY <2>3, <3>1 DEF Content!ExtractText
    <3>3. QED  BY <3>2 DEF Content!Long
  <2>4. QED  BY <1>3, <2>1, <2>2, <2>3
<1>6. QED  BY <1>4, <1>5

\* What fewer words in links leave as they are.
LEMMA FewerLinksAre ==
  ASSUME NEW g, NEW h, Content!IsPage(g), Content!IsPage(h), Content!FewerLinks(g, h)
  PROVE  Content!Extract(g) = Content!Extract(h)
PROOF
<1>1. \A f \in {"traf", "read", "raw", "meta"} : g[f] = h[f]
  BY DEF Content!FewerLinks, Content!IsPage
<1>2. Content!ExtractText(g) = Content!ExtractText(h)  BY <1>1 DEF Content!ExtractText
<1>3. QED  BY <1>1, <1>2 DEF Content!Extract

\* The gates of ContentExtractor.extract and QualityScorer.score are sound for any
\* pages: no score is outside 0 .. 1, a page with no content has none for a
\* reason, and one that passes has the words that count and few enough of them in
\* links, and passes with fewer links too.
THEOREM GatesSound ==
  ASSUME Content!ExtractionAssumption, NEW pages, \A h \in pages : Content!IsPage(h)
  PROVE  Content!GatesAreSound(pages)
PROOF
<1> SUFFICES ASSUME NEW h \in pages, Content!Extract(h) # NoText
    PROVE  /\ Content!Extract(h) \in {h.traf, h.read, h.raw} /\ Content!Extract(h).words > 0
           /\ \A u \in {h.traf, h.read} : Content!Long(u) => Content!Extract(h).words >= EnoughWords
           /\ Content!Score(Content!Extract(h), Content!LinkDensity(h, Content!Extract(h)))
                \in 0 .. 1000
           /\ Content!Good(h) => /\ Content!Extract(h).words >= MinWords
                         /\ 20000 * h.anchors < (2 * MaxLinkDensity + 1) * Content!Extract(h).words
                         /\ \A g \in pages : Content!FewerLinks(g, h) => Content!Good(g)
  BY ExtractIs DEF Content!GatesAreSound
<1> DEFINE t == Content!Extract(h)
           d == Content!LinkDensity(h, t)
<1>1. /\ Content!IsText(t) /\ t.words \in Nat /\ t.words > 0 /\ t \in {h.traf, h.read, h.raw}
      /\ \A u \in {h.traf, h.read} : Content!Long(u) => t.words >= EnoughWords
  BY ExtractIs
<1>2. h.anchors \in Nat  BY DEF Content!IsPage
<1>3. d \in Nat  BY <1>1, <1>2, DensityIs
<1>4. Content!Score(t, d) \in 0 .. 1000
  <2>1. Content!IsText(t) /\ t.words > 0 /\ d \in Nat /\ Content!ExtractionAssumption
    BY <1>1, <1>3
  <2> HIDE DEF t, d
  <2>2. QED  BY ONLY <2>1, ScoreRange
<1>5. ASSUME Content!Good(h)
      PROVE  /\ t.words >= MinWords
             /\ 20000 * h.anchors < (2 * MaxLinkDensity + 1) * t.words
             /\ \A g \in pages : Content!FewerLinks(g, h) => Content!Good(g)
  <2>1. /\ Content!Score(t, d) >= Threshold /\ Threshold > 0
        /\ MinWords \in Nat /\ MaxLinkDensity \in Nat
    BY <1>5 DEF Content!Good, Content!ExtractionAssumption
  <2>2. ~(t.words < MinWords \/ d > MaxLinkDensity)
    <3>1. (t.words < MinWords \/ d > MaxLinkDensity) => Content!Score(t, d) = 0
      BY DEF Content!Score
    <3> HIDE DEF t, d
    <3>2. Threshold \in Nat  BY DEF Content!ExtractionAssumption
    <3>3. QED  BY <2>1, <3>1, <3>2
  <2>3. t.words >= MinWords /\ d <= MaxLinkDensity
    <3> HIDE DEF t, d
    <3>1. QED  BY <1>1, <1>3, <2>1, <2>2
  <2>4. 20000 * h.anchors < (2 * MaxLinkDensity + 1) * t.words
    BY <1>1, <1>2, <2>3, DensityIs
  <2>5. ASSUME NEW g \in pages, Content!FewerLinks(g, h) PROVE Content!Good(g)
    <3>1. Content!Extract(g) = t  BY <2>5, FewerLinksAre
    <3>2. g.anchors \in Nat /\ g.anchors <= h.anchors
      BY <2>5 DEF Content!IsPage, Content!FewerLinks
    <3> DEFINE e == Content!LinkDensity(g, t)
    <3> HIDE DEF t
    <3>3. e \in Nat /\ e <= d  BY <1>1, <1>2, <3>2, DensityIs, DensityGrows
    <3> HIDE DEF e, d
    <3>4. Content!Score(t, e) \in 0 .. 1000 /\ Content!Score(t, d) <= Content!Score(t, e)
      BY <1>1, <1>3, <3>3, ScoreFalls
    <3>5. Content!Score(t, e) >= Threshold
      <4>1. Threshold \in Nat  BY DEF Content!ExtractionAssumption
      <4> DEFINE lo == Content!Score(t, d)
                 hi == Content!Score(t, e)
      <4>2. lo \in 0 .. 1000 /\ hi \in 0 .. 1000 /\ lo <= hi /\ lo >= Threshold
        BY <1>4, <2>1, <3>4
      <4> HIDE DEF lo, hi
      <4>3. hi >= Threshold  BY ONLY <4>1, <4>2
      <4>4. QED  BY <4>3 DEF hi
    <3>6. QED  BY <3>1, <3>5 DEF Content!Good, e
  <2>6. QED  BY <2>3, <2>4, <2>5
<1>6. QED  BY <1>1, <1>4, <1>5

-----------------------------------------------------------------------------
(* What comes to be indexed *)

\* The gates are sound for the probes, and a page that passes them has enough
\* words.
LEMMA GatesHold ==
  /\ ProbesPass
  /\ \A p \in Pages : HasContent(p) /\ Content!Good(Html[p])
                        => Content!Extract(Html[p]).words >= MinWords
PROOF
<1> DEFINE all == Probes \union {Html[p] : p \in Pages}
<1>1. Content!ExtractionAssumption  BY PipelineAssumption DEF PipelineAssumption
<1>2. \A h \in all : Content!IsPage(h)  BY PipelineAssumption
<1>3. ASSUME NEW pages, pages \subseteq all PROVE Content!GatesAreSound(pages)
  BY <1>1, <1>2, <1>3, GatesSound
<1>4. Content!GatesAreSound(Probes) /\ Content!GatesAreSound({Html[p] : p \in Pages})
  <2> HIDE DEF all
  <2>1. Probes \subseteq all /\ {Html[p] : p \in Pages} \subseteq all  BY DEF all
  <2>2. QED  BY <1>3, <2>1
<1>5. QED  BY <1>4 DEF ProbesPass, HasContent, Content!GatesAreSound

\* Past the gates: what is recorded or waits in a put has passed them.
Passed(p) == HasContent(p) /\ Content!Good(Html[p])
GoodInv ==
  /\ LinksInv /\ putting \subseteq Pages /\ recorded \subseteq Pages
  /\ \A p \in recorded \union putting : Passed(p)

\* Only Admit adds a page, past both gates; Put moves one that Admit let in.
LEMMA GoodStep == GoodInv /\ [Next]_vars => GoodInv'
PROOF
<1> SUFFICES ASSUME GoodInv, [Next]_vars PROVE GoodInv'  OBVIOUS
<1>1. LinksInv /\ LinksInv' /\ Shape  BY LinksStep DEF GoodInv, LinksInv
<1>2. SUFFICES /\ recorded' \union putting' \subseteq Pages
               /\ \A p \in recorded' \union putting' : Passed(p)
  BY <1>1 DEF GoodInv, Passed, HasContent
<1>3. ASSUME UNCHANGED calls, putting' \subseteq putting
      PROVE  /\ recorded' \union putting' \subseteq Pages
             /\ \A p \in recorded' \union putting' : Passed(p)
  BY <1>3, SameRecorded DEF GoodInv
<1>4. ASSUME NEW p \in Pages, Admit(p) \/ Put(p)
      PROVE  /\ recorded' \union putting' \subseteq Pages
             /\ \A q \in recorded' \union putting' : Passed(q)
  <2>1. Passed(p) /\ putting' \subseteq putting \union {p}
    BY <1>4 DEF Admit, Put, Passed, GoodInv
  <2>2. recorded' \subseteq recorded \union {p}
    <3>1. CASE UNCHANGED calls  BY <3>1, SameRecorded
    <3>2. CASE calls' = Append(calls, p)
      <4>1. recorded' = recorded \union ({p} \ {RankCall})  BY <1>1, <3>2, CallsGrow
      <4>2. QED  BY <4>1
    <3>3. QED  BY <1>4, <3>1, <3>2 DEF Admit, Put, Record
  <2>3. QED  BY <2>1, <2>2 DEF GoodInv
<1>5. CASE Return \/ Boost
  <2>1. calls' = Append(calls, RankCall) /\ UNCHANGED putting
    BY <1>5 DEF Return, Boost, extractVars
  <2>2. recorded' = recorded  BY <1>1, <2>1, CallsGrow
  <2>3. QED  BY <2>1, <2>2 DEF GoodInv
<1>6. CASE Begin \/ CrawlStage \/ ExtractStage \/ IndexStage \/ Acquire \/ UNCHANGED vars
           \/ \E p \in Pages : NoContent(p) \/ Refuse(p)
  <2>1. UNCHANGED <<calls, putting>>
    BY <1>6 DEF Begin, CrawlStage, CrawlNext, CrawlPut, CrawlEnds, CrawlSentinel,
                ExtractStage, ExtractTake, ExtractSentinel, Acquire, IndexStage, IndexTake,
                Flush, FlushFails, NoContent, Refuse, vars, extractVars
  <2>2. QED  BY <1>3, <2>1
<1>7. QED  BY <1>3, <1>4, <1>5, <1>6 DEF Next, JobStep, TaskStep

\* Only pages that pass the gates come to be indexed, for all pages, queues and
\* batches; and for every page that the gates may be given, the text indexed is
\* long enough, is not made of links, scores between 0 and 1, and would pass with
\* fewer links too.
THEOREM IndexedIsGoodCorrect == Spec => []IndexedIsGood
PROOF
<1>1. Init => GoodInv
  <2>1. ASSUME Init PROVE Shape /\ calls = <<>> /\ putting = {}
    BY <2>1, SentinelInit DEF SentinelInv, Init
  <2>2. ASSUME Init PROVE Admitted \subseteq recorded
    BY <2>2, EmptyQueue DEF Init, Admitted
  <2>3. ASSUME Init PROVE recorded = {}  BY <2>1, <2>3, EmptyQueue DEF recorded
  <2>4. QED  BY <2>1, <2>2, <2>3 DEF GoodInv, LinksInv
<1>2. GoodInv => IndexedIsGood
  BY GatesHold DEF GoodInv, LinksInv, Admitted, Passed, IndexedIsGood
<1>3. QED  BY <1>1, <1>2, GoodStep, PTL DEF Spec
=============================================================================
