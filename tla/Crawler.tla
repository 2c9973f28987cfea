------------------------------ MODULE Crawler -------------------------------
(***************************************************************************)
(* AsyncCrawler.crawl: a generator (the driver) that takes URLs from a     *)
(* frontier and starts one task per URL, and the tasks (the workers) that  *)
(* fetch a page, queue the result, put its unseen links on the frontier    *)
(* and announce their end with None.                                       *)
(*                                                                         *)
(* One event loop runs them all: workers move only while the driver is     *)
(* suspended, which it is while it sleeps, while it waits for a result and *)
(* while its consumer holds a yielded page.                                *)
(***************************************************************************)
EXTENDS Integers, Sequences, FiniteSets, SequencesExt

CONSTANTS
  Pages,         \* URLs, identified with their xxhash fingerprints
  Seeds,         \* the seed list, a sequence of URLs
  Links,         \* the links of each page, absolute and in document order
  BadHref,       \* pages with an href on which urljoin raises ValueError
  MaxDepth, MaxPages, Concurrency,
  MaxAttempts    \* stop_after_attempt(3)

None == 0        \* the end-of-task marker in the result queue

ASSUME CrawlAssumption ==
  /\ Seeds \in Seq(Pages) /\ Links \in [Pages -> Seq(Pages)] /\ BadHref \subseteq Pages
  /\ MaxDepth \in Nat /\ MaxPages \in Nat
  /\ Concurrency \in Nat \ {0} /\ MaxAttempts \in Nat \ {0}

VARIABLES
  frontier,       \* URLs to start a task for, with their depths
  seen,           \* URLs ever put on the frontier
  tasks,          \* every task started, in order of its start
  result_queue,   \* task numbers, one per result, and None
  active,         \* the driver's count of tasks it has not seen the end of
  pages_crawled,
  pc,             \* where the driver is
  yielded         \* tasks whose results the consumer has got, in order

vars == <<frontier, seen, tasks, result_queue, active, pages_crawled, pc, yielded>>
worker == <<frontier, seen, tasks, result_queue>>

Entry == [url : Pages, depth : Nat]
TaskStates == {"waiting", "fetching", "done", "dead"}
Task == [url : Pages, depth : Nat, st : TaskStates, attempt : Nat, got : BOOLEAN]

TypeOK ==
  /\ frontier \in Seq(Entry) /\ seen \subseteq Pages
  /\ tasks \in Seq(Task) /\ result_queue \in Seq(Nat)
  /\ active \in Nat /\ pages_crawled \in Nat
  /\ pc \in {"drain", "collect", "yield", "sleep", "tail", "tail_yield", "done"}
  /\ yielded \in Seq(Nat)

Init ==
  /\ frontier = [i \in DOMAIN Seeds |-> [url |-> Seeds[i], depth |-> 0]]
  /\ seen = ToSet(Seeds)
  /\ tasks = <<>> /\ result_queue = <<>>
  /\ active = 0 /\ pages_crawled = 0
  /\ pc = "drain" /\ yielded = <<>>

-----------------------------------------------------------------------------
(* Workers *)

\* The driver has given control back to the event loop.
Suspended == \/ pc \in {"yield", "sleep", "tail_yield"}
             \/ pc = "tail" /\ result_queue = <<>>

InState(st) == {i \in DOMAIN tasks : tasks[i].st = st}

\* The semaphore admits tasks in the order they asked for it.
Acquire(i) ==
  /\ Suspended
  /\ i \in InState("waiting") /\ \A k \in InState("waiting") : i <= k
  /\ Cardinality(InState("fetching")) < Concurrency
  /\ tasks' = [tasks EXCEPT ![i].st = "fetching", ![i].attempt = 1]
  /\ UNCHANGED <<frontier, seen, result_queue, active, pages_crawled, pc, yielded>>

\* Mutation: links are not compared with the URLs seen.
NewLinksUnchecked(u) == Links[u]

\* The unseen links of page u, each once, in document order.
NewLinks(u) ==
  FoldLeft(LAMBDA new, l : IF l \in seen \union ToSet(new) THEN new ELSE Append(new, l),
           <<>>, Links[u])

\* A page has come back: its result, its links and the end of the task are
\* queued without an await in between.
FetchOk(i) ==
  /\ Suspended /\ i \in InState("fetching")
  /\ tasks[i].depth < MaxDepth => tasks[i].url \notin BadHref
  /\ tasks' = [tasks EXCEPT ![i].st = "done", ![i].got = TRUE]
  /\ result_queue' = result_queue \o <<i, None>>
  /\ IF tasks[i].depth < MaxDepth
     THEN LET new == NewLinks(tasks[i].url) IN
          /\ frontier' = frontier \o
               [n \in DOMAIN new |-> [url |-> new[n], depth |-> tasks[i].depth + 1]]
          /\ seen' = seen \union ToSet(Links[tasks[i].url])
     ELSE UNCHANGED <<frontier, seen>>
  /\ UNCHANGED <<active, pages_crawled, pc, yielded>>

\* Mutation: links are extracted before the result is queued.
LinkErrorFirst(i) ==
  /\ Suspended /\ i \in InState("fetching")
  /\ tasks[i].depth < MaxDepth /\ tasks[i].url \in BadHref
  /\ tasks' = [tasks EXCEPT ![i].st = "dead", ![i].got = TRUE]
  /\ UNCHANGED <<frontier, seen, result_queue, active, pages_crawled, pc, yielded>>

\* urljoin raises after the result was queued: the task dies without a None.
LinkError(i) ==
  /\ Suspended /\ i \in InState("fetching")
  /\ tasks[i].depth < MaxDepth /\ tasks[i].url \in BadHref
  /\ tasks' = [tasks EXCEPT ![i].st = "dead", ![i].got = TRUE]
  /\ result_queue' = Append(result_queue, i)
  /\ UNCHANGED <<frontier, seen, active, pages_crawled, pc, yielded>>

\* Mutation: an exhausted retry ends the task without its None.
NoResultSilent(i) ==
  /\ Suspended /\ i \in InState("fetching")
  /\ tasks' = [tasks EXCEPT ![i].st = "done"]
  /\ UNCHANGED <<frontier, seen, result_queue, active, pages_crawled, pc, yielded>>

\* Mutation: None is queued in the handler and again at the end.
NoResultTwice(i) ==
  /\ Suspended /\ i \in InState("fetching")
  /\ tasks' = [tasks EXCEPT ![i].st = "done"]
  /\ result_queue' = result_queue \o <<None, None>>
  /\ UNCHANGED <<frontier, seen, active, pages_crawled, pc, yielded>>

\* Disallowed, not HTML or too large; or the last attempt has failed.
NoResult(i) ==
  /\ Suspended /\ i \in InState("fetching")
  /\ tasks' = [tasks EXCEPT ![i].st = "done"]
  /\ result_queue' = Append(result_queue, None)
  /\ UNCHANGED <<frontier, seen, active, pages_crawled, pc, yielded>>

\* Mutation: attempts are counted from one again.
RetryForever(i) ==
  /\ Suspended /\ i \in InState("fetching")
  /\ tasks' = [tasks EXCEPT ![i].attempt = IF @ < MaxAttempts THEN @ + 1 ELSE 1]
  /\ UNCHANGED <<frontier, seen, result_queue, active, pages_crawled, pc, yielded>>

\* An attempt has failed and is repeated; the task keeps its semaphore slot.
Retry(i) ==
  /\ Suspended /\ i \in InState("fetching") /\ tasks[i].attempt < MaxAttempts
  /\ tasks' = [tasks EXCEPT ![i].attempt = @ + 1]
  /\ UNCHANGED <<frontier, seen, result_queue, active, pages_crawled, pc, yielded>>

Work(i) == Acquire(i) \/ FetchOk(i) \/ LinkError(i) \/ NoResult(i) \/ Retry(i)

-----------------------------------------------------------------------------
(* The driver *)

\* A task for entry e, with rest left on the frontier.
StartTask(e, rest) ==
  /\ pc = "drain" /\ pages_crawled < MaxPages
  /\ frontier' = rest
  /\ tasks' = Append(tasks, [url |-> e.url, depth |-> e.depth,
                             st |-> "waiting", attempt |-> 0, got |-> FALSE])
  /\ active' = active + 1
  /\ pc' = "collect"
  /\ UNCHANGED <<seen, result_queue, pages_crawled, yielded>>

\* _drain_frontier takes the oldest URL and starts its task.
Pop == frontier # <<>> /\ StartTask(Head(frontier), Tail(frontier))

\* One item from the result queue; the consumer gets a page at next.
TakeResult(next) ==
  /\ result_queue # <<>> /\ result_queue' = Tail(result_queue)
  /\ IF Head(result_queue) = None
     THEN active' = active - 1 /\ UNCHANGED <<pages_crawled, pc, yielded>>
     ELSE /\ pages_crawled' = pages_crawled + 1
          /\ yielded' = Append(yielded, Head(result_queue))
          /\ pc' = next /\ UNCHANGED active
  /\ UNCHANGED <<frontier, seen, tasks>>

Goto(from, to) == pc = from /\ pc' = to /\ UNCHANGED <<worker, active, pages_crawled, yielded>>

\* Results are collected only here, after a URL has been taken.
Collect    == pc = "collect" /\ TakeResult("yield")
EndCollect == result_queue = <<>> /\ Goto("collect", "drain")
Resume     == Goto("yield", "collect")

\* The frontier is empty and tasks are still counted: sleep, then look again.
Sleep    == pages_crawled < MaxPages /\ frontier = <<>> /\ active # 0 /\ Goto("drain", "sleep")
Wake     == Goto("sleep", "drain")
EndDrain == (pages_crawled >= MaxPages \/ (frontier = <<>> /\ active = 0)) /\ Goto("drain", "tail")

\* The rest: until no task is counted and no result is left.
TailTake   == pc = "tail" /\ TakeResult("tail_yield")
TailResume == Goto("tail_yield", "tail")
\* Mutation: an empty queue is taken for the end.
FinishEarly == result_queue = <<>> /\ Goto("tail", "done")

Finish     == active <= 0 /\ result_queue = <<>> /\ Goto("tail", "done")

Driver == Pop \/ Collect \/ EndCollect \/ Resume \/ Sleep \/ Wake \/ EndDrain
          \/ TailTake \/ TailResume \/ Finish

Next == Driver \/ \E i \in DOMAIN tasks : Work(i)

Spec == Init /\ [][Next]_vars

\* Each URL on the frontier leads to at most one task: the most there can be.
TaskBound == Len(Seeds) + Cardinality(Pages)

\* The event loop runs every ready callback, a timeout ends every request,
\* and attempts are bounded: the driver goes on when it can, and a task that
\* can move again and again does.
Fairness ==
  /\ WF_vars(Driver)
  /\ \A i \in 1 .. TaskBound : SF_vars(i \in DOMAIN tasks /\ Work(i))

FairSpec == Spec /\ Fairness

-----------------------------------------------------------------------------
(* Correctness *)

Unfinished == InState("waiting") \union InState("fetching")
Nones == {n \in DOMAIN result_queue : result_queue[n] = None}

\* The driver's count is right: a task it counts still runs, has its None in
\* the queue, or is one that died.  So waiting for active = 0 is waiting for
\* the tasks, and one that died is waited for for good.  The code relies on
\* the count ("must never let one bad URL hang the crawl", async_crawler.py:203).
ActiveCount ==
  active = Cardinality(Unfinished) + Cardinality(Nones) + Cardinality(InState("dead"))

\* "Deduplication via xxhash URL fingerprinting" (async_crawler.py:7): no URL
\* gets a second task, whichever pages link to it and in whatever order they
\* come back.
FetchedOnce ==
  \A i, k \in DOMAIN tasks : tasks[i].url = tasks[k].url => i = k

\* Every page fetched is on its way to the consumer or has reached it, once:
\* the hand-over from the draining loop to the tail loses and repeats nothing.
Delivered == yielded \o result_queue
ResultsConserved ==
  /\ ToSet(Delivered) \ {None} = {i \in DOMAIN tasks : tasks[i].got}
  /\ \A m, n \in DOMAIN Delivered : Delivered[m] = Delivered[n] => m = n \/ Delivered[m] = None
  /\ None \notin ToSet(yielded) /\ pages_crawled = Len(yielded)

\* A crawl that ends leaves no task behind and keeps no page back; and if it
\* did not reach max_pages, it has started a task for every URL it saw.
EndIsComplete ==
  pc = "done" =>
    /\ Unfinished = {}
    /\ \A i \in DOMAIN tasks : tasks[i].got => i \in ToSet(yielded)
    /\ pages_crawled < MaxPages => seen = {tasks[i].url : i \in DOMAIN tasks}

\* Every task started comes to an end, however often its fetches fail and
\* whatever the driver is doing.
WorkersEnd == \A i \in 1 .. TaskBound : (i \in DOMAIN tasks) ~> (i \in DOMAIN tasks /\ i \notin Unfinished)

\* Once max_pages is reached the crawl ends, unless a task has died: its end
\* is the one thing the tail cannot wait out.
LimitEndsCrawl == (pages_crawled >= MaxPages) ~> (pc = "done" \/ InState("dead") # {})

\* The crawl always ends ("If we don't catch it ... the crawl hangs forever",
\* async_crawler.py:203-209, names the hang this code means to exclude).
CrawlTerminates == <>(pc = "done")
=============================================================================
