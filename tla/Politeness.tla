----------------------------- MODULE Politeness -----------------------------
(***************************************************************************)
(* AsyncCrawler._fetch_one as the tasks of a crawl run it: the check of    *)
(* robots.txt through RobotsCache, whose lock per domain lets one task     *)
(* fetch the file for all; the domain bucket, whose lock is held by the    *)
(* task that sleeps; the request for the page; and tenacity's retries.     *)
(*                                                                         *)
(* A step is what a task does between two awaits.  An asyncio.Lock is the  *)
(* queue of its holder and waiters: the first holds it, and taking a free  *)
(* lock does not suspend.  Clocks count ticks and stop where they cease    *)
(* to matter, so time itself needs no bound.                               *)
(***************************************************************************)
EXTENDS Integers, Sequences, FiniteSets, SequencesExt

CONSTANTS
  Tasks,        \* the workers' tasks, one URL each that _is_allowed_url accepts
  Domains,
  Site,         \* the domain of each task's URL
  Disallowed,   \* the tasks whose URL the domain's rules refuse
  Delay,        \* spacing of requests to a domain, in ticks
  TTL,          \* life of a robots.txt, in ticks: 24 hours
  MaxAttempts   \* stop_after_attempt(3)

ASSUME PolitenessAssumption ==
  /\ Site \in [Tasks -> Domains] /\ Disallowed \subseteq Tasks
  /\ Delay \in Nat /\ TTL \in Nat /\ MaxAttempts \in Nat \ {0}

VARIABLES
  pc,         \* where each task is
  attempt,    \* its attempt at the URL
  left,       \* ticks it still has to sleep in the bucket
  verdict,    \* RobotsCache: what the robots.txt of each domain came to
  age,        \* ticks since it was fetched
  rlock,      \* the lock of each domain in RobotsCache
  block,      \* the lock of each domain's bucket
  since       \* ticks since the bucket last let a request through

vars   == <<pc, attempt, left, verdict, age, rlock, block, since>>
robots == <<verdict, age, rlock>>
bucket == <<left, block, since>>

\* "unread": a status other than 200 leaves the parser unread, which refuses
\* everything; "allow": the fetch raised; "rules": the file was parsed.
Outcomes == {"rules", "unread", "allow"}
Places == {"start", "robots_wait", "robots", "bucket_wait", "sleep", "page", "backoff", "done"}

TypeOK ==
  /\ pc \in [Tasks -> Places] /\ attempt \in [Tasks -> 1 .. MaxAttempts]
  /\ left \in [Tasks -> 0 .. Delay]
  /\ verdict \in [Domains -> Outcomes \union {"none"}] /\ age \in [Domains -> 0 .. TTL + 1]
  /\ rlock \in [Domains -> Seq(Tasks)] /\ block \in [Domains -> Seq(Tasks)]
  /\ since \in [Domains -> 0 .. Delay]

Init ==
  /\ pc = [t \in Tasks |-> "start"] /\ attempt = [t \in Tasks |-> 1]
  /\ left = [t \in Tasks |-> 0]
  /\ verdict = [d \in Domains |-> "none"] /\ age = [d \in Domains |-> TTL + 1]
  /\ rlock = [d \in Domains |-> <<>>] /\ block = [d \in Domains |-> <<>>]
  /\ since = [d \in Domains |-> Delay]

-----------------------------------------------------------------------------
Goto(t, place) == pc' = [pc EXCEPT ![t] = place]

Holds(t, lock) == lock[Site[t]] # <<>> /\ Head(lock[Site[t]]) = t
Join(t, lock)  == [lock EXCEPT ![Site[t]] = Append(@, t)]
Leave(t, lock) == [lock EXCEPT ![Site[t]] = Tail(@)]

\* Mutation: the lock is given back before the sleep.
TakeBucketUnlocked(t, others) ==
  IF since[Site[t]] >= Delay
  THEN /\ since' = [since EXCEPT ![Site[t]] = 0] /\ Goto(t, "page")
       /\ block' = [block EXCEPT ![Site[t]] = others] /\ UNCHANGED left
  ELSE /\ left' = [left EXCEPT ![t] = Delay - since[Site[t]]] /\ Goto(t, "sleep")
       /\ block' = [block EXCEPT ![Site[t]] = others] /\ UNCHANGED since

\* bucket.acquire() once the lock is held: a request that comes too early
\* sleeps for the rest of the delay and keeps the lock; others wait for it.
TakeBucket(t, others) ==
  IF since[Site[t]] >= Delay
  THEN /\ since' = [since EXCEPT ![Site[t]] = 0] /\ Goto(t, "page")
       /\ block' = [block EXCEPT ![Site[t]] = others] /\ UNCHANGED left
  ELSE /\ left' = [left EXCEPT ![t] = Delay - since[Site[t]]] /\ Goto(t, "sleep")
       /\ block' = [block EXCEPT ![Site[t]] = <<t>> \o others] /\ UNCHANGED since

CanFetch(t, v) == v = "allow" \/ (v = "rules" /\ t \notin Disallowed)

\* From the answer of is_allowed to the next await.
Proceed(t, v) ==
  \/ ~CanFetch(t, v) /\ Goto(t, "done") /\ UNCHANGED bucket
  \/ CanFetch(t, v) /\ block[Site[t]] = <<>> /\ TakeBucket(t, <<>>)
  \/ /\ CanFetch(t, v) /\ block[Site[t]] # <<>>
     /\ block' = Join(t, block) /\ Goto(t, "bucket_wait") /\ UNCHANGED <<left, since>>

Fresh(d) == verdict[d] # "none" /\ age[d] <= TTL

\* An attempt begins: the cached robots.txt serves, or the domain's lock is
\* taken, or waited for.
Begin(t) ==
  /\ pc[t] = "start"
  /\ \/ Fresh(Site[t]) /\ Proceed(t, verdict[Site[t]]) /\ UNCHANGED rlock
     \/ /\ ~Fresh(Site[t])
        /\ Goto(t, IF rlock[Site[t]] = <<>> THEN "robots" ELSE "robots_wait")
        /\ rlock' = Join(t, rlock) /\ UNCHANGED bucket
  /\ UNCHANGED <<attempt, verdict, age>>

\* Mutation: no second look at the cache.
EnterRobotsBlindly(t) ==
  /\ pc[t] = "robots_wait" /\ Holds(t, rlock)
  /\ Goto(t, "robots")
  /\ UNCHANGED <<attempt, robots, bucket>>

\* A waiter has got the lock and looks into the cache again.
EnterRobots(t) ==
  /\ pc[t] = "robots_wait" /\ Holds(t, rlock)
  /\ \/ Fresh(Site[t]) /\ Proceed(t, verdict[Site[t]]) /\ rlock' = Leave(t, rlock)
     \/ ~Fresh(Site[t]) /\ Goto(t, "robots") /\ UNCHANGED <<rlock, bucket>>
  /\ UNCHANGED <<attempt, verdict, age>>

\* Mutation: an exception leaves the lock taken.
RobotsAnswerKeepsLock(t) ==
  /\ pc[t] = "robots"
  /\ \E v \in Outcomes :
       /\ verdict' = [verdict EXCEPT ![Site[t]] = v]
       /\ rlock' = IF v = "allow" THEN rlock ELSE Leave(t, rlock)
       /\ Proceed(t, v)
  /\ age' = [age EXCEPT ![Site[t]] = 0]
  /\ UNCHANGED attempt

\* The fetch of robots.txt ends one way or another, if by its timeout.
RobotsAnswer(t) ==
  /\ pc[t] = "robots"
  /\ \E v \in Outcomes :
       /\ verdict' = [verdict EXCEPT ![Site[t]] = v]
       /\ Proceed(t, v)
  /\ age' = [age EXCEPT ![Site[t]] = 0]
  /\ rlock' = Leave(t, rlock)
  /\ UNCHANGED attempt

\* A waiter has got the lock of the bucket.
EnterBucket(t) ==
  /\ pc[t] = "bucket_wait" /\ Holds(t, block)
  /\ TakeBucket(t, Tail(block[Site[t]]))
  /\ UNCHANGED <<attempt, robots>>

\* The sleep is over: the request goes out, the lock is given back.
Wake(t) ==
  /\ pc[t] = "sleep" /\ left[t] = 0
  /\ since' = [since EXCEPT ![Site[t]] = 0]
  /\ block' = (IF Holds(t, block) THEN Leave(t, block) ELSE block)
  /\ Goto(t, "page")
  /\ UNCHANGED <<attempt, left, robots>>

\* A page, or none worth having, has come back.
PageAnswer(t) ==
  /\ pc[t] = "page" /\ Goto(t, "done")
  /\ UNCHANGED <<attempt, robots, bucket>>

\* Mutation: attempts are not bounded.
PageFailsAgain(t) ==
  /\ pc[t] = "page"
  /\ attempt' = [attempt EXCEPT ![t] = @ + 1] /\ Goto(t, "backoff")
  /\ UNCHANGED <<robots, bucket>>

\* The request raises: another attempt follows, or RetryError.
PageFails(t) ==
  /\ pc[t] = "page"
  /\ IF attempt[t] < MaxAttempts
     THEN attempt' = [attempt EXCEPT ![t] = @ + 1] /\ Goto(t, "backoff")
     ELSE Goto(t, "done") /\ UNCHANGED attempt
  /\ UNCHANGED <<robots, bucket>>

\* The exponential wait is over; how long it was does not matter here.
Retry(t) ==
  /\ pc[t] = "backoff" /\ Goto(t, "start")
  /\ UNCHANGED <<attempt, robots, bucket>>

\* One tick passes.
Tick ==
  /\ age' = [d \in Domains |-> IF age[d] <= TTL THEN age[d] + 1 ELSE age[d]]
  /\ since' = [d \in Domains |-> IF since[d] < Delay THEN since[d] + 1 ELSE since[d]]
  /\ left' = [t \in Tasks |-> IF left[t] > 0 THEN left[t] - 1 ELSE 0]
  /\ UNCHANGED <<pc, attempt, verdict, rlock, block>>

TaskStep(t) ==
  \/ Begin(t) \/ EnterRobots(t) \/ RobotsAnswer(t) \/ EnterBucket(t) \/ Wake(t)
  \/ PageAnswer(t) \/ PageFails(t) \/ Retry(t)

Next == Tick \/ \E t \in Tasks : TaskStep(t)

Spec == Init /\ [][Next]_vars

\* The loop runs every ready task, every request ends (timeouts), time passes.
FairSpec == Spec /\ WF_vars(Tick) /\ \A t \in Tasks : WF_vars(TaskStep(t))

-----------------------------------------------------------------------------
(* Correctness *)

Reaches(t, place) == pc[t] # place /\ pc'[t] = place

\* "Concurrent requests for the same domain are serialized ... so we never
\* fetch the same robots.txt twice" (robots.py:41): a task fetches it only
\* when none is cached or that one has expired, and nobody else fetches it.
RobotsFetchedOnce ==
  [][\A t \in Tasks : Reaches(t, "robots") =>
       /\ ~Fresh(Site[t])
       /\ \A u \in Tasks \ {t} : Site[u] = Site[t] => pc[u] # "robots"]_vars

\* Two requests to a domain are never closer than the delay, though tasks that
\* sleep do not look at the clock again when they wake.
Spaced == [][\A t \in Tasks : Reaches(t, "page") => since[Site[t]] >= Delay]_vars

\* Every task comes to an end: no failure leaves a lock taken, and no task
\* waits for ever behind others that retry.
EveryTaskEnds == \A t \in Tasks : <>(pc[t] = "done")
=============================================================================
