-------------------------- MODULE PolitenessProofs --------------------------
(* Theorems about Politeness, for every value of its constants. *)
EXTENDS Politeness, SequenceTheorems, TLAPS

Locks == [Domains -> Seq(Tasks)]

\* Who joins the queue of a lock takes it from nobody, and has it if it was free.
LEMMA JoinKeepsHolder ==
  ASSUME NEW lock \in Locks, NEW t \in Tasks
  PROVE  /\ Join(t, lock) \in Locks
         /\ \A u \in Tasks : Holds(u, lock) => Holds(u, Join(t, lock))
         /\ lock[Site[t]] = <<>> => Holds(t, Join(t, lock))
PROOF
<1>. DEFINE q == lock[Site[t]]
<1>1. Site[t] \in Domains /\ q \in Seq(Tasks)
  BY PolitenessAssumption DEF Locks
<1>2. Append(q, t) \in Seq(Tasks) /\ Append(q, t) # <<>>
  BY <1>1, AppendProperties
<1>3. Head(Append(q, t)) = IF q = <<>> THEN t ELSE Head(q)
  BY <1>1, HeadTailAppend
<1>4. Join(t, lock) \in Locks
  BY <1>1, <1>2 DEF Join, Locks
<1>5. ASSUME NEW u \in Tasks, Holds(u, lock) PROVE Holds(u, Join(t, lock))
  BY <1>1, <1>2, <1>3, <1>5, PolitenessAssumption DEF Holds, Join, Locks
<1>6. ASSUME q = <<>> PROVE Holds(t, Join(t, lock))
  BY <1>1, <1>2, <1>3, <1>6 DEF Holds, Join, Locks
<1>. QED
  BY <1>4, <1>5, <1>6

\* Who leaves a lock changes nothing for the other domains.
LEMMA LeaveKeepsOthers ==
  ASSUME NEW lock \in Locks, NEW t \in Tasks, Holds(t, lock)
  PROVE  /\ Leave(t, lock) \in Locks
         /\ \A u \in Tasks : Holds(u, lock) /\ Site[u] # Site[t] => Holds(u, Leave(t, lock))
         /\ \A u \in Tasks : Holds(u, lock) /\ Site[u] = Site[t] => u = t
PROOF
<1>1. Site[t] \in Domains /\ lock[Site[t]] \in Seq(Tasks) /\ lock[Site[t]] # <<>>
  BY PolitenessAssumption DEF Locks, Holds
<1>2. Tail(lock[Site[t]]) \in Seq(Tasks)
  BY <1>1, HeadTailProperties
<1>. QED
  BY <1>1, <1>2, PolitenessAssumption DEF Leave, Locks, Holds

-----------------------------------------------------------------------------
(* The invariant *)

\* Who fetches a robots.txt holds the lock of its domain.
FetcherHolds == \A t \in Tasks : pc[t] = "robots" => Holds(t, rlock)

\* Who sleeps in a bucket holds its lock, and when the sleep is over the delay
\* is: nobody else lets a request through meanwhile.
SleeperHolds ==
  \A t \in Tasks : pc[t] = "sleep" => Holds(t, block) /\ since[Site[t]] + left[t] >= Delay

PoliteInv == TypeOK /\ FetcherHolds /\ SleeperHolds

\* Tasks start outside all locks.
LEMMA PoliteInit == Init => PoliteInv
PROOF
<1>. SUFFICES ASSUME Init PROVE PoliteInv
  OBVIOUS
<1>1. <<>> \in Seq(Tasks)
  BY EmptySeq
<1>2. TypeOK
  BY <1>1, PolitenessAssumption DEF Init, TypeOK, Places
<1>. QED
  BY <1>2 DEF Init, PoliteInv, FetcherHolds, SleeperHolds

\* What any step that gets to the bucket relies on: nobody sleeps in the bucket
\* that t takes.
NobodySleeps(t) == \A u \in Tasks : pc[u] = "sleep" => Site[u] # Site[t]

\* No task but t moves.
Moves(t) == \A u \in Tasks \ {t} : pc'[u] = pc[u]

BucketTypeOK ==
  /\ pc \in [Tasks -> Places] /\ left \in [Tasks -> 0 .. Delay]
  /\ block \in Locks /\ since \in [Domains -> 0 .. Delay]

\* A task takes the bucket: the request goes out late enough, or the task sleeps
\* for what is missing and holds the lock.
LEMMA TakeBucketSafe ==
  ASSUME BucketTypeOK, SleeperHolds, NEW t \in Tasks, NEW others \in Seq(Tasks),
         pc[t] # "sleep", NobodySleeps(t), TakeBucket(t, others)
  PROVE  /\ BucketTypeOK' /\ SleeperHolds'
         /\ Moves(t) /\ pc'[t] \in {"page", "sleep"}
         /\ pc'[t] = "page" => since[Site[t]] >= Delay
PROOF
<1>. USE DEF BucketTypeOK, Locks
<1>. DEFINE d == Site[t]
<1>0. d \in Domains /\ Delay \in Nat /\ \A u \in Tasks : Site[u] \in Domains
  BY PolitenessAssumption
<1>1. CASE since[d] >= Delay
  <2>1. /\ since' = [since EXCEPT ![d] = 0] /\ pc' = [pc EXCEPT ![t] = "page"]
        /\ block' = [block EXCEPT ![d] = others] /\ left' = left
    BY <1>1 DEF TakeBucket, Goto
  <2>2. BucketTypeOK'
    BY <1>0, <2>1 DEF Places
  <2>3. SleeperHolds'
    BY <1>0, <2>1 DEF SleeperHolds, NobodySleeps, Holds
  <2>. QED
    BY <1>1, <2>1, <2>2, <2>3 DEF Moves
<1>2. CASE ~(since[d] >= Delay)
  <2>1. /\ left' = [left EXCEPT ![t] = Delay - since[d]] /\ pc' = [pc EXCEPT ![t] = "sleep"]
        /\ block' = [block EXCEPT ![d] = <<t>> \o others] /\ since' = since
    BY <1>2 DEF TakeBucket, Goto
  <2>2. <<t>> \o others \in Seq(Tasks) /\ <<t>> \o others # <<>> /\ Head(<<t>> \o others) = t
    <3>1. <<t>> \in Seq(Tasks) /\ Len(<<t>>) = 1 /\ <<t>>[1] = t
      OBVIOUS
    <3>2. /\ <<t>> \o others \in Seq(Tasks) /\ Len(<<t>> \o others) = 1 + Len(others)
          /\ (<<t>> \o others)[1] = t /\ Len(others) \in Nat
      BY <3>1, ConcatProperties, LenProperties
    <3>. QED
      BY <3>2, EmptySeq
  <2>3. BucketTypeOK'
    BY <1>0, <1>2, <2>1, <2>2 DEF Places
  <2>4. SleeperHolds'
    BY <1>0, <2>1, <2>2 DEF SleeperHolds, NobodySleeps, Holds
  <2>. QED
    BY <2>1, <2>3, <2>4 DEF Moves
<1>. QED
  BY <1>1, <1>2

\* The way from the answer of is_allowed to the next await, by whichever of its
\* three ends.
LEMMA ProceedSafe ==
  ASSUME BucketTypeOK, SleeperHolds, NEW t \in Tasks, NEW v, pc[t] # "sleep", Proceed(t, v)
  PROVE  /\ BucketTypeOK' /\ SleeperHolds'
         /\ Moves(t)
         /\ pc'[t] \in {"done", "bucket_wait", "page", "sleep"}
         /\ pc'[t] = "page" => since[Site[t]] >= Delay
PROOF
<1>. USE DEF BucketTypeOK
<1>1. CASE ~CanFetch(t, v) /\ Goto(t, "done") /\ UNCHANGED bucket
  <2>1. pc' = [pc EXCEPT ![t] = "done"] /\ UNCHANGED <<left, block, since>>
    BY <1>1 DEF Goto, bucket
  <2>. QED
    BY <2>1 DEF SleeperHolds, Holds, Places, Moves
<1>2. CASE block[Site[t]] = <<>> /\ TakeBucket(t, <<>>)
  <2>1. NobodySleeps(t)
    BY <1>2 DEF NobodySleeps, SleeperHolds, Holds
  <2>2. <<>> \in Seq(Tasks)
    BY EmptySeq
  <2>. QED
    BY <1>2, <2>1, <2>2, TakeBucketSafe
<1>3. CASE /\ block' = Join(t, block) /\ Goto(t, "bucket_wait") /\ UNCHANGED <<left, since>>
  <2>1. pc' = [pc EXCEPT ![t] = "bucket_wait"]
    BY <1>3 DEF Goto
  <2>2. block' \in Locks /\ \A u \in Tasks : Holds(u, block) => Holds(u, block)'
    BY <1>3, JoinKeepsHolder DEF Holds
  <2>. QED
    BY <1>3, <2>1, <2>2 DEF SleeperHolds, Places, Moves
<1>. QED
  BY <1>1, <1>2, <1>3 DEF Proceed

-----------------------------------------------------------------------------
(* The steps *)

\* What one step of the whole system may do, as far as the two action properties
\* speak of it.
Allowed ==
  \A t \in Tasks :
    /\ Reaches(t, "robots") => /\ ~Fresh(Site[t])
                               /\ \A u \in Tasks \ {t} : Site[u] = Site[t] => pc[u] # "robots"
    /\ Reaches(t, "page") => since[Site[t]] >= Delay

\* What the steps of a task t share: it alone moves, to a place that it may go to.
LEMMA OneMoves ==
  ASSUME TypeOK, NEW t \in Tasks, Moves(t),
         pc'[t] = "robots" => /\ ~Fresh(Site[t])
                              /\ \A u \in Tasks \ {t} : Site[u] = Site[t] => pc[u] # "robots",
         pc'[t] = "page" => since[Site[t]] >= Delay
  PROVE  Allowed
PROOF
  BY DEF Moves, Allowed, Reaches

\* The locks that nobody touches keep their holders.
LEMMA RobotsKept ==
  ASSUME TypeOK, FetcherHolds, NEW t \in Tasks, pc'[t] # "robots",
         Moves(t), UNCHANGED rlock
  PROVE  FetcherHolds'
PROOF
  BY DEF Moves, FetcherHolds, Holds

\* When t gives back the lock of its domain, no other task fetches its robots.txt.
LEMMA RobotsLeft ==
  ASSUME TypeOK, FetcherHolds, NEW t \in Tasks, pc'[t] # "robots",
         Moves(t), Holds(t, rlock), rlock' = Leave(t, rlock)
  PROVE  FetcherHolds' /\ rlock' \in Locks
PROOF
<1>1. rlock \in Locks
  BY DEF TypeOK, Locks
<1>2. rlock' \in Locks
  BY <1>1, LeaveKeepsOthers
<1>3. ASSUME NEW u \in Tasks, pc'[u] = "robots" PROVE Holds(u, rlock)'
  <2>1. pc[u] = "robots" /\ u # t
    BY <1>3 DEF TypeOK, Moves
  <2>2. Holds(u, rlock) /\ Site[u] # Site[t]
    BY <1>1, <2>1, LeaveKeepsOthers DEF FetcherHolds
  <2>3. Holds(u, Leave(t, rlock))
    BY <1>1, <2>2, LeaveKeepsOthers
  <2>. QED
    BY <2>3 DEF Holds
<1>. QED
  BY <1>2, <1>3 DEF FetcherHolds

\* Begin: a task that joins the queue for robots.txt, or needs not.
LEMMA BeginStep ==
  ASSUME PoliteInv, NEW t \in Tasks, Begin(t)
  PROVE  PoliteInv' /\ Allowed
PROOF
<1>0. TypeOK /\ BucketTypeOK /\ FetcherHolds /\ SleeperHolds /\ rlock \in Locks
  BY DEF PoliteInv, TypeOK, BucketTypeOK, Locks
<1>1. CASE Fresh(Site[t]) /\ Proceed(t, verdict[Site[t]]) /\ UNCHANGED rlock
  <2>1. pc[t] # "sleep" /\ UNCHANGED <<attempt, verdict, age>>
    BY DEF Begin
  <2>2. /\ BucketTypeOK' /\ SleeperHolds' /\ Moves(t)
        /\ pc'[t] \in Places /\ pc'[t] # "robots"
        /\ pc'[t] = "page" => since[Site[t]] >= Delay
    BY <1>0, <1>1, <2>1, ProceedSafe DEF Places
  <2>3. TypeOK'
    BY <1>0, <1>1, <2>1, <2>2 DEF TypeOK, BucketTypeOK, Locks
  <2>. QED
    BY <1>0, <1>1, <2>2, <2>3, OneMoves, RobotsKept DEF PoliteInv
<1>2. CASE /\ ~Fresh(Site[t])
           /\ Goto(t, IF rlock[Site[t]] = <<>> THEN "robots" ELSE "robots_wait")
           /\ rlock' = Join(t, rlock) /\ UNCHANGED bucket
  <2>1. UNCHANGED <<attempt, verdict, age, left, block, since>>
    BY <1>2 DEF Begin, bucket
  <2>2. rlock' \in Locks /\ \A u \in Tasks : Holds(u, rlock) => Holds(u, rlock)'
    BY <1>0, <1>2, JoinKeepsHolder DEF Holds
  <2>3. CASE rlock[Site[t]] = <<>>
    <3>1. pc' = [pc EXCEPT ![t] = "robots"]
      BY <1>2, <2>3 DEF Goto
    <3>2. Holds(t, rlock)'
      BY <1>0, <1>2, <2>3, JoinKeepsHolder DEF Holds
    <3>3. \A u \in Tasks \ {t} : Site[u] = Site[t] => pc[u] # "robots"
      BY <1>0, <2>3 DEF FetcherHolds, Holds
    <3>4. TypeOK' /\ FetcherHolds' /\ SleeperHolds'
      BY <1>0, <2>1, <2>2, <3>1, <3>2
         DEF TypeOK, FetcherHolds, SleeperHolds, Holds, Places, Locks
    <3>5. Moves(t) /\ pc'[t] = "robots"
      BY <1>0, <3>1 DEF TypeOK, Moves
    <3>. QED
      BY <1>0, <1>2, <3>3, <3>4, <3>5, OneMoves DEF PoliteInv
  <2>4. CASE rlock[Site[t]] # <<>>
    <3>1. pc' = [pc EXCEPT ![t] = "robots_wait"]
      BY <1>2, <2>4 DEF Goto
    <3>2. TypeOK' /\ FetcherHolds' /\ SleeperHolds'
      BY <1>0, <2>1, <2>2, <3>1
         DEF TypeOK, FetcherHolds, SleeperHolds, Holds, Places, Locks
    <3>3. Moves(t) /\ pc'[t] = "robots_wait"
      BY <1>0, <3>1 DEF TypeOK, Moves
    <3>. QED
      BY <1>0, <3>2, <3>3, OneMoves DEF PoliteInv
  <2>. QED
    BY <2>3, <2>4
<1>. QED
  BY <1>1, <1>2 DEF Begin

\* EnterRobots: a waiter that has got the lock finds the file cached, or fetches it.
LEMMA EnterRobotsStep ==
  ASSUME PoliteInv, NEW t \in Tasks, EnterRobots(t)
  PROVE  PoliteInv' /\ Allowed
PROOF
<1>0. /\ TypeOK /\ BucketTypeOK /\ FetcherHolds /\ SleeperHolds /\ rlock \in Locks
      /\ pc[t] = "robots_wait" /\ Holds(t, rlock) /\ UNCHANGED <<attempt, verdict, age>>
  BY DEF PoliteInv, TypeOK, BucketTypeOK, Locks, EnterRobots
<1>1. CASE Proceed(t, verdict[Site[t]]) /\ rlock' = Leave(t, rlock)
  <2>1. /\ BucketTypeOK' /\ SleeperHolds' /\ Moves(t)
        /\ pc'[t] \in Places /\ pc'[t] # "robots"
        /\ pc'[t] = "page" => since[Site[t]] >= Delay
    BY <1>0, <1>1, ProceedSafe DEF Places
  <2>2. FetcherHolds' /\ rlock' \in Locks
    BY <1>0, <1>1, <2>1, RobotsLeft
  <2>3. TypeOK'
    BY <1>0, <2>1, <2>2 DEF TypeOK, BucketTypeOK, Locks
  <2>. QED
    BY <1>0, <2>1, <2>2, <2>3, OneMoves DEF PoliteInv
<1>2. CASE ~Fresh(Site[t]) /\ Goto(t, "robots") /\ UNCHANGED <<rlock, bucket>>
  <2>1. pc' = [pc EXCEPT ![t] = "robots"] /\ UNCHANGED <<left, block, since>>
    BY <1>2 DEF Goto, bucket
  <2>2. \A u \in Tasks \ {t} : Site[u] = Site[t] => pc[u] # "robots"
    BY <1>0 DEF FetcherHolds, Holds
  <2>3. TypeOK' /\ FetcherHolds' /\ SleeperHolds'
    BY <1>0, <1>2, <2>1 DEF TypeOK, FetcherHolds, SleeperHolds, Holds, Places
  <2>4. Moves(t) /\ pc'[t] = "robots"
    BY <1>0, <2>1 DEF TypeOK, Moves
  <2>. QED
    BY <1>0, <1>2, <2>2, <2>3, <2>4, OneMoves DEF PoliteInv
<1>. QED
  BY <1>1, <1>2 DEF EnterRobots

\* RobotsAnswer: the fetch has ended, however it did, and the lock is given back.
LEMMA RobotsAnswerStep ==
  ASSUME PoliteInv, NEW t \in Tasks, RobotsAnswer(t)
  PROVE  PoliteInv' /\ Allowed
PROOF
<1>0. /\ TypeOK /\ BucketTypeOK /\ FetcherHolds /\ SleeperHolds
      /\ pc[t] = "robots" /\ Holds(t, rlock) /\ rlock' = Leave(t, rlock)
      /\ age' = [age EXCEPT ![Site[t]] = 0] /\ UNCHANGED attempt
  BY DEF PoliteInv, FetcherHolds, TypeOK, BucketTypeOK, Locks, RobotsAnswer
<1>1. PICK v \in Outcomes : verdict' = [verdict EXCEPT ![Site[t]] = v] /\ Proceed(t, v)
  BY DEF RobotsAnswer
<1>2. /\ BucketTypeOK' /\ SleeperHolds' /\ Moves(t)
      /\ pc'[t] \in Places /\ pc'[t] # "robots"
      /\ pc'[t] = "page" => since[Site[t]] >= Delay
  BY <1>0, <1>1, ProceedSafe DEF Places
<1>3. FetcherHolds' /\ rlock' \in Locks
  BY <1>0, <1>2, RobotsLeft
<1>4. age' \in [Domains -> 0 .. TTL + 1] /\ verdict' \in [Domains -> Outcomes \union {"none"}]
  BY <1>0, <1>1, PolitenessAssumption DEF TypeOK
<1>5. TypeOK'
  BY <1>0, <1>2, <1>3, <1>4 DEF TypeOK, BucketTypeOK, Locks
<1>. QED
  BY <1>0, <1>2, <1>3, <1>5, OneMoves DEF PoliteInv

\* EnterBucket: a waiter that has got the bucket's lock finds nobody asleep in it.
LEMMA EnterBucketStep ==
  ASSUME PoliteInv, NEW t \in Tasks, EnterBucket(t)
  PROVE  PoliteInv' /\ Allowed
PROOF
<1>0. /\ TypeOK /\ BucketTypeOK /\ FetcherHolds /\ SleeperHolds
      /\ pc[t] = "bucket_wait" /\ Holds(t, block) /\ TakeBucket(t, Tail(block[Site[t]]))
      /\ UNCHANGED <<attempt, verdict, age, rlock>>
  BY DEF PoliteInv, TypeOK, BucketTypeOK, Locks, EnterBucket, robots
<1>1. Tail(block[Site[t]]) \in Seq(Tasks)
  <2>1. block[Site[t]] \in Seq(Tasks) /\ block[Site[t]] # <<>>
    BY <1>0, PolitenessAssumption DEF BucketTypeOK, Locks, Holds
  <2>. QED
    BY <2>1, HeadTailProperties
<1>2. NobodySleeps(t)
  BY <1>0 DEF NobodySleeps, SleeperHolds, Holds
<1>3. /\ BucketTypeOK' /\ SleeperHolds' /\ Moves(t)
      /\ pc'[t] \in Places /\ pc'[t] # "robots"
      /\ pc'[t] = "page" => since[Site[t]] >= Delay
  BY <1>0, <1>1, <1>2, TakeBucketSafe DEF Places
<1>4. FetcherHolds'
  BY <1>0, <1>3, RobotsKept
<1>5. TypeOK'
  BY <1>0, <1>3 DEF TypeOK, BucketTypeOK, Locks
<1>. QED
  BY <1>0, <1>3, <1>4, <1>5, OneMoves DEF PoliteInv

\* Wake: a sleeper does not look at the clock again, and need not.
LEMMA WakeStep ==
  ASSUME PoliteInv, NEW t \in Tasks, Wake(t)
  PROVE  PoliteInv' /\ Allowed
PROOF
<1>0. /\ TypeOK /\ FetcherHolds /\ SleeperHolds /\ block \in Locks
      /\ pc[t] = "sleep" /\ left[t] = 0 /\ Holds(t, block)
      /\ since' = [since EXCEPT ![Site[t]] = 0] /\ block' = Leave(t, block)
      /\ pc' = [pc EXCEPT ![t] = "page"]
      /\ UNCHANGED <<attempt, left, verdict, age, rlock>>
  BY DEF PoliteInv, SleeperHolds, TypeOK, Locks, Wake, Goto, robots
<1>1. since[Site[t]] >= Delay
  <2>1. Site[t] \in Domains /\ since[Site[t]] \in 0 .. Delay /\ Delay \in Nat
    BY <1>0, PolitenessAssumption DEF TypeOK
  <2>2. since[Site[t]] + left[t] >= Delay
    BY <1>0 DEF SleeperHolds
  <2>. QED
    BY <1>0, <2>1, <2>2
<1>2. Moves(t) /\ pc'[t] = "page"
  BY <1>0 DEF TypeOK, Moves
<1>3. block' \in Locks
  BY <1>0, LeaveKeepsOthers
<1>4. TypeOK'
  BY <1>0, <1>3, PolitenessAssumption DEF TypeOK, Locks, Places
<1>5. FetcherHolds'
  BY <1>0, <1>2, RobotsKept
<1>6. ASSUME NEW u \in Tasks, pc'[u] = "sleep"
      PROVE  Holds(u, block)' /\ since'[Site[u]] + left'[u] >= Delay
  <2>1. pc[u] = "sleep" /\ u # t
    BY <1>0, <1>6 DEF TypeOK
  <2>2. Holds(u, block) /\ Site[u] # Site[t] /\ since[Site[u]] + left[u] >= Delay
    BY <1>0, <2>1, LeaveKeepsOthers DEF SleeperHolds
  <2>3. Holds(u, Leave(t, block))
    BY <1>0, <2>2, LeaveKeepsOthers
  <2>4. since'[Site[u]] = since[Site[u]]
    BY <1>0, <2>2, PolitenessAssumption DEF TypeOK
  <2>. QED
    BY <1>0, <2>2, <2>3, <2>4 DEF Holds
<1>. QED
  BY <1>0, <1>1, <1>2, <1>4, <1>5, <1>6, OneMoves DEF PoliteInv, SleeperHolds

\* The answer of the page, and the retries, touch no lock.
LEMMA PageStep ==
  ASSUME PoliteInv, NEW t \in Tasks, PageAnswer(t) \/ PageFails(t) \/ Retry(t)
  PROVE  PoliteInv' /\ Allowed
PROOF
<1>0. /\ TypeOK /\ FetcherHolds /\ SleeperHolds
      /\ UNCHANGED <<verdict, age, rlock, left, block, since>>
  BY DEF PoliteInv, PageAnswer, PageFails, Retry, robots, bucket
<1>1. PICK place \in {"done", "backoff", "start"} : pc' = [pc EXCEPT ![t] = place]
  BY DEF PageAnswer, PageFails, Retry, Goto
<1>2. Moves(t) /\ pc'[t] = place
  BY <1>0, <1>1 DEF TypeOK, Moves
<1>3. attempt' \in [Tasks -> 1 .. MaxAttempts]
  BY <1>0, PolitenessAssumption DEF TypeOK, PageAnswer, PageFails, Retry
<1>4. TypeOK' /\ SleeperHolds'
  BY <1>0, <1>1, <1>3 DEF TypeOK, SleeperHolds, Holds, Places
<1>5. FetcherHolds'
  BY <1>0, <1>2, RobotsKept
<1>. QED
  BY <1>0, <1>2, <1>4, <1>5, OneMoves DEF PoliteInv

\* Time: what a sleeper has still to sleep and what the bucket still asks for
\* shrink together.
LEMMA TickStep ==
  ASSUME PoliteInv, Tick
  PROVE  PoliteInv' /\ Allowed
PROOF
<1>0. TypeOK /\ FetcherHolds /\ SleeperHolds
  BY DEF PoliteInv
<1>1. TypeOK'
  BY <1>0, PolitenessAssumption DEF TypeOK, Tick
<1>2. FetcherHolds'
  BY <1>0 DEF FetcherHolds, Holds, Tick
<1>3. ASSUME NEW u \in Tasks, pc[u] = "sleep"
      PROVE  Holds(u, block)' /\ since'[Site[u]] + left'[u] >= Delay
  <2>1. /\ Holds(u, block) /\ since[Site[u]] + left[u] >= Delay /\ block' = block
        /\ Site[u] \in Domains /\ since[Site[u]] \in 0 .. Delay /\ left[u] \in 0 .. Delay
    BY <1>0, <1>3, PolitenessAssumption DEF SleeperHolds, TypeOK, Tick
  <2>2. /\ since'[Site[u]] = IF since[Site[u]] < Delay THEN since[Site[u]] + 1 ELSE since[Site[u]]
        /\ left'[u] = IF left[u] > 0 THEN left[u] - 1 ELSE 0
    BY <2>1 DEF Tick
  <2>. QED
    BY <2>1, <2>2, PolitenessAssumption DEF Holds
<1>4. Allowed
  BY DEF Allowed, Reaches, Tick
<1>5. pc' = pc
  BY DEF Tick
<1>. QED
  BY <1>1, <1>2, <1>3, <1>4, <1>5 DEF PoliteInv, SleeperHolds

\* Every step keeps the locks exclusive and the buckets honest, and is one that
\* the action properties allow.
LEMMA PoliteStep == PoliteInv /\ [Next]_vars => PoliteInv' /\ (Allowed \/ UNCHANGED vars)
PROOF
<1>. SUFFICES ASSUME PoliteInv, [Next]_vars PROVE PoliteInv' /\ (Allowed \/ UNCHANGED vars)
  OBVIOUS
<1>1. ASSUME NEW t \in Tasks, TaskStep(t) PROVE PoliteInv' /\ Allowed
  BY <1>1, BeginStep, EnterRobotsStep, RobotsAnswerStep, EnterBucketStep, WakeStep, PageStep
     DEF TaskStep
<1>2. CASE Tick
  BY <1>2, TickStep
<1>3. CASE UNCHANGED vars
  BY <1>3 DEF vars, PoliteInv, TypeOK, FetcherHolds, SleeperHolds, Holds
<1>. QED
  BY <1>1, <1>2, <1>3 DEF Next

-----------------------------------------------------------------------------
(* The theorems *)

\* The variables of _fetch_one's tasks, RobotsCache and the buckets keep their
\* types: no attempt after the last, no sleep longer than the delay.
THEOREM TypeCorrect == Spec => []TypeOK
PROOF
<1>1. PoliteInv => TypeOK
  BY DEF PoliteInv
<1>2. PoliteInv /\ [Next]_vars => PoliteInv'
  BY PoliteStep
<1>. QED
  BY <1>1, <1>2, PoliteInit, PTL DEF Spec

\* RobotsCache serializes the fetches of a domain: for any tasks and domains, a
\* task fetches robots.txt only when none is cached that is fresh and no other
\* task fetches it.
THEOREM RobotsFetchedOnceCorrect == Spec => RobotsFetchedOnce
PROOF
<1>1. PoliteInv /\ [Next]_vars =>
        [\A t \in Tasks : Reaches(t, "robots") =>
           /\ ~Fresh(Site[t])
           /\ \A u \in Tasks \ {t} : Site[u] = Site[t] => pc[u] # "robots"]_vars
  BY PoliteStep DEF Allowed
<1>2. PoliteInv /\ [Next]_vars => PoliteInv'
  BY PoliteStep
<1>. QED
  BY <1>1, <1>2, PoliteInit, PTL DEF Spec, RobotsFetchedOnce

\* The buckets keep requests apart: for any number of tasks that sleep, wait or
\* retry, no request goes to a domain less than the delay after the one before.
THEOREM SpacedCorrect == Spec => Spaced
PROOF
<1>1. PoliteInv /\ [Next]_vars =>
        [\A t \in Tasks : Reaches(t, "page") => since[Site[t]] >= Delay]_vars
  BY PoliteStep DEF Allowed
<1>2. PoliteInv /\ [Next]_vars => PoliteInv'
  BY PoliteStep
<1>. QED
  BY <1>1, <1>2, PoliteInit, PTL DEF Spec, Spaced
=============================================================================
