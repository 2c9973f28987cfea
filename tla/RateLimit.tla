----------------------------- MODULE RateLimit ------------------------------
(***************************************************************************)
(* RateLimitMiddleware: a sliding window of admission times per client     *)
(* key.  Time is counted in ticks, several to the second, because the      *)
(* Retry-After header rounds to whole seconds and the clock does not.      *)
(* Gateway says when a request comes to it.                                *)
(***************************************************************************)
EXTENDS Integers, Sequences, FiniteSets

CONSTANTS
  Keys,           \* client keys: an API key or an address
  Limit,          \* requests_per_minute
  Window,         \* _WINDOW_S, in ticks
  TicksPerSecond,
  MaxTime         \* bound on the clock

ASSUME RateAssumption ==
  /\ Limit \in Nat \ {0}       \* 0 turns the middleware off
  /\ Window \in Nat \ {0} /\ TicksPerSecond \in Nat \ {0}

VARIABLES
  now,        \* time.monotonic()
  hits,       \* per key, the admission times kept in the deque
  admitted    \* history: per key, every admission time

TypeOK == /\ now \in Nat
          /\ hits \in [Keys -> Seq(Nat)] /\ \A k \in Keys : Len(hits[k]) <= Limit
          /\ admitted \in [Keys -> Seq(Nat)]

Init == /\ now = 0
        /\ hits = [k \in Keys |-> <<>>]
        /\ admitted = [k \in Keys |-> <<>>]

Tick == now < MaxTime /\ now' = now + 1 /\ UNCHANGED <<hits, admitted>>

\* Mutation: an entry exactly Window old is popped too.
PoppedAtWindow(w, t) == CHOOSE n \in 0 .. Len(w) :
                          /\ \A j \in 1 .. n : t - w[j] >= Window
                          /\ n < Len(w) => t - w[n + 1] < Window

\* How many entries the loop pops from the window w at time t: those older
\* than Window, up to the first that is not.
Popped(w, t) == CHOOSE n \in 0 .. Len(w) :
                  /\ \A j \in 1 .. n : t - w[j] > Window
                  /\ n < Len(w) => t - w[n + 1] <= Window
Prune(w, t) == SubSeq(w, Popped(w, t) + 1, Len(w))

\* Mutation: a full window admits one more.
AdmitsOneMore(w, t) == Len(Prune(w, t)) <= Limit

Admits(w, t) == Len(Prune(w, t)) < Limit

\* dispatch() for a request with key k: both outcomes leave the window pruned.
Admit(k) ==
  /\ Admits(hits[k], now)
  /\ hits' = [hits EXCEPT ![k] = Append(Prune(@, now), now)]
  /\ admitted' = [admitted EXCEPT ![k] = Append(@, now)]
  /\ UNCHANGED now

Reject(k) ==
  /\ ~Admits(hits[k], now)
  /\ hits' = [hits EXCEPT ![k] = Prune(@, now)]
  /\ UNCHANGED <<now, admitted>>

\* Mutation: rounded down.
RetryAfterFloor(w, t) == (Window - (t - Prune(w, t)[1])) \div TicksPerSecond

\* The seconds a rejected client is told to wait.
RetryAfter(w, t) == (Window - (t - Prune(w, t)[1])) \div TicksPerSecond + 1

-----------------------------------------------------------------------------
(* Correctness *)

\* Sliding, not fixed, windows: of any Limit + 1 admissions of a key, the last
\* comes more than Window after the first, wherever a minute is laid.  And no key
\* is refused for less than Limit admissions of the last Window: refusals do not
\* count, nor does what is older.
LimitIsExact ==
  \A k \in Keys :
    /\ \A i \in 1 .. Len(admitted[k]) - Limit : admitted[k][i + Limit] - admitted[k][i] > Window
    /\ ~Admits(hits[k], now) =>
         Cardinality({i \in DOMAIN admitted[k] : now - admitted[k][i] <= Window}) >= Limit

\* Retry-After is honest: a client that is refused now and alone on its key is
\* admitted when it comes back after the seconds it was told, not before the
\* last of them has begun.
RetryAfterIsEnough ==
  \A k \in Keys : ~Admits(hits[k], now) =>
    LET r == RetryAfter(hits[k], now) IN
    /\ Admits(hits[k], now + r * TicksPerSecond)
    /\ ~Admits(hits[k], now + (r - 1) * TicksPerSecond)
=============================================================================
