------------------------------ MODULE Gateway -------------------------------
(***************************************************************************)
(* What a request passes on its way to a handler, as create_app wraps it:  *)
(* the metrics middleware around the rate limiter around the API keys.     *)
(* Each middleware decides without an await, so an arrival is one step;    *)
(* handlers run concurrently and end in any order.                         *)
(***************************************************************************)
EXTENDS RateLimit, Functions

CONSTANTS
  Valid,         \* client keys with an accepted API key; Keys when none is configured
  Paths,         \* raw URL paths
  Route,         \* per path, the route that serves it
  Exempt,        \* EXEMPT_PATHS
  MaxRequests    \* bound on the requests

ASSUME GatewayAssumption ==
  /\ IsFiniteSet(Keys) /\ IsFiniteSet(Paths)
  /\ Valid \subseteq Keys /\ Exempt \subseteq Paths /\ DOMAIN Route = Paths
  /\ \A p \in Exempt : Route[p] = p

VARIABLES
  running,    \* per path, the handlers at work
  counts,     \* _request_counts: per label and status
  raised,     \* handlers that raised, answered by the server with 500
  refused,    \* history: requests over the limit
  exempted    \* history: requests to exempt paths

limitVars == <<now, hits, admitted>>
vars == <<limitVars, running, counts, raised, refused, exempted>>

Labels   == Paths \union {Route[p] : p \in Paths}
\* "done" stands for every status that a handler answers with.
Statuses == {"done", "401", "429"}

Total(f) == SumFunction(f)
Counted(status) == Total([l \in Labels |-> counts[<<l, status>>]])
Admissions(keys) == Total([k \in keys |-> Len(admitted[k])])

GatewayTypeOK ==
  /\ TypeOK
  /\ running \in [Paths -> Nat] /\ counts \in [Labels \X Statuses -> Nat]
  /\ raised \in Nat /\ refused \in Nat /\ exempted \in Nat

GatewayInit ==
  /\ Init
  /\ running = [p \in Paths |-> 0]
  /\ counts = [c \in Labels \X Statuses |-> 0]
  /\ raised = 0 /\ refused = 0 /\ exempted = 0

Arrives == Admissions(Keys) + refused + exempted < MaxRequests

\* record(), once a response is there.
Record(label, status) == counts' = [counts EXCEPT ![<<label, status>>] = @ + 1]
Start(p) == running' = [running EXCEPT ![p] = @ + 1]

\* A request that is turned away has met no route: it is counted under its path.
Limited(k, p) ==
  /\ Arrives /\ p \notin Exempt
  /\ Reject(k) /\ Record(p, "429") /\ refused' = refused + 1
  /\ UNCHANGED <<running, raised, exempted>>

\* Mutation: the API keys are looked at before the limiter.
UnauthorisedFirst(k, p) ==
  /\ Arrives /\ p \notin Exempt /\ k \notin Valid
  /\ Record(p, "401")
  /\ UNCHANGED <<limitVars, running, raised, refused, exempted>>

Unauthorised(k, p) ==
  /\ Arrives /\ p \notin Exempt /\ k \notin Valid
  /\ Admit(k) /\ Record(p, "401")
  /\ UNCHANGED <<running, raised, refused, exempted>>

Handle(k, p) ==
  /\ Arrives /\ p \notin Exempt /\ k \in Valid
  /\ Admit(k) /\ Start(p)
  /\ UNCHANGED <<counts, raised, refused, exempted>>

\* Neither limit nor key for an exempt path.
HandleExempt(p) ==
  /\ Arrives /\ p \in Exempt /\ Start(p) /\ exempted' = exempted + 1
  /\ UNCHANGED <<limitVars, counts, raised, refused>>

Leave(p) == running[p] > 0 /\ running' = [running EXCEPT ![p] = @ - 1]

Finish(p) ==
  /\ Leave(p) /\ Record(Route[p], "done")
  /\ UNCHANGED <<limitVars, raised, refused, exempted>>

\* The exception passes through all of them, so nothing is recorded; the server
\* answers.
Raise(p) ==
  /\ Leave(p) /\ raised' = raised + 1
  /\ UNCHANGED <<limitVars, counts, refused, exempted>>

Time == Tick /\ UNCHANGED <<running, counts, raised, refused, exempted>>

Next == \/ Time
        \/ \E p \in Paths : \/ \E k \in Keys : Limited(k, p) \/ Unauthorised(k, p) \/ Handle(k, p)
                            \/ HandleExempt(p) \/ Finish(p) \/ Raise(p)

Spec == GatewayInit /\ [][Next]_vars

-----------------------------------------------------------------------------
(* Correctness *)

\* The order of the middlewares shows in the counters, at any time and however
\* handlers overlap: what the limiter lets through is a handler at work, a
\* counted answer of one, a raised one or, key by key that is not accepted, a
\* counted 401, so that a flood of bad keys is limited like any other; what it
\* does not let through is a counted 429; exempt requests use up nobody's limit.
EveryRequestAccounted ==
  /\ Admissions(Valid) + exempted = Total(running) + Counted("done") + raised
  /\ Admissions(Keys \ Valid) = Counted("401")
  /\ refused = Counted("429")
=============================================================================
