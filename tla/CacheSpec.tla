----------------------------- MODULE CacheSpec ------------------------------
(***************************************************************************)
(* What users of a time-limited cache may rely on: a lookup returns the    *)
(* last value stored under the key, if it is not older than Ttl and no     *)
(* clear came after it, or nothing.  A cache may forget, never lie.        *)
(***************************************************************************)
EXTENDS Integers

CONSTANTS Keys, Values, None, Ttl

VARIABLES now,   \* the clock
          put,   \* per key, the last value stored since the last clear, and when
          ret    \* the result of the last lookup

vars == <<now, put, ret>>

NoPut == [value |-> None, at |-> 0]

Init == now = 0 /\ put = [k \in Keys |-> NoPut] /\ ret = None

Fresh(k) == put[k].value # None /\ now <= put[k].at + Ttl

Get(k) == /\ ret' = None \/ (Fresh(k) /\ ret' = put[k].value)
          /\ UNCHANGED <<now, put>>

Set(k, v) == /\ put' = [put EXCEPT ![k] = [value |-> v, at |-> now]]
             /\ UNCHANGED <<now, ret>>

Clear == put' = [k \in Keys |-> NoPut] /\ UNCHANGED <<now, ret>>

Tick == now' = now + 1 /\ UNCHANGED <<put, ret>>

Next == Tick \/ Clear \/ \E k \in Keys : Get(k) \/ \E v \in Values : Set(k, v)

Spec == Init /\ [][Next]_vars
=============================================================================
