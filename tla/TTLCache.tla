------------------------------ MODULE TTLCache ------------------------------
(***************************************************************************)
(* utils/cache.py: an OrderedDict, least recently used entry first, whose  *)
(* entries expire Ttl after they were set and are dropped when looked up   *)
(* or pushed out.  Every method holds the lock, so each is one step.       *)
(***************************************************************************)
EXTENDS Integers, Sequences, SequencesExt

CONSTANTS
  Keys, Values, None,
  MaxSize, Ttl,
  MaxTime        \* bound on the clock

ASSUME CacheAssumption ==
  MaxSize \in Nat /\ Ttl \in Int /\ MaxTime \in Nat /\ None \notin Values

VARIABLES
  now,     \* time.monotonic()
  data,    \* entries [key, value, expires_at], least recently used first
  ret,     \* what the last get() returned
  put,     \* history: last value set per key since the last clear, and when
  order    \* history: keys used since the last clear, least recently used first

vars == <<now, data, ret, put, order>>

Entry == [key : Keys, value : Values, expires_at : Int]
NoPut == [value |-> None, at |-> 0]

TypeOK ==
  /\ now \in Nat
  /\ data \in Seq(Entry) /\ Len(data) <= MaxSize
  /\ \A i, j \in DOMAIN data : data[i].key = data[j].key => i = j
  /\ ret \in Values \union {None}
  /\ put \in [Keys -> [value : Values \union {None}, at : Nat]]
  /\ order \in Seq(Keys)

Init == /\ now = 0 /\ data = <<>> /\ ret = None
        /\ put = [k \in Keys |-> NoPut] /\ order = <<>>

Lookup(k) == {i \in DOMAIN data : data[i].key = k}

\* s without the element at the place of a set of at most one place.
Drop(s, places) == IF places = {} THEN s ELSE RemoveAt(s, CHOOSE i \in places : TRUE)

Without(k) == Drop(data, Lookup(k))
Used(k) == order' = Append(Drop(order, {n \in DOMAIN order : order[n] = k}), k)

\* Mutation: one tick too long.
ExpiredLate(e) == now > e.expires_at + 1

Expired(e) == now > e.expires_at

\* get() without an entry, or with the cache turned off.
Miss(k) ==
  /\ Ttl <= 0 \/ Lookup(k) = {}
  /\ ret' = None
  /\ UNCHANGED <<now, data, put, order>>

\* get() finds an entry whose time is over and drops it.
Expire(k) ==
  /\ Ttl > 0 /\ \E i \in Lookup(k) : Expired(data[i])
  /\ data' = Without(k) /\ ret' = None
  /\ UNCHANGED <<now, put, order>>

\* get() finds a value; its entry becomes the most recently used.
Hit(k) ==
  /\ Ttl > 0
  /\ \E i \in Lookup(k) :
       /\ ~Expired(data[i])
       /\ data' = Append(Without(k), data[i]) /\ ret' = data[i].value
  /\ Used(k) /\ UNCHANGED <<now, put>>

Get(k) == Miss(k) \/ Expire(k) \/ Hit(k)

\* Mutation: entries are pushed out only when there are twice as many.
EvictLate(s) == IF Len(s) > 2 * MaxSize THEN SubSeq(s, Len(s) - MaxSize + 1, Len(s)) ELSE s

\* Mutation: popitem() at the wrong end.
EvictNewest(s) == IF Len(s) > MaxSize THEN SubSeq(s, 1, MaxSize) ELSE s

\* popitem(last=False) while there are more than MaxSize entries.
Evict(s) == IF Len(s) > MaxSize THEN SubSeq(s, Len(s) - MaxSize + 1, Len(s)) ELSE s

\* set() stores the value as most recently used and pops the least recently
\* used entries while there are more than MaxSize.
Set(k, v) ==
  /\ put' = [put EXCEPT ![k] = [value |-> v, at |-> now]]
  /\ IF Ttl <= 0 \/ MaxSize <= 0 THEN UNCHANGED <<data, order>>
     ELSE LET new == Append(Without(k),
                            [key |-> k, value |-> v, expires_at |-> now + Ttl])
          IN data' = Evict(new) /\ Used(k)
  /\ UNCHANGED <<now, ret>>

Clear == /\ data' = <<>> /\ put' = [k \in Keys |-> NoPut] /\ order' = <<>>
         /\ UNCHANGED <<now, ret>>

Tick == now < MaxTime /\ now' = now + 1 /\ UNCHANGED <<data, ret, put, order>>

\* A client that stores these values.
Uses(values) == Tick \/ Clear \/ \E k \in Keys : Get(k) \/ \E v \in values : Set(k, v)
Next == Uses(Values)

Spec == Init /\ [][Next]_vars

-----------------------------------------------------------------------------
(* Correctness *)

\* The cache is a CacheSpec: no eviction, expiry or reordering makes a lookup
\* return another key's value, an overwritten one, one that has expired or one
\* from before a clear.
Abstract == INSTANCE CacheSpec
NeverLies == Abstract!Spec

\* Of the MaxSize keys used last, none is missing while its value is fresh,
\* whatever was looked up, overwritten or pushed out meanwhile.
KeepsRecent ==
  Ttl > 0 =>
    \A n \in DOMAIN order :
      (n > Len(order) - MaxSize /\ now <= put[order[n]].at + Ttl) => Lookup(order[n]) # {}
=============================================================================
