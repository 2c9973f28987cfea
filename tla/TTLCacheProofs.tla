--------------------------- MODULE TTLCacheProofs ---------------------------
(***************************************************************************)
(* Proofs about TTLCache, for every set of keys and values, every size and *)
(* every time to live: its state is well formed, the keys used last stay   *)
(* until their time is over, and it implements CacheSpec: it may forget,   *)
(* but it never lies.  And about SearchPath: the query processor honours   *)
(* every query, and with the embedder's cache behind it every response is  *)
(* the one asked for.                                                      *)
(***************************************************************************)
EXTENDS SearchPath, ListsProofs

-----------------------------------------------------------------------------
(* Dropping one element of a sequence *)

\* t holds the elements of s but those at places P, in their order, none of
\* them further back than it was.
Kept(s, P, t) ==
  /\ P = {} => Len(t) = Len(s)
  /\ P # {} => Len(t) = Len(s) - 1
  /\ \E up \in [DOMAIN t -> DOMAIN s \ P] :
       /\ \A n \in DOMAIN t : t[n] = s[up[n]] /\ n <= up[n]
       /\ \A m, n \in DOMAIN t : m < n => up[m] < up[n]
       /\ \A i \in DOMAIN s \ P : \E n \in DOMAIN t : up[n] = i

\* Drop does that: the result is a sequence of the other elements.
LEMMA DropKeeps ==
  ASSUME NEW S, NEW s \in Seq(S), NEW P, P \subseteq DOMAIN s,
         \A i, j \in P : i = j
  PROVE  Drop(s, P) \in Seq(S) /\ Kept(s, P, Drop(s, P))
<1>1. CASE P = {}
  <2>1. Drop(s, P) = s  BY <1>1 DEF Drop
  <2> DEFINE up == [n \in DOMAIN s |-> n]
  <2>2. up \in [DOMAIN s -> DOMAIN s \ P]  BY <1>1
  <2>3. \A n \in DOMAIN s : up[n] = n  OBVIOUS
  <2>4. \A n \in DOMAIN s : n \in Int  OBVIOUS
  <2> HIDE DEF up
  <2>5. \E u \in [DOMAIN s -> DOMAIN s \ P] :
          /\ \A n \in DOMAIN s : s[n] = s[u[n]] /\ n <= u[n]
          /\ \A m, n \in DOMAIN s : m < n => u[m] < u[n]
          /\ \A i \in DOMAIN s \ P : \E n \in DOMAIN s : u[n] = i
    <3>1. WITNESS up \in [DOMAIN s -> DOMAIN s \ P]
    <3>2. QED  BY <2>3, <2>4
  <2>6. Kept(s, P, s)  BY <1>1, <2>5 DEF Kept
  <2>7. QED  BY <2>1, <2>6
<1>2. CASE P # {}
  <2> DEFINE p == CHOOSE i \in P : TRUE
  <2>1. p \in P  BY <1>2
  <2>2. P = {p}  BY <2>1
  <2> HIDE DEF p
  <2>3. p \in 1 .. Len(s) /\ Len(s) \in Nat  BY <2>1
  <2> DEFINE a == SubSeq(s, 1, p - 1)
             b == SubSeq(s, p + 1, Len(s))
             t == a \o b
  <2>4. Drop(s, P) = t  BY <1>2 DEF Drop, RemoveAt, p
  <2>5. /\ a \in Seq(S) /\ Len(a) = p - 1
        /\ \A n \in 1 .. p - 1 : a[n] = s[n]
    BY <2>3
  <2>6. /\ b \in Seq(S) /\ Len(b) = Len(s) - p
        /\ \A n \in 1 .. Len(s) - p : b[n] = s[p + n]
    BY <2>3
  <2> HIDE DEF a, b
  <2>7. t \in Seq(S) /\ Len(t) = Len(s) - 1 /\ DOMAIN t = 1 .. Len(s) - 1
    BY <2>3, <2>5, <2>6
  <2>8. \A n \in 1 .. Len(s) - 1 : n < p => t[n] = s[n]
    BY <2>3, <2>5, <2>6
  <2>9. \A n \in 1 .. Len(s) - 1 : n >= p => t[n] = s[n + 1]
    <3>1. TAKE n \in 1 .. Len(s) - 1
    <3>2. HAVE n >= p
    <3>3. t[n] = b[n - (p - 1)]  BY <2>3, <2>5, <2>6, <3>2
    <3>4. n - (p - 1) \in 1 .. Len(s) - p  BY <2>3, <3>2
    <3>5. b[n - (p - 1)] = s[p + (n - (p - 1))]  BY <2>6, <3>4
    <3>6. p + (n - (p - 1)) = n + 1  BY <2>3
    <3>7. QED  BY <3>3, <3>5, <3>6
  <2> HIDE DEF t
  <2> DEFINE up == [n \in 1 .. Len(s) - 1 |-> IF n < p THEN n ELSE n + 1]
  <2>10. up \in [1 .. Len(s) - 1 -> DOMAIN s \ P]  BY <2>2, <2>3
  <2>11. \A n \in 1 .. Len(s) - 1 : up[n] = IF n < p THEN n ELSE n + 1  OBVIOUS
  <2> HIDE DEF up
  <2>12. \A n \in 1 .. Len(s) - 1 : t[n] = s[up[n]] /\ n <= up[n]
    BY <2>3, <2>8, <2>9, <2>11
  <2>13. \A m, n \in 1 .. Len(s) - 1 : m < n => up[m] < up[n]
    BY <2>3, <2>11
  <2>14. \A i \in DOMAIN s \ P : \E n \in 1 .. Len(s) - 1 : up[n] = i
    <3>1. TAKE i \in DOMAIN s \ P
    <3>2. i \in 1 .. Len(s) /\ i # p  BY <2>2
    <3>3. CASE i < p  
      <4>1. i \in 1 .. Len(s) - 1 /\ up[i] = i  BY <2>3, <2>11, <3>2, <3>3
      <4>2. QED  BY <4>1
    <3>4. CASE i > p
      <4>1. i - 1 \in 1 .. Len(s) - 1 /\ up[i - 1] = i  BY <2>3, <2>11, <3>2, <3>4
      <4>2. QED  BY <4>1
    <3>5. QED  BY <2>3, <3>2, <3>3, <3>4
  <2>15. \E u \in [DOMAIN t -> DOMAIN s \ P] :
           /\ \A n \in DOMAIN t : t[n] = s[u[n]] /\ n <= u[n]
           /\ \A m, n \in DOMAIN t : m < n => u[m] < u[n]
           /\ \A i \in DOMAIN s \ P : \E n \in DOMAIN t : u[n] = i
    <3>1. up \in [DOMAIN t -> DOMAIN s \ P]  BY <2>7, <2>10
    <3>2. WITNESS up \in [DOMAIN t -> DOMAIN s \ P]
    <3>3. QED  BY <2>7, <2>12, <2>13, <2>14
  <2>16. Len(t) = Len(s) - 1  BY <2>7
  <2>17. Kept(s, P, t)  BY <1>2, <2>15, <2>16 DEF Kept
  <2>18. QED  BY <2>4, <2>7, <2>17
<1>3. QED  BY <1>1, <1>2

-----------------------------------------------------------------------------
(* The entries and the history of their use *)

\* Every entry's key is in the history, and the entries are in its order.
Linked(d, o) ==
  /\ \A i, j \in DOMAIN d : d[i].key = d[j].key => i = j
  /\ \A m, n \in DOMAIN o : o[m] = o[n] => m = n
  /\ \A i \in DOMAIN d : \E n \in DOMAIN o : o[n] = d[i].key
  /\ \A i, j \in DOMAIN d, m, n \in DOMAIN o :
       o[m] = d[i].key /\ o[n] = d[j].key /\ i < j => m < n

PlacesOf(o, k) == {n \in DOMAIN o : o[n] = k}
EntriesOf(d, k) == {i \in DOMAIN d : d[i].key = k}

\* The key has no entry left in d, and the other entries are all there.
LeftOut(d, k, c) ==
  /\ \A i \in DOMAIN c : c[i].key # k /\ \E j \in DOMAIN d : c[i] = d[j]
  /\ \A j \in DOMAIN d : d[j].key # k => \E i \in DOMAIN c : c[i] = d[j]

\* Dropping a key's entry keeps entries and history linked.
LEMMA DropEntry ==
  ASSUME NEW d \in Seq(Entry), NEW o \in Seq(Keys), NEW k \in Keys, Linked(d, o),
         NEW c, c = Drop(d, EntriesOf(d, k))
  PROVE  /\ c \in Seq(Entry) /\ Linked(c, o) /\ LeftOut(d, k, c)
         /\ EntriesOf(d, k) = {} => Len(c) = Len(d)
         /\ EntriesOf(d, k) # {} => Len(c) = Len(d) - 1
<1> DEFINE P == EntriesOf(d, k)
<1>1. P \subseteq DOMAIN d /\ \A i, j \in P : i = j
  BY DEF EntriesOf, Linked
<1>2. \A i \in DOMAIN d : i \in P <=> d[i].key = k  BY DEF EntriesOf
<1> HIDE DEF P
<1>3. /\ c \in Seq(Entry)
      /\ P = {} => Len(c) = Len(d)
      /\ P # {} => Len(c) = Len(d) - 1
      /\ \E up \in [DOMAIN c -> DOMAIN d \ P] :
           /\ \A n \in DOMAIN c : c[n] = d[up[n]] /\ n <= up[n]
           /\ \A m, n \in DOMAIN c : m < n => up[m] < up[n]
           /\ \A i \in DOMAIN d \ P : \E n \in DOMAIN c : up[n] = i
  <2> DEFINE t == Drop(d, P)
  <2>1. c = t  BY DEF P
  <2>2. d \in Seq(Entry)  OBVIOUS
  <2>3. t \in Seq(Entry) /\ Kept(d, P, t)
    BY ONLY <1>1, <2>2, DropKeeps
  <2> HIDE DEF t
  <2>4. QED  BY ONLY <2>1, <2>3 DEF Kept
<1>4. PICK up \in [DOMAIN c -> DOMAIN d \ P] :
           /\ \A n \in DOMAIN c : c[n] = d[up[n]] /\ n <= up[n]
           /\ \A m, n \in DOMAIN c : m < n => up[m] < up[n]
           /\ \A i \in DOMAIN d \ P : \E n \in DOMAIN c : up[n] = i
  BY <1>3
<1>5. \A n \in DOMAIN c : up[n] \in DOMAIN d /\ up[n] \notin P  BY <1>4
<1>6. DOMAIN c = 1 .. Len(c) /\ DOMAIN d = 1 .. Len(d)  BY <1>3
<1>7. LeftOut(d, k, c)
  <2>1. \A i \in DOMAIN c : c[i].key # k /\ \E j \in DOMAIN d : c[i] = d[j]
    BY <1>2, <1>4, <1>5
  <2>2. \A j \in DOMAIN d : d[j].key # k => \E i \in DOMAIN c : c[i] = d[j]
    BY <1>2, <1>4
  <2>3. QED  BY <2>1, <2>2 DEF LeftOut
<1>8. Linked(c, o)
  <2>1. \A i, j \in DOMAIN c : c[i].key = c[j].key => i = j
    <3>1. TAKE i, j \in DOMAIN c
    <3>2. HAVE c[i].key = c[j].key
    <3>3. up[i] = up[j]  BY <1>4, <1>5, <3>2 DEF Linked
    <3>4. up[i] \in Int /\ i \in Int /\ j \in Int  BY <1>5, <1>6
    <3>5. QED  BY <1>4, <3>3, <3>4
  <2>2. \A i \in DOMAIN c : \E n \in DOMAIN o : o[n] = c[i].key
    BY <1>4, <1>5 DEF Linked
  <2>3. \A i, j \in DOMAIN c, m, n \in DOMAIN o :
          o[m] = c[i].key /\ o[n] = c[j].key /\ i < j => m < n
    BY <1>4, <1>5 DEF Linked
  <2>4. QED  BY <2>1, <2>2, <2>3 DEF Linked
<1>9. QED  BY <1>3, <1>7, <1>8 DEF P

\* What using a key does to the history: it comes last, the others keep their
\* order, and none gets further from the end than it was, but by the key
\* itself when that is new.
UsedOf(o, k) == Append(Drop(o, PlacesOf(o, k)), k)

MovedUp(o, k, u) ==
  /\ u \in Seq(Keys) /\ Len(u) >= 1 /\ u[Len(u)] = k
  /\ \A m, n \in DOMAIN u : u[m] = u[n] => m = n
  /\ \A n \in DOMAIN u : n < Len(u) =>
       \E m \in DOMAIN o : o[m] = u[n] /\ u[n] # k /\ Len(o) - m <= Len(u) - n
  /\ \A m \in DOMAIN o : o[m] # k => \E n \in DOMAIN u : n < Len(u) /\ u[n] = o[m]
  /\ \A m, n \in DOMAIN o, a, b \in DOMAIN u :
       a < Len(u) /\ b < Len(u) /\ o[m] = u[a] /\ o[n] = u[b] /\ m < n => a < b

\* Used does that.
LEMMA UseMovesUp ==
  ASSUME NEW o \in Seq(Keys), NEW k \in Keys,
         \A m, n \in DOMAIN o : o[m] = o[n] => m = n
  PROVE  MovedUp(o, k, UsedOf(o, k))
<1> DEFINE P == PlacesOf(o, k)
           c == Drop(o, P)
           u == UsedOf(o, k)
<1>1. P \subseteq DOMAIN o /\ \A i, j \in P : i = j
  BY DEF PlacesOf
<1>2. \A i \in DOMAIN o : i \in P <=> o[i] = k  BY DEF PlacesOf
<1>3. u = Append(c, k)  BY DEF UsedOf
<1> HIDE DEF P
<1>4. /\ c \in Seq(Keys)
      /\ P = {} => Len(c) = Len(o)
      /\ P # {} => Len(c) = Len(o) - 1
      /\ \E up \in [DOMAIN c -> DOMAIN o \ P] :
           /\ \A n \in DOMAIN c : c[n] = o[up[n]] /\ n <= up[n]
           /\ \A m, n \in DOMAIN c : m < n => up[m] < up[n]
           /\ \A i \in DOMAIN o \ P : \E n \in DOMAIN c : up[n] = i
  <2>1. o \in Seq(Keys)  OBVIOUS
  <2>2. c \in Seq(Keys) /\ Kept(o, P, c)  BY ONLY <1>1, <2>1, DropKeeps
  <2> HIDE DEF c
  <2>3. QED  BY <2>2 DEF Kept
<1> HIDE DEF c, u
<1>5. PICK up \in [DOMAIN c -> DOMAIN o \ P] :
           /\ \A n \in DOMAIN c : c[n] = o[up[n]] /\ n <= up[n]
           /\ \A m, n \in DOMAIN c : m < n => up[m] < up[n]
           /\ \A i \in DOMAIN o \ P : \E n \in DOMAIN c : up[n] = i
  BY <1>4
<1>6. \A n \in DOMAIN c : up[n] \in DOMAIN o /\ up[n] \notin P  BY <1>5
<1>7. /\ DOMAIN c = 1 .. Len(c) /\ DOMAIN o = 1 .. Len(o)
      /\ Len(c) \in Nat /\ Len(o) \in Nat
  BY <1>4
<1>17. c \in Seq(Keys) /\ (Len(c) = Len(o) \/ Len(c) = Len(o) - 1)
  BY <1>4
<1>18. Len(o) <= Len(c) + 1
  <2>1. Len(o) \in Int /\ Len(c) \in Int  BY <1>7
  <2>2. Len(c) = Len(o) \/ Len(c) = Len(o) - 1  BY <1>17
  <2>3. QED  BY ONLY <2>1, <2>2
<1>8. /\ u \in Seq(Keys) /\ Len(u) = Len(c) + 1 /\ u[Len(u)] = k
      /\ DOMAIN u = 1 .. Len(c) + 1
      /\ \A n \in DOMAIN c : u[n] = c[n]
  BY <1>3, <1>17
<1>9. \A n \in DOMAIN u : n < Len(u) => n \in DOMAIN c /\ u[n] = o[up[n]] /\ u[n] # k
  BY <1>2, <1>5, <1>6, <1>7, <1>8
<1>10. \A m, n \in DOMAIN u : u[m] = u[n] => m = n
  <2>1. ASSUME NEW m \in DOMAIN u, NEW n \in DOMAIN u, m < Len(u), n < Len(u), u[m] = u[n]
        PROVE  m = n
    <3>1. up[m] = up[n]  BY <1>6, <1>9, <2>1
    <3>2. up[m] \in Int /\ m \in Int /\ n \in Int  BY <1>6, <1>7, <1>9, <2>1
    <3>3. QED  BY <1>5, <1>9, <2>1, <3>1, <3>2
  <2>2. \A m \in DOMAIN u : m < Len(u) \/ m = Len(u)  BY <1>7, <1>8
  <2>3. QED  BY <1>8, <1>9, <2>1, <2>2
<1>11. \A n \in DOMAIN u : n < Len(u) =>
         \E m \in DOMAIN o : o[m] = u[n] /\ u[n] # k /\ Len(o) - m <= Len(u) - n
  <2>1. TAKE n \in DOMAIN u
  <2>2. HAVE n < Len(u)
  <2>3. up[n] \in DOMAIN o /\ n <= up[n] /\ o[up[n]] = u[n] /\ u[n] # k
    BY <1>5, <1>6, <1>9, <2>2
  <2>4. Len(o) <= Len(u)  BY <1>8, <1>18
  <2>5. Len(o) - up[n] <= Len(u) - n  BY <1>7, <1>8, <2>3, <2>4
  <2>6. QED  BY <2>3, <2>5
<1>12. \A m \in DOMAIN o : o[m] # k => \E n \in DOMAIN u : n < Len(u) /\ u[n] = o[m]
  <2>1. TAKE m \in DOMAIN o
  <2>2. HAVE o[m] # k
  <2>3. PICK n \in DOMAIN c : up[n] = m  BY <1>2, <1>5, <2>2
  <2>4. n \in DOMAIN u /\ n < Len(u) /\ u[n] = o[m]  BY <1>5, <1>7, <1>8, <2>3
  <2>5. QED  BY <2>4
<1>13. \A m, n \in DOMAIN o, a, b \in DOMAIN u :
         a < Len(u) /\ b < Len(u) /\ o[m] = u[a] /\ o[n] = u[b] /\ m < n => a < b
  <2>1. TAKE m, n \in DOMAIN o, a, b \in DOMAIN u
  <2>2. HAVE a < Len(u) /\ b < Len(u) /\ o[m] = u[a] /\ o[n] = u[b] /\ m < n
  <2>3. up[a] = m /\ up[b] = n  BY <1>6, <1>9, <2>2
  <2>4. a \in Int /\ b \in Int /\ m \in Int /\ n \in Int  BY <1>7, <1>8
  <2>5. QED  BY <1>5, <1>9, <2>2, <2>3, <2>4
<1>14. Len(u) >= 1  BY <1>7, <1>8
<1>15. MovedUp(o, k, u)  BY <1>8, <1>10, <1>11, <1>12, <1>13, <1>14 DEF MovedUp
<1>16. QED  BY <1>15 DEF u

\* The keys of all entries but the first were used after the first one's.
LEMMA FewAfter ==
  ASSUME NEW a \in Seq(Entry), NEW u \in Seq(Keys), Linked(a, u), Len(a) >= 1,
         NEW n \in DOMAIN u, u[n] = a[1].key
  PROVE  n + Len(a) - 1 <= Len(u)
<1>1. /\ Len(a) \in Nat /\ DOMAIN a = 1 .. Len(a)
      /\ Len(u) \in Nat /\ DOMAIN u = 1 .. Len(u) /\ n \in 1 .. Len(u)
  OBVIOUS
<1> DEFINE S == 2 .. Len(a)
           T == n + 1 .. Len(u)
           Place(i) == CHOOSE m \in DOMAIN u : u[m] = a[i].key
           f == [i \in S |-> Place(i)]
<1>2. \A i \in S : i \in DOMAIN a /\ 1 \in DOMAIN a /\ 1 < i  BY <1>1
<1>3. \A i \in S : Place(i) \in DOMAIN u /\ u[Place(i)] = a[i].key
  BY <1>2 DEF Linked
<1> HIDE DEF Place
<1>4. \A i \in S : n < Place(i)
  BY <1>2, <1>3 DEF Linked
<1>5. f \in [S -> T]
  BY <1>1, <1>3, <1>4
<1>6. \A i, j \in S : f[i] = f[j] => i = j
  <2>1. TAKE i, j \in S
  <2>2. HAVE f[i] = f[j]
  <2>3. a[i].key = a[j].key  BY <1>3, <2>2
  <2>4. QED  BY <1>2, <2>3 DEF Linked
<1>7. /\ IsFiniteSet(S) /\ Cardinality(S) = Len(a) - 1
      /\ IsFiniteSet(T) /\ Cardinality(T) = Len(u) - n
  <2>0. 2 \in Int /\ Len(a) \in Int /\ n + 1 \in Int /\ Len(u) \in Int  BY <1>1
  <2>1. /\ IsFiniteSet(S)
        /\ Cardinality(S) = IF 2 > Len(a) THEN 0 ELSE Len(a) - 2 + 1
    BY ONLY <2>0, FS_Interval
  <2>2. /\ IsFiniteSet(T)
        /\ Cardinality(T) = IF n + 1 > Len(u) THEN 0 ELSE Len(u) - (n + 1) + 1
    BY ONLY <2>0, FS_Interval
  <2>3. Cardinality(S) = Len(a) - 1  BY <1>1, <2>1
  <2>4. Cardinality(T) = Len(u) - n  BY <1>1, <2>2
  <2>5. QED  BY <2>1, <2>2, <2>3, <2>4
<1> HIDE DEF S, T, f
<1>8. ~(Cardinality(T) < Cardinality(S))
  BY <1>5, <1>6, <1>7, FS_PigeonHole
<1>9. QED  BY <1>1, <1>7, <1>8

\* What storing an entry as the most recent one, and the eviction after it, do.
LEMMA StoreEntry ==
  ASSUME NEW d \in Seq(Entry), NEW o \in Seq(Keys), NEW k \in Keys,
         NEW e \in Entry, e.key = k,
         NEW c \in Seq(Entry), Linked(c, o), LeftOut(d, k, c), Len(c) <= MaxSize,
         NEW u, MovedUp(o, k, u), MaxSize \in Nat, MaxSize > 0,
         NEW r, r = Evict(Append(c, e))
  PROVE  /\ r \in Seq(Entry) /\ Len(r) <= MaxSize /\ Linked(r, u)
         /\ \A i \in DOMAIN r : r[i] = e \/ \E j \in DOMAIN d : r[i] = d[j] /\ d[j].key # k
         /\ \A n \in DOMAIN u :
              n > Len(u) - MaxSize /\ (u[n] = k \/ \E j \in DOMAIN d : d[j].key = u[n])
                => \E i \in DOMAIN r : r[i].key = u[n]
<1> DEFINE a == Append(c, e)
<1>1. /\ a \in Seq(Entry) /\ Len(a) = Len(c) + 1 /\ a[Len(a)] = e
      /\ DOMAIN a = 1 .. Len(c) + 1 /\ DOMAIN c = 1 .. Len(c) /\ Len(c) \in Nat
      /\ \A i \in DOMAIN c : a[i] = c[i]
  OBVIOUS
<1> HIDE DEF a
<1>2. /\ u \in Seq(Keys) /\ Len(u) \in Nat /\ DOMAIN u = 1 .. Len(u)
      /\ Len(u) \in DOMAIN u /\ u[Len(u)] = k
  BY DEF MovedUp
<1>3. \A i \in DOMAIN a : i = Len(a) \/ (i < Len(a) /\ i \in DOMAIN c /\ a[i] = c[i])
  BY <1>1
<1>4. \A i \in DOMAIN c : c[i].key # k  BY DEF LeftOut
<1>5. \A n \in DOMAIN u : u[n] # k => n < Len(u)  BY <1>2
<1>6. Linked(a, u)
  <2>1. \A i, j \in DOMAIN a : a[i].key = a[j].key => i = j
    BY <1>1, <1>3, <1>4 DEF Linked
  <2>2. \A m, n \in DOMAIN u : u[m] = u[n] => m = n  BY DEF MovedUp
  <2>3. \A i \in DOMAIN a : \E n \in DOMAIN u : u[n] = a[i].key
    <3>1. TAKE i \in DOMAIN a
    <3>2. CASE i = Len(a)  BY <1>1, <1>2, <3>2
    <3>3. CASE i \in DOMAIN c /\ a[i] = c[i]
      <4>1. PICK m \in DOMAIN o : o[m] = c[i].key  BY <3>3 DEF Linked
      <4>2. PICK n \in DOMAIN u : u[n] = o[m]  BY <1>4, <3>3, <4>1 DEF MovedUp
      <4>3. QED  BY <3>3, <4>1, <4>2
    <3>4. QED  BY <1>3, <3>2, <3>3
  <2>4. ASSUME NEW i \in DOMAIN a, NEW j \in DOMAIN a, NEW m \in DOMAIN u, NEW n \in DOMAIN u,
               u[m] = a[i].key, u[n] = a[j].key, i < j
        PROVE  m < n
    <3>1. i # Len(a)  BY <1>1, <2>4
    <3>2. i \in DOMAIN c /\ u[m] = c[i].key /\ u[m] # k /\ m < Len(u)
      BY <1>3, <1>4, <1>5, <2>4, <3>1
    <3>3. CASE j = Len(a)
      <4>1. u[n] = k  BY <1>1, <2>4, <3>3
      <4>2. n = Len(u)  BY <1>2, <2>2, <4>1
      <4>3. QED  BY <3>2, <4>2
    <3>4. CASE j # Len(a)
      <4>1. j \in DOMAIN c /\ u[n] = c[j].key /\ u[n] # k /\ n < Len(u)
        BY <1>3, <1>4, <1>5, <2>4, <3>4
      <4>2. PICK x \in DOMAIN o : o[x] = c[i].key  BY <3>2 DEF Linked
      <4>3. PICK y \in DOMAIN o : o[y] = c[j].key  BY <4>1 DEF Linked
      <4>4. x < y  BY <2>4, <3>2, <4>1, <4>2, <4>3 DEF Linked
      <4>5. QED  BY <3>2, <4>1, <4>2, <4>3, <4>4 DEF MovedUp
    <3>5. QED  BY <3>3, <3>4
  <2>5. QED  BY <2>1, <2>2, <2>3, <2>4 DEF Linked
<1>7. \A i \in DOMAIN a : a[i] = e \/ \E j \in DOMAIN d : a[i] = d[j] /\ d[j].key # k
  BY <1>1, <1>3 DEF LeftOut
<1>8. \A n \in DOMAIN u : u[n] = k \/ (\E j \in DOMAIN d : d[j].key = u[n])
        => \E i \in DOMAIN a : a[i].key = u[n]
  <2>1. TAKE n \in DOMAIN u
  <2>2. CASE u[n] = k  
    <3>1. Len(a) \in DOMAIN a  BY <1>1
    <3>2. QED  BY <1>1, <2>2, <3>1
  <2>3. CASE u[n] # k /\ \E j \in DOMAIN d : d[j].key = u[n]
    <3>1. PICK j \in DOMAIN d : d[j].key = u[n]  BY <2>3
    <3>2. PICK i \in DOMAIN c : c[i] = d[j]  BY <2>3, <3>1 DEF LeftOut
    <3>3. i \in DOMAIN a /\ a[i].key = u[n]  BY <1>1, <3>1, <3>2
    <3>4. QED  BY <3>3
  <2>4. QED  BY <2>2, <2>3
<1>9. r = Evict(a)  BY DEF a
<1>10. CASE Len(a) <= MaxSize
  <2>1. r = a  BY <1>1, <1>9, <1>10 DEF Evict
  <2>2. QED  BY <1>1, <1>6, <1>7, <1>8, <1>10, <2>1
<1>11. CASE Len(a) > MaxSize
  <2>1. Len(a) = MaxSize + 1  BY <1>1, <1>11
  <2>2. r = SubSeq(a, 2, Len(a))
    <3>1. Len(a) - MaxSize + 1 = 2  BY <2>1
    <3>2. QED  BY <1>9, <1>11, <3>1 DEF Evict
  <2>3. /\ r \in Seq(Entry) /\ Len(r) = MaxSize /\ DOMAIN r = 1 .. MaxSize
        /\ \A i \in 1 .. MaxSize : r[i] = a[i + 1]
    BY <1>1, <2>1, <2>2
  <2>4. DOMAIN a = 1 .. MaxSize + 1  BY <1>1, <2>1
  <2>5. \A i \in DOMAIN r : i + 1 \in DOMAIN a /\ r[i] = a[i + 1]  BY <2>3, <2>4
  <2>6. Linked(r, u)
    <3>1. \A i, j \in DOMAIN r : r[i].key = r[j].key => i = j
      <4>1. TAKE i, j \in DOMAIN r
      <4>2. HAVE r[i].key = r[j].key
      <4>3. i + 1 = j + 1  BY <1>6, <2>5, <4>2 DEF Linked
      <4>4. QED  BY <2>3, <4>3
    <3>2. \A m, n \in DOMAIN u : u[m] = u[n] => m = n  BY DEF MovedUp
    <3>3. \A i \in DOMAIN r : \E n \in DOMAIN u : u[n] = r[i].key
      BY <1>6, <2>5 DEF Linked
    <3>4. ASSUME NEW i \in DOMAIN r, NEW j \in DOMAIN r, NEW m \in DOMAIN u, NEW n \in DOMAIN u,
                 u[m] = r[i].key, u[n] = r[j].key, i < j
          PROVE  m < n
      <4>1. i + 1 < j + 1  BY <2>3, <3>4
      <4>2. QED  BY <1>6, <2>5, <3>4, <4>1 DEF Linked
    <3>5. QED  BY <3>1, <3>2, <3>3, <3>4 DEF Linked
  <2>7. \A i \in DOMAIN r : r[i] = e \/ \E j \in DOMAIN d : r[i] = d[j] /\ d[j].key # k
    BY <1>7, <2>5
  <2>8. ASSUME NEW n \in DOMAIN u, n > Len(u) - MaxSize,
               u[n] = k \/ \E j \in DOMAIN d : d[j].key = u[n]
        PROVE  \E i \in DOMAIN r : r[i].key = u[n]
    <3>1. PICK i \in DOMAIN a : a[i].key = u[n]  BY <1>8, <2>8
    <3>2. i # 1
      <4>1. SUFFICES ASSUME i = 1 PROVE FALSE  OBVIOUS
      <4>2. n + Len(a) - 1 <= Len(u)  
        <5>1. Len(a) >= 1  BY <2>1
        <5>2. QED  BY <1>1, <1>2, <1>6, <3>1, <4>1, <5>1, FewAfter
      <4>3. n \in Int /\ Len(u) \in Int  BY <1>2
      <4>4. QED  BY <2>1, <2>8, <4>2, <4>3
    <3>3. i - 1 \in 1 .. MaxSize /\ (i - 1) + 1 = i  BY <2>4, <3>2
    <3>4. r[i - 1] = a[i]  BY <2>3, <3>3
    <3>5. QED  BY <2>3, <3>1, <3>3, <3>4
  <2>9. QED  BY <2>3, <2>6, <2>7, <2>8
<1>12. QED  BY <1>1, <1>10, <1>11

-----------------------------------------------------------------------------
(* The invariant *)

\* What is stored was stored by the last set() of its key, at the time from
\* which its end counts.
Stored ==
  \A i \in DOMAIN data :
    put[data[i].key] = [value |-> data[i].value, at |-> data[i].expires_at - Ttl]

\* KeepsRecent, for entries d, history o, values p and clock t.
RecentIn(d, o, p, t) ==
  Ttl > 0 =>
    \A n \in DOMAIN o :
      (n > Len(o) - MaxSize /\ t <= p[o[n]].at + Ttl) => \E i \in DOMAIN d : d[i].key = o[n]

CacheInv ==
  /\ TypeOK
  /\ Linked(data, order)
  /\ Stored
  /\ RecentIn(data, order, put, now)
  /\ Ttl <= 0 \/ MaxSize <= 0 => data = <<>>

\* The invariant's part on recent keys is KeepsRecent.
LEMMA RecentIsKeepsRecent == RecentIn(data, order, put, now) <=> KeepsRecent
BY DEF RecentIn, KeepsRecent, Lookup

\* The cache starts in it: nothing is stored.
LEMMA CacheStart == Init => CacheInv
<1> SUFFICES ASSUME Init PROVE CacheInv  OBVIOUS
<1>1. TypeOK
  BY CacheAssumption DEF Init, TypeOK, NoPut
<1>2. DOMAIN data = {} /\ DOMAIN order = {}  BY DEF Init
<1>3. Linked(data, order)  BY <1>2 DEF Linked
<1>4. Stored  BY <1>2 DEF Stored
<1>5. RecentIn(data, order, put, now)  BY <1>2 DEF RecentIn
<1>6. QED  BY <1>1, <1>3, <1>4, <1>5 DEF CacheInv, Init

\* What the model's Without and Used do, in a state of the invariant.
LEMMA WithoutIs ==
  ASSUME CacheInv, NEW k \in Keys
  PROVE  /\ Without(k) \in Seq(Entry) /\ Linked(Without(k), order)
         /\ LeftOut(data, k, Without(k)) /\ Len(Without(k)) <= MaxSize
         /\ Len(Without(k)) <= Len(data)
         /\ Lookup(k) # {} => Len(Without(k)) < Len(data)
         /\ MovedUp(order, k, UsedOf(order, k))
         /\ Used(k) => order' = UsedOf(order, k)
<1>1. data \in Seq(Entry) /\ order \in Seq(Keys) /\ Linked(data, order) /\ Len(data) <= MaxSize
  BY DEF CacheInv, TypeOK
<1>2. Without(k) = Drop(data, EntriesOf(data, k))
  BY DEF Without, Lookup, EntriesOf
<1> DEFINE c == Without(k)
<1> HIDE DEF c
<1>3. c = Drop(data, EntriesOf(data, k))  BY <1>2 DEF c
<1>4. /\ c \in Seq(Entry) /\ Linked(c, order) /\ LeftOut(data, k, c)
      /\ EntriesOf(data, k) = {} => Len(c) = Len(data)
      /\ EntriesOf(data, k) # {} => Len(c) = Len(data) - 1
  BY <1>1, <1>3, DropEntry
<1>5. Len(c) = Len(data) \/ Len(c) = Len(data) - 1  BY <1>4
<1>6. Len(data) \in Nat /\ MaxSize \in Nat  BY <1>1, CacheAssumption
<1>7. Len(c) <= Len(data) /\ Len(c) <= MaxSize  BY <1>1, <1>5, <1>6
<1>11. Lookup(k) # {} => Len(c) < Len(data)
  <2>1. Lookup(k) = EntriesOf(data, k)  BY DEF Lookup, EntriesOf
  <2>2. Lookup(k) # {} => Len(c) = Len(data) - 1  BY <1>4, <2>1
  <2>3. QED  BY <1>6, <2>2
<1>8. MovedUp(order, k, UsedOf(order, k))
  <2>1. \A m, n \in DOMAIN order : order[m] = order[n] => m = n  BY <1>1 DEF Linked
  <2>2. order \in Seq(Keys)  BY <1>1
  <2>3. QED  BY <2>1, <2>2, UseMovesUp
<1>9. Used(k) => order' = UsedOf(order, k)  BY DEF Used, UsedOf, PlacesOf
<1>10. QED  BY <1>4, <1>7, <1>8, <1>9, <1>11 DEF c

\* The parts of the invariant that the steps below start from.
LEMMA InvFacts ==
  ASSUME CacheInv
  PROVE  /\ now \in Nat /\ MaxSize \in Nat /\ Ttl \in Int
         /\ data \in Seq(Entry) /\ Len(data) <= MaxSize
         /\ ret \in Values \union {None}
         /\ put \in [Keys -> [value : Values \union {None}, at : Nat]]
         /\ order \in Seq(Keys)
         /\ \A i \in DOMAIN data : /\ data[i] \in Entry /\ data[i].key \in Keys
                                   /\ data[i].value \in Values /\ data[i].expires_at \in Int
         /\ \A n \in DOMAIN order : order[n] \in Keys
         /\ \A x \in Keys : put[x].at \in Nat
         /\ Linked(data, order)
<1>1. data \in Seq(Entry) /\ order \in Seq(Keys)  BY DEF CacheInv, TypeOK
<1>2. \A i \in DOMAIN data : data[i] \in Entry  BY <1>1
<1>3. \A i \in DOMAIN data : /\ data[i].key \in Keys
                             /\ data[i].value \in Values /\ data[i].expires_at \in Int
  BY <1>2 DEF Entry
<1>4. \A n \in DOMAIN order : order[n] \in Keys  BY <1>1
<1>5. \A x \in Keys : put[x].at \in Nat  BY DEF CacheInv, TypeOK
<1>6. QED  BY <1>1, <1>2, <1>3, <1>4, <1>5, CacheAssumption DEF CacheInv, TypeOK

\* A lookup that drops an expired entry keeps the invariant: the key whose
\* entry goes is not fresh.
LEMMA ExpireSafe ==
  ASSUME CacheInv, NEW k \in Keys, Expire(k)
  PROVE  CacheInv'
<1>1. PICK x \in Lookup(k) : now > data[x].expires_at  BY DEF Expire, Expired
<1>2. x \in DOMAIN data /\ data[x].key = k  BY <1>1 DEF Lookup
<1> DEFINE c == Without(k)
<1>3. /\ c \in Seq(Entry) /\ Linked(c, order) /\ LeftOut(data, k, c)
      /\ Len(c) <= MaxSize /\ Len(c) <= Len(data)
  BY WithoutIs
<1>4. data' = c /\ ret' = None /\ now' = now /\ put' = put /\ order' = order /\ Ttl > 0
  BY DEF Expire
<1> HIDE DEF c
<1>5. put[k] = [value |-> data[x].value, at |-> data[x].expires_at - Ttl]
  BY <1>2 DEF CacheInv, Stored
<1>6. now > put[k].at + Ttl
  <2>1. data[x].expires_at \in Int /\ Ttl \in Int /\ now \in Int  BY <1>2, InvFacts
  <2>2. put[k].at = data[x].expires_at - Ttl  BY <1>5
  <2>3. QED  BY <1>1, <2>1, <2>2
<1>7. TypeOK'
  <2>1. \A i, j \in DOMAIN c : c[i].key = c[j].key => i = j  BY <1>3 DEF Linked
  <2>2. QED  BY <1>3, <1>4, <2>1, InvFacts DEF TypeOK
<1>8. Linked(data, order)'  BY <1>3, <1>4 DEF Linked
<1>9. Stored'
  <2>1. ASSUME NEW i \in DOMAIN c
        PROVE  put[c[i].key] = [value |-> c[i].value, at |-> c[i].expires_at - Ttl]
    <3>1. PICK j \in DOMAIN data : c[i] = data[j]  BY <1>3 DEF LeftOut
    <3>2. QED  BY <3>1 DEF CacheInv, Stored
  <2>2. QED  BY <1>4, <2>1 DEF Stored
<1>10. RecentIn(data, order, put, now)'
  <2>1. ASSUME NEW n \in DOMAIN order, n > Len(order) - MaxSize, now <= put[order[n]].at + Ttl
        PROVE  \E i \in DOMAIN c : c[i].key = order[n]
    <3>1. PICK j \in DOMAIN data : data[j].key = order[n]
      BY <1>4, <2>1 DEF CacheInv, RecentIn
    <3>2. order[n] # k
      <4>1. put[k].at \in Int /\ now \in Int /\ Ttl \in Int  BY InvFacts
      <4>2. QED  BY <1>6, <2>1, <4>1
    <3>3. PICK i \in DOMAIN c : c[i] = data[j]  BY <1>3, <3>1, <3>2 DEF LeftOut
    <3>4. QED  BY <3>1, <3>3
  <2>2. QED  BY <1>4, <2>1 DEF RecentIn
<1>11. MaxSize > 0
  BY <1>2, InvFacts DEF CacheInv
<1>12. QED  BY <1>4, <1>7, <1>8, <1>9, <1>10, <1>11, InvFacts DEF CacheInv

\* Storing an entry that agrees with put' as the most recent one keeps the
\* invariant; a hit and a set both do this.
LEMMA StoreSafe ==
  ASSUME CacheInv, NEW k \in Keys, NEW e \in Entry, e.key = k,
         Ttl > 0, MaxSize > 0,
         data' = Evict(Append(Without(k), e)), Used(k), now' = now,
         ret' \in Values \union {None},
         put' \in [Keys -> [value : Values \union {None}, at : Nat]],
         \A x \in Keys : x # k => put'[x] = put[x],
         put'[k] = [value |-> e.value, at |-> e.expires_at - Ttl]
  PROVE  CacheInv'
<1> DEFINE c == Without(k)
           u == UsedOf(order, k)
           r == Evict(Append(c, e))
<1>1. /\ c \in Seq(Entry) /\ Linked(c, order) /\ LeftOut(data, k, c)
      /\ Len(c) <= MaxSize /\ MovedUp(order, k, u) /\ order' = u
  BY WithoutIs
<1>2. data' = r  OBVIOUS
<1>20. r = Evict(Append(c, e))  OBVIOUS
<1> HIDE DEF c, u, r
<1>3. /\ r \in Seq(Entry) /\ Len(r) <= MaxSize /\ Linked(r, u)
      /\ \A i \in DOMAIN r : r[i] = e \/ \E j \in DOMAIN data : r[i] = data[j] /\ data[j].key # k
      /\ \A n \in DOMAIN u :
           n > Len(u) - MaxSize /\ (u[n] = k \/ \E j \in DOMAIN data : data[j].key = u[n])
             => \E i \in DOMAIN r : r[i].key = u[n]
  <2>1. data \in Seq(Entry) /\ order \in Seq(Keys) /\ MaxSize \in Nat  BY InvFacts
  <2>2. e \in Entry /\ e.key = k /\ k \in Keys /\ MaxSize > 0  OBVIOUS
  <2>3. /\ data \in Seq(Entry) /\ order \in Seq(Keys) /\ k \in Keys /\ e \in Entry /\ e.key = k
        /\ c \in Seq(Entry) /\ Linked(c, order) /\ LeftOut(data, k, c) /\ Len(c) <= MaxSize
        /\ MovedUp(order, k, u) /\ MaxSize \in Nat /\ MaxSize > 0 /\ r = Evict(Append(c, e))
    BY ONLY <1>1, <1>20, <2>1, <2>2
  <2>4. QED  BY ONLY <2>3, StoreEntry
<1>4. u \in Seq(Keys)  BY <1>1 DEF MovedUp
<1>5. TypeOK'
  <2>1. \A i, j \in DOMAIN r : r[i].key = r[j].key => i = j  BY <1>3 DEF Linked
  <2>2. QED  BY <1>1, <1>2, <1>3, <1>4, <2>1, InvFacts DEF TypeOK
<1>6. Linked(data, order)'  BY <1>1, <1>2, <1>3 DEF Linked
<1>7. Stored'
  <2>1. ASSUME NEW i \in DOMAIN r
        PROVE  put'[r[i].key] = [value |-> r[i].value, at |-> r[i].expires_at - Ttl]
    <3>1. CASE r[i] = e  BY <3>1
    <3>2. CASE \E j \in DOMAIN data : r[i] = data[j] /\ data[j].key # k
      <4>1. PICK j \in DOMAIN data : r[i] = data[j] /\ data[j].key # k  BY <3>2
      <4>2. data[j].key \in Keys  BY InvFacts
      <4>3. put[data[j].key] = [value |-> data[j].value, at |-> data[j].expires_at - Ttl]
        BY DEF CacheInv, Stored
      <4>4. QED  BY <4>1, <4>2, <4>3
    <3>3. QED  BY <1>3, <3>1, <3>2
  <2>2. QED  BY <1>2, <2>1 DEF Stored
<1>8. RecentIn(data, order, put, now)'
  <2>1. ASSUME NEW n \in DOMAIN u, n > Len(u) - MaxSize, now <= put'[u[n]].at + Ttl
        PROVE  \E i \in DOMAIN r : r[i].key = u[n]
    <3>1. CASE u[n] = k  BY <1>3, <2>1, <3>1
    <3>2. CASE u[n] # k
      <4>1. n < Len(u)
        <5>1. n \in 1 .. Len(u) /\ Len(u) \in Nat /\ u[Len(u)] = k  
          BY <1>1, <1>4 DEF MovedUp
        <5>2. n # Len(u)  BY <3>2, <5>1
        <5>3. QED  BY <5>1, <5>2
      <4>2. PICK m \in DOMAIN order : order[m] = u[n] /\ Len(order) - m <= Len(u) - n
        BY <1>1, <4>1 DEF MovedUp
      <4>3. m > Len(order) - MaxSize
        <5>1. /\ m \in Int /\ Len(order) \in Int /\ Len(u) \in Int /\ n \in Int
              /\ MaxSize \in Int
          <6>1. m \in Int /\ Len(order) \in Int
            <7>1. order \in Seq(Keys)  BY InvFacts
            <7>2. QED  BY <7>1
          <6>2. Len(u) \in Int /\ n \in Int  BY <1>4
          <6>3. QED  BY <6>1, <6>2, InvFacts
        <5>2. QED  BY <2>1, <4>2, <5>1
      <4>4. order[m] \in Keys /\ order[m] # k  BY <3>2, <4>2, InvFacts
      <4>5. now <= put[order[m]].at + Ttl  BY <2>1, <4>2, <4>4
      <4>6. \E j \in DOMAIN data : data[j].key = order[m]
        BY <4>3, <4>5 DEF CacheInv, RecentIn
      <4>7. QED  BY <1>3, <2>1, <4>2, <4>6
    <3>3. QED  BY <3>1, <3>2
  <2>2. QED  BY <1>1, <1>2, <2>1 DEF RecentIn
<1>9. QED  BY <1>5, <1>6, <1>7, <1>8, InvFacts DEF CacheInv

\* A lookup that finds a fresh entry keeps the invariant: the entry moves to
\* the end, and nothing is pushed out.
LEMMA HitSafe ==
  ASSUME CacheInv, NEW k \in Keys, Hit(k)
  PROVE  CacheInv'
<1>1. PICK x \in Lookup(k) : data' = Append(Without(k), data[x]) /\ ret' = data[x].value
  BY DEF Hit
<1>2. x \in DOMAIN data /\ data[x].key = k  BY <1>1 DEF Lookup
<1>3. Used(k) /\ now' = now /\ put' = put /\ Ttl > 0  BY DEF Hit
<1>4. data[x] \in Entry /\ data[x].value \in Values  BY <1>2, InvFacts
<1>5. MaxSize > 0 /\ MaxSize \in Nat  BY <1>2, InvFacts DEF CacheInv
<1>6. data' = Evict(data')
  <2> DEFINE c == Without(k)
             a == Append(c, data[x])
  <2>1. c \in Seq(Entry) /\ Len(c) < Len(data)  BY <1>1, WithoutIs
  <2>2. data' = a  BY <1>1
  <2> HIDE DEF c
  <2>3. Len(a) = Len(c) + 1 /\ Len(c) \in Nat  BY <1>4, <2>1
  <2> HIDE DEF a
  <2>4. Len(data) \in Nat /\ Len(data) <= MaxSize
    <3>1. data \in Seq(Entry)  BY InvFacts
    <3>2. QED  BY <3>1, InvFacts
  <2>5. ~(Len(a) > MaxSize)  BY <1>5, <2>1, <2>3, <2>4
  <2>6. QED  BY <2>2, <2>5 DEF Evict
<1>7. put[k] = [value |-> data[x].value, at |-> data[x].expires_at - Ttl]
  BY <1>2 DEF CacheInv, Stored
<1>8. put' \in [Keys -> [value : Values \union {None}, at : Nat]]  BY <1>3, InvFacts
<1>9. QED
  BY <1>1, <1>2, <1>3, <1>4, <1>5, <1>6, <1>7, <1>8, StoreSafe

\* A set keeps the invariant.
LEMMA SetSafe ==
  ASSUME CacheInv, NEW k \in Keys, NEW v \in Values, Set(k, v)
  PROVE  CacheInv'
<1>1. put' = [put EXCEPT ![k] = [value |-> v, at |-> now]] /\ now' = now /\ ret' = ret
  BY DEF Set
<1>2. put \in [Keys -> [value : Values \union {None}, at : Nat]] /\ now \in Nat  BY InvFacts
<1>3. /\ put' \in [Keys -> [value : Values \union {None}, at : Nat]]
      /\ \A y \in Keys : y # k => put'[y] = put[y]
      /\ put'[k] = [value |-> v, at |-> now]
  BY <1>1, <1>2
<1>4. CASE Ttl <= 0 \/ MaxSize <= 0
  <2>1. data' = data /\ order' = order  BY <1>4 DEF Set
  <2>2. data = <<>> /\ DOMAIN data = {}  BY <1>4 DEF CacheInv
  <2>3. TypeOK'  BY <1>1, <1>3, <2>1, InvFacts DEF CacheInv, TypeOK
  <2>4. Linked(data, order)'  BY <2>1, InvFacts DEF Linked
  <2>5. Stored'  BY <2>1, <2>2 DEF Stored
  <2>6. RecentIn(data, order, put, now)'
    <3>1. CASE Ttl <= 0
      <4>1. ~(Ttl > 0)  BY <3>1, InvFacts
      <4>2. QED  BY <4>1 DEF RecentIn
    <3>2. CASE MaxSize <= 0
      <4>1. \A n \in DOMAIN order : ~(n > Len(order) - MaxSize)
        <5>1. order \in Seq(Keys) /\ MaxSize = 0  BY <3>2, InvFacts
        <5>2. QED  BY <5>1
      <4>2. QED  BY <2>1, <4>1 DEF RecentIn
    <3>3. QED  BY <1>4, <3>1, <3>2
  <2>7. QED  BY <2>1, <2>2, <2>3, <2>4, <2>5, <2>6 DEF CacheInv
<1>5. CASE ~(Ttl <= 0 \/ MaxSize <= 0)
  <2> DEFINE e == [key |-> k, value |-> v, expires_at |-> now + Ttl]
  <2>1. e \in Entry /\ e.key = k /\ e.value = v /\ e.expires_at = now + Ttl
    BY <1>2, InvFacts DEF Entry
  <2>2. data' = Evict(Append(Without(k), e)) /\ Used(k)  BY <1>5 DEF Set
  <2> HIDE DEF e
  <2>3. Ttl > 0 /\ MaxSize > 0  BY <1>5, InvFacts
  <2>4. now = e.expires_at - Ttl  BY <1>2, <2>1, InvFacts
  <2>5. put'[k] = [value |-> e.value, at |-> e.expires_at - Ttl]  BY <1>3, <2>1, <2>4
  <2>6. ret' \in Values \union {None}  BY <1>1, InvFacts
  <2>7. QED  BY <1>1, <1>3, <2>1, <2>2, <2>3, <2>5, <2>6, StoreSafe
<1>6. QED  BY <1>4, <1>5

\* Every step keeps the invariant.
LEMMA CacheStep == CacheInv /\ [Next]_vars => CacheInv'
<1> SUFFICES ASSUME CacheInv, [Next]_vars PROVE CacheInv'  OBVIOUS
<1>1. ASSUME NEW k \in Keys, Get(k) PROVE CacheInv'
  <2>1. CASE Miss(k)
    <3>1. UNCHANGED <<now, data, put, order>> /\ ret' = None  BY <2>1 DEF Miss
    <3>2. TypeOK'  BY <3>1, InvFacts DEF CacheInv, TypeOK
    <3>3. Linked(data, order)' /\ Stored' /\ RecentIn(data, order, put, now)'
      BY <3>1 DEF CacheInv, Linked, Stored, RecentIn
    <3>4. QED  BY <3>1, <3>2, <3>3 DEF CacheInv
  <2>2. QED  BY <1>1, <2>1, ExpireSafe, HitSafe DEF Get
<1>2. ASSUME Clear PROVE CacheInv'
  <2>1. /\ data' = <<>> /\ order' = <<>> /\ put' = [k \in Keys |-> NoPut]
        /\ now' = now /\ ret' = ret
    BY <1>2 DEF Clear
  <2>2. DOMAIN data' = {} /\ DOMAIN order' = {}  BY <2>1
  <2>3. TypeOK'  BY <2>1, InvFacts DEF TypeOK, NoPut
  <2>4. Linked(data, order)' /\ Stored' /\ RecentIn(data, order, put, now)'
    BY <2>2 DEF Linked, Stored, RecentIn
  <2>5. QED  BY <2>1, <2>3, <2>4 DEF CacheInv
<1>3. ASSUME Tick PROVE CacheInv'
  <2>1. UNCHANGED <<data, ret, put, order>> /\ now' = now + 1  BY <1>3 DEF Tick
  <2>2. TypeOK'  BY <2>1, InvFacts DEF CacheInv, TypeOK
  <2>3. Linked(data, order)' /\ Stored'  BY <2>1 DEF CacheInv, Linked, Stored
  <2>4. RecentIn(data, order, put, now)'
    <3>1. ASSUME NEW n \in DOMAIN order, now + 1 <= put[order[n]].at + Ttl
          PROVE  now <= put[order[n]].at + Ttl
      <4>1. order[n] \in Keys  BY InvFacts
      <4>2. put[order[n]].at \in Int /\ now \in Int /\ Ttl \in Int  BY <4>1, InvFacts
      <4>3. QED  BY <3>1, <4>2
    <3>2. QED  BY <2>1, <3>1 DEF CacheInv, RecentIn
  <2>5. QED  BY <2>1, <2>2, <2>3, <2>4 DEF CacheInv
<1>4. ASSUME UNCHANGED vars PROVE CacheInv'
  <2>1. UNCHANGED <<now, data, ret, put, order>>  BY <1>4 DEF vars
  <2>2. TypeOK'  BY <2>1 DEF CacheInv, TypeOK
  <2>3. Linked(data, order)' /\ Stored' /\ RecentIn(data, order, put, now)'
    BY <2>1 DEF CacheInv, Linked, Stored, RecentIn
  <2>4. QED  BY <2>1, <2>2, <2>3 DEF CacheInv
<1>5. QED  BY <1>1, <1>2, <1>3, <1>4, SetSafe DEF Next, Uses

\* The invariant holds in every reachable state.
THEOREM InvCorrect == Spec => []CacheInv
BY CacheStart, CacheStep, PTL DEF Spec

-----------------------------------------------------------------------------
(* What it says of the cache *)

\* The cache is well formed: never more than MaxSize entries, and one per key
\* (set and get, utils/cache.py).
THEOREM TypeCorrect == Spec => []TypeOK
<1>1. CacheInv => TypeOK  BY DEF CacheInv
<1>2. QED  BY <1>1, InvCorrect, PTL

\* Of the MaxSize keys used last, none is missing while its value is fresh: the
\* eviction loop of set() takes only entries that MaxSize others were used after.
THEOREM KeepsRecentCorrect == Spec => []KeepsRecent
<1>1. CacheInv => KeepsRecent  BY RecentIsKeepsRecent DEF CacheInv
<1>2. QED  BY <1>1, InvCorrect, PTL

\* The cache implements CacheSpec, whatever the order of its operations: a
\* lookup returns the last value set for that key since the last clear, within
\* its time to live, or nothing.
THEOREM NeverLiesCorrect == Spec => NeverLies
<1>1. Init => Abstract!Init
  BY DEF Init, Abstract!Init, NoPut, Abstract!NoPut
<1>2. CacheInv /\ [Next]_vars => [Abstract!Next]_Abstract!vars
  <2> SUFFICES ASSUME CacheInv, [Next]_vars PROVE [Abstract!Next]_Abstract!vars
    OBVIOUS
  <2>1. ASSUME NEW k \in Keys, Get(k) PROVE Abstract!Get(k)
    <3>1. CASE Miss(k)  BY <3>1 DEF Miss, Abstract!Get
    <3>2. CASE Expire(k)  BY <3>2 DEF Expire, Abstract!Get
    <3>3. CASE Hit(k)
      <4>1. PICK x \in Lookup(k) : ~Expired(data[x]) /\ ret' = data[x].value
        BY <3>3 DEF Hit
      <4>2. x \in DOMAIN data /\ data[x].key = k  BY <4>1 DEF Lookup
      <4>3. put[k] = [value |-> data[x].value, at |-> data[x].expires_at - Ttl]
        BY <4>2 DEF CacheInv, Stored
      <4>4. /\ data[x].value \in Values /\ data[x].expires_at \in Int
            /\ now \in Int /\ Ttl \in Int
        BY <4>2, InvFacts
      <4>5. now <= put[k].at + Ttl
        <5>1. put[k].at = data[x].expires_at - Ttl  BY <4>3
        <5>2. now <= data[x].expires_at  BY <4>1, <4>4 DEF Expired
        <5>3. QED  BY <4>4, <5>1, <5>2
      <4>6. put[k].value = data[x].value /\ put[k].value # None
        BY <4>3, <4>4, CacheAssumption
      <4>7. UNCHANGED <<now, put>>  BY <3>3 DEF Hit
      <4>8. QED  BY <4>1, <4>5, <4>6, <4>7 DEF Abstract!Get, Abstract!Fresh
    <3>4. QED  BY <2>1, <3>1, <3>2, <3>3 DEF Get
  <2>2. ASSUME NEW k \in Keys, NEW v \in Values, Set(k, v) PROVE Abstract!Set(k, v)
    BY <2>2 DEF Set, Abstract!Set
  <2>3. ASSUME Clear PROVE Abstract!Clear
    BY <2>3 DEF Clear, Abstract!Clear, NoPut, Abstract!NoPut
  <2>4. ASSUME Tick PROVE Abstract!Tick
    BY <2>4 DEF Tick, Abstract!Tick
  <2>5. ASSUME UNCHANGED vars PROVE UNCHANGED Abstract!vars
    BY <2>5 DEF vars, Abstract!vars
  <2>6. QED  BY <2>1, <2>2, <2>3, <2>4, <2>5 DEF Next, Uses, Abstract!Next
<1>3. QED
  BY <1>1, <1>2, InvCorrect, PTL DEF Spec, NeverLies, Abstract!Spec

-----------------------------------------------------------------------------
(* What the operators and the synonyms do *)

\* The synonyms of a token: new names, each once, and no more than allowed.
NewNames(s, taken) ==
  /\ s \in Seq(STRING) /\ Len(s) <= MaxExpansion
  /\ IsInjective(s) /\ ToSet(s) \intersect taken = {}

\* Names gives that.
LEMMA NamesAre ==
  ASSUME NEW token, NEW taken PROVE NewNames(Names(token, taken), taken)
<1> DEFINE names == IF token \in DOMAIN Lemmas THEN Lemmas[token] ELSE <<>>
           n == Len(names)
           out == taken \union {token}
           Skips(s, x) == Len(s) >= MaxExpansion \/ x \in out \union ToSet(s)
           K(f) == f = [i \in 0 .. n |->
                          IF i = 0 THEN <<>>
                          ELSE IF \/ Len(f[i - 1]) >= MaxExpansion
                                  \/ names[i] \in taken \union {token} \union ToSet(f[i - 1])
                          THEN f[i - 1] ELSE Append(f[i - 1], names[i])]
           added == CHOOSE f : K(f)
<1>1. names \in Seq(STRING) /\ MaxExpansion \in Nat
  <2>1. CASE token \in DOMAIN Lemmas
    <3>1. Lemmas[token] \in Seq(STRING)  BY <2>1, QueryAssumption
    <3>2. QED  BY <2>1, <3>1, QueryAssumption
  <2>2. CASE token \notin DOMAIN Lemmas  BY <2>2, QueryAssumption
  <2>3. QED  BY <2>1, <2>2
<1>2. n \in Nat /\ \A i \in 1 .. n : names[i] \in STRING
  <2> HIDE DEF names
  <2>1. QED  BY <1>1, LenProperties, ElementOfSeq
<1>3. Names(token, taken) = added[n]  BY DEF Names
<1> HIDE DEF names, n
<1>4. \E f : K(f)
  <2> DEFINE step(i, s) == IF Skips(s, names[i]) THEN s ELSE Append(s, names[i])
             h == [i \in 1 .. n |-> [s \in Seq(STRING) |-> step(i, s)]]
  <2>1. \A i \in 1 .. n, s \in Seq(STRING) : step(i, s) \in Seq(STRING)
    BY <1>2, AppendProperties
  <2>2. h \in [1 .. n -> [Seq(STRING) -> Seq(STRING)]]
    <3> HIDE DEF step
    <3>1. QED  BY <2>1
  <2>3. \A i \in 1 .. n, s \in Seq(STRING) : h[i][s] = step(i, s)
    <3> HIDE DEF step
    <3>1. QED  OBVIOUS
  <2>4. <<>> \in Seq(STRING)  OBVIOUS
  <2> DEFINE X == Seq(STRING)
             a == <<>>
  <2> HIDE DEF h, step
  <2>5. PICK f \in [0 .. n -> X] : Computes(f, n, a, h)
    <3>1. h \in [1 .. n -> [X -> X]] /\ a \in X  BY <2>2, <2>4
    <3> HIDE DEF X, a
    <3>2. QED  BY <1>2, <3>1, StepsExist
  <2>6. \A i \in 0 .. n : f[i] = IF i = 0 THEN <<>> ELSE step(i, f[i - 1])
    <3>1. \A i \in 0 .. n : f[i] = IF i = 0 THEN <<>> ELSE h[i][f[i - 1]]  BY <2>5 DEF Computes, a
    <3>2. \A i \in 0 .. n : i = 0 \/ (i \in 1 .. n /\ f[i - 1] \in Seq(STRING))
      <4> HIDE DEF X
      <4>1. \A i \in 0 .. n : i = 0 \/ (i \in 1 .. n /\ i - 1 \in 0 .. n)  BY <1>2
      <4>2. \A i \in 0 .. n : i = 0 \/ (i \in 1 .. n /\ f[i - 1] \in X)  BY <2>5, <4>1
      <4>3. QED  BY <4>2 DEF X
    <3>3. QED  BY <2>3, <3>1, <3>2
  <2>7. f = [i \in 0 .. n |-> f[i]]  BY <2>5
  <2>8. f = [i \in 0 .. n |-> IF i = 0 THEN <<>> ELSE step(i, f[i - 1])]  BY <2>6, <2>7
  <2>9. K(f)  BY <2>8 DEF step
  <2>10. QED  BY <2>9
<1>5. K(added)
  <2> HIDE DEF K
  <2>1. QED  BY <1>4
<1>6. /\ added[0] = <<>>
      /\ \A i \in 1 .. n : added[i] = IF Skips(added[i - 1], names[i]) THEN added[i - 1]
                                      ELSE Append(added[i - 1], names[i])
  <2> HIDE DEF added
  <2>1. \A i \in 0 .. n : added[i] = IF i = 0 THEN <<>>
                                     ELSE IF Skips(added[i - 1], names[i]) THEN added[i - 1]
                                     ELSE Append(added[i - 1], names[i])
    BY <1>5
  <2>2. 0 \in 0 .. n /\ \A i \in 1 .. n : i \in 0 .. n /\ i # 0  BY <1>2
  <2>3. QED  BY <2>1, <2>2
<1> HIDE DEF added
<1> DEFINE P == {k \in Nat : k <= n => NewNames(added[k], out)}
<1>7. 0 \in P
  <2>1. <<>> \in Seq(STRING) /\ Len(<<>>) = 0 /\ ToSet(<<>>) = {} /\ IsInjective(<<>>)
    BY DEF ToSet, IsInjective
  <2>2. NewNames(added[0], out)  BY <1>1, <1>6, <2>1 DEF NewNames
  <2>3. QED  BY <2>2
<1>8. ASSUME NEW k \in P PROVE k + 1 \in P
  <2> SUFFICES ASSUME k + 1 <= n PROVE NewNames(added[k + 1], out)  OBVIOUS
  <2> DEFINE s == added[k]
             x == names[k + 1]
  <2>1. k \in Nat /\ k <= n /\ k + 1 \in 1 .. n /\ k + 1 - 1 = k  BY <1>2
  <2>2. NewNames(s, out) /\ x \in STRING  BY <1>2, <2>1
  <2>3. added[k + 1] = IF Skips(s, x) THEN s ELSE Append(s, x)  BY <1>6, <2>1
  <2> HIDE DEF s, x, out
  <2>4. CASE Skips(s, x)  BY <2>2, <2>3, <2>4
  <2>5. CASE ~Skips(s, x)
    <3>1. added[k + 1] = Append(s, x) /\ ~(Len(s) >= MaxExpansion) /\ x \notin out
          /\ x \notin ToSet(s)
      BY <2>3, <2>5
    <3>2. s \in Seq(STRING) /\ IsInjective(s) /\ ToSet(s) \intersect out = {}
      BY <2>2 DEF NewNames
    <3>3. /\ Append(s, x) \in Seq(STRING) /\ Len(Append(s, x)) = Len(s) + 1
          /\ ToSet(Append(s, x)) = ToSet(s) \union {x}
          /\ IsInjective(s) /\ x \notin ToSet(s) => IsInjective(Append(s, x))
      BY <2>2, <3>2, AppendIs
    <3>4. Len(s) \in Nat  BY <3>2, LenProperties
    <3>5. Len(s) + 1 <= MaxExpansion  BY <1>1, <3>1, <3>4
    <3>6. QED  BY <3>1, <3>2, <3>3, <3>5 DEF NewNames
  <2>6. QED  BY <2>4, <2>5
<1>9. P = Nat
  <2>1. P \in SUBSET Nat  OBVIOUS
  <2> HIDE DEF P
  <2>2. QED  BY <1>7, <1>8, <2>1, SetInduction
<1>10. NewNames(added[n], out)
  <2>1. n \in P  BY <1>2, <1>9
  <2>2. n <= n  BY <1>2
  <2>3. QED  BY <2>1, <2>2
<1>11. QED  BY <1>3, <1>10 DEF NewNames

\* The synonyms that follow a query: each once, none of its words, and no more for
\* each word than allowed.
Synonyms(extras, tokens) ==
  /\ extras \in Seq(STRING) /\ IsInjective(extras)
  /\ Len(extras) <= MaxExpansion * Len(tokens)
  /\ ToSet(extras) \intersect ToSet(tokens) = {}

\* Expand puts them behind its words.
LEMMA ExpandIs ==
  ASSUME NEW tokens \in Seq(STRING)
  PROVE  \E extras : Synonyms(extras, tokens) /\ Expand(tokens) = tokens \o extras
<1> DEFINE n == Len(tokens)
           new(i, s) == Names(tokens[i], ToSet(tokens) \union ToSet(s))
           K(f) == f = [i \in 0 .. n |->
                          IF i = 0 THEN <<>>
                          ELSE f[i - 1] \o Names(tokens[i], ToSet(tokens) \union ToSet(f[i - 1]))]
           extras == CHOOSE f : K(f)
<1>1. n \in Nat /\ MaxExpansion \in Nat  BY QueryAssumption, LenProperties
<1>2. Expand(tokens) = tokens \o extras[n]  BY DEF Expand
<1> HIDE DEF n
<1>3. \E f : K(f)
  <2> DEFINE X == Seq(STRING)
             a == <<>>
             step(i, s) == s \o new(i, s)
             h == [i \in 1 .. n |-> [s \in X |-> step(i, s)]]
  <2>1. ASSUME NEW i \in 1 .. n, NEW s \in X PROVE step(i, s) \in X
    <3>1. new(i, s) \in Seq(STRING)  BY NamesAre DEF NewNames
    <3> HIDE DEF new
    <3>2. QED  BY <3>1, ConcatProperties
  <2>2. h \in [1 .. n -> [X -> X]]
    <3> HIDE DEF step, X
    <3>1. QED  BY <2>1
  <2>3. \A i \in 1 .. n, s \in X : h[i][s] = step(i, s)
    <3> HIDE DEF step, X
    <3>1. QED  OBVIOUS
  <2>4. a \in X  OBVIOUS
  <2> HIDE DEF h, step, X, a
  <2>5. PICK f \in [0 .. n -> X] : Computes(f, n, a, h)
    <3>1. h \in [1 .. n -> [X -> X]] /\ a \in X /\ n \in Nat  BY <1>1, <2>2, <2>4
    <3>2. QED  BY ONLY <3>1, StepsExist
  <2>6. \A i \in 0 .. n : f[i] = IF i = 0 THEN a ELSE step(i, f[i - 1])
    <3>1. \A i \in 0 .. n : f[i] = IF i = 0 THEN a ELSE h[i][f[i - 1]]  BY <2>5 DEF Computes
    <3>2. \A i \in 0 .. n : i = 0 \/ (i \in 1 .. n /\ i - 1 \in 0 .. n)  BY <1>1
    <3>3. \A i \in 0 .. n : i = 0 \/ (i \in 1 .. n /\ f[i - 1] \in X)  BY <2>5, <3>2
    <3>4. QED  BY <2>3, <3>1, <3>3
  <2>7. f = [i \in 0 .. n |-> f[i]]  BY <2>5
  <2>8. f = [i \in 0 .. n |-> IF i = 0 THEN a ELSE step(i, f[i - 1])]  BY <2>6, <2>7
  <2>9. K(f)  BY <2>8 DEF step, a, new
  <2>10. QED  BY <2>9
<1>4. K(extras)
  <2> HIDE DEF K
  <2>1. QED  BY <1>3
<1>5. /\ extras[0] = <<>>
      /\ \A i \in 1 .. n : extras[i] = extras[i - 1] \o new(i, extras[i - 1])
  <2> HIDE DEF extras
  <2>1. \A i \in 0 .. n : extras[i] = IF i = 0 THEN <<>>
                                      ELSE extras[i - 1] \o new(i, extras[i - 1])
    BY <1>4
  <2>2. 0 \in 0 .. n /\ \A i \in 1 .. n : i \in 0 .. n /\ i # 0  BY <1>1
  <2>3. QED  BY <2>1, <2>2
<1> HIDE DEF extras
<1> DEFINE Good(k) == /\ extras[k] \in Seq(STRING) /\ IsInjective(extras[k])
                      /\ Len(extras[k]) <= MaxExpansion * k
                      /\ ToSet(extras[k]) \intersect ToSet(tokens) = {}
           P == {k \in Nat : k <= n => Good(k)}
<1>6. 0 \in P
  <2>1. <<>> \in Seq(STRING) /\ Len(<<>>) = 0 /\ ToSet(<<>>) = {} /\ IsInjective(<<>>)
    BY DEF ToSet, IsInjective
  <2>2. MaxExpansion * 0 = 0  BY <1>1
  <2>3. Good(0)  BY <1>5, <2>1, <2>2
  <2> HIDE DEF Good
  <2>4. QED  BY <2>3
<1>7. ASSUME NEW k \in P PROVE k + 1 \in P
  <2> SUFFICES ASSUME k + 1 <= n PROVE Good(k + 1)
    <3> HIDE DEF Good
    <3>1. k + 1 \in Nat  OBVIOUS
    <3>2. QED  BY <3>1
  <2> DEFINE s == extras[k]
             t == new(k + 1, s)
  <2>1. k \in Nat /\ k <= n /\ k + 1 \in 1 .. n /\ k + 1 - 1 = k  BY <1>1
  <2>2. /\ s \in Seq(STRING) /\ IsInjective(s) /\ Len(s) <= MaxExpansion * k
        /\ ToSet(s) \intersect ToSet(tokens) = {}
    BY <2>1
  <2>3. extras[k + 1] = s \o t
    <3> DEFINE l == k + 1
    <3>1. l \in 1 .. n /\ l - 1 = k  BY <2>1
    <3> HIDE DEF l
    <3>2. extras[l] = extras[l - 1] \o new(l, extras[l - 1])  BY <1>5, <3>1
    <3>3. QED  BY <3>1, <3>2 DEF l
  <2>4. /\ t \in Seq(STRING) /\ IsInjective(t) /\ Len(t) <= MaxExpansion
        /\ ToSet(t) \intersect ToSet(tokens) = {} /\ ToSet(s) \intersect ToSet(t) = {}
    <3>1. NewNames(t, ToSet(tokens) \union ToSet(s))  BY NamesAre
    <3> HIDE DEF t
    <3>2. QED  BY <3>1 DEF NewNames
  <2> HIDE DEF s, t
  <2>5. /\ s \o t \in Seq(STRING) /\ IsInjective(s \o t)
        /\ ToSet(s \o t) = ToSet(s) \union ToSet(t)
    BY <2>2, <2>4, ConcatIs
  <2>6. Len(s \o t) = Len(s) + Len(t) /\ Len(s) \in Nat /\ Len(t) \in Nat
    BY <2>2, <2>4, ConcatProperties, LenProperties
  <2>7. MaxExpansion * (k + 1) = MaxExpansion * k + MaxExpansion /\ MaxExpansion * k \in Int
    BY <1>1, <2>1
  <2>8. Len(s \o t) <= MaxExpansion * (k + 1)
    <3> DEFINE p == MaxExpansion * k
               q == MaxExpansion * (k + 1)
    <3>1. q = p + MaxExpansion /\ p \in Int /\ Len(s) <= p  BY <2>2, <2>7
    <3> HIDE DEF p, q
    <3>2. Len(s \o t) <= q  BY <1>1, <2>4, <2>6, <3>1
    <3>3. QED  BY <3>2 DEF q
  <2>9. QED  BY <2>2, <2>3, <2>4, <2>5, <2>8
<1>8. P = Nat
  <2>1. P \in SUBSET Nat  OBVIOUS
  <2> HIDE DEF P
  <2>2. QED  BY <1>6, <1>7, <2>1, SetInduction
<1>9. Good(n)
  <2>1. n \in P
    <3> HIDE DEF P
    <3>1. QED  BY <1>1, <1>8
  <2>2. n <= n  BY <1>1
  <2> HIDE DEF Good
  <2>3. QED  BY <2>1, <2>2
<1>10. Synonyms(extras[n], tokens)  BY <1>9 DEF Synonyms, n
<1>11. QED  BY <1>2, <1>10

\* What is left of a query of words and whole operators is its words, in their order.
LEMMA WordsStay ==
  ASSUME NEW tokens \in SUBSET QueryTokens, NEW raw \in Seq(tokens),
         \A i \in DOMAIN raw : Plain(raw[i])
  PROVE  LET words == Only(raw, {t \in tokens : t.sign = "" /\ t.field = ""})
             text  == Process(raw).normalised
         IN text = [i \in DOMAIN words |-> Lowered(words[i].val)] /\ text \in Seq(STRING)
<1> DEFINE T == {t \in tokens : Plain(t)}
           R == {t \in tokens : t.sign = "" /\ t.field = ""}
           S == STRING \ {""}
           h == [t \in T |-> Rest(t)]
           m == Mapped(raw, h)
           words == Only(raw, R)
           clean == Only(m, S)
<1>1. \A t \in T : /\ t.val \in S /\ t.rest = ""
                   /\ t.sign = "" \/ t.field = ""
  <2>1. ASSUME NEW t \in T
        PROVE  /\ t.val \in STRING \ {""} /\ t.rest = ""
               /\ t.sign = "" \/ t.field = ""
    <3>1. t \in QueryTokens /\ Plain(t)  OBVIOUS
    <3>2. t.val \in STRING \ {""}  BY <3>1 DEF QueryTokens
    <3>3. QED  BY <3>1, <3>2 DEF Plain
  <2>2. QED  BY <2>1
<1>2. \A t \in T : t \in R <=> t.sign = "" /\ t.field = ""  OBVIOUS
<1>3. \A t \in T : Rest(t) = IF t.sign = "" /\ t.field = "" THEN t.val ELSE ""
  BY <1>1 DEF Rest
<1> HIDE DEF T, R
<1>4. h \in [T -> STRING \union {""}]
  <2>1. \A t \in T : Rest(t) \in STRING \union {""}  BY <1>1, <1>3
  <2>2. QED  BY <2>1
<1>5. \A t \in T : h[t] = IF t.sign = "" /\ t.field = "" THEN t.val ELSE ""  BY <1>3
<1>6. \A t \in T : t \in R <=> h[t] \in S  BY <1>1, <1>2, <1>5
<1>7. raw \in Seq(T)
  <2>1. /\ Len(raw) \in Nat /\ DOMAIN raw = 1 .. Len(raw)
        /\ \A i \in 1 .. Len(raw) : raw[i] \in tokens
    BY LenProperties, ElementOfSeq
  <2>2. \A i \in 1 .. Len(raw) : raw[i] \in T  BY <2>1 DEF T
  <2>3. raw = [i \in 1 .. Len(raw) |-> raw[i]]  BY <2>1
  <2>4. raw \in [1 .. Len(raw) -> T]  BY <2>2, <2>3
  <2>5. QED  BY <2>1, <2>4
<1>8. m = [i \in DOMAIN raw |-> Rest(raw[i])]
  <2>1. \A i \in DOMAIN raw : raw[i] \in T  BY <1>7
  <2>2. QED  BY <2>1 DEF Mapped
<1> HIDE DEF h, S
<1>9. clean = Mapped(words, h)
  <2> DEFINE U == STRING \union {""}
  <2>1. h \in [T -> U]  BY <1>4
  <2> HIDE DEF U
  <2>2. Only(Mapped(raw, h), S) = Mapped(Only(raw, R), h)
    BY ONLY <1>6, <1>7, <2>1, OnlyMaps
  <2>3. QED  BY <2>2
<1> HIDE DEF m
<1>10. words \in Seq(T) /\ ToSet(words) = ToSet(raw) \intersect R  BY <1>7, OnlyIs
<1>11. Process(raw).normalised = [i \in DOMAIN clean |-> Lowered(clean[i])]
  BY <1>8 DEF Process, StripOperators, S
<1> HIDE DEF clean, words
<1>12. \A i \in DOMAIN words : words[i] \in T /\ words[i] \in R
  <2>1. \A i \in DOMAIN words : words[i] \in ToSet(words)  BY DEF ToSet
  <2>2. QED  BY <1>10, <2>1
<1>13. \A i \in DOMAIN words : h[words[i]] = words[i].val /\ words[i].val \in STRING
  BY <1>1, <1>2, <1>5, <1>12 DEF S
<1>14. DOMAIN clean = DOMAIN words /\ \A i \in DOMAIN words : clean[i] = words[i].val
  BY <1>9, <1>13 DEF Mapped
<1> DEFINE text == [i \in DOMAIN words |-> Lowered(words[i].val)]
<1>15. Process(raw).normalised = text  BY <1>11, <1>14
<1>16. text \in Seq(STRING)
  <2>1. \A x \in STRING : Lowered(x) \in STRING  BY QueryAssumption DEF Lowered
  <2>2. DOMAIN words = 1 .. Len(words) /\ Len(words) \in Nat  BY <1>10, LenProperties
  <2>3. \A i \in 1 .. Len(words) : Lowered(words[i].val) \in STRING  BY <1>13, <2>1, <2>2
  <2>4. text \in [1 .. Len(words) -> STRING]  BY <2>2, <2>3
  <2>5. QED  BY <2>2, <2>4
<1>17. QED  BY <1>15, <1>16 DEF words, R

\* A document passes a query of whole operators when it is what was asked for.
LEMMA PassesAsked ==
  ASSUME NEW tokens \in SUBSET QueryTokens, NEW raw \in Seq(tokens),
         \A i \in DOMAIN raw : Plain(raw[i]), NEW doc
  PROVE  Passes(ParseOperators(raw), doc) <=> Asked(raw, doc)
<1> DEFINE n == Len(raw)
           all == doc.url \union doc.title
<1>1. /\ n \in Nat /\ DOMAIN raw = 1 .. n
      /\ \A i \in 1 .. n : /\ raw[i].sign = "" \/ raw[i].field = ""
                           /\ Plain(raw[i])
  BY LenProperties DEF Plain
<1> HIDE DEF n
<1>2. ASSUME NEW s \in {"-", "+"}
      PROVE  Signed(raw, s) = {raw[i].val : i \in {j \in 1 .. n : raw[j].sign = s}}
  <2>1. ToSet(raw) = {raw[i] : i \in 1 .. n}  BY <1>1 DEF ToSet
  <2>2. \A i \in 1 .. n : raw[i].sign = s => raw[i].field = ""  BY <1>1
  <2>3. ASSUME NEW x \in Signed(raw, s)
        PROVE  \E i \in 1 .. n : raw[i].sign = s /\ x = raw[i].val
    <3>1. PICK t \in ToSet(raw) : t.sign = s /\ x = IF t.field = "" THEN t.val ELSE t.field
      BY DEF Signed
    <3>2. PICK i \in 1 .. n : t = raw[i]  BY <2>1
    <3>3. QED  BY <2>2, <3>1, <3>2
  <2>4. ASSUME NEW i \in 1 .. n, raw[i].sign = s PROVE raw[i].val \in Signed(raw, s)
    <3>1. raw[i] \in ToSet(raw) /\ raw[i].field = ""  BY <2>1, <2>2, <2>4
    <3>2. QED  BY <2>4, <3>1 DEF Signed
  <2>5. QED  BY <2>3, <2>4
<1>3. First(raw, "site") = {raw[i].val : i \in {j \in 1 .. n :
          raw[j].field = "site" /\ \A l \in 1 .. j - 1 : raw[l].field # "site"}}
  <2> DEFINE those == {i \in 1 .. n : raw[i].field = "site"}
  <2>1. \A j \in those : (\A k \in those : j <= k)
                            <=> (\A l \in 1 .. j - 1 : raw[l].field # "site")
    <3>1. ASSUME NEW j \in those, \A k \in those : j <= k, NEW l \in 1 .. j - 1,
                 raw[l].field = "site"
          PROVE  FALSE
      <4>1. l \in 1 .. n /\ ~(j <= l)
        <5>1. j \in 1 .. n /\ l \in 1 .. j - 1 /\ n \in Nat  BY <1>1
        <5>2. QED  BY ONLY <5>1
      <4>2. QED  BY <3>1, <4>1
    <3>2. ASSUME NEW j \in those, \A l \in 1 .. j - 1 : raw[l].field # "site",
                 NEW k \in those
          PROVE  j <= k
      <4>1. k \in 1 .. n /\ j \in 1 .. n /\ n \in Nat /\ raw[k].field = "site"  BY <1>1
      <4>2. k \notin 1 .. j - 1  BY <3>2, <4>1
      <4>3. k \in 1 .. n /\ j \in 1 .. n /\ n \in Nat  BY <4>1
      <4>4. QED  BY ONLY <4>2, <4>3
    <3>3. QED  BY <3>1, <3>2
  <2>2. First(raw, "site") = {raw[i].val : i \in {j \in those : \A k \in those : j <= k}}
    BY <1>1 DEF First
  <2>3. {j \in those : \A k \in those : j <= k}
         = {j \in 1 .. n : raw[j].field = "site" /\ \A l \in 1 .. j - 1 : raw[l].field # "site"}
    BY <2>1
  <2>4. QED  BY <2>2, <2>3
<1> DEFINE ops == ParseOperators(raw)
<1>4. /\ ops.field["site"] = First(raw, "site")
      /\ ops.exclude_terms = Signed(raw, "-") /\ ops.must_include = Signed(raw, "+")
  BY DEF ParseOperators, Fields
<1> HIDE DEF ops
<1>5. (\A t \in ops.exclude_terms : Lowered(t) \notin doc.url \union doc.title)
      <=> \A i \in 1 .. n : raw[i].sign = "-" => Lowered(raw[i].val) \notin all
  BY <1>2, <1>4
<1>6. (\A t \in ops.must_include : Lowered(t) \in doc.url \union doc.title)
      <=> \A i \in 1 .. n : raw[i].sign = "+" => Lowered(raw[i].val) \in all
  BY <1>2, <1>4
<1>7. ops.field["site"] \subseteq doc.url
      <=> \A i \in 1 .. n : raw[i].field = "site" /\ (\A l \in 1 .. i - 1 : raw[l].field # "site")
                           => raw[i].val \in doc.url
  BY <1>3, <1>4
<1>8. QED  BY <1>1, <1>5, <1>6, <1>7 DEF Passes, Asked, ops

\* One more token lets in no other document.
LEMMA MoreIsStricter ==
  ASSUME NEW tokens, NEW raw \in Seq(tokens), NEW t \in tokens, NEW doc,
         Passes(ParseOperators(Append(raw, t)), doc)
  PROVE  Passes(ParseOperators(raw), doc)
<1> DEFINE n == Len(raw)
           more == Append(raw, t)
<1>1. /\ n \in Nat /\ DOMAIN raw = 1 .. n /\ DOMAIN more = 1 .. n + 1
      /\ \A i \in 1 .. n : more[i] = raw[i]
  BY AppendProperties, LenProperties
<1>2. \A i \in 1 .. n : i \in 1 .. n + 1  BY <1>1
<1> HIDE DEF n, more
<1>3. ASSUME NEW s PROVE Signed(raw, s) \subseteq Signed(more, s)
  <2>1. ToSet(raw) \subseteq ToSet(more)  BY <1>1, <1>2 DEF ToSet
  <2>2. QED  BY <2>1 DEF Signed
<1>4. ASSUME NEW f PROVE First(raw, f) \subseteq First(more, f)
  <2> DEFINE short == {i \in 1 .. n : raw[i].field = f}
             long == {i \in 1 .. n + 1 : more[i].field = f}
  <2>1. ASSUME NEW i \in short, \A k \in short : i <= k
        PROVE  i \in long /\ more[i].val = raw[i].val /\ \A k \in long : i <= k
    <3>1. i \in 1 .. n /\ i \in long /\ more[i].val = raw[i].val  BY <1>1, <1>2
    <3>2. ASSUME NEW k \in long PROVE i <= k
      <4>1. CASE k \in 1 .. n  BY <1>1, <2>1, <4>1
      <4>2. CASE k \notin 1 .. n  BY <1>1, <3>1, <4>2
      <4>3. QED  BY <4>1, <4>2
    <3>3. QED  BY <3>1, <3>2
  <2>2. First(raw, f) = {raw[i].val : i \in {j \in short : \A k \in short : j <= k}}
    BY <1>1 DEF First
  <2>3. First(more, f) = {more[i].val : i \in {j \in long : \A k \in long : j <= k}}
    BY <1>1 DEF First
  <2> HIDE DEF short, long
  <2>4. QED  BY <2>1, <2>2, <2>3
<1> DEFINE a == ParseOperators(raw)
           b == ParseOperators(more)
<1>5. /\ a.field["site"] \subseteq b.field["site"]
      /\ a.exclude_terms \subseteq b.exclude_terms /\ a.must_include \subseteq b.must_include
  BY <1>3, <1>4 DEF ParseOperators, Fields
<1>6. Passes(b, doc)  BY DEF more
<1> HIDE DEF a, b
<1>7. Passes(a, doc)  BY <1>5, <1>6 DEF Passes
<1>8. QED  BY <1>7 DEF a

\* Queries are honoured, whatever the words, their lower case, their synonyms, the
\* queries and the documents: the text that the models get is every word of the
\* query and no operator, the filters let through what was asked for and no more
\* with one more operator, and synonyms come after the words, each once, a few for
\* each word, none a word of the query.
THEOREM HonouredCorrect == Honoured
<1> SUFFICES ASSUME NEW raw \in Raws, \A i \in DOMAIN raw : Plain(raw[i])
    PROVE  LET pq     == Process(raw)
               words  == Only(raw, {t \in Tokens : t.sign = "" /\ t.field = ""})
               extras == SubSeq(pq.expanded, Len(pq.normalised) + 1, Len(pq.expanded))
           IN
           /\ pq.normalised = [i \in DOMAIN words |-> Lowered(words[i].val)]
           /\ \A doc \in Docs :
                /\ Passes(pq.operators, doc) <=> Asked(raw, doc)
                /\ \A t \in Tokens :
                     Passes(Process(Append(raw, t)).operators, doc) => Passes(pq.operators, doc)
           /\ IsPrefix(pq.normalised, pq.expanded)
           /\ IsInjective(extras) /\ Len(extras) <= MaxExpansion * Len(pq.normalised)
           /\ ToSet(extras) \intersect ToSet(pq.normalised) = {}
  BY DEF Honoured, QueriesAreHonoured
<1> DEFINE pq == Process(raw)
           text == pq.normalised
           words == Only(raw, {t \in Tokens : t.sign = "" /\ t.field = ""})
<1>1. Tokens \in SUBSET QueryTokens /\ raw \in Seq(Tokens)  BY PathAssumption
<1>2. text = [i \in DOMAIN words |-> Lowered(words[i].val)] /\ text \in Seq(STRING)
  BY <1>1, WordsStay
<1>3. \A r : Process(r).operators = ParseOperators(r)  BY DEF Process
<1>4. pq.expanded = Expand(text)  BY DEF Process
<1> HIDE DEF pq
<1>5. PICK extras : Synonyms(extras, text) /\ Expand(text) = text \o extras
  BY <1>2, ExpandIs
<1>6. IsPrefix(text, pq.expanded) /\ SubSeq(pq.expanded, Len(text) + 1, Len(pq.expanded)) = extras
  <2>1. pq.expanded = text \o extras /\ extras \in Seq(STRING)  BY <1>4, <1>5 DEF Synonyms
  <2>2. IsPrefix(text, text \o extras)
        /\ SubSeq(text \o extras, Len(text) + 1, Len(text \o extras)) = extras
    BY <1>2, <2>1, BehindIs
  <2>3. QED  BY <2>1, <2>2
<1>7. ASSUME NEW doc \in Docs
      PROVE  /\ Passes(pq.operators, doc) <=> Asked(raw, doc)
             /\ \A t \in Tokens :
                  Passes(Process(Append(raw, t)).operators, doc) => Passes(pq.operators, doc)
  BY <1>1, <1>3, PassesAsked, MoreIsStricter DEF pq
<1>8. QED  BY <1>2, <1>5, <1>6, <1>7 DEF Synonyms, pq

-----------------------------------------------------------------------------
(* On the way of a search *)

\* The vectors are of the texts under whose keys they are, each once, and no more
\* than there is room for.
OwnVector(t) == [key |-> KeyOf(t), vector |-> Encoded(t)]
OwnVectors(vs) ==
  /\ vs \in Seq({OwnVector(t) : t \in Encodable})
  /\ \A i, j \in DOMAIN vs : vs[i].key = vs[j].key => i = j
  /\ CacheSize > 0 => Len(vs) <= CacheSize

\* What a request may get.
Own(k) == {Response(k, Encoded(Text(k)), f) : f \in {None, Encoded(RawText(k))}}

\* Every entry is a response to its own request.
OwnEntries == \A i \in DOMAIN data : data[i].value \in Own(data[i].key)

PathInv ==
  /\ CacheInv /\ busy \in Keys \union {None}
  /\ OwnVectors(vectors) /\ OwnEntries

\* A lookup brings in no entry.
LEMMA GetEntries ==
  ASSUME CacheInv, NEW k \in Keys, Get(k)
  PROVE  \A i \in DOMAIN data' : \E j \in DOMAIN data : data'[i] = data[j]
<1> DEFINE c == Without(k)
<1>1. /\ c \in Seq(Entry) /\ \A i \in DOMAIN c : \E j \in DOMAIN data : c[i] = data[j]
  BY WithoutIs DEF LeftOut
<1> HIDE DEF c
<1>2. CASE Miss(k)  BY <1>2 DEF Miss
<1>3. CASE Expire(k)
  <2>1. data' = c  BY <1>3 DEF Expire, c
  <2>2. QED  BY <1>1, <2>1
<1>4. CASE Hit(k)
  <2>1. PICK x \in Lookup(k) : data' = Append(c, data[x])  BY <1>4 DEF Hit, c
  <2>2. x \in DOMAIN data /\ data[x] \in Entry
    <3>1. x \in DOMAIN data  BY <2>1 DEF Lookup
    <3>2. QED  BY <3>1, InvFacts
  <2> DEFINE e == data[x]
             a == Append(c, e)
  <2>3. /\ DOMAIN a = 1 .. Len(c) + 1 /\ DOMAIN c = 1 .. Len(c) /\ Len(c) \in Nat
        /\ a[Len(c) + 1] = e /\ \A i \in DOMAIN c : a[i] = c[i]
    <3>1. e \in Entry  BY <2>2
    <3> HIDE DEF e
    <3>2. QED  BY <1>1, <3>1
  <2>4. data' = a  BY <2>1
  <2> HIDE DEF a
  <2>5. \A i \in DOMAIN a : i = Len(c) + 1 \/ i \in DOMAIN c  BY <2>3
  <2>6. QED  BY <1>1, <2>2, <2>3, <2>4, <2>5
<1>5. QED  BY <1>2, <1>3, <1>4 DEF Get

\* A set brings in the one that is set.
LEMMA SetEntries ==
  ASSUME CacheInv, NEW k \in Keys, NEW v \in Values, Set(k, v)
  PROVE  \A i \in DOMAIN data' : \/ data'[i].key = k /\ data'[i].value = v
                                 \/ \E j \in DOMAIN data : data'[i] = data[j]
<1>1. CASE Ttl <= 0 \/ MaxSize <= 0
  <2>1. data' = data  BY <1>1 DEF Set
  <2>2. QED  BY <2>1
<1>2. CASE ~(Ttl <= 0 \/ MaxSize <= 0)
  <2> DEFINE e == [key |-> k, value |-> v, expires_at |-> now + Ttl]
             c == Without(k)
             u == UsedOf(order, k)
             r == Evict(Append(c, e))
  <2>1. e \in Entry /\ e.key = k /\ e.value = v
    BY InvFacts DEF Entry
  <2>2. data' = r  BY <1>2 DEF Set
  <2>3. MaxSize > 0 /\ MaxSize \in Nat  BY <1>2, InvFacts
  <2>4. /\ c \in Seq(Entry) /\ Linked(c, order) /\ LeftOut(data, k, c)
        /\ Len(c) <= MaxSize /\ MovedUp(order, k, u)
    BY WithoutIs
  <2>5. data \in Seq(Entry) /\ order \in Seq(Keys)  BY InvFacts
  <2>6. r = Evict(Append(c, e))  OBVIOUS
  <2> HIDE DEF e, c, u, r
  <2>7. \A i \in DOMAIN r : r[i] = e \/ \E j \in DOMAIN data : r[i] = data[j] /\ data[j].key # k
    <3>1. k \in Keys  OBVIOUS
    <3>2. QED  BY ONLY <2>1, <2>3, <2>4, <2>5, <2>6, <3>1, StoreEntry
  <2>8. QED  BY <2>1, <2>2, <2>7
<1>3. QED  BY <1>1, <1>2

\* Making room keeps the vectors apart.
LEMMA RoomIs ==
  ASSUME NEW vs, OwnVectors(vs)
  PROVE  /\ OwnVectors(Room(vs)) /\ (CacheSize > 0 => Len(Room(vs)) + 1 <= CacheSize)
         /\ \A i \in DOMAIN Room(vs) : \E j \in DOMAIN vs : Room(vs)[i] = vs[j]
<1> DEFINE V == {OwnVector(t) : t \in Encodable}
<1>1. vs \in Seq(V) /\ CacheSize \in Int /\ (CacheSize > 0 => Len(vs) <= CacheSize)
  BY PathAssumption DEF OwnVectors
<1>2. \A i, j \in DOMAIN vs : vs[i].key = vs[j].key => i = j
  BY DEF OwnVectors
<1> HIDE DEF V
<1>3. CASE CacheSize > 0 /\ Len(vs) >= CacheSize
  <2> DEFINE t == Tail(vs)
  <2>1. Room(vs) = t  BY <1>3 DEF Room
  <2>2. /\ t \in Seq(V) /\ Len(t) = Len(vs) - 1 /\ Len(vs) \in Nat
        /\ DOMAIN t = 1 .. Len(t) /\ DOMAIN vs = 1 .. Len(vs)
        /\ \A i \in 1 .. Len(t) : t[i] = vs[i + 1]
    BY <1>1, <1>3
  <2> HIDE DEF t
  <2>3. \A i \in DOMAIN t : i + 1 \in DOMAIN vs /\ t[i] = vs[i + 1]  BY <2>2
  <2>4. \A i, j \in DOMAIN t : t[i].key = t[j].key => i = j
    <3>1. ASSUME NEW i \in DOMAIN t, NEW j \in DOMAIN t, t[i].key = t[j].key PROVE i = j
      <4>1. i + 1 = j + 1  BY <1>2, <2>3, <3>1
      <4>2. i \in Int /\ j \in Int  BY <2>2
      <4>3. QED  BY <4>1, <4>2
    <3>2. QED  BY <3>1
  <2>5. Len(t) + 1 <= CacheSize /\ Len(t) <= CacheSize  BY <1>1, <1>3, <2>2
  <2>6. OwnVectors(t)  BY <2>2, <2>4, <2>5 DEF OwnVectors, V
  <2>7. QED  BY <2>1, <2>3, <2>5, <2>6
<1>4. CASE ~(CacheSize > 0 /\ Len(vs) >= CacheSize)
  <2>1. Room(vs) = vs  BY <1>4 DEF Room
  <2>2. Len(vs) \in Nat  BY <1>1
  <2>3. CacheSize > 0 => Len(vs) + 1 <= CacheSize  BY <1>1, <1>4, <2>2
  <2>4. QED  BY <2>1, <2>3
<1>5. QED  BY <1>3, <1>4

\* The embedder answers with the vector of the text that it is asked for, from its
\* cache or from the model, and keeps its vectors apart.
LEMMA AfterIs ==
  ASSUME NEW vs, OwnVectors(vs), NEW text \in Encodable
  PROVE  VectorOf(vs, text) = Encoded(text) /\ OwnVectors(After(vs, text))
<1> DEFINE V == {OwnVector(t) : t \in Encodable}
<1>1. CASE Cached(vs, text)
  <2>1. PICK i \in Found(vs, text) : VectorOf(vs, text) = vs[i].vector
    BY <1>1 DEF Cached, VectorOf
  <2>2. i \in DOMAIN vs /\ vs[i].key = KeyOf(text)  BY <2>1 DEF Found
  <2>3. vs[i] \in V  BY <2>2 DEF OwnVectors
  <2>4. PICK t \in Encodable : vs[i] = OwnVector(t)  BY <2>3
  <2>5. KeyOf(t) = KeyOf(text)  BY <2>2, <2>4 DEF OwnVector
  <2>6. t = text  BY <2>5 DEF KeyOf
  <2>7. VectorOf(vs, text) = Encoded(t)  BY <2>1, <2>4 DEF OwnVector
  <2>8. After(vs, text) = vs  BY <1>1 DEF After
  <2>9. QED  BY <2>6, <2>7, <2>8
<1>2. CASE ~Cached(vs, text) /\ CacheSize <= 0
  BY <1>2 DEF After, VectorOf
<1>3. CASE ~Cached(vs, text) /\ ~(CacheSize <= 0)
  <2> DEFINE e == OwnVector(text)
             room == Room(vs)
             a == Append(room, e)
  <2>1. VectorOf(vs, text) = Encoded(text) /\ After(vs, text) = a
    BY <1>3 DEF VectorOf, After, OwnVector
  <2>2. CacheSize > 0 /\ Found(vs, text) = {}  BY <1>3, PathAssumption DEF Cached
  <2>3. /\ OwnVectors(room) /\ Len(room) + 1 <= CacheSize
        /\ \A i \in DOMAIN room : \E j \in DOMAIN vs : room[i] = vs[j]
    BY <2>2, RoomIs
  <2>4. \A i \in DOMAIN room : room[i].key # e.key
    <3>1. e.key = KeyOf(text)  BY DEF OwnVector
    <3>2. \A j \in DOMAIN vs : vs[j].key # KeyOf(text)  BY <2>2 DEF Found
    <3> HIDE DEF e, room
    <3>3. QED  BY <2>3, <3>1, <3>2
  <2>5. \A i, j \in DOMAIN room : room[i].key = room[j].key => i = j  BY <2>3 DEF OwnVectors
  <2>6. room \in Seq(V) /\ e \in V  BY <2>3 DEF OwnVectors
  <2>7. a = Append(room, e)  OBVIOUS
  <2> HIDE DEF e, V, a, room
  <2>8. /\ a \in Seq(V) /\ Len(a) = Len(room) + 1 /\ a[Len(room) + 1] = e
        /\ DOMAIN a = 1 .. Len(room) + 1 /\ DOMAIN room = 1 .. Len(room) /\ Len(room) \in Nat
        /\ \A i \in DOMAIN room : a[i] = room[i]
    BY <2>6, <2>7
  <2>9. \A i \in DOMAIN a : i = Len(room) + 1 \/ i \in DOMAIN room  BY <2>8
  <2>10. \A i, j \in DOMAIN a : a[i].key = a[j].key => i = j
    BY <2>4, <2>5, <2>8, <2>9
  <2>11. OwnVectors(a)  BY <2>3, <2>8, <2>10 DEF OwnVectors, V
  <2>12. QED  BY <2>1, <2>11
<1>4. QED  BY <1>1, <1>2, <1>3

\* Both lookups of a search.
LEMMA LookupsAre ==
  ASSUME OwnVectors(vectors), NEW k \in Keys
  PROVE  /\ VectorOf(vectors, Text(k)) = Encoded(Text(k))
         /\ VectorOf(Retrieved(k), RawText(k)) = Encoded(RawText(k))
         /\ OwnVectors(Retrieved(k)) /\ OwnVectors(Filtered(k))
<1>1. Text(k) \in Encodable /\ RawText(k) \in Encodable  BY DEF Encodable
<1>2. VectorOf(vectors, Text(k)) = Encoded(Text(k)) /\ OwnVectors(Retrieved(k))
  BY <1>1, AfterIs DEF Retrieved
<1>3. VectorOf(Retrieved(k), RawText(k)) = Encoded(RawText(k)) /\ OwnVectors(Filtered(k))
  BY <1>1, <1>2, AfterIs DEF Filtered
<1>4. QED  BY <1>2, <1>3

\* What a request may get is a value of the cache.
LEMMA OwnValues ==
  ASSUME NEW k \in Keys
  PROVE  Own(k) \subseteq Values
<1>1. Text(k) \in Encodable /\ RawText(k) \in Encodable  BY DEF Encodable
<1>2. Own(k) \subseteq Responses  BY <1>1 DEF Own, Responses
<1>3. QED  BY <1>2, PathAssumption

\* Every step of a search, a failing one too, and what comes between two of them,
\* keeps the responses and the vectors those of their requests.
LEMMA PathStep == PathInv /\ [PathNext]_<<vars, pathVars>> => PathInv'
<1> SUFFICES ASSUME PathInv, [PathNext]_<<vars, pathVars>> PROVE PathInv'  OBVIOUS
<1>1. /\ CacheInv /\ busy \in Keys \union {None} /\ OwnVectors(vectors) /\ OwnEntries
  BY DEF PathInv
<1>2. ASSUME \A i \in DOMAIN data' : \E j \in DOMAIN data : data'[i] = data[j]
      PROVE  OwnEntries'
  BY <1>1, <1>2 DEF OwnEntries
<1>3. ASSUME NEW k \in Keys, Ask(k) PROVE PathInv'
  <2>1. Get(k) /\ vectors' = vectors /\ busy' \in Keys \union {None}
    BY <1>3 DEF Ask
  <2>2. CacheInv'  BY <1>1, <2>1, CacheStep DEF Next, Uses
  <2>3. OwnEntries'  BY <1>1, <1>2, <2>1, GetEntries
  <2>4. QED  BY <1>1, <2>1, <2>2, <2>3 DEF PathInv
<1>4. ASSUME NEW k \in Keys, Answer(k) PROVE PathInv'
  <2>1. /\ VectorOf(vectors, Text(k)) = Encoded(Text(k))
        /\ VectorOf(Retrieved(k), RawText(k)) = Encoded(RawText(k))
        /\ OwnVectors(Retrieved(k)) /\ OwnVectors(Filtered(k))
    BY <1>1, LookupsAre
  <2>2. busy' = None /\ vectors' \in {Retrieved(k), Filtered(k)}  BY <1>4 DEF Answer
  <2>3. PICK r \in Own(k) : Set(k, r)  BY <1>4, <2>1 DEF Answer, Own
  <2>4. r \in Values  BY OwnValues
  <2>5. CacheInv'  BY <1>1, <2>3, <2>4, CacheStep DEF Next, Uses
  <2>6. \A i \in DOMAIN data' : \/ data'[i].key = k /\ data'[i].value = r
                                \/ \E j \in DOMAIN data : data'[i] = data[j]
    BY <1>1, <2>3, <2>4, SetEntries
  <2>7. OwnEntries'  BY <1>1, <2>6 DEF OwnEntries
  <2>8. OwnVectors(vectors')  BY <2>1, <2>2
  <2>9. QED  BY <2>2, <2>5, <2>7, <2>8 DEF PathInv
<1>5. ASSUME NEW k \in Keys, EncodeFails(k) \/ SearchFails(k) PROVE PathInv'
  <2>1. UNCHANGED vars /\ data' = data /\ busy' = None
    BY <1>5 DEF EncodeFails, SearchFails, vars
  <2>2. vectors' \in {vectors, Retrieved(k), Filtered(k), Room(vectors), Room(Retrieved(k))}
    BY <1>5 DEF EncodeFails, SearchFails
  <2>3. OwnVectors(Retrieved(k)) /\ OwnVectors(Filtered(k))  BY <1>1, LookupsAre
  <2>4. OwnVectors(vectors')
    <3>1. CASE vectors' \in {vectors, Retrieved(k), Filtered(k)}  BY <1>1, <2>3, <3>1
    <3>2. CASE vectors' = Room(vectors)  BY <1>1, <3>2, RoomIs
    <3>3. CASE vectors' = Room(Retrieved(k))  BY <2>3, <3>3, RoomIs
    <3>4. QED  BY <2>2, <3>1, <3>2, <3>3
  <2>5. CacheInv'  BY <1>1, <2>1, CacheStep
  <2>6. OwnEntries'  BY <1>2, <2>1
  <2>7. QED  BY <2>1, <2>4, <2>5, <2>6 DEF PathInv
<1>6. ASSUME Invalidate PROVE PathInv'
  <2>1. Clear /\ vectors' = vectors /\ busy' = busy /\ DOMAIN data' = {}
    BY <1>6 DEF Invalidate, Clear, pathVars
  <2>2. CacheInv'  BY <1>1, <2>1, CacheStep DEF Next, Uses
  <2>3. OwnEntries'  BY <2>1 DEF OwnEntries
  <2>4. QED  BY <1>1, <2>1, <2>2, <2>3 DEF PathInv
<1>7. ASSUME Time \/ UNCHANGED <<vars, pathVars>> PROVE PathInv'
  <2>1. data' = data /\ vectors' = vectors /\ busy' = busy
    BY <1>7 DEF Time, Tick, vars, pathVars
  <2>2. Tick \/ UNCHANGED vars  BY <1>7 DEF Time
  <2>3. CacheInv'  BY <1>1, <2>2, CacheStep DEF Next, Uses
  <2>4. OwnEntries'  BY <1>2, <2>1
  <2>5. QED  BY <1>1, <2>1, <2>3, <2>4 DEF PathInv
<1>8. QED  BY <1>3, <1>4, <1>5, <1>6, <1>7 DEF PathNext

\* Whatever the two caches dropped, kept or lost in a failure, however many requests
\* there are and whatever texts they share: a cached response was made for its own
\* request, retrieved with the vector of its own words and filtered with that of its
\* own raw query, and the embedder keeps no more vectors than it may and none twice.
THEOREM AnswersAreRightCorrect == PathSpec => []AnswersAreRight
<1>1. PathInit => PathInv
  <2> SUFFICES ASSUME PathInit PROVE PathInv  OBVIOUS
  <2>1. CacheInv  BY CacheStart DEF PathInit
  <2>2. DOMAIN data = {} /\ vectors = <<>> /\ busy = None
    BY DEF PathInit, Init
  <2>3. OwnVectors(vectors)  BY <2>2, PathAssumption DEF OwnVectors
  <2>4. OwnEntries  BY <2>2 DEF OwnEntries
  <2>5. QED  BY <2>1, <2>2, <2>3, <2>4 DEF PathInv
<1>2. PathInv => AnswersAreRight
  <2> SUFFICES ASSUME PathInv PROVE AnswersAreRight  OBVIOUS
  <2>1. ASSUME NEW i \in DOMAIN data
        PROVE  LET k == data[i].key
                   r == data[i].value
               IN /\ r = Response(k, Encoded(Text(k)), r.filter)
                  /\ r.filter \in {None, Encoded(RawText(k))}
    <3>1. PICK f \in {None, Encoded(RawText(data[i].key))} :
            data[i].value = Response(data[i].key, Encoded(Text(data[i].key)), f)
      BY DEF PathInv, OwnEntries, Own
    <3>2. data[i].value.filter = f  BY <3>1 DEF Response
    <3>3. QED  BY <3>1, <3>2
  <2>2. OwnVectors(vectors)  BY DEF PathInv
  <2>3. QED  BY <2>1, <2>2 DEF AnswersAreRight, OwnVectors
<1>3. QED  BY <1>1, <1>2, PathStep, PTL DEF PathSpec
=============================================================================
