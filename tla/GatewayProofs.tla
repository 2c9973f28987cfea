---------------------------- MODULE GatewayProofs ----------------------------
(* Theorems about Gateway and RateLimit, for every value of their constants. *)
EXTENDS Gateway, SequenceTheorems, FiniteSetTheorems, WellFoundedInduction, TLAPS

-----------------------------------------------------------------------------
(* The sliding window of one key *)

\* The loop pops the longest prefix of entries older than Window.
LEMMA PoppedIsPrefix ==
  ASSUME NEW w \in Seq(Int), NEW t \in Int
  PROVE  /\ Popped(w, t) \in 0 .. Len(w)
         /\ \A j \in 1 .. Popped(w, t) : t - w[j] > Window
         /\ Popped(w, t) < Len(w) => t - w[Popped(w, t) + 1] <= Window
PROOF
<1>1. Len(w) \in Nat /\ Window \in Nat /\ \A j \in 1 .. Len(w) : w[j] \in Int
  BY LenProperties, ElementOfSeq, RateAssumption
<1>. DEFINE recent == {j \in 1 .. Len(w) : t - w[j] <= Window}
            Fits(n) == /\ \A j \in 1 .. n : t - w[j] > Window
                       /\ n < Len(w) => t - w[n + 1] <= Window
<1>2. \E n \in 0 .. Len(w) : Fits(n)
  <2>1. CASE recent = {}
    <3>1. Fits(Len(w)) /\ Len(w) \in 0 .. Len(w)
      BY <1>1, <2>1
    <3>. QED
      BY <3>1
  <2>2. CASE recent # {}
    <3>1. recent \subseteq Nat
      BY <1>1
    <3>2. PICK m \in recent : \A j \in recent : ~(<<j, m>> \in OpToRel(<, Nat))
      <4>. HIDE DEF recent
      <4>. QED
        BY <2>2, <3>1, NatLessThanWellFounded, WFMin
    <3>3. \A j \in recent : ~(j < m)
      BY <3>1, <3>2 DEF OpToRel
    <3>4. m - 1 \in 0 .. Len(w) /\ Fits(m - 1)
      BY <1>1, <3>3
    <3>. QED
      BY <3>4
  <2>. QED
    BY <2>1, <2>2
<1>3. Popped(w, t) = CHOOSE n \in 0 .. Len(w) : Fits(n)
  BY DEF Popped
<1>4. Popped(w, t) \in 0 .. Len(w) /\ Fits(Popped(w, t))
  <2>. HIDE DEF Fits
  <2>. QED
    BY <1>2, <1>3
<1>. QED
  BY <1>4

\* What pruning leaves is the rest, as it was.
LEMMA PruneIsRest ==
  ASSUME NEW w \in Seq(Int), NEW t \in Int
  PROVE  /\ Prune(w, t) \in Seq(Int) /\ Len(Prune(w, t)) = Len(w) - Popped(w, t)
         /\ \A i \in 1 .. Len(w) - Popped(w, t) : Prune(w, t)[i] = w[Popped(w, t) + i]
PROOF
<1>. DEFINE p == Popped(w, t)
<1>1. p \in 0 .. Len(w) /\ Len(w) \in Nat
  BY PoppedIsPrefix, LenProperties
<1>2. \A i \in p + 1 .. Len(w) : w[i] \in Int
  BY <1>1, ElementOfSeq
<1>3. /\ SubSeq(w, p + 1, Len(w)) \in Seq(Int)
      /\ Len(SubSeq(w, p + 1, Len(w))) = IF p + 1 <= Len(w) THEN Len(w) - (p + 1) + 1 ELSE 0
      /\ \A i \in 1 .. Len(w) - (p + 1) + 1 : SubSeq(w, p + 1, Len(w))[i] = w[p + 1 + i - 1]
  <2>. HIDE DEF p
  <2>1. p + 1 \in Int /\ Len(w) \in Int
    BY <1>1
  <2>. QED
    BY <1>2, <2>1, SubSeqProperties
<1>4. (IF p + 1 <= Len(w) THEN Len(w) - (p + 1) + 1 ELSE 0) = Len(w) - p
  <2>. HIDE DEF p
  <2>. QED
    BY <1>1
<1>5. ASSUME NEW i \in 1 .. Len(w) - p
      PROVE  SubSeq(w, p + 1, Len(w))[i] = w[p + i]
  <2>. HIDE DEF p
  <2>1. i \in 1 .. Len(w) - (p + 1) + 1 /\ p + 1 + i - 1 = p + i
    BY <1>1
  <2>. QED
    BY <1>3, <2>1
<1>6. Prune(w, t) = SubSeq(w, p + 1, Len(w))
  BY DEF Prune
<1>. QED
  BY <1>3, <1>4, <1>5, <1>6

\* The deque h of a key is what is left of all its admissions a, which are in
\* order: it misses only what is too old to count at time t, and a has been
\* within the limit throughout.
WindowOK(h, a, t) ==
  /\ t \in Nat /\ a \in Seq(Nat) /\ h \in Seq(Nat) /\ Len(h) <= Limit /\ Len(h) <= Len(a)
  /\ \A i, j \in 1 .. Len(a) : i <= j => a[i] <= a[j]
  /\ \A i \in 1 .. Len(a) : a[i] <= t
  /\ \A j \in 1 .. Len(h) : h[j] = a[Len(a) - Len(h) + j]
  /\ \A i \in 1 .. Len(a) - Len(h) : t - a[i] > Window
  /\ \A i \in 1 .. Len(a) - Limit : a[i + Limit] - a[i] > Window

\* What WindowInv says of the deque and the admissions of one key.
LEMMA WindowTypes ==
  ASSUME NEW h, NEW a, NEW t, WindowOK(h, a, t)
  PROVE  /\ t \in Nat /\ Len(a) \in Nat /\ Len(h) \in Nat /\ Limit \in Nat \ {0} /\ Window \in Nat
         /\ h \in Seq(Int) /\ a \in Seq(Int)
         /\ \A i \in 1 .. Len(a) : a[i] \in Nat
         /\ \A i \in 1 .. Len(h) : h[i] \in Nat
PROOF
<1>1. h \in Seq(Nat) /\ a \in Seq(Nat) /\ t \in Nat
  BY DEF WindowOK
<1>2. h \in Seq(Int) /\ a \in Seq(Int)
  BY <1>1, SeqMonotonic
<1>. QED
  BY <1>1, <1>2, LenProperties, ElementOfSeq, RateAssumption

\* Time makes no admission recent again.
LEMMA WindowLater ==
  ASSUME NEW h, NEW a, NEW t, WindowOK(h, a, t)
  PROVE  WindowOK(h, a, t + 1)
PROOF
<1>1. /\ t \in Nat /\ Len(a) \in Nat /\ Len(h) \in Nat /\ Limit \in Nat \ {0} /\ Window \in Nat
      /\ \A i \in 1 .. Len(a) : a[i] \in Nat
  BY WindowTypes
<1>2. \A i \in 1 .. Len(a) : a[i] <= t + 1
  BY <1>1 DEF WindowOK
<1>3. \A i \in 1 .. Len(a) - Len(h) : t + 1 - a[i] > Window
  BY <1>1 DEF WindowOK
<1>4. t + 1 \in Nat
  BY <1>1
<1>. QED
  BY <1>2, <1>3, <1>4 DEF WindowOK

\* Pruning drops nothing that counts.
LEMMA WindowPruned ==
  ASSUME NEW h, NEW a, NEW t, WindowOK(h, a, t)
  PROVE  WindowOK(Prune(h, t), a, t)
PROOF
<1>. DEFINE p == Popped(h, t)
            q == Prune(h, t)
<1>1. /\ t \in Nat /\ Len(a) \in Nat /\ Len(h) \in Nat /\ Limit \in Nat \ {0} /\ Window \in Nat
      /\ h \in Seq(Int) /\ \A i \in 1 .. Len(a) : a[i] \in Nat
      /\ \A i \in 1 .. Len(h) : h[i] \in Nat
  BY WindowTypes
<1>2. /\ p \in 0 .. Len(h) /\ \A j \in 1 .. p : t - h[j] > Window
  BY <1>1, PoppedIsPrefix
<1>3. /\ q \in Seq(Int) /\ Len(q) = Len(h) - p /\ \A i \in 1 .. Len(h) - p : q[i] = h[p + i]
  BY <1>1, PruneIsRest
<1>. HIDE DEF p, q
<1>4. /\ Len(h) <= Limit /\ Len(h) <= Len(a)
      /\ \A j \in 1 .. Len(h) : h[j] = a[Len(a) - Len(h) + j]
      /\ \A i \in 1 .. Len(a) - Len(h) : t - a[i] > Window
  BY DEF WindowOK
<1>5. q \in Seq(Nat)
  <2>1. ASSUME NEW i \in 1 .. Len(q) PROVE q[i] \in Nat
    <3>1. p + i \in 1 .. Len(h) /\ q[i] = h[p + i]
      BY <1>1, <1>2, <1>3
    <3>. QED
      BY <1>1, <3>1
  <2>2. q = [i \in 1 .. Len(q) |-> q[i]] /\ Len(q) \in Nat
    BY <1>3, LenProperties
  <2>. QED
    BY <2>1, <2>2, SeqDef
<1>6. \A j \in 1 .. Len(q) : q[j] = a[Len(a) - Len(q) + j]
  BY <1>1, <1>2, <1>3, <1>4
<1>7. ASSUME NEW i \in 1 .. Len(a) - Len(q) PROVE t - a[i] > Window
  <2>1. CASE i <= Len(a) - Len(h)
    BY <1>1, <1>2, <1>3, <1>4, <2>1
  <2>2. CASE i > Len(a) - Len(h)
    <3>1. i - (Len(a) - Len(h)) \in 1 .. p
      BY <1>1, <1>2, <1>3, <1>4, <2>2
    <3>2. h[i - (Len(a) - Len(h))] = a[i]
      BY <1>1, <1>2, <1>4, <3>1
    <3>. QED
      BY <1>2, <3>1, <3>2
  <2>. QED
    BY <1>1, <1>2, <1>3, <2>1, <2>2
<1>8. Len(q) <= Limit /\ Len(q) <= Len(a)
  BY <1>1, <1>2, <1>3, <1>4
<1>9. WindowOK(q, a, t)
  BY <1>5, <1>6, <1>7, <1>8 DEF WindowOK
<1>. QED
  BY <1>9 DEF q

\* An admission below the limit: the one that came Limit admissions before it is
\* out of the deque, so it is too old to count.
LEMMA WindowAdmits ==
  ASSUME NEW h, NEW a, NEW t, WindowOK(h, a, t), Len(h) < Limit
  PROVE  WindowOK(Append(h, t), Append(a, t), t)
PROOF
<1>. DEFINE hh == Append(h, t)
            aa == Append(a, t)
<1>1. /\ t \in Nat /\ Len(a) \in Nat /\ Len(h) \in Nat /\ Limit \in Nat \ {0} /\ Window \in Nat
      /\ \A i \in 1 .. Len(a) : a[i] \in Nat
  BY WindowTypes
<1>2. /\ a \in Seq(Nat) /\ h \in Seq(Nat) /\ Len(h) <= Len(a)
      /\ \A i, j \in 1 .. Len(a) : i <= j => a[i] <= a[j]
      /\ \A i \in 1 .. Len(a) : a[i] <= t
      /\ \A j \in 1 .. Len(h) : h[j] = a[Len(a) - Len(h) + j]
      /\ \A i \in 1 .. Len(a) - Len(h) : t - a[i] > Window
      /\ \A i \in 1 .. Len(a) - Limit : a[i + Limit] - a[i] > Window
  BY DEF WindowOK
<1>3. /\ hh \in Seq(Nat) /\ Len(hh) = Len(h) + 1 /\ hh[Len(h) + 1] = t
      /\ \A i \in 1 .. Len(h) : hh[i] = h[i]
  BY <1>1, <1>2, AppendProperties
<1>4. /\ aa \in Seq(Nat) /\ Len(aa) = Len(a) + 1 /\ aa[Len(a) + 1] = t
      /\ \A i \in 1 .. Len(a) : aa[i] = a[i]
  BY <1>1, <1>2, AppendProperties
<1>. HIDE DEF hh, aa
<1>5. \A i \in 1 .. Len(aa) : i # Len(a) + 1 => i \in 1 .. Len(a)
  BY <1>1, <1>4
<1>6. ASSUME NEW i \in 1 .. Len(aa) PROVE aa[i] <= t
  <2>1. CASE i = Len(a) + 1
    BY <1>1, <1>4, <2>1
  <2>2. CASE i # Len(a) + 1
    <3>1. i \in 1 .. Len(a)
      BY <1>5, <2>2
    <3>. QED
      BY <1>2, <1>4, <3>1
  <2>. QED
    BY <2>1, <2>2
<1>12. ASSUME NEW i \in 1 .. Len(aa), NEW j \in 1 .. Len(aa), i <= j PROVE aa[i] <= aa[j]
  <2>1. CASE j = Len(a) + 1
    BY <1>4, <1>6, <2>1
  <2>2. CASE j # Len(a) + 1
    <3>1. j \in 1 .. Len(a) /\ i \in 1 .. Len(a)
      BY <1>1, <1>5, <1>12, <2>2
    <3>. QED
      BY <1>2, <1>4, <1>12, <3>1
  <2>. QED
    BY <2>1, <2>2
<1>7. ASSUME NEW j \in 1 .. Len(hh) PROVE hh[j] = aa[Len(aa) - Len(hh) + j]
  <2>1. CASE j = Len(h) + 1
    <3>1. Len(aa) - Len(hh) + j = Len(a) + 1
      BY <1>1, <1>3, <1>4, <2>1
    <3>. QED
      BY <1>3, <1>4, <2>1, <3>1
  <2>2. CASE j # Len(h) + 1
    <3>1. j \in 1 .. Len(h) /\ Len(aa) - Len(hh) + j = Len(a) - Len(h) + j
      BY <1>1, <1>3, <1>4, <2>2
    <3>2. Len(a) - Len(h) + j \in 1 .. Len(a)
      <4>1. Len(h) <= Len(a)
        BY <1>2
      <4>. QED
        BY <1>1, <3>1, <4>1
    <3>. QED
      BY <1>2, <1>3, <1>4, <3>1, <3>2
  <2>. QED
    BY <2>1, <2>2
<1>8. ASSUME NEW i \in 1 .. Len(aa) - Len(hh) PROVE t - aa[i] > Window
  <2>1. i \in 1 .. Len(a) - Len(h) /\ i \in 1 .. Len(a)
    BY <1>1, <1>2, <1>3, <1>4
  <2>. QED
    BY <1>2, <1>4, <2>1
<1>9. ASSUME NEW i \in 1 .. Len(aa) - Limit PROVE aa[i + Limit] - aa[i] > Window
  <2>1. CASE i + Limit <= Len(a)
    <3>1. i \in 1 .. Len(a) - Limit /\ i \in 1 .. Len(a) /\ i + Limit \in 1 .. Len(a)
      BY <1>1, <1>4, <2>1
    <3>. QED
      BY <1>2, <1>4, <3>1
  <2>2. CASE i + Limit > Len(a)
    <3>1. i + Limit = Len(a) + 1 /\ i \in 1 .. Len(a) - Len(h) /\ i \in 1 .. Len(a)
      BY <1>1, <1>4, <2>2
    <3>. QED
      BY <1>2, <1>4, <3>1
  <2>. QED
    BY <1>1, <2>1, <2>2
<1>10. Len(hh) <= Limit /\ Len(hh) <= Len(aa)
  BY <1>1, <1>2, <1>3, <1>4
<1>11. WindowOK(hh, aa, t)
  BY <1>1, <1>3, <1>4, <1>5, <1>6, <1>7, <1>8, <1>9, <1>10, <1>12 DEF WindowOK
<1>. QED
  BY <1>11 DEF hh, aa

\* Whoever finds the deque full after pruning has Limit admissions of the last
\* Window to show for it.
LEMMA WindowFull ==
  ASSUME NEW h, NEW a, NEW t, WindowOK(h, a, t), ~Admits(h, t)
  PROVE  /\ Len(Prune(h, t)) = Limit
         /\ Cardinality({i \in DOMAIN a : t - a[i] <= Window}) >= Limit
PROOF
<1>. DEFINE q == Prune(h, t)
            p == Popped(h, t)
            recent == {i \in DOMAIN a : t - a[i] <= Window}
            last == Len(a) - Limit + 1 .. Len(a)
<1>1. /\ t \in Nat /\ Len(a) \in Nat /\ Len(h) \in Nat /\ Limit \in Nat \ {0} /\ Window \in Nat
      /\ h \in Seq(Int) /\ \A i \in 1 .. Len(a) : a[i] \in Nat
  BY WindowTypes
<1>2. WindowOK(q, a, t)
  BY WindowPruned
<1>3. /\ Len(q) \in Nat /\ Len(q) <= Limit /\ Len(q) <= Len(a) /\ a \in Seq(Nat)
      /\ \A i, j \in 1 .. Len(a) : i <= j => a[i] <= a[j]
      /\ \A j \in 1 .. Len(q) : q[j] = a[Len(a) - Len(q) + j]
  BY <1>2, LenProperties DEF WindowOK
<1>4. Len(q) = Limit
  BY <1>1, <1>3 DEF Admits
<1>5. t - q[1] <= Window
  <2>1. Len(q) = Len(h) - p /\ p \in 0 .. Len(h)
    BY <1>1, PruneIsRest, PoppedIsPrefix
  <2>2. 1 \in 1 .. Len(h) - p /\ p < Len(h)
    <3>. HIDE DEF p, q
    <3>. QED
      BY <1>1, <1>4, <2>1
  <2>3. q[1] = h[p + 1]
    BY <1>1, <2>2, PruneIsRest
  <2>4. t - h[p + 1] <= Window
    BY <1>1, <2>2, PoppedIsPrefix
  <2>. QED
    BY <2>3, <2>4
<1>. HIDE DEF q, p
<1>6. q[1] = a[Len(a) - Limit + 1] /\ Len(a) - Limit + 1 \in 1 .. Len(a)
  BY <1>1, <1>3, <1>4
<1>7. last \subseteq recent
  <2>1. DOMAIN a = 1 .. Len(a)
    BY <1>3, LenProperties
  <2>2. ASSUME NEW i \in last PROVE i \in 1 .. Len(a) /\ t - a[i] <= Window
    <3>1. i \in 1 .. Len(a) /\ Len(a) - Limit + 1 <= i
      BY <1>1, <1>6
    <3>2. a[Len(a) - Limit + 1] <= a[i]
      BY <1>3, <1>6, <3>1
    <3>3. a[i] \in Nat /\ a[Len(a) - Limit + 1] \in Nat
      BY <1>1, <1>6, <3>1
    <3>. QED
      BY <1>1, <1>5, <1>6, <3>1, <3>2, <3>3
  <2>. QED
    BY <2>1, <2>2
<1>8. IsFiniteSet(recent)
  <2>1. recent \in SUBSET (1 .. Len(a))
    BY <1>3, LenProperties
  <2>2. IsFiniteSet(1 .. Len(a))
    BY <1>1, FS_Interval
  <2>. QED
    BY <2>1, <2>2, FS_Subset
<1>9. Cardinality(last) = Limit
  <2>1. Len(a) - Limit + 1 \in Int /\ Len(a) \in Int
    BY <1>1
  <2>2. Cardinality(last) = IF Len(a) - Limit + 1 > Len(a) THEN 0 ELSE Len(a) - (Len(a) - Limit + 1) + 1
    BY <2>1, FS_Interval
  <2>. QED
    BY <1>1, <2>2
<1>10. Cardinality(last) <= Cardinality(recent)
  BY <1>7, <1>8, FS_Subset
<1>11. Cardinality(recent) >= Limit
  <2>. HIDE DEF recent, last
  <2>1. Cardinality(recent) \in Nat
    BY <1>8, FS_CardinalityType
  <2>. QED
    BY <1>1, <1>9, <1>10, <2>1
<1>. QED
  BY <1>4, <1>11 DEF q

\* The first of a full deque is the one that has to leave it: at time u another
\* request is admitted just when that entry is older than Window.
LEMMA FirstDecides ==
  ASSUME NEW h, NEW a, NEW t, WindowOK(h, a, t), ~Admits(h, t), NEW u \in Int, u >= t
  PROVE  Admits(h, u) <=> u - Prune(h, t)[1] > Window
PROOF
<1>. DEFINE q == Prune(h, t)
            p == Popped(h, t)
            r == Popped(h, u)
<1>1. /\ t \in Nat /\ Len(a) \in Nat /\ Len(h) \in Nat /\ Limit \in Nat \ {0} /\ Window \in Nat
      /\ h \in Seq(Int) /\ \A i \in 1 .. Len(h) : h[i] \in Nat
  BY WindowTypes
<1>2. /\ p \in 0 .. Len(h) /\ \A j \in 1 .. p : t - h[j] > Window
  BY <1>1, PoppedIsPrefix
<1>3. /\ r \in 0 .. Len(h) /\ \A j \in 1 .. r : u - h[j] > Window
  BY <1>1, PoppedIsPrefix
<1>4. r < Len(h) => u - h[r + 1] <= Window
  BY <1>1, PoppedIsPrefix
<1>5. Len(q) = Limit /\ Len(q) = Len(h) - p /\ Len(Prune(h, u)) = Len(h) - r
  <2>1. Len(q) = Limit
    BY WindowFull
  <2>2. Len(q) = Len(h) - p
    BY <1>1, PruneIsRest
  <2>3. Len(Prune(h, u)) = Len(h) - r
    BY <1>1, PruneIsRest
  <2>. QED
    BY <2>1, <2>2, <2>3
<1>6. q[1] = h[p + 1]
  <2>1. 1 \in 1 .. Len(h) - p
    BY <1>1, <1>5
  <2>. QED
    BY <1>1, <2>1, PruneIsRest
<1>7. Admits(h, u) <=> Len(h) - r < Limit
  BY <1>5 DEF Admits
<1>. HIDE DEF q, p, r
<1>8. p \in 0 .. Len(h) /\ p < Len(h) /\ p + 1 \in 1 .. Len(h)
  <2>1. p \in 0 .. Len(h)
    BY <1>2
  <2>. QED
    BY <1>1, <1>5, <2>1
<1>9. r >= p
  <2>. SUFFICES ASSUME r < p PROVE FALSE
    BY <1>2, <1>3
  <2>1. r + 1 \in 1 .. p /\ r + 1 \in 1 .. Len(h) /\ r < Len(h)
    BY <1>1, <1>2, <1>3
  <2>2. t - h[r + 1] > Window /\ u - h[r + 1] <= Window /\ h[r + 1] \in Nat
    BY <1>1, <1>2, <1>4, <2>1
  <2>. QED
    BY <1>1, <2>2
<1>10. CASE r = p
  <2>1. r < Len(h)
    BY <1>8, <1>10
  <2>2. u - h[p + 1] <= Window
    BY <1>4, <1>10, <2>1
  <2>3. ~(Len(h) - r < Limit)
    BY <1>1, <1>5, <1>10
  <2>. QED
    BY <1>1, <1>6, <1>7, <1>8, <2>2, <2>3 DEF q
<1>11. CASE r > p
  <2>1. p + 1 \in 1 .. r
    BY <1>2, <1>3, <1>11
  <2>2. u - h[p + 1] > Window
    BY <1>3, <2>1
  <2>3. Len(h) - r < Limit
    BY <1>1, <1>2, <1>3, <1>5, <1>11
  <2>. QED
    BY <1>6, <1>7, <2>2, <2>3 DEF q
<1>. QED
  BY <1>2, <1>3, <1>9, <1>10, <1>11

\* Rounding down, plus one.
LEMMA WholeSeconds ==
  ASSUME NEW n \in Nat, NEW d \in Nat \ {0}
  PROVE  n \div d \in Nat /\ (n \div d) * d <= n /\ n < (n \div d + 1) * d
PROOF
  OBVIOUS

-----------------------------------------------------------------------------
(* Sums over finite functions *)

\* The element that the fold behind SumFunction takes from a set.
Pick(s) == CHOOSE x \in s : TRUE

\* The equation of the fold behind SumFunction, for the sets up to a size.
SumOf(f, it, s) == IF s = {} THEN 0 ELSE f[Pick(s)] + it[s \ {Pick(s)}]
SumRec(f, it) == it = [s \in SUBSET DOMAIN f |-> SumOf(f, it, s)]
SumTo(f, n, it) == /\ it = [s \in SUBSET DOMAIN f |-> it[s]]
                   /\ \A s \in SUBSET DOMAIN f : Cardinality(s) <= n => it[s] = SumOf(f, it, s)

HasSumTo(f, n) == \E it : SumTo(f, n, it)

\* SumFunction is that fold.
LEMMA SumDef == ASSUME NEW f PROVE SumFunction(f) = (CHOOSE it : SumRec(f, it))[DOMAIN f]
PROOF BY DEF SumFunction, SumFunctionOnSet, FoldFunctionOnSet, MapThenFoldSet, SumRec, SumOf, Pick

\* It takes an element of the set.
LEMMA PickIn == ASSUME NEW s, s # {} PROVE Pick(s) \in s
PROOF BY DEF Pick

\* A fold that is right up to a size gives one that is right for one element more.
LEMMA SumToStep ==
  ASSUME NEW f, IsFiniteSet(DOMAIN f), NEW n \in Nat, HasSumTo(f, n)
  PROVE  HasSumTo(f, n + 1)
PROOF
<1>0. PICK it : SumTo(f, n, it)
  BY DEF HasSumTo
<1>. DEFINE jt == [s \in SUBSET DOMAIN f |-> IF Cardinality(s) <= n THEN it[s] ELSE SumOf(f, it, s)]
<1>1. ASSUME NEW s \in SUBSET DOMAIN f, Cardinality(s) <= n + 1
      PROVE  jt[s] = SumOf(f, jt, s)
  <2>1. IsFiniteSet(s) /\ Cardinality(s) \in Nat
    BY FS_Subset, FS_CardinalityType
  <2>2. CASE s = {}
    <3>1. Cardinality(s) <= n
      BY <2>2, FS_EmptySet
    <3>. QED
      BY <1>0, <2>2, <3>1 DEF SumTo, SumOf
  <2>3. CASE s # {}
    <3>. DEFINE r == s \ {Pick(s)}
    <3>1. r \in SUBSET DOMAIN f /\ Cardinality(r) = Cardinality(s) - 1
      BY <2>1, <2>3, PickIn, FS_RemoveElement
    <3>2. jt[r] = it[r]
      BY <1>1, <2>1, <3>1
    <3>3. jt[s] = SumOf(f, it, s)
      BY <1>0, <1>1 DEF SumTo
    <3>. QED
      BY <2>3, <3>2, <3>3 DEF SumOf
  <2>. QED
    BY <2>2, <2>3
<1>2. jt = [s \in SUBSET DOMAIN f |-> jt[s]]
  OBVIOUS
<1>. QED
  <2>. HIDE DEF jt
  <2>. QED
    BY <1>1, <1>2 DEF SumTo, HasSumTo

\* So the fold is well defined on finite domains.
LEMMA SumExists ==
  ASSUME NEW f, IsFiniteSet(DOMAIN f)
  PROVE  SumRec(f, CHOOSE it : SumRec(f, it))
PROOF
<1>. DEFINE open == {n \in Nat : ~HasSumTo(f, n)}
<1>1. open = {}
  <2>. SUFFICES ASSUME open # {} PROVE FALSE
    OBVIOUS
  <2>1. PICK n \in open : \A m \in open : ~(<<m, n>> \in OpToRel(<, Nat))
    <3>1. open \subseteq Nat
      OBVIOUS
    <3>. HIDE DEF open
    <3>. QED
      BY <3>1, NatLessThanWellFounded, WFMin
  <2>2. n \in Nat /\ \A m \in open : ~(m < n)
    BY <2>1 DEF OpToRel
  <2>3. CASE n = 0
    <3>. DEFINE it == [s \in SUBSET DOMAIN f |-> 0]
    <3>1. ASSUME NEW s \in SUBSET DOMAIN f, Cardinality(s) <= 0 PROVE it[s] = SumOf(f, it, s)
      <4>1. s = {}
        <5>1. IsFiniteSet(s) /\ Cardinality(s) \in Nat
          BY FS_Subset, FS_CardinalityType
        <5>2. Cardinality(s) = 0
          BY <3>1, <5>1
        <5>. QED
          BY <5>1, <5>2, FS_EmptySet
      <4>. QED
        BY <4>1 DEF SumOf
    <3>2. it = [s \in SUBSET DOMAIN f |-> it[s]]
      OBVIOUS
    <3>3. SumTo(f, 0, it)
      <4>. HIDE DEF it
      <4>. QED
        BY <3>1, <3>2 DEF SumTo
    <3>. QED
      BY <2>1, <2>3, <3>3 DEF HasSumTo
  <2>4. CASE n # 0
    <3>1. n - 1 \in Nat /\ n - 1 \notin open
      BY <2>2, <2>4
    <3>2. HasSumTo(f, n - 1 + 1)
      BY <3>1, SumToStep
    <3>3. n - 1 + 1 = n
      BY <2>2
    <3>. QED
      BY <2>1, <3>2, <3>3
  <2>. QED
    BY <2>3, <2>4
<1>2. Cardinality(DOMAIN f) \in Nat
  BY FS_CardinalityType
<1>3. PICK it : SumTo(f, Cardinality(DOMAIN f), it)
  BY <1>1, <1>2 DEF HasSumTo
<1>4. \A s \in SUBSET DOMAIN f : it[s] = SumOf(f, it, s)
  BY <1>3, FS_Subset DEF SumTo
<1>5. SumRec(f, it)
  BY <1>3, <1>4 DEF SumTo, SumRec
<1>. QED
  BY <1>5

\* What the fold makes of a set, by its equation.
LEMMA SumSteps ==
  ASSUME NEW f, IsFiniteSet(DOMAIN f)
  PROVE  \E it : /\ SumFunction(f) = it[DOMAIN f] /\ it[{}] = 0
                 /\ \A s \in SUBSET DOMAIN f : s # {} => it[s] = f[Pick(s)] + it[s \ {Pick(s)}]
PROOF
<1>. DEFINE it == CHOOSE i : SumRec(f, i)
<1>1. SumRec(f, it) /\ SumFunction(f) = it[DOMAIN f]
  BY SumExists, SumDef
<1>. HIDE DEF it
<1>2. \A s \in SUBSET DOMAIN f : it[s] = SumOf(f, it, s)
  BY <1>1 DEF SumRec
<1>. QED
  BY <1>1, <1>2 DEF SumOf

\* g is f with d more at x.
GrowsAt(D, f, g, x, d) ==
  /\ f \in [D -> Int] /\ g \in [D -> Int] /\ x \in D /\ d \in Int
  /\ \A y \in D : g[y] = IF y = x THEN f[y] + d ELSE f[y]

\* A sum grows by what one summand grows by, whatever the order of summation.
LEMMA SumGrows ==
  ASSUME NEW D, IsFiniteSet(D), NEW f, NEW g, NEW x, NEW d, GrowsAt(D, f, g, x, d)
  PROVE  SumFunction(f) \in Int /\ SumFunction(g) = SumFunction(f) + d
PROOF
<1>. /\ f \in [D -> Int] /\ g \in [D -> Int] /\ x \in D /\ d \in Int
     /\ \A y \in D : g[y] = IF y = x THEN f[y] + d ELSE f[y]
  BY DEF GrowsAt
<1>0. DOMAIN f = D /\ DOMAIN g = D
  OBVIOUS
<1>1. PICK i : /\ SumFunction(f) = i[D] /\ i[{}] = 0
               /\ \A s \in SUBSET D : s # {} => i[s] = f[Pick(s)] + i[s \ {Pick(s)}]
  <2>1. IsFiniteSet(DOMAIN f)
    BY <1>0
  <2>2. \E i : /\ SumFunction(f) = i[DOMAIN f] /\ i[{}] = 0
               /\ \A s \in SUBSET DOMAIN f : s # {} => i[s] = f[Pick(s)] + i[s \ {Pick(s)}]
    BY ONLY <2>1, SumSteps
  <2>. QED
    BY ONLY <1>0, <2>2
<1>2. PICK j : /\ SumFunction(g) = j[D] /\ j[{}] = 0
               /\ \A s \in SUBSET D : s # {} => j[s] = g[Pick(s)] + j[s \ {Pick(s)}]
  <2>1. IsFiniteSet(DOMAIN g)
    BY <1>0
  <2>2. \E j : /\ SumFunction(g) = j[DOMAIN g] /\ j[{}] = 0
               /\ \A s \in SUBSET DOMAIN g : s # {} => j[s] = g[Pick(s)] + j[s \ {Pick(s)}]
    BY ONLY <2>1, SumSteps
  <2>. QED
    BY ONLY <1>0, <2>2
<1>. DEFINE Right(s) == i[s] \in Int /\ j[s] = i[s] + (IF x \in s THEN d ELSE 0)
            open == {n \in Nat : \E s \in SUBSET D : Cardinality(s) = n /\ ~Right(s)}
<1>3. open = {}
  <2>. SUFFICES ASSUME open # {} PROVE FALSE
    OBVIOUS
  <2>1. PICK n \in open : \A m \in open : ~(<<m, n>> \in OpToRel(<, Nat))
    <3>1. open \subseteq Nat
      OBVIOUS
    <3>. HIDE DEF open
    <3>. QED
      BY <3>1, NatLessThanWellFounded, WFMin
  <2>2. n \in Nat /\ \A m \in open : ~(m < n)
    BY <2>1 DEF OpToRel
  <2>3. PICK s \in SUBSET D : Cardinality(s) = n /\ ~Right(s)
    BY <2>1
  <2>4. s # {}
    <3>. SUFFICES ASSUME s = {} PROVE FALSE
      OBVIOUS
    <3>1. i[s] = 0 /\ j[s] = 0 /\ x \notin s
      BY <1>1, <1>2
    <3>2. Right(s)
      BY <3>1
    <3>. QED
      BY <2>3, <3>2
  <2>. DEFINE p == Pick(s)
              r == s \ {p}
  <2>5. p \in s /\ r \in SUBSET D /\ Cardinality(r) = n - 1 /\ n - 1 \in Nat
    <3>1. IsFiniteSet(s) /\ IsFiniteSet(r) /\ p \in s
      BY <2>4, PickIn, FS_Subset
    <3>2. Cardinality(r) = n - 1
      BY <2>3, <3>1, FS_RemoveElement
    <3>3. Cardinality(r) \in Nat
      BY <3>1, FS_CardinalityType
    <3>. QED
      BY <3>1, <3>2, <3>3
  <2>6. Right(r)
    <3>1. n - 1 \notin open
      BY <2>2
    <3>. QED
      BY <2>5, <3>1
  <2>7. i[s] = f[p] + i[r] /\ j[s] = g[p] + j[r]
    BY <1>1, <1>2, <2>4
  <2>. HIDE DEF p
  <2>8. f[p] \in Int /\ g[p] = (IF p = x THEN f[p] + d ELSE f[p])
    BY <1>0, <2>5
  <2>9. i[s] \in Int
    BY <2>6, <2>7, <2>8
  <2>10. CASE p = x
    BY <2>3, <2>5, <2>6, <2>7, <2>8, <2>9, <2>10
  <2>11. CASE p # x
    <3>1. x \in s <=> x \in r
      BY <2>11
    <3>. QED
      BY <2>3, <2>6, <2>7, <2>8, <2>9, <2>11, <3>1
  <2>. QED
    BY <2>10, <2>11
<1>4. Right(D)
  <2>1. Cardinality(D) \in Nat
    BY FS_CardinalityType
  <2>. QED
    BY <1>3, <2>1
<1>. QED
  BY <1>1, <1>2, <1>4

\* Nothing adds up to nothing.
LEMMA SumOfNothing ==
  ASSUME NEW D, IsFiniteSet(D)
  PROVE  SumFunction([x \in D |-> 0]) = 0
PROOF
<1>. DEFINE f == [x \in D |-> 0]
<1>0. DOMAIN f = D /\ \A x \in D : f[x] = 0
  OBVIOUS
<1>. HIDE DEF f
<1>1. PICK i : /\ SumFunction(f) = i[D] /\ i[{}] = 0
               /\ \A s \in SUBSET D : s # {} => i[s] = f[Pick(s)] + i[s \ {Pick(s)}]
  <2>1. IsFiniteSet(DOMAIN f)
    BY <1>0
  <2>2. \E i : /\ SumFunction(f) = i[DOMAIN f] /\ i[{}] = 0
               /\ \A s \in SUBSET DOMAIN f : s # {} => i[s] = f[Pick(s)] + i[s \ {Pick(s)}]
    BY ONLY <2>1, SumSteps
  <2>. QED
    BY ONLY <1>0, <2>2
<1>. DEFINE open == {n \in Nat : \E s \in SUBSET D : Cardinality(s) = n /\ i[s] # 0}
<1>3. open = {}
  <2>. SUFFICES ASSUME open # {} PROVE FALSE
    OBVIOUS
  <2>1. PICK n \in open : \A m \in open : ~(<<m, n>> \in OpToRel(<, Nat))
    <3>1. open \subseteq Nat
      OBVIOUS
    <3>. HIDE DEF open
    <3>. QED
      BY <3>1, NatLessThanWellFounded, WFMin
  <2>2. n \in Nat /\ \A m \in open : ~(m < n)
    BY <2>1 DEF OpToRel
  <2>3. PICK s \in SUBSET D : Cardinality(s) = n /\ i[s] # 0
    BY <2>1
  <2>4. s # {}
    BY <1>1, <2>3
  <2>. DEFINE p == Pick(s)
              r == s \ {p}
  <2>5. p \in s /\ r \in SUBSET D /\ Cardinality(r) = n - 1 /\ n - 1 \in Nat
    <3>1. IsFiniteSet(s) /\ IsFiniteSet(r) /\ p \in s
      BY <2>4, PickIn, FS_Subset
    <3>2. Cardinality(r) = n - 1
      BY <2>3, <3>1, FS_RemoveElement
    <3>3. Cardinality(r) \in Nat
      BY <3>1, FS_CardinalityType
    <3>. QED
      BY <3>1, <3>2, <3>3
  <2>6. i[r] = 0
    <3>1. n - 1 \notin open
      BY <2>2
    <3>. QED
      BY <2>5, <3>1
  <2>7. i[s] = f[p] + i[r] /\ f[p] = 0
    BY <1>0, <1>1, <2>4, <2>5
  <2>. QED
    BY <2>3, <2>6, <2>7
<1>4. Cardinality(D) \in Nat /\ Cardinality(D) \notin open
  BY <1>3, FS_CardinalityType
<1>. QED
  BY <1>1, <1>4 DEF f

\* A sum of integers is one.
LEMMA SumIsInt ==
  ASSUME NEW D, IsFiniteSet(D), NEW f \in [D -> Int]
  PROVE  SumFunction(f) \in Int
PROOF
<1>1. CASE D = {}
  <2>1. f = [x \in D |-> 0]
    BY <1>1
  <2>2. SumFunction([x \in D |-> 0]) = 0
    BY SumOfNothing
  <2>. QED
    BY <2>1, <2>2
<1>2. CASE D # {}
  <2>1. PICK x \in D : TRUE
    BY <1>2
  <2>2. GrowsAt(D, f, f, x, 0)
    BY DEF GrowsAt
  <2>. QED
    BY <2>1, <2>2, SumGrows
<1>. QED
  BY <1>1, <1>2

-----------------------------------------------------------------------------
(* The limiter behind the gateway *)

LimitInv == GatewayTypeOK /\ \A k \in Keys : WindowOK(hits[k], admitted[k], now)

\* A request that the limiter sees, admitted or not, and the clock are all that
\* the windows notice of the gateway.
LimiterStep ==
  \/ UNCHANGED limitVars \/ Tick
  \/ \E k \in Keys : Admit(k) \/ Reject(k)

\* Handlers, refused keys and exempt paths leave the limiter alone: every step
\* of the gateway is a step of the limiter or changes nothing of its state.
LEMMA OnlyLimiterSteps == [Next]_vars => LimiterStep
PROOF
  BY DEF Next, LimiterStep, vars, limitVars, Time, Limited, Unauthorised, Handle, HandleExempt,
         Finish, Raise

\* A step of the limiter keeps deque and admissions of every key in agreement.
LEMMA WindowsStep ==
  ASSUME LimitInv, LimiterStep
  PROVE  TypeOK' /\ \A k \in Keys : WindowOK(hits[k], admitted[k], now)'
PROOF
<1>0. /\ TypeOK /\ \A k \in Keys : WindowOK(hits[k], admitted[k], now)
      /\ now \in Nat /\ hits \in [Keys -> Seq(Nat)] /\ admitted \in [Keys -> Seq(Nat)]
  BY DEF LimitInv, GatewayTypeOK, TypeOK
<1>1. CASE UNCHANGED limitVars
  BY <1>0, <1>1 DEF limitVars, TypeOK, WindowOK
<1>2. CASE Tick
  <2>1. now' = now + 1 /\ hits' = hits /\ admitted' = admitted
    BY <1>2 DEF Tick
  <2>2. \A k \in Keys : WindowOK(hits[k], admitted[k], now + 1)
    BY <1>0, WindowLater
  <2>. QED
    BY <1>0, <2>1, <2>2 DEF TypeOK, WindowOK
<1>3. ASSUME NEW k \in Keys, NEW h, NEW a, WindowOK(h, a, now),
             hits' = [hits EXCEPT ![k] = h], admitted' = [admitted EXCEPT ![k] = a], now' = now
      PROVE  TypeOK' /\ \A l \in Keys : WindowOK(hits[l], admitted[l], now)'
  <2>1. ASSUME NEW l \in Keys PROVE WindowOK(hits'[l], admitted'[l], now)
    BY <1>0, <1>3
  <2>2. h \in Seq(Nat) /\ Len(h) <= Limit /\ a \in Seq(Nat)
    BY <1>3 DEF WindowOK
  <2>3. TypeOK'
    BY <1>0, <1>3, <2>2 DEF TypeOK
  <2>. QED
    BY <1>3, <2>1, <2>3 DEF WindowOK
<1>4. ASSUME NEW k \in Keys, Reject(k)
      PROVE  TypeOK' /\ \A l \in Keys : WindowOK(hits[l], admitted[l], now)'
  <2>1. hits' = [hits EXCEPT ![k] = Prune(hits[k], now)] /\ UNCHANGED <<now, admitted>>
    BY <1>4 DEF Reject
  <2>2. WindowOK(Prune(hits[k], now), admitted[k], now)
    BY <1>0, WindowPruned
  <2>3. admitted' = [admitted EXCEPT ![k] = admitted[k]]
    BY <1>0, <2>1
  <2>. QED
    BY <1>3, <2>1, <2>2, <2>3
<1>5. ASSUME NEW k \in Keys, Admit(k)
      PROVE  TypeOK' /\ \A l \in Keys : WindowOK(hits[l], admitted[l], now)'
  <2>1. /\ hits' = [hits EXCEPT ![k] = Append(Prune(hits[k], now), now)]
        /\ admitted' = [admitted EXCEPT ![k] = Append(admitted[k], now)] /\ now' = now
        /\ Len(Prune(hits[k], now)) < Limit
    BY <1>5 DEF Admit, Admits
  <2>2. WindowOK(Prune(hits[k], now), admitted[k], now)
    BY <1>0, WindowPruned
  <2>3. WindowOK(Append(Prune(hits[k], now), now), Append(admitted[k], now), now)
    BY <2>1, <2>2, WindowAdmits
  <2>. QED
    BY <1>3, <2>1, <2>3
<1>. QED
  BY <1>1, <1>2, <1>4, <1>5 DEF LimiterStep

\* The server starts with empty deques and zero counters.
LEMMA GatewayStart == GatewayInit => LimitInv
PROOF
<1>. SUFFICES ASSUME GatewayInit PROVE LimitInv
  OBVIOUS
<1>1. <<>> \in Seq(Nat) /\ Len(<<>>) = 0 /\ Limit \in Nat \ {0}
  BY EmptySeq, RateAssumption
<1>2. GatewayTypeOK
  BY <1>1 DEF GatewayInit, Init, GatewayTypeOK, TypeOK
<1>3. ASSUME NEW k \in Keys PROVE hits[k] = <<>> /\ admitted[k] = <<>> /\ now = 0
  BY DEF GatewayInit, Init
<1>4. WindowOK(<<>>, <<>>, 0)
  BY <1>1 DEF WindowOK
<1>. QED
  BY <1>2, <1>3, <1>4 DEF LimitInv

\* A counter of the metrics that gets one more.
LEMMA RecordTypes ==
  ASSUME GatewayTypeOK, NEW l \in Labels, NEW s \in Statuses, Record(l, s)
  PROVE  counts' \in [Labels \X Statuses -> Nat]
PROOF
  BY DEF GatewayTypeOK, Record

\* Every step keeps the invariant behind the limiter's properties.
LEMMA GatewayStep == LimitInv /\ [Next]_vars => LimitInv'
PROOF
<1>. SUFFICES ASSUME LimitInv, [Next]_vars PROVE LimitInv'
  OBVIOUS
<1>1. TypeOK' /\ \A k \in Keys : WindowOK(hits[k], admitted[k], now)'
  BY OnlyLimiterSteps, WindowsStep
<1>. SUFFICES running' \in [Paths -> Nat] /\ counts' \in [Labels \X Statuses -> Nat]
              /\ raised' \in Nat /\ refused' \in Nat /\ exempted' \in Nat
  BY <1>1 DEF LimitInv, GatewayTypeOK
<1>0. GatewayTypeOK /\ "done" \in Statuses /\ "401" \in Statuses /\ "429" \in Statuses
      /\ \A p \in Paths : p \in Labels /\ Route[p] \in Labels
  BY DEF LimitInv, Statuses, Labels
<1>2. ASSUME NEW p \in Paths, NEW k \in Keys, Limited(k, p) \/ Unauthorised(k, p)
      PROVE  counts' \in [Labels \X Statuses -> Nat]
  BY <1>0, <1>2, RecordTypes DEF Limited, Unauthorised
<1>3. ASSUME NEW p \in Paths, NEW k \in Keys, Limited(k, p) \/ Unauthorised(k, p) \/ Handle(k, p)
      PROVE  running' \in [Paths -> Nat] /\ counts' \in [Labels \X Statuses -> Nat]
              /\ raised' \in Nat /\ refused' \in Nat /\ exempted' \in Nat
  BY <1>0, <1>2, <1>3 DEF GatewayTypeOK, Limited, Unauthorised, Handle, Start
<1>4. ASSUME NEW p \in Paths, HandleExempt(p)
      PROVE  running' \in [Paths -> Nat] /\ counts' \in [Labels \X Statuses -> Nat]
              /\ raised' \in Nat /\ refused' \in Nat /\ exempted' \in Nat
  BY <1>0, <1>4 DEF GatewayTypeOK, HandleExempt, Start
<1>5. ASSUME NEW p \in Paths, Finish(p) \/ Raise(p)
      PROVE  running' \in [Paths -> Nat] /\ counts' \in [Labels \X Statuses -> Nat]
              /\ raised' \in Nat /\ refused' \in Nat /\ exempted' \in Nat
  <2>1. running[p] > 0 /\ running' = [running EXCEPT ![p] = @ - 1]
    BY <1>5 DEF Finish, Raise, Leave
  <2>2. running' \in [Paths -> Nat]
    BY <1>0, <2>1 DEF GatewayTypeOK
  <2>3. counts' \in [Labels \X Statuses -> Nat]
    BY <1>0, <1>5, RecordTypes DEF Finish, Raise, GatewayTypeOK
  <2>. QED
    BY <1>0, <1>5, <2>2, <2>3 DEF Finish, Raise, GatewayTypeOK
<1>6. CASE Time \/ UNCHANGED vars
  BY <1>0, <1>6 DEF Time, vars, GatewayTypeOK
<1>. QED
  BY <1>3, <1>4, <1>5, <1>6 DEF Next

\* Counters, deques and histories keep their types, and no deque outgrows the
\* limit.
THEOREM TypeCorrect == Spec => []GatewayTypeOK
PROOF
<1>1. LimitInv => GatewayTypeOK
  BY DEF LimitInv
<1>. QED
  BY <1>1, GatewayStart, GatewayStep, PTL DEF Spec

\* The limiter admits no more than Limit requests of a key within Window,
\* wherever the window is laid, and refuses none below that: for any limit, any
\* window and any mix of keys, paths and times.
THEOREM LimitIsExactCorrect == Spec => []LimitIsExact
PROOF
<1>1. ASSUME LimitInv, NEW k \in Keys
      PROVE  /\ \A i \in 1 .. Len(admitted[k]) - Limit :
                   admitted[k][i + Limit] - admitted[k][i] > Window
             /\ ~Admits(hits[k], now) =>
                  Cardinality({i \in DOMAIN admitted[k] : now - admitted[k][i] <= Window}) >= Limit
  <2>1. WindowOK(hits[k], admitted[k], now)
    BY <1>1 DEF LimitInv
  <2>. QED
    BY <2>1, WindowFull DEF WindowOK
<1>2. LimitInv => LimitIsExact
  BY <1>1 DEF LimitIsExact
<1>. QED
  BY <1>2, GatewayStart, GatewayStep, PTL DEF Spec

\* Retry-After is never too short, and never a second too long.
THEOREM RetryAfterIsEnoughCorrect == Spec => []RetryAfterIsEnough
PROOF
<1>1. ASSUME LimitInv, NEW k \in Keys, ~Admits(hits[k], now)
      PROVE  LET r == RetryAfter(hits[k], now) IN
             /\ Admits(hits[k], now + r * TicksPerSecond)
             /\ ~Admits(hits[k], now + (r - 1) * TicksPerSecond)
  <2>. DEFINE h == hits[k]
              first == Prune(h, now)[1]
              rest == Window - (now - first)
              r == RetryAfter(h, now)
  <2>1. WindowOK(h, admitted[k], now)
    BY <1>1 DEF LimitInv
  <2>2. now \in Nat /\ Window \in Nat /\ TicksPerSecond \in Nat \ {0}
    BY <2>1, RateAssumption DEF WindowOK
  <2>3. Prune(h, now) \in Seq(Nat) /\ Len(Prune(h, now)) = Limit /\ first \in Nat
    <3>1. Len(Prune(h, now)) = Limit
      BY <1>1, <2>1, WindowFull
    <3>2. WindowOK(Prune(h, now), admitted[k], now)
      BY <2>1, WindowPruned
    <3>3. Prune(h, now) \in Seq(Nat) /\ 1 \in 1 .. Len(Prune(h, now))
      BY <3>1, <3>2, RateAssumption DEF WindowOK
    <3>. QED
      BY <3>1, <3>3, ElementOfSeq
  <2>4. rest \in Nat
    <3>1. ~(now - first > Window)
      BY <1>1, <2>1, <2>2, FirstDecides
    <3>. QED
      <4>. HIDE DEF first
      <4>. QED
        BY <2>2, <2>3, <3>1
  <2>5. r = rest \div TicksPerSecond + 1
    BY DEF RetryAfter
  <2>6. /\ rest \div TicksPerSecond \in Nat
        /\ (rest \div TicksPerSecond) * TicksPerSecond <= rest
        /\ rest < (rest \div TicksPerSecond + 1) * TicksPerSecond
    <3>. HIDE DEF rest
    <3>. QED
      BY <2>2, <2>4, WholeSeconds
  <2>7. /\ r \in Nat /\ r - 1 \in Nat /\ (r - 1) * TicksPerSecond <= rest
        /\ rest < r * TicksPerSecond
        /\ r * TicksPerSecond \in Nat /\ (r - 1) * TicksPerSecond \in Nat
    <3>. HIDE DEF r, rest
    <3>1. r - 1 = rest \div TicksPerSecond /\ r \in Nat
      BY <2>5, <2>6
    <3>2. r * TicksPerSecond \in Nat /\ (r - 1) * TicksPerSecond \in Nat
      BY <2>2, <2>6, <3>1
    <3>. QED
      BY <2>5, <2>6, <3>1, <3>2
  <2>8. /\ now + r * TicksPerSecond - first > Window
        /\ ~(now + (r - 1) * TicksPerSecond - first > Window)
    <3>. DEFINE late == r * TicksPerSecond
                soon == (r - 1) * TicksPerSecond
    <3>1. late \in Nat /\ soon \in Nat /\ soon <= rest /\ rest < late
      BY <2>7
    <3>. HIDE DEF late, soon, first
    <3>2. now + late - first > Window /\ ~(now + soon - first > Window)
      BY <2>2, <2>3, <3>1
    <3>. QED
      BY <3>2 DEF late, soon
  <2>9. /\ now + r * TicksPerSecond \in Int /\ now + r * TicksPerSecond >= now
        /\ now + (r - 1) * TicksPerSecond \in Int /\ now + (r - 1) * TicksPerSecond >= now
    <3>. HIDE DEF r
    <3>. QED
      BY <2>2, <2>7
  <2>10. Admits(h, now + r * TicksPerSecond)
    <3>. DEFINE u == now + r * TicksPerSecond
    <3>1. u \in Int /\ u >= now /\ (u - first > Window)
      <4>. HIDE DEF r, first
      <4>. QED
        BY <2>2, <2>3, <2>7, <2>8, <2>9
    <3>. HIDE DEF u
    <3>2. Admits(h, u) <=> u - first > Window
      BY <1>1, <2>1, <3>1, FirstDecides
    <3>3. Admits(h, u)
      BY <3>1, <3>2
    <3>. QED
      BY <3>3 DEF u
  <2>11. ~Admits(h, now + (r - 1) * TicksPerSecond)
    <3>. DEFINE u == now + (r - 1) * TicksPerSecond
    <3>1. u \in Int /\ u >= now /\ ~(u - first > Window)
      <4>. HIDE DEF r, first
      <4>. QED
        BY <2>2, <2>3, <2>7, <2>8, <2>9
    <3>. HIDE DEF u
    <3>2. Admits(h, u) <=> u - first > Window
      BY <1>1, <2>1, <3>1, FirstDecides
    <3>3. ~Admits(h, u)
      BY <3>1, <3>2
    <3>. QED
      BY <3>3 DEF u
  <2>. QED
    BY <2>10, <2>11
<1>2. LimitInv => RetryAfterIsEnough
  BY <1>1 DEF RetryAfterIsEnough
<1>. QED
  BY <1>2, GatewayStart, GatewayStep, PTL DEF Spec

-----------------------------------------------------------------------------
(* The counters *)

\* There are finitely many counters, so their sum is defined.
LEMMA FiniteLabels == IsFiniteSet(Labels)
PROOF
<1>. DEFINE R == {Route[p] : p \in Paths}
            f == [p \in Paths |-> Route[p]]
<1>1. f \in Surjection(Paths, R)
  BY DEF Surjection
<1>2. IsFiniteSet(Paths) /\ IsFiniteSet(R)
  BY <1>1, GatewayAssumption, FS_Surjection
<1>. QED
  BY <1>2, FS_Union DEF Labels

\* A recorded answer counts for its status and no other.
LEMMA CountedStep ==
  ASSUME GatewayTypeOK, NEW l \in Labels, NEW s \in Statuses, Record(l, s), NEW z \in Statuses
  PROVE  Counted(z)' = Counted(z) + IF z = s THEN 1 ELSE 0
PROOF
<1>. DEFINE f == [m \in Labels |-> counts[<<m, z>>]]
            g == [m \in Labels |-> counts'[<<m, z>>]]
<1>1. counts \in [Labels \X Statuses -> Nat] /\ counts' = [counts EXCEPT ![<<l, s>>] = @ + 1]
  BY DEF GatewayTypeOK, Record
<1>2. f \in [Labels -> Int]
  BY <1>1
<1>3. Counted(z) = SumFunction(f) /\ Counted(z)' = SumFunction(g)
  BY DEF Counted, Total
<1>4. CASE z = s
  <2>1. GrowsAt(Labels, f, g, l, 1)
    BY <1>1, <1>4 DEF GrowsAt
  <2>. HIDE DEF f, g
  <2>2. SumFunction(g) = SumFunction(f) + 1
    BY <1>2, <2>1, FiniteLabels, SumGrows
  <2>. QED
    BY <1>3, <1>4, <2>2
<1>5. CASE z # s
  <2>1. g = f
    BY <1>1, <1>5
  <2>2. SumFunction(f) \in Int
    <3>. HIDE DEF f
    <3>. QED
      BY <1>2, FiniteLabels, SumIsInt
  <2>3. SumFunction(g) = SumFunction(f)
    BY <2>1
  <2>. HIDE DEF f, g
  <2>. QED
    BY <1>3, <1>5, <2>2, <2>3
<1>. QED
  BY <1>4, <1>5

\* An admission counts once, for the keys it belongs to.
LEMMA AdmissionsStep ==
  ASSUME TypeOK, NEW k \in Keys, Admit(k), NEW K \in SUBSET Keys
  PROVE  Admissions(K)' = Admissions(K) + IF k \in K THEN 1 ELSE 0
PROOF
<1>. DEFINE f == [l \in K |-> Len(admitted[l])]
            g == [l \in K |-> Len(admitted'[l])]
<1>1. /\ admitted \in [Keys -> Seq(Nat)] /\ now \in Nat
      /\ admitted' = [admitted EXCEPT ![k] = Append(@, now)]
  BY DEF TypeOK, Admit
<1>2. IsFiniteSet(K)
  BY GatewayAssumption, FS_Subset
<1>3. \A l \in K : admitted[l] \in Seq(Nat) /\ Len(admitted[l]) \in Int
  BY <1>1, LenProperties
<1>4. f \in [K -> Int]
  BY <1>3
<1>5. Len(Append(admitted[k], now)) = Len(admitted[k]) + 1
  BY <1>1, AppendProperties
<1>6. k \in K => GrowsAt(K, f, g, k, 1)
  BY <1>1, <1>3, <1>5 DEF GrowsAt
<1>7. SumFunction(g) = SumFunction(f) + IF k \in K THEN 1 ELSE 0
  <2>1. CASE k \in K
    <3>. HIDE DEF f, g
    <3>1. SumFunction(g) = SumFunction(f) + 1
      BY <1>2, <1>4, <1>6, <2>1, SumGrows
    <3>. QED
      BY <2>1, <3>1
  <2>2. CASE k \notin K
    <3>1. g = f
      BY <1>1, <2>2
    <3>. HIDE DEF f, g
    <3>2. SumFunction(f) \in Int
      BY <1>2, <1>4, SumIsInt
    <3>. QED
      BY <2>2, <3>1, <3>2
  <2>. QED
    BY <2>1, <2>2
<1>8. Admissions(K) = SumFunction(f) /\ Admissions(K)' = SumFunction(g)
  BY DEF Admissions, Total
<1>. QED
  BY <1>7, <1>8

\* A handler that starts or ends.
LEMMA RunningStep ==
  ASSUME NEW p, NEW d, GrowsAt(Paths, running, running', p, d)
  PROVE  Total(running)' = Total(running) + d
PROOF
<1>1. SumFunction(running') = SumFunction(running) + d
  BY GatewayAssumption, SumGrows
<1>. QED
  BY <1>1 DEF Total

\* What the equations add up is numbers.
LEMMA TotalsAreNumbers ==
  ASSUME GatewayTypeOK
  PROVE  /\ \A K \in SUBSET Keys : Admissions(K) \in Int
         /\ \A z \in Statuses : Counted(z) \in Int
         /\ Total(running) \in Int
         /\ raised \in Int /\ refused \in Int /\ exempted \in Int
PROOF
<1>1. ASSUME NEW K \in SUBSET Keys PROVE Admissions(K) \in Int
  <2>. DEFINE f == [l \in K |-> Len(admitted[l])]
  <2>1. \A l \in K : admitted[l] \in Seq(Nat) /\ Len(admitted[l]) \in Int
    BY LenProperties DEF GatewayTypeOK, TypeOK
  <2>2. f \in [K -> Int] /\ IsFiniteSet(K)
    BY <2>1, GatewayAssumption, FS_Subset
  <2>3. SumFunction(f) \in Int
    <3>. HIDE DEF f
    <3>. QED
      BY <2>2, SumIsInt
  <2>. QED
    BY <2>3 DEF Admissions, Total
<1>2. ASSUME NEW z \in Statuses PROVE Counted(z) \in Int
  <2>. DEFINE f == [m \in Labels |-> counts[<<m, z>>]]
  <2>1. f \in [Labels -> Int]
    BY DEF GatewayTypeOK
  <2>2. SumFunction(f) \in Int
    <3>. HIDE DEF f
    <3>. QED
      BY <2>1, FiniteLabels, SumIsInt
  <2>. QED
    BY <2>2 DEF Counted, Total
<1>3. Total(running) \in Int
  <2>1. running \in [Paths -> Int]
    BY DEF GatewayTypeOK
  <2>. QED
    BY <2>1, GatewayAssumption, SumIsInt DEF Total
<1>. QED
  BY <1>1, <1>2, <1>3 DEF GatewayTypeOK

\* Before the first request every total is nothing.
LEMMA AccountedStart == GatewayInit => EveryRequestAccounted
PROOF
<1>. SUFFICES ASSUME GatewayInit PROVE EveryRequestAccounted
  OBVIOUS
<1>1. ASSUME NEW K \in SUBSET Keys PROVE Admissions(K) = 0
  <2>1. [l \in K |-> Len(admitted[l])] = [l \in K |-> 0]
    BY DEF GatewayInit, Init
  <2>2. IsFiniteSet(K)
    BY GatewayAssumption, FS_Subset
  <2>. QED
    BY <2>1, <2>2, SumOfNothing DEF Admissions, Total
<1>2. ASSUME NEW z \in Statuses PROVE Counted(z) = 0
  <2>1. [m \in Labels |-> counts[<<m, z>>]] = [m \in Labels |-> 0]
    BY DEF GatewayInit
  <2>. QED
    BY <2>1, FiniteLabels, SumOfNothing DEF Counted, Total
<1>3. Total(running) = 0
  BY GatewayAssumption, SumOfNothing DEF Total, GatewayInit
<1>4. Valid \in SUBSET Keys /\ Keys \ Valid \in SUBSET Keys
  BY GatewayAssumption
<1>5. "done" \in Statuses /\ "401" \in Statuses /\ "429" \in Statuses
  BY DEF Statuses
<1>6. raised = 0 /\ refused = 0 /\ exempted = 0
  BY DEF GatewayInit
<1>. QED
  BY <1>1, <1>2, <1>3, <1>4, <1>5, <1>6 DEF EveryRequestAccounted

\* What a step leaves alone keeps its total.
LEMMA TotalsKept ==
  /\ admitted' = admitted => \A K \in SUBSET Keys : Admissions(K)' = Admissions(K)
  /\ counts' = counts => \A z \in Statuses : Counted(z)' = Counted(z)
  /\ running' = running => Total(running)' = Total(running)
PROOF
<1>1. admitted' = admitted => \A K \in SUBSET Keys : Admissions(K)' = Admissions(K)
  BY DEF Admissions, Total
<1>2. counts' = counts => \A z \in Statuses : Counted(z)' = Counted(z)
  BY DEF Counted, Total
<1>3. running' = running => Total(running)' = Total(running)
  BY DEF Total
<1>. QED
  BY <1>1, <1>2, <1>3

\* Every step moves both sides of each equation by the same.
LEMMA AccountedStep ==
  ASSUME GatewayTypeOK, GatewayTypeOK', EveryRequestAccounted, [Next]_vars
  PROVE  EveryRequestAccounted'
PROOF
<1>. DEFINE bad == Keys \ Valid
<1>1. Valid \in SUBSET Keys /\ bad \in SUBSET Keys
  BY GatewayAssumption
<1>2. "done" \in Statuses /\ "401" \in Statuses /\ "429" \in Statuses
      /\ \A p \in Paths : p \in Labels /\ Route[p] \in Labels
  BY DEF Statuses, Labels
<1>3. /\ Admissions(Valid) \in Int /\ Admissions(bad) \in Int
      /\ Counted("done") \in Int /\ Counted("401") \in Int /\ Counted("429") \in Int
      /\ Total(running) \in Int /\ raised \in Int /\ refused \in Int /\ exempted \in Int
  BY <1>1, <1>2, TotalsAreNumbers
<1>4. /\ Admissions(Valid) + exempted = Total(running) + Counted("done") + raised
      /\ Admissions(bad) = Counted("401")
      /\ refused = Counted("429")
  BY DEF EveryRequestAccounted
<1>. SUFFICES /\ Admissions(Valid)' + exempted' = Total(running)' + Counted("done")' + raised'
              /\ Admissions(bad)' = Counted("401")'
              /\ refused' = Counted("429")'
  BY DEF EveryRequestAccounted
<1>. DEFINE SameA == Admissions(Valid)' = Admissions(Valid) /\ Admissions(bad)' = Admissions(bad)
            SameC == /\ Counted("done")' = Counted("done") /\ Counted("401")' = Counted("401")
                     /\ Counted("429")' = Counted("429")
            SameR == Total(running)' = Total(running)
<1>5. /\ admitted' = admitted => SameA
      /\ counts' = counts => SameC
      /\ running' = running => SameR
  BY <1>1, <1>2, TotalsKept
<1>6. TypeOK /\ running \in [Paths -> Nat] /\ running' \in [Paths -> Nat]
  BY DEF GatewayTypeOK
<1>. HIDE DEF bad
<1>7. ASSUME NEW k \in Keys, NEW p \in Paths, Limited(k, p)
      PROVE  /\ Admissions(Valid)' + exempted' = Total(running)' + Counted("done")' + raised'
             /\ Admissions(bad)' = Counted("401")' /\ refused' = Counted("429")'
  <2>1. /\ SameA /\ SameR /\ Record(p, "429")
        /\ refused' = refused + 1 /\ exempted' = exempted /\ raised' = raised
    BY <1>5, <1>7 DEF Limited, Reject
  <2>2. /\ Counted("done")' = Counted("done") /\ Counted("401")' = Counted("401")
        /\ Counted("429")' = Counted("429") + 1
    <3>1. ASSUME NEW z \in Statuses PROVE Counted(z)' = Counted(z) + IF z = "429" THEN 1 ELSE 0
      BY <1>2, <2>1, CountedStep
    <3>. QED
      BY <1>2, <1>3, <3>1
  <2>. QED
    BY <1>3, <1>4, <2>1, <2>2
<1>8. ASSUME NEW k \in Keys, NEW p \in Paths, Unauthorised(k, p)
      PROVE  /\ Admissions(Valid)' + exempted' = Total(running)' + Counted("done")' + raised'
             /\ Admissions(bad)' = Counted("401")' /\ refused' = Counted("429")'
  <2>1. /\ Admit(k) /\ k \in bad /\ k \notin Valid /\ SameR /\ Record(p, "401")
        /\ refused' = refused /\ exempted' = exempted /\ raised' = raised
    BY <1>5, <1>8 DEF Unauthorised, bad
  <2>2. /\ Counted("done")' = Counted("done") /\ Counted("401")' = Counted("401") + 1
        /\ Counted("429")' = Counted("429")
    <3>1. ASSUME NEW z \in Statuses PROVE Counted(z)' = Counted(z) + IF z = "401" THEN 1 ELSE 0
      BY <1>2, <2>1, CountedStep
    <3>. QED
      BY <1>2, <1>3, <3>1
  <2>3. ASSUME NEW K \in SUBSET Keys PROVE Admissions(K)' = Admissions(K) + IF k \in K THEN 1 ELSE 0
    BY <1>6, <2>1, AdmissionsStep
  <2>4. Admissions(Valid)' = Admissions(Valid) /\ Admissions(bad)' = Admissions(bad) + 1
    BY <1>1, <1>3, <2>1, <2>3
  <2>. QED
    BY <1>3, <1>4, <2>1, <2>2, <2>4
<1>9. ASSUME NEW k \in Keys, NEW p \in Paths, Handle(k, p)
      PROVE  /\ Admissions(Valid)' + exempted' = Total(running)' + Counted("done")' + raised'
             /\ Admissions(bad)' = Counted("401")' /\ refused' = Counted("429")'
  <2>1. /\ Admit(k) /\ k \notin bad /\ k \in Valid /\ SameC /\ Start(p)
        /\ refused' = refused /\ exempted' = exempted /\ raised' = raised
    BY <1>5, <1>9 DEF Handle, bad
  <2>2. Total(running)' = Total(running) + 1
    <3>1. GrowsAt(Paths, running, running', p, 1)
      BY <1>6, <2>1 DEF Start, GrowsAt
    <3>. QED
      BY <3>1, RunningStep
  <2>3. ASSUME NEW K \in SUBSET Keys PROVE Admissions(K)' = Admissions(K) + IF k \in K THEN 1 ELSE 0
    BY <1>6, <2>1, AdmissionsStep
  <2>4. Admissions(Valid)' = Admissions(Valid) + 1 /\ Admissions(bad)' = Admissions(bad)
    BY <1>1, <1>3, <2>1, <2>3
  <2>5. /\ Counted("done")' = Counted("done") /\ Counted("401")' = Counted("401")
        /\ Counted("429")' = Counted("429")
    BY <2>1
  <2>6. refused' = refused /\ exempted' = exempted /\ raised' = raised
    BY <2>1
  <2>7. Admissions(Valid)' + exempted' = Total(running)' + Counted("done")' + raised'
    <3>1. (Admissions(Valid) + 1) + exempted = (Total(running) + 1) + Counted("done") + raised
      BY <1>3, <1>4
    <3>. QED
      BY <2>2, <2>4, <2>5, <2>6, <3>1
  <2>. QED
    BY <1>4, <2>4, <2>5, <2>6, <2>7
<1>10. ASSUME NEW p \in Paths, HandleExempt(p)
      PROVE  /\ Admissions(Valid)' + exempted' = Total(running)' + Counted("done")' + raised'
             /\ Admissions(bad)' = Counted("401")' /\ refused' = Counted("429")'
  <2>1. /\ SameA /\ SameC /\ Start(p)
        /\ refused' = refused /\ exempted' = exempted + 1 /\ raised' = raised
    BY <1>5, <1>10 DEF HandleExempt, limitVars
  <2>2. Total(running)' = Total(running) + 1
    <3>1. GrowsAt(Paths, running, running', p, 1)
      BY <1>6, <2>1 DEF Start, GrowsAt
    <3>. QED
      BY <3>1, RunningStep
  <2>. QED
    BY <1>3, <1>4, <2>1, <2>2
<1>11. ASSUME NEW p \in Paths, Finish(p)
      PROVE  /\ Admissions(Valid)' + exempted' = Total(running)' + Counted("done")' + raised'
             /\ Admissions(bad)' = Counted("401")' /\ refused' = Counted("429")'
  <2>1. /\ SameA /\ Record(Route[p], "done") /\ Leave(p)
        /\ refused' = refused /\ exempted' = exempted /\ raised' = raised
    BY <1>5, <1>11 DEF Finish, limitVars
  <2>2. Total(running)' = Total(running) + (-1)
    <3>1. GrowsAt(Paths, running, running', p, -1)
      BY <1>6, <2>1 DEF Leave, GrowsAt
    <3>. QED
      BY <3>1, RunningStep
  <2>3. /\ Counted("done")' = Counted("done") + 1 /\ Counted("401")' = Counted("401")
        /\ Counted("429")' = Counted("429")
    <3>1. ASSUME NEW z \in Statuses PROVE Counted(z)' = Counted(z) + IF z = "done" THEN 1 ELSE 0
      BY <1>2, <2>1, CountedStep
    <3>. QED
      BY <1>2, <1>3, <3>1
  <2>. QED
    BY <1>3, <1>4, <2>1, <2>2, <2>3
<1>12. ASSUME NEW p \in Paths, Raise(p)
      PROVE  /\ Admissions(Valid)' + exempted' = Total(running)' + Counted("done")' + raised'
             /\ Admissions(bad)' = Counted("401")' /\ refused' = Counted("429")'
  <2>1. /\ SameA /\ SameC /\ Leave(p)
        /\ refused' = refused /\ exempted' = exempted /\ raised' = raised + 1
    BY <1>5, <1>12 DEF Raise, limitVars
  <2>2. Total(running)' = Total(running) + (-1)
    <3>1. GrowsAt(Paths, running, running', p, -1)
      BY <1>6, <2>1 DEF Leave, GrowsAt
    <3>. QED
      BY <3>1, RunningStep
  <2>. QED
    BY <1>3, <1>4, <2>1, <2>2
<1>13. CASE Time \/ UNCHANGED vars
  <2>1. /\ SameA /\ SameC /\ SameR
        /\ refused' = refused /\ exempted' = exempted /\ raised' = raised
    BY <1>5, <1>13 DEF Time, Tick, vars, limitVars
  <2>. QED
    BY <1>4, <2>1
<1>. QED
  BY <1>7, <1>8, <1>9, <1>10, <1>11, <1>12, <1>13 DEF Next

\* The counters account for every request, at any time and for any number of
\* keys, paths and handlers at work.
THEOREM EveryRequestAccountedCorrect == Spec => []EveryRequestAccounted
PROOF
<1>1. LimitInv /\ EveryRequestAccounted /\ [Next]_vars => LimitInv' /\ EveryRequestAccounted'
  <2>1. LimitInv => GatewayTypeOK
    BY DEF LimitInv
  <2>2. LimitInv' => GatewayTypeOK'
    BY DEF LimitInv
  <2>. QED
    BY <2>1, <2>2, GatewayStep, AccountedStep
<1>. QED
  BY <1>1, GatewayStart, AccountedStart, PTL DEF Spec
=============================================================================
