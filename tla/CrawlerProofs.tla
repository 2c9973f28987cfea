--------------------------- MODULE CrawlerProofs ----------------------------
(***************************************************************************)
(* Proofs about Crawler, for every set of pages, every link structure and  *)
(* every limit.                                                            *)
(***************************************************************************)
EXTENDS Crawler, SequenceTheorems, FiniteSetTheorems, WellFoundedInduction, TLAPS

(* The unseen links of a page *)

\* One turn of the loop over the links, and what the fold makes of the turns.
Turn(new, l) == IF l \in seen \union ToSet(new) THEN new ELSE Append(new, l)
TurnsOf(ls, it, s) == IF s = {} THEN <<>> ELSE Turn(it[s \ {Max(s)}], ls[Max(s)])
TurnsRec(ls, it) == it = [s \in SUBSET DOMAIN ls |-> TurnsOf(ls, it, s)]
TurnsTo(ls, n, it) ==
  /\ it = [s \in SUBSET DOMAIN ls |-> it[s]]
  /\ \A s \in SUBSET DOMAIN ls : Cardinality(s) <= n => it[s] = TurnsOf(ls, it, s)
HasTurnsTo(ls, n) == \E it : TurnsTo(ls, n, it)

\* NewLinks is a fold over the positions of the links, the last one outermost.
LEMMA NewLinksDef ==
  ASSUME NEW u PROVE NewLinks(u) = (CHOOSE it : TurnsRec(Links[u], it))[DOMAIN Links[u]]
PROOF BY DEF NewLinks, FoldLeft, MapThenFoldSet, TurnsRec, TurnsOf, Turn

\* The largest of the first n numbers is n.
LEMMA MaxOfFirst == ASSUME NEW n \in Nat \ {0} PROVE Max(1 .. n) = n /\ (1 .. n) \ {n} = 1 .. n - 1
PROOF
<1>1. n \in 1 .. n /\ \A y \in 1 .. n : n >= y
  OBVIOUS
<1>2. \A m \in 1 .. n : (\A y \in 1 .. n : m >= y) => m = n
  BY <1>1
<1>. QED
  BY <1>1, <1>2 DEF Max

\* A set of positions that is not empty has a largest.
LEMMA MaxIn ==
  ASSUME NEW n \in Nat, NEW s \in SUBSET (1 .. n), s # {}
  PROVE  Max(s) \in s
PROOF
<1>. DEFINE above == {m \in Nat : \A y \in s : m >= y}
<1>1. PICK m \in above : \A k \in above : ~(<<k, m>> \in OpToRel(<, Nat))
  <2>1. n \in above /\ above \subseteq Nat
    OBVIOUS
  <2>. HIDE DEF above
  <2>. QED
    BY <2>1, NatLessThanWellFounded, WFMin
<1>2. m \in Nat /\ (\A y \in s : m >= y) /\ \A k \in above : ~(k < m)
  BY <1>1 DEF OpToRel
<1>3. m \in s
  <2>. SUFFICES ASSUME m \notin s PROVE FALSE
    OBVIOUS
  <2>1. \A y \in s : y \in Nat /\ m >= y /\ y # m /\ y >= 1
    BY <1>2
  <2>2. m - 1 \in Nat /\ \A y \in s : m - 1 >= y
    <3>1. PICK x \in s : TRUE
      OBVIOUS
    <3>2. x \in Nat /\ x >= 1 /\ m >= x /\ m \in Nat
      BY <1>2, <2>1
    <3>3. ASSUME NEW y \in s PROVE m - 1 >= y
      <4>1. y \in Nat /\ m >= y /\ y # m
        BY <2>1
      <4>. QED
        BY <1>2, <4>1
    <3>. QED
      BY <3>2, <3>3
  <2>3. m - 1 \in above
    BY <2>2
  <2>. QED
    BY <1>2, <2>2, <2>3
<1>. QED
  BY <1>2, <1>3 DEF Max

\* A fold that is right up to a size gives one that is right for one element more.
LEMMA TurnsToStep ==
  ASSUME NEW ls \in Seq(Pages), NEW n \in Nat, HasTurnsTo(ls, n)
  PROVE  HasTurnsTo(ls, n + 1)
PROOF
<1>0. PICK it : TurnsTo(ls, n, it)
  BY DEF HasTurnsTo
<1>. DEFINE jt == [s \in SUBSET DOMAIN ls |-> IF Cardinality(s) <= n THEN it[s] ELSE TurnsOf(ls, it, s)]
<1>1. ASSUME NEW s \in SUBSET DOMAIN ls, Cardinality(s) <= n + 1
      PROVE  jt[s] = TurnsOf(ls, jt, s)
  <2>0. DOMAIN ls = 1 .. Len(ls) /\ Len(ls) \in Nat
    BY LenProperties
  <2>1. IsFiniteSet(s) /\ Cardinality(s) \in Nat
    <3>1. IsFiniteSet(DOMAIN ls)
      BY <2>0, FS_Interval
    <3>2. IsFiniteSet(s)
      BY <3>1, FS_Subset
    <3>. QED
      BY <3>2, FS_CardinalityType
  <2>2. CASE s = {}
    <3>1. Cardinality(s) <= n
      BY <2>2, FS_EmptySet
    <3>. QED
      BY <1>0, <2>2, <3>1 DEF TurnsTo, TurnsOf
  <2>3. CASE s # {}
    <3>. DEFINE r == s \ {Max(s)}
    <3>1. r \in SUBSET DOMAIN ls /\ Cardinality(r) = Cardinality(s) - 1
      BY <2>0, <2>1, <2>3, MaxIn, FS_RemoveElement
    <3>2. jt[r] = it[r]
      BY <1>1, <2>1, <3>1
    <3>3. jt[s] = TurnsOf(ls, it, s)
      BY <1>0, <1>1 DEF TurnsTo
    <3>. QED
      BY <2>3, <3>2, <3>3 DEF TurnsOf
  <2>. QED
    BY <2>2, <2>3
<1>2. jt = [s \in SUBSET DOMAIN ls |-> jt[s]]
  OBVIOUS
<1>. QED
  <2>. HIDE DEF jt
  <2>. QED
    BY <1>1, <1>2 DEF TurnsTo, HasTurnsTo

\* So the fold is well defined on every page's links.
LEMMA TurnsExist ==
  ASSUME NEW ls \in Seq(Pages)
  PROVE  TurnsRec(ls, CHOOSE it : TurnsRec(ls, it))
PROOF
<1>0. DOMAIN ls = 1 .. Len(ls) /\ Len(ls) \in Nat /\ IsFiniteSet(DOMAIN ls)
  BY LenProperties, FS_Interval
<1>. DEFINE open == {n \in Nat : ~HasTurnsTo(ls, n)}
<1>1. open = {}
  <2>. SUFFICES ASSUME open # {} PROVE FALSE
    OBVIOUS
  <2>1. PICK n \in open : \A m \in open : ~(<<m, n>> \in OpToRel(<, Nat))
    <3>1. open \subseteq Nat
      OBVIOUS
    <3>. HIDE DEF open
    <3>. QED
      BY <3>1, NatLessThanWellFounded, WFMin
  <2>2. n \in Nat /\ \A m \in open : ~(m < n)
    BY <2>1 DEF OpToRel
  <2>3. CASE n = 0
    <3>. DEFINE it == [s \in SUBSET DOMAIN ls |-> <<>>]
    <3>1. ASSUME NEW s \in SUBSET DOMAIN ls, Cardinality(s) <= 0 PROVE it[s] = TurnsOf(ls, it, s)
      <4>1. s = {}
        <5>1. IsFiniteSet(s) /\ Cardinality(s) \in Nat
          BY <1>0, FS_Subset, FS_CardinalityType
        <5>2. Cardinality(s) = 0
          BY <3>1, <5>1
        <5>. QED
          BY <5>1, <5>2, FS_EmptySet
      <4>. QED
        BY <4>1 DEF TurnsOf
    <3>2. it = [s \in SUBSET DOMAIN ls |-> it[s]]
      OBVIOUS
    <3>3. TurnsTo(ls, 0, it)
      <4>. HIDE DEF it
      <4>. QED
        BY <3>1, <3>2 DEF TurnsTo
    <3>. QED
      BY <2>1, <2>3, <3>3 DEF HasTurnsTo
  <2>4. CASE n # 0
    <3>1. n - 1 \in Nat /\ n - 1 \notin open
      BY <2>2, <2>4
    <3>2. HasTurnsTo(ls, n - 1 + 1)
      BY <3>1, TurnsToStep
    <3>3. n - 1 + 1 = n
      BY <2>2
    <3>. QED
      BY <2>1, <3>2, <3>3
  <2>. QED
    BY <2>3, <2>4
<1>2. Cardinality(DOMAIN ls) \in Nat
  BY <1>0, FS_CardinalityType
<1>3. PICK it : TurnsTo(ls, Cardinality(DOMAIN ls), it)
  BY <1>1, <1>2 DEF HasTurnsTo
<1>4. \A s \in SUBSET DOMAIN ls : it[s] = TurnsOf(ls, it, s)
  BY <1>0, <1>3, FS_Subset DEF TurnsTo
<1>5. TurnsRec(ls, it)
  BY <1>3, <1>4 DEF TurnsTo, TurnsRec
<1>. QED
  BY <1>5

\* No element twice.
Injective(s) == \A m, n \in DOMAIN s : s[m] = s[n] => m = n

\* New links as entries of the frontier.
Entries(new, d) == [n \in DOMAIN new |-> [url |-> new[n], depth |-> d]]

\* What the loop has found after the first n links.
FoundIn(ls, new, n) ==
  /\ new \in Seq(Pages) /\ Injective(new)
  /\ ToSet(new) = {ls[k] : k \in 1 .. n} \ seen

\* A turn of the loop finds the next link if it is unseen.
LEMMA TurnFinds ==
  ASSUME NEW ls \in Seq(Pages), NEW n \in 1 .. Len(ls), NEW new, FoundIn(ls, new, n - 1)
  PROVE  FoundIn(ls, Turn(new, ls[n]), n)
PROOF
<1>. DEFINE l == ls[n]
<1>1. l \in Pages /\ n \in Nat /\ new \in Seq(Pages) /\ Injective(new)
      /\ ToSet(new) = {ls[k] : k \in 1 .. n - 1} \ seen
  BY ElementOfSeq DEF FoundIn
<1>2. {ls[k] : k \in 1 .. n} = {ls[k] : k \in 1 .. n - 1} \union {l}
  <2>1. 1 .. n = (1 .. n - 1) \union {n}
    OBVIOUS
  <2>. QED
    BY <2>1
<1>3. CASE l \in seen \union ToSet(new)
  BY <1>1, <1>2, <1>3 DEF Turn, FoundIn
<1>4. CASE l \notin seen \union ToSet(new)
  <2>. DEFINE more == Append(new, l)
  <2>1. /\ more \in Seq(Pages) /\ DOMAIN more = 1 .. Len(new) + 1 /\ Len(new) \in Nat
        /\ DOMAIN new = 1 .. Len(new)
        /\ \A m \in 1 .. Len(new) : more[m] = new[m]
        /\ more[Len(new) + 1] = l
    BY <1>1, AppendProperties, LenProperties
  <2>. HIDE DEF more, l
  <2>2. \A m \in DOMAIN new : new[m] # l
    BY <1>4 DEF ToSet
  <2>3. Injective(more)
    BY <1>1, <2>1, <2>2 DEF Injective
  <2>4. ToSet(more) = ToSet(new) \union {l}
    BY <2>1 DEF ToSet
  <2>5. Turn(new, l) = more
    BY <1>4 DEF Turn, more
  <2>. QED
    BY <1>1, <1>2, <1>4, <2>1, <2>3, <2>4, <2>5 DEF FoundIn, l
<1>. QED
  BY <1>3, <1>4

\* NewLinks finds the unseen links of a page, each once.
LEMMA NewLinksAre ==
  ASSUME NEW u \in Pages
  PROVE  /\ NewLinks(u) \in Seq(Pages) /\ Injective(NewLinks(u))
         /\ ToSet(NewLinks(u)) = ToSet(Links[u]) \ seen
PROOF
<1>. DEFINE ls == Links[u]
            it == CHOOSE i : TurnsRec(ls, i)
            open == {n \in 0 .. Len(ls) : ~FoundIn(ls, it[1 .. n], n)}
<1>0. ls \in Seq(Pages) /\ DOMAIN ls = 1 .. Len(ls) /\ Len(ls) \in Nat
  BY CrawlAssumption, LenProperties
<1>1. TurnsRec(ls, it)
  BY <1>0, TurnsExist
<1>2. NewLinks(u) = it[1 .. Len(ls)]
  BY <1>0, NewLinksDef
<1>. HIDE DEF it, ls
<1>3. \A s \in SUBSET DOMAIN ls : it[s] = TurnsOf(ls, it, s)
  BY <1>1 DEF TurnsRec
<1>4. open = {}
  <2>. SUFFICES ASSUME open # {} PROVE FALSE
    OBVIOUS
  <2>1. PICK n \in open : \A m \in open : ~(<<m, n>> \in OpToRel(<, Nat))
    <3>1. open \subseteq Nat
      BY <1>0
    <3>. HIDE DEF open
    <3>. QED
      BY <3>1, NatLessThanWellFounded, WFMin
  <2>2. n \in Nat /\ n <= Len(ls)
    BY <1>0
  <2>6. ASSUME NEW m \in 0 .. Len(ls), m < n PROVE FoundIn(ls, it[1 .. m], m)
    <3>1. <<m, n>> \in OpToRel(<, Nat)
      BY <1>0, <2>2, <2>6 DEF OpToRel
    <3>. QED
      BY <2>1, <3>1
  <2>3. 1 .. n \in SUBSET DOMAIN ls
    BY <1>0, <2>2
  <2>4. CASE n = 0
    <3>1. 1 .. n = {}
      BY <2>4
    <3>2. it[1 .. n] = <<>>
      BY <1>3, <2>3, <3>1 DEF TurnsOf
    <3>3. FoundIn(ls, <<>>, n)
      BY <3>1 DEF FoundIn, Injective, ToSet
    <3>. QED
      BY <2>1, <3>2, <3>3
  <2>5. CASE n # 0
    <3>1. n \in 1 .. Len(ls) /\ n \in Nat \ {0} /\ n - 1 \in 0 .. Len(ls) /\ n - 1 < n /\ 1 .. n # {}
      <4>1. n \in Nat \ {0} /\ n <= Len(ls) /\ Len(ls) \in Nat
        BY <1>0, <2>2, <2>5
      <4>2. 1 .. n # {}
        <5>1. n \in 1 .. n
          BY ONLY <4>1
        <5>. QED
          BY ONLY <5>1
      <4>3. n \in 1 .. Len(ls) /\ n - 1 \in 0 .. Len(ls) /\ n - 1 < n
        BY ONLY <4>1
      <4>. QED
        BY <4>1, <4>2, <4>3
    <3>2. FoundIn(ls, it[1 .. n - 1], n - 1)
      BY <2>6, <3>1
    <3>3. it[1 .. n] = Turn(it[1 .. n - 1], ls[n])
      BY <1>3, <2>3, <3>1, MaxOfFirst DEF TurnsOf
    <3>4. FoundIn(ls, it[1 .. n], n)
      <4>. HIDE DEF open
      <4>. QED
        BY <1>0, <3>1, <3>2, <3>3, TurnFinds
    <3>. QED
      BY <2>1, <3>4
  <2>. QED
    BY <2>4, <2>5
<1>5. FoundIn(ls, it[1 .. Len(ls)], Len(ls))
  BY <1>0, <1>4
<1>6. {ls[k] : k \in 1 .. Len(ls)} = ToSet(ls)
  BY <1>0 DEF ToSet
<1>. QED
  BY <1>2, <1>5, <1>6 DEF FoundIn, ls

-----------------------------------------------------------------------------
(* Sequences of task numbers *)

\* No task twice, though None may come again.
Once(s) == \A m, n \in DOMAIN s : s[m] = s[n] => m = n \/ s[m] = None

\* The positions of None.
NonesOf(q) == {n \in DOMAIN q : q[n] = None}

\* What a concatenation holds.
LEMMA ConcatSet ==
  ASSUME NEW S, NEW s \in Seq(S), NEW t \in Seq(S)
  PROVE  ToSet(s \o t) = ToSet(s) \union ToSet(t)
PROOF
<1>1. /\ s \o t \in Seq(S) /\ Len(s \o t) = Len(s) + Len(t)
      /\ Len(s) \in Nat /\ Len(t) \in Nat
      /\ DOMAIN s = 1 .. Len(s) /\ DOMAIN t = 1 .. Len(t) /\ DOMAIN (s \o t) = 1 .. Len(s \o t)
      /\ \A i \in 1 .. Len(s) + Len(t) : (s \o t)[i] = IF i <= Len(s) THEN s[i] ELSE t[i - Len(s)]
  BY ConcatProperties, LenProperties
<1>2. \A i \in DOMAIN (s \o t) : (s \o t)[i] \in ToSet(s) \union ToSet(t)
  <2>. SUFFICES ASSUME NEW i \in 1 .. Len(s) + Len(t) PROVE (s \o t)[i] \in ToSet(s) \union ToSet(t)
    BY <1>1
  <2>1. CASE i <= Len(s)
    <3>1. i \in DOMAIN s /\ (s \o t)[i] = s[i]
      BY <1>1, <2>1
    <3>. QED
      BY <3>1 DEF ToSet
  <2>2. CASE ~(i <= Len(s))
    <3>1. i - Len(s) \in DOMAIN t /\ (s \o t)[i] = t[i - Len(s)]
      BY <1>1, <2>2
    <3>. QED
      BY <3>1 DEF ToSet
  <2>. QED
    BY <2>1, <2>2
<1>3. \A i \in DOMAIN s : i \in DOMAIN (s \o t) /\ (s \o t)[i] = s[i]
  BY <1>1
<1>4. \A i \in DOMAIN t : i + Len(s) \in DOMAIN (s \o t) /\ (s \o t)[i + Len(s)] = t[i]
  <2>. SUFFICES ASSUME NEW i \in 1 .. Len(t)
                PROVE  i + Len(s) \in 1 .. Len(s) + Len(t) /\ (s \o t)[i + Len(s)] = t[i]
    BY <1>1
  <2>1. i + Len(s) \in 1 .. Len(s) + Len(t) /\ ~(i + Len(s) <= Len(s)) /\ i + Len(s) - Len(s) = i
    BY <1>1
  <2>. QED
    BY <1>1, <2>1
<1>5. ToSet(s) \subseteq ToSet(s \o t)
  BY <1>3 DEF ToSet
<1>6. ToSet(t) \subseteq ToSet(s \o t)
  BY <1>4 DEF ToSet
<1>7. ToSet(s \o t) \subseteq ToSet(s) \union ToSet(t)
  <2>. SUFFICES ASSUME NEW x \in ToSet(s \o t) PROVE x \in ToSet(s) \union ToSet(t)
    OBVIOUS
  <2>1. PICK i \in DOMAIN (s \o t) : x = (s \o t)[i]
    BY DEF ToSet
  <2>. QED
    BY <1>2, <2>1
<1>. QED
  BY <1>5, <1>6, <1>7

\* What one more element adds.
LEMMA SetAppended ==
  ASSUME NEW s \in Seq(Nat), NEW x \in Nat
  PROVE  ToSet(Append(s, x)) = ToSet(s) \union {x} /\ Len(Append(s, x)) = Len(s) + 1
PROOF
<1>1. <<x>> \in Seq(Nat) /\ ToSet(<<x>>) = {x}
  BY DEF ToSet
<1>2. Append(s, x) = s \o <<x>>
  BY AppendIsConcat
<1>3. ToSet(s \o <<x>>) = ToSet(s) \union ToSet(<<x>>)
  BY ONLY <1>1, s \in Seq(Nat), ConcatSet
<1>4. Len(Append(s, x)) = Len(s) + 1
  BY AppendProperties
<1>. QED
  BY <1>1, <1>2, <1>3, <1>4

\* What is once in each of two sequences and not in both is once in their
\* concatenation.
LEMMA OnceConcat ==
  ASSUME NEW s \in Seq(Nat), NEW t \in Seq(Nat), Once(s), Once(t),
         \A x \in ToSet(s) \intersect ToSet(t) : x = None
  PROVE  Once(s \o t)
PROOF
<1>1. /\ s \o t \in Seq(Nat) /\ Len(s \o t) = Len(s) + Len(t)
      /\ Len(s) \in Nat /\ Len(t) \in Nat
      /\ DOMAIN s = 1 .. Len(s) /\ DOMAIN t = 1 .. Len(t) /\ DOMAIN (s \o t) = 1 .. Len(s \o t)
      /\ \A i \in 1 .. Len(s) + Len(t) : (s \o t)[i] = IF i <= Len(s) THEN s[i] ELSE t[i - Len(s)]
  BY ConcatProperties, LenProperties
<1>. SUFFICES ASSUME NEW m \in 1 .. Len(s) + Len(t), NEW n \in 1 .. Len(s) + Len(t),
                     (s \o t)[m] = (s \o t)[n]
              PROVE  m = n \/ (s \o t)[m] = None
  BY <1>1 DEF Once
<1>2. CASE m <= Len(s) /\ n <= Len(s)
  BY <1>1, <1>2 DEF Once
<1>3. CASE ~(m <= Len(s)) /\ ~(n <= Len(s))
  <2>1. m - Len(s) \in DOMAIN t /\ n - Len(s) \in DOMAIN t
    BY <1>1, <1>3
  <2>2. (s \o t)[m] = t[m - Len(s)] /\ (s \o t)[n] = t[n - Len(s)]
    BY <1>1, <1>3
  <2>3. m - Len(s) = n - Len(s) \/ t[m - Len(s)] = None
    BY <2>1, <2>2 DEF Once
  <2>. QED
    BY <1>1, <2>2, <2>3
<1>4. CASE m <= Len(s) /\ ~(n <= Len(s))
  <2>1. m \in DOMAIN s /\ n - Len(s) \in DOMAIN t
    BY <1>1, <1>4
  <2>2. (s \o t)[m] = s[m] /\ (s \o t)[n] = t[n - Len(s)]
    BY <1>1, <1>4
  <2>. QED
    BY <2>1, <2>2 DEF ToSet
<1>5. CASE ~(m <= Len(s)) /\ n <= Len(s)
  <2>1. n \in DOMAIN s /\ m - Len(s) \in DOMAIN t
    BY <1>1, <1>5
  <2>2. (s \o t)[n] = s[n] /\ (s \o t)[m] = t[m - Len(s)]
    BY <1>1, <1>5
  <2>. QED
    BY <2>1, <2>2 DEF ToSet
<1>. QED
  BY <1>2, <1>3, <1>4, <1>5

\* The parts of a sequence in which everything is once.
LEMMA OnceParts ==
  ASSUME NEW s \in Seq(Nat), NEW t \in Seq(Nat), Once(s \o t)
  PROVE  Once(s) /\ Once(t) /\ \A x \in ToSet(s) \intersect ToSet(t) : x = None
PROOF
<1>1. /\ s \o t \in Seq(Nat) /\ Len(s \o t) = Len(s) + Len(t)
      /\ Len(s) \in Nat /\ Len(t) \in Nat
      /\ DOMAIN s = 1 .. Len(s) /\ DOMAIN t = 1 .. Len(t) /\ DOMAIN (s \o t) = 1 .. Len(s \o t)
      /\ \A i \in 1 .. Len(s) + Len(t) : (s \o t)[i] = IF i <= Len(s) THEN s[i] ELSE t[i - Len(s)]
  BY ConcatProperties, LenProperties
<1>2. \A i \in DOMAIN s : i \in DOMAIN (s \o t) /\ i <= Len(s) /\ (s \o t)[i] = s[i]
  BY <1>1
<1>3. \A i \in DOMAIN t : /\ i + Len(s) \in DOMAIN (s \o t) /\ ~(i + Len(s) <= Len(s))
                          /\ (s \o t)[i + Len(s)] = t[i]
  <2>. SUFFICES ASSUME NEW i \in 1 .. Len(t)
                PROVE  /\ i + Len(s) \in 1 .. Len(s) + Len(t) /\ ~(i + Len(s) <= Len(s))
                       /\ (s \o t)[i + Len(s)] = t[i]
    BY <1>1
  <2>1. i + Len(s) \in 1 .. Len(s) + Len(t) /\ ~(i + Len(s) <= Len(s)) /\ i + Len(s) - Len(s) = i
    BY <1>1
  <2>. QED
    BY <1>1, <2>1
<1>4. Once(s)
  BY <1>2 DEF Once
<1>5. Once(t)
  <2>. SUFFICES ASSUME NEW m \in DOMAIN t, NEW n \in DOMAIN t, t[m] = t[n] PROVE m = n \/ t[m] = None
    BY DEF Once
  <2>1. m + Len(s) = n + Len(s) \/ t[m] = None
    BY <1>3 DEF Once
  <2>. QED
    BY <1>1, <2>1
<1>6. ASSUME NEW x \in ToSet(s) \intersect ToSet(t) PROVE x = None
  <2>1. PICK m \in DOMAIN s, n \in DOMAIN t : s[m] = x /\ t[n] = x
    BY DEF ToSet
  <2>2. m = n + Len(s) \/ x = None
    BY <1>2, <1>3, <2>1 DEF Once
  <2>. QED
    BY <1>2, <1>3, <2>2
<1>. QED
  BY <1>4, <1>5, <1>6

\* The head of a queue and what is left of it.
LEMMA HeadAndTail ==
  ASSUME NEW S, NEW q \in Seq(S), q # <<>>
  PROVE  /\ Head(q) \in S /\ Tail(q) \in Seq(S) /\ <<Head(q)>> \in Seq(S)
         /\ q = <<Head(q)>> \o Tail(q)
         /\ ToSet(q) = {Head(q)} \union ToSet(Tail(q))
PROOF
<1>1. /\ Head(q) \in S /\ Tail(q) \in Seq(S) /\ Len(Tail(q)) = Len(q) - 1
      /\ \A i \in 1 .. Len(Tail(q)) : Tail(q)[i] = q[i + 1]
      /\ Len(q) \in Nat \ {0} /\ Head(q) = q[1]
  BY HeadTailProperties, EmptySeq
<1>2. <<Head(q)>> \in Seq(S) /\ Len(<<Head(q)>>) = 1 /\ <<Head(q)>>[1] = Head(q)
  BY <1>1
<1>. DEFINE s == <<Head(q)>> 
            t == Tail(q)
<1>3. q = s \o t
  <2>. HIDE DEF s, t
  <2>1. s \o t \in Seq(S) /\ Len(s \o t) = Len(q)
    BY <1>1, <1>2, ConcatProperties DEF s, t
  <2>2. ASSUME NEW i \in 1 .. Len(q) PROVE q[i] = (s \o t)[i]
    <3>1. Len(s) = 1 /\ Len(t) = Len(q) - 1 /\ s \in Seq(S) /\ t \in Seq(S)
      BY <1>1, <1>2 DEF s, t
    <3>2. i \in 1 .. Len(s) + Len(t)
      BY <1>1, <3>1
    <3>3. (s \o t)[i] = IF i <= 1 THEN s[i] ELSE t[i - 1]
      <4>1. \A j \in 1 .. Len(s) + Len(t) : (s \o t)[j] = IF j <= Len(s) THEN s[j] ELSE t[j - Len(s)]
        BY ONLY <3>1, ConcatProperties
      <4>. QED
        BY <3>1, <3>2, <4>1
    <3>4. CASE i <= 1
      <4>1. i = 1
        BY <3>4
      <4>. QED
        BY <1>1, <1>2, <3>3, <4>1 DEF s
    <3>5. CASE ~(i <= 1)
      <4>1. i - 1 \in 1 .. Len(t) /\ i - 1 + 1 = i
        BY <1>1, <3>1, <3>5
      <4>. QED
        BY <1>1, <3>3, <3>5, <4>1 DEF t
    <3>. QED
      BY <3>4, <3>5
  <2>. QED
    BY <2>1, <2>2, SeqEqual
<1>4. ToSet(s) = {Head(q)}
  BY <1>2 DEF ToSet
<1>5. ToSet(s \o t) = ToSet(s) \union ToSet(t)
  <2>1. s \in Seq(S) /\ t \in Seq(S)
    BY <1>1, <1>2
  <2>. HIDE DEF s, t
  <2>. QED
    BY <2>1, ConcatSet
<1>. QED
  BY <1>1, <1>2, <1>3, <1>4, <1>5

\* A queue has finitely many Nones.
LEMMA NonesFinite ==
  ASSUME NEW q \in Seq(Nat)
  PROVE  IsFiniteSet(NonesOf(q)) /\ Cardinality(NonesOf(q)) \in Nat
PROOF
<1>1. DOMAIN q = 1 .. Len(q) /\ Len(q) \in Nat
  BY LenProperties
<1>2. IsFiniteSet(1 .. Len(q)) /\ NonesOf(q) \in SUBSET (1 .. Len(q))
  BY <1>1, FS_Interval DEF NonesOf
<1>3. IsFiniteSet(NonesOf(q))
  BY <1>2, FS_Subset
<1>. QED
  BY <1>3, FS_CardinalityType

\* What is put in a queue counts as one None or as none.
LEMMA NonesAppended ==
  ASSUME NEW q \in Seq(Nat), NEW x \in Nat
  PROVE  Cardinality(NonesOf(Append(q, x))) = Cardinality(NonesOf(q)) + IF x = None THEN 1 ELSE 0
PROOF
<1>1. /\ DOMAIN q = 1 .. Len(q) /\ Len(q) \in Nat
      /\ DOMAIN Append(q, x) = 1 .. Len(q) + 1
      /\ \A i \in 1 .. Len(q) : Append(q, x)[i] = q[i]
      /\ Append(q, x)[Len(q) + 1] = x
  BY LenProperties, AppendProperties
<1>2. NonesOf(Append(q, x)) = NonesOf(q) \union (IF x = None THEN {Len(q) + 1} ELSE {})
  <2>1. 1 .. Len(q) + 1 = (1 .. Len(q)) \union {Len(q) + 1}
    BY <1>1
  <2>. QED
    BY <1>1, <2>1 DEF NonesOf
<1>3. Len(q) + 1 \notin NonesOf(q)
  BY <1>1 DEF NonesOf
<1>4. CASE x = None
  <2>1. Cardinality(NonesOf(q) \union {Len(q) + 1}) = Cardinality(NonesOf(q)) + 1
    BY <1>3, NonesFinite, FS_AddElement
  <2>. QED
    BY <1>2, <1>4, <2>1
<1>5. CASE x # None
  BY <1>2, <1>5, NonesFinite
<1>. QED
  BY <1>4, <1>5

\* What is taken from a queue no longer does.
LEMMA NonesTaken ==
  ASSUME NEW q \in Seq(Nat), q # <<>>
  PROVE  Cardinality(NonesOf(q)) = Cardinality(NonesOf(Tail(q))) + IF Head(q) = None THEN 1 ELSE 0
PROOF
<1>1. /\ DOMAIN q = 1 .. Len(q) /\ Len(q) \in Nat \ {0} /\ Head(q) = q[1]
      /\ Tail(q) \in Seq(Nat) /\ DOMAIN Tail(q) = 1 .. Len(q) - 1
      /\ \A i \in 1 .. Len(q) - 1 : Tail(q)[i] = q[i + 1]
  BY LenProperties, HeadTailProperties, EmptySeq
<1>. DEFINE later == NonesOf(q) \ {1}
            f == [n \in NonesOf(Tail(q)) |-> n + 1]
<1>2. f \in Bijection(NonesOf(Tail(q)), later)
  <2>1. \A n \in NonesOf(Tail(q)) : n \in 1 .. Len(q) - 1 /\ q[n + 1] = None
    BY <1>1 DEF NonesOf
  <2>2. \A n \in NonesOf(Tail(q)) : n + 1 \in later
    BY <1>1, <2>1 DEF NonesOf
  <2>3. ASSUME NEW k \in later PROVE k - 1 \in NonesOf(Tail(q)) /\ k - 1 + 1 = k
    <3>1. k \in 1 .. Len(q) /\ k # 1 /\ q[k] = None
      BY <1>1 DEF NonesOf
    <3>2. k - 1 \in 1 .. Len(q) - 1 /\ k - 1 + 1 = k
      BY <1>1, <3>1
    <3>3. Tail(q)[k - 1] = None
      BY <1>1, <3>1, <3>2
    <3>. QED
      BY <1>1, <3>2, <3>3 DEF NonesOf
  <2>4. f \in Injection(NonesOf(Tail(q)), later)
    <3>1. \A m, n \in NonesOf(Tail(q)) : m + 1 = n + 1 => m = n
      BY <2>1
    <3>2. f \in [NonesOf(Tail(q)) -> later]
      BY <2>2
    <3>. HIDE DEF later
    <3>. QED
      BY <3>1, <3>2 DEF Injection, IsInjective
  <2>5. f \in Surjection(NonesOf(Tail(q)), later)
    BY <2>2, <2>3 DEF Surjection
  <2>. QED
    BY <2>4, <2>5 DEF Bijection
<1>3. Cardinality(later) = Cardinality(NonesOf(Tail(q)))
  BY <1>1, <1>2, NonesFinite, FS_Bijection DEF ExistsBijection
<1>4. 1 \in NonesOf(q) <=> Head(q) = None
  BY <1>1 DEF NonesOf
<1>5. /\ Cardinality(NonesOf(q)) \in Nat /\ Cardinality(NonesOf(Tail(q))) \in Nat
      /\ Cardinality(later) = IF 1 \in NonesOf(q) THEN Cardinality(NonesOf(q)) - 1 ELSE Cardinality(NonesOf(q))
  BY <1>1, NonesFinite, FS_RemoveElement
<1>. HIDE DEF later
<1>. QED
  BY <1>3, <1>4, <1>5

\* Taking a None from the queue behind the pages yielded loses no task.
LEMMA OnceTaken ==
  ASSUME NEW y \in Seq(Nat), NEW q \in Seq(Nat), q # <<>>, Head(q) = None, Once(y \o q)
  PROVE  Once(y \o Tail(q)) /\ ToSet(y \o Tail(q)) \ {None} = ToSet(y \o q) \ {None}
PROOF
<1>1. /\ Tail(q) \in Seq(Nat) /\ <<None>> \in Seq(Nat) /\ q = <<None>> \o Tail(q)
      /\ ToSet(q) = {None} \union ToSet(Tail(q))
  BY HeadAndTail
<1>2. Once(y) /\ Once(q) /\ \A x \in ToSet(y) \intersect ToSet(q) : x = None
  BY OnceParts
<1>3. Once(Tail(q))
  BY <1>1, <1>2, OnceParts
<1>4. Once(y \o Tail(q))
  BY <1>1, <1>2, <1>3, OnceConcat
<1>5. ToSet(y \o q) = ToSet(y) \union ToSet(q)
  BY ConcatSet
<1>6. ToSet(y \o Tail(q)) = ToSet(y) \union ToSet(Tail(q))
  <2>1. Tail(q) \in Seq(Nat) /\ y \in Seq(Nat)
    BY <1>1
  <2>. QED
    BY ONLY <2>1, ConcatSet
<1>. QED
  BY <1>1, <1>4, <1>5, <1>6

\* Handing its head over moves nothing.
LEMMA HandedOver ==
  ASSUME NEW S, NEW y \in Seq(S), NEW q \in Seq(S), q # <<>>
  PROVE  Append(y, Head(q)) \o Tail(q) = y \o q
PROOF
<1>1. /\ Head(q) \in S /\ Tail(q) \in Seq(S) /\ <<Head(q)>> \in Seq(S)
      /\ q = <<Head(q)>> \o Tail(q)
  BY HeadAndTail
<1>2. Append(y, Head(q)) = y \o <<Head(q)>>
  BY <1>1, AppendIsConcat
<1>3. (y \o <<Head(q)>>) \o Tail(q) = y \o (<<Head(q)>> \o Tail(q))
  BY <1>1, ConcatAssociative
<1>. QED
  BY <1>1, <1>2, <1>3

-----------------------------------------------------------------------------
(* The invariant *)

\* A page is there only when the task has ended, one way or the other.
GotAtTheEnd == \A i \in DOMAIN tasks : tasks[i].got => tasks[i].st \in {"done", "dead"}

\* What was seen has a task or is on the frontier.
UrlsOf(s) == {s[n].url : n \in DOMAIN s}
SeenAre == seen = UrlsOf(tasks) \union UrlsOf(frontier)

\* Once draining has ended below max_pages, nothing is left to start and nothing
\* runs; and at the end nothing is left in the queue.
TailWaits ==
  /\ pc \in {"tail", "tail_yield", "done"} /\ pages_crawled < MaxPages => frontier = <<>> /\ active = 0
  /\ pc = "done" => active = 0 /\ result_queue = <<>>

CrawlInv == TypeOK /\ ActiveCount /\ ResultsConserved /\ GotAtTheEnd /\ SeenAre /\ TailWaits

\* Task i turns into r.
Turns(i, r) == i \in DOMAIN tasks /\ r \in Task /\ tasks' = [tasks EXCEPT ![i] = r]

\* What a turn of a task does to the sequence of the tasks.
LEMMA TurnsOne ==
  ASSUME TypeOK, NEW i, NEW r, Turns(i, r)
  PROVE  /\ tasks' \in Seq(Task) /\ DOMAIN tasks' = DOMAIN tasks
         /\ tasks'[i] = r /\ \A k \in DOMAIN tasks : k # i => tasks'[k] = tasks[k]
PROOF
<1>1. tasks \in Seq(Task) /\ DOMAIN tasks = 1 .. Len(tasks) /\ i \in 1 .. Len(tasks) /\ r \in Task
  BY LenProperties DEF TypeOK, Turns
<1>2. /\ tasks' \in Seq(Task) /\ Len(tasks') = Len(tasks)
      /\ \A j \in 1 .. Len(tasks) : tasks'[j] = IF j = i THEN r ELSE tasks[j]
  BY <1>1, ExceptSeq DEF Turns
<1>3. DOMAIN tasks' = 1 .. Len(tasks')
  BY <1>2, LenProperties
<1>. QED
  BY <1>1, <1>2, <1>3

\* The tasks that are in a state after a turn.
LEMMA TurnedStates ==
  ASSUME TypeOK, NEW i, NEW r, Turns(i, r), NEW s
  PROVE  InState(s)' = IF r.st = s THEN InState(s) \union {i} ELSE InState(s) \ {i}
PROOF
<1>1. /\ DOMAIN tasks' = DOMAIN tasks /\ i \in DOMAIN tasks
      /\ tasks'[i] = r /\ \A k \in DOMAIN tasks : k # i => tasks'[k] = tasks[k]
  BY TurnsOne DEF Turns
<1>. QED
  BY <1>1 DEF InState

\* A worker's step turns its own task, which has not ended before, and queues
\* what the new state calls for.
LEMMA WorkIs ==
  ASSUME TypeOK, GotAtTheEnd, NEW i \in DOMAIN tasks, Work(i)
  PROVE  \E r \in Task :
           /\ Turns(i, r) /\ r.url = tasks[i].url /\ tasks[i].st \in {"waiting", "fetching"}
           /\ ~tasks[i].got
           /\ \/ r.st = "fetching" /\ ~r.got /\ result_queue' = result_queue
              \/ r.st = "done" /\ r.got /\ result_queue' = result_queue \o <<i, None>>
              \/ r.st = "dead" /\ r.got /\ result_queue' = Append(result_queue, i)
              \/ r.st = "done" /\ ~r.got /\ result_queue' = Append(result_queue, None)
PROOF
<1>1. tasks \in Seq(Task) /\ DOMAIN tasks = 1 .. Len(tasks) /\ tasks[i] \in Task
  BY LenProperties, ElementOfSeq DEF TypeOK
<1>. DEFINE t == tasks[i]
<1>2. t \in Task /\ t.attempt \in Nat /\ t.got \in BOOLEAN
  BY <1>1 DEF Task
<1>3. t.st \in {"waiting", "fetching"} => ~t.got
  BY DEF GotAtTheEnd
<1>5. CASE Acquire(i)
  <2>. DEFINE r == [t EXCEPT !.st = "fetching", !.attempt = 1]
  <2>1. /\ tasks' = [tasks EXCEPT ![i].st = "fetching", ![i].attempt = 1] /\ t.st = "waiting"
        /\ result_queue' = result_queue
    BY <1>1, <1>5 DEF Acquire, InState
  <2>2. r \in Task /\ r.url = t.url /\ r.st = "fetching" /\ r.got = t.got
    BY <1>2, <2>1 DEF Task, TaskStates
  <2>3. tasks' = [tasks EXCEPT ![i] = r]
    BY <1>1, <2>1
  <2>. HIDE DEF r
  <2>. QED
    BY <1>1, <1>2, <1>3, <2>1, <2>2, <2>3 DEF Turns
<1>6. CASE FetchOk(i)
  <2>. DEFINE r == [t EXCEPT !.st = "done", !.got = TRUE]
  <2>1. /\ tasks' = [tasks EXCEPT ![i].st = "done", ![i].got = TRUE] /\ t.st = "fetching"
        /\ result_queue' = result_queue \o <<i, None>>
    BY <1>1, <1>6 DEF FetchOk, InState
  <2>2. r \in Task /\ r.url = t.url /\ r.st = "done" /\ r.got = TRUE
    BY <1>2, <2>1 DEF Task, TaskStates
  <2>3. tasks' = [tasks EXCEPT ![i] = r]
    BY <1>1, <2>1
  <2>. HIDE DEF r
  <2>. QED
    BY <1>1, <1>2, <1>3, <2>1, <2>2, <2>3 DEF Turns
<1>7. CASE LinkError(i)
  <2>. DEFINE r == [t EXCEPT !.st = "dead", !.got = TRUE]
  <2>1. /\ tasks' = [tasks EXCEPT ![i].st = "dead", ![i].got = TRUE] /\ t.st = "fetching"
        /\ result_queue' = Append(result_queue, i)
    BY <1>1, <1>7 DEF LinkError, InState
  <2>2. r \in Task /\ r.url = t.url /\ r.st = "dead" /\ r.got = TRUE
    BY <1>2, <2>1 DEF Task, TaskStates
  <2>3. tasks' = [tasks EXCEPT ![i] = r]
    BY <1>1, <2>1
  <2>. HIDE DEF r
  <2>. QED
    BY <1>1, <1>2, <1>3, <2>1, <2>2, <2>3 DEF Turns
<1>8. CASE NoResult(i)
  <2>. DEFINE r == [t EXCEPT !.st = "done"]
  <2>1. /\ tasks' = [tasks EXCEPT ![i].st = "done"] /\ t.st = "fetching"
        /\ result_queue' = Append(result_queue, None)
    BY <1>1, <1>8 DEF NoResult, InState
  <2>2. r \in Task /\ r.url = t.url /\ r.st = "done" /\ r.got = t.got
    BY <1>2, <2>1 DEF Task, TaskStates
  <2>3. tasks' = [tasks EXCEPT ![i] = r]
    BY <1>1, <2>1
  <2>. HIDE DEF r
  <2>. QED
    BY <1>1, <1>2, <1>3, <2>1, <2>2, <2>3 DEF Turns
<1>9. CASE Retry(i)
  <2>. DEFINE r == [t EXCEPT !.attempt = @ + 1]
  <2>1. /\ tasks' = [tasks EXCEPT ![i].attempt = @ + 1] /\ t.st = "fetching"
        /\ result_queue' = result_queue
    BY <1>1, <1>9 DEF Retry, InState
  <2>2. r \in Task /\ r.url = t.url /\ r.st = "fetching" /\ r.got = t.got
    BY <1>2, <2>1 DEF Task, TaskStates
  <2>3. tasks' = [tasks EXCEPT ![i] = r]
    BY <1>1, <2>1
  <2>. HIDE DEF r
  <2>. QED
    BY <1>1, <1>2, <1>3, <2>1, <2>2, <2>3 DEF Turns
<1>. QED
  BY <1>5, <1>6, <1>7, <1>8, <1>9 DEF Work

\* It leaves the driver alone and runs while that is suspended.
LEMMA WorkLeaves ==
  ASSUME NEW i, Work(i)
  PROVE  Suspended /\ UNCHANGED <<active, pages_crawled, pc, yielded>>
PROOF BY DEF Work, Acquire, FetchOk, LinkError, NoResult, Retry

\* It adds to the frontier the URLs that it adds to those seen.
LEMMA WorkFinds ==
  ASSUME TypeOK, NEW i \in DOMAIN tasks, Work(i)
  PROVE  \E new \in Seq(Pages), d \in Nat :
           /\ Injective(new) /\ ToSet(new) \intersect seen = {} /\ seen' = seen \union ToSet(new)
           /\ frontier' = frontier \o Entries(new, d)
PROOF
<1>0. frontier \in Seq(Entry) /\ tasks[i] \in Task
  BY LenProperties, ElementOfSeq DEF TypeOK
<1>1. CASE FetchOk(i) /\ tasks[i].depth < MaxDepth
  <2>. DEFINE u == tasks[i].url
              new == NewLinks(u)
  <2>1. /\ frontier' = frontier \o Entries(new, tasks[i].depth + 1)
        /\ seen' = seen \union ToSet(Links[u])
    BY <1>1 DEF FetchOk, Entries
  <2>2. u \in Pages /\ tasks[i].depth + 1 \in Nat
    BY <1>0 DEF Task
  <2>3. new \in Seq(Pages) /\ Injective(new) /\ ToSet(new) = ToSet(Links[u]) \ seen
    BY <2>2, NewLinksAre
  <2>. HIDE DEF new
  <2>. QED
    BY <2>1, <2>2, <2>3
<1>2. CASE UNCHANGED <<frontier, seen>>
  <2>. DEFINE new == <<>>
  <2>1. new \in Seq(Pages) /\ Injective(new) /\ ToSet(new) = {}
    BY DEF Injective, ToSet
  <2>2. Entries(new, 0) = <<>>
    BY DEF Entries
  <2>3. frontier' = frontier \o Entries(new, 0)
    BY <1>0, <1>2, <2>2, ConcatEmptySeq
  <2>. QED
    BY <1>2, <2>1, <2>3
<1>. QED
  BY <1>1, <1>2 DEF Work, Acquire, FetchOk, LinkError, NoResult, Retry

\* A sequence of URLs as entries of the frontier.
LEMMA EntriesOf ==
  ASSUME NEW new \in Seq(Pages), NEW d \in Nat
  PROVE  /\ Entries(new, d) \in Seq(Entry)
         /\ Len(Entries(new, d)) = Len(new)
PROOF
<1>1. DOMAIN new = 1 .. Len(new) /\ Len(new) \in Nat /\ \A n \in 1 .. Len(new) : new[n] \in Pages
  BY LenProperties, ElementOfSeq
<1>2. \A n \in 1 .. Len(new) : [url |-> new[n], depth |-> d] \in Entry
  BY <1>1 DEF Entry
<1>. QED
  BY <1>1, <1>2 DEF Entries

\* A pair is one element appended to another.
LEMMA PairIsAppend == ASSUME NEW i \in Nat PROVE Append(<<i>>, None) = <<i, None>>
PROOF
<1>. DEFINE s == <<i>>
            t == <<i, None>>
<1>1. s \in Seq(Nat) /\ Len(s) = 1 /\ s[1] = i
  OBVIOUS
<1>2. t \in Seq(Nat) /\ Len(t) = 2 /\ t[1] = i /\ t[2] = None /\ None \in Nat
  BY DEF None
<1>. HIDE DEF s, t
<1>3. /\ Append(s, None) \in Seq(Nat) /\ Len(Append(s, None)) = Len(s) + 1
      /\ \A n \in 1 .. Len(s) : Append(s, None)[n] = s[n]
      /\ Append(s, None)[Len(s) + 1] = None
  <2>1. s \in Seq(Nat) /\ None \in Nat
    BY <1>1, <1>2
  <2>. QED
    BY ONLY <2>1, AppendProperties
<1>4. Len(Append(s, None)) = 2 /\ Append(s, None)[1] = i /\ Append(s, None)[2] = None
  BY <1>1, <1>3
<1>5. ASSUME NEW n \in 1 .. Len(t) PROVE Append(s, None)[n] = t[n]
  <2>1. n = 1 \/ n = 2
    BY <1>2
  <2>. QED
    BY <1>2, <1>4, <2>1
<1>6. Append(s, None) = t
  BY <1>2, <1>3, <1>4, <1>5, SeqEqual
<1>. QED
  BY <1>6 DEF s, t

\* A result and its None come one after the other.
LEMMA TwoQueued ==
  ASSUME NEW q \in Seq(Nat), NEW i \in Nat
  PROVE  /\ Append(q, i) \in Seq(Nat) /\ Append(q, None) \in Seq(Nat)
         /\ q \o <<i, None>> = Append(Append(q, i), None)
         /\ q \o <<i, None>> \in Seq(Nat)
PROOF
<1>1. None \in Nat /\ <<i>> \in Seq(Nat) /\ <<None>> \in Seq(Nat)
  BY DEF None
<1>2. Append(q, i) \in Seq(Nat) /\ Append(q, i) = q \o <<i>> /\ Append(q, None) \in Seq(Nat)
  BY <1>1, AppendProperties, AppendIsConcat
<1>3. Append(Append(q, i), None) = (q \o <<i>>) \o <<None>>
  BY <1>1, <1>2, AppendIsConcat
<1>4. (q \o <<i>>) \o <<None>> = q \o (<<i>> \o <<None>>)
  BY <1>1, ConcatAssociative
<1>5. <<i>> \o <<None>> = <<i, None>>
  <2>1. Append(<<i>>, None) = <<i>> \o <<None>>
    BY ONLY <1>1, AppendIsConcat
  <2>2. Append(<<i>>, None) = <<i, None>>
    BY PairIsAppend
  <2>. QED
    BY ONLY <2>1, <2>2
<1>6. Append(Append(q, i), None) \in Seq(Nat)
  BY <1>1, <1>2, AppendProperties
<1>. QED
  BY <1>2, <1>3, <1>4, <1>5, <1>6

\* Workers keep the types.
LEMMA WorkTypes ==
  ASSUME TypeOK, GotAtTheEnd, NEW i \in DOMAIN tasks, Work(i)
  PROVE  TypeOK'
PROOF
<1>1. UNCHANGED <<active, pages_crawled, pc, yielded>>
  BY WorkLeaves
<1>2. tasks' \in Seq(Task)
  BY WorkIs, TurnsOne
<1>3. result_queue' \in Seq(Nat)
  <2>1. i \in Nat
    BY LenProperties DEF TypeOK
  <2>2. \/ result_queue' = result_queue \/ result_queue' = result_queue \o <<i, None>>
        \/ result_queue' = Append(result_queue, i) \/ result_queue' = Append(result_queue, None)
    BY WorkIs
  <2>3. result_queue \in Seq(Nat)
    BY DEF TypeOK
  <2>. QED
    BY <2>1, <2>2, <2>3, TwoQueued
<1>4. frontier' \in Seq(Entry) /\ seen' \subseteq Pages
  <2>1. PICK new \in Seq(Pages), d \in Nat :
          /\ seen' = seen \union ToSet(new)
          /\ frontier' = frontier \o Entries(new, d)
    BY WorkFinds
  <2>2. ToSet(new) \subseteq Pages
    BY LenProperties, ElementOfSeq DEF ToSet
  <2>3. Entries(new, d) \in Seq(Entry)
    BY EntriesOf
  <2>4. frontier \in Seq(Entry) /\ seen \subseteq Pages
    BY DEF TypeOK
  <2>5. frontier' \in Seq(Entry)
    BY <2>1, <2>3, <2>4, ConcatProperties
  <2>. QED
    BY <2>1, <2>2, <2>4, <2>5
<1>. QED
  BY <1>1, <1>2, <1>3, <1>4 DEF TypeOK

\* What the equation of ActiveCount counts is finite.
LEMMA CountsAreNumbers ==
  ASSUME TypeOK
  PROVE  /\ \A s : IsFiniteSet(InState(s)) /\ Cardinality(InState(s)) \in Nat
         /\ IsFiniteSet(Unfinished) /\ Cardinality(Unfinished) \in Nat
         /\ Nones = NonesOf(result_queue) /\ Cardinality(Nones) \in Nat /\ active \in Nat
PROOF
<1>1. DOMAIN tasks = 1 .. Len(tasks) /\ Len(tasks) \in Nat
  BY LenProperties DEF TypeOK
<1>2. IsFiniteSet(1 .. Len(tasks))
  BY <1>1, FS_Interval
<1>3. ASSUME NEW T \in SUBSET (1 .. Len(tasks)) PROVE IsFiniteSet(T) /\ Cardinality(T) \in Nat
  <2>1. IsFiniteSet(T)
    BY <1>2, FS_Subset
  <2>. QED
    BY <2>1, FS_CardinalityType
<1>4. \A s : InState(s) \in SUBSET (1 .. Len(tasks))
  BY <1>1 DEF InState
<1>5. Unfinished \in SUBSET (1 .. Len(tasks))
  BY <1>4 DEF Unfinished
<1>6. Nones = NonesOf(result_queue)
  BY DEF Nones, NonesOf
<1>7. result_queue \in Seq(Nat) /\ active \in Nat
  BY DEF TypeOK
<1>. QED
  BY <1>3, <1>4, <1>5, <1>6, <1>7, NonesFinite

\* A task that ends leaves the unfinished ones and is counted by its None or
\* among the dead.
LEMMA WorkCounts ==
  ASSUME TypeOK, TypeOK', GotAtTheEnd, ActiveCount, NEW i \in DOMAIN tasks, Work(i)
  PROVE  ActiveCount'
PROOF
<1>1. PICK r \in Task :
        /\ Turns(i, r) /\ tasks[i].st \in {"waiting", "fetching"}
        /\ \/ r.st = "fetching" /\ result_queue' = result_queue
           \/ r.st = "done" /\ result_queue' = result_queue \o <<i, None>>
           \/ r.st = "dead" /\ result_queue' = Append(result_queue, i)
           \/ r.st = "done" /\ result_queue' = Append(result_queue, None)
  BY WorkIs
<1>. DEFINE un == Cardinality(Unfinished)
            no == Cardinality(Nones)
            de == Cardinality(InState("dead"))
<1>2. /\ active' = active /\ active = un + no + de
      /\ un \in Nat /\ no \in Nat /\ de \in Nat
  BY WorkLeaves, CountsAreNumbers DEF ActiveCount
<1>3. InState("waiting")' = (IF r.st = "waiting" THEN InState("waiting") \union {i} ELSE InState("waiting") \ {i})
  BY <1>1, TurnedStates
<1>4. InState("fetching")' = (IF r.st = "fetching" THEN InState("fetching") \union {i} ELSE InState("fetching") \ {i})
  BY <1>1, TurnedStates
<1>5. InState("dead")' = (IF r.st = "dead" THEN InState("dead") \union {i} ELSE InState("dead") \ {i})
  BY <1>1, TurnedStates
<1>6. i \in Unfinished /\ i \notin InState("dead")
  BY <1>1 DEF InState, Unfinished
<1>7. /\ Cardinality(Unfinished \ {i}) = un - 1
      /\ Cardinality(InState("dead") \union {i}) = de + 1
  BY <1>6, CountsAreNumbers, FS_AddElement, FS_RemoveElement
<1>8. /\ i \in Nat /\ i # None /\ result_queue \in Seq(Nat) /\ None \in Nat
      /\ Nones = NonesOf(result_queue) /\ Nones' = NonesOf(result_queue')
  BY LenProperties DEF TypeOK, None, Nones, NonesOf
<1>9. CASE r.st = "fetching" /\ result_queue' = result_queue
  <2>1. Unfinished' = Unfinished /\ InState("dead")' = InState("dead")
    BY <1>3, <1>4, <1>5, <1>6, <1>9 DEF Unfinished
  <2>. QED
    BY <1>2, <1>8, <1>9, <2>1 DEF ActiveCount
<1>10. CASE r.st = "done" /\ (result_queue' = result_queue \o <<i, None>> \/ result_queue' = Append(result_queue, None))
  <2>1. Unfinished' = Unfinished \ {i} /\ InState("dead")' = InState("dead")
    BY <1>3, <1>4, <1>5, <1>6, <1>10 DEF Unfinished
  <2>2. Cardinality(NonesOf(Append(result_queue, None))) = no + 1
    BY <1>8, NonesAppended
  <2>3. Cardinality(NonesOf(result_queue \o <<i, None>>)) = no + 1
    <3>1. /\ result_queue \o <<i, None>> = Append(Append(result_queue, i), None)
          /\ Append(result_queue, i) \in Seq(Nat)
      BY <1>8, TwoQueued
    <3>2. Cardinality(NonesOf(Append(result_queue, i))) = no
      BY <1>2, <1>8, NonesAppended
    <3>3. Cardinality(NonesOf(Append(Append(result_queue, i), None))) = no + 1
      BY <1>8, <3>1, <3>2, NonesAppended
    <3>. QED
      BY <3>1, <3>3
  <2>4. Cardinality(Nones') = no + 1
    BY <1>8, <1>10, <2>2, <2>3
  <2>5. /\ Cardinality(Unfinished)' = un - 1 /\ Cardinality(InState("dead"))' = de
        /\ Cardinality(Nones)' = no + 1
    BY <1>7, <2>1, <2>4
  <2>. QED
    BY <1>2, <2>5 DEF ActiveCount
<1>11. CASE r.st = "dead" /\ result_queue' = Append(result_queue, i)
  <2>1. Unfinished' = Unfinished \ {i} /\ InState("dead")' = InState("dead") \union {i}
    BY <1>3, <1>4, <1>5, <1>6, <1>11 DEF Unfinished
  <2>2. Cardinality(NonesOf(Append(result_queue, i))) = no
    BY <1>2, <1>8, NonesAppended
  <2>3. /\ Cardinality(Unfinished)' = un - 1 /\ Cardinality(InState("dead"))' = de + 1
        /\ Cardinality(Nones)' = no
    BY <1>7, <1>8, <1>11, <2>1, <2>2
  <2>. QED
    BY <1>2, <2>3 DEF ActiveCount
<1>. QED
  BY <1>1, <1>9, <1>10, <1>11

\* ResultsConserved in the terms of the lemmas above.
LEMMA ConservedIs ==
  ResultsConserved <=>
    /\ ToSet(yielded \o result_queue) \ {None} = {i \in DOMAIN tasks : tasks[i].got}
    /\ Once(yielded \o result_queue)
    /\ None \notin ToSet(yielded) /\ pages_crawled = Len(yielded)
PROOF BY DEF ResultsConserved, Delivered, Once

\* A worker delivers its own page, and it has not delivered it before.
LEMMA WorkDelivers ==
  ASSUME TypeOK, GotAtTheEnd, ResultsConserved, NEW i \in DOMAIN tasks, Work(i)
  PROVE  ResultsConserved'
PROOF
<1>. DEFINE D == yielded \o result_queue
<1>1. PICK r \in Task :
        /\ Turns(i, r) /\ ~tasks[i].got
        /\ \/ ~r.got /\ result_queue' = result_queue
           \/ r.got /\ result_queue' = result_queue \o <<i, None>>
           \/ r.got /\ result_queue' = Append(result_queue, i)
           \/ ~r.got /\ result_queue' = Append(result_queue, None)
  BY WorkIs
<1>2. /\ yielded \in Seq(Nat) /\ result_queue \in Seq(Nat) /\ i \in Nat /\ i # None /\ None \in Nat
      /\ pages_crawled' = pages_crawled /\ yielded' = yielded
  BY WorkLeaves, LenProperties DEF TypeOK, None
<1>3. /\ ToSet(D) \ {None} = {k \in DOMAIN tasks : tasks[k].got} /\ Once(D)
      /\ None \notin ToSet(yielded) /\ pages_crawled = Len(yielded)
  BY ConservedIs
<1>4. D \in Seq(Nat)
  BY <1>2, ConcatProperties
<1>5. i \notin ToSet(D)
  BY <1>1, <1>2, <1>3
<1>. HIDE DEF D
<1>6. ASSUME NEW e \in Seq(Nat), Once(e), ToSet(e) \subseteq {i, None}, i \in ToSet(e) <=> r.got,
             result_queue' = result_queue \o e
      PROVE  ResultsConserved'
  <2>1. yielded \o result_queue' = D \o e
    <3>1. (yielded \o result_queue) \o e = yielded \o (result_queue \o e)
      BY <1>2, ConcatAssociative
    <3>. QED
      BY <1>6, <3>1 DEF D
  <2>2. ToSet(D \o e) = ToSet(D) \union ToSet(e)
    BY <1>4, <1>6, ConcatSet
  <2>3. Once(D \o e)
    BY <1>3, <1>4, <1>5, <1>6, OnceConcat
  <2>4. {k \in DOMAIN tasks' : tasks'[k].got}
          = IF r.got THEN {k \in DOMAIN tasks : tasks[k].got} \union {i} ELSE {k \in DOMAIN tasks : tasks[k].got}
    <3>1. /\ DOMAIN tasks' = DOMAIN tasks /\ tasks'[i] = r
          /\ \A k \in DOMAIN tasks : k # i => tasks'[k] = tasks[k]
      BY <1>1, TurnsOne
    <3>2. r.got \in BOOLEAN
      BY DEF Task
    <3>. QED
      BY <1>1, <3>1, <3>2
  <2>5. ToSet(D \o e) \ {None} = {k \in DOMAIN tasks' : tasks'[k].got}
    BY <1>2, <1>3, <1>6, <2>2, <2>4
  <2>6. (yielded \o result_queue)' = D \o e
    BY <1>2, <2>1
  <2>. QED
    BY <1>2, <1>3, <2>3, <2>5, <2>6 DEF ResultsConserved, Delivered, Once
<1>7. CASE ~r.got /\ result_queue' = result_queue
  <2>1. <<>> \in Seq(Nat) /\ Once(<<>>) /\ ToSet(<<>>) = {}
    BY DEF Once, ToSet
  <2>2. result_queue' = result_queue \o <<>>
    BY <1>2, <1>7, ConcatEmptySeq
  <2>. QED
    BY <1>6, <1>7, <2>1, <2>2
<1>8. CASE r.got /\ result_queue' = result_queue \o <<i, None>>
  <2>1. <<i, None>> \in Seq(Nat) /\ Once(<<i, None>>) /\ ToSet(<<i, None>>) = {i, None}
    <3>. DEFINE e == <<i, None>>
    <3>1. e \in Seq(Nat) /\ DOMAIN e = {1, 2} /\ e[1] = i /\ e[2] = None
      BY <1>2
    <3>. HIDE DEF e
    <3>2. Once(e) /\ ToSet(e) = {i, None}
      BY <3>1, <1>2 DEF Once, ToSet
    <3>. QED
      BY <3>1, <3>2 DEF e
  <2>. QED
    BY <1>6, <1>8, <2>1
<1>9. CASE r.got /\ result_queue' = Append(result_queue, i)
  <2>1. <<i>> \in Seq(Nat) /\ Once(<<i>>) /\ ToSet(<<i>>) = {i}
    BY <1>2 DEF Once, ToSet
  <2>2. result_queue' = result_queue \o <<i>>
    BY <1>2, <1>9, AppendIsConcat
  <2>. QED
    BY <1>6, <1>9, <2>1, <2>2
<1>10. CASE ~r.got /\ result_queue' = Append(result_queue, None)
  <2>1. <<None>> \in Seq(Nat) /\ Once(<<None>>) /\ ToSet(<<None>>) = {None}
    BY <1>2 DEF Once, ToSet
  <2>2. result_queue' = result_queue \o <<None>>
    BY <1>2, <1>10, AppendIsConcat
  <2>. QED
    BY <1>2, <1>6, <1>10, <2>1, <2>2
<1>. QED
  BY <1>1, <1>7, <1>8, <1>9, <1>10

\* The URLs of a sequence of tasks or entries, without their places.
LEMMA UrlsAre == ASSUME NEW s PROVE UrlsOf(s) = {x.url : x \in ToSet(s)}
PROOF BY DEF UrlsOf, ToSet

\* The URLs of the entries made of new links.
LEMMA FrontierGrows ==
  ASSUME NEW f \in Seq(Entry), NEW new \in Seq(Pages), NEW d \in Nat,
         NEW g, g = f \o Entries(new, d)
  PROVE  UrlsOf(g) = UrlsOf(f) \union ToSet(new)
PROOF
<1>. DEFINE e == Entries(new, d)
<1>1. /\ e \in Seq(Entry) /\ DOMAIN e = DOMAIN new
      /\ \A n \in DOMAIN new : e[n].url = new[n]
  BY EntriesOf DEF Entries
<1>. HIDE DEF e
<1>2. ToSet(g) = ToSet(f) \union ToSet(e)
  <2>1. g = f \o e
    BY DEF e
  <2>. QED
    BY <1>1, <2>1, ConcatSet
<1>3. {x.url : x \in ToSet(g)} = {x.url : x \in ToSet(f)} \union {x.url : x \in ToSet(e)}
  BY <1>2
<1>4. {x.url : x \in ToSet(e)} = ToSet(new)
  BY <1>1 DEF ToSet
<1>5. {x.url : x \in ToSet(g)} = UrlsOf(g)
  BY UrlsAre
<1>6. {x.url : x \in ToSet(f)} = UrlsOf(f)
  BY UrlsAre
<1>. QED
  BY <1>3, <1>4, <1>5, <1>6

\* Workers keep the rest of the invariant.
LEMMA WorkKeeps ==
  ASSUME CrawlInv, NEW i \in DOMAIN tasks, Work(i)
  PROVE  GotAtTheEnd' /\ SeenAre' /\ TailWaits'
PROOF
<1>0. TypeOK /\ GotAtTheEnd /\ SeenAre /\ ActiveCount /\ TailWaits
  BY DEF CrawlInv
<1>1. PICK r \in Task :
        /\ Turns(i, r) /\ r.url = tasks[i].url /\ tasks[i].st \in {"waiting", "fetching"}
        /\ r.got => r.st \in {"done", "dead"}
  BY <1>0, WorkIs
<1>2. /\ DOMAIN tasks' = DOMAIN tasks /\ tasks'[i] = r
      /\ \A k \in DOMAIN tasks : k # i => tasks'[k] = tasks[k]
  BY <1>0, <1>1, TurnsOne
<1>3. GotAtTheEnd'
  BY <1>0, <1>1, <1>2 DEF GotAtTheEnd
<1>4. SeenAre'
  <2>1. UrlsOf(tasks') = UrlsOf(tasks)
    BY <1>1, <1>2 DEF UrlsOf
  <2>2. PICK new \in Seq(Pages), d \in Nat :
          /\ seen' = seen \union ToSet(new)
          /\ frontier' = frontier \o Entries(new, d)
    BY <1>0, WorkFinds
  <2>3. frontier \in Seq(Entry)
    BY <1>0 DEF TypeOK
  <2>4. UrlsOf(frontier') = UrlsOf(frontier) \union ToSet(new)
    BY <2>2, <2>3, FrontierGrows
  <2>5. seen = UrlsOf(tasks) \union UrlsOf(frontier)
    BY <1>0 DEF SeenAre
  <2>6. seen' = UrlsOf(tasks') \union UrlsOf(frontier')
    BY <2>1, <2>2, <2>4, <2>5
  <2>. QED
    BY <2>6 DEF SeenAre
<1>5. active # 0
  <2>1. i \in Unfinished
    BY <1>1 DEF Unfinished, InState
  <2>2. Cardinality(Unfinished) # 0
    BY <1>0, <2>1, CountsAreNumbers, FS_EmptySet
  <2>3. Cardinality(Unfinished) \in Nat /\ Cardinality(Nones) \in Nat /\ Cardinality(InState("dead")) \in Nat
    BY <1>0, CountsAreNumbers
  <2>. QED
    BY <1>0, <2>2, <2>3 DEF ActiveCount
<1>6. TailWaits'
  BY <1>0, <1>5, WorkLeaves DEF TailWaits
<1>. QED
  BY <1>3, <1>4, <1>6

\* Starting a task keeps the invariant.
LEMMA PopKeeps == ASSUME CrawlInv, Pop PROVE CrawlInv'
PROOF
<1>. DEFINE e == Head(frontier)
            t == [url |-> e.url, depth |-> e.depth, st |-> "waiting", attempt |-> 0, got |-> FALSE]
            n == Len(tasks) + 1
<1>0. TypeOK /\ ActiveCount /\ ResultsConserved /\ GotAtTheEnd /\ SeenAre
  BY DEF CrawlInv
<1>1. /\ frontier # <<>> /\ frontier' = Tail(frontier) /\ tasks' = Append(tasks, t)
      /\ active' = active + 1 /\ pc' = "collect"
      /\ UNCHANGED <<seen, result_queue, pages_crawled, yielded>>
  BY DEF Pop, StartTask
<1>2. frontier \in Seq(Entry) /\ tasks \in Seq(Task) /\ active \in Nat
  BY <1>0 DEF TypeOK
<1>3. e \in Entry /\ Tail(frontier) \in Seq(Entry) /\ ToSet(frontier) = {e} \union ToSet(Tail(frontier))
  BY <1>1, <1>2, HeadAndTail
<1>4. t \in Task /\ t.url = e.url /\ t.st = "waiting" /\ t.got = FALSE
  BY <1>3 DEF Entry, Task, TaskStates
<1>. HIDE DEF t, e
<1>5. /\ tasks' \in Seq(Task) /\ DOMAIN tasks = 1 .. Len(tasks) /\ DOMAIN tasks' = 1 .. n
      /\ Len(tasks) \in Nat /\ tasks'[n] = t
      /\ \A k \in 1 .. Len(tasks) : tasks'[k] = tasks[k]
  BY <1>1, <1>2, <1>4, AppendProperties, LenProperties
<1>6. DOMAIN tasks' = DOMAIN tasks \union {n} /\ n \notin DOMAIN tasks /\ n \in DOMAIN tasks'
      /\ \A k \in DOMAIN tasks : tasks'[k] = tasks[k]
  <2>1. 1 .. n = (1 .. Len(tasks)) \union {n} /\ n \notin 1 .. Len(tasks)
    BY <1>5
  <2>. QED
    BY <1>5, <2>1
<1>. HIDE DEF n
<1>7. TypeOK'
  BY <1>0, <1>1, <1>2, <1>3, <1>5 DEF TypeOK
<1>8. ActiveCount'
  <2>1. /\ InState("waiting")' = InState("waiting") \union {n}
        /\ InState("fetching")' = InState("fetching") /\ InState("dead")' = InState("dead")
    BY <1>4, <1>5, <1>6 DEF InState
  <2>2. Unfinished' = Unfinished \union {n} /\ n \notin Unfinished /\ Nones' = Nones
    BY <1>1, <1>6, <2>1 DEF Unfinished, InState, Nones
  <2>3. Cardinality(Unfinished \union {n}) = Cardinality(Unfinished) + 1
    BY <1>0, <2>2, CountsAreNumbers, FS_AddElement
  <2>4. /\ Cardinality(Unfinished)' = Cardinality(Unfinished) + 1 /\ Cardinality(Nones)' = Cardinality(Nones)
        /\ Cardinality(InState("dead"))' = Cardinality(InState("dead"))
    BY <2>1, <2>2, <2>3
  <2>5. Cardinality(Unfinished) \in Nat /\ Cardinality(Nones) \in Nat /\ Cardinality(InState("dead")) \in Nat
    BY <1>0, CountsAreNumbers
  <2>. QED
    BY <1>0, <1>1, <2>4, <2>5 DEF ActiveCount
<1>9. ResultsConserved'
  <2>1. {k \in DOMAIN tasks' : tasks'[k].got} = {k \in DOMAIN tasks : tasks[k].got}
    BY <1>4, <1>5, <1>6
  <2>2. Delivered' = Delivered
    BY <1>1 DEF Delivered
  <2>. QED
    BY <1>0, <1>1, <2>1, <2>2 DEF ResultsConserved
<1>10. GotAtTheEnd'
  BY <1>0, <1>4, <1>5, <1>6 DEF GotAtTheEnd
<1>11. SeenAre'
  <2>1. UrlsOf(tasks') = UrlsOf(tasks) \union {e.url}
    BY <1>4, <1>5, <1>6 DEF UrlsOf
  <2>2. UrlsOf(frontier) = {e.url} \union UrlsOf(Tail(frontier))
    <3>1. {x.url : x \in ToSet(frontier)} = {e.url} \union {x.url : x \in ToSet(Tail(frontier))}
      BY <1>3
    <3>. QED
      BY <3>1, UrlsAre
  <2>. QED
    BY <1>0, <1>1, <2>1, <2>2 DEF SeenAre
<1>12. TailWaits'
  BY <1>1 DEF TailWaits
<1>. QED
  BY <1>7, <1>8, <1>9, <1>10, <1>11, <1>12 DEF CrawlInv

\* A None in the queue is a task that is counted.
LEMMA NoneIsCounted ==
  ASSUME TypeOK, ActiveCount, result_queue # <<>>, Head(result_queue) = None
  PROVE  active - 1 \in Nat /\ active # 0
PROOF
<1>1. result_queue \in Seq(Nat)
  BY DEF TypeOK
<1>2. Cardinality(NonesOf(result_queue)) = Cardinality(NonesOf(Tail(result_queue))) + 1
  BY <1>1, NonesTaken
<1>3. Cardinality(NonesOf(Tail(result_queue))) \in Nat
  BY <1>1, HeadTailProperties, NonesFinite
<1>4. /\ active = Cardinality(Unfinished) + Cardinality(Nones) + Cardinality(InState("dead"))
      /\ Cardinality(Unfinished) \in Nat /\ Cardinality(InState("dead")) \in Nat
      /\ Nones = NonesOf(result_queue)
  BY CountsAreNumbers DEF ActiveCount
<1>. QED
  BY <1>2, <1>3, <1>4

\* Taking an item from the queue keeps the invariant, in either loop.
LEMMA TakeKeeps == ASSUME CrawlInv, Collect \/ TailTake PROVE CrawlInv'
PROOF
<1>. DEFINE q == result_queue
<1>0. TypeOK /\ ActiveCount /\ ResultsConserved /\ GotAtTheEnd /\ SeenAre /\ TailWaits
  BY DEF CrawlInv
<1>1. /\ q # <<>> /\ q' = Tail(q) /\ UNCHANGED <<frontier, seen, tasks>>
      /\ \/ /\ Head(q) = None /\ active' = active - 1 /\ UNCHANGED <<pages_crawled, pc, yielded>>
         \/ /\ Head(q) # None /\ pages_crawled' = pages_crawled + 1 /\ active' = active
            /\ yielded' = Append(yielded, Head(q))
            /\ (pc = "collect" /\ pc' = "yield") \/ (pc = "tail" /\ pc' = "tail_yield")
      /\ pc \in {"collect", "tail"}
  <2>1. CASE Collect
    BY <2>1 DEF Collect, TakeResult
  <2>2. CASE TailTake
    BY <2>2 DEF TailTake, TakeResult
  <2>. QED
    BY <2>1, <2>2
<1>2. q \in Seq(Nat) /\ yielded \in Seq(Nat) /\ active \in Nat /\ pages_crawled \in Nat
  BY <1>0 DEF TypeOK
<1>3. Head(q) \in Nat /\ Tail(q) \in Seq(Nat)
  BY <1>1, <1>2, HeadTailProperties
<1>4. Head(q) = None => active - 1 \in Nat /\ active # 0
  BY <1>0, <1>1, NoneIsCounted
<1>5. TypeOK'
  <2>1. Append(yielded, Head(q)) \in Seq(Nat)
    BY <1>2, <1>3, AppendProperties
  <2>2. result_queue' \in Seq(Nat) /\ active' \in Nat /\ pages_crawled' \in Nat /\ yielded' \in Seq(Nat)
    <3>1. result_queue' \in Seq(Nat)
      BY <1>1, <1>3
    <3>2. CASE Head(q) = None
      <4>1. active' = active - 1 /\ pages_crawled' = pages_crawled /\ yielded' = yielded
        BY <1>1, <3>2
      <4>. QED
        BY <1>2, <1>4, <3>1, <3>2, <4>1
    <3>3. CASE Head(q) # None
      <4>1. active' = active /\ pages_crawled' = pages_crawled + 1 /\ yielded' = Append(yielded, Head(q))
        BY <1>1, <3>3
      <4>2. pages_crawled + 1 \in Nat
        BY <1>2
      <4>. QED
        BY <1>2, <2>1, <3>1, <4>1, <4>2
    <3>. QED
      BY <3>2, <3>3
  <2>3. pc' \in {"collect", "tail", "yield", "tail_yield"}
    BY <1>1
  <2>. QED
    BY <1>0, <1>1, <2>2, <2>3 DEF TypeOK
<1>6. ActiveCount'
  <2>1. Cardinality(NonesOf(q)) = Cardinality(NonesOf(Tail(q))) + IF Head(q) = None THEN 1 ELSE 0
    BY <1>1, <1>2, NonesTaken
  <2>2. Cardinality(NonesOf(Tail(q))) \in Nat
    BY <1>3, NonesFinite
  <2>3. Nones = NonesOf(q) /\ Nones' = NonesOf(Tail(q))
    BY <1>1 DEF Nones, NonesOf
  <2>4. Cardinality(Unfinished) \in Nat /\ Cardinality(InState("dead")) \in Nat
    BY <1>0, CountsAreNumbers
  <2>5. Cardinality(Unfinished)' = Cardinality(Unfinished) /\ Cardinality(InState("dead"))' = Cardinality(InState("dead"))
    BY <1>1 DEF Unfinished, InState
  <2>6. active = Cardinality(Unfinished) + Cardinality(NonesOf(q)) + Cardinality(InState("dead"))
    BY <1>0, <2>3 DEF ActiveCount
  <2>7. active' = Cardinality(Unfinished) + Cardinality(NonesOf(Tail(q))) + Cardinality(InState("dead"))
    BY <1>1, <2>1, <2>2, <2>4, <2>6
  <2>. QED
    BY <2>3, <2>5, <2>7 DEF ActiveCount
<1>7. ResultsConserved'
  <2>1. /\ ToSet(yielded \o q) \ {None} = {i \in DOMAIN tasks : tasks[i].got} /\ Once(yielded \o q)
        /\ None \notin ToSet(yielded) /\ pages_crawled = Len(yielded)
    BY <1>0, ConservedIs
  <2>2. CASE Head(q) = None
    <3>1. Once(yielded \o Tail(q)) /\ ToSet(yielded \o Tail(q)) \ {None} = ToSet(yielded \o q) \ {None}
      BY <1>1, <1>2, <2>1, <2>2, OnceTaken
    <3>2. (yielded \o q)' = yielded \o Tail(q) /\ yielded' = yielded /\ pages_crawled' = pages_crawled /\ tasks' = tasks
      BY <1>1, <2>2
    <3>. QED
      BY <2>1, <3>1, <3>2 DEF ResultsConserved, Delivered, Once
  <2>3. CASE Head(q) # None
    <3>1. Append(yielded, Head(q)) \o Tail(q) = yielded \o q
      BY <1>1, <1>2, HandedOver
    <3>2. (yielded \o q)' = yielded \o q /\ tasks' = tasks
      BY <1>1, <2>3, <3>1
    <3>3. Len(yielded') = Len(yielded) + 1 /\ ToSet(yielded') = ToSet(yielded) \union {Head(q)}
      <4>1. yielded' = Append(yielded, Head(q))
        BY <1>1, <2>3
      <4>. QED
        BY <1>2, <1>3, <4>1, SetAppended
    <3>4. pages_crawled' = pages_crawled + 1
      BY <1>1, <2>3
    <3>. QED
      BY <2>1, <2>3, <3>2, <3>3, <3>4 DEF ResultsConserved, Delivered, Once
  <2>. QED
    BY <2>2, <2>3
<1>8. GotAtTheEnd' /\ SeenAre'
  BY <1>0, <1>1 DEF GotAtTheEnd, SeenAre
<1>9. TailWaits'
  <2>1. pages_crawled' >= pages_crawled /\ pages_crawled' \in Nat /\ MaxPages \in Nat
    BY <1>1, <1>2, CrawlAssumption
  <2>2. pc' # "done" /\ (pc' = "tail" \/ pc' = "tail_yield" => pc = "tail")
    BY <1>1
  <2>3. pages_crawled' < MaxPages => pages_crawled < MaxPages
    BY <1>2, <2>1
  <2>. QED
    BY <1>0, <1>1, <1>4, <2>2, <2>3 DEF TailWaits
<1>. QED
  BY <1>5, <1>6, <1>7, <1>8, <1>9 DEF CrawlInv

\* Steps that only move the driver.
LEMMA MovesKeep ==
  ASSUME CrawlInv, \/ EndCollect \/ Resume \/ Sleep \/ Wake \/ EndDrain \/ TailResume \/ Finish
                   \/ UNCHANGED vars
  PROVE  CrawlInv'
PROOF
<1>0. TypeOK /\ ActiveCount /\ ResultsConserved /\ GotAtTheEnd /\ SeenAre /\ TailWaits
  BY DEF CrawlInv
<1>1. UNCHANGED <<worker, active, pages_crawled, yielded>>
  BY DEF EndCollect, Resume, Sleep, Wake, EndDrain, TailResume, Finish, Goto, vars, worker
<1>2. UNCHANGED <<frontier, seen, tasks, result_queue, active, pages_crawled, yielded>>
  BY <1>1 DEF worker
<1>3. pc' \in {"drain", "collect", "yield", "sleep", "tail", "tail_yield", "done"}
  BY <1>0 DEF EndCollect, Resume, Sleep, Wake, EndDrain, TailResume, Finish, Goto, vars, TypeOK
<1>4. TypeOK'
  BY <1>0, <1>2, <1>3 DEF TypeOK
<1>5. ActiveCount' /\ ResultsConserved' /\ GotAtTheEnd' /\ SeenAre'
  BY <1>0, <1>2 DEF ActiveCount, ResultsConserved, GotAtTheEnd, SeenAre, Delivered, Unfinished, InState, Nones
<1>6. TailWaits'
  <2>1. active \in Nat /\ pages_crawled \in Nat /\ MaxPages \in Nat
    BY <1>0, CrawlAssumption DEF TypeOK
  <2>. QED
    BY <1>0, <1>2, <2>1
    DEF TailWaits, EndCollect, Resume, Sleep, Wake, EndDrain, TailResume, Finish, Goto, vars
<1>. QED
  BY <1>4, <1>5, <1>6 DEF CrawlInv

\* The crawl starts in the invariant.
LEMMA CrawlStart == Init => CrawlInv
PROOF
<1>. SUFFICES ASSUME Init PROVE CrawlInv
  OBVIOUS
<1>0. /\ tasks = <<>> /\ result_queue = <<>> /\ yielded = <<>> /\ active = 0 /\ pages_crawled = 0
      /\ pc = "drain" /\ seen = ToSet(Seeds)
      /\ frontier = [i \in DOMAIN Seeds |-> [url |-> Seeds[i], depth |-> 0]]
  BY DEF Init
<1>1. Seeds \in Seq(Pages)
  BY CrawlAssumption
<1>2. frontier \in Seq(Entry)
  BY <1>0, <1>1, EntriesOf DEF Entries
<1>3. DOMAIN frontier = DOMAIN Seeds /\ \A n \in DOMAIN Seeds : frontier[n].url = Seeds[n]
  BY <1>0
<1>4. seen \subseteq Pages
  BY <1>0, <1>1, LenProperties, ElementOfSeq DEF ToSet
<1>5. TypeOK
  BY <1>0, <1>2, <1>4 DEF TypeOK
<1>6. ActiveCount
  <2>1. Unfinished = {} /\ Nones = {} /\ InState("dead") = {}
    BY <1>0 DEF Unfinished, Nones, InState
  <2>. QED
    BY <1>0, <2>1, FS_EmptySet DEF ActiveCount
<1>7. ResultsConserved
  <2>1. yielded \o result_queue = <<>>
    BY <1>0, ConcatEmptySeq
  <2>2. DOMAIN <<>> = {} /\ Len(<<>>) = 0
    OBVIOUS
  <2>. QED
    BY <1>0, <2>1, <2>2 DEF ResultsConserved, Delivered, ToSet
<1>8. GotAtTheEnd /\ TailWaits
  BY <1>0 DEF GotAtTheEnd, TailWaits
<1>9. SeenAre
  <2>1. UrlsOf(tasks) = {}
    BY <1>0 DEF UrlsOf
  <2>2. UrlsOf(frontier) = ToSet(Seeds)
    BY <1>3 DEF UrlsOf, ToSet
  <2>. QED
    BY <1>0, <2>1, <2>2 DEF SeenAre
<1>. QED
  BY <1>5, <1>6, <1>7, <1>8, <1>9 DEF CrawlInv

\* Every step keeps it.
LEMMA CrawlStep == CrawlInv /\ [Next]_vars => CrawlInv'
PROOF
<1>. SUFFICES ASSUME CrawlInv, [Next]_vars PROVE CrawlInv'
  OBVIOUS
<1>1. ASSUME NEW i \in DOMAIN tasks, Work(i) PROVE CrawlInv'
  <2>1. TypeOK /\ GotAtTheEnd /\ ActiveCount /\ ResultsConserved
    BY DEF CrawlInv
  <2>2. TypeOK'
    BY <1>1, <2>1, WorkTypes
  <2>3. ActiveCount'
    BY <1>1, <2>1, <2>2, WorkCounts
  <2>4. ResultsConserved'
    BY <1>1, <2>1, WorkDelivers
  <2>5. GotAtTheEnd' /\ SeenAre' /\ TailWaits'
    BY <1>1, WorkKeeps
  <2>. QED
    BY <2>2, <2>3, <2>4, <2>5 DEF CrawlInv
<1>. QED
  BY <1>1, PopKeeps, TakeKeeps, MovesKeep DEF Next, Driver

\* So it holds throughout.
LEMMA CrawlAlways == Spec => []CrawlInv
PROOF
<1>. QED
  BY CrawlStart, CrawlStep, PTL DEF Spec

\* Every variable of a crawl keeps its type; above all the driver's count never
\* falls below zero.
THEOREM TypeCorrect == Spec => []TypeOK
PROOF
<1>1. CrawlInv => TypeOK
  BY DEF CrawlInv
<1>. QED
  BY <1>1, CrawlAlways, PTL

\* The count of active tasks is exact, for any number of tasks in any state.
THEOREM ActiveCountCorrect == Spec => []ActiveCount
PROOF
<1>1. CrawlInv => ActiveCount
  BY DEF CrawlInv
<1>. QED
  BY <1>1, CrawlAlways, PTL

\* No page fetched is lost, repeated or counted twice, in either loop and over
\* the change from one to the other.
THEOREM ResultsConservedCorrect == Spec => []ResultsConserved
PROOF
<1>1. CrawlInv => ResultsConserved
  BY DEF CrawlInv
<1>. QED
  BY <1>1, CrawlAlways, PTL

\* A crawl that ends is complete, whatever the links and the limits.
THEOREM EndIsCompleteCorrect == Spec => []EndIsComplete
PROOF
<1>1. CrawlInv => EndIsComplete
  <2>. SUFFICES ASSUME CrawlInv, pc = "done"
                PROVE  /\ Unfinished = {}
                       /\ \A i \in DOMAIN tasks : tasks[i].got => i \in ToSet(yielded)
                       /\ pages_crawled < MaxPages => seen = {tasks[i].url : i \in DOMAIN tasks}
    BY DEF EndIsComplete
  <2>0. TypeOK /\ ActiveCount /\ ResultsConserved /\ SeenAre /\ TailWaits
    BY DEF CrawlInv
  <2>1. active = 0 /\ result_queue = <<>> /\ (pages_crawled < MaxPages => frontier = <<>>)
    BY <2>0 DEF TailWaits
  <2>2. Unfinished = {}
    <3>1. /\ Cardinality(Unfinished) \in Nat /\ Cardinality(Nones) \in Nat
          /\ Cardinality(InState("dead")) \in Nat /\ IsFiniteSet(Unfinished)
      BY <2>0, CountsAreNumbers
    <3>2. Cardinality(Unfinished) = 0
      BY <2>0, <2>1, <3>1 DEF ActiveCount
    <3>. QED
      BY <3>1, <3>2, FS_EmptySet
  <2>3. Delivered = yielded
    BY <2>0, <2>1, ConcatEmptySeq DEF TypeOK, Delivered
  <2>4. \A i \in DOMAIN tasks : tasks[i].got => i \in ToSet(yielded)
    BY <2>0, <2>3 DEF ResultsConserved
  <2>5. pages_crawled < MaxPages => seen = {tasks[i].url : i \in DOMAIN tasks}
    BY <2>0, <2>1 DEF SeenAre, UrlsOf
  <2>. QED
    BY <2>2, <2>4, <2>5
<1>. QED
  BY <1>1, CrawlAlways, PTL

-----------------------------------------------------------------------------
(* One task per URL *)

\* The URLs in the order in which tasks are started for them: those of the tasks
\* and, behind them, those that wait on the frontier.
UrlSeq(s) == [n \in DOMAIN s |-> s[n].url]
Order == UrlSeq(tasks) \o UrlSeq(frontier)

\* The seeds come first, and no other URL comes again.
OnlySeedsAgain(s) ==
  /\ Len(s) >= Len(Seeds) /\ \A n \in 1 .. Len(Seeds) : s[n] = Seeds[n]
  /\ \A m, n \in DOMAIN s : s[m] = s[n] => m = n \/ (m <= Len(Seeds) /\ n <= Len(Seeds))

OrderInv == CrawlInv /\ OnlySeedsAgain(Order)

\* The URLs of tasks or entries are a sequence of pages.
LEMMA UrlSeqIs ==
  ASSUME NEW s, s \in Seq(Task) \/ s \in Seq(Entry)
  PROVE  /\ UrlSeq(s) \in Seq(Pages) /\ Len(UrlSeq(s)) = Len(s) /\ DOMAIN UrlSeq(s) = DOMAIN s
         /\ ToSet(UrlSeq(s)) = UrlsOf(s)
PROOF
<1>1. DOMAIN s = 1 .. Len(s) /\ Len(s) \in Nat /\ \A n \in 1 .. Len(s) : s[n].url \in Pages
  <2>1. CASE s \in Seq(Task)
    <3>1. \A n \in 1 .. Len(s) : s[n] \in Task
      BY <2>1, ElementOfSeq
    <3>. QED
      BY <2>1, <3>1, LenProperties DEF Task
  <2>2. CASE s \in Seq(Entry)
    <3>1. \A n \in 1 .. Len(s) : s[n] \in Entry
      BY <2>2, ElementOfSeq
    <3>. QED
      BY <2>2, <3>1, LenProperties DEF Entry
  <2>. QED
    BY <2>1, <2>2
<1>2. UrlSeq(s) \in Seq(Pages) /\ Len(UrlSeq(s)) = Len(s)
  BY <1>1 DEF UrlSeq
<1>. QED
  BY <1>2 DEF UrlSeq, UrlsOf, ToSet

\* Taking the head of the frontier and appending its task is handing a URL over.
LEMMA PopKeepsOrder == ASSUME TypeOK, Pop PROVE Order' = Order
PROOF
<1>. DEFINE e == Head(frontier)
            t == [url |-> e.url, depth |-> e.depth, st |-> "waiting", attempt |-> 0, got |-> FALSE]
<1>1. /\ frontier # <<>> /\ frontier' = Tail(frontier) /\ tasks' = Append(tasks, t)
      /\ frontier \in Seq(Entry) /\ tasks \in Seq(Task)
  BY DEF Pop, StartTask, TypeOK
<1>2. /\ e \in Entry /\ e = frontier[1] /\ Tail(frontier) \in Seq(Entry)
      /\ Len(Tail(frontier)) = Len(frontier) - 1 /\ Len(frontier) \in Nat \ {0}
      /\ \A n \in 1 .. Len(frontier) - 1 : Tail(frontier)[n] = frontier[n + 1]
  BY <1>1, HeadTailProperties, EmptySeq
<1>3. t \in Task /\ t.url = e.url
  BY <1>2 DEF Entry, Task, TaskStates
<1>. HIDE DEF t
<1>4. /\ Append(tasks, t) \in Seq(Task) /\ Len(Append(tasks, t)) = Len(tasks) + 1 /\ Len(tasks) \in Nat
      /\ \A n \in 1 .. Len(tasks) : Append(tasks, t)[n] = tasks[n]
      /\ Append(tasks, t)[Len(tasks) + 1] = t
      /\ DOMAIN Append(tasks, t) = 1 .. Len(tasks) + 1
  BY <1>1, <1>3, AppendProperties, LenProperties
<1>. DEFINE u == UrlSeq(tasks)
            f == UrlSeq(frontier)
<1>5. /\ u \in Seq(Pages) /\ f \in Seq(Pages) /\ Len(u) = Len(tasks) /\ Len(f) = Len(frontier)
      /\ UrlSeq(Append(tasks, t)) \in Seq(Pages) /\ UrlSeq(Tail(frontier)) \in Seq(Pages)
      /\ Len(UrlSeq(Append(tasks, t))) = Len(tasks) + 1 /\ Len(UrlSeq(Tail(frontier))) = Len(frontier) - 1
  BY <1>1, <1>2, <1>4, UrlSeqIs
<1>6. f # <<>> /\ f[1] = e.url /\ \A n \in 1 .. Len(frontier) : f[n] = frontier[n].url
  BY <1>1, <1>2, <1>5, LenProperties DEF UrlSeq
<1>7. \A n \in 1 .. Len(tasks) : u[n] = tasks[n].url
  BY <1>1, LenProperties DEF UrlSeq
<1>8. UrlSeq(Append(tasks, t)) = Append(u, Head(f))
  <2>1. e.url \in Pages /\ Head(f) = e.url
    BY <1>2, <1>5, <1>6 DEF Entry
  <2>. HIDE DEF u, f, e
  <2>2. /\ Append(u, Head(f)) \in Seq(Pages) /\ Len(Append(u, Head(f))) = Len(u) + 1
        /\ \A n \in 1 .. Len(u) : Append(u, Head(f))[n] = u[n]
        /\ Append(u, Head(f))[Len(u) + 1] = e.url
    BY <1>5, <2>1, AppendProperties
  <2>3. ASSUME NEW n \in 1 .. Len(tasks) + 1 PROVE UrlSeq(Append(tasks, t))[n] = Append(u, Head(f))[n]
    <3>1. UrlSeq(Append(tasks, t))[n] = Append(tasks, t)[n].url
      BY <1>4 DEF UrlSeq
    <3>2. CASE n \in 1 .. Len(tasks)
      BY <1>4, <1>5, <1>7, <2>2, <3>1, <3>2
    <3>3. CASE n = Len(tasks) + 1
      BY <1>3, <1>4, <1>5, <2>2, <3>1, <3>3
    <3>4. n \in 1 .. Len(tasks) \/ n = Len(tasks) + 1
      <4>1. Len(tasks) \in Nat
        BY <1>4
      <4>. QED
        BY ONLY <4>1, n \in 1 .. Len(tasks) + 1
    <3>. QED
      BY ONLY <3>2, <3>3, <3>4
  <2>. QED
    BY <1>5, <2>2, <2>3, SeqEqual
<1>9. UrlSeq(Tail(frontier)) = Tail(f)
  <2>. HIDE DEF f
  <2>1. /\ Tail(f) \in Seq(Pages) /\ Len(Tail(f)) = Len(f) - 1
        /\ \A n \in 1 .. Len(f) - 1 : Tail(f)[n] = f[n + 1]
    BY <1>5, <1>6, HeadTailProperties
  <2>2. ASSUME NEW n \in 1 .. Len(frontier) - 1 PROVE UrlSeq(Tail(frontier))[n] = Tail(f)[n]
    <3>1. UrlSeq(Tail(frontier))[n] = Tail(frontier)[n].url
      BY <1>2, LenProperties DEF UrlSeq
    <3>2. n + 1 \in 1 .. Len(frontier)
      BY <1>2
    <3>. QED
      BY <1>2, <1>5, <1>6, <2>1, <3>1, <3>2
  <2>. QED
    BY <1>2, <1>5, <2>1, <2>2, SeqEqual
<1>10. Append(u, Head(f)) \o Tail(f) = u \o f
  <2>. HIDE DEF u, f
  <2>. QED
    BY <1>5, <1>6, HandedOver
<1>. QED
  BY <1>1, <1>8, <1>9, <1>10 DEF Order

\* A worker adds only URLs that have not come yet.
LEMMA WorkOrders ==
  ASSUME OrderInv, NEW i \in DOMAIN tasks, Work(i)
  PROVE  OnlySeedsAgain(Order')
PROOF
<1>0. TypeOK /\ GotAtTheEnd /\ SeenAre /\ OnlySeedsAgain(Order)
  BY DEF OrderInv, CrawlInv
<1>1. PICK new \in Seq(Pages), d \in Nat :
        /\ Injective(new) /\ ToSet(new) \intersect seen = {}
        /\ frontier' = frontier \o Entries(new, d)
  BY <1>0, WorkFinds
<1>2. frontier \in Seq(Entry) /\ tasks \in Seq(Task)
  BY <1>0 DEF TypeOK
<1>3. UrlSeq(tasks') = UrlSeq(tasks)
  <2>1. PICK r \in Task : Turns(i, r) /\ r.url = tasks[i].url
    BY <1>0, WorkIs
  <2>2. /\ DOMAIN tasks' = DOMAIN tasks /\ tasks'[i] = r
        /\ \A k \in DOMAIN tasks : k # i => tasks'[k] = tasks[k]
    BY <1>0, <2>1, TurnsOne
  <2>. QED
    BY <2>1, <2>2 DEF UrlSeq
<1>4. UrlSeq(frontier') = UrlSeq(frontier) \o new
  <2>. DEFINE e == Entries(new, d)
              g == frontier \o e
              f == UrlSeq(frontier)
  <2>1. /\ e \in Seq(Entry) /\ Len(e) = Len(new) /\ Len(new) \in Nat /\ Len(frontier) \in Nat
        /\ \A n \in 1 .. Len(new) : e[n].url = new[n]
    BY <1>2, EntriesOf, LenProperties DEF Entries
  <2>. HIDE DEF e
  <2>2. /\ g \in Seq(Entry) /\ Len(g) = Len(frontier) + Len(e)
        /\ \A n \in 1 .. Len(frontier) + Len(e) :
             g[n] = IF n <= Len(frontier) THEN frontier[n] ELSE e[n - Len(frontier)]
    BY <1>2, <2>1, ConcatProperties
  <2>3. /\ f \in Seq(Pages) /\ Len(f) = Len(frontier)
        /\ \A n \in 1 .. Len(frontier) : f[n] = frontier[n].url
    BY <1>2, UrlSeqIs, LenProperties DEF UrlSeq
  <2>. HIDE DEF g, f
  <2>4. /\ f \o new \in Seq(Pages) /\ Len(f \o new) = Len(f) + Len(new)
        /\ \A n \in 1 .. Len(f) + Len(new) :
             (f \o new)[n] = IF n <= Len(f) THEN f[n] ELSE new[n - Len(f)]
    BY <2>3, ConcatProperties
  <2>5. /\ UrlSeq(g) \in Seq(Pages) /\ Len(UrlSeq(g)) = Len(g)
        /\ \A n \in 1 .. Len(g) : UrlSeq(g)[n] = g[n].url
    BY <2>2, UrlSeqIs, LenProperties DEF UrlSeq
  <2>6. ASSUME NEW n \in 1 .. Len(frontier) + Len(new) PROVE UrlSeq(g)[n] = (f \o new)[n]
    <3>1. UrlSeq(g)[n] = g[n].url
      BY <2>1, <2>2, <2>5
    <3>2. CASE n <= Len(frontier)
      <4>1. n \in 1 .. Len(frontier) /\ n \in 1 .. Len(f) + Len(new) /\ n <= Len(f)
        BY <2>1, <2>3, <3>2
      <4>. QED
        BY <2>1, <2>2, <2>3, <2>4, <3>1, <4>1
    <3>3. CASE ~(n <= Len(frontier))
      <4>1. n - Len(frontier) \in 1 .. Len(new) /\ n \in 1 .. Len(f) + Len(new) /\ ~(n <= Len(f))
        BY <2>1, <2>3, <3>3
      <4>2. g[n] = e[n - Len(frontier)]
        BY <2>1, <2>2, <3>3
      <4>3. (f \o new)[n] = new[n - Len(frontier)]
        BY <2>3, <2>4, <4>1
      <4>. QED
        BY <2>1, <3>1, <4>1, <4>2, <4>3
    <3>. QED
      BY <3>2, <3>3
  <2>7. UrlSeq(g) = f \o new
    BY <2>1, <2>2, <2>3, <2>4, <2>5, <2>6, SeqEqual
  <2>. QED
    BY <1>1, <2>7 DEF g, f, e
<1>5. /\ UrlSeq(tasks) \in Seq(Pages) /\ UrlSeq(frontier) \in Seq(Pages)
      /\ ToSet(UrlSeq(tasks)) = UrlsOf(tasks) /\ ToSet(UrlSeq(frontier)) = UrlsOf(frontier)
  BY <1>2, UrlSeqIs
<1>6. Order \in Seq(Pages) /\ ToSet(Order) = seen
  <2>1. ToSet(UrlSeq(tasks) \o UrlSeq(frontier)) = ToSet(UrlSeq(tasks)) \union ToSet(UrlSeq(frontier))
    BY ONLY <1>5, ConcatSet
  <2>2. UrlSeq(tasks) \o UrlSeq(frontier) \in Seq(Pages)
    BY ONLY <1>5, ConcatProperties
  <2>. QED
    BY <1>0, <1>5, <2>1, <2>2 DEF SeenAre, Order
<1>7. Order' = Order \o new
  <2>1. UrlSeq(tasks) \o (UrlSeq(frontier) \o new) = (UrlSeq(tasks) \o UrlSeq(frontier)) \o new
    BY <1>5, ConcatAssociative
  <2>. QED
    BY <1>3, <1>4, <2>1 DEF Order
<1>. DEFINE o == Order
<1>8. /\ o \in Seq(Pages) /\ OnlySeedsAgain(o) /\ ToSet(new) \intersect ToSet(o) = {}
      /\ Injective(new)
  BY <1>0, <1>1, <1>6
<1>. HIDE DEF o
<1>. SUFFICES OnlySeedsAgain(o \o new)
  BY <1>7 DEF o
<1>9. /\ Len(o \o new) = Len(o) + Len(new) /\ Len(o) \in Nat /\ Len(new) \in Nat /\ Len(Seeds) \in Nat
      /\ DOMAIN o = 1 .. Len(o) /\ DOMAIN new = 1 .. Len(new) /\ DOMAIN (o \o new) = 1 .. Len(o) + Len(new)
      /\ \A n \in 1 .. Len(o) + Len(new) : (o \o new)[n] = IF n <= Len(o) THEN o[n] ELSE new[n - Len(o)]
  BY <1>8, ConcatProperties, LenProperties, CrawlAssumption
<1>10. Len(o \o new) >= Len(Seeds) /\ \A n \in 1 .. Len(Seeds) : (o \o new)[n] = Seeds[n]
  <2>1. Len(o) >= Len(Seeds) /\ \A n \in 1 .. Len(Seeds) : o[n] = Seeds[n]
    BY <1>8 DEF OnlySeedsAgain
  <2>. QED
    BY <1>9, <2>1
<1>11. \A m \in DOMAIN o, n \in DOMAIN new : o[m] # new[n]
  BY <1>8 DEF ToSet
<1>12. ASSUME NEW m \in 1 .. Len(o) + Len(new), NEW n \in 1 .. Len(o) + Len(new),
              (o \o new)[m] = (o \o new)[n]
       PROVE  m = n \/ (m <= Len(Seeds) /\ n <= Len(Seeds))
  <2>1. CASE m <= Len(o) /\ n <= Len(o)
    <3>1. m \in DOMAIN o /\ n \in DOMAIN o /\ o[m] = o[n]
      BY <1>9, <1>12, <2>1
    <3>. QED
      BY <1>8, <3>1 DEF OnlySeedsAgain
  <2>2. CASE ~(m <= Len(o)) /\ ~(n <= Len(o))
    <3>1. /\ m - Len(o) \in DOMAIN new /\ n - Len(o) \in DOMAIN new
          /\ new[m - Len(o)] = new[n - Len(o)]
      BY <1>9, <1>12, <2>2
    <3>2. m - Len(o) = n - Len(o)
      BY <1>8, <3>1 DEF Injective
    <3>. QED
      BY <1>9, <3>2
  <2>3. CASE m <= Len(o) /\ ~(n <= Len(o))
    <3>1. m \in DOMAIN o /\ n - Len(o) \in DOMAIN new /\ o[m] = new[n - Len(o)]
      BY <1>9, <1>12, <2>3
    <3>. QED
      BY <1>11, <3>1
  <2>4. CASE ~(m <= Len(o)) /\ n <= Len(o)
    <3>1. n \in DOMAIN o /\ m - Len(o) \in DOMAIN new /\ o[n] = new[m - Len(o)]
      BY <1>9, <1>12, <2>4
    <3>. QED
      BY <1>11, <3>1
  <2>. QED
    BY <2>1, <2>2, <2>3, <2>4
<1>. QED
  BY <1>9, <1>10, <1>12 DEF OnlySeedsAgain

\* The order of the start grows at its end, and by new URLs only.
LEMMA OrderStep == OrderInv /\ [Next]_vars => OrderInv'
PROOF
<1>. SUFFICES ASSUME OrderInv, [Next]_vars PROVE OnlySeedsAgain(Order')
  BY CrawlStep DEF OrderInv
<1>0. TypeOK /\ OnlySeedsAgain(Order)
  BY DEF OrderInv, CrawlInv
<1>1. ASSUME NEW i \in DOMAIN tasks, Work(i) PROVE OnlySeedsAgain(Order')
  BY <1>1, WorkOrders
<1>2. CASE Pop
  BY <1>0, <1>2, PopKeepsOrder
<1>3. CASE UNCHANGED <<tasks, frontier>>
  BY <1>0, <1>3 DEF Order
<1>4. ~Pop /\ (Driver \/ UNCHANGED vars) => UNCHANGED <<tasks, frontier>>
  BY DEF Driver, Collect, EndCollect, Resume, Sleep, Wake, EndDrain, TailTake, TailResume, Finish,
         Goto, TakeResult, worker, vars
<1>. QED
  BY <1>1, <1>2, <1>3, <1>4 DEF Next

\* At the start only the seeds wait.
LEMMA OrderStart == Init => OrderInv
PROOF
<1>. SUFFICES ASSUME Init PROVE OnlySeedsAgain(Order)
  BY CrawlStart DEF OrderInv
<1>1. /\ tasks = <<>> /\ frontier = [i \in DOMAIN Seeds |-> [url |-> Seeds[i], depth |-> 0]]
      /\ Seeds \in Seq(Pages)
  BY CrawlAssumption DEF Init
<1>2. UrlSeq(tasks) = <<>>
  BY <1>1 DEF UrlSeq
<1>3. UrlSeq(frontier) = Seeds
  <2>1. UrlSeq(frontier) = [i \in DOMAIN Seeds |-> Seeds[i]]
    BY <1>1 DEF UrlSeq
  <2>. QED
    BY <1>1, <2>1
<1>4. Order = Seeds
  BY <1>1, <1>2, <1>3, ConcatEmptySeq DEF Order
<1>. QED
  BY <1>1, <1>4, LenProperties DEF OnlySeedsAgain

\* Tasks and URLs in the order of their start.
LEMMA TasksInOrder ==
  ASSUME OrderInv
  PROVE  /\ DOMAIN tasks = 1 .. Len(tasks) /\ Len(tasks) \in Nat
         /\ \A i \in DOMAIN tasks : i \in DOMAIN Order /\ Order[i] = tasks[i].url
PROOF
<1>1. frontier \in Seq(Entry) /\ tasks \in Seq(Task)
  BY DEF OrderInv, CrawlInv, TypeOK
<1>. DEFINE u == UrlSeq(tasks)
            f == UrlSeq(frontier)
<1>2. /\ u \in Seq(Pages) /\ f \in Seq(Pages) /\ Len(u) = Len(tasks)
      /\ DOMAIN tasks = 1 .. Len(tasks) /\ Len(tasks) \in Nat /\ Len(f) \in Nat
      /\ \A i \in DOMAIN tasks : u[i] = tasks[i].url
  BY <1>1, UrlSeqIs, LenProperties DEF UrlSeq
<1>. HIDE DEF u, f
<1>3. /\ DOMAIN (u \o f) = 1 .. Len(u) + Len(f)
      /\ \A i \in 1 .. Len(u) + Len(f) : (u \o f)[i] = IF i <= Len(u) THEN u[i] ELSE f[i - Len(u)]
  <2>1. u \in Seq(Pages) /\ f \in Seq(Pages)
    BY <1>2
  <2>2. /\ u \o f \in Seq(Pages) /\ Len(u \o f) = Len(u) + Len(f)
        /\ \A i \in 1 .. Len(u) + Len(f) : (u \o f)[i] = IF i <= Len(u) THEN u[i] ELSE f[i - Len(u)]
    BY ONLY <2>1, ConcatProperties
  <2>3. DOMAIN (u \o f) = 1 .. Len(u \o f)
    BY ONLY <2>2, LenProperties
  <2>. QED
    BY <2>2, <2>3
<1>4. \A i \in 1 .. Len(tasks) : i \in 1 .. Len(u) + Len(f) /\ i <= Len(u)
  BY <1>2
<1>. QED
  BY <1>2, <1>3, <1>4 DEF Order, u, f

\* Of all URLs only one that the caller has given twice can get a second task.
THEOREM OnlySeedsTwice ==
  Spec => [](\A i, k \in DOMAIN tasks :
               tasks[i].url = tasks[k].url => i = k \/ (i <= Len(Seeds) /\ k <= Len(Seeds)))
PROOF
<1>1. OrderInv => \A i, k \in DOMAIN tasks :
                    tasks[i].url = tasks[k].url => i = k \/ (i <= Len(Seeds) /\ k <= Len(Seeds))
  BY TasksInOrder DEF OrderInv, OnlySeedsAgain
<1>. QED
  BY <1>1, OrderStart, OrderStep, PTL DEF Spec

\* So when the seeds are distinct no URL does, whichever pages link to it and in
\* whatever order they come back.
THEOREM FetchedOnceCorrect ==
  ASSUME \A i, k \in DOMAIN Seeds : Seeds[i] = Seeds[k] => i = k
  PROVE  Spec => []FetchedOnce
PROOF
<1>1. OrderInv => FetchedOnce
  <2>. SUFFICES ASSUME OrderInv, NEW i \in DOMAIN tasks, NEW k \in DOMAIN tasks,
                       tasks[i].url = tasks[k].url, i # k
                PROVE  FALSE
    BY DEF FetchedOnce
  <2>1. /\ i \in DOMAIN Order /\ k \in DOMAIN Order /\ Order[i] = Order[k]
        /\ i >= 1 /\ k >= 1 /\ i \in Nat /\ k \in Nat
    BY TasksInOrder
  <2>2. i <= Len(Seeds) /\ k <= Len(Seeds) /\ \A n \in 1 .. Len(Seeds) : Order[n] = Seeds[n]
    BY <2>1 DEF OrderInv, OnlySeedsAgain
  <2>3. DOMAIN Seeds = 1 .. Len(Seeds) /\ Len(Seeds) \in Nat
    BY CrawlAssumption, LenProperties
  <2>4. i \in DOMAIN Seeds /\ k \in DOMAIN Seeds /\ Seeds[i] = Seeds[k]
    BY <2>1, <2>2, <2>3
  <2>. QED
    BY <2>4
<1>. QED
  BY <1>1, OrderStart, OrderStep, PTL DEF Spec
=============================================================================
