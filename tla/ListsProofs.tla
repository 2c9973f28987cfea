----------------------------- MODULE ListsProofs -----------------------------
(* What the operations of Lists give, for lists of any length, and what sums over
   finite sets of any size are. *)
EXTENDS Lists, TLAPS, SequenceTheorems, FiniteSetTheorems, NaturalsInduction,
        WellFoundedInduction

-----------------------------------------------------------------------------
(* Filtering *)

\* Induction, for a set.
LEMMA SetInduction ==
  ASSUME NEW P \in SUBSET Nat, 0 \in P, \A n \in P : n + 1 \in P
  PROVE  P = Nat
PROOF
<1> SUFFICES ASSUME P # Nat PROVE FALSE  OBVIOUS
<1> DEFINE rest == Nat \ P
<1>1. rest # {} /\ rest \subseteq Nat  OBVIOUS
<1>2. PICK n \in rest : \A m \in rest : ~(<<m, n>> \in OpToRel(<, Nat))
  <2> HIDE DEF rest
  <2>1. QED  BY <1>1, NatLessThanWellFounded, WFMin
<1>3. n \in Nat /\ \A m \in rest : ~(m < n)  BY <1>2 DEF OpToRel
<1>4. n # 0  BY <1>2
<1>5. n - 1 \in Nat /\ n - 1 \notin rest  BY <1>3, <1>4
<1>6. n - 1 + 1 = n  BY <1>3
<1>7. n \in P  BY <1>5, <1>6
<1>8. QED  BY <1>2, <1>7

\* kept of Only, up to n.
KeptTo(s, S, n, f) ==
  f = [i \in 0 .. n |-> IF i = 0 THEN <<>>
                        ELSE IF s[i] \in S THEN Append(f[i - 1], s[i]) ELSE f[i - 1]]

\* There is such a function, for every sequence.
LEMMA KeptExists == ASSUME NEW s, NEW S, NEW n \in Nat PROVE \E f : KeptTo(s, S, n, f)
PROOF
<1> DEFINE P == {m \in Nat : \E f : KeptTo(s, S, m, f)}
<1>1. 0 \in P
  <2> DEFINE f == [i \in 0 .. 0 |-> <<>>]
  <2>1. KeptTo(s, S, 0, f)  BY DEF KeptTo
  <2>2. QED  BY <2>1
<1>2. ASSUME NEW m \in P PROVE m + 1 \in P
  <2>1. PICK f : KeptTo(s, S, m, f)  OBVIOUS
  <2> DEFINE x == IF s[m + 1] \in S THEN Append(f[m], s[m + 1]) ELSE f[m]
             g == [i \in 0 .. m + 1 |-> IF i = m + 1 THEN x ELSE f[i]]
  <2>2. \A i \in 0 .. m : f[i] = IF i = 0 THEN <<>>
                                 ELSE IF s[i] \in S THEN Append(f[i - 1], s[i]) ELSE f[i - 1]
    BY <2>1 DEF KeptTo
  <2>3. m \in Nat  OBVIOUS
  <2>4. ASSUME NEW i \in 0 .. m + 1
        PROVE  g[i] = IF i = 0 THEN <<>>
                      ELSE IF s[i] \in S THEN Append(g[i - 1], s[i]) ELSE g[i - 1]
    <3>1. CASE i = 0  BY <2>2, <2>3, <3>1
    <3>2. CASE i = m + 1
      <4>1. g[i] = x /\ g[i - 1] = f[m] /\ i # 0  BY <2>3, <3>2
      <4> HIDE DEF g
      <4>2. QED  BY <3>2, <4>1
    <3>3. CASE i # 0 /\ i # m + 1
      <4>1. i \in 0 .. m /\ i - 1 \in 0 .. m /\ i - 1 # m + 1  BY <2>3, <3>3
      <4>2. g[i] = f[i] /\ g[i - 1] = f[i - 1]  BY <2>3, <3>3, <4>1
      <4> HIDE DEF g
      <4>3. QED  BY <2>2, <3>3, <4>1, <4>2
    <3>4. QED  BY <3>1, <3>2, <3>3
  <2>5. g = [i \in 0 .. m + 1 |-> g[i]]  OBVIOUS
  <2>6. KeptTo(s, S, m + 1, g)
    <3> HIDE DEF g
    <3>1. QED  BY <2>4, <2>5 DEF KeptTo
  <2>7. QED  BY <2>3, <2>6
<1>3. P = Nat
  <2>1. P \in SUBSET Nat  OBVIOUS
  <2> HIDE DEF P
  <2>2. QED  BY <1>1, <1>2, <2>1, SetInduction
<1>4. QED  BY <1>3

\* Only is the last value of such a function.
LEMMA OnlyKept ==
  ASSUME NEW s, NEW S, Len(s) \in Nat
  PROVE  \E f : KeptTo(s, S, Len(s), f) /\ Only(s, S) = f[Len(s)]
PROOF
<1> DEFINE K(f) == f = [i \in 0 .. Len(s) |-> IF i = 0 THEN <<>>
                         ELSE IF s[i] \in S THEN Append(f[i - 1], s[i]) ELSE f[i - 1]]
           kept == CHOOSE f : K(f)
<1>1. Only(s, S) = kept[Len(s)]  BY DEF Only
<1>2. \E f : K(f)
  <2>1. \E f : KeptTo(s, S, Len(s), f)  BY KeptExists
  <2>2. \A f : KeptTo(s, S, Len(s), f) => K(f)  BY DEF KeptTo
  <2> HIDE DEF K
  <2>3. QED  BY <2>1, <2>2
<1>3. K(kept)
  <2> HIDE DEF K
  <2>1. QED  BY <1>2
<1>4. KeptTo(s, S, Len(s), kept)
  <2> HIDE DEF kept
  <2>1. QED  BY <1>3 DEF KeptTo
<1>5. QED  BY <1>1, <1>4

\* One more item at the end of a sequence.
LEMMA AppendIs ==
  ASSUME NEW T, NEW q \in Seq(T), NEW x \in T
  PROVE  /\ Append(q, x) \in Seq(T) /\ Len(Append(q, x)) = Len(q) + 1
         /\ ToSet(Append(q, x)) = ToSet(q) \union {x}
         /\ IsInjective(q) /\ x \notin ToSet(q) => IsInjective(Append(q, x))
PROOF
<1> DEFINE a == Append(q, x)
           n == Len(q)
<1>1. /\ n \in Nat /\ a \in Seq(T) /\ Len(a) = n + 1 /\ DOMAIN a = 1 .. n + 1
      /\ DOMAIN q = 1 .. n /\ a[n + 1] = x /\ \A i \in 1 .. n : a[i] = q[i]
  BY AppendProperties, LenProperties
<1> HIDE DEF a, n
<1>2. ToSet(a) = ToSet(q) \union {x}
  <2>1. ASSUME NEW y \in ToSet(a) PROVE y \in ToSet(q) \union {x}
    <3>1. PICK i \in 1 .. n + 1 : y = a[i]  BY <1>1 DEF ToSet
    <3>2. CASE i = n + 1  BY <1>1, <3>1, <3>2
    <3>3. CASE i # n + 1
      <4>1. i \in 1 .. n  BY <1>1, <3>3
      <4>2. QED  BY <1>1, <3>1, <4>1 DEF ToSet
    <3>4. QED  BY <3>2, <3>3
  <2>2. ASSUME NEW y \in ToSet(q) PROVE y \in ToSet(a)
    <3>1. PICK i \in 1 .. n : y = q[i]  BY <1>1 DEF ToSet
    <3>2. i \in 1 .. n + 1 /\ y = a[i]  BY <1>1, <3>1
    <3>3. QED  BY <1>1, <3>2 DEF ToSet
  <2>3. n + 1 \in DOMAIN a  BY <1>1
  <2>4. x \in ToSet(a)  BY <1>1, <2>3 DEF ToSet
  <2>5. QED  BY <2>1, <2>2, <2>4
<1>3. ASSUME IsInjective(q), x \notin ToSet(q) PROVE IsInjective(a)
  <2>1. \A i \in 1 .. n : q[i] # x  BY <1>1, <1>3 DEF ToSet
  <2>2. \A i, j \in 1 .. n : q[i] = q[j] => i = j  BY <1>1, <1>3 DEF IsInjective
  <2>3. ASSUME NEW i \in 1 .. n + 1, NEW j \in 1 .. n + 1, a[i] = a[j] PROVE i = j
    <3>1. i \in 1 .. n \/ i = n + 1  BY <1>1
    <3>2. j \in 1 .. n \/ j = n + 1  BY <1>1
    <3>3. QED  BY <1>1, <2>1, <2>2, <2>3, <3>1, <3>2
  <2>4. QED  BY <1>1, <2>3 DEF IsInjective
<1>4. QED  BY <1>1, <1>2, <1>3 DEF a, n

\* What Only leaves.
LEMMA OnlyIs ==
  ASSUME NEW T, NEW s \in Seq(T), NEW S
  PROVE  /\ Only(s, S) \in Seq(T) /\ Len(Only(s, S)) <= Len(s)
         /\ ToSet(Only(s, S)) = ToSet(s) \intersect S
         /\ IsInjective(s) => IsInjective(Only(s, S))
PROOF
<1>1. Len(s) \in Nat /\ DOMAIN s = 1 .. Len(s) /\ \A i \in 1 .. Len(s) : s[i] \in T
  BY LenProperties, ElementOfSeq
<1>2. PICK f : KeptTo(s, S, Len(s), f) /\ Only(s, S) = f[Len(s)]  BY <1>1, OnlyKept
<1>3. /\ f[0] = <<>>
      /\ \A i \in 1 .. Len(s) :
           f[i] = IF s[i] \in S THEN Append(f[i - 1], s[i]) ELSE f[i - 1]
  <2>1. \A i \in 0 .. Len(s) :
          f[i] = IF i = 0 THEN <<>>
                 ELSE IF s[i] \in S THEN Append(f[i - 1], s[i]) ELSE f[i - 1]
    BY <1>2 DEF KeptTo
  <2>2. 0 \in 0 .. Len(s) /\ \A i \in 1 .. Len(s) : i \in 0 .. Len(s) /\ i # 0  BY <1>1
  <2>3. QED  BY <2>1, <2>2
<1> DEFINE first(n) == {s[j] : j \in 1 .. n}
           Good(n) == /\ f[n] \in Seq(T) /\ Len(f[n]) <= n
                      /\ ToSet(f[n]) = first(n) \intersect S
                      /\ IsInjective(s) => IsInjective(f[n])
           P == {n \in Nat : n <= Len(s) => Good(n)}
<1>4. 0 \in P
  <2>1. <<>> \in Seq(T) /\ Len(<<>>) = 0 /\ ToSet(<<>>) = {} /\ IsInjective(<<>>)
    BY DEF ToSet, IsInjective
  <2>2. first(0) = {}  OBVIOUS
  <2>3. Good(0)  BY <1>3, <2>1, <2>2
  <2> HIDE DEF Good
  <2>4. QED  BY <2>3
<1>5. ASSUME NEW n \in P PROVE n + 1 \in P
  <2> SUFFICES ASSUME n + 1 <= Len(s) PROVE Good(n + 1)  OBVIOUS
  <2> DEFINE x == s[n + 1]
  <2>1. n \in Nat /\ n <= Len(s) /\ n + 1 \in 1 .. Len(s) /\ n + 1 - 1 = n
    BY <1>1
  <2>2. Good(n)  BY <2>1
  <2>3. x \in T /\ f[n + 1] = IF x \in S THEN Append(f[n], x) ELSE f[n]
    BY <1>1, <1>3, <2>1
  <2>4. first(n + 1) = first(n) \union {x}
    <3>1. 1 .. n + 1 = (1 .. n) \union {n + 1}  BY <2>1
    <3>2. QED  BY <3>1
  <2>5. IsInjective(s) => x \notin first(n)
    <3>1. ASSUME IsInjective(s), NEW j \in 1 .. n, s[j] = x PROVE FALSE
      <4>1. j \in 1 .. Len(s) /\ j # n + 1  BY <1>1, <2>1
      <4>2. QED  BY <1>1, <2>1, <3>1, <4>1 DEF IsInjective
    <3>2. QED  BY <3>1
  <2> HIDE DEF first, x
  <2>6. CASE x \notin S  BY <2>1, <2>2, <2>3, <2>4, <2>6
  <2>7. CASE x \in S
    <3>1. f[n + 1] = Append(f[n], x)  BY <2>3, <2>7
    <3>2. /\ Append(f[n], x) \in Seq(T) /\ Len(Append(f[n], x)) = Len(f[n]) + 1
          /\ ToSet(Append(f[n], x)) = ToSet(f[n]) \union {x}
          /\ IsInjective(f[n]) /\ x \notin ToSet(f[n]) => IsInjective(Append(f[n], x))
      BY <2>2, <2>3, AppendIs
    <3>3. Len(f[n]) \in Nat  BY <2>2, LenProperties
    <3>4. Len(f[n + 1]) <= n + 1  BY <2>1, <2>2, <3>1, <3>2, <3>3
    <3>5. ToSet(f[n + 1]) = first(n + 1) \intersect S  BY <2>2, <2>4, <2>7, <3>1, <3>2
    <3>6. IsInjective(s) => IsInjective(f[n + 1])  BY <2>2, <2>5, <3>1, <3>2
    <3>7. QED  BY <3>1, <3>2, <3>4, <3>5, <3>6
  <2>8. QED  BY <2>6, <2>7
<1>6. P = Nat
  <2>1. P \in SUBSET Nat  OBVIOUS
  <2> HIDE DEF P
  <2>2. QED  BY <1>4, <1>5, <2>1, SetInduction
<1>7. Good(Len(s))
  <2>1. Len(s) \in P
    <3> HIDE DEF P
    <3>1. QED  BY <1>1, <1>6
  <2>2. Len(s) <= Len(s)  BY <1>1
  <2> HIDE DEF Good
  <2>3. QED  BY <2>1, <2>2
<1>8. first(Len(s)) = ToSet(s)  BY <1>1 DEF ToSet
<1>9. QED  BY <1>2, <1>7, <1>8

\* The first k items.
LEMMA BestIs ==
  ASSUME NEW T, NEW s \in Seq(T), NEW k \in Nat
  PROVE  /\ Best(k, s) \in Seq(T)
         /\ Len(Best(k, s)) = IF k < Len(s) THEN k ELSE Len(s)
         /\ \A i \in 1 .. Len(Best(k, s)) : i \in 1 .. Len(s) /\ Best(k, s)[i] = s[i]
         /\ ToSet(Best(k, s)) \subseteq ToSet(s)
         /\ IsInjective(s) => IsInjective(Best(k, s))
PROOF
<1> DEFINE n == IF k < Len(s) THEN k ELSE Len(s)
           b == SubSeq(s, 1, n)
<1>1. Len(s) \in Nat /\ n \in Nat /\ n <= Len(s) /\ DOMAIN s = 1 .. Len(s)
  BY LenProperties
<1>2. /\ b \in Seq(T) /\ Len(b) = n /\ \A i \in 1 .. n : b[i] = s[i]
  <2> HIDE DEF n
  <2>1. \A i \in 1 .. n : s[i] \in T  BY <1>1, ElementOfSeq
  <2>2. SubSeq(s, 1, n) = [i \in 1 .. n |-> s[i]]  BY <1>1
  <2>3. SubSeq(s, 1, n) \in Seq(T)  BY <1>1, <2>1, <2>2
  <2>4. Len(SubSeq(s, 1, n)) = n  BY <1>1, <2>2
  <2>5. QED  BY <2>2, <2>3, <2>4
<1>3. DOMAIN b = 1 .. n /\ Best(k, s) = b  BY <1>2, LenProperties DEF Best
<1> HIDE DEF b, n
<1>4. \A i \in 1 .. n : i \in 1 .. Len(s)  BY <1>1
<1>5. ToSet(b) \subseteq ToSet(s)  BY <1>1, <1>2, <1>3, <1>4 DEF ToSet
<1>6. IsInjective(s) => IsInjective(b)  BY <1>1, <1>2, <1>3, <1>4 DEF IsInjective
<1>7. QED  BY <1>2, <1>3, <1>4, <1>5, <1>6 DEF n

\* The steps of such a function.
LEMMA KeptSteps ==
  ASSUME NEW T, NEW s \in Seq(T), NEW S, NEW f, KeptTo(s, S, Len(s), f)
  PROVE  /\ f[0] = <<>>
         /\ \A i \in 1 .. Len(s) :
              f[i] = IF s[i] \in S THEN Append(f[i - 1], s[i]) ELSE f[i - 1]
PROOF
<1>1. \A i \in 0 .. Len(s) :
        f[i] = IF i = 0 THEN <<>>
               ELSE IF s[i] \in S THEN Append(f[i - 1], s[i]) ELSE f[i - 1]
  BY DEF KeptTo
<1>2. Len(s) \in Nat  BY LenProperties
<1>3. 0 \in 0 .. Len(s) /\ \A i \in 1 .. Len(s) : i \in 0 .. Len(s) /\ i # 0  BY <1>2
<1>4. QED  BY <1>1, <1>3

\* Filtering with a condition everything meets.
LEMMA OnlyAll ==
  ASSUME NEW T, NEW s \in Seq(T), NEW S, ToSet(s) \subseteq S
  PROVE  Only(s, S) = s
PROOF
<1>1. Len(s) \in Nat /\ DOMAIN s = 1 .. Len(s) /\ \A i \in 1 .. Len(s) : s[i] \in T
  BY LenProperties, ElementOfSeq
<1>2. PICK f : KeptTo(s, S, Len(s), f) /\ Only(s, S) = f[Len(s)]  BY <1>1, OnlyKept
<1>3. f[0] = <<>> /\ \A i \in 1 .. Len(s) : f[i] = Append(f[i - 1], s[i])
  <2>1. \A i \in 1 .. Len(s) : s[i] \in S  BY <1>1 DEF ToSet
  <2>2. QED  BY <1>2, <2>1, KeptSteps
<1> DEFINE Good(n) == f[n] \in Seq(T) /\ Len(f[n]) = n /\ \A i \in 1 .. n : f[n][i] = s[i]
           P == {n \in Nat : n <= Len(s) => Good(n)}
<1>4. 0 \in P
  <2>1. Good(0)  BY <1>3
  <2> HIDE DEF Good
  <2>2. QED  BY <2>1
<1>5. ASSUME NEW n \in P PROVE n + 1 \in P
  <2> SUFFICES ASSUME n + 1 <= Len(s) PROVE Good(n + 1)  OBVIOUS
  <2> DEFINE x == s[n + 1]
             a == f[n + 1]
  <2>1. n \in Nat /\ n <= Len(s) /\ n + 1 \in 1 .. Len(s) /\ n + 1 - 1 = n  BY <1>1
  <2>2. f[n] \in Seq(T) /\ Len(f[n]) = n /\ \A i \in 1 .. n : f[n][i] = s[i]  BY <2>1
  <2>3. a = Append(f[n], x) /\ x \in T  BY <1>1, <1>3, <2>1
  <2> HIDE DEF a, x
  <2>4. /\ a \in Seq(T) /\ Len(a) = n + 1 /\ a[n + 1] = x
        /\ \A i \in 1 .. n : a[i] = f[n][i]
    BY <2>1, <2>2, <2>3, AppendProperties
  <2>5. \A i \in 1 .. n + 1 : i = n + 1 \/ i \in 1 .. n  BY <2>1
  <2>6. \A i \in 1 .. n + 1 : a[i] = s[i]  BY <2>2, <2>4, <2>5 DEF x
  <2>7. QED  BY <2>4, <2>6 DEF a
<1>6. P = Nat
  <2>1. P \in SUBSET Nat  OBVIOUS
  <2> HIDE DEF P
  <2>2. QED  BY <1>4, <1>5, <2>1, SetInduction
<1>7. Good(Len(s))
  <2>1. Len(s) \in P
    <3> HIDE DEF P
    <3>1. QED  BY <1>1, <1>6
  <2>2. Len(s) <= Len(s)  BY <1>1
  <2> HIDE DEF Good
  <2>3. QED  BY <2>1, <2>2
<1>8. QED  BY <1>2, <1>7, SeqEqual

\* p begins q.
Begins(p, q) == Len(p) <= Len(q) /\ \A i \in 1 .. Len(p) : q[i] = p[i]

\* Filtering a longer list that begins alike.
LEMMA OnlyBegins ==
  ASSUME NEW T, NEW s \in Seq(T), NEW t \in Seq(T), Begins(s, t), NEW S, NEW R,
         \A i \in 1 .. Len(s) : s[i] \in S <=> s[i] \in R
  PROVE  /\ Begins(Only(s, S), Only(t, R))
         /\ (\A i \in Len(s) + 1 .. Len(t) : t[i] \notin R) => Only(t, R) = Only(s, S)
PROOF
<1>1. /\ Len(s) \in Nat /\ Len(t) \in Nat /\ Len(s) <= Len(t)
      /\ \A i \in 1 .. Len(s) : s[i] \in T /\ t[i] = s[i]
      /\ \A i \in 1 .. Len(t) : t[i] \in T
  BY LenProperties, ElementOfSeq DEF Begins
<1>2. PICK f : KeptTo(s, S, Len(s), f) /\ Only(s, S) = f[Len(s)]  BY <1>1, OnlyKept
<1>3. PICK g : KeptTo(t, R, Len(t), g) /\ Only(t, R) = g[Len(t)]  BY <1>1, OnlyKept
<1>4. /\ f[0] = <<>>
      /\ \A i \in 1 .. Len(s) :
           f[i] = IF s[i] \in S THEN Append(f[i - 1], s[i]) ELSE f[i - 1]
  BY <1>2, KeptSteps
<1>5. /\ g[0] = <<>>
      /\ \A i \in 1 .. Len(t) :
           g[i] = IF t[i] \in R THEN Append(g[i - 1], t[i]) ELSE g[i - 1]
  BY <1>3, KeptSteps
<1> DEFINE short == f[Len(s)]
           none == \A i \in Len(s) + 1 .. Len(t) : t[i] \notin R
           Good(n) == /\ g[n] \in Seq(T)
                      /\ n <= Len(s) => g[n] = f[n]
                      /\ n >= Len(s) => Begins(short, g[n]) /\ (none => g[n] = short)
           P == {n \in Nat : n <= Len(t) => Good(n)}
<1>6. short \in Seq(T) /\ Len(short) \in Nat  BY <1>2, OnlyIs, LenProperties
<1>7. Begins(short, short)  BY <1>6 DEF Begins
<1> HIDE DEF short
<1>8. 0 \in P
  <2>1. g[0] \in Seq(T) /\ g[0] = f[0]  BY <1>4, <1>5
  <2>2. 0 >= Len(s) => g[0] = short
    <3>1. 0 >= Len(s) => Len(s) = 0  BY <1>1
    <3>2. QED  BY <2>1, <3>1 DEF short
  <2>3. Good(0)
    <3>1. 0 >= Len(s) => Begins(short, g[0]) /\ (none => g[0] = short)  BY <1>7, <2>2
    <3> HIDE DEF none
    <3>2. QED  BY <2>1, <3>1
  <2> HIDE DEF Good
  <2>4. QED  BY <2>3
<1>9. ASSUME NEW n \in P PROVE n + 1 \in P
  <2> SUFFICES ASSUME n + 1 <= Len(t) PROVE Good(n + 1)  OBVIOUS
  <2> DEFINE x == t[n + 1]
  <2>1. n \in Nat /\ n <= Len(t) /\ n + 1 \in 1 .. Len(t) /\ n + 1 - 1 = n  BY <1>1
  <2>2. Good(n)  BY <2>1
  <2>3. x \in T /\ g[n + 1] = IF x \in R THEN Append(g[n], x) ELSE g[n]
    BY <1>1, <1>5, <2>1
  <2>4. g[n] \in Seq(T) /\ Len(g[n]) \in Nat  BY <2>2, LenProperties
  <2>5. none /\ n >= Len(s) => x \notin R
    <3>1. n >= Len(s) => n + 1 \in Len(s) + 1 .. Len(t)  BY <1>1, <2>1
    <3>2. QED  BY <3>1
  <2>6. n + 1 <= Len(s) => g[n + 1] = f[n + 1]
    <3> SUFFICES ASSUME n + 1 <= Len(s) PROVE g[n + 1] = f[n + 1]  OBVIOUS
    <3>1. n + 1 \in 1 .. Len(s) /\ n <= Len(s)  BY <1>1, <2>1
    <3>2. x = s[n + 1] /\ (s[n + 1] \in S <=> s[n + 1] \in R)  BY <1>1, <3>1
    <3>3. f[n + 1] = IF s[n + 1] \in S THEN Append(f[n], s[n + 1]) ELSE f[n]
      BY <1>4, <2>1, <3>1
    <3>4. g[n] = f[n]  BY <2>2, <3>1
    <3> HIDE DEF x
    <3>5. QED  BY <2>3, <3>2, <3>3, <3>4
  <2> HIDE DEF x, none
  <2>7. g[n + 1] \in Seq(T)  BY <2>3, <2>4, AppendProperties
  <2>8. n >= Len(s) => Begins(short, g[n + 1]) /\ (none => g[n + 1] = short)
    <3> SUFFICES ASSUME n >= Len(s)
                 PROVE  Begins(short, g[n + 1]) /\ (none => g[n + 1] = short)
      OBVIOUS
    <3>1. Begins(short, g[n]) /\ (none => g[n] = short)  BY <2>2
    <3>2. CASE x \notin R  BY <2>3, <3>1, <3>2
    <3>3. CASE x \in R
      <4>1. g[n + 1] = Append(g[n], x)  BY <2>3, <3>3
      <4>2. /\ Len(Append(g[n], x)) = Len(g[n]) + 1
            /\ \A i \in 1 .. Len(g[n]) : Append(g[n], x)[i] = g[n][i]
        BY <2>3, <2>4, AppendProperties
      <4>3. Begins(short, Append(g[n], x))  BY <1>6, <2>4, <3>1, <4>2 DEF Begins
      <4>4. QED  BY <2>5, <3>3, <4>1, <4>3
    <3>4. QED  BY <3>2, <3>3
  <2>9. n + 1 >= Len(s) => Begins(short, g[n + 1]) /\ (none => g[n + 1] = short)
    <3>1. n + 1 >= Len(s) => n >= Len(s) \/ n + 1 = Len(s)  BY <1>1, <2>1
    <3>2. n + 1 = Len(s) => g[n + 1] = short  BY <1>1, <2>6 DEF short
    <3>3. QED  BY <1>7, <2>8, <3>1, <3>2
  <2>10. QED  BY <2>6, <2>7, <2>9
<1>10. P = Nat
  <2>1. P \in SUBSET Nat  OBVIOUS
  <2> HIDE DEF P
  <2>2. QED  BY <1>8, <1>9, <2>1, SetInduction
<1>11. Good(Len(t))
  <2>1. Len(t) \in P
    <3> HIDE DEF P
    <3>1. QED  BY <1>1, <1>10
  <2>2. Len(t) <= Len(t)  BY <1>1
  <2> HIDE DEF Good
  <2>3. QED  BY <2>1, <2>2
<1>12. Len(t) >= Len(s)  BY <1>1
<1>13. Begins(short, g[Len(t)]) /\ (none => g[Len(t)] = short)
  <2> HIDE DEF none
  <2>1. QED  BY <1>11, <1>12
<1>14. QED  BY <1>2, <1>3, <1>13 DEF short

\* Two sequences, one after the other.
LEMMA ConcatIs ==
  ASSUME NEW T, NEW p \in Seq(T), NEW q \in Seq(T)
  PROVE  /\ p \o q \in Seq(T) /\ ToSet(p \o q) = ToSet(p) \union ToSet(q)
         /\ IsInjective(p) /\ IsInjective(q) /\ ToSet(p) \intersect ToSet(q) = {}
              => IsInjective(p \o q)
PROOF
<1> DEFINE c == p \o q
           m == Len(p)
           n == Len(q)
<1>1. /\ m \in Nat /\ n \in Nat /\ c \in Seq(T) /\ Len(c) = m + n /\ DOMAIN c = 1 .. m + n
      /\ DOMAIN p = 1 .. m /\ DOMAIN q = 1 .. n
  BY ConcatProperties, LenProperties
<1>2. \A i \in 1 .. m + n : c[i] = IF i <= m THEN p[i] ELSE q[i - m]
  BY ConcatProperties
<1> HIDE DEF c, m, n
<1>3. \A i \in 1 .. m : i \in 1 .. m + n /\ c[i] = p[i]
  <2>1. \A i \in 1 .. m : i \in 1 .. m + n /\ i <= m  BY <1>1
  <2>2. QED  BY <1>2, <2>1
<1>4. \A i \in 1 .. n : m + i \in 1 .. m + n /\ c[m + i] = q[i]
  <2>1. ASSUME NEW i \in 1 .. n PROVE m + i \in 1 .. m + n /\ c[m + i] = q[i]
    <3> DEFINE j == m + i
    <3>1. j \in 1 .. m + n /\ ~(j <= m) /\ j - m = i  BY <1>1
    <3> HIDE DEF j
    <3>2. c[j] = q[i]  BY <1>2, <3>1
    <3>3. QED  BY <3>1, <3>2 DEF j
  <2>2. QED  BY <2>1
<1>5. \A i \in 1 .. m + n : i \in 1 .. m \/ (i - m \in 1 .. n /\ m + (i - m) = i)
  BY <1>1
<1>6. ToSet(c) = ToSet(p) \union ToSet(q)
  <2>1. ASSUME NEW y \in ToSet(c) PROVE y \in ToSet(p) \union ToSet(q)
    <3>1. PICK i \in 1 .. m + n : y = c[i]  BY <1>1 DEF ToSet
    <3>2. CASE i \in 1 .. m  BY <1>1, <1>3, <3>1, <3>2 DEF ToSet
    <3>3. CASE i - m \in 1 .. n /\ m + (i - m) = i
      <4>1. y = q[i - m]  BY <1>4, <3>1, <3>3
      <4>2. QED  BY <1>1, <3>3, <4>1 DEF ToSet
    <3>4. QED  BY <1>5, <3>2, <3>3
  <2>2. ASSUME NEW y \in ToSet(p) PROVE y \in ToSet(c)  BY <1>1, <1>3 DEF ToSet
  <2>3. ASSUME NEW y \in ToSet(q) PROVE y \in ToSet(c)  BY <1>1, <1>4 DEF ToSet
  <2>4. QED  BY <2>1, <2>2, <2>3
<1>7. ASSUME IsInjective(p), IsInjective(q), ToSet(p) \intersect ToSet(q) = {}
      PROVE  IsInjective(c)
  <2>1. \A i, j \in 1 .. m : p[i] = p[j] => i = j  BY <1>1, <1>7 DEF IsInjective
  <2>2. \A i, j \in 1 .. n : q[i] = q[j] => i = j  BY <1>1, <1>7 DEF IsInjective
  <2>3. \A i \in 1 .. m, j \in 1 .. n : p[i] # q[j]  BY <1>1, <1>7 DEF ToSet
  <2>4. ASSUME NEW i \in 1 .. m + n, NEW j \in 1 .. m + n, c[i] = c[j] PROVE i = j
    <3>1. CASE i \in 1 .. m /\ j \in 1 .. m  BY <1>3, <2>1, <2>4, <3>1
    <3>2. CASE i \in 1 .. m /\ j - m \in 1 .. n /\ m + (j - m) = j
      <4>1. c[i] = p[i] /\ c[j] = q[j - m]  BY <1>3, <1>4, <3>2
      <4>2. QED  BY <2>3, <2>4, <3>2, <4>1
    <3>3. CASE j \in 1 .. m /\ i - m \in 1 .. n /\ m + (i - m) = i
      <4>1. c[j] = p[j] /\ c[i] = q[i - m]  BY <1>3, <1>4, <3>3
      <4>2. QED  BY <2>3, <2>4, <3>3, <4>1
    <3>4. CASE /\ j - m \in 1 .. n /\ m + (j - m) = j
               /\ i - m \in 1 .. n /\ m + (i - m) = i
      <4>1. c[j] = q[j - m] /\ c[i] = q[i - m]  BY <1>4, <3>4
      <4>2. i - m = j - m  BY <2>2, <2>4, <3>4, <4>1
      <4>3. QED  BY <3>4, <4>2
    <3>5. QED  BY <1>5, <3>1, <3>2, <3>3, <3>4
  <2>5. QED  BY <1>1, <2>4 DEF IsInjective
<1>8. QED  BY <1>1, <1>6, <1>7 DEF c

\* What is put behind a sequence can be taken off again.
LEMMA BehindIs ==
  ASSUME NEW T, NEW p \in Seq(T), NEW q \in Seq(T)
  PROVE  IsPrefix(p, p \o q) /\ SubSeq(p \o q, Len(p) + 1, Len(p \o q)) = q
PROOF
<1> DEFINE c == p \o q
           m == Len(p)
           n == Len(q)
<1>1. /\ m \in Nat /\ n \in Nat /\ c \in Seq(T) /\ Len(c) = m + n
      /\ DOMAIN c = 1 .. m + n /\ DOMAIN p = 1 .. m /\ DOMAIN q = 1 .. n
  BY ConcatProperties, LenProperties
<1>2. \A i \in 1 .. m + n : c[i] = IF i <= m THEN p[i] ELSE q[i - m]
  BY ConcatProperties
<1>3. p = [i \in 1 .. m |-> p[i]] /\ q = [i \in 1 .. n |-> q[i]]  BY <1>1
<1> HIDE DEF c, m, n
<1>4. \A i \in 1 .. m : c[i] = p[i]
  <2>1. \A i \in 1 .. m : i \in 1 .. m + n /\ i <= m  BY <1>1
  <2>2. QED  BY <1>2, <2>1
<1>5. SubSeq(c, 1, m) = [i \in 1 .. m |-> c[i]] /\ SubSeq(p, 1, m) = [i \in 1 .. m |-> p[i]]
  BY <1>1
<1>6. SubSeq(c, 1, m) = SubSeq(p, 1, m)  BY <1>4, <1>5
<1>7. IsPrefix(p, c)  BY <1>1, <1>6 DEF IsPrefix, m
<1>8. \A i \in 1 .. n : c[m + i] = q[i]
  <2>1. ASSUME NEW i \in 1 .. n PROVE c[m + i] = q[i]
    <3> DEFINE j == m + i
    <3>1. j \in 1 .. m + n /\ ~(j <= m) /\ j - m = i  BY <1>1
    <3> HIDE DEF j
    <3>2. c[j] = q[i]  BY <1>2, <3>1
    <3>3. QED  BY <3>2 DEF j
  <2>2. QED  BY <2>1
<1>9. SubSeq(c, m + 1, m + n) = [i \in 1 .. n |-> c[m + i]]
  <2>1. SubSeq(c, m + 1, m + n) = [i \in 1 .. (m + n) - (m + 1) + 1 |-> c[m + 1 + i - 1]]
    BY <1>1
  <2>2. (m + n) - (m + 1) + 1 = n /\ \A i \in 1 .. n : m + 1 + i - 1 = m + i  BY <1>1
  <2>3. QED  BY <2>1, <2>2
<1>10. SubSeq(c, m + 1, m + n) = q  BY <1>3, <1>8, <1>9
<1>11. QED  BY <1>1, <1>7, <1>10 DEF c, m

-----------------------------------------------------------------------------
(* Step by step, and item by item *)

\* f, computed step by step, each value from the one before.
Computes(f, n, a, h) == f = [i \in 0 .. n |-> IF i = 0 THEN a ELSE h[i][f[i - 1]]]

\* There is such a function.
LEMMA StepsExist ==
  ASSUME NEW X, NEW a \in X, NEW n \in Nat, NEW h \in [1 .. n -> [X -> X]]
  PROVE  \E f \in [0 .. n -> X] : Computes(f, n, a, h)
PROOF
<1> DEFINE Steps(m, f) == /\ f[0] = a /\ \A i \in 1 .. m : f[i] = h[i][f[i - 1]]
           P == {m \in Nat : m <= n => \E f \in [0 .. m -> X] : Steps(m, f)}
<1>1. 0 \in P
  <2> DEFINE f == [i \in 0 .. 0 |-> a]
  <2>1. f \in [0 .. 0 -> X] /\ f[0] = a  OBVIOUS
  <2>2. \A i \in 1 .. 0 : FALSE  OBVIOUS
  <2> HIDE DEF f
  <2>3. Steps(0, f)  BY <2>1, <2>2
  <2>4. QED  BY <2>1, <2>3
<1>2. ASSUME NEW m \in P PROVE m + 1 \in P
  <2> SUFFICES ASSUME m + 1 <= n PROVE \E g \in [0 .. m + 1 -> X] : Steps(m + 1, g)
    <3> HIDE DEF Steps
    <3>1. m + 1 \in Nat  OBVIOUS
    <3>2. QED  BY <3>1
  <2>1. m \in Nat /\ m <= n /\ m + 1 \in 1 .. n  OBVIOUS
  <2>2. PICK f \in [0 .. m -> X] : Steps(m, f)  BY <2>1
  <2> DEFINE x == h[m + 1][f[m]]
             g == [i \in 0 .. m + 1 |-> IF i = m + 1 THEN x ELSE f[i]]
  <2>3. f[m] \in X  BY <2>1
  <2>4. x \in X  BY <2>1, <2>3
  <2>5. \A i \in 0 .. m : g[i] = f[i]  BY <2>1
  <2>6. g[m + 1] = x  BY <2>1
  <2>7. g \in [0 .. m + 1 -> X]
    <3> HIDE DEF x
    <3>1. \A i \in 0 .. m + 1 : i # m + 1 => i \in 0 .. m  BY <2>1
    <3>2. QED  BY <2>4, <3>1
  <2> HIDE DEF g
  <2>8. ASSUME NEW i \in 1 .. m + 1 PROVE g[i] = h[i][g[i - 1]]
    <3>1. i - 1 \in 0 .. m /\ g[i - 1] = f[i - 1]  BY <2>1, <2>5
    <3>2. CASE i = m + 1  BY <2>1, <2>6, <3>1, <3>2
    <3>3. CASE i # m + 1
      <4>1. i \in 1 .. m /\ i \in 0 .. m  BY <2>1, <3>3
      <4>2. QED  BY <2>2, <2>5, <3>1, <4>1
    <3>4. QED  BY <3>2, <3>3
  <2>9. g[0] = a  BY <2>1, <2>2, <2>5
  <2>10. QED  BY <2>7, <2>8, <2>9
<1>3. P = Nat
  <2>1. P \in SUBSET Nat  OBVIOUS
  <2> HIDE DEF P
  <2>2. QED  BY <1>1, <1>2, <2>1, SetInduction
<1>4. PICK f \in [0 .. n -> X] : Steps(n, f)
  <2>1. n \in P  BY <1>3
  <2>2. QED  BY <2>1
<1>5. \A i \in 0 .. n : f[i] = IF i = 0 THEN a ELSE h[i][f[i - 1]]
  <2>1. \A i \in 0 .. n : i = 0 \/ i \in 1 .. n  OBVIOUS
  <2>2. QED  BY <1>4, <2>1
<1>6. f = [i \in 0 .. n |-> f[i]]  OBVIOUS
<1>7. f = [i \in 0 .. n |-> IF i = 0 THEN a ELSE h[i][f[i - 1]]]  BY <1>5, <1>6
<1>8. QED  BY <1>7 DEF Computes

\* What h makes of each item of s.
Mapped(s, h) == [i \in DOMAIN s |-> h[s[i]]]

\* Filtering after such a change of each item, or before it.
LEMMA OnlyMaps ==
  ASSUME NEW T, NEW s \in Seq(T), NEW U, NEW h \in [T -> U], NEW S, NEW R,
         \A x \in T : x \in R <=> h[x] \in S
  PROVE  Only(Mapped(s, h), S) = Mapped(Only(s, R), h)
PROOF
<1> DEFINE m == Mapped(s, h)
<1>1. Len(s) \in Nat /\ DOMAIN s = 1 .. Len(s) /\ \A i \in 1 .. Len(s) : s[i] \in T
  BY LenProperties, ElementOfSeq
<1>2. m \in Seq(U) /\ Len(m) = Len(s) /\ \A i \in 1 .. Len(s) : m[i] = h[s[i]]
  <2>1. m = [i \in 1 .. Len(s) |-> h[s[i]]] /\ \A i \in 1 .. Len(s) : h[s[i]] \in U
    BY <1>1 DEF Mapped
  <2> HIDE DEF m
  <2>2. m \in [1 .. Len(s) -> U]  BY <2>1
  <2>3. QED  BY <1>1, <2>1, <2>2
<1> HIDE DEF m
<1>3. PICK f : KeptTo(s, R, Len(s), f) /\ Only(s, R) = f[Len(s)]  BY <1>1, OnlyKept
<1>4. PICK g : KeptTo(m, S, Len(m), g) /\ Only(m, S) = g[Len(m)]  BY <1>1, <1>2, OnlyKept
<1>5. /\ f[0] = <<>>
      /\ \A i \in 1 .. Len(s) :
           f[i] = IF s[i] \in R THEN Append(f[i - 1], s[i]) ELSE f[i - 1]
  BY <1>3, KeptSteps
<1>6. /\ g[0] = <<>>
      /\ \A i \in 1 .. Len(s) :
           g[i] = IF s[i] \in R THEN Append(g[i - 1], h[s[i]]) ELSE g[i - 1]
  <2>1. \A i \in 1 .. Len(m) :
          g[i] = IF m[i] \in S THEN Append(g[i - 1], m[i]) ELSE g[i - 1]
    BY <1>2, <1>4, KeptSteps
  <2>2. g[0] = <<>>  BY <1>2, <1>4, KeptSteps
  <2>3. QED  BY <1>1, <1>2, <2>1, <2>2
<1> DEFINE Good(k) == /\ f[k] \in Seq(T) /\ g[k] \in Seq(U) /\ Len(g[k]) = Len(f[k])
                      /\ \A i \in 1 .. Len(f[k]) : g[k][i] = h[f[k][i]]
           P == {k \in Nat : k <= Len(s) => Good(k)}
<1>7. 0 \in P
  <2>1. Good(0)  BY <1>5, <1>6
  <2> HIDE DEF Good
  <2>2. QED  BY <2>1
<1>8. ASSUME NEW k \in P PROVE k + 1 \in P
  <2> SUFFICES ASSUME k + 1 <= Len(s) PROVE Good(k + 1)  OBVIOUS
  <2>1. k \in Nat /\ k <= Len(s) /\ k + 1 \in 1 .. Len(s) /\ k + 1 - 1 = k  BY <1>1
  <2>2. Good(k)  BY <2>1
  <2> DEFINE x == s[k + 1]
  <2>3. /\ x \in T /\ h[x] \in U
        /\ f[k + 1] = IF x \in R THEN Append(f[k], x) ELSE f[k]
        /\ g[k + 1] = IF x \in R THEN Append(g[k], h[x]) ELSE g[k]
    BY <1>1, <1>5, <1>6, <2>1
  <2> HIDE DEF x
  <2>4. CASE x \notin R  BY <2>2, <2>3, <2>4
  <2>5. CASE x \in R
    <3> DEFINE a == Append(f[k], x)
               b == Append(g[k], h[x])
               l == Len(f[k])
    <3>1. f[k + 1] = a /\ g[k + 1] = b  BY <2>3, <2>5
    <3>2. /\ a \in Seq(T) /\ Len(a) = l + 1 /\ a[l + 1] = x
          /\ \A i \in 1 .. l : a[i] = f[k][i]
      BY <2>2, <2>3, AppendProperties
    <3>3. /\ b \in Seq(U) /\ Len(b) = l + 1 /\ b[l + 1] = h[x]
          /\ \A i \in 1 .. l : b[i] = g[k][i]
      BY <2>2, <2>3, AppendProperties
    <3>4. l \in Nat  BY <2>2, LenProperties
    <3>5. \A i \in 1 .. l : g[k][i] = h[f[k][i]]  BY <2>2
    <3> HIDE DEF a, b, l
    <3>6. \A i \in 1 .. l + 1 : i = l + 1 \/ i \in 1 .. l  BY <3>4
    <3>7. \A i \in 1 .. l + 1 : b[i] = h[a[i]]  BY <3>2, <3>3, <3>5, <3>6
    <3>8. QED  BY <3>1, <3>2, <3>3, <3>7
  <2>6. QED  BY <2>4, <2>5
<1>9. P = Nat
  <2>1. P \in SUBSET Nat  OBVIOUS
  <2> HIDE DEF P
  <2>2. QED  BY <1>7, <1>8, <2>1, SetInduction
<1>10. Good(Len(s))
  <2>1. Len(s) \in P
    <3> HIDE DEF P
    <3>1. QED  BY <1>1, <1>9
  <2>2. Len(s) <= Len(s)  BY <1>1
  <2> HIDE DEF Good
  <2>3. QED  BY <2>1, <2>2
<1> DEFINE p == Only(s, R)
           q == Only(m, S)
<1>11. /\ p \in Seq(T) /\ q \in Seq(U) /\ Len(q) = Len(p)
       /\ \A i \in 1 .. Len(p) : q[i] = h[p[i]]
  BY <1>2, <1>3, <1>4, <1>10
<1> HIDE DEF p, q
<1>12. DOMAIN p = 1 .. Len(p) /\ q = [i \in 1 .. Len(p) |-> q[i]]  BY <1>11, LenProperties
<1>13. q = [i \in DOMAIN p |-> h[p[i]]]  BY <1>11, <1>12
<1>14. QED  BY <1>13 DEF p, q, m, Mapped

-----------------------------------------------------------------------------
(* Sorting *)

\* R orders all of S.
Strict(R, S) ==
  /\ \A x \in S : <<x, x>> \notin R
  /\ \A x, y \in S : x = y \/ <<x, y>> \in R \/ <<y, x>> \in R
  /\ \A x, y, z \in S : <<x, y>> \in R /\ <<y, z>> \in R => <<x, z>> \in R

\* t lists the elements of S in the order R.
InOrder(R, n, t) == \A i, j \in 1 .. n : i < j => <<t[i], t[j]>> \in R

\* A finite set that is ordered has a last element.
LEMMA LastExists ==
  ASSUME NEW R, NEW n \in Nat
  PROVE  \A S : IsFiniteSet(S) /\ Cardinality(S) = n + 1 /\ Strict(R, S)
                  => \E x \in S : \A y \in S \ {x} : <<y, x>> \in R
PROOF
<1> DEFINE HasLast(S) == \E x \in S : \A y \in S \ {x} : <<y, x>> \in R
           Sized(m) == \A S : IsFiniteSet(S) /\ Cardinality(S) = m + 1 /\ Strict(R, S) => HasLast(S)
           P == {m \in Nat : Sized(m)}
<1>1. ASSUME NEW S, IsFiniteSet(S), NEW m \in Nat, Cardinality(S) = m + 1, Strict(R, S),
             m = 0 \/ Sized(m - 1)
      PROVE  HasLast(S)
  <2>1. S # {}  BY <1>1, FS_EmptySet
  <2>2. PICK x \in S : TRUE  BY <2>1
  <2>3. IsFiniteSet(S \ {x}) /\ Cardinality(S \ {x}) = m  BY <1>1, <2>2, FS_RemoveElement
  <2>4. CASE m = 0
    <3>1. S \ {x} = {}  BY <2>3, <2>4, FS_EmptySet
    <3>2. QED  BY <3>1
  <2>5. CASE m # 0
    <3>1. Sized(m - 1) /\ m - 1 + 1 = m  BY <1>1, <2>5
    <3>2. Strict(R, S \ {x})  BY <1>1 DEF Strict
    <3>3. HasLast(S \ {x})
      <4> HIDE DEF HasLast
      <4>1. QED  BY <2>3, <3>1, <3>2
    <3>4. PICK z \in S \ {x} : \A y \in (S \ {x}) \ {z} : <<y, z>> \in R  BY <3>3
    <3>5. CASE <<x, z>> \in R
      <4>1. \A y \in S \ {z} : <<y, z>> \in R  BY <3>4, <3>5
      <4>2. QED  BY <3>4, <4>1
    <3>6. CASE <<z, x>> \in R
      <4>1. \A y \in S \ {x} : <<y, x>> \in R  BY <1>1, <2>2, <3>4, <3>6 DEF Strict
      <4>2. QED  BY <2>2, <4>1
    <3>7. QED  BY <1>1, <2>2, <3>4, <3>5, <3>6 DEF Strict
  <2>6. QED  BY <2>4, <2>5
<1> HIDE DEF HasLast
<1>2. 0 \in P
  <2>1. Sized(0)  BY <1>1
  <2>2. QED  BY <2>1
<1>3. ASSUME NEW m \in P PROVE m + 1 \in P
  <2>1. m \in Nat /\ m + 1 \in Nat /\ m + 1 - 1 = m /\ Sized(m)  OBVIOUS
  <2>2. Sized(m + 1)
    <3>1. Sized(m + 1 - 1)  BY <2>1
    <3> HIDE DEF Sized
    <3>2. ASSUME NEW S, IsFiniteSet(S), Cardinality(S) = (m + 1) + 1, Strict(R, S)
          PROVE HasLast(S)
      BY <1>1, <2>1, <3>1, <3>2
    <3>3. QED  BY <3>2 DEF Sized
  <2>3. QED  BY <2>1, <2>2
<1>4. P = Nat
  <2>1. P \in SUBSET Nat  OBVIOUS
  <2> HIDE DEF P
  <2>2. QED  BY <1>2, <1>3, <2>1, SetInduction
<1>5. Sized(n)  BY <1>4
<1>6. QED  BY <1>5 DEF HasLast

\* A finite set that is ordered can be listed in its order.
LEMMA OrderExists ==
  ASSUME NEW R, NEW n \in Nat
  PROVE  \A S : IsFiniteSet(S) /\ Cardinality(S) = n /\ Strict(R, S)
                  => \E t \in [1 .. n -> S] : InOrder(R, n, t)
PROOF
<1> DEFINE HasOrder(S, m) == \E t \in [1 .. m -> S] : InOrder(R, m, t)
           Sized(m) == \A S : IsFiniteSet(S) /\ Cardinality(S) = m /\ Strict(R, S) => HasOrder(S, m)
           P == {m \in Nat : Sized(m)}
<1>1. 0 \in P
  <2>1. ASSUME NEW S PROVE HasOrder(S, 0)
    <3> DEFINE t == [i \in 1 .. 0 |-> 0]
    <3>1. t \in [1 .. 0 -> S] /\ InOrder(R, 0, t)  BY DEF InOrder
    <3>2. QED  BY <3>1
  <2> HIDE DEF HasOrder
  <2>2. QED  BY <2>1
<1>2. ASSUME NEW m \in P PROVE m + 1 \in P
  <2>1. m \in Nat /\ m + 1 \in Nat /\ Sized(m)  OBVIOUS
  <2>2. ASSUME NEW S, IsFiniteSet(S), Cardinality(S) = m + 1, Strict(R, S)
        PROVE  HasOrder(S, m + 1)
    <3>1. PICK x \in S : \A y \in S \ {x} : <<y, x>> \in R  BY <2>1, <2>2, LastExists
    <3>2. IsFiniteSet(S \ {x}) /\ Cardinality(S \ {x}) = m  BY <2>1, <2>2, <3>1, FS_RemoveElement
    <3>3. Strict(R, S \ {x})  BY <2>2 DEF Strict
    <3>4. HasOrder(S \ {x}, m)
      <4> HIDE DEF HasOrder
      <4>1. QED  BY <2>1, <3>2, <3>3
    <3>5. PICK t \in [1 .. m -> S \ {x}] : InOrder(R, m, t)  BY <3>4
    <3> DEFINE u == [i \in 1 .. m + 1 |-> IF i = m + 1 THEN x ELSE t[i]]
    <3>6. \A i \in 1 .. m + 1 : i = m + 1 \/ i \in 1 .. m  BY <2>1
    <3>7. u \in [1 .. m + 1 -> S]  BY <3>5, <3>6
    <3>8. u[m + 1] = x /\ \A i \in 1 .. m : u[i] = t[i]  BY <2>1
    <3>9. InOrder(R, m + 1, u)
      <4> HIDE DEF u
      <4> SUFFICES ASSUME NEW i \in 1 .. m + 1, NEW j \in 1 .. m + 1, i < j
          PROVE <<u[i], u[j]>> \in R
        BY DEF InOrder
      <4>1. i \in 1 .. m  BY <2>1
      <4>2. CASE j = m + 1
        <5>1. u[i] \in S \ {x} /\ u[j] = x  BY <3>5, <3>8, <4>1, <4>2
        <5>2. QED  BY <3>1, <5>1
      <4>3. CASE j \in 1 .. m
        <5>1. u[i] = t[i] /\ u[j] = t[j]  BY <3>8, <4>1, <4>3
        <5>2. QED  BY <3>5, <4>1, <4>3, <5>1 DEF InOrder
      <4>4. QED  BY <3>6, <4>2, <4>3
    <3> HIDE DEF u
    <3>10. QED  BY <3>7, <3>9
  <2> HIDE DEF HasOrder
  <2>3. QED  BY <2>1, <2>2
<1>3. P = Nat
  <2>1. P \in SUBSET Nat  OBVIOUS
  <2> HIDE DEF P
  <2>2. QED  BY <1>1, <1>2, <2>1, SetInduction
<1>4. Sized(n)  BY <1>3
<1>5. QED  BY <1>4

\* A sequence without repetition has as many elements as places.
LEMMA ElementsAre ==
  ASSUME NEW T, NEW s \in Seq(T), IsInjective(s)
  PROVE  IsFiniteSet(ToSet(s)) /\ Cardinality(ToSet(s)) = Len(s)
PROOF
<1>1. Len(s) \in Nat /\ DOMAIN s = 1 .. Len(s) /\ s \in [1 .. Len(s) -> T]  BY LenProperties
<1>2. s \in [1 .. Len(s) -> ToSet(s)]  BY <1>1 DEF ToSet
<1>3. s \in Bijection(1 .. Len(s), ToSet(s))
  <2>1. s \in Injection(1 .. Len(s), ToSet(s))  BY <1>1, <1>2 DEF Injection, IsInjective
  <2>2. s \in Surjection(1 .. Len(s), ToSet(s))  BY <1>1, <1>2 DEF Surjection, ToSet
  <2>3. QED  BY <2>1, <2>2 DEF Bijection
<1>4. IsFiniteSet(1 .. Len(s)) /\ Cardinality(1 .. Len(s)) = Len(s)  BY <1>1, FS_Interval
<1>5. ExistsBijection(1 .. Len(s), ToSet(s))  BY <1>3 DEF ExistsBijection
<1>6. QED  BY <1>4, <1>5, FS_Bijection

\* So it can be sorted,
LEMMA SortExists ==
  ASSUME NEW T, NEW s \in Seq(T), IsInjective(s), NEW R, Strict(R, ToSet(s))
  PROVE  \E t \in [DOMAIN s -> ToSet(s)] : \A i, j \in DOMAIN s : i < j => <<t[i], t[j]>> \in R
PROOF
<1>1. DOMAIN s = 1 .. Len(s) /\ Len(s) \in Nat  BY LenProperties
<1>2. IsFiniteSet(ToSet(s)) /\ Cardinality(ToSet(s)) = Len(s)  BY ElementsAre
<1>3. PICK t \in [1 .. Len(s) -> ToSet(s)] : InOrder(R, Len(s), t)  BY <1>1, <1>2, OrderExists
<1>4. QED  BY <1>1, <1>3 DEF InOrder

\* t has the elements of s, once each, in some order.
Arranges(t, s, T) ==
  t \in Seq(T) /\ Len(t) = Len(s) /\ IsInjective(t) /\ ToSet(t) = ToSet(s)

\* and what is sorted has the same elements, once each.
LEMMA SortedIs ==
  ASSUME NEW T, NEW s \in Seq(T), IsInjective(s), NEW R, Strict(R, ToSet(s)),
         NEW t \in [DOMAIN s -> ToSet(s)],
         \A i, j \in DOMAIN s : i < j => <<t[i], t[j]>> \in R
  PROVE  Arranges(t, s, T)
PROOF
<1>1. DOMAIN s = 1 .. Len(s) /\ Len(s) \in Nat /\ ToSet(s) \subseteq T
  <2>1. DOMAIN s = 1 .. Len(s) /\ Len(s) \in Nat  BY LenProperties
  <2>2. \A i \in 1 .. Len(s) : s[i] \in T  BY ElementOfSeq
  <2>3. QED  BY <2>1, <2>2 DEF ToSet
<1>2. t \in Seq(T) /\ Len(t) = Len(s)
  <2>1. t \in [1 .. Len(s) -> T]  BY <1>1
  <2>2. t \in Seq(T)  BY <1>1, <2>1, SeqDef
  <2>3. QED  BY <1>1, <2>1, <2>2, LenProperties
<1>3. ASSUME NEW i \in DOMAIN s, NEW j \in DOMAIN s, t[i] = t[j] PROVE i = j
  <2>1. t[i] \in ToSet(s) /\ t[j] \in ToSet(s)  OBVIOUS
  <2>2. ~(i < j) /\ ~(j < i)  BY <1>3, <2>1 DEF Strict
  <2>3. i \in Nat /\ j \in Nat  BY <1>1
  <2>4. QED  BY <2>2, <2>3
<1>4. IsInjective(t)  BY <1>3 DEF IsInjective
<1>5. t \in Surjection(DOMAIN s, ToSet(s))
  <2>1. t \in Injection(DOMAIN s, ToSet(s))  BY <1>4 DEF Injection, IsInjective
  <2>2. IsFiniteSet(ToSet(s)) /\ Cardinality(ToSet(s)) = Len(s)  BY ElementsAre
  <2>3. Cardinality(DOMAIN s) = Len(s)
    <3>1. Cardinality(1 .. Len(s)) = Len(s)
      <4>1. Len(s) \in Nat  BY <1>1
      <4>2. QED  BY ONLY <4>1, FS_Interval
    <3>2. QED  BY <1>1, <3>1
  <2>4. QED  BY <2>1, <2>2, <2>3, FS_Injection
<1>6. ToSet(t) = ToSet(s)  BY <1>5 DEF Surjection, ToSet
<1>7. QED  BY <1>2, <1>4, <1>6 DEF Arranges

\* So that is what Sorted gives.
LEMMA SortIs ==
  ASSUME NEW T, NEW s \in Seq(T), IsInjective(s), NEW R, Strict(R, ToSet(s)),
         NEW t, t = Sorted(s, R)
  PROVE  Arranges(t, s, T) /\ \A i, j \in DOMAIN s : i < j => <<t[i], t[j]>> \in R
PROOF
<1> DEFINE Ok(u) == \A i, j \in DOMAIN s : i < j => <<u[i], u[j]>> \in R
<1>1. t = CHOOSE u \in [DOMAIN s -> ToSet(s)] : Ok(u)  BY DEF Sorted
<1>2. \E u \in [DOMAIN s -> ToSet(s)] : Ok(u)  BY SortExists
<1>3. t \in [DOMAIN s -> ToSet(s)] /\ Ok(t)
  <2> HIDE DEF Ok
  <2>1. QED  BY <1>1, <1>2
<1>4. Arranges(t, s, T)  BY <1>3, SortedIs
<1>5. QED  BY <1>3, <1>4

-----------------------------------------------------------------------------
(* Places *)

\* Places in a ranking are numbers, and tell its elements apart.
LEMMA RankIs ==
  ASSUME NEW T, NEW s \in Seq(T), NEW d \in ToSet(s)
  PROVE  Rank(s, d) \in 1 .. Len(s) /\ s[Rank(s, d)] = d
PROOF
<1>1. DOMAIN s = 1 .. Len(s)  BY LenProperties
<1>2. \E i \in DOMAIN s : s[i] = d  BY DEF ToSet
<1>3. QED  BY <1>1, <1>2 DEF Rank

\* In a ranking without repetition the item at a place has that rank.
LEMMA PlaceIs ==
  ASSUME NEW T, NEW s \in Seq(T), IsInjective(s), NEW i \in 1 .. Len(s)
  PROVE  Rank(s, s[i]) = i
PROOF
<1>1. DOMAIN s = 1 .. Len(s)  BY LenProperties
<1>2. s[i] \in ToSet(s)  BY <1>1 DEF ToSet
<1>3. Rank(s, s[i]) \in 1 .. Len(s) /\ s[Rank(s, s[i])] = s[i]  BY <1>2, RankIs
<1>4. QED  BY <1>1, <1>3 DEF IsInjective

\* Filtering keeps the order of what it leaves.
LEMMA OnlyOrder ==
  ASSUME NEW T, NEW s \in Seq(T), IsInjective(s), NEW S,
         NEW i \in 1 .. Len(Only(s, S)), NEW j \in 1 .. Len(Only(s, S)), i < j
  PROVE  Rank(s, Only(s, S)[i]) < Rank(s, Only(s, S)[j])
PROOF
<1>1. Len(s) \in Nat /\ DOMAIN s = 1 .. Len(s) /\ \A k \in 1 .. Len(s) : s[k] \in T
  BY LenProperties, ElementOfSeq
<1>2. PICK f : KeptTo(s, S, Len(s), f) /\ Only(s, S) = f[Len(s)]  BY <1>1, OnlyKept
<1>3. /\ f[0] = <<>>
      /\ \A k \in 1 .. Len(s) :
           f[k] = IF s[k] \in S THEN Append(f[k - 1], s[k]) ELSE f[k - 1]
  <2>1. \A k \in 0 .. Len(s) :
          f[k] = IF k = 0 THEN <<>>
                 ELSE IF s[k] \in S THEN Append(f[k - 1], s[k]) ELSE f[k - 1]
    BY <1>2 DEF KeptTo
  <2>2. 0 \in 0 .. Len(s) /\ \A k \in 1 .. Len(s) : k \in 0 .. Len(s) /\ k # 0  BY <1>1
  <2>3. QED  BY <2>1, <2>2
<1> DEFINE Good(n) == /\ f[n] \in Seq(T)
                      /\ \A k \in 1 .. Len(f[n]) : Rank(s, f[n][k]) \in 1 .. n
                      /\ \A k, m \in 1 .. Len(f[n]) :
                           k < m => Rank(s, f[n][k]) < Rank(s, f[n][m])
           P == {n \in Nat : n <= Len(s) => Good(n)}
<1>4. 0 \in P
  <2>1. <<>> \in Seq(T) /\ Len(<<>>) = 0  OBVIOUS
  <2>2. Good(0)  BY <1>3, <2>1
  <2> HIDE DEF Good
  <2>3. QED  BY <2>2
<1>5. ASSUME NEW n \in P PROVE n + 1 \in P
  <2> SUFFICES ASSUME n + 1 <= Len(s) PROVE Good(n + 1)  OBVIOUS
  <2> DEFINE x == s[n + 1]
  <2>1. n \in Nat /\ n <= Len(s) /\ n + 1 \in 1 .. Len(s) /\ n + 1 - 1 = n
    BY <1>1
  <2>2. Good(n)  BY <2>1
  <2>3. x \in T /\ f[n + 1] = IF x \in S THEN Append(f[n], x) ELSE f[n]
    BY <1>1, <1>3, <2>1
  <2>4. Rank(s, x) = n + 1  BY <2>1, PlaceIs
  <2> HIDE DEF x
  <2>5. CASE x \notin S  BY <2>1, <2>2, <2>3, <2>5
  <2>6. CASE x \in S
    <3> DEFINE a == f[n + 1]
               l == Len(f[n])
    <3>1. a = Append(f[n], x)  BY <2>3, <2>6
    <3>2. l \in Nat /\ f[n] \in Seq(T)  BY <2>2, LenProperties
    <3> HIDE DEF a
    <3>3. /\ a \in Seq(T) /\ Len(a) = l + 1 /\ a[l + 1] = x
          /\ \A k \in 1 .. l : a[k] = f[n][k]
      BY <2>3, <3>1, <3>2, AppendProperties
    <3> HIDE DEF l
    <3>4. \A k \in 1 .. l + 1 : k = l + 1 \/ k \in 1 .. l  BY <3>2
    <3>5. \A k \in 1 .. l : Rank(s, a[k]) \in 1 .. n  BY <2>2, <3>3 DEF l
    <3>6. \A k \in 1 .. l + 1 : Rank(s, a[k]) \in 1 .. n + 1  BY <2>1, <2>4, <3>3, <3>4, <3>5
    <3>7. ASSUME NEW k \in 1 .. l + 1, NEW m \in 1 .. l + 1, k < m
          PROVE  Rank(s, a[k]) < Rank(s, a[m])
      <4>1. k \in 1 .. l  BY <3>2, <3>7
      <4>2. CASE m = l + 1
        <5>1. Rank(s, a[m]) = n + 1 /\ Rank(s, a[k]) \in 1 .. n  BY <2>4, <3>3, <3>5, <4>1, <4>2
        <5>2. QED  BY <2>1, <5>1
      <4>3. CASE m \in 1 .. l
        <5>1. Rank(s, f[n][k]) < Rank(s, f[n][m])  BY <2>2, <3>7, <4>1, <4>3 DEF l
        <5>2. QED  BY <3>3, <4>1, <4>3, <5>1
      <4>4. QED  BY <3>4, <4>2, <4>3
    <3>8. QED  BY <3>3, <3>6, <3>7 DEF a
  <2>7. QED  BY <2>5, <2>6
<1>6. P = Nat
  <2>1. P \in SUBSET Nat  OBVIOUS
  <2> HIDE DEF P
  <2>2. QED  BY <1>4, <1>5, <2>1, SetInduction
<1>7. Good(Len(s))
  <2>1. Len(s) \in P
    <3> HIDE DEF P
    <3>1. QED  BY <1>1, <1>6
  <2>2. Len(s) <= Len(s)  BY <1>1
  <2> HIDE DEF Good
  <2>3. QED  BY <2>1, <2>2
<1>8. QED  BY <1>2, <1>7

\* So two items compare in what is left as they did before.
LEMMA OnlyRanks ==
  ASSUME NEW T, NEW s \in Seq(T), IsInjective(s), NEW S, NEW o, o = Only(s, S),
         NEW d \in ToSet(o), NEW e \in ToSet(o)
  PROVE  Rank(o, d) < Rank(o, e) <=> Rank(s, d) < Rank(s, e)
PROOF
<1> DEFINE i == Rank(o, d)
           j == Rank(o, e)
<1>1. o \in Seq(T) /\ ToSet(o) \subseteq ToSet(s)  BY OnlyIs
<1>2. i \in 1 .. Len(o) /\ o[i] = d /\ j \in 1 .. Len(o) /\ o[j] = e  BY <1>1, RankIs
<1> HIDE DEF i, j
<1>3. i < j => Rank(s, d) < Rank(s, e)  BY <1>2, OnlyOrder
<1>4. j < i => Rank(s, e) < Rank(s, d)  BY <1>2, OnlyOrder
<1>5. Rank(s, d) \in Nat /\ Rank(s, e) \in Nat
  <2>1. Rank(s, d) \in 1 .. Len(s) /\ Rank(s, e) \in 1 .. Len(s)  BY <1>1, RankIs
  <2>2. QED  BY <2>1
<1>6. i = j => d = e  BY <1>2
<1>7. i \in Nat /\ j \in Nat  BY <1>2
<1>8. i < j <=> Rank(s, d) < Rank(s, e)  BY <1>3, <1>4, <1>5, <1>6, <1>7
<1>9. QED  BY <1>8 DEF i, j

\* The place of an item in a sorted list counts the items before it.
LEMMA CountIs ==
  ASSUME NEW T, NEW t \in Seq(T), IsInjective(t), NEW R, Strict(R, ToSet(t)),
         \A i, j \in 1 .. Len(t) : i < j => <<t[i], t[j]>> \in R,
         NEW k \in 1 .. Len(t)
  PROVE  Cardinality({e \in ToSet(t) : <<e, t[k]>> \in R}) = k - 1
PROOF
<1> DEFINE b == Best(k - 1, t)
<1>1. DOMAIN t = 1 .. Len(t) /\ Len(t) \in Nat /\ k - 1 \in Nat  BY LenProperties
<1>2. /\ b \in Seq(T) /\ Len(b) = (IF k - 1 < Len(t) THEN k - 1 ELSE Len(t))
      /\ \A i \in 1 .. Len(b) : i \in 1 .. Len(t) /\ b[i] = t[i]
      /\ IsInjective(b)
  BY <1>1, BestIs
<1> HIDE DEF b
<1>3. Len(b) = k - 1  BY <1>1, <1>2
<1>4. DOMAIN b = 1 .. k - 1  BY <1>2, <1>3, LenProperties
<1>5. ASSUME NEW e \in ToSet(b) PROVE e \in ToSet(t) /\ <<e, t[k]>> \in R
  <2>1. PICK i \in 1 .. k - 1 : e = b[i]  BY <1>4 DEF ToSet
  <2>2. i \in 1 .. Len(t) /\ e = t[i] /\ i < k  BY <1>1, <1>2, <1>3, <2>1
  <2>3. QED  BY <1>1, <2>2 DEF ToSet
<1>6. ASSUME NEW e \in ToSet(t), <<e, t[k]>> \in R PROVE e \in ToSet(b)
  <2>1. PICK i \in 1 .. Len(t) : e = t[i]  BY <1>1 DEF ToSet
  <2>2. t[k] \in ToSet(t)  BY <1>1 DEF ToSet
  <2>3. <<t[k], t[k]>> \notin R  BY <2>2 DEF Strict
  <2>4. ~(k < i)
    <3>1. k < i => <<t[k], e>> \in R  BY <2>1
    <3>2. <<e, t[k]>> \in R /\ <<t[k], e>> \in R => <<t[k], t[k]>> \in R
      BY <2>2 DEF Strict
    <3>3. QED  BY <1>6, <2>3, <3>1, <3>2
  <2>5. i # k  BY <1>6, <2>1, <2>3
  <2>6. i \in 1 .. k - 1  BY <1>1, <2>1, <2>4, <2>5
  <2>7. b[i] = e  BY <1>2, <1>3, <2>1, <2>6
  <2>8. QED  BY <1>4, <2>6, <2>7 DEF ToSet
<1>7. {e \in ToSet(t) : <<e, t[k]>> \in R} = ToSet(b)  BY <1>5, <1>6
<1>8. Cardinality(ToSet(b)) = Len(b)  BY <1>2, ElementsAre
<1>9. QED  BY <1>3, <1>7, <1>8

-----------------------------------------------------------------------------
(* The first hits of a list *)

\* Lists that begin alike have the same first items.
LEMMA BestBegins ==
  ASSUME NEW T, NEW p \in Seq(T), NEW q \in Seq(T), Begins(p, q), NEW k \in Nat, k <= Len(p)
  PROVE  Best(k, p) = Best(k, q)
PROOF
<1>1. /\ Len(p) \in Nat /\ Len(q) \in Nat /\ Len(p) <= Len(q)
      /\ \A i \in 1 .. Len(p) : q[i] = p[i]
  BY LenProperties DEF Begins
<1> DEFINE b == Best(k, p)
           c == Best(k, q)
<1>2. b \in Seq(T) /\ Len(b) = k /\ \A i \in 1 .. k : b[i] = p[i]
  <2>1. /\ b \in Seq(T) /\ Len(b) = (IF k < Len(p) THEN k ELSE Len(p))
        /\ \A i \in 1 .. Len(b) : b[i] = p[i]
    BY BestIs
  <2> HIDE DEF b
  <2>2. Len(b) = k  BY <1>1, <2>1
  <2>3. QED  BY <2>1, <2>2
<1>3. c \in Seq(T) /\ Len(c) = k /\ \A i \in 1 .. k : c[i] = q[i]
  <2>1. /\ c \in Seq(T) /\ Len(c) = (IF k < Len(q) THEN k ELSE Len(q))
        /\ \A i \in 1 .. Len(c) : c[i] = q[i]
    BY BestIs
  <2> HIDE DEF c
  <2>2. Len(c) = k  BY <1>1, <2>1
  <2>3. QED  BY <2>1, <2>2
<1> HIDE DEF b, c
<1>4. \A i \in 1 .. k : i \in 1 .. Len(p)  BY <1>1
<1>5. \A i \in 1 .. Len(b) : b[i] = c[i]  BY <1>1, <1>2, <1>3, <1>4
<1>6. b = c  BY <1>2, <1>3, <1>5, SeqEqual
<1>7. QED  BY <1>6 DEF b, c

\* Filtering takes away no more than what is filtered out.
LEMMA EnoughLeft ==
  ASSUME NEW T, NEW s \in Seq(T), IsInjective(s), NEW dead, IsFiniteSet(dead), NEW S,
         ToSet(s) \ dead \subseteq S
  PROVE  Len(s) - Cardinality(dead) <= Len(Only(s, S))
PROOF
<1> DEFINE o == Only(s, S)
<1>1. o \in Seq(T) /\ IsInjective(o) /\ ToSet(o) = ToSet(s) \intersect S  BY OnlyIs
<1>2. IsFiniteSet(ToSet(o)) /\ Cardinality(ToSet(o)) = Len(o)  BY <1>1, ElementsAre
<1> HIDE DEF o
<1>3. IsFiniteSet(ToSet(s)) /\ Cardinality(ToSet(s)) = Len(s)  BY ElementsAre
<1>4. ToSet(s) \subseteq ToSet(o) \union dead  BY <1>1
<1>5. /\ IsFiniteSet(ToSet(o) \union dead)
      /\ Cardinality(ToSet(o) \union dead)
           = Cardinality(ToSet(o)) + Cardinality(dead) - Cardinality(ToSet(o) \intersect dead)
  BY <1>2, FS_Union
<1>6. Cardinality(ToSet(s)) <= Cardinality(ToSet(o) \union dead)  BY <1>4, <1>5, FS_Subset
<1>7. IsFiniteSet(ToSet(o) \intersect dead)  BY <1>2, FS_Intersection
<1>8. /\ Cardinality(ToSet(o) \intersect dead) \in Nat /\ Cardinality(dead) \in Nat
      /\ Len(o) \in Nat /\ Len(s) \in Nat
  BY <1>1, <1>7, FS_CardinalityType, LenProperties
<1>9. Len(s) - Cardinality(dead) <= Len(o)  BY <1>2, <1>3, <1>5, <1>6, <1>8
<1>10. QED  BY <1>9 DEF o

\* Of a list of which dead items are to be hidden, k more than those are
\* enough to find the first k that are not hidden among the first p.
LEMMA OverFetch ==
  ASSUME NEW T, NEW r \in Seq(T), IsInjective(r), NEW dead, IsFiniteSet(dead),
         NEW m \in Nat, m = Cardinality(dead), NEW n \in Nat, n = Len(r),
         NEW k \in Nat, NEW p \in 0 .. n, NEW f \in 0 .. n, f = n \/ f = k + m,
         NEW L, dead \intersect L = {}, ToSet(r) \subseteq L \union dead,
         NEW found, found = ToSet(Best(p, r)) \ dead
  PROVE  Best(k, Only(Best(f, r), found)) = Best(k, Only(Best(p, r), L))
PROOF
<1> DEFINE a == Best(f, r)
           b == Best(p, r)
<1>1. DOMAIN r = 1 .. n  BY LenProperties
<1>2. /\ a \in Seq(T) /\ Len(a) = (IF f < n THEN f ELSE n) /\ IsInjective(a)
      /\ \A i \in 1 .. Len(a) : a[i] = r[i]
  BY <1>1, BestIs
<1>3. /\ b \in Seq(T) /\ Len(b) = (IF p < n THEN p ELSE n) /\ IsInjective(b)
      /\ \A i \in 1 .. Len(b) : b[i] = r[i]
  BY <1>1, BestIs
<1> HIDE DEF a, b
<1>4. Len(a) = f /\ Len(b) = p /\ DOMAIN b = 1 .. p /\ DOMAIN a = 1 .. f
  <2>1. Len(a) = f  BY <1>1, <1>2
  <2>2. Len(b) = p  BY <1>1, <1>3
  <2>3. QED  BY <1>2, <1>3, <2>1, <2>2, LenProperties
<1>5. \A i \in 1 .. n : r[i] \in L <=> r[i] \notin dead  BY <1>1 DEF ToSet
<1>6. found = ToSet(b) \ dead  BY DEF b
<1>7. \A i \in 1 .. p : i \in 1 .. n /\ b[i] = r[i] /\ (b[i] \in found <=> b[i] \in L)
  <2>1. \A i \in 1 .. p : i \in 1 .. n /\ b[i] = r[i] /\ b[i] \in ToSet(b)
    BY <1>1, <1>3, <1>4 DEF ToSet
  <2>2. QED  BY <1>5, <1>6, <2>1
<1>8. \A i \in 1 .. f : i \in 1 .. n /\ a[i] = r[i]  BY <1>1, <1>2, <1>4
<1>9. CASE p <= f
  <2>1. \A i \in 1 .. p : i \in 1 .. f /\ a[i] = b[i]  BY <1>1, <1>7, <1>8, <1>9
  <2>2. Begins(b, a)  BY <1>4, <1>9, <2>1 DEF Begins
  <2>3. ASSUME NEW i \in p + 1 .. f PROVE a[i] \notin found
    <3>1. i \in 1 .. n /\ a[i] = r[i] /\ i \notin 1 .. p  BY <1>1, <1>8
    <3>2. \A j \in 1 .. p : r[j] # r[i]  BY <1>1, <1>7, <3>1 DEF IsInjective
    <3>3. r[i] \notin ToSet(b)  BY <1>4, <1>7, <3>2 DEF ToSet
    <3>4. QED  BY <1>6, <3>1, <3>3
  <2>4. Only(a, found) = Only(b, L)
    <3>1. \A i \in 1 .. Len(b) : b[i] \in L <=> b[i] \in found  BY <1>4, <1>7
    <3>2. \A i \in Len(b) + 1 .. Len(a) : a[i] \notin found  BY <1>4, <2>3
    <3>3. QED  BY <1>2, <1>3, <2>2, <3>1, <3>2, OnlyBegins
  <2>5. QED  BY <2>4 DEF a, b
<1>10. CASE f < p
  <2>1. f = k + m  BY <1>1, <1>10
  <2>2. \A i \in 1 .. f : i \in 1 .. p /\ b[i] = a[i]  BY <1>1, <1>7, <1>8, <1>10
  <2>3. Begins(a, b)  BY <1>1, <1>4, <1>10, <2>2 DEF Begins
  <2>4. \A i \in 1 .. Len(a) : a[i] \in found <=> a[i] \in L  BY <1>4, <1>7, <2>2
  <2>5. Begins(Only(a, found), Only(b, L))  BY <1>2, <1>3, <2>3, <2>4, OnlyBegins
  <2>6. ToSet(a) \ dead \subseteq found
    <3>1. ASSUME NEW y \in ToSet(a) PROVE y \in ToSet(b)
      <4>1. PICK i \in 1 .. f : y = a[i]  BY <1>4 DEF ToSet
      <4>2. i \in DOMAIN b /\ y = b[i]  BY <1>4, <2>2, <4>1
      <4>3. QED  BY <4>2 DEF ToSet
    <3>2. QED  BY <1>6, <3>1
  <2>7. Len(a) - Cardinality(dead) <= Len(Only(a, found))  BY <1>2, <2>6, EnoughLeft
  <2>8. Only(a, found) \in Seq(T) /\ Only(b, L) \in Seq(T)  BY <1>2, <1>3, OnlyIs
  <2>9. k <= Len(Only(a, found))
    <3>1. Len(a) - Cardinality(dead) = k  BY <1>4, <2>1
    <3>2. QED  BY <2>7, <3>1
  <2>10. Best(k, Only(a, found)) = Best(k, Only(b, L))  BY <2>5, <2>8, <2>9, BestBegins
  <2>11. QED  BY <2>10 DEF a, b
<1>11. QED  BY <1>1, <1>9, <1>10

-----------------------------------------------------------------------------
(* Sums *)

\* The element that a sum over s takes next, and the sums over the subsets of S.
Some(s) == CHOOSE x \in s : TRUE
SumStep(f, it, s) == IF s = {} THEN 0 ELSE f[Some(s)] + it[s \ {Some(s)}]
SumsOf(f, S, it) == it = [s \in SUBSET S |-> SumStep(f, it, s)]

\* The subsets of S that have at most n elements.
Small(S, n) == {s \in SUBSET S : IsFiniteSet(s) /\ Cardinality(s) <= n}

\* There are such sums, for any finite set.
LEMMA SumsExist ==
  ASSUME NEW f, NEW S, IsFiniteSet(S)
  PROVE  \E it : SumsOf(f, S, it)
PROOF
<1> DEFINE Has(n) == \E it : it = [s \in Small(S, n) |-> SumStep(f, it, s)]
           P == {n \in Nat : Has(n)}
<1>1. 0 \in P
  <2> DEFINE it == [s \in Small(S, 0) |-> 0]
  <2>1. ASSUME NEW s \in Small(S, 0) PROVE s = {}
    BY FS_EmptySet, FS_CardinalityType DEF Small
  <2>2. it = [s \in Small(S, 0) |-> SumStep(f, it, s)]  BY <2>1 DEF SumStep
  <2> HIDE DEF it
  <2>3. QED  BY <2>2
<1>2. ASSUME NEW n \in P PROVE n + 1 \in P
  <2>1. PICK it : it = [s \in Small(S, n) |-> SumStep(f, it, s)]  OBVIOUS
  <2> DEFINE new == [s \in Small(S, n + 1) |-> SumStep(f, it, s)]
  <2>2. n \in Nat  OBVIOUS
  <2>3. ASSUME NEW s \in Small(S, n + 1), s # {}
        PROVE  s \ {Some(s)} \in Small(S, n) /\ s \ {Some(s)} \in Small(S, n + 1)
    <3>1. Some(s) \in s  BY <2>3 DEF Some
    <3>2. s \ {Some(s)} \in SUBSET S /\ IsFiniteSet(s \ {Some(s)})
          /\ Cardinality(s \ {Some(s)}) = Cardinality(s) - 1
      BY <3>1, FS_RemoveElement DEF Small
    <3>3. Cardinality(s) \in Nat /\ Cardinality(s) <= n + 1
      BY FS_CardinalityType DEF Small
    <3>4. Cardinality(s \ {Some(s)}) <= n /\ Cardinality(s \ {Some(s)}) <= n + 1
      BY ONLY <2>2, <3>2, <3>3
    <3>5. QED  BY <3>2, <3>4 DEF Small
  <2>4. ASSUME NEW s \in Small(S, n) PROVE new[s] = it[s]
    <3>1. s \in Small(S, n + 1)
      <4>1. IsFiniteSet(s) /\ Cardinality(s) <= n /\ s \in SUBSET S  BY DEF Small
      <4>2. Cardinality(s) \in Nat  BY <4>1, FS_CardinalityType
      <4>3. Cardinality(s) <= n + 1  BY ONLY <2>2, <4>1, <4>2
      <4>4. QED  BY <4>1, <4>3 DEF Small
    <3>2. it[s] = SumStep(f, it, s)  BY <2>1
    <3>3. QED  BY <3>1, <3>2
  <2>5. ASSUME NEW s \in Small(S, n + 1) PROVE SumStep(f, it, s) = SumStep(f, new, s)
    <3> HIDE DEF new
    <3>1. CASE s = {}  BY <3>1 DEF SumStep
    <3>2. CASE s # {}
      <4>1. new[s \ {Some(s)}] = it[s \ {Some(s)}]  BY <2>3, <2>4, <3>2
      <4>2. QED  BY <3>2, <4>1 DEF SumStep
    <3>3. QED  BY <3>1, <3>2
  <2>6. new = [s \in Small(S, n + 1) |-> SumStep(f, new, s)]  BY <2>5
  <2> HIDE DEF new
  <2>7. QED  BY <2>2, <2>6
<1>3. P = Nat
  <2>1. P \in SUBSET Nat  OBVIOUS
  <2> HIDE DEF P
  <2>2. QED  BY <1>1, <1>2, <2>1, SetInduction
<1>4. Has(Cardinality(S))
  <2> HIDE DEF Has
  <2>1. QED  BY <1>3, FS_CardinalityType
<1>5. Small(S, Cardinality(S)) = SUBSET S
  BY FS_Subset, FS_CardinalityType DEF Small
<1>6. QED  BY <1>4, <1>5 DEF SumsOf

\* A sum depends on the values it is taken over, and on nothing else.
LEMMA SumsAgree ==
  ASSUME NEW f, NEW S, IsFiniteSet(S), NEW it, SumsOf(f, S, it),
         NEW g, NEW T, IsFiniteSet(T), NEW jt, SumsOf(g, T, jt),
         NEW R, R \subseteq S, R \subseteq T, \A x \in R : f[x] = g[x]
  PROVE  it[R] = jt[R]
PROOF
<1> DEFINE Ok(n) == \A s \in SUBSET R : Cardinality(s) = n => it[s] = jt[s]
           P == {n \in Nat : Ok(n)}
<1>1. ASSUME NEW s \in SUBSET R
      PROVE  /\ IsFiniteSet(s) /\ Cardinality(s) \in Nat
             /\ it[s] = SumStep(f, it, s) /\ jt[s] = SumStep(g, jt, s)
  <2>1. s \in SUBSET S /\ s \in SUBSET T  OBVIOUS
  <2>2. IsFiniteSet(s) /\ Cardinality(s) \in Nat  BY <2>1, FS_Subset, FS_CardinalityType
  <2>3. it[s] = SumStep(f, it, s) /\ jt[s] = SumStep(g, jt, s)  BY <2>1 DEF SumsOf
  <2>4. QED  BY <2>2, <2>3
<1>2. 0 \in P
  <2>1. ASSUME NEW s \in SUBSET R, Cardinality(s) = 0 PROVE it[s] = jt[s]
    <3>1. s = {}  BY <1>1, <2>1, FS_EmptySet
    <3>2. QED  BY <1>1, <3>1 DEF SumStep
  <2>2. QED  BY <2>1
<1>3. ASSUME NEW n \in P PROVE n + 1 \in P
  <2>1. ASSUME NEW s \in SUBSET R, Cardinality(s) = n + 1 PROVE it[s] = jt[s]
    <3> DEFINE x == Some(s)
    <3>1. s # {}  BY <2>1, FS_EmptySet
    <3>2. x \in s  BY <3>1 DEF Some
    <3> HIDE DEF x
    <3>3. Cardinality(s \ {x}) = n /\ s \ {x} \in SUBSET R
      BY <1>1, <2>1, <3>2, FS_RemoveElement
    <3>4. it[s \ {x}] = jt[s \ {x}]  BY <3>3
    <3>5. f[x] = g[x]  BY <3>2
    <3>6. it[s] = f[x] + it[s \ {x}] /\ jt[s] = g[x] + jt[s \ {x}]
      BY <1>1, <3>1 DEF SumStep, x
    <3>7. QED  BY <3>4, <3>5, <3>6
  <2>2. QED  BY <2>1
<1>4. P = Nat
  <2>1. P \in SUBSET Nat  OBVIOUS
  <2> HIDE DEF P
  <2>2. QED  BY <1>2, <1>3, <2>1, SetInduction
<1>5. Ok(Cardinality(R))
  <2> HIDE DEF Ok
  <2>1. QED  BY <1>1, <1>4
<1>6. QED  BY <1>5

\* What SumFunctionOnSet is.
LEMMA SumIs ==
  ASSUME NEW f, NEW S, IsFiniteSet(S)
  PROVE  \E it : SumsOf(f, S, it) /\ SumFunctionOnSet(f, S) = it[S]
PROOF
<1> DEFINE c == CHOOSE it : SumsOf(f, S, it)
<1>1. SumsOf(f, S, c)  BY SumsExist
<1>2. SumFunctionOnSet(f, S) = c[S]
  BY DEF SumFunctionOnSet, FoldFunctionOnSet, MapThenFoldSet, SumsOf, SumStep, Some
<1> HIDE DEF c
<1>3. QED  BY <1>1, <1>2

\* Sums of the same values are the same.
LEMMA SumSame ==
  ASSUME NEW f, NEW g, NEW S, IsFiniteSet(S), \A x \in S : f[x] = g[x]
  PROVE  SumFunctionOnSet(f, S) = SumFunctionOnSet(g, S)
PROOF
<1>1. PICK it : SumsOf(f, S, it) /\ SumFunctionOnSet(f, S) = it[S]  BY SumIs
<1>2. PICK jt : SumsOf(g, S, jt) /\ SumFunctionOnSet(g, S) = jt[S]  BY SumIs
<1>3. it[S] = jt[S]  BY <1>1, <1>2, SumsAgree
<1>4. QED  BY <1>1, <1>2, <1>3

\* Nothing adds up to nothing.
LEMMA SumEmpty == ASSUME NEW f PROVE SumFunctionOnSet(f, {}) = 0
PROOF
<1>1. IsFiniteSet({})  BY FS_EmptySet
<1>2. PICK it : SumsOf(f, {}, it) /\ SumFunctionOnSet(f, {}) = it[{}]  BY <1>1, SumIs
<1>3. it[{}] = SumStep(f, it, {})  BY <1>2 DEF SumsOf
<1>4. QED  BY <1>2, <1>3 DEF SumStep

\* One element is taken, and the others are summed.
LEMMA SumTakes ==
  ASSUME NEW f, NEW S, IsFiniteSet(S), S # {}
  PROVE  /\ Some(S) \in S
         /\ SumFunctionOnSet(f, S) = f[Some(S)] + SumFunctionOnSet(f, S \ {Some(S)})
PROOF
<1> DEFINE T == S \ {Some(S)}
<1>1. Some(S) \in S  BY DEF Some
<1>2. IsFiniteSet(T) /\ T \subseteq S /\ T \in SUBSET S  BY FS_Subset
<1>3. PICK it : SumsOf(f, S, it) /\ SumFunctionOnSet(f, S) = it[S]  BY SumIs
<1> HIDE DEF T
<1>4. PICK jt : SumsOf(f, T, jt) /\ SumFunctionOnSet(f, T) = jt[T]  BY <1>2, SumIs
<1>5. it[T] = jt[T]  BY <1>2, <1>3, <1>4, SumsAgree
<1>6. it[S] = SumStep(f, it, S)
  <2>1. S \in SUBSET S  OBVIOUS
  <2>2. QED  BY <1>3, <2>1 DEF SumsOf
<1>7. it[S] = f[Some(S)] + it[T]  BY <1>6 DEF SumStep, T
<1>8. QED  BY <1>1, <1>3, <1>4, <1>5, <1>7 DEF T

\* What holds of a finite set if it holds of those with one element less, holds of
\* every finite set.
LEMMA SmallerFirst ==
  ASSUME NEW S, IsFiniteSet(S), NEW Q \in SUBSET SUBSET S,
         \A s \in SUBSET S : (\A x \in s : s \ {x} \in Q) => s \in Q
  PROVE  S \in Q
PROOF
<1> DEFINE Ok(n) == \A s \in SUBSET S : Cardinality(s) = n => s \in Q
           P == {n \in Nat : Ok(n)}
<1>1. ASSUME NEW s \in SUBSET S PROVE IsFiniteSet(s) /\ Cardinality(s) \in Nat
  BY FS_Subset, FS_CardinalityType
<1>2. 0 \in P
  <2>1. ASSUME NEW s \in SUBSET S, Cardinality(s) = 0 PROVE s \in Q
    <3>1. s = {}  BY <1>1, <2>1, FS_EmptySet
    <3>2. QED  BY <3>1
  <2>2. QED  BY <2>1
<1>3. ASSUME NEW n \in P PROVE n + 1 \in P
  <2>1. ASSUME NEW s \in SUBSET S, Cardinality(s) = n + 1 PROVE s \in Q
    <3>1. ASSUME NEW x \in s PROVE s \ {x} \in Q
      <4>1. Cardinality(s \ {x}) = n /\ s \ {x} \in SUBSET S
        BY <1>1, <2>1, FS_RemoveElement
      <4>2. QED  BY <4>1
    <3>2. QED  BY <3>1
  <2>2. QED  BY <2>1
<1>4. P = Nat
  <2>1. P \in SUBSET Nat  OBVIOUS
  <2> HIDE DEF P
  <2>2. QED  BY <1>2, <1>3, <2>1, SetInduction
<1>5. Ok(Cardinality(S))
  <2> HIDE DEF Ok
  <2>1. QED  BY <1>1, <1>4
<1>6. QED  BY <1>5

\* A sum of integers is one.
LEMMA SumType ==
  ASSUME NEW f, NEW S, IsFiniteSet(S), \A x \in S : f[x] \in Int
  PROVE  SumFunctionOnSet(f, S) \in Int
PROOF
<1> DEFINE sum(s) == SumFunctionOnSet(f, s)
           Q == {s \in SUBSET S : sum(s) \in Int}
<1>1. ASSUME NEW s \in SUBSET S, \A x \in s : s \ {x} \in Q PROVE s \in Q
  <2>1. CASE s = {}  BY <2>1, SumEmpty
  <2>2. CASE s # {}
    <3>1. IsFiniteSet(s)  BY FS_Subset
    <3>2. Some(s) \in s /\ sum(s) = f[Some(s)] + sum(s \ {Some(s)})
      BY <2>2, <3>1, SumTakes
    <3> HIDE DEF sum
    <3>3. sum(s \ {Some(s)}) \in Int  BY <1>1, <3>2
    <3>4. f[Some(s)] \in Int  BY <3>2
    <3>5. QED  BY <3>2, <3>3, <3>4
  <2>3. QED  BY <2>1, <2>2
<1>2. S \in Q
  <2>1. Q \in SUBSET SUBSET S  OBVIOUS
  <2> HIDE DEF Q
  <2>2. QED  BY <1>1, <2>1, SmallerFirst
<1>3. QED  BY <1>2

\* Any element may be taken first.
LEMMA SumTakesAny ==
  ASSUME NEW f, NEW S, IsFiniteSet(S), \A x \in S : f[x] \in Int
  PROVE  \A x \in S : SumFunctionOnSet(f, S) = f[x] + SumFunctionOnSet(f, S \ {x})
PROOF
<1> DEFINE sum(s) == SumFunctionOnSet(f, s)
           Q == {s \in SUBSET S : \A x \in s : sum(s) = f[x] + sum(s \ {x})}
<1>1. ASSUME NEW s \in SUBSET S PROVE IsFiniteSet(s) /\ sum(s) \in Int
  BY FS_Subset, SumType
<1>2. ASSUME NEW s \in SUBSET S, s # {}
      PROVE  Some(s) \in s /\ sum(s) = f[Some(s)] + sum(s \ {Some(s)})
  BY <1>1, <1>2, SumTakes
<1>3. ASSUME NEW s \in SUBSET S, \A x \in s : s \ {x} \in Q PROVE s \in Q
  <2>1. ASSUME NEW x \in s PROVE sum(s) = f[x] + sum(s \ {x})
    <3> DEFINE y == Some(s)
               both == (s \ {x}) \ {y}
    <3>1. y \in s /\ sum(s) = f[y] + sum(s \ {y})  BY <1>2
    <3> HIDE DEF y, sum
    <3>2. CASE y = x  BY <3>1, <3>2
    <3>3. CASE y # x
      <4>1. x \in s \ {y} /\ y \in s \ {x} /\ (s \ {y}) \ {x} = both
        <5>1. x \in s /\ y \in s /\ y # x  BY <3>1, <3>3
        <5>2. QED  BY <5>1
      <4>2. s \ {y} \in Q /\ s \ {x} \in Q  BY <1>3, <3>1
      <4>3. sum(s \ {y}) = f[x] + sum(both)  BY <4>1, <4>2
      <4>4. sum(s \ {x}) = f[y] + sum(both)  BY <4>1, <4>2
      <4>5. sum(both) \in Int /\ f[x] \in Int /\ f[y] \in Int  BY <1>1, <3>1
      <4>6. QED  BY <3>1, <4>3, <4>4, <4>5
    <3>4. QED  BY <3>2, <3>3
  <2>2. QED  BY <2>1
<1>4. S \in Q
  <2>1. Q \in SUBSET SUBSET S  OBVIOUS
  <2> HIDE DEF Q
  <2>2. QED  BY <1>3, <2>1, SmallerFirst
<1>5. QED  BY <1>4

\* What a finite set is mapped onto is finite, and has as many elements if no two are
\* mapped alike.
LEMMA ImageIs ==
  ASSUME NEW S, IsFiniteSet(S), NEW T, NEW h,
         \A x \in S : h[x] \in T, \A y \in T : \E x \in S : h[x] = y
  PROVE  /\ IsFiniteSet(T)
         /\ (\A x, y \in S : h[x] = h[y] => x = y) => Cardinality(T) = Cardinality(S)
PROOF
<1> DEFINE k == [x \in S |-> h[x]]
<1>1. k \in Surjection(S, T)  BY DEF Surjection
<1>2. ASSUME \A x, y \in S : h[x] = h[y] => x = y PROVE k \in Injection(S, T)
  <2>1. k \in [S -> T] /\ \A x \in S : k[x] = h[x]  OBVIOUS
  <2> HIDE DEF k
  <2>2. \A x, y \in S : k[x] = k[y] => x = y  BY <1>2, <2>1
  <2>3. QED  BY <2>1, <2>2 DEF Injection, IsInjective
<1> HIDE DEF k
<1>3. QED  BY <1>1, <1>2, FS_Surjection

\* h pairs each element of S with one of T.
PairsUp(h, S, T) ==
  /\ \A x \in S : h[x] \in T
  /\ \A x, y \in S : h[x] = h[y] => x = y
  /\ \A y \in T : \E x \in S : h[x] = y

\* Values that sit elsewhere add up to the same.
LEMMA SumMoved ==
  ASSUME NEW f, NEW S, IsFiniteSet(S), \A x \in S : f[x] \in Int,
         NEW g, NEW T, NEW h, PairsUp(h, S, T), \A x \in S : g[h[x]] = f[x]
  PROVE  SumFunctionOnSet(f, S) = SumFunctionOnSet(g, T)
PROOF
<1> USE DEF PairsUp
<1> DEFINE to(s) == {h[x] : x \in s}
           a(s) == SumFunctionOnSet(f, s)
           b(t) == SumFunctionOnSet(g, t)
           Q == {s \in SUBSET S : a(s) = b(to(s))}
<1>1. ASSUME NEW s \in SUBSET S PROVE IsFiniteSet(s) /\ IsFiniteSet(to(s))
  <2>1. IsFiniteSet(s)  BY FS_Subset
  <2>2. IsFiniteSet(to(s))  BY <2>1, ImageIs
  <2>3. QED  BY <2>1, <2>2
<1>2. ASSUME NEW s \in SUBSET S, \A x \in s : s \ {x} \in Q PROVE s \in Q
  <2>1. CASE s = {}
    <3>1. to(s) = {}  BY <2>1
    <3> HIDE DEF to
    <3>2. a(s) = 0 /\ b(to(s)) = 0  BY <2>1, <3>1, SumEmpty
    <3>3. QED  BY <3>2
  <2>2. ASSUME NEW x \in s PROVE a(s) = b(to(s))
    <3>1. a(s \ {x}) = b(to(s \ {x}))  BY <1>2
    <3>2. a(s) = f[x] + a(s \ {x})
      <4>1. IsFiniteSet(s) /\ \A y \in s : f[y] \in Int  BY <1>1
      <4>2. QED  BY <4>1, SumTakesAny
    <3>3. to(s \ {x}) = to(s) \ {h[x]} /\ h[x] \in to(s)  OBVIOUS
    <3>4. \A y \in to(s) : g[y] \in Int  OBVIOUS
    <3>5. IsFiniteSet(to(s))  BY <1>1
    <3> HIDE DEF to, a
    <3>6. b(to(s)) = g[h[x]] + b(to(s) \ {h[x]})  BY <3>3, <3>4, <3>5, SumTakesAny
    <3>7. g[h[x]] = f[x]  OBVIOUS
    <3> HIDE DEF b
    <3>8. QED  BY <3>1, <3>2, <3>3, <3>6, <3>7
  <2> HIDE DEF a, b, to
  <2>3. QED  BY <2>1, <2>2
<1>3. S \in Q
  <2>1. Q \in SUBSET SUBSET S  OBVIOUS
  <2> HIDE DEF Q
  <2>2. QED  BY <1>2, <2>1, SmallerFirst
<1>4. to(S) = T  OBVIOUS
<1> HIDE DEF to
<1>5. QED  BY <1>3, <1>4

\* The sums of two terms each are the sum of the first plus that of the second.
LEMMA SumPlus ==
  ASSUME NEW f, NEW g, NEW h, NEW S, IsFiniteSet(S),
         \A x \in S : f[x] \in Int /\ g[x] \in Int /\ h[x] = f[x] + g[x]
  PROVE  SumFunctionOnSet(h, S) = SumFunctionOnSet(f, S) + SumFunctionOnSet(g, S)
PROOF
<1> DEFINE a(s) == SumFunctionOnSet(f, s)
           b(s) == SumFunctionOnSet(g, s)
           c(s) == SumFunctionOnSet(h, s)
           Q == {s \in SUBSET S : c(s) = a(s) + b(s)}
<1>1. ASSUME NEW s \in SUBSET S PROVE IsFiniteSet(s) /\ a(s) \in Int /\ b(s) \in Int
  <2>1. IsFiniteSet(s) /\ \A x \in s : f[x] \in Int /\ g[x] \in Int  BY FS_Subset
  <2>2. QED  BY <2>1, SumType
<1>2. ASSUME NEW s \in SUBSET S, \A x \in s : s \ {x} \in Q PROVE s \in Q
  <2>1. CASE s = {}
    <3>1. a(s) = 0 /\ b(s) = 0 /\ c(s) = 0  BY <2>1, SumEmpty
    <3> HIDE DEF a, b, c
    <3>2. QED  BY <3>1
  <2>2. ASSUME NEW x \in s PROVE c(s) = a(s) + b(s)
    <3> DEFINE r == s \ {x}
    <3>1. \A y \in s : f[y] \in Int /\ g[y] \in Int /\ h[y] \in Int
      OBVIOUS
    <3>2. IsFiniteSet(s)  BY <1>1
    <3>3. a(s) = f[x] + a(r)  BY <3>1, <3>2, SumTakesAny
    <3>4. b(s) = g[x] + b(r)  BY <3>1, <3>2, SumTakesAny
    <3>5. c(s) = h[x] + c(r)  BY <3>1, <3>2, SumTakesAny
    <3>6. h[x] = f[x] + g[x] /\ f[x] \in Int /\ g[x] \in Int  OBVIOUS
    <3> HIDE DEF a, b, c
    <3>7. c(r) = a(r) + b(r)  BY <1>2
    <3>8. a(r) \in Int /\ b(r) \in Int  BY <1>1
    <3> HIDE DEF r
    <3>9. QED  BY ONLY <3>3, <3>4, <3>5, <3>6, <3>7, <3>8
  <2> HIDE DEF a, b, c
  <2>3. QED  BY <2>1, <2>2
<1>3. S \in Q
  <2>1. Q \in SUBSET SUBSET S  OBVIOUS
  <2> HIDE DEF Q
  <2>2. QED  BY <1>2, <2>1, SmallerFirst
<1>4. QED  BY <1>3

\* Equal values add up to as many times the value.
LEMMA SumConstant ==
  ASSUME NEW f, NEW S, IsFiniteSet(S), NEW c \in Int, \A x \in S : f[x] = c
  PROVE  SumFunctionOnSet(f, S) = Cardinality(S) * c
PROOF
<1> DEFINE a(s) == SumFunctionOnSet(f, s)
           Q == {s \in SUBSET S : a(s) = Cardinality(s) * c}
<1>1. ASSUME NEW s \in SUBSET S, \A x \in s : s \ {x} \in Q PROVE s \in Q
  <2>1. CASE s = {}
    <3>1. a(s) = 0 /\ Cardinality(s) = 0  BY <2>1, SumEmpty, FS_EmptySet
    <3> HIDE DEF a
    <3>2. QED  BY <3>1
  <2>2. ASSUME NEW x \in s PROVE a(s) = Cardinality(s) * c
    <3> DEFINE k == Cardinality(s)
    <3>1. IsFiniteSet(s) /\ k \in Nat  BY FS_Subset, FS_CardinalityType
    <3>2. Cardinality(s \ {x}) = k - 1  BY <3>1, FS_RemoveElement
    <3>3. a(s) = f[x] + a(s \ {x})  BY <3>1, SumTakesAny
    <3> HIDE DEF a, k
    <3>4. a(s \ {x}) = (k - 1) * c /\ f[x] = c  BY <1>1, <3>2
    <3>5. c + (k - 1) * c = k * c  BY ONLY <3>1, c \in Int
    <3>6. QED  BY <3>3, <3>4, <3>5 DEF k
  <2> HIDE DEF a
  <2>3. QED  BY <2>1, <2>2
<1>2. S \in Q
  <2>1. Q \in SUBSET SUBSET S  OBVIOUS
  <2> HIDE DEF Q
  <2>2. QED  BY <1>1, <2>1, SmallerFirst
<1>3. QED  BY <1>2

\* The sum over two sets that share nothing is that over the one plus that over the
\* other.
LEMMA SumApart ==
  ASSUME NEW f, NEW S, IsFiniteSet(S), NEW T, IsFiniteSet(T), S \cap T = {},
         \A x \in S \union T : f[x] \in Int
  PROVE  SumFunctionOnSet(f, S \union T) = SumFunctionOnSet(f, S) + SumFunctionOnSet(f, T)
PROOF
<1> DEFINE a(s) == SumFunctionOnSet(f, s)
           Q == {t \in SUBSET T : a(S \union t) = a(S) + a(t)}
<1>1. ASSUME NEW s \in SUBSET (S \union T) PROVE IsFiniteSet(s) /\ a(s) \in Int
  <2>1. IsFiniteSet(S \union T)  BY FS_Union
  <2>2. IsFiniteSet(s) /\ \A x \in s : f[x] \in Int  BY <2>1, FS_Subset
  <2>3. QED  BY <2>2, SumType
<1>2. ASSUME NEW t \in SUBSET T, \A x \in t : t \ {x} \in Q PROVE t \in Q
  <2>1. CASE t = {}
    <3>1. a(t) = 0 /\ S \union t = S  BY <2>1, SumEmpty
    <3>2. a(S) \in Int /\ a(S \union t) = a(S)  BY <1>1, <3>1
    <3> HIDE DEF a
    <3>3. QED  BY <3>1, <3>2
  <2>2. ASSUME NEW x \in t PROVE a(S \union t) = a(S) + a(t)
    <3> DEFINE r == t \ {x}
    <3>1. (S \union t) \ {x} = S \union r /\ x \in S \union t  OBVIOUS
    <3>2. IsFiniteSet(t) /\ IsFiniteSet(S \union t)  BY <1>1
    <3>3. \A y \in S \union t : f[y] \in Int  OBVIOUS
    <3>4. a(t) = f[x] + a(r)  BY <3>2, <3>3, SumTakesAny
    <3> HIDE DEF r
    <3>5. a(S \union t) = f[x] + a((S \union t) \ {x})  BY <3>1, <3>2, <3>3, SumTakesAny
    <3>6. a(S) \in Int /\ a(r) \in Int /\ f[x] \in Int  BY <1>1 DEF r
    <3> HIDE DEF a
    <3>7. a(S \union r) = a(S) + a(r)  BY <1>2 DEF r
    <3>8. a(S \union t) = f[x] + a(S \union r)  BY <3>1, <3>5
    <3>9. QED  BY ONLY <3>4, <3>6, <3>7, <3>8
  <2> HIDE DEF a
  <2>3. QED  BY <2>1, <2>2
<1>3. T \in Q
  <2>1. Q \in SUBSET SUBSET T  OBVIOUS
  <2> HIDE DEF Q
  <2>2. QED  BY <1>2, <2>1, SmallerFirst
<1>4. QED  BY <1>3

\* What adds nothing may be left out.
LEMMA SumLeaves ==
  ASSUME NEW f, NEW S, IsFiniteSet(S), \A x \in S : f[x] \in Int,
         NEW T \in SUBSET S, \A x \in S \ T : f[x] = 0
  PROVE  SumFunctionOnSet(f, S) = SumFunctionOnSet(f, T)
PROOF
<1> DEFINE rest == S \ T
<1>1. IsFiniteSet(T) /\ IsFiniteSet(rest) /\ T \union rest = S /\ T \cap rest = {}
  BY FS_Subset
<1>2. \A x \in T \union rest : f[x] \in Int  OBVIOUS
<1>3. \A x \in rest : f[x] = 0  OBVIOUS
<1> HIDE DEF rest
<1>4. SumFunctionOnSet(f, S) = SumFunctionOnSet(f, T) + SumFunctionOnSet(f, rest)
  BY <1>1, <1>2, SumApart
<1>5. SumFunctionOnSet(f, rest) = Cardinality(rest) * 0
  BY <1>1, <1>3, 0 \in Int, SumConstant
<1>6. Cardinality(rest) \in Int /\ SumFunctionOnSet(f, T) \in Int
  BY <1>1, <1>2, FS_CardinalityType, SumType
<1>7. QED  BY <1>4, <1>5, <1>6

\* A table adds up to the same by rows and by columns.
LEMMA SumSwaps ==
  ASSUME NEW F, NEW S, IsFiniteSet(S), NEW T, IsFiniteSet(T),
         \A u \in S, v \in T : F[u][v] \in Int
  PROVE  SumFunctionOnSet([u \in S |-> SumFunctionOnSet([v \in T |-> F[u][v]], T)], S)
           = SumFunctionOnSet([v \in T |-> SumFunctionOnSet([u \in S |-> F[u][v]], S)], T)
PROOF
<1> DEFINE row(u) == [v \in T |-> F[u][v]]
           col(v) == [u \in S |-> F[u][v]]
           rows == [u \in S |-> SumFunctionOnSet(row(u), T)]
           cols(s) == [v \in T |-> SumFunctionOnSet(col(v), s)]
           Q == {s \in SUBSET S : SumFunctionOnSet(rows, s) = SumFunctionOnSet(cols(s), T)}
<1>1. ASSUME NEW u \in S PROVE rows[u] \in Int
  <2>1. \A v \in T : row(u)[v] \in Int  OBVIOUS
  <2> HIDE DEF row
  <2>2. SumFunctionOnSet(row(u), T) \in Int  BY <2>1, SumType
  <2>3. QED  BY <2>2
<1>2. ASSUME NEW s \in SUBSET S, NEW v \in T
      PROVE  IsFiniteSet(s) /\ cols(s)[v] \in Int /\ \A u \in s : col(v)[u] = F[u][v]
  <2>1. IsFiniteSet(s) /\ \A u \in s : col(v)[u] \in Int /\ col(v)[u] = F[u][v]  BY FS_Subset
  <2> HIDE DEF col
  <2>2. SumFunctionOnSet(col(v), s) \in Int  BY <2>1, SumType
  <2>3. QED  BY <2>1, <2>2
<1>3. ASSUME NEW s \in SUBSET S, \A x \in s : s \ {x} \in Q PROVE s \in Q
  <2>1. CASE s = {}
    <3>1. SumFunctionOnSet(rows, s) = 0  BY <2>1, SumEmpty
    <3>2. ASSUME NEW v \in T PROVE cols(s)[v] = 0
      <4> HIDE DEF col
      <4>1. SumFunctionOnSet(col(v), s) = 0  BY <2>1, SumEmpty
      <4>2. QED  BY <4>1
    <3> HIDE DEF rows, cols
    <3>3. SumFunctionOnSet(cols(s), T) = Cardinality(T) * 0  BY <3>2, 0 \in Int, SumConstant
    <3>4. Cardinality(T) * 0 = 0  BY FS_CardinalityType
    <3>5. QED  BY <3>1, <3>3, <3>4
  <2>2. ASSUME NEW x \in s PROVE SumFunctionOnSet(rows, s) = SumFunctionOnSet(cols(s), T)
    <3> DEFINE r == s \ {x}
    <3>1. IsFiniteSet(s) /\ \A u \in s : rows[u] \in Int  BY <1>1, FS_Subset
    <3>2. rows[x] = SumFunctionOnSet(row(x), T)  OBVIOUS
    <3>3. \A v \in T : row(x)[v] = F[x][v] /\ F[x][v] \in Int  OBVIOUS
    <3>4. r \in SUBSET S /\ x \in S  OBVIOUS
    <3>5. ASSUME NEW v \in T PROVE cols(s)[v] = F[x][v] + cols(r)[v]
      <4>1. \A u \in s : col(v)[u] \in Int /\ col(v)[u] = F[u][v]  BY <1>2
      <4> HIDE DEF col
      <4>2. SumFunctionOnSet(col(v), s) = col(v)[x] + SumFunctionOnSet(col(v), r)
        BY <3>1, <4>1, SumTakesAny
      <4>3. QED  BY <4>1, <4>2
    <3> HIDE DEF rows, r
    <3>6. SumFunctionOnSet(rows, s) = rows[x] + SumFunctionOnSet(rows, r)
      BY <3>1, SumTakesAny DEF r
    <3>7. SumFunctionOnSet(rows, r) = SumFunctionOnSet(cols(r), T)  BY <1>3 DEF r
    <3>8. \A v \in T : /\ row(x)[v] \in Int /\ cols(r)[v] \in Int
                       /\ cols(s)[v] = row(x)[v] + cols(r)[v]
      BY <1>2, <3>3, <3>4, <3>5
    <3> HIDE DEF cols, row
    <3>9. SumFunctionOnSet(cols(s), T) = SumFunctionOnSet(row(x), T) + SumFunctionOnSet(cols(r), T)
      BY <3>8, SumPlus
    <3>10. QED  BY <3>2, <3>6, <3>7, <3>9
  <2> HIDE DEF rows, cols
  <2>3. QED  BY <2>1, <2>2
<1>4. S \in Q
  <2>1. Q \in SUBSET SUBSET S  OBVIOUS
  <2> HIDE DEF Q
  <2>2. QED  BY <1>3, <2>1, SmallerFirst
<1> HIDE DEF rows
<1>5. SumFunctionOnSet(rows, S) = SumFunctionOnSet(cols(S), T)  BY <1>4
<1>6. QED  BY <1>5 DEF rows

\* A factor of all terms is one of the sum.
LEMMA SumTimes ==
  ASSUME NEW f, NEW g, NEW c \in Int, NEW S, IsFiniteSet(S),
         \A x \in S : f[x] \in Int /\ g[x] = c * f[x]
  PROVE  SumFunctionOnSet(g, S) = c * SumFunctionOnSet(f, S)
PROOF
<1> DEFINE a(s) == SumFunctionOnSet(f, s)
           b(s) == SumFunctionOnSet(g, s)
           Q == {s \in SUBSET S : b(s) = c * a(s)}
<1>1. ASSUME NEW s \in SUBSET S PROVE IsFiniteSet(s) /\ a(s) \in Int
  <2>1. IsFiniteSet(s) /\ \A x \in s : f[x] \in Int  BY FS_Subset
  <2>2. QED  BY <2>1, SumType
<1>2. ASSUME NEW s \in SUBSET S, \A x \in s : s \ {x} \in Q PROVE s \in Q
  <2>1. CASE s = {}
    <3>1. a(s) = 0 /\ b(s) = 0  BY <2>1, SumEmpty
    <3> HIDE DEF a, b
    <3>2. QED  BY <3>1
  <2>2. ASSUME NEW x \in s PROVE b(s) = c * a(s)
    <3> DEFINE r == s \ {x}
    <3>1. \A y \in s : f[y] \in Int /\ g[y] \in Int  OBVIOUS
    <3>2. IsFiniteSet(s)  BY <1>1
    <3>3. a(s) = f[x] + a(r)  BY <3>1, <3>2, SumTakesAny
    <3>4. b(s) = g[x] + b(r)  BY <3>1, <3>2, SumTakesAny
    <3>5. g[x] = c * f[x] /\ f[x] \in Int  OBVIOUS
    <3> HIDE DEF a, b
    <3>6. b(r) = c * a(r) /\ a(r) \in Int  BY <1>1, <1>2
    <3> HIDE DEF r
    <3>7. c * f[x] + c * a(r) = c * (f[x] + a(r))  BY ONLY <3>5, <3>6, c \in Int
    <3>8. QED  BY <3>3, <3>4, <3>5, <3>6, <3>7
  <2> HIDE DEF a, b
  <2>3. QED  BY <2>1, <2>2
<1>3. S \in Q
  <2>1. Q \in SUBSET SUBSET S  OBVIOUS
  <2> HIDE DEF Q
  <2>2. QED  BY <1>2, <2>1, SmallerFirst
<1>4. QED  BY <1>3

-----------------------------------------------------------------------------
(* Division without remainder *)

Multiple(a, d) == \E q \in Int : a = d * q

\* Who divides a product by a factor has the other.
LEMMA DivExact ==
  ASSUME NEW k \in Nat \ {0}, NEW q \in Int
  PROVE  (k * q) \div k = q
PROOF
<1> DEFINE a == k * q
           x == a \div k
<1>1. a \in Int  OBVIOUS
<1>2. x \in Int /\ k * x <= a /\ a < k * x + k
  <2> HIDE DEF a
  <2>1. QED  BY <1>1
<1> HIDE DEF x
<1>3. k * x <= k * q /\ k * q < k * (x + 1)  BY <1>2
<1>4. x <= q
  <2> SUFFICES ASSUME q + 1 <= x PROVE FALSE  BY <1>2
  <2>1. k * (x - (q + 1)) >= 0  BY <1>2
  <2>2. QED  BY <1>2, <1>3, <2>1
<1>5. q < x + 1
  <2> SUFFICES ASSUME x + 1 <= q PROVE FALSE  BY <1>2
  <2>1. k * (q - (x + 1)) >= 0  BY <1>2
  <2>2. QED  BY <1>2, <1>3, <2>1
<1>6. q = x  BY <1>2, <1>4, <1>5
<1>7. QED  BY <1>6 DEF x

\* A factor that is not 0 may be left out on both sides.
LEMMA Cancel ==
  ASSUME NEW k \in Nat \ {0}, NEW a \in Int, NEW b \in Int, k * a = k * b
  PROVE  a = b
PROOF BY DivExact

\* Sums and products of multiples are multiples.
LEMMA MultipleIs ==
  ASSUME NEW d \in Int, NEW a \in Int, Multiple(a, d)
  PROVE  /\ \A b \in Int : Multiple(b, d) => Multiple(a + b, d)
         /\ \A c \in Int : Multiple(c * a, d)
         /\ Multiple(0, d)
PROOF
<1>1. PICK q \in Int : a = d * q  BY DEF Multiple
<1>2. ASSUME NEW b \in Int, Multiple(b, d) PROVE Multiple(a + b, d)
  <2>1. PICK r \in Int : b = d * r  BY <1>2 DEF Multiple
  <2>2. d * q + d * r = d * (q + r) /\ q + r \in Int  OBVIOUS
  <2>3. QED  BY <1>1, <2>1, <2>2 DEF Multiple
<1>3. ASSUME NEW c \in Int PROVE Multiple(c * a, d)
  <2>1. c * (d * q) = d * (c * q) /\ c * q \in Int  OBVIOUS
  <2>2. QED  BY <1>1, <2>1 DEF Multiple
<1>4. Multiple(0, d)
  <2>1. 0 = d * 0  OBVIOUS
  <2>2. QED  BY <2>1 DEF Multiple
<1>5. QED  BY <1>2, <1>3, <1>4

\* A sum of multiples is one.
LEMMA SumMultiple ==
  ASSUME NEW f, NEW S, IsFiniteSet(S), NEW d \in Int,
         \A x \in S : f[x] \in Int /\ Multiple(f[x], d)
  PROVE  Multiple(SumFunctionOnSet(f, S), d)
PROOF
<1> DEFINE g == [x \in S |-> CHOOSE q \in Int : f[x] = d * q]
<1>1. ASSUME NEW x \in S PROVE g[x] \in Int /\ f[x] = d * g[x]
  <2>1. \E q \in Int : f[x] = d * q  BY DEF Multiple
  <2>2. g[x] = CHOOSE q \in Int : f[x] = d * q  OBVIOUS
  <2> HIDE DEF g
  <2>3. QED  BY <2>1, <2>2
<1> HIDE DEF g
<1>2. SumFunctionOnSet(f, S) = d * SumFunctionOnSet(g, S)  BY <1>1, SumTimes
<1>3. SumFunctionOnSet(g, S) \in Int  BY <1>1, SumType
<1>4. QED  BY <1>2, <1>3 DEF Multiple

\* A multiple of m * d can be shared out among k if m can, and each has a multiple of d.
LEMMA SharedOut ==
  ASSUME NEW m \in Nat, NEW k \in Nat \ {0}, m % k = 0, NEW d \in Int,
         NEW a \in Int, Multiple(a, m * d)
  PROVE  a \div k \in Int /\ k * (a \div k) = a /\ Multiple(a \div k, d)
PROOF
<1>1. PICK q \in Int : a = (m * d) * q  BY DEF Multiple
<1>2. PICK j \in Int : m = k * j
  <2>1. m = k * (m \div k) /\ m \div k \in Int  OBVIOUS
  <2>2. QED  BY <2>1
<1>3. j * q \in Int /\ d * (j * q) \in Int  OBVIOUS
<1>4. ((k * j) * d) * q = k * (d * (j * q))  OBVIOUS
<1>5. a = k * (d * (j * q))  BY <1>1, <1>2, <1>4
<1>6. a \div k = d * (j * q)  BY <1>3, <1>5, DivExact
<1>7. QED  BY <1>3, <1>5, <1>6 DEF Multiple
=============================================================================
