-------------------------------- MODULE Lists --------------------------------
(***************************************************************************)
(* What the search code does with Python lists: slice, filter, sort.  Here *)
(* filtering is a function and an order is a set of pairs, so that proofs  *)
(* can be given about them; SelectSeq and SortSeq take operators.          *)
(***************************************************************************)
EXTENDS Integers, Sequences, FiniteSets, SequencesExt

\* The first k items of s, or all of them.
Best(k, s) == SubSeq(s, 1, IF k < Len(s) THEN k ELSE Len(s))

\* The items of s that are in S, in their order.
Only(s, S) ==
  LET kept[i \in 0 .. Len(s)] ==
        IF i = 0 THEN <<>>
        ELSE IF s[i] \in S THEN Append(kept[i - 1], s[i]) ELSE kept[i - 1]
  IN kept[Len(s)]

\* The items of s, no two alike, so that each is before those that follow it.
Sorted(s, before) ==
  CHOOSE t \in [DOMAIN s -> ToSet(s)] :
    \A i, j \in DOMAIN s : i < j => <<t[i], t[j]>> \in before

\* The place of d in s.
Rank(s, d) == CHOOSE i \in DOMAIN s : s[i] = d
=============================================================================
