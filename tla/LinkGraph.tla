----------------------------- MODULE LinkGraph ------------------------------
(***************************************************************************)
(* crawler/link_graph.py as operators on one graph value: URLs get ids in  *)
(* the order they are met, every edge is listed at both of its ends, and   *)
(* PageRank is computed when a score is asked for and an edge has come in  *)
(* since.  Ranks are integers, Unit for the whole mass.                    *)
(***************************************************************************)
EXTENDS Integers, Sequences, FiniteSets, SequencesExt, Lists

CONSTANTS
  Urls,
  Iterations, Tolerance,
  DampNum, DampDen,       \* damping, as a fraction
  Unit                    \* 1.0

GraphAssumption ==
  /\ Iterations \in Nat /\ Tolerance \in Nat /\ Unit \in Nat
  /\ DampNum \in Nat /\ DampDen \in Nat \ {0} /\ DampNum <= DampDen

\* In every round, Unit can be damped and shared out evenly among any number of nodes.
UnitIsDivisible ==
  /\ IsFiniteSet(Urls)
  /\ \E share \in 1 .. Unit :
       LET parts[n \in 0 .. Iterations + 1] ==
             IF n = 0 THEN 1 ELSE share * DampDen * parts[n - 1]
       IN /\ \A k \in 1 .. Cardinality(Urls) : share % k = 0
          /\ Unit % parts[Iterations + 1] = 0

NoGraph == [ids |-> <<>>, out |-> <<>>, in |-> <<>>, scores |-> <<>>, dirty |-> TRUE]

IsGraph(g) ==
  LET node == DOMAIN g.ids IN
  /\ DOMAIN g = DOMAIN NoGraph /\ g.ids \in Seq(Urls)
  /\ g.out \in [node -> Seq(node)] /\ g.in \in [node -> Seq(node)]
  /\ DOMAIN g.scores \subseteq node /\ g.dirty \in BOOLEAN

Id(g, u) == CHOOSE i \in DOMAIN g.ids : g.ids[i] = u

\* The next id for a URL met for the first time.
GetOrCreate(g, u) ==
  IF u \in ToSet(g.ids) THEN g
  ELSE [g EXCEPT !.ids = Append(@, u), !.out = Append(@, <<>>), !.in = Append(@, <<>>)]

\* Mutation: a new edge leaves the scores as they are.
AddLinkClean(g, src, dst) ==
  LET h == GetOrCreate(GetOrCreate(g, src), dst)
      s == Id(h, src)
      t == Id(h, dst)
  IN IF t \in ToSet(h.out[s]) THEN h
     ELSE [h EXCEPT !.out[s] = Append(@, t), !.in[t] = Append(@, s)]

\* Mutation: nobody looks whether the edge is there.
AddLinkAgain(g, src, dst) ==
  LET h == GetOrCreate(GetOrCreate(g, src), dst)
      s == Id(h, src)
      t == Id(h, dst)
  IN [h EXCEPT !.out[s] = Append(@, t), !.in[t] = Append(@, s), !.dirty = TRUE]

\* An edge that is there already changes nothing.
AddLink(g, src, dst) ==
  LET h == GetOrCreate(GetOrCreate(g, src), dst)
      s == Id(h, src)
      t == Id(h, dst)
  IN IF t \in ToSet(h.out[s]) THEN h
     ELSE [h EXCEPT !.out[s] = Append(@, t), !.in[t] = Append(@, s), !.dirty = TRUE]

AddPage(g, url, outlinks) ==
  LET after[n \in 0 .. Len(outlinks)] ==
        IF n = 0 THEN g ELSE AddLink(after[n - 1], url, outlinks[n])
  IN after[Len(outlinks)]

-----------------------------------------------------------------------------
(* PageRank *)

\* What every node gets from the nodes without links.
DanglingSum(out, rank) ==
  SumFunctionOnSet([i \in DOMAIN rank |-> rank[i] \div Len(rank)],
                   {i \in DOMAIN rank : out[i] = <<>>})

InSum(out, rank, sources) ==
  SumFunction([k \in DOMAIN sources |-> rank[sources[k]] \div Len(out[sources[k]])])

NextRank(out, in, rank) ==
  [i \in DOMAIN rank |->
     ((DampDen - DampNum) * Unit) \div (DampDen * Len(rank))
     + (DampNum * (InSum(out, rank, in[i]) + DanglingSum(out, rank))) \div DampDen]

Delta(rank, new) ==
  SumFunction([i \in DOMAIN rank |->
                IF new[i] > rank[i] THEN new[i] - rank[i] ELSE rank[i] - new[i]])

\* At most Iterations rounds; the last is the first that changes next to nothing.
PageRank(ids, out, in) ==
  LET first == [i \in DOMAIN ids |-> Unit \div Len(ids)]
      after[n \in 0 .. Iterations] ==
        IF n = 0 THEN [rank |-> first, over |-> FALSE]
        ELSE LET last == after[n - 1]
                 new  == NextRank(out, in, last.rank)
             IN IF last.over THEN last
                ELSE [rank |-> new, over |-> Delta(last.rank, new) < Tolerance]
  IN after[Iterations].rank

\* What compute_pagerank makes of the graph as it is.
RanksNow(g) == PageRank(g.ids, g.out, g.in)

\* A graph without nodes stays dirty.
Computed(g) ==
  IF g.ids = <<>> THEN g ELSE [g EXCEPT !.scores = RanksNow(g), !.dirty = FALSE]

\* What get_score, top_k and to_dict do first.
Refreshed(g) == IF g.dirty THEN Computed(g) ELSE g

\* get_score on a graph that was refreshed.
Score(g, u) == IF u \in ToSet(g.ids) /\ Id(g, u) \in DOMAIN g.scores
               THEN g.scores[Id(g, u)] ELSE 0

\* from_dict(to_dict()): the edges are listed at their ends anew, in the order
\* of their sources.
Reloaded(g) ==
  LET h == Refreshed(g) IN
  [h EXCEPT !.in = [i \in DOMAIN h.ids |->
                      Only([s \in DOMAIN h.ids |-> s], {s \in DOMAIN h.ids : i \in ToSet(h.out[s])})],
            !.dirty = FALSE]

-----------------------------------------------------------------------------
(* What PageRank of a set of links is: a surfer on a page follows one of its *)
(* links, all alike, or goes anywhere from a page without links; and with    *)
(* 1 - damping goes anywhere from any page.                                  *)

Nodes(links) == {l[1] : l \in links} \union {l[2] : l \in links}

\* The graph is the set of links: a node for each end of one and no other, and each
\* link once, and once only, at either end.
Holds(g, links) ==
  /\ ToSet(g.ids) = Nodes(links) /\ IsInjective(g.ids)
  /\ \A s, t \in DOMAIN g.ids :
       /\ t \in ToSet(g.out[s]) <=> <<g.ids[s], g.ids[t]>> \in links
       /\ s \in ToSet(g.in[t]) <=> t \in ToSet(g.out[s])
  /\ \A s \in DOMAIN g.ids : IsInjective(g.out[s]) /\ IsInjective(g.in[s])

\* Scores that are taken as they are, are what would be computed now.
UpToDate(g) == ~g.dirty => g.scores = RanksNow(g)

Targets(links, u) == {v \in Nodes(links) : <<u, v>> \in links}

\* What the surfers on u bring to v.
Flow(links, rank, u, v) ==
  IF Targets(links, u) = {} THEN rank[u] \div Cardinality(Nodes(links))
  ELSE IF v \in Targets(links, u) THEN rank[u] \div Cardinality(Targets(links, u))
  ELSE 0

Surf(links, rank) ==
  [v \in Nodes(links) |->
     ((DampDen - DampNum) * Unit) \div (DampDen * Cardinality(Nodes(links)))
     + (DampNum * SumFunction([u \in Nodes(links) |-> Flow(links, rank, u, v)])) \div DampDen]

RankOf(links) ==
  LET first == [v \in Nodes(links) |-> Unit \div Cardinality(Nodes(links))]
      after[n \in 0 .. Iterations] ==
        IF n = 0 THEN [rank |-> first, over |-> FALSE]
        ELSE LET last == after[n - 1]
                 new  == Surf(links, last.rank)
             IN IF last.over THEN last
                ELSE [rank |-> new, over |-> Delta(last.rank, new) < Tolerance]
  IN after[Iterations].rank

\* A score that is asked for now is the rank over exactly these links, whether it
\* must be computed anew or not; the ranks are the whole mass together; and a graph
\* that is saved and loaded again ranks alike.  A graph without nodes has no scores.
Ranks(g, links) ==
  LET fresh == Refreshed(g) IN
  g.ids # <<>> =>
    LET rank == RankOf(links) IN
    /\ \A u \in Nodes(links) : Score(fresh, u) = rank[u]
    /\ SumFunction(fresh.scores) = Unit
    /\ RanksNow(Reloaded(g)) = fresh.scores
=============================================================================
