-------------------------------- MODULE Vectors --------------------------------
(***************************************************************************)
(* DataStore.js: an index of vectors.  VEC.ADD, ADDVEC, SUBVEC, SEARCH,     *)
(* CREATEINDEX and REBUILD, and the graph of class HnswIndex under them.    *)
(*                                                                         *)
(* A vector is a point on a line: all the graph asks of vectors is which is *)
(* nearer.  A level is drawn at random.  A Set is a sequence, for it is     *)
(* walked in the order of insertion and a sort keeps that order where       *)
(* distances are equal.  Refused arguments are left out.                    *)
(***************************************************************************)
EXTENDS Integers, Sequences, FiniteSets, SequencesExt

CONSTANTS Id,       \* the identifiers of vectors
          Nobody,   \* none of them
          Vector,   \* an interval of integers
          M,        \* m: the connectivity
          Breadth,  \* ef: of the searches an insertion makes
          TopLevel, \* bound: 16 in the code
          MaxAdds   \* bound: the vectors that are added or changed

VARIABLES order,    \* the keys of idToVector, in its order
          vectors,  \* its values
          graph,    \* hnsw
          adds      \* counts towards MaxAdds

vars == <<order, vectors, graph, adds>>

Level == 0 .. TopLevel

Empty == [made |-> TRUE, node |-> [x \in {} |-> 0], 
          links |-> [id \in Id |-> [l \in Level |-> <<>>]], enterpoint |-> Nobody, maxLevel |-> -1]
NoIndex == [Empty EXCEPT !.made = FALSE]   \* null

Distance(v, w) == IF v < w THEN w - v ELSE v - w
Far(g, q, id)  == Distance(q, g.node[id])
Lesser(i, j)   == IF i < j THEN i ELSE j
------------------------------------------------------------------------------
(* The graph *)

\* Behind those that are as near.
Placed(g, q, s, id) ==
  SelectSeq(s, LAMBDA x : Far(g, q, x) <= Far(g, q, id)) \o <<id>> \o SelectSeq(s, LAMBDA x : Far(g, q, x) > Far(g, q, id))

FirstFew(s, n) == SubSeq(s, 1, Lesser(Len(s), n))

RECURSIVE GreedySearch(_, _, _, _)
\* _greedySearch: to the nearest neighbour, while there is a nearer one.
GreedySearch(g, q, at, l) ==
  LET Nearer(b, n) == IF Far(g, q, n) < Far(g, q, b) THEN n ELSE b
      best == FoldLeft(Nearer, at, g.links[at][l])
  IN  IF best = at THEN at ELSE GreedySearch(g, q, best, l)

\* The descent from the top to the level above l.
Descend(g, q, l) ==
  LET Down[k \in l .. g.maxLevel] == IF k = g.maxLevel THEN g.enterpoint ELSE GreedySearch(g, q, Down[k + 1], k + 1)
  IN  IF l >= g.maxLevel THEN g.enterpoint ELSE Down[l]

RECURSIVE Expand(_, _, _, _, _, _, _)
\* The loop of _searchLayer: worst is read before the neighbours of a candidate are.
Expand(g, q, l, ef, visited, results, candidates) ==
  IF candidates = <<>> \/ (Far(g, q, Head(candidates)) > Far(g, q, Last(results)) /\ Len(results) >= ef)
  THEN results
  ELSE LET worst == Far(g, q, Last(results))
           fresh == SelectSeq(g.links[Head(candidates)][l], LAMBDA n : n \notin visited)
           Grow(r, n) == IF Len(r) < ef \/ Far(g, q, n) < worst THEN FirstFew(Placed(g, q, r, n), ef) ELSE r
       IN  Expand(g, q, l, ef, visited \cup Range(fresh), FoldLeft(Grow, results, fresh),
                  FoldLeft(LAMBDA c, n : Placed(g, q, c, n), Tail(candidates), fresh))

SearchLayer(g, q, at, l, ef) == Expand(g, q, l, ef, {at}, <<at>>, <<at>>)

\* The M nearest, in the order they had.
Nearest(g, q, s) ==
  LET sorted == FoldLeft(LAMBDA t, x : Placed(g, q, t, x), <<>>, s)
      keep   == Range(FirstFew(sorted, M))
  IN  SelectSeq(s, LAMBDA x : x \in keep)

Including(s, x) == IF x \in Range(s) THEN s ELSE Append(s, x)

\* Bug: the new node is linked to its neighbours, they are not linked to it.
LinkOneWay(g, id, n, l) == [g EXCEPT !.links[id][l] = Including(@, n)]

\* A link in both directions; the neighbour's links are cut to M.
Link(g, id, n, l) ==
  LET there == [g EXCEPT !.links[id][l] = Including(@, n)]
      back  == [there EXCEPT !.links[n][l] = Including(@, id)]
  IN  [back EXCEPT !.links[n][l] = Nearest(back, back.node[n], @)]

\* _connectNeighbors
Connect(g, id, selected, l) ==
  LET linked == FoldLeft(LAMBDA h, n : Link(h, id, n, l), g, selected)
  IN  [linked EXCEPT !.links[id][l] = Nearest(linked, linked.node[id], @)]

Insert(g, id, v, level) ==
  LET h  == [g EXCEPT !.node = [x \in DOMAIN @ \cup {id} |-> IF x = id THEN v ELSE @[x]]]
      at == Descend(h, v, level)
      Layer(k, l) == Connect(k, id, FirstFew(SearchLayer(k, v, at, l, Breadth), M), l)
      low    == Lesser(level, g.maxLevel)
      linked == FoldLeft(Layer, h, [i \in 1 .. low + 1 |-> low + 1 - i])
      grown  == IF g.enterpoint = Nobody THEN h ELSE linked
  IN  IF level > g.maxLevel THEN [grown EXCEPT !.enterpoint = id, !.maxLevel = level] ELSE grown

Rebuilt(levels) == FoldLeft(LAMBDA g, id : Insert(g, id, vectors[id], levels[id]), Empty, order)
------------------------------------------------------------------------------
(* Commands *)

Put(id, v) ==
  /\ adds < MaxAdds /\ adds' = adds + 1
  /\ order' = Including(order, id)
  /\ vectors' = [x \in DOMAIN vectors \cup {id} |-> IF x = id THEN v ELSE vectors[x]]
  /\ IF ~graph.made THEN UNCHANGED graph ELSE \E level \in Level : graph' = Insert(graph, id, v, level)

VecAdd(id, v)       == v \in Vector /\ Put(id, v)
VecAddVec(id, v)    == id \in DOMAIN vectors /\ vectors[id] + v \in Vector /\ Put(id, vectors[id] + v)
VecSubVec(id, v)    == id \in DOMAIN vectors /\ vectors[id] - v \in Vector /\ Put(id, vectors[id] - v)

\* VEC.CREATEINDEX, and VEC.REBUILD of an index there is.
VecCreateIndex ==
  /\ \E levels \in [Id -> Level] : graph' = Rebuilt(levels)
  /\ UNCHANGED <<order, vectors, adds>>
VecRebuild == graph.made /\ VecCreateIndex

\* approximateCandidates
Candidates(q, ef) ==
  IF graph.enterpoint = Nobody THEN <<>>
  ELSE SearchLayer(graph, q, Descend(graph, q, 0), 0, ef)

\* VEC.SEARCH: of equally near ones the newer first.
Searched(q, k, ids) ==
  LET Rank(id) == CHOOSE i \in DOMAIN order : order[i] = id
      Before(x, y) == \/ Distance(q, vectors[x]) < Distance(q, vectors[y])
                      \/ (Distance(q, vectors[x]) = Distance(q, vectors[y]) /\ Rank(x) > Rank(y))
  IN  FirstFew(SetToSortSeq(ids, Before), k)

VecSearch(q, k, ef) == Searched(q, k, IF ~graph.made THEN DOMAIN vectors ELSE Range(Candidates(q, ef)))

Init == order = <<>> /\ vectors = [x \in {} |-> 0] /\ graph = NoIndex /\ adds = 0

\* Identifiers are alike: of those that are not used yet one is as good as any.
Fresh == IF DOMAIN vectors = Id THEN {} ELSE {CHOOSE id \in Id : id \notin DOMAIN vectors}

Next ==
  \/ \E id \in DOMAIN vectors \cup Fresh, v \in Vector : VecAdd(id, v)
  \/ \E id \in Id : VecAddVec(id, 1) \/ VecSubVec(id, 1)
  \/ VecCreateIndex \/ VecRebuild

Spec == Init /\ [][Next]_vars
------------------------------------------------------------------------------
(* Properties *)

Indexed == graph.made
Stored  == DOMAIN vectors

\* The types of the variables; no node has more than M links on a level.
TypeOK ==
  /\ Range(order) = Stored /\ Stored \subseteq Id /\ IsInjective(order)
  /\ \A id \in Stored : vectors[id] \in Vector
  /\ Indexed =>
       /\ DOMAIN graph.node \subseteq Id
       /\ \A id \in Id, l \in Level :
            /\ graph.links[id][l] \in Seq(DOMAIN graph.node) /\ IsInjective(graph.links[id][l])
            /\ Len(graph.links[id][l]) <= M
       /\ graph.enterpoint \in DOMAIN graph.node \cup {Nobody} /\ graph.maxLevel \in -1 .. TopLevel
       /\ graph.enterpoint = Nobody <=> graph.maxLevel = -1

\* The graph holds the vectors of the index, as they are now: also those that were added
\* again, moved by ADDVEC and SUBVEC, or there before the graph was.
GraphHoldsVectors == Indexed => graph.node = vectors

\* With no more vectors than M, a search through the graph that is broad enough returns
\* what one without the graph does, whatever was moved since.
SmallIndexIsExact ==
  Indexed /\ Cardinality(Stored) <= M =>
    \A q \in Vector, k \in 1 .. Cardinality(Stored) : VecSearch(q, k, M) = Searched(q, k, Stored)

\* However narrow, a search ends where no neighbour is nearer.
SearchEndsAtOptimum ==
  Indexed /\ Stored # {} =>
    \A q \in Vector, ef \in 1 .. M :
      LET c == Candidates(q, ef)
      IN  /\ IsInjective(c) /\ Len(c) <= ef
          /\ \A n \in Range(graph.links[c[1]][0]) : Far(graph, q, c[1]) <= Far(graph, q, n)
          /\ \A i, j \in DOMAIN c : i < j => Far(graph, q, c[i]) <= Far(graph, q, c[j])
==============================================================================
