-------------------------------- MODULE Nsw --------------------------------
(***************************************************************************)
(* The approximate-nearest-neighbour graph of src/maludb_ann.c: a single   *)
(* navigable-small-world layer that maludb_ann_build_c builds in one pass  *)
(* over the chunks of a compartment and maludb_ann_search_c walks with a   *)
(* beam of ef candidates.                                                  *)
(*                                                                         *)
(* An embedding is a point of a line and a distance is the distance of two *)
(* points.  No two distances that are compared are equal, so the two heaps *)
(* of nsw_search and the slots of a node's edges are sets: what they yield *)
(* is determined by the distances.  A node is the chunk it stands for; the *)
(* nodes are numbered in the order of chunk_id.                            *)
(***************************************************************************)
EXTENDS Integers, FiniteSets, FiniteSetsExt

CONSTANTS
  Chunks,  \* chunk_ids
  Pos,     \* Pos[c]: the embedding of chunk c
  Query    \* the embedding searched for

Dist(x, y) == IF x < y THEN y - x ELSE x - y

ASSUME NswAssumption ==
  /\ Chunks \subseteq Nat
  /\ Pos \in [Chunks -> Int]
  /\ Query \in Int
  /\ \A x \in {Pos[c] : c \in Chunks} \cup {Query} : \A a, b \in Chunks :
       a # b => Dist(x, Pos[a]) # Dist(x, Pos[b])

\* The nearest and the farthest of a set of chunks, and its n nearest.
Nearest(x, S) == CHOOSE c \in S : \A d \in S : Dist(x, Pos[c]) <= Dist(x, Pos[d])

Farthest(x, S) == CHOOSE c \in S : \A d \in S : Dist(x, Pos[c]) >= Dist(x, Pos[d])

Best(x, S, n) ==
  {c \in S : Cardinality({d \in S : Dist(x, Pos[d]) < Dist(x, Pos[c])}) < n}

-----------------------------------------------------------------------------

\* An AnnGraph.  edges[c] has at most m members.
EmptyGraph(m) == [nodes |-> {}, edges |-> << >>, m |-> m]

\* The entry node is node 0.
Entry(g) == Min(g.nodes)

Beams == [cand : SUBSET Chunks, res : SUBSET Chunks, visited : SUBSET Chunks]

\* The loop stops early when the beam is full and the best candidate is worse
\* than everything in it.
Exhausted(x, st, ef) ==
  \/ st.cand = {}
  \/ /\ Cardinality(st.res) >= ef
     /\ Dist(x, Pos[Nearest(x, st.cand)]) > Dist(x, Pos[Farthest(x, st.res)])

\* The nearest candidate is expanded: its unvisited neighbours enter the beam,
\* and those that stay in it become candidates.
Expand(g, x, st, ef) ==
  LET c     == Nearest(x, st.cand)
      fresh == g.edges[c] \ st.visited
      res   == Best(x, st.res \cup fresh, ef)
  IN  [ cand    |-> (st.cand \ {c}) \cup (fresh \cap res),
        res     |-> res,
        visited |-> st.visited \cup fresh ]

\* nsw_search: the k nearest nodes that a beam of width ef meets from the
\* entry node, in a result buffer of res_cap entries.
nsw_search(g, x, k, ef, res_cap) ==
  LET width == Min({Max({ef, k}), res_cap})
      walk[st \in Beams] ==
        IF Exhausted(x, st, width) THEN st.res ELSE walk[Expand(g, x, st, width)]
      start == [cand |-> {Entry(g)}, res |-> {Entry(g)}, visited |-> {Entry(g)}]
  IN  IF g.nodes = {} THEN {} ELSE Best(x, walk[start], k)

\* ann_set_edge: a free slot, or the slot of the farthest neighbour if the new
\* one is nearer.
ann_set_edge(m, E, a, b) ==
  IF Cardinality(E) < m THEN E \cup {b}
  ELSE LET w == Farthest(Pos[a], E)
       IN  IF Dist(Pos[a], Pos[b]) < Dist(Pos[a], Pos[w])
           THEN (E \ {w}) \cup {b} ELSE E

\* One node joins the partial graph: an edge to each of the (at most m) nodes
\* found, and one back from each of them.
InsertNode(g, i, efc) ==
  LET found == nsw_search(g, Pos[i], g.m, efc, efc + 1)
  IN  [ g EXCEPT
          !.nodes = @ \cup {i},
          !.edges = [c \in g.nodes \cup {i} |->
                       IF c = i THEN found
                       ELSE IF c \in found THEN ann_set_edge(g.m, @[c], c, i)
                       ELSE @[c]] ]

\* built[n] is the graph after the first n chunks, in the order of chunk_id.
maludb_ann_build_c(S, m, efc) ==
  LET built[n \in 0 .. Cardinality(S)] ==
        IF n = 0 THEN EmptyGraph(m)
        ELSE LET g == built[n - 1] IN InsertNode(g, Min(S \ g.nodes), efc)
  IN  built[Cardinality(S)]

\* The header of an empty graph says dim 0, which no query has.
AnnSearchRaises(g) == g.nodes = {}

maludb_ann_search_c(g, x, k, ef_search) ==
  LET ef == Max({ef_search, k})
  IN  nsw_search(g, x, k, ef, ef + 1)

=============================================================================
