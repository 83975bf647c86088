--------------------------- MODULE MCVectorSearch ---------------------------
(***************************************************************************)
(* For the compartment: three chunks at points with pairwise different     *)
(* distances, so that with m = 1 edges are evicted and with m = 2 the      *)
(* graph is complete; a query that is given normalized, or not.            *)
(* For the scan: five rows, with texts of lengths 1, 0, 2, 1 and 3.        *)
(***************************************************************************)
EXTENDS VectorSearch, TLC

CONSTANTS s1, s2, w1, w2

ThreeChunks == 1..3
Points == <<5, 1, 7>>
Origin == 0
GivenQueries == {0, 6}

FiveRows == 1..5
TwoDims == <<8, 9>>
SomeTexts == <<<<7>>, << >>, <<7, 7>>, <<8>>, <<6, 6, 6>>>>

Symmetry == Permutations(Sessions) \cup Permutations(Participants)

=============================================================================
