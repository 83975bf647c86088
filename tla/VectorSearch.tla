---------------------------- MODULE VectorSearch ----------------------------
(***************************************************************************)
(* The two backends of exact_vector_search_sql: the chunks of a            *)
(* compartment with the sessions that change and search them, and the      *)
(* parallel scan that an exact_parallel search hands to the top-k          *)
(* aggregate.  The scan reads one snapshot and touches no shared row, so   *)
(* the two have nothing to interleave: `backend' says which of them a      *)
(* behaviour is about, and the other keeps its initial state.              *)
(***************************************************************************)
EXTENDS AnnLifecycle, TopK

VARIABLE backend

SearchInit ==
  /\ Init /\ TopKInit
  /\ \/ backend = "exact_parallel"
     \/ /\ backend = "local_ann"
        /\ k = Max(Ks) /\ row = [c \in Rows |-> Null]

SearchNext ==
  \/ /\ backend = "local_ann" /\ Next
     /\ UNCHANGED <<topkVars, backend>>
  \/ /\ backend = "exact_parallel" /\ TopKNext
     /\ UNCHANGED <<vars, backend>>

SearchSpec == SearchInit /\ [][SearchNext]_<<vars, topkVars, backend>>

=============================================================================
