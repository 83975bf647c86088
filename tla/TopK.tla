-------------------------------- MODULE TopK --------------------------------
(***************************************************************************)
(* Exact vector search: the aggregate topk_vector_search of                *)
(* src/maludb_topk.c under a parallel plan, and the scan of                *)
(* maludb_exact_vector_search_c (src/maludb_search.c), which keeps the     *)
(* same heap in one backend.                                               *)
(*                                                                         *)
(* The participants of the plan (leader and workers) take the rows of the  *)
(* table from a shared scan, each into a bounded max-heap of its own.  When *)
(* the scan is exhausted a participant serializes its state; the leader    *)
(* deserializes the states in the order they arrive, combines them and     *)
(* sorts the result.                                                       *)
(*                                                                         *)
(* A row is what sfunc computes from it: its distance to the query, which  *)
(* is a natural number, or Null where the embedding is NULL.  Both callers *)
(* normalize the query first.  An array h[0..n-1] of the code is a         *)
(* sequence with indices 1..n.                                             *)
(***************************************************************************)
EXTENDS Integers, FiniteSets, FiniteSetsExt, SequencesExt

CONSTANTS
  Rows,          \* chunk_ids of the rows
  Dists,         \* the distances a row can have
  Null,          \* no embedding, no text, no state, or no answer but an error
  Texts,         \* Texts[c]: the bytes of source_text of chunk c
  QueryVec,      \* the query, cached in each state
  Participants,  \* the backends of the plan
  Ks             \* the values of the limit argument

ASSUME TopKAssumption ==
  /\ Rows \subseteq Nat /\ Dists \subseteq Nat /\ Null \notin Dists
  /\ Texts \in [Rows -> Seq(Nat)]
  /\ QueryVec \in Seq(Nat)
  /\ Ks \subseteq Int
  /\ IsFiniteSet(Participants)

VARIABLES
  k,       \* the limit
  row,     \* row[c]: the distance of chunk c, or Null
  todo,    \* rows the scan has not handed out yet
  st,      \* st[p]: the TopKState of participant p, or Null
  bytes,   \* bytes[p]: what p handed back: <<>> before, or the serialized state
  came,    \* participants whose state the leader has combined
  total,   \* the leader's combined state, or Null
  result,  \* the sorted entries
  phase,   \* "scan", "raised" or "done"
  took     \* history: took[p] is the set of rows p was handed

topkVars == <<k, row, todo, st, bytes, came, total, result, phase, took>>

Entries ==
  [id : Rows, distance : Dists, similarity : Int, text : Seq(Nat) \cup {Null}]

\* The similarity of metric l2.
RowEntry(c) == [id |-> c, distance |-> row[c], similarity |-> -row[c],
                text |-> Texts[c]]

-----------------------------------------------------------------------------
(* The heap: the root is the worst of the entries kept.                    *)

heap_swap(h, i, j) == [h EXCEPT ![i] = h[j], ![j] = h[i]]

sift_up(heap, last) ==
  LET up[h \in Seq(Entries), i \in Nat] ==
        LET parent == i \div 2
        IN  IF i > 1 /\ h[i].distance > h[parent].distance
            THEN up[heap_swap(h, i, parent), parent]
            ELSE h
  IN  up[heap, last]

\* The child a node is swapped with: the larger one, or itself if none is
\* larger.
Larger(h, i) ==
  LET l == 2 * i
      r == 2 * i + 1
      m == IF l <= Len(h) /\ h[l].distance > h[i].distance THEN l ELSE i
  IN  IF r <= Len(h) /\ h[r].distance > h[m].distance THEN r ELSE m

sift_down(heap) ==
  LET down[h \in Seq(Entries), i \in Nat] ==
        LET m == Larger(h, i)
        IN  IF m = i THEN h ELSE down[heap_swap(h, i, m), m]
  IN  down[heap, 1]

\* An entry enters a heap that is not full, or replaces the root of a full one
\* if it is strictly nearer.
Offer(h, capacity, e) ==
  IF Len(h) < capacity THEN sift_up(Append(h, e), Len(h) + 1)
  ELSE IF capacity > 0 /\ e.distance < h[1].distance
  THEN sift_down([h EXCEPT ![1] = e])
  ELSE h

\* The order qsort puts the entries in.
cmp_distance_asc(a, b) ==
  \/ a.distance < b.distance
  \/ a.distance = b.distance /\ a.id < b.id

-----------------------------------------------------------------------------
(* The functions of the aggregate.                                         *)

MetricL2 == 2

state_new(capacity) ==
  [capacity |-> capacity, metric |-> MetricL2, query |-> QueryVec, heap |-> << >>]

\* The copy of an empty text is NULL.
state_offer(state, e) ==
  LET kept == [e EXCEPT !.text = IF @ = << >> THEN Null ELSE @]
  IN  [state EXCEPT !.heap = Offer(@, state.capacity, kept)]

\* A row without embedding leaves the state alone, NULL included.
maludb_topk_vector_sfunc(state, c) ==
  IF row[c] = Null THEN state
  ELSE state_offer(IF state = Null THEN state_new(k) ELSE state, RowEntry(c))

\* Every entry of b is offered to a.
maludb_topk_vector_combine_SkipsRoot(a, b) ==
  IF a = Null THEN b
  ELSE IF b = Null THEN a
  ELSE FoldLeft(state_offer, a, Tail(b.heap))

maludb_topk_vector_combine(a, b) ==
  IF a = Null THEN b
  ELSE IF b = Null THEN a
  ELSE FoldLeft(state_offer, a, b.heap)

\* A flat sequence of fields: a header, the query, and for each entry its
\* id, distance, similarity, text length (0 for NULL) and text.
maludb_topk_vector_serialize(state) ==
  <<state.capacity, Len(state.heap), state.metric, Len(state.query)>>
  \o state.query
  \o FlattenSeq([i \in DOMAIN state.heap |->
       LET e    == state.heap[i]
           text == IF e.text = Null THEN << >> ELSE e.text
       IN  <<e.id, e.distance, e.similarity, Len(text)>> \o text])

\* EntryAt(b, i): where entry i of the message starts; each is as long as its
\* text says.
EntryAt(b, n) ==
  LET at[i \in Nat] ==
        IF i = 1 THEN 5 + b[4]
        ELSE at[i - 1] + 4 + b[at[i - 1] + 3]
  IN  at[n]

maludb_topk_vector_deserialize(b) ==
  [ capacity |-> b[1],
    metric   |-> b[3],
    query    |-> SubSeq(b, 5, 4 + b[4]),
    heap     |-> [i \in 1..b[2] |->
                   LET j == EntryAt(b, i)
                   IN  [ id |-> b[j], distance |-> b[j + 1],
                         similarity |-> b[j + 2],
                         text |-> IF b[j + 3] = 0 THEN Null
                                  ELSE SubSeq(b, j + 4, j + 3 + b[j + 3]) ]] ]

\* The entries sorted; no rows for a NULL state.
maludb_topk_vector_finalize_Unsorted(state) ==
  IF state = Null THEN << >> ELSE state.heap

maludb_topk_vector_finalize(state) ==
  IF state = Null THEN << >> ELSE SortSeq(state.heap, cmp_distance_asc)

\* maludb_exact_vector_search_c on the rows in the order of a sequence of
\* chunk_ids; Null where it raises "limit must be positive", before it scans.
\* It copies an empty text as it is.
maludb_exact_vector_search_c(limit, scan) ==
  IF limit <= 0 THEN Null
  ELSE SortSeq(FoldLeft(LAMBDA h, c : IF row[c] = Null THEN h
                                      ELSE Offer(h, limit, RowEntry(c)),
                        << >>, scan),
               cmp_distance_asc)

-----------------------------------------------------------------------------

TopKInit ==
  /\ k \in Ks
  /\ row \in [Rows -> Dists \cup {Null}]
  /\ todo = Rows
  /\ st = [p \in Participants |-> Null]
  /\ bytes = [p \in Participants |-> << >>]
  /\ came = {}
  /\ total = Null
  /\ result = << >>
  /\ phase = "scan"
  /\ took = [p \in Participants |-> {}]

\* The shared scan hands a participant some row.
TakeRow(p, c) ==
  /\ phase = "scan"
  /\ c \in todo
  /\ st[p] = Null /\ row[c] # Null => k > 0
  /\ todo' = todo \ {c}
  /\ took' = [took EXCEPT ![p] = @ \cup {c}]
  /\ st' = [st EXCEPT ![p] = maludb_topk_vector_sfunc(st[p], c)]
  /\ UNCHANGED <<k, row, bytes, came, total, result, phase>>

\* "limit must be positive", noticed when a state is created.
LimitRaises(p, c) ==
  /\ phase = "scan"
  /\ c \in todo
  /\ st[p] = Null /\ row[c] # Null /\ k <= 0
  /\ phase' = "raised"
  /\ UNCHANGED <<k, row, todo, st, bytes, came, total, result, took>>

\* The scan is exhausted.  The serialize function is strict: a NULL state is
\* not given to it.
HandBack(p) ==
  /\ phase = "scan" /\ todo = {}
  /\ bytes[p] = << >> /\ st[p] # Null
  /\ bytes' = [bytes EXCEPT ![p] = maludb_topk_vector_serialize(st[p])]
  /\ UNCHANGED <<k, row, todo, st, came, total, result, phase, took>>

\* The leader combines the state that arrives from p, in any order.
Receive(p) ==
  /\ phase = "scan" /\ todo = {}
  /\ p \notin came
  /\ \/ st[p] = Null /\ total' = maludb_topk_vector_combine(total, Null)
     \/ /\ bytes[p] # << >>
        /\ total' = maludb_topk_vector_combine(
                      total, maludb_topk_vector_deserialize(bytes[p]))
  /\ came' = came \cup {p}
  /\ UNCHANGED <<k, row, todo, st, bytes, result, phase, took>>

Finalize ==
  /\ phase = "scan" /\ came = Participants
  /\ result' = maludb_topk_vector_finalize(total)
  /\ phase' = "done"
  /\ UNCHANGED <<k, row, todo, st, bytes, came, total, took>>

TopKNext ==
  \/ \E p \in Participants :
       \/ \E c \in Rows : TakeRow(p, c) \/ LimitRaises(p, c)
       \/ HandBack(p)
       \/ Receive(p)
  \/ Finalize

-----------------------------------------------------------------------------

\* The states there are, with the rows that went into each.
Gathered == UNION {took[p] : p \in came}

States ==
  {<<st[p], took[p]>> : p \in Participants} \cup {<<total, Gathered>>}

Scored(S) == {c \in S : row[c] # Null}

\* In every state, the leader's combined one included, the heap holds rows it
\* was given, each once, and a row it was given is missing only if the heap
\* is full of rows that are no farther.
NothingBetterLost ==
  \A x \in States :
    LET h   == IF x[1] = Null THEN << >> ELSE x[1].heap
        ids == {h[i].id : i \in DOMAIN h}
    IN  /\ ids \subseteq Scored(x[2])
        /\ Cardinality(ids) = Len(h)
        /\ \A c \in Scored(x[2]) \ ids :
             Len(h) = k /\ \A i \in DOMAIN h : h[i].distance <= row[c]

\* The two copies of a row agree; an empty text may have become NULL.
SameRow(parallel, exact) ==
  /\ parallel.id = exact.id /\ parallel.similarity = exact.similarity
  /\ parallel.text = (IF exact.text = << >> THEN Null ELSE exact.text)

\* The test parallel_vector_search.sql: "results identical across both backends
\* (rank + chunk_id agreement)".  Whatever rows the participants took and in
\* whatever order their states arrived, each rank has the distance the exact
\* scan gives it, and the row too unless it ties with the last rank.  A limit
\* the scan refuses is refused by the aggregate too, or has no row to return.
PathsAgree ==
  LET exact == maludb_exact_vector_search_c(k, SetToSortSeq(Rows, <))
  IN  /\ phase = "raised" => exact = Null
      /\ phase = "done" =>
           IF exact = Null THEN result = << >>
           ELSE /\ Len(result) = Len(exact)
                /\ \A i \in DOMAIN result :
                     /\ result[i].distance = exact[i].distance
                     /\ result[i].distance < Last(result).distance
                          => SameRow(result[i], exact[i])

=============================================================================
