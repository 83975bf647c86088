---------------------------- MODULE AnnLifecycle ----------------------------
(***************************************************************************)
(* The life of the chunks of one vector compartment and of its ANN index:  *)
(* register_vector_chunk, tombstone_vector_chunk, _vector_chunks_delete,   *)
(* ann_build, ann_rebuild and exact_vector_search_sql, called by           *)
(* concurrent sessions.  The graph and its search are those of Nsw.        *)
(*                                                                         *)
(* A step is one statement of a function, with the READ COMMITTED snapshot *)
(* it gets: it sees what is committed and what its own transaction wrote.  *)
(* A transaction collects its writes in wr[p] and Commit publishes them.   *)
(* An UPDATE of the compartment's row takes its lock, which is held to the *)
(* end of the transaction; `lock' is its holder.                           *)
(***************************************************************************)
EXTENDS Nsw

CONSTANTS
  Sessions,  \* concurrent sessions
  NoSession,
  NoIndex,   \* malu$ann_index has no row for the compartment
  Ms,        \* the values of p_m given to ann_build
  EfC, EfSearch,
  Limit,     \* p_limit of the searches
  RawQueries, \* what p_query is when vector_normalize(p_query) is Query
  MaxCalls   \* bound on the number of calls

\* What ann_build can store.
Graphs ==
  {maludb_ann_build_c(S, m, EfC) :
     S \in {T \in SUBSET Chunks : IsFiniteSet(T)}, m \in Ms}

ASSUME AnnAssumption ==
  /\ Ms \subseteq Nat \ {0}
  /\ {EfC, EfSearch, Limit} \subseteq Nat \ {0}
  /\ MaxCalls \in Nat
  /\ RawQueries \subseteq Int /\ Query \in RawQueries
  /\ NoSession \notin Sessions
  /\ NoIndex \notin Graphs

VARIABLES
  chunk,    \* the rows of malu$vector_chunk
  tomb,     \* malu$vector_tombstone
  delta,    \* malu$ann_delta
  index,    \* malu$ann_index.graph_bytes, or NoIndex
  compart,  \* the row of malu$vector_compartment
  lock,     \* the session that holds that row's lock, or NoSession
  pc,       \* pc[p]: the next statement of session p
  arg,      \* arg[p]: what the call is about
  seen,     \* seen[p]: what the first statements of a search have read
  wr,       \* wr[p]: uncommitted writes
  used,     \* chunk_ids given out by the sequence
  gone,     \* history: chunks tombstoned or deleted by a committed call
  cleared,  \* history: chunks whose tombstone ann_rebuild has removed
  calls     \* history: the number of calls so far

committed == <<chunk, tomb, delta, index, compart>>
locals == <<arg, seen>>
history == <<used, gone, cleared, calls>>
vars == <<committed, lock, pc, locals, wr, history>>

NoWrites ==
  [ add |-> {}, del |-> {}, tombAdd |-> {}, tombDel |-> {}, gone |-> {},
    deltaAdd |-> {}, deltaDel |-> {}, index |-> NoIndex, compart |-> <<>> ]

NothingSeen ==
  [mode |-> "exact", index |-> NoIndex, gone |-> {}, raw |-> Query]

NoArg == [c |-> 0, rebuild |-> FALSE, m |-> 0, hasIndex |-> FALSE]

Init ==
  /\ chunk = {} /\ tomb = {} /\ delta = {}
  /\ index = NoIndex
  /\ compart = [mode |-> "exact", status |-> "none", count |-> 0]
  /\ lock = NoSession
  /\ pc = [p \in Sessions |-> "idle"]
  /\ arg = [p \in Sessions |-> NoArg]
  /\ seen = [p \in Sessions |-> NothingSeen]
  /\ wr = [p \in Sessions |-> NoWrites]
  /\ used = {} /\ gone = {} /\ cleared = {} /\ calls = 0

-----------------------------------------------------------------------------
(* Transactions.                                                           *)

Goto(p, where) == pc' = [pc EXCEPT ![p] = where]

Starts(p, a, where) ==
  /\ pc[p] = "idle"
  /\ calls < MaxCalls
  /\ calls' = calls + 1
  /\ arg' = [arg EXCEPT ![p] = a]
  /\ Goto(p, where)

\* UPDATE of the compartment's row: waits for the row lock, then writes the
\* current version of the row.
UpdateCompartment_NoWait(p, row) ==
  /\ lock' = lock
  /\ wr' = [wr EXCEPT ![p].compart = row]

UpdateCompartment(p, row) ==
  /\ lock \in {NoSession, p}
  /\ lock' = p
  /\ wr' = [wr EXCEPT ![p].compart = row]

\* The row as the transaction p, which holds its lock, sees it.
Row(p) == IF wr[p].compart = <<>> THEN compart ELSE wr[p].compart

Stale(row) == [row EXCEPT !.status = "stale"]

Ready(row) == [row EXCEPT !.mode = "local_ann", !.status = "ready"]

EndTxn(p) ==
  /\ lock' = IF lock = p THEN NoSession ELSE lock
  /\ Goto(p, "idle")
  /\ arg' = [arg EXCEPT ![p] = NoArg]
  /\ wr' = [wr EXCEPT ![p] = NoWrites]

Commit(p) ==
  /\ pc[p] = "commit"
  /\ chunk' = (chunk \cup wr[p].add) \ wr[p].del
  /\ tomb' = (tomb \ wr[p].tombDel) \cup wr[p].tombAdd
  /\ delta' = (delta \ wr[p].deltaDel) \cup wr[p].deltaAdd
  /\ index' = IF wr[p].index = NoIndex THEN index ELSE wr[p].index
  /\ compart' = Row(p)
  /\ gone' = gone \cup wr[p].gone
  /\ cleared' = cleared \cup (IF arg[p].rebuild THEN wr[p].tombDel ELSE {})
  /\ EndTxn(p)
  /\ UNCHANGED <<seen, used, calls>>

\* An error, a cancelled statement or a lost session, before the commit.
Abort(p) ==
  /\ pc[p] \notin {"idle", "query"}
  /\ EndTxn(p)
  /\ UNCHANGED <<committed, seen, history>>

-----------------------------------------------------------------------------
(* register_vector_chunk                                                   *)

RegisterInsert(p, c) ==
  /\ c \notin used
  /\ Starts(p, [NoArg EXCEPT !.c = c], "count")
  /\ used' = used \cup {c}
  /\ wr' = [wr EXCEPT ![p].add = {c}]
  /\ UNCHANGED <<committed, lock, seen, gone, cleared>>

RegisterCount(p) ==
  /\ pc[p] = "count"
  /\ UpdateCompartment(p, [Row(p) EXCEPT !.count = @ + 1])
  /\ Goto(p, "delta")
  /\ UNCHANGED <<committed, locals, history>>

\* If an index exists the chunk is put into the delta.
RegisterDelta(p) ==
  /\ pc[p] = "delta"
  /\ wr' = IF index = NoIndex THEN wr
           ELSE [wr EXCEPT ![p].deltaAdd = {arg[p].c},
                           ![p].compart = Stale(@)]
  /\ Goto(p, "commit")
  /\ UNCHANGED <<committed, lock, locals, history>>

-----------------------------------------------------------------------------
(* tombstone_vector_chunk                                                  *)

\* Another transaction has deleted the chunk, or written its tombstone, and
\* not ended yet: an INSERT of the tombstone or a DELETE of the chunk waits.
Busy(p, c) ==
  \E q \in Sessions \ {p} :
    c \in wr[q].del \cup wr[q].tombAdd \cup wr[q].tombDel

\* INSERT ... ON CONFLICT DO NOTHING.
TombstoneInsert(p, c) ==
  /\ c \in chunk
  /\ ~Busy(p, c)
  /\ Starts(p, [NoArg EXCEPT !.c = c], "mark")
  /\ wr' = [wr EXCEPT ![p].tombAdd = {c} \ tomb, ![p].gone = {c}]
  /\ UNCHANGED <<committed, lock, seen, used, gone, cleared>>

\* UPDATE ... WHERE EXISTS (an index): without one no row is locked.
TombstoneMark(p) ==
  /\ pc[p] = "mark"
  /\ \/ index = NoIndex /\ UNCHANGED <<lock, wr>>
     \/ index # NoIndex /\ UpdateCompartment(p, Stale(Row(p)))
  /\ Goto(p, "commit")
  /\ UNCHANGED <<committed, locals, history>>

-----------------------------------------------------------------------------
(* _vector_chunks_delete: one statement, which locks the chunk's row and   *)
(* then waits for the compartment's; what it reads of malu$ann_index is as *)
(* of its start.  malu$ann_delta and malu$vector_tombstone cascade.        *)

DeleteChunk(p, c) ==
  /\ c \in chunk
  /\ ~Busy(p, c)
  /\ Starts(p, [NoArg EXCEPT !.c = c, !.hasIndex = index # NoIndex], "uncount")
  /\ wr' = [wr EXCEPT ![p].del = {c}, ![p].gone = {c}]
  /\ UNCHANGED <<committed, lock, seen, used, gone, cleared>>

DeleteCount(p) ==
  /\ pc[p] = "uncount"
  /\ lock = NoSession
  /\ lock' = p
  /\ LET fewer == [compart EXCEPT !.count = Max({@ - 1, 0})]
     IN  wr' = [wr EXCEPT ![p].deltaDel = {arg[p].c},
                          ![p].tombDel = {arg[p].c},
                          ![p].compart = IF arg[p].hasIndex THEN Stale(fewer)
                                         ELSE fewer]
  /\ Goto(p, "commit")
  /\ UNCHANGED <<committed, locals, history>>

-----------------------------------------------------------------------------
(* ann_build, and ann_rebuild, which needs an index, keeps its m and, when *)
(* the build is done, deletes the tombstones of the compartment.           *)

ann_build(p, m) ==
  /\ Starts(p, [NoArg EXCEPT !.m = m], "lock")
  /\ UNCHANGED <<committed, lock, seen, wr, used, gone, cleared>>

ann_rebuild(p) ==
  /\ index # NoIndex
  /\ Starts(p, [NoArg EXCEPT !.m = index.m, !.rebuild = TRUE], "lock")
  /\ UNCHANGED <<committed, lock, seen, wr, used, gone, cleared>>

BuildLock_NoUpdate(p) ==
  /\ pc[p] = "lock"
  /\ Goto(p, "scan")
  /\ UNCHANGED <<committed, lock, wr, locals, history>>

BuildLock(p) ==
  /\ pc[p] = "lock"
  /\ UpdateCompartment(p, [Row(p) EXCEPT !.status = "building"])
  /\ Goto(p, "scan")
  /\ UNCHANGED <<committed, locals, history>>

\* The graph of the chunks that are not tombstoned, stored in the index row.
BuildScan(p) ==
  /\ pc[p] = "scan"
  /\ wr' = [wr EXCEPT ![p].index = maludb_ann_build_c(chunk \ tomb, arg[p].m, EfC)]
  /\ Goto(p, "drain")
  /\ UNCHANGED <<committed, lock, locals, history>>

\* The delta is emptied and the compartment searched through the index.
BuildDrain(p) ==
  /\ pc[p] = "drain"
  /\ lock \in {NoSession, p}
  /\ lock' = p
  /\ wr' = [wr EXCEPT ![p].deltaDel = delta, ![p].compart = Ready(Row(p))]
  /\ Goto(p, IF arg[p].rebuild THEN "clear" ELSE "commit")
  /\ UNCHANGED <<committed, locals, history>>

RebuildClear(p) ==
  /\ pc[p] = "clear"
  /\ wr' = [wr EXCEPT ![p].tombDel = tomb \cap chunk]
  /\ Goto(p, "commit")
  /\ UNCHANGED <<committed, lock, locals, history>>

-----------------------------------------------------------------------------
(* exact_vector_search_sql reads the compartment's row and the index in    *)
(* statements of their own; a later one searches, with a later snapshot.   *)
(* Answer(p) is what that statement returns if it runs now.                *)

SearchStart(p, raw) ==
  /\ Starts(p, NoArg, "query")
  /\ seen' = [seen EXCEPT ![p] = [ mode  |-> compart.mode,
                                   index |-> index,
                                   gone  |-> gone,
                                   raw   |-> raw ]]
  /\ UNCHANGED <<committed, lock, wr, used, gone, cleared>>

\* The scan of exact_vector_search_c and exact_vector_search_parallel_c.
ExactHits_Unfiltered == Best(Query, chunk, Limit)

ExactHits == Best(Query, chunk \ tomb, Limit)

Hit(c, x, from) == [c |-> c, d |-> Dist(x, Pos[c]), from |-> from]

\* ann_hits: twice the limit is fetched, then tombstones are filtered out.
AnnHits_NoOverfetch(g) ==
  {Hit(c, Query, "graph") :
     c \in maludb_ann_search_c(g, Query, Limit, EfSearch) \ tomb}

AnnHits(g) ==
  {Hit(c, Query, "graph") :
     c \in maludb_ann_search_c(g, Query, 2 * Limit, EfSearch) \ tomb}

\* delta_hits.  Metrics l2 and inner_product measure from the query as it was
\* given: then raw may be any of RawQueries.  Metric cosine normalizes it, as
\* the graph and the exact path do: then raw is Query.
DeltaHits(raw) == {Hit(c, raw, "delta") : c \in (delta \cap chunk) \ tomb}

\* ranked: the first n by distance, then chunk_id.
Before(h, i) ==
  \/ h.d < i.d
  \/ h.d = i.d /\ h.c < i.c
  \/ h.d = i.d /\ h.c = i.c /\ h.from = "graph" /\ i.from = "delta"

Ranked(hits, n) == {h \in hits : Cardinality({i \in hits : Before(i, h)}) < n}

Raises(p) == seen[p].mode = "local_ann" /\ AnnSearchRaises(seen[p].index)

\* Ranked first, joined with the chunk rows that still exist last.
Answer(p) ==
  IF seen[p].mode = "local_ann"
  THEN IF Raises(p) THEN {}
       ELSE LET merged == AnnHits(seen[p].index) \cup DeltaHits(seen[p].raw)
            IN  {h.c : h \in Ranked(merged, Limit)} \cap chunk
  ELSE ExactHits

SearchQuery(p) ==
  /\ pc[p] = "query"
  /\ Goto(p, "idle")
  /\ seen' = [seen EXCEPT ![p] = NothingSeen]
  /\ UNCHANGED <<committed, lock, arg, wr, history>>

-----------------------------------------------------------------------------

Register(p) ==
  \/ \E c \in Chunks : RegisterInsert(p, c)
  \/ RegisterCount(p) \/ RegisterDelta(p)

Tombstone(p) == (\E c \in Chunks : TombstoneInsert(p, c)) \/ TombstoneMark(p)

Delete(p) == (\E c \in Chunks : DeleteChunk(p, c)) \/ DeleteCount(p)

Build(p) ==
  \/ \E m \in Ms : ann_build(p, m)
  \/ ann_rebuild(p)
  \/ BuildLock(p) \/ BuildScan(p) \/ BuildDrain(p) \/ RebuildClear(p)

Search(p) == (\E raw \in RawQueries : SearchStart(p, raw)) \/ SearchQuery(p)

Next ==
  \E p \in Sessions :
    \/ Register(p) \/ Tombstone(p) \/ Delete(p) \/ Build(p) \/ Search(p)
    \/ Commit(p) \/ Abort(p)

Spec == Init /\ [][Next]_vars

-----------------------------------------------------------------------------
(* What the calls promise together.                                        *)

\* malu$ann_delta: "Search merges these with the graph results so new vectors
\* are immediately findable."  A chunk whose registration committed and that
\* nobody tombstoned is in the graph or in the delta, however registrations
\* and builds overlap.
Findable ==
  compart.mode = "local_ann" =>
    index # NoIndex /\ (chunk \ gone) \subseteq (index.nodes \cup delta)

\* "keep each compartment's count true": vector_count is the number of chunk
\* rows, whatever calls overlap or are aborted.
CountIsTrue == compart.count = Cardinality(chunk)

\* A search returns no chunk whose tombstone or deletion was committed before
\* it began, on the exact and on the ANN path, unless ann_rebuild has cleared
\* the tombstone.
AnswersForget ==
  \A p \in Sessions : pc[p] = "query" =>
    Answer(p) \cap (seen[p].gone \ cleared) = {}

\* sql/local_ann.sql: "for this N, the ANN should recover the same top-3 as
\* exact".  With a graph of at most m + 1 nodes, graph and delta together
\* return what the exact search returns; provided graph and delta are measured
\* from the same point (metric cosine, or a query of length one), no build
\* commits while the search runs, no more than Limit nodes are tombstoned, none
\* is deleted, and no tombstone was cleared.
AnswerIsExact ==
  \A p \in Sessions :
    /\ pc[p] = "query" /\ seen[p].mode = "local_ann" /\ ~Raises(p)
    /\ seen[p].raw = Query
    /\ seen[p].index = index
    /\ Cardinality(index.nodes) <= index.m + 1
    /\ index.nodes \subseteq chunk
    /\ Cardinality(index.nodes \cap tomb) <= Limit
    /\ cleared = {}
    => Answer(p) = Best(Query, chunk \ tomb, Limit)

=============================================================================
