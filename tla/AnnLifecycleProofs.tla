------------------------- MODULE AnnLifecycleProofs -------------------------
(***************************************************************************)
(* Proofs about the chunks of a compartment and its ANN index, for every   *)
(* set of sessions and chunks and every bound: the count of the            *)
(* compartment is true, every committed chunk can be found, and a search   *)
(* returns nothing that was forgotten before it began.                     *)
(*                                                                         *)
(* The argument: whoever has written the compartment's row holds its lock  *)
(* (Locked), and every call that changes the chunks, the delta or the      *)
(* index has written that row by the time it commits (QuietWithoutRow).    *)
(* So what a transaction has worked out under the lock is still true when  *)
(* it commits.                                                             *)
(***************************************************************************)
EXTENDS AnnLifecycle, FiniteSetTheorems, WellFoundedInduction, TLAPS

Rows ==
  [ mode : {"exact", "local_ann"}, count : Nat,
    status : {"none", "building", "ready", "stale"} ]

Writes ==
  [ add : SUBSET Chunks, del : SUBSET Chunks, tombAdd : SUBSET Chunks,
    tombDel : SUBSET Chunks, gone : SUBSET Chunks, deltaAdd : SUBSET Chunks,
    deltaDel : SUBSET Chunks, index : Graphs \cup {NoIndex},
    compart : Rows \cup {<<>>} ]

Args == [c : Nat, rebuild : BOOLEAN, m : Nat, hasIndex : BOOLEAN]

PCs == {"idle", "count", "delta", "commit", "mark", "uncount", "lock", "scan",
        "drain", "clear", "query"}

TypeOK ==
  /\ {chunk, tomb, delta, used, gone, cleared} \subseteq SUBSET Chunks
  /\ index \in Graphs \cup {NoIndex}
  /\ compart \in Rows
  /\ lock \in Sessions \cup {NoSession}
  /\ pc \in [Sessions -> PCs]
  /\ arg \in [Sessions -> Args]
  /\ wr \in [Sessions -> Writes]
  /\ DOMAIN seen = Sessions
  /\ calls \in Nat
  /\ IsFiniteSet(chunk)

(* A transaction that has written the compartment's row holds its lock,    *)
(* and the functions that look at the index do so under the lock.          *)
Locked(p) ==
  /\ wr[p].compart # <<>> => lock = p
  /\ pc[p] \in {"delta", "scan", "drain", "clear"} => wr[p].compart # <<>>

(* What a transaction can have written before each statement.              *)
WritesByPc(p) ==
  /\ pc[p] \in {"idle", "query", "lock"} => wr[p] = NoWrites
  /\ pc[p] = "count" => wr[p] = [NoWrites EXCEPT !.add = {arg[p].c}]
  /\ pc[p] = "delta" =>
       wr[p] = [NoWrites EXCEPT !.add = {arg[p].c}, !.compart = wr[p].compart]
  /\ pc[p] = "mark" =>
       wr[p] = [NoWrites EXCEPT !.tombAdd = wr[p].tombAdd, !.gone = {arg[p].c}]
  /\ pc[p] = "uncount" =>
       wr[p] = [NoWrites EXCEPT !.del = {arg[p].c}, !.gone = {arg[p].c}]
  /\ pc[p] = "scan" => wr[p] = [NoWrites EXCEPT !.compart = wr[p].compart]
  /\ pc[p] = "drain" =>
       wr[p] = [NoWrites EXCEPT !.compart = wr[p].compart, !.index = wr[p].index]
  /\ pc[p] = "clear" => arg[p].rebuild = TRUE
  /\ pc[p] \in {"lock", "scan"} => arg[p].m \in Ms

(* A transaction that has not written the row has nothing to commit but a  *)
(* tombstone.                                                              *)
QuietWithoutRow(p) ==
  pc[p] = "commit" /\ wr[p].compart = <<>> =>
    /\ wr[p].add = {} /\ wr[p].del = {} /\ wr[p].tombDel = {}
    /\ wr[p].deltaAdd = {} /\ wr[p].deltaDel = {} /\ wr[p].index = NoIndex

(* The sequence gives every chunk_id once.                                 *)
Fresh(p) ==
  /\ wr[p].add \subseteq used \ (chunk \cup gone)
  /\ wr[p].del \subseteq chunk
  /\ wr[p].gone \subseteq used
  /\ IsFiniteSet(wr[p].add)

(* The count a transaction has written is that of the chunks there are     *)
(* when it commits.                                                        *)
Counts(p) ==
  wr[p].compart # <<>> =>
    wr[p].compart.count = Cardinality((chunk \cup wr[p].add) \ wr[p].del)

(* A finished scan has every chunk there is; a registration that saw no    *)
(* index commits while there is none; the delta loses a chunk only to a    *)
(* graph or with its row.                                                  *)
Finds(p) ==
  /\ pc[p] \in {"drain", "clear"} => wr[p].index # NoIndex
  /\ wr[p].index # NoIndex =>
       /\ wr[p].compart # <<>>
       /\ chunk \ gone \subseteq wr[p].index.nodes
       /\ wr[p].add = {} /\ wr[p].del = {}
  /\ wr[p].index = NoIndex => wr[p].deltaDel \subseteq wr[p].del
  /\ wr[p].compart # <<>> /\ wr[p].compart.mode = "local_ann" =>
       compart.mode = "local_ann" \/ wr[p].index # NoIndex
  /\ pc[p] = "commit" => wr[p].add \subseteq wr[p].deltaAdd \/ index = NoIndex

(* What an open transaction is about to forget will be tombstoned or have  *)
(* no row, unless ann_rebuild has cleared the tombstone.                   *)
Forgets(p) ==
  /\ seen[p].gone \subseteq gone
  /\ wr[p].tombAdd \subseteq wr[p].gone
  /\ arg[p].rebuild = FALSE => wr[p].tombDel \subseteq wr[p].del
  /\ (wr[p].gone \ (wr[p].tombAdd \cup wr[p].del)) \cap chunk
       \subseteq tomb \cup cleared

SessionInv(p) ==
  /\ Locked(p) /\ WritesByPc(p) /\ QuietWithoutRow(p)
  /\ Fresh(p) /\ Counts(p) /\ Finds(p) /\ Forgets(p)

(* Two transactions: a chunk is added by one, deleted by one, and not      *)
(* forgotten before it is there.                                           *)
Apart(p, q) ==
  /\ wr[p].gone \cap wr[q].add = {}
  /\ p # q => wr[p].add \cap wr[q].add = {}
  /\ p # q => wr[p].del \cap wr[q].del = {}

(* What is committed.  What has been forgotten is tombstoned or has no     *)
(* row, unless ann_rebuild has cleared the tombstone.                      *)
SharedInv ==
  /\ CountIsTrue
  /\ Findable
  /\ chunk \cup gone \subseteq used
  /\ tomb \subseteq gone
  /\ (gone \ cleared) \cap chunk \subseteq tomb

AnnInv ==
  /\ TypeOK
  /\ SharedInv
  /\ \A p \in Sessions : SessionInv(p)
  /\ \A p, q \in Sessions : Apart(p, q)

-----------------------------------------------------------------------------
(* Every non-empty set of natural numbers has a least element: the form in *)
(* which induction is used here.                                           *)
LEMMA LeastElement ==
  ASSUME NEW S, S \subseteq Nat, S # {}
  PROVE  \E m \in S : \A k \in S : m <= k
  <1>1. IsWellFoundedOn(OpToRel(<, Nat), Nat)
    BY NatLessThanWellFounded, Zenon
  <1>2. PICK m \in S : \A k \in S : ~(<<k, m>> \in OpToRel(<, Nat))
    BY <1>1, WFMin, Zenon
  <1>3. \A k \in S : ~(k < m)
    BY <1>2, Zenon DEF OpToRel
  <1> QED
    BY <1>3

(* The least of a set of chunk_ids is one of them.                         *)
LEMMA MinOfNats ==
  ASSUME NEW S, S \subseteq Nat, S # {}
  PROVE  Min(S) \in S /\ \A k \in S : Min(S) <= k
  <1>1. \E m \in S : \A k \in S : m <= k
    BY LeastElement, Zenon
  <1> QED
    BY <1>1, Zenon DEF Min

-----------------------------------------------------------------------------
(* maludb_ann_build_c.                                                     *)

(* One round of the build, and the graphs of its first k rounds.           *)
AddNode(S, g, efc) == InsertNode(g, Min(S \ g.nodes), efc)

IsBuild(f, S, m, efc, k) ==
  f = [n \in 0 .. k |->
         IF n = 0 THEN EmptyGraph(m) ELSE AddNode(S, f[n - 1], efc)]

(* The rounds of a build are well defined, however many there are.         *)
LEMMA BuildExists ==
  ASSUME NEW S, NEW m, NEW efc
  PROVE  \A k \in Nat : \E f : IsBuild(f, S, m, efc, k)
  <1> DEFINE Bad == {k \in Nat : ~ \E f : IsBuild(f, S, m, efc, k)}
  <1> SUFFICES ASSUME Bad # {} PROVE FALSE
    OBVIOUS
  <1>1. PICK k \in Bad : \A j \in Bad : k <= j
    BY LeastElement, Zenon
  <1>2. k # 0
    <2>1. IsBuild([n \in 0 .. 0 |-> EmptyGraph(m)], S, m, efc, 0)
      BY DEF IsBuild
    <2> QED
      BY <2>1, <1>1
  <1>3. k - 1 \in Nat /\ k - 1 \notin Bad
    BY <1>1, <1>2
  <1>4. PICK f : IsBuild(f, S, m, efc, k - 1)
    BY <1>3
  <1> DEFINE g == [n \in 0 .. k |-> IF n < k THEN f[n] ELSE AddNode(S, f[k - 1], efc)]
  <1>5. \A n \in 0 .. k : g[n] = IF n = 0 THEN EmptyGraph(m) ELSE AddNode(S, g[n - 1], efc)
    <2> TAKE n \in 0 .. k
    <2>1. CASE n = 0
      BY <2>1, <1>2, <1>3, <1>4 DEF IsBuild
    <2>2. CASE n # 0 /\ n < k
      <3>1. n \in 0 .. k - 1 /\ n - 1 \in 0 .. k /\ n - 1 < k
        BY <2>2
      <3>2. f[n] = AddNode(S, f[n - 1], efc)
        BY <1>4, <2>2, <3>1 DEF IsBuild
      <3> QED
        BY <2>2, <3>1, <3>2
    <2>3. CASE n = k
      BY <2>3, <1>2, <1>3
    <2> QED
      BY <2>1, <2>2, <2>3
  <1>6. IsBuild(g, S, m, efc, k)
    BY <1>5 DEF IsBuild
  <1> QED
    BY <1>6, <1>1

(* A build puts exactly the chunks it is given into the graph and keeps m. *)
LEMMA BuildResult ==
  ASSUME NEW S, S \subseteq Nat, IsFiniteSet(S), NEW m, NEW efc
  PROVE  /\ maludb_ann_build_c(S, m, efc).nodes = S
         /\ maludb_ann_build_c(S, m, efc).m = m
  <1> DEFINE N == Cardinality(S)
             b == CHOOSE f : IsBuild(f, S, m, efc, N)
  <1>1. N \in Nat
    BY FS_CardinalityType
  <1>2. IsBuild(b, S, m, efc, N)
    BY <1>1, BuildExists
  <1>3. maludb_ann_build_c(S, m, efc) = b[N]
    BY DEF maludb_ann_build_c, IsBuild, AddNode
  <1> HIDE DEF b
  <1> DEFINE Ok(n) == /\ DOMAIN b[n] = {"nodes", "edges", "m"}
                      /\ b[n].m = m
                      /\ b[n].nodes \subseteq S
                      /\ Cardinality(b[n].nodes) = n
             Bad == {n \in 0 .. N : ~ Ok(n)}
  <1>4. Bad = {}
    <2> SUFFICES ASSUME Bad # {} PROVE FALSE
      OBVIOUS
    <2>1. PICK n \in Bad : \A j \in Bad : n <= j
      <3>1. Bad \subseteq Nat
        BY <1>1
      <3> QED
        BY <3>1, LeastElement, Zenon
    <2>2. n # 0
      <3>1. b[0] = EmptyGraph(m)
        BY <1>1, <1>2 DEF IsBuild
      <3>2. Ok(0)
        BY <3>1, FS_EmptySet DEF EmptyGraph
      <3> QED
        BY <3>2, <2>1
    <2>3. Ok(n - 1)
      BY <1>1, <2>1, <2>2
    <2> DEFINE i == Min(S \ b[n - 1].nodes)
    <2>4. b[n] = InsertNode(b[n - 1], i, efc)
      BY <1>1, <1>2, <2>1, <2>2, Zenon DEF IsBuild, AddNode
    <2>5. i \in S \ b[n - 1].nodes
      <3>1. S \ b[n - 1].nodes # {}
        <4>1. S # b[n - 1].nodes
          BY <1>1, <2>1, <2>3
        <4> QED
          BY <4>1, <2>3, Zenon
      <3> QED
        BY <3>1, MinOfNats, Zenon
    <2> HIDE DEF i
    <2>6. /\ b[n].nodes = b[n - 1].nodes \cup {i}
          /\ b[n].m = b[n - 1].m
          /\ DOMAIN b[n] = DOMAIN b[n - 1]
      BY <2>3, <2>4 DEF InsertNode
    <2>7. Cardinality(b[n].nodes) = n
      <3>1. IsFiniteSet(b[n - 1].nodes)
        BY <2>3, FS_Subset
      <3>2. Cardinality(b[n - 1].nodes \cup {i}) = Cardinality(b[n - 1].nodes) + 1
        BY <3>1, <2>5, FS_AddElement, Zenon
      <3> QED
        BY <1>1, <2>1, <2>3, <2>6, <3>2
    <2>8. Ok(n)
      BY <2>3, <2>5, <2>6, <2>7
    <2> QED
      BY <2>8, <2>1
  <1>5. Ok(N)
    BY <1>1, <1>4
  <1> QED
    BY <1>3, <1>5, FS_Subset

-----------------------------------------------------------------------------
(* What a step of one session leaves alone.                                *)

Untouched(q) ==
  /\ pc'[q] = pc[q] /\ arg'[q] = arg[q] /\ wr'[q] = wr[q] /\ seen'[q] = seen[q]
  /\ lock = q => lock' = q

(* A row of the compartment is not the mark of a row not written.          *)
LEMMA RowIsWritten == <<>> \notin Rows
  BY DEF Rows

(* What the updates of the compartment's row keep.                         *)
LEMMA StaleRow ==
  ASSUME NEW r \in Rows
  PROVE  Stale(r) \in Rows /\ Stale(r).count = r.count /\ Stale(r).mode = r.mode
  BY DEF Rows, Stale

(* The updates that ann_build and the counts make of the row.              *)
LEMMA ReadyRow ==
  ASSUME NEW r \in Rows
  PROVE  Ready(r) \in Rows /\ Ready(r).count = r.count
  BY Zenon DEF Rows, Ready

LEMMA BuildingRow ==
  ASSUME NEW r \in Rows
  PROVE  LET b == [r EXCEPT !.status = "building"]
         IN  b \in Rows /\ b.count = r.count /\ b.mode = r.mode
  BY DEF Rows

LEMMA CountedRow ==
  ASSUME NEW r \in Rows, NEW n \in Nat
  PROVE  LET b == [r EXCEPT !.count = n]
         IN  b \in Rows /\ b.count = n /\ b.mode = r.mode
  BY DEF Rows

(* A transaction that has written nothing.                                 *)
LEMMA NoWritesFields ==
  /\ NoWrites \in Writes
  /\ NoWrites.add = {} /\ NoWrites.del = {} /\ NoWrites.gone = {}
  /\ NoWrites.tombAdd = {} /\ NoWrites.tombDel = {}
  /\ NoWrites.deltaAdd = {} /\ NoWrites.deltaDel = {}
  /\ NoWrites.index = NoIndex /\ NoWrites.compart = <<>>
  BY DEF NoWrites, Writes

(* A statement that commits nothing keeps the invariant of the others.     *)
LEMMA OthersKeep ==
  ASSUME NEW q \in Sessions, SessionInv(q), Untouched(q),
         UNCHANGED <<committed, gone, cleared>>, used \subseteq used'
  PROVE  SessionInv(q)'
  <1> USE DEF Untouched, SessionInv, committed
  <1>1. Locked(q)'
    BY DEF Locked
  <1>2. WritesByPc(q)'
    BY DEF WritesByPc
  <1>3. QuietWithoutRow(q)'
    BY DEF QuietWithoutRow
  <1>4. Fresh(q)'
    BY DEF Fresh
  <1>5. Counts(q)'
    BY DEF Counts
  <1>6. Finds(q)'
    BY DEF Finds
  <1>7. Forgets(q)'
    BY DEF Forgets
  <1> QED
    BY <1>1, <1>2, <1>3, <1>4, <1>5, <1>6, <1>7

(* It keeps the whole invariant if it does so for its own session.         *)
LEMMA LocalStep ==
  ASSUME AnnInv, TypeOK', NEW p \in Sessions, SessionInv(p)',
         \A q \in Sessions \ {p} : Untouched(q),
         UNCHANGED <<committed, gone, cleared>>, used \subseteq used',
         \A q \in Sessions : Apart(p, q)' /\ Apart(q, p)'
  PROVE  AnnInv'
  <1>1. \A q \in Sessions : SessionInv(q)'
    BY OthersKeep DEF AnnInv
  <1>2. \A q, r \in Sessions : Apart(q, r)'
    BY DEF AnnInv, Apart, Untouched
  <1>3. SharedInv'
    BY DEF AnnInv, SharedInv, committed, CountIsTrue, Findable
  <1> QED
    BY <1>1, <1>2, <1>3 DEF AnnInv

(* A statement that adds, deletes and forgets no further chunk keeps the   *)
(* transactions apart.                                                     *)
LEMMA StillApart ==
  ASSUME AnnInv, NEW p \in Sessions,
         \A q \in Sessions \ {p} : Untouched(q),
         /\ wr'[p].add \subseteq wr[p].add
         /\ wr'[p].del \subseteq wr[p].del
         /\ wr'[p].gone \subseteq wr[p].gone
  PROVE  \A q \in Sessions : Apart(p, q)' /\ Apart(q, p)'
  BY DEF AnnInv, Apart, Untouched

(* A session outside a transaction.                                        *)
LEMMA NoTransaction ==
  ASSUME NEW p \in Sessions, pc'[p] \in {"idle", "query"}, wr'[p] = NoWrites,
         seen'[p].gone \subseteq gone'
  PROVE  SessionInv(p)'
  <1> USE NoWritesFields
  <1>1. Locked(p)' /\ WritesByPc(p)' /\ QuietWithoutRow(p)'
    BY DEF Locked, WritesByPc, QuietWithoutRow
  <1>2. Fresh(p)' /\ Counts(p)'
    BY FS_EmptySet DEF Fresh, Counts
  <1>3. Finds(p)' /\ Forgets(p)'
    BY DEF Finds, Forgets
  <1> QED
    BY <1>1, <1>2, <1>3 DEF SessionInv

-----------------------------------------------------------------------------
(* The statements of the calls.                                            *)

(* The fields of a transaction's writes: what it does to the chunks, to    *)
(* the tombstones and to the index.                                        *)
ChunkWrites(w, a, d, g) == w.add = a /\ w.del = d /\ w.gone = g

TombWrites(w, a, d) == w.tombAdd = a /\ w.tombDel = d

IndexWrites(w, a, d, i, row) ==
  w.deltaAdd = a /\ w.deltaDel = d /\ w.index = i /\ w.compart = row

(* Chunk ids are numbers.                                                  *)
LEMMA ChunkIsNat == Chunks \subseteq Nat
  BY NswAssumption

(* register_vector_chunk: the INSERT of the chunk starts the transaction.  *)
LEMMA RegisterInsertKeeps ==
  ASSUME AnnInv, NEW p \in Sessions, NEW c \in Chunks, RegisterInsert(p, c)
  PROVE  AnnInv'
  <1>1. wr[p] = NoWrites /\ wr \in [Sessions -> Writes]
    BY Zenon DEF AnnInv, SessionInv, WritesByPc, RegisterInsert, Starts, TypeOK
  <1>2. wr' = [wr EXCEPT ![p] = [NoWrites EXCEPT !.add = {c}]]
    BY <1>1 DEF RegisterInsert
  <1>3. /\ wr'[p] = [NoWrites EXCEPT !.add = {c}]
        /\ wr' \in [Sessions -> Writes]
    BY <1>1, <1>2, NoWritesFields DEF Writes
  <1> USE DEF ChunkWrites, TombWrites, IndexWrites
  <1>w. /\ ChunkWrites(wr'[p], {c}, {}, {}) /\ TombWrites(wr'[p], {}, {})
        /\ IndexWrites(wr'[p], {}, {}, NoIndex, <<>>)
    BY <1>3 DEF NoWrites
  <1>4. /\ pc'[p] = "count" /\ pc' \in [Sessions -> PCs]
        /\ arg'[p].c = c /\ arg'[p].rebuild = FALSE /\ arg' \in [Sessions -> Args]
    BY ChunkIsNat, Zenon DEF RegisterInsert, Starts, Goto, AnnInv, TypeOK, PCs, Args, NoArg
  <1>5. TypeOK'
    BY <1>3, <1>4 DEF RegisterInsert, Starts, AnnInv, TypeOK, committed
  <1>6. \A q \in Sessions \ {p} : Untouched(q)
    BY <1>1, <1>2 DEF RegisterInsert, Starts, Goto, AnnInv, TypeOK, Untouched
  <1>7. UNCHANGED <<committed, gone, cleared, seen>> /\ used' = used \cup {c}
    BY DEF RegisterInsert
  <1>8. SessionInv(p)'
    <2>1. Locked(p)' /\ WritesByPc(p)' /\ QuietWithoutRow(p)'
      BY <1>3, <1>w, <1>4 DEF Locked, WritesByPc, QuietWithoutRow
    <2>2. Fresh(p)'
      <3>1. IsFiniteSet({c})
        BY FS_Singleton, Zenon
      <3>2. c \notin used /\ chunk \cup gone \subseteq used
        BY DEF RegisterInsert, AnnInv, SharedInv
      <3> QED
        BY <1>w, <1>7, <3>1, <3>2 DEF Fresh, committed
    <2>3. Counts(p)' /\ Finds(p)' /\ Forgets(p)'
      BY <1>w, <1>4, <1>7, Zenon
      DEF Counts, Finds, Forgets, AnnInv, SessionInv, committed
    <2> QED
      BY <2>1, <2>2, <2>3 DEF SessionInv
  <1>9. \A q \in Sessions : Apart(p, q)' /\ Apart(q, p)'
    <2>1. wr'[p].add = {c} /\ wr'[p].del = {} /\ wr'[p].gone = {}
      BY <1>w
    <2>2. \A q \in Sessions \ {p} : c \notin wr'[q].add \cup wr'[q].gone
      BY <1>6 DEF RegisterInsert, AnnInv, SessionInv, Fresh, Untouched
    <2> QED
      BY <2>1, <2>2 DEF Apart
  <1> QED
    BY <1>5, <1>6, <1>7, <1>8, <1>9, LocalStep

(* register_vector_chunk: the UPDATE of vector_count takes the row lock    *)
(* and counts the chunk it has inserted.                                   *)
LEMMA RegisterCountKeeps ==
  ASSUME AnnInv, NEW p \in Sessions, RegisterCount(p)
  PROVE  AnnInv'
  <1> DEFINE c == arg[p].c
             row == [compart EXCEPT !.count = @ + 1]
  <1>1. /\ wr[p] = [NoWrites EXCEPT !.add = {c}]
        /\ wr \in [Sessions -> Writes] /\ compart \in Rows /\ IsFiniteSet(chunk)
        /\ compart.count = Cardinality(chunk)
    BY Zenon DEF AnnInv, SessionInv, WritesByPc, RegisterCount, TypeOK, SharedInv,
           CountIsTrue
  <1>2. /\ wr[p].compart = <<>> /\ wr[p].add = {c} /\ wr[p].del = {}
        /\ c \notin chunk
    BY <1>1 DEF NoWrites, AnnInv, SessionInv, Fresh
  <1>3. row \in Rows /\ row.count = compart.count + 1 /\ row.mode = compart.mode
    BY <1>1 DEF Rows
  <1>4. wr' = [wr EXCEPT ![p].compart = row] /\ lock' = p /\ lock \in {NoSession, p}
    BY <1>2 DEF RegisterCount, UpdateCompartment, Row
  <1> HIDE DEF row
  <1>5. /\ wr' \in [Sessions -> Writes] /\ wr'[p].compart = row
        /\ wr'[p] = [NoWrites EXCEPT !.add = {c}, !.compart = row]
    BY <1>1, <1>3, <1>4, Zenon DEF Writes, NoWrites
  <1> USE DEF ChunkWrites, TombWrites, IndexWrites
  <1>w. /\ ChunkWrites(wr'[p], {c}, {}, {}) /\ TombWrites(wr'[p], {}, {})
        /\ IndexWrites(wr'[p], {}, {}, NoIndex, row)
    BY <1>5 DEF NoWrites
  <1>6. pc'[p] = "delta" /\ pc' \in [Sessions -> PCs]
    BY DEF RegisterCount, Goto, AnnInv, TypeOK, PCs
  <1>7. TypeOK'
    BY <1>4, <1>5, <1>6
    DEF RegisterCount, AnnInv, TypeOK, committed, locals, history
  <1>8. \A q \in Sessions \ {p} : Untouched(q)
    BY <1>1, <1>4, AnnAssumption
    DEF RegisterCount, Goto, AnnInv, TypeOK, Untouched, locals
  <1>9. UNCHANGED <<committed, locals, used, gone, cleared>>
    BY DEF RegisterCount, history
  <1>10. Cardinality((chunk \cup {c}) \ {}) = row.count
    <2>1. Cardinality(chunk \cup {c}) = Cardinality(chunk) + 1
      BY <1>1, <1>2, FS_AddElement, Zenon
    <2>2. (chunk \cup {c}) \ {} = chunk \cup {c}
      OBVIOUS
    <2> QED
      BY <1>1, <1>3, <2>1, <2>2
  <1>11. SessionInv(p)'
    <2>1. Locked(p)' /\ WritesByPc(p)' /\ QuietWithoutRow(p)'
      BY <1>4, <1>5, <1>6, <1>9, <1>3, RowIsWritten
      DEF Locked, WritesByPc, QuietWithoutRow, locals
    <2>2. Fresh(p)'
      BY <1>2, <1>w, <1>9, FS_Singleton, Zenon
      DEF Fresh, AnnInv, SessionInv, committed
    <2>3. Counts(p)'
      BY <1>w, <1>9, <1>10 DEF Counts, committed
    <2>4. Finds(p)' /\ Forgets(p)'
      BY <1>3, <1>w, <1>6, <1>9
      DEF Finds, Forgets, AnnInv, SessionInv, committed, locals
    <2> QED
      BY <2>1, <2>2, <2>3, <2>4 DEF SessionInv
  <1>12. \A q \in Sessions : Apart(p, q)' /\ Apart(q, p)'
    BY <1>2, <1>w, <1>8, StillApart
  <1> QED
    BY <1>7, <1>8, <1>9, <1>11, <1>12, LocalStep

(* register_vector_chunk: under the row lock, the chunk goes to the delta  *)
(* if the compartment has an index.                                        *)
LEMMA RegisterDeltaKeeps ==
  ASSUME AnnInv, NEW p \in Sessions, RegisterDelta(p)
  PROVE  AnnInv'
  <1> DEFINE c == arg[p].c
             row == wr[p].compart
             w == wr'[p]
  <1>1. /\ wr[p] = [NoWrites EXCEPT !.add = {c}, !.compart = row]
        /\ wr \in [Sessions -> Writes] /\ row # <<>>
    BY Zenon DEF AnnInv, SessionInv, WritesByPc, Locked, RegisterDelta, TypeOK
  <1> USE DEF ChunkWrites, TombWrites, IndexWrites
  <1>2. /\ ChunkWrites(wr[p], {c}, {}, {}) /\ TombWrites(wr[p], {}, {})
        /\ IndexWrites(wr[p], {}, {}, NoIndex, row)
    BY <1>1, Zenon DEF NoWrites
  <1>3. row \in Rows /\ c \in Chunks
    BY <1>1, <1>2 DEF Writes
  <1>4. /\ wr' \in [Sessions -> Writes]
        /\ ChunkWrites(w, {c}, {}, {}) /\ TombWrites(w, {}, {})
        /\ w.deltaDel = {} /\ w.index = NoIndex /\ w.compart \in Rows
        /\ w.compart.count = row.count /\ w.compart.mode = row.mode
        /\ index = NoIndex \/ w.deltaAdd = {c}
    <2>1. CASE index = NoIndex
      BY <1>1, <1>2, <1>3, <2>1 DEF RegisterDelta
    <2>2. CASE index # NoIndex
      <3>1. wr' = [wr EXCEPT ![p] = [wr[p] EXCEPT !.deltaAdd = {c},
                                                   !.compart = Stale(row)]]
        BY <1>1, <2>2, Zenon DEF RegisterDelta, Writes
      <3>2. Stale(row) \in Rows /\ Stale(row).count = row.count
            /\ Stale(row).mode = row.mode
        BY <1>3, StaleRow
      <3>3. w = [wr[p] EXCEPT !.deltaAdd = {c}, !.compart = Stale(row)]
        BY <1>1, <3>1
      <3>4. wr[p] \in Writes
        BY <1>1
      <3> HIDE DEF row, c, w
      <3>5. /\ w \in Writes
            /\ w.add = wr[p].add /\ w.del = wr[p].del /\ w.gone = wr[p].gone
            /\ w.tombAdd = wr[p].tombAdd /\ w.tombDel = wr[p].tombDel
            /\ w.deltaDel = wr[p].deltaDel /\ w.index = wr[p].index
            /\ w.deltaAdd = {c} /\ w.compart = Stale(row)
        BY <3>2, <3>3, <3>4, <1>3, Zenon DEF Writes
      <3>6. wr' \in [Sessions -> Writes]
        BY <1>1, <3>1, <3>3, <3>5
      <3> QED
        BY <1>2, <3>2, <3>5, <3>6
    <2> QED
      BY <2>1, <2>2
  <1>5. pc'[p] = "commit" /\ pc' \in [Sessions -> PCs]
    BY DEF RegisterDelta, Goto, AnnInv, TypeOK, PCs
  <1>6. TypeOK'
    BY <1>4, <1>5
    DEF RegisterDelta, AnnInv, TypeOK, committed, locals, history
  <1>7. \A q \in Sessions \ {p} : Untouched(q)
    BY <1>1 DEF RegisterDelta, Goto, AnnInv, TypeOK, Untouched, locals
  <1>8. UNCHANGED <<committed, lock, locals, used, gone, cleared>>
    BY DEF RegisterDelta, history
  <1> HIDE DEF w
  <1>9. SessionInv(p)'
    <2> USE <1>8 DEF committed, locals, AnnInv, SessionInv
    <2>1. Locked(p)' /\ WritesByPc(p)' /\ QuietWithoutRow(p)'
      BY <1>1, <1>4, <1>5, RowIsWritten, Zenon
      DEF Locked, WritesByPc, QuietWithoutRow, w
    <2>2. Fresh(p)'
      BY <1>2, <1>4, Zenon DEF Fresh, w
    <2>3. Counts(p)'
      BY <1>1, <1>2, <1>4, Zenon DEF Counts, w
    <2>4. Finds(p)'
      BY <1>1, <1>2, <1>4, <1>5 DEF Finds, w
    <2>5. Forgets(p)'
      BY <1>2, <1>4 DEF Forgets, w
    <2> QED
      BY <2>1, <2>2, <2>3, <2>4, <2>5
  <1>10. \A q \in Sessions : Apart(p, q)' /\ Apart(q, p)'
    BY <1>2, <1>4, <1>7, StillApart DEF w
  <1> QED
    BY <1>6, <1>7, <1>8, <1>9, <1>10, LocalStep

(* tombstone_vector_chunk: the INSERT of the tombstone starts the          *)
(* transaction.                                                            *)
LEMMA TombstoneInsertKeeps ==
  ASSUME AnnInv, NEW p \in Sessions, NEW c \in Chunks, TombstoneInsert(p, c)
  PROVE  AnnInv'
  <1> DEFINE w == [NoWrites EXCEPT !.tombAdd = {c} \ tomb, !.gone = {c}]
  <1>1. wr[p] = NoWrites /\ wr \in [Sessions -> Writes]
    BY Zenon DEF AnnInv, SessionInv, WritesByPc, TombstoneInsert, Starts, TypeOK
  <1>2. wr' = [wr EXCEPT ![p] = w]
    BY <1>1 DEF TombstoneInsert, NoWrites
  <1> USE DEF ChunkWrites, TombWrites, IndexWrites
  <1>3. /\ ChunkWrites(w, {}, {}, {c}) /\ TombWrites(w, {c} \ tomb, {})
        /\ IndexWrites(w, {}, {}, NoIndex, <<>>) /\ w \in Writes
        /\ w = [NoWrites EXCEPT !.tombAdd = w.tombAdd, !.gone = {c}]
    BY Zenon DEF NoWrites, Writes
  <1> HIDE DEF w
  <1>4. wr'[p] = w /\ wr' \in [Sessions -> Writes]
    BY <1>1, <1>2, <1>3
  <1>5. /\ pc'[p] = "mark" /\ pc' \in [Sessions -> PCs]
        /\ arg'[p].c = c /\ arg'[p].rebuild = FALSE /\ arg' \in [Sessions -> Args]
    BY ChunkIsNat, Zenon DEF TombstoneInsert, Starts, Goto, AnnInv, TypeOK, PCs, Args, NoArg
  <1>6. TypeOK'
    BY <1>4, <1>5 DEF TombstoneInsert, Starts, AnnInv, TypeOK, committed
  <1>7. \A q \in Sessions \ {p} : Untouched(q)
    BY <1>1, <1>2 DEF TombstoneInsert, Starts, Goto, AnnInv, TypeOK, Untouched
  <1>8. UNCHANGED <<committed, seen, used, gone, cleared>> /\ c \in chunk \cap used
    BY DEF TombstoneInsert, AnnInv, SharedInv
  <1>9. SessionInv(p)'
    <2>1. Locked(p)' /\ WritesByPc(p)' /\ QuietWithoutRow(p)'
      BY <1>3, <1>4, <1>5, Zenon DEF Locked, WritesByPc, QuietWithoutRow
    <2>2. Fresh(p)' /\ Counts(p)' /\ Finds(p)'
      BY <1>3, <1>4, <1>5, <1>8, FS_EmptySet, Zenon DEF Fresh, Counts, Finds, committed
    <2>3. Forgets(p)'
      BY <1>3, <1>4, <1>8 DEF Forgets, AnnInv, SessionInv, committed
    <2> QED
      BY <2>1, <2>2, <2>3 DEF SessionInv
  <1>10. \A q \in Sessions : Apart(p, q)' /\ Apart(q, p)'
    <2>1. \A q \in Sessions \ {p} : c \notin wr'[q].add
      BY <1>7, <1>8, Zenon DEF AnnInv, SessionInv, Fresh, Untouched
    <2>2. wr'[p].add = {} /\ wr'[p].del = {} /\ wr'[p].gone = {c}
      BY <1>3, <1>4
    <2> QED
      BY <2>1, <2>2 DEF Apart
  <1> QED
    BY <1>6, <1>7, <1>8, <1>9, <1>10, LocalStep

(* tombstone_vector_chunk: the UPDATE marks the index stale, if there is   *)
(* one.                                                                    *)
LEMMA TombstoneMarkKeeps ==
  ASSUME AnnInv, NEW p \in Sessions, TombstoneMark(p)
  PROVE  AnnInv'
  <1> DEFINE c == arg[p].c
             w == wr'[p]
  <1> USE DEF ChunkWrites, TombWrites, IndexWrites
  <1>1. /\ wr[p] = [NoWrites EXCEPT !.tombAdd = wr[p].tombAdd, !.gone = {c}]
        /\ wr \in [Sessions -> Writes] /\ compart \in Rows
    BY Zenon DEF AnnInv, SessionInv, WritesByPc, TombstoneMark, TypeOK
  <1>2. /\ ChunkWrites(wr[p], {}, {}, {c}) /\ wr[p].tombDel = {}
        /\ IndexWrites(wr[p], {}, {}, NoIndex, <<>>)
    BY <1>1, Zenon DEF NoWrites
  <1>3. /\ wr' \in [Sessions -> Writes]
        /\ ChunkWrites(w, {}, {}, {c}) /\ TombWrites(w, wr[p].tombAdd, {})
        /\ w.deltaAdd = {} /\ w.deltaDel = {} /\ w.index = NoIndex
        /\ \A q \in Sessions \ {p} : wr'[q] = wr[q] /\ (lock = q => lock' = q)
        /\ \/ w.compart = <<>>
           \/ w.compart = Stale(compart) /\ lock' = p
    <2>1. CASE UNCHANGED <<lock, wr>>
      BY <1>1, <1>2, <2>1
    <2>2. CASE UpdateCompartment(p, Stale(Row(p)))
      <3>1. Row(p) = compart /\ Stale(compart) \in Rows
        BY <1>1, <1>2, StaleRow DEF Row
      <3>2. wr' = [wr EXCEPT ![p].compart = Stale(compart)]
            /\ lock' = p /\ lock \in {NoSession, p}
        BY <2>2, <3>1 DEF UpdateCompartment
      <3>3. \A q \in Sessions \ {p} : lock = q => lock' = q
        BY <3>2, AnnAssumption
      <3>4. wr[p] \in Writes
        BY <1>1
      <3>5. /\ w = [wr[p] EXCEPT !.compart = Stale(compart)] /\ w \in Writes
            /\ wr' \in [Sessions -> Writes]
        BY <1>1, <3>1, <3>2, <3>4 DEF Writes
      <3> QED
        BY <1>1, <1>2, <3>2, <3>3, <3>4, <3>5 DEF Writes
    <2> QED
      BY <2>1, <2>2 DEF TombstoneMark
  <1>4. pc'[p] = "commit" /\ pc' \in [Sessions -> PCs]
    BY DEF TombstoneMark, Goto, AnnInv, TypeOK, PCs
  <1>5. UNCHANGED <<committed, locals, used, gone, cleared>>
    BY DEF TombstoneMark, history
  <1>6. TypeOK'
    <2>1. lock' \in Sessions \cup {NoSession}
      BY DEF TombstoneMark, UpdateCompartment, AnnInv, TypeOK
    <2> QED
      BY <1>3, <1>4, <2>1
      DEF TombstoneMark, AnnInv, TypeOK, committed, locals, history
  <1>7. \A q \in Sessions \ {p} : Untouched(q)
    BY <1>3, <1>5 DEF TombstoneMark, Goto, AnnInv, TypeOK, Untouched, locals
  <1> HIDE DEF w
  <1>8. SessionInv(p)'
    <2> USE <1>5 DEF committed, locals, AnnInv, SessionInv
    <2>1. Locked(p)' /\ WritesByPc(p)' /\ QuietWithoutRow(p)'
      BY <1>3, <1>4, Zenon DEF Locked, WritesByPc, QuietWithoutRow, w
    <2>2. Fresh(p)'
      BY <1>2, <1>3, Zenon DEF Fresh, w
    <2>3. Counts(p)'
      <3>1. Stale(compart).count = Cardinality(chunk) /\ (chunk \cup {}) \ {} = chunk
        BY <1>1, StaleRow DEF SharedInv, CountIsTrue
      <3> QED
        BY <1>3, <3>1, Zenon DEF Counts, w
    <2>4. Finds(p)'
      BY <1>1, <1>3, <1>4, StaleRow DEF Finds, w
    <2>5. Forgets(p)'
      BY <1>2, <1>3, Zenon DEF Forgets, w
    <2> QED
      BY <2>1, <2>2, <2>3, <2>4, <2>5
  <1>9. \A q \in Sessions : Apart(p, q)' /\ Apart(q, p)'
    BY <1>2, <1>3, <1>7, StillApart, Zenon DEF w
  <1> QED
    BY <1>5, <1>6, <1>7, <1>8, <1>9, LocalStep

(* _vector_chunks_delete: the DELETE of the chunk starts the transaction.  *)
LEMMA DeleteChunkKeeps ==
  ASSUME AnnInv, NEW p \in Sessions, NEW c \in Chunks, DeleteChunk(p, c)
  PROVE  AnnInv'
  <1> DEFINE w == [NoWrites EXCEPT !.del = {c}, !.gone = {c}]
  <1>1. wr[p] = NoWrites /\ wr \in [Sessions -> Writes]
    BY Zenon DEF AnnInv, SessionInv, WritesByPc, DeleteChunk, Starts, TypeOK
  <1>2. wr' = [wr EXCEPT ![p] = w]
    BY <1>1 DEF DeleteChunk, NoWrites
  <1> USE DEF ChunkWrites, TombWrites, IndexWrites
  <1>3. /\ ChunkWrites(w, {}, {c}, {c}) /\ TombWrites(w, {}, {})
        /\ IndexWrites(w, {}, {}, NoIndex, <<>>) /\ w \in Writes
    BY Zenon DEF NoWrites, Writes
  <1>4. wr'[p] = w /\ wr' \in [Sessions -> Writes]
    BY <1>1, <1>2, <1>3
  <1>5. /\ pc'[p] = "uncount" /\ pc' \in [Sessions -> PCs]
        /\ arg'[p].c = c /\ arg'[p].rebuild = FALSE /\ arg' \in [Sessions -> Args]
    BY ChunkIsNat, Zenon DEF DeleteChunk, Starts, Goto, AnnInv, TypeOK, PCs, Args, NoArg
  <1>6. TypeOK'
    BY <1>4, <1>5 DEF DeleteChunk, Starts, AnnInv, TypeOK, committed
  <1>7. \A q \in Sessions \ {p} : Untouched(q)
    BY <1>1, <1>2 DEF DeleteChunk, Starts, Goto, AnnInv, TypeOK, Untouched
  <1>8. UNCHANGED <<committed, seen, used, gone, cleared>> /\ c \in chunk \cap used
    BY DEF DeleteChunk, AnnInv, SharedInv
  <1>9. SessionInv(p)'
    <2>1. WritesByPc(p)'
      BY <1>4, <1>5 DEF WritesByPc
    <2> HIDE DEF w
    <2>2. Locked(p)' /\ QuietWithoutRow(p)'
      BY <1>3, <1>4, <1>5 DEF Locked, QuietWithoutRow
    <2>3. Fresh(p)' /\ Counts(p)' /\ Finds(p)'
      BY <1>3, <1>4, <1>5, <1>8, FS_EmptySet, Zenon DEF Fresh, Counts, Finds, committed
    <2>4. Forgets(p)'
      BY <1>3, <1>4, <1>8 DEF Forgets, AnnInv, SessionInv, committed
    <2> QED
      BY <2>1, <2>2, <2>3, <2>4 DEF SessionInv
  <1>10. \A q \in Sessions : Apart(p, q)' /\ Apart(q, p)'
    <2>1. \A q \in Sessions \ {p} : c \notin wr'[q].add
      BY <1>7, <1>8 DEF AnnInv, SessionInv, Fresh, Untouched
    <2>2. \A q \in Sessions \ {p} : c \notin wr'[q].del
      BY <1>7, Zenon DEF DeleteChunk, Busy, Untouched
    <2>3. wr'[p].add = {} /\ wr'[p].del = {c} /\ wr'[p].gone = {c}
      BY <1>3, <1>4
    <2> QED
      BY <2>1, <2>2, <2>3 DEF Apart
  <1> QED
    BY <1>6, <1>7, <1>8, <1>9, <1>10, LocalStep

(* _vector_chunks_delete: the UPDATE of vector_count takes the row lock    *)
(* and takes off the chunk that is deleted.                                *)
LEMMA DeleteCountKeeps ==
  ASSUME AnnInv, NEW p \in Sessions, DeleteCount(p)
  PROVE  AnnInv'
  <1> DEFINE c == arg[p].c
             fewer == [compart EXCEPT !.count = Max({@ - 1, 0})]
             row == IF arg[p].hasIndex THEN Stale(fewer) ELSE fewer
             w == wr'[p]
  <1> USE DEF ChunkWrites, TombWrites, IndexWrites
  <1>1. /\ wr[p] = [NoWrites EXCEPT !.del = {c}, !.gone = {c}]
        /\ wr \in [Sessions -> Writes] /\ compart \in Rows /\ IsFiniteSet(chunk)
        /\ compart.count = Cardinality(chunk)
    BY Zenon DEF AnnInv, SessionInv, WritesByPc, DeleteCount, TypeOK, SharedInv,
           CountIsTrue
  <1>2. /\ ChunkWrites(wr[p], {}, {c}, {c}) /\ TombWrites(wr[p], {}, {})
        /\ IndexWrites(wr[p], {}, {}, NoIndex, <<>>)
    BY <1>1 DEF NoWrites
  <1>3. c \in chunk /\ c \in Chunks
    BY <1>2 DEF AnnInv, SessionInv, Fresh, TypeOK
  <1>4. row \in Rows /\ row.count = Cardinality(chunk \ {c}) /\ row.mode = compart.mode
    <2>1. Cardinality(chunk \ {c}) = compart.count - 1 /\ compart.count - 1 \in Nat
      <3>1. IsFiniteSet(chunk \ {c}) /\ Cardinality(chunk \ {c}) = Cardinality(chunk) - 1
        BY <1>1, <1>3, FS_RemoveElement, Zenon
      <3> QED
        BY <1>1, <3>1, FS_CardinalityType
    <2>2. Max({compart.count - 1, 0}) = compart.count - 1
      BY <2>1 DEF Max
    <2>3. /\ fewer \in Rows /\ fewer.count = compart.count - 1
          /\ fewer.mode = compart.mode
      BY <1>1, <2>1, <2>2, CountedRow
    <2> HIDE DEF fewer
    <2> QED
      BY <2>1, <2>3, StaleRow
  <1>5. /\ wr' = [wr EXCEPT ![p] = [wr[p] EXCEPT
                    !.deltaDel = {c}, !.tombDel = {c}, !.compart = row]]
        /\ lock = NoSession /\ lock' = p
    BY <1>1, Zenon DEF DeleteCount, Writes
  <1> HIDE DEF row
  <1>6. /\ wr' \in [Sessions -> Writes] /\ ChunkWrites(w, {}, {c}, {c})
        /\ TombWrites(w, {}, {c}) /\ IndexWrites(w, {}, {c}, NoIndex, row)
    <2>1. wr[p] \in Writes /\ w = [wr[p] EXCEPT !.deltaDel = {c}, !.tombDel = {c},
                                               !.compart = row]
      BY <1>1, <1>5
    <2> HIDE DEF w, c
    <2>2. /\ w \in Writes
          /\ w.add = wr[p].add /\ w.del = wr[p].del /\ w.gone = wr[p].gone
          /\ w.tombAdd = wr[p].tombAdd /\ w.tombDel = {c}
          /\ w.deltaAdd = wr[p].deltaAdd /\ w.index = wr[p].index
          /\ w.deltaDel = {c} /\ w.compart = row
      BY <1>3, <1>4, <2>1, Zenon DEF Writes
    <2>3. wr' \in [Sessions -> Writes]
      BY <1>1, <1>5, <2>1, <2>2
    <2> QED
      BY <1>2, <2>2, <2>3
  <1>7. pc'[p] = "commit" /\ pc' \in [Sessions -> PCs]
    BY DEF DeleteCount, Goto, AnnInv, TypeOK, PCs
  <1>8. UNCHANGED <<committed, locals, used, gone, cleared>>
    BY DEF DeleteCount, history
  <1>9. TypeOK'
    BY <1>5, <1>6, <1>7
    DEF DeleteCount, AnnInv, TypeOK, committed, locals, history
  <1>10. \A q \in Sessions \ {p} : Untouched(q)
    BY <1>1, <1>5, <1>8, AnnAssumption
    DEF DeleteCount, Goto, AnnInv, TypeOK, Untouched, locals
  <1> HIDE DEF w
  <1>11. SessionInv(p)'
    <2> USE <1>8 DEF committed, locals, AnnInv, SessionInv
    <2>1. Locked(p)' /\ WritesByPc(p)' /\ QuietWithoutRow(p)'
      <3>1. wr'[p].compart # <<>> /\ lock' = p
        BY <1>4, <1>5, <1>6, RowIsWritten DEF w
      <3>2. WritesByPc(p)'
        BY <1>7, Zenon DEF WritesByPc
      <3> QED
        BY <3>1, <3>2, <1>7 DEF Locked, QuietWithoutRow
    <2>2. Fresh(p)'
      BY <1>2, <1>6, Zenon DEF Fresh, w
    <2>3. Counts(p)'
      <3>1. (chunk \cup {}) \ {c} = chunk \ {c}
        OBVIOUS
      <3> QED
        BY <1>4, <1>6, <3>1, Zenon DEF Counts, w
    <2>4. Finds(p)'
      BY <1>4, <1>6, <1>7 DEF Finds, w
    <2>5. Forgets(p)'
      BY <1>2, <1>6, Zenon DEF Forgets, w
    <2> QED
      BY <2>1, <2>2, <2>3, <2>4, <2>5
  <1>12. \A q \in Sessions : Apart(p, q)' /\ Apart(q, p)'
    BY <1>2, <1>6, <1>10, StillApart DEF w
  <1> QED
    BY <1>8, <1>9, <1>10, <1>11, <1>12, LocalStep

(* A call that begins without a write.                                     *)
LEMMA StartKeeps ==
  ASSUME AnnInv, NEW p \in Sessions, NEW a \in Args, NEW where \in {"lock", "query"},
         Starts(p, a, where), where = "lock" => a.m \in Ms,
         UNCHANGED <<committed, lock, wr, used, gone, cleared>>,
         DOMAIN seen' = Sessions, seen'[p].gone \subseteq gone,
         \A q \in Sessions \ {p} : seen'[q] = seen[q]
  PROVE  AnnInv'
  <1>1. wr[p] = NoWrites
    BY Zenon DEF AnnInv, SessionInv, WritesByPc, Starts
  <1>2. pc'[p] = where /\ pc' \in [Sessions -> PCs] /\ arg'[p] = a
        /\ arg' \in [Sessions -> Args]
    BY DEF Starts, Goto, AnnInv, TypeOK, PCs
  <1>3. TypeOK'
    <2>1. TypeOK /\ calls' = calls + 1
      BY Zenon DEF Starts, AnnInv
    <2>2. UNCHANGED <<chunk, tomb, delta, index, compart, lock, wr, used, gone, cleared>>
      BY DEF committed
    <2>3. calls' \in Nat
      BY <2>1 DEF TypeOK
    <2> QED
      BY <1>2, <2>1, <2>2, <2>3, Zenon DEF TypeOK
  <1>4. \A q \in Sessions \ {p} : Untouched(q)
    BY DEF Starts, Goto, AnnInv, TypeOK, Untouched
  <1>5. SessionInv(p)'
    <2>1. CASE where = "query"
      BY <1>1, <1>2, <2>1, NoTransaction
    <2>2. CASE where = "lock"
      <3> USE NoWritesFields
      <3>1. Locked(p)' /\ WritesByPc(p)' /\ QuietWithoutRow(p)'
        BY <1>1, <1>2, <2>2 DEF Locked, WritesByPc, QuietWithoutRow
      <3>2. Fresh(p)' /\ Counts(p)'
        BY <1>1, FS_EmptySet, Zenon DEF Fresh, Counts
      <3>3. Finds(p)' /\ Forgets(p)'
        BY <1>1, <1>2, <2>2 DEF Finds, Forgets
      <3> QED
        BY <3>1, <3>2, <3>3 DEF SessionInv
    <2> QED
      BY <2>1, <2>2
  <1>6. \A q \in Sessions : Apart(p, q)' /\ Apart(q, p)'
    BY <1>4, StillApart
  <1> QED
    BY <1>3, <1>4, <1>5, <1>6, LocalStep

(* A graph that has been stored was built with one of the degrees in use.  *)
LEMMA StoredGraph == \A g \in Graphs : g.m \in Ms
  <1>1. ASSUME NEW S \in SUBSET Chunks, IsFiniteSet(S), NEW m \in Ms
        PROVE  maludb_ann_build_c(S, m, EfC).m \in Ms
    <2>1. S \subseteq Nat
      BY ChunkIsNat
    <2>2. maludb_ann_build_c(S, m, EfC).m = m
      BY <1>1, <2>1, BuildResult
    <2> QED
      BY <2>2
  <1> QED
    BY <1>1 DEF Graphs

(* ann_build and ann_rebuild start with nothing written.                   *)
LEMMA BuildCallKeeps ==
  ASSUME AnnInv, NEW p \in Sessions, (\E m \in Ms : ann_build(p, m)) \/ ann_rebuild(p)
  PROVE  AnnInv'
  <1>1. seen[p].gone \subseteq gone /\ DOMAIN seen = Sessions
    BY DEF AnnInv, SessionInv, Forgets, TypeOK
  <1>2. Ms \subseteq Nat
    BY AnnAssumption
  <1>3. CASE \E m \in Ms : ann_build(p, m)
    <2>1. PICK m \in Ms : ann_build(p, m)
      BY <1>3
    <2> DEFINE a == [NoArg EXCEPT !.m = m]
    <2>2. a \in Args /\ a.m \in Ms
      BY <1>2, Zenon DEF Args, NoArg
    <2>3. Starts(p, a, "lock") /\ UNCHANGED <<committed, lock, seen, wr, used, gone, cleared>>
      BY <2>1 DEF ann_build
    <2> HIDE DEF a
    <2> QED
      BY <1>1, <2>2, <2>3, StartKeeps
  <1>4. CASE ann_rebuild(p)
    <2> DEFINE a == [NoArg EXCEPT !.m = index.m, !.rebuild = TRUE]
    <2>1. index.m \in Ms
      <3>1. index \in Graphs
        BY <1>4 DEF ann_rebuild, AnnInv, TypeOK
      <3> QED
        BY <3>1, StoredGraph
    <2>2. a \in Args /\ a.m \in Ms
      BY <1>2, <2>1, Zenon DEF Args, NoArg
    <2>3. Starts(p, a, "lock") /\ UNCHANGED <<committed, lock, seen, wr, used, gone, cleared>>
      BY <1>4 DEF ann_rebuild
    <2> HIDE DEF a
    <2> QED
      BY <1>1, <2>2, <2>3, StartKeeps
  <1> QED
    BY <1>3, <1>4

(* ann_build: the UPDATE to building takes the row lock.                   *)
LEMMA BuildLockKeeps ==
  ASSUME AnnInv, NEW p \in Sessions, BuildLock(p)
  PROVE  AnnInv'
  <1> DEFINE row == [compart EXCEPT !.status = "building"]
  <1> USE DEF ChunkWrites, TombWrites, IndexWrites
  <1>1. /\ wr[p] = NoWrites /\ wr \in [Sessions -> Writes] /\ compart \in Rows
        /\ compart.count = Cardinality(chunk) /\ arg[p].m \in Ms
    BY Zenon DEF AnnInv, SessionInv, WritesByPc, BuildLock, TypeOK, SharedInv, CountIsTrue
  <1>2. row \in Rows /\ row.count = Cardinality(chunk) /\ row.mode = compart.mode
    BY <1>1, BuildingRow
  <1>3. wr' = [wr EXCEPT ![p].compart = row] /\ lock' = p /\ lock \in {NoSession, p}
    BY <1>1, NoWritesFields DEF BuildLock, UpdateCompartment, Row
  <1> HIDE DEF row
  <1>4. /\ wr' \in [Sessions -> Writes]
        /\ wr'[p] = [NoWrites EXCEPT !.compart = row]
    BY <1>1, <1>2, <1>3 DEF Writes, NoWrites
  <1>5. /\ ChunkWrites(wr'[p], {}, {}, {}) /\ TombWrites(wr'[p], {}, {})
        /\ IndexWrites(wr'[p], {}, {}, NoIndex, row)
    BY <1>4 DEF NoWrites
  <1>6. pc'[p] = "scan" /\ pc' \in [Sessions -> PCs]
    BY DEF BuildLock, Goto, AnnInv, TypeOK, PCs
  <1>7. TypeOK'
    BY <1>3, <1>4, <1>6
    DEF BuildLock, AnnInv, TypeOK, committed, locals, history
  <1>8. \A q \in Sessions \ {p} : Untouched(q)
    BY <1>1, <1>3, AnnAssumption
    DEF BuildLock, Goto, AnnInv, TypeOK, Untouched, locals
  <1>9. UNCHANGED <<committed, locals, used, gone, cleared>>
    BY DEF BuildLock, history
  <1>10. SessionInv(p)'
    <2> USE <1>9 DEF committed, locals, AnnInv, SessionInv
    <2>1. Locked(p)' /\ WritesByPc(p)' /\ QuietWithoutRow(p)'
      <3>1. wr'[p].compart # <<>> /\ lock' = p
        BY <1>2, <1>3, <1>5, RowIsWritten
      <3>2. wr'[p] = [NoWrites EXCEPT !.compart = wr'[p].compart]
        BY <1>4, <1>5
      <3>3. WritesByPc(p)'
        BY <1>1, <1>6, <3>2, Zenon DEF WritesByPc
      <3> QED
        BY <3>1, <3>3, <1>6 DEF Locked, QuietWithoutRow
    <2>2. Fresh(p)'
      BY <1>5, FS_EmptySet DEF Fresh
    <2>3. Counts(p)'
      <3>1. (chunk \cup {}) \ {} = chunk
        OBVIOUS
      <3> QED
        BY <1>2, <1>5, <3>1, Zenon DEF Counts
    <2>4. Finds(p)' /\ Forgets(p)'
      BY <1>2, <1>5, <1>6, Zenon DEF Finds, Forgets
    <2> QED
      BY <2>1, <2>2, <2>3, <2>4
  <1>11. \A q \in Sessions : Apart(p, q)' /\ Apart(q, p)'
    BY <1>5, <1>8, StillApart, Zenon
  <1> QED
    BY <1>7, <1>8, <1>9, <1>10, <1>11, LocalStep

(* ann_build: the graph holds every committed chunk without a tombstone,   *)
(* and nobody else can commit a chunk before the lock is free.             *)
LEMMA BuildScanKeeps ==
  ASSUME AnnInv, NEW p \in Sessions, BuildScan(p)
  PROVE  AnnInv'
  <1> DEFINE row == wr[p].compart
             m == arg[p].m
             g == maludb_ann_build_c(chunk \ tomb, m, EfC)
  <1> USE DEF ChunkWrites, TombWrites, IndexWrites
  <1>1. /\ wr[p] = [NoWrites EXCEPT !.compart = row] /\ m \in Ms
        /\ wr \in [Sessions -> Writes] /\ row # <<>>
    BY Zenon DEF AnnInv, SessionInv, WritesByPc, Locked, BuildScan, TypeOK
  <1>2. chunk \ tomb \in SUBSET Chunks /\ IsFiniteSet(chunk \ tomb)
    BY FS_Subset DEF AnnInv, TypeOK
  <1>3. g \in Graphs /\ g # NoIndex /\ g.nodes = chunk \ tomb
    <2>1. g.nodes = chunk \ tomb
      BY <1>2, ChunkIsNat, BuildResult, Zenon
    <2>2. g \in Graphs
      BY <1>1, <1>2 DEF Graphs
    <2> QED
      BY <2>1, <2>2, AnnAssumption
  <1>4. wr' = [wr EXCEPT ![p].index = g]
    BY DEF BuildScan
  <1> HIDE DEF g
  <1>5. /\ wr' \in [Sessions -> Writes]
        /\ wr'[p] = [NoWrites EXCEPT !.compart = row, !.index = g]
    BY <1>1, <1>3, <1>4, Zenon DEF Writes, NoWrites
  <1>6. /\ ChunkWrites(wr'[p], {}, {}, {}) /\ TombWrites(wr'[p], {}, {})
        /\ IndexWrites(wr'[p], {}, {}, g, row)
    BY <1>5 DEF NoWrites
  <1>7. /\ ChunkWrites(wr[p], {}, {}, {}) /\ TombWrites(wr[p], {}, {})
        /\ IndexWrites(wr[p], {}, {}, NoIndex, row)
    BY <1>1 DEF NoWrites
  <1>8. pc'[p] = "drain" /\ pc' \in [Sessions -> PCs]
    BY DEF BuildScan, Goto, AnnInv, TypeOK, PCs
  <1>9. UNCHANGED <<committed, lock, locals, used, gone, cleared>>
    BY DEF BuildScan, history
  <1>10. TypeOK'
    BY <1>5, <1>8 DEF BuildScan, AnnInv, TypeOK, committed, locals, history
  <1>11. \A q \in Sessions \ {p} : Untouched(q)
    BY <1>1, <1>4, <1>9 DEF BuildScan, Goto, AnnInv, TypeOK, Untouched, locals
  <1>12. SessionInv(p)'
    <2> USE <1>9 DEF committed, locals, AnnInv, SessionInv
    <2>1. WritesByPc(p)'
      <3>1. wr'[p] = [NoWrites EXCEPT !.compart = wr'[p].compart,
                                      !.index = wr'[p].index]
        BY <1>5, <1>6
      <3> QED
        BY <1>8, <3>1, Zenon DEF WritesByPc
    <2>2. Locked(p)' /\ QuietWithoutRow(p)'
      BY <1>1, <1>6, <1>8 DEF Locked, QuietWithoutRow
    <2>3. Fresh(p)' /\ Counts(p)'
      BY <1>6, <1>7, FS_EmptySet, Zenon DEF Fresh, Counts
    <2>4. Finds(p)'
      <3>1. chunk \ gone \subseteq g.nodes
        BY <1>3, Zenon DEF SharedInv
      <3> QED
        BY <1>1, <1>3, <1>6, <1>8, <3>1 DEF Finds
    <2>5. Forgets(p)'
      BY <1>6 DEF Forgets
    <2> QED
      BY <2>1, <2>2, <2>3, <2>4, <2>5
  <1>13. \A q \in Sessions : Apart(p, q)' /\ Apart(q, p)'
    BY <1>6, <1>11, StillApart
  <1> QED
    BY <1>9, <1>10, <1>11, <1>12, <1>13, LocalStep

(* ann_build: the delta is emptied, for the graph has what it held.        *)
LEMMA BuildDrainKeeps ==
  ASSUME AnnInv, NEW p \in Sessions, BuildDrain(p)
  PROVE  AnnInv'
  <1> DEFINE row == wr[p].compart
             g == wr[p].index
  <1> USE DEF ChunkWrites, TombWrites, IndexWrites
  <1>1. /\ wr[p] = [NoWrites EXCEPT !.compart = row, !.index = g]
        /\ wr \in [Sessions -> Writes] /\ row # <<>> /\ delta \subseteq Chunks
        /\ arg[p].rebuild \in BOOLEAN /\ lock = p
    BY Zenon DEF AnnInv, SessionInv, WritesByPc, Locked, BuildDrain, TypeOK, Args
  <1>2. /\ ChunkWrites(wr[p], {}, {}, {}) /\ TombWrites(wr[p], {}, {})
        /\ IndexWrites(wr[p], {}, {}, g, row)
    BY <1>1, Zenon DEF NoWrites
  <1>3. g # NoIndex /\ g \in Graphs /\ row \in Rows /\ chunk \ gone \subseteq g.nodes
    <2>1. g # NoIndex /\ chunk \ gone \subseteq g.nodes
      BY DEF AnnInv, SessionInv, Finds, BuildDrain
    <2> QED
      BY <1>1, <2>1 DEF Writes
  <1>4. Ready(row) \in Rows /\ Ready(row).count = row.count
    BY <1>3, ReadyRow
  <1>5. wr' = [wr EXCEPT ![p] = [wr[p] EXCEPT !.deltaDel = delta,
                                              !.compart = Ready(row)]]
    BY <1>1, Zenon DEF BuildDrain, Row, Writes
  <1>6. wr' \in [Sessions -> Writes]
        /\ wr'[p] = [wr[p] EXCEPT !.deltaDel = delta, !.compart = Ready(row)]
    <2> DEFINE r == wr[p]
               u == [r EXCEPT !.deltaDel = delta, !.compart = Ready(row)]
    <2>1. r \in Writes
      BY <1>1
    <2> HIDE DEF r
    <2>2. u \in Writes
      BY <1>1, <1>4, <2>1, Zenon DEF Writes
    <2> QED
      BY <1>1, <1>5, <2>2 DEF r
  <1>7. wr[p] \in Writes
    BY <1>1
  <1>8. /\ ChunkWrites(wr'[p], {}, {}, {}) /\ TombWrites(wr'[p], {}, {})
        /\ IndexWrites(wr'[p], {}, delta, g, Ready(row))
    <2> DEFINE r == wr[p]
               s == Ready(row)
    <2>1. r \in Writes /\ wr'[p] = [r EXCEPT !.deltaDel = delta, !.compart = s]
          /\ ChunkWrites(r, {}, {}, {}) /\ TombWrites(r, {}, {})
          /\ r.deltaAdd = {} /\ r.index = g
      BY <1>2, <1>6, <1>7
    <2> HIDE DEF r, s
    <2>2. /\ ChunkWrites(wr'[p], {}, {}, {}) /\ TombWrites(wr'[p], {}, {})
          /\ IndexWrites(wr'[p], {}, delta, g, s)
      BY <2>1 DEF Writes
    <2> QED
      BY <2>2 DEF s
  <1>9. /\ pc' \in [Sessions -> PCs]
        /\ pc'[p] = IF arg[p].rebuild THEN "clear" ELSE "commit"
    BY DEF BuildDrain, Goto, AnnInv, TypeOK, PCs
  <1>10. UNCHANGED <<committed, lock, locals, used, gone, cleared>>
    BY <1>1 DEF BuildDrain, history
  <1>11. TypeOK'
    BY <1>6, <1>9, <1>10 DEF BuildDrain, AnnInv, TypeOK, committed, locals, history
  <1>12. \A q \in Sessions \ {p} : Untouched(q)
    BY <1>1, <1>5, <1>10 DEF BuildDrain, Goto, AnnInv, TypeOK, Untouched, locals
  <1>13. SessionInv(p)'
    <2> USE <1>10 DEF committed, locals, AnnInv, SessionInv
    <2>1. pc'[p] = "commit" \/ (pc'[p] = "clear" /\ arg[p].rebuild = TRUE)
      BY <1>1, <1>9
    <2>2. wr'[p].compart # <<>>
      BY <1>4, <1>8, RowIsWritten
    <2>3. Locked(p)' /\ WritesByPc(p)' /\ QuietWithoutRow(p)'
      BY <1>1, <2>1, <2>2, Zenon DEF Locked, WritesByPc, QuietWithoutRow
    <2>4. Fresh(p)'
      BY <1>8, FS_EmptySet DEF Fresh
    <2>5. Counts(p)'
      <3>1. row.count = Cardinality((chunk \cup {}) \ {})
        BY <1>1, <1>2, Zenon DEF Counts
      <3> QED
        BY <1>4, <1>8, <3>1, Zenon DEF Counts
    <2>6. Finds(p)'
      BY <1>3, <1>8, <2>2, Zenon DEF Finds
    <2>7. Forgets(p)'
      BY <1>8, Zenon DEF Forgets
    <2> QED
      BY <2>3, <2>4, <2>5, <2>6, <2>7
  <1>14. \A q \in Sessions : Apart(p, q)' /\ Apart(q, p)'
    BY <1>8, <1>12, StillApart
  <1> QED
    BY <1>10, <1>11, <1>12, <1>13, <1>14, LocalStep

(* ann_rebuild: the tombstones are deleted after the build.                *)
LEMMA RebuildClearKeeps ==
  ASSUME AnnInv, NEW p \in Sessions, RebuildClear(p)
  PROVE  AnnInv'
  <1> DEFINE w == wr'[p]
  <1>1. /\ wr \in [Sessions -> Writes] /\ wr[p] \in Writes
        /\ tomb \cap chunk \subseteq Chunks /\ arg[p].rebuild = TRUE
        /\ wr[p].compart # <<>> /\ lock = p
        /\ wr[p].index # NoIndex /\ wr[p].add = {} /\ wr[p].del = {}
    BY Zenon DEF AnnInv, SessionInv, WritesByPc, Locked, Finds, RebuildClear, TypeOK
  <1>2. wr' = [wr EXCEPT ![p].tombDel = tomb \cap chunk]
    BY DEF RebuildClear
  <1>3. w = [wr[p] EXCEPT !.tombDel = tomb \cap chunk]
    BY <1>1, <1>2
  <1> HIDE DEF w
  <1>4. /\ w \in Writes
        /\ w.add = wr[p].add /\ w.del = wr[p].del /\ w.gone = wr[p].gone
        /\ w.tombAdd = wr[p].tombAdd /\ w.index = wr[p].index
        /\ w.deltaAdd = wr[p].deltaAdd /\ w.deltaDel = wr[p].deltaDel
        /\ w.compart = wr[p].compart
    BY <1>1, <1>3 DEF Writes
  <1>5. wr' \in [Sessions -> Writes]
    BY <1>1, <1>2, <1>3, <1>4
  <1>6. pc'[p] = "commit" /\ pc' \in [Sessions -> PCs]
    BY DEF RebuildClear, Goto, AnnInv, TypeOK, PCs
  <1>7. UNCHANGED <<committed, lock, locals, used, gone, cleared>>
    BY DEF RebuildClear, history
  <1>8. TypeOK'
    BY <1>5, <1>6 DEF RebuildClear, AnnInv, TypeOK, committed, locals, history
  <1>9. \A q \in Sessions \ {p} : Untouched(q)
    BY <1>1, <1>2, <1>7 DEF RebuildClear, Goto, AnnInv, TypeOK, Untouched, locals
  <1>10. SessionInv(p)'
    <2> USE <1>7 DEF committed, locals, AnnInv, SessionInv
    <2>1. Locked(p)' /\ WritesByPc(p)' /\ QuietWithoutRow(p)'
      BY <1>1, <1>4, <1>6, Zenon DEF Locked, WritesByPc, QuietWithoutRow, w
    <2>2. Fresh(p)' /\ Counts(p)'
      BY <1>4, Zenon DEF Fresh, Counts, w
    <2>3. Finds(p)'
      BY <1>1, <1>4, Zenon DEF Finds, w
    <2>4. Forgets(p)'
      BY <1>1, <1>4, Zenon DEF Forgets, w
    <2> QED
      BY <2>1, <2>2, <2>3, <2>4
  <1>11. \A q \in Sessions : Apart(p, q)' /\ Apart(q, p)'
    BY <1>4, <1>9, StillApart, Zenon DEF w
  <1> QED
    BY <1>7, <1>8, <1>9, <1>10, <1>11, LocalStep

(* A search reads and writes nothing.                                      *)
LEMMA SearchKeeps ==
  ASSUME AnnInv, NEW p \in Sessions, Search(p)
  PROVE  AnnInv'
  <1>1. DOMAIN seen = Sessions
    BY DEF AnnInv, TypeOK
  <1>2. ASSUME NEW raw \in RawQueries, SearchStart(p, raw) PROVE AnnInv'
    <2>1. NoArg \in Args
      BY DEF NoArg, Args
    <2>2. /\ DOMAIN seen' = Sessions /\ seen'[p].gone = gone
          /\ \A q \in Sessions \ {p} : seen'[q] = seen[q]
      BY <1>1, <1>2 DEF SearchStart
    <2>3. Starts(p, NoArg, "query") /\ UNCHANGED <<committed, lock, wr, used, gone, cleared>>
      BY <1>2 DEF SearchStart
    <2> QED
      BY <2>1, <2>2, <2>3, StartKeeps
  <1>3. CASE SearchQuery(p)
    <2>1. wr' = wr /\ wr[p] = NoWrites /\ pc'[p] = "idle"
      BY <1>3, Zenon DEF SearchQuery, Goto, AnnInv, SessionInv, WritesByPc, TypeOK
    <2>2. DOMAIN seen' = Sessions /\ seen'[p].gone = {}
      BY <1>1, <1>3 DEF SearchQuery, NothingSeen
    <2>3. TypeOK'
      BY <1>3, <2>2 DEF SearchQuery, Goto, AnnInv, TypeOK, committed, history, PCs
    <2>4. \A q \in Sessions \ {p} : Untouched(q)
      BY <1>3 DEF SearchQuery, Goto, AnnInv, TypeOK, Untouched
    <2>5. SessionInv(p)'
      BY <2>1, <2>2, NoTransaction
    <2>6. \A q \in Sessions : Apart(p, q)' /\ Apart(q, p)'
      BY <2>1, <2>4, StillApart
    <2>7. UNCHANGED <<committed, used, gone, cleared>>
      BY <1>3 DEF SearchQuery, history
    <2> QED
      BY <2>3, <2>4, <2>5, <2>6, <2>7, LocalStep
  <1> QED
    BY <1>2, <1>3 DEF Search

(* An abort leaves what was committed.                                     *)
LEMMA AbortKeeps ==
  ASSUME AnnInv, NEW p \in Sessions, Abort(p)
  PROVE  AnnInv'
  <1>1. /\ wr'[p] = NoWrites /\ pc'[p] = "idle" /\ pc' \in [Sessions -> PCs]
        /\ wr' \in [Sessions -> Writes] /\ arg' \in [Sessions -> Args]
        /\ lock' \in Sessions \cup {NoSession}
    BY NoWritesFields DEF Abort, EndTxn, Goto, AnnInv, TypeOK, PCs, Args, NoArg
  <1>2. UNCHANGED <<committed, seen, used, gone, cleared, calls>>
    BY DEF Abort, history
  <1>3. TypeOK'
    BY <1>1, <1>2 DEF AnnInv, TypeOK, committed
  <1>4. \A q \in Sessions \ {p} : Untouched(q)
    BY <1>2, Zenon DEF Abort, EndTxn, Goto, AnnInv, TypeOK, Untouched
  <1>5. SessionInv(p)'
    BY <1>1, <1>2, NoTransaction, Zenon DEF AnnInv, SessionInv, Forgets
  <1>6. \A q \in Sessions : Apart(p, q)' /\ Apart(q, p)'
    BY <1>1, <1>4, NoWritesFields, StillApart, Zenon
  <1> QED
    BY <1>2, <1>3, <1>4, <1>5, <1>6, LocalStep

-----------------------------------------------------------------------------
(* The commit, by far the longest case: it changes what every other        *)
(* session's part of the invariant speaks of.                              *)

(* What p's commit does to the tables, in terms of its writes: without the *)
(* row it leaves all but the tombstones alone, and with the row it held    *)
(* the lock, so no other transaction has written the row or an index.      *)
CommitsAlone(p) ==
  \/ /\ UNCHANGED <<chunk, delta, index, compart, cleared>>
     /\ tomb' = tomb \cup wr[p].tombAdd
     /\ wr[p].compart = <<>>
  \/ /\ wr[p].compart # <<>> /\ compart' = wr[p].compart
     /\ \A q \in Sessions \ {p} :
          wr[q].compart = <<>> /\ wr[q].index = NoIndex

(* Only the transaction that holds the row lock changes what counts and    *)
(* finds depend on.                                                        *)
LEMMA CommitAlone ==
  ASSUME AnnInv, NEW p \in Sessions, Commit(p)
  PROVE  CommitsAlone(p)
  <1>1. CASE wr[p].compart = <<>>
    <2>1. /\ wr[p].add = {} /\ wr[p].del = {} /\ wr[p].tombDel = {}
          /\ wr[p].deltaAdd = {} /\ wr[p].deltaDel = {} /\ wr[p].index = NoIndex
      BY <1>1 DEF AnnInv, SessionInv, QuietWithoutRow, Commit
    <2>2. chunk' = chunk /\ delta' = delta /\ tomb' = tomb \cup wr[p].tombAdd
      BY <2>1, Zenon DEF Commit
    <2>3. index' = index /\ compart' = compart /\ cleared' = cleared
      BY <1>1, <2>1 DEF Commit, Row
    <2> QED
      BY <1>1, <2>2, <2>3 DEF CommitsAlone
  <1>2. CASE wr[p].compart # <<>>
    <2>1. lock = p
      BY <1>2 DEF AnnInv, SessionInv, Locked
    <2>2. \A q \in Sessions \ {p} : wr[q].compart = <<>>
      BY <2>1 DEF AnnInv, SessionInv, Locked
    <2>3. \A q \in Sessions \ {p} : wr[q].index = NoIndex
      BY <2>2 DEF AnnInv, SessionInv, Finds
    <2> QED
      BY <1>2, <2>2, <2>3 DEF CommitsAlone, Commit, Row
  <1> QED
    BY <1>1, <1>2

(* A tombstone that the commit removes goes with its chunk, or is cleared. *)
LEMMA CommitClears ==
  ASSUME AnnInv, NEW p \in Sessions, Commit(p)
  PROVE  tomb \cap chunk' \subseteq tomb' \cup cleared'
  <1>1. arg[p].rebuild \in BOOLEAN
    BY DEF AnnInv, TypeOK, Args
  <1>2. CASE arg[p].rebuild = TRUE
    BY <1>2 DEF Commit
  <1>3. CASE arg[p].rebuild = FALSE
    BY <1>3 DEF Commit, AnnInv, SessionInv, Forgets
  <1> QED
    BY <1>1, <1>2, <1>3, Zenon

(* What a commit leaves is counted right and can be found.                 *)
LEMMA CommitShared ==
  ASSUME AnnInv, NEW p \in Sessions, Commit(p)
  PROVE  SharedInv'
  <1> DEFINE w == wr[p]
  <1>0. SharedInv /\ SessionInv(p) /\ Apart(p, p)
    BY DEF AnnInv
  <1>1. chunk' = (chunk \cup w.add) \ w.del /\ gone' = gone \cup w.gone
        /\ used' = used /\ cleared \subseteq cleared'
    BY DEF Commit
  <1>2. CountIsTrue'
    BY <1>0, <1>1, CommitAlone, Zenon
    DEF CommitsAlone, SharedInv, CountIsTrue, SessionInv, Counts
  <1>3. Findable'
    <2>1. CASE UNCHANGED <<chunk, delta, index, compart>>
      BY <1>0, <1>1, <2>1 DEF SharedInv, Findable
    <2>2. CASE w.compart # <<>> /\ compart' = w.compart
      <3>1. CASE w.index # NoIndex
        BY <1>0, <1>1, <3>1, Zenon DEF SessionInv, Finds, Findable, Commit
      <3>2. CASE w.index = NoIndex
        <4> SUFFICES ASSUME w.compart.mode = "local_ann"
                     PROVE  index' # NoIndex
                            /\ chunk' \ gone' \subseteq index'.nodes \cup delta'
          BY <2>2 DEF Findable
        <4>1. index # NoIndex /\ chunk \ gone \subseteq index.nodes \cup delta
          BY <1>0, <2>2, <3>2, Zenon DEF SessionInv, Finds, SharedInv, Findable
        <4>2. w.add \subseteq w.deltaAdd /\ w.deltaDel \subseteq w.del
          BY <1>0, <3>2, <4>1, Zenon DEF SessionInv, Finds, Commit
        <4>3. index' = index /\ delta' = (delta \ w.deltaDel) \cup w.deltaAdd
          BY <3>2 DEF Commit
        <4> QED
          BY <1>1, <4>1, <4>2, <4>3
      <3> QED
        BY <3>1, <3>2
    <2> QED
      BY <2>1, <2>2, CommitAlone DEF CommitsAlone
  <1>4. chunk' \cup gone' \subseteq used'
    BY <1>0, <1>1, Zenon DEF SessionInv, Fresh, SharedInv
  <1>5. tomb' \subseteq gone'
    BY <1>0 DEF Commit, SharedInv, SessionInv, Forgets
  <1>6. (gone' \ cleared') \cap chunk' \subseteq tomb'
    <2> SUFFICES ASSUME NEW c \in (gone' \ cleared') \cap chunk'
                 PROVE  c \in tomb'
      OBVIOUS
    <2>1. c \in chunk \ w.del
      BY <1>0, <1>1, Zenon DEF SessionInv, Fresh, Apart
    <2>2. w.tombAdd \subseteq tomb' /\ c \notin cleared
      BY <1>1, Zenon DEF Commit
    <2>3. c \in tomb \cup w.tombAdd
      BY <1>0, <1>1, <2>1, <2>2, Zenon DEF SharedInv, SessionInv, Forgets
    <2> QED
      BY <2>2, <2>3, CommitClears
  <1> QED
    BY <1>2, <1>3, <1>4, <1>5, <1>6 DEF SharedInv

(* A commit disturbs no other transaction.                                 *)
LEMMA CommitOthers ==
  ASSUME AnnInv, NEW p \in Sessions, Commit(p), NEW q \in Sessions \ {p}, Untouched(q)
  PROVE  SessionInv(q)'
  <1> DEFINE w == wr[p]
             v == wr[q]
  <1>0. SharedInv /\ SessionInv(q) /\ Apart(p, q) /\ Apart(q, p)
    BY DEF AnnInv
  <1>1. chunk' = (chunk \cup w.add) \ w.del /\ gone' = gone \cup w.gone
        /\ used' = used /\ cleared \subseteq cleared'
    BY DEF Commit
  <1>2. /\ wr'[q] = v /\ pc'[q] = pc[q] /\ arg'[q] = arg[q] /\ seen'[q] = seen[q]
        /\ lock = q => lock' = q
    BY DEF Untouched
  <1>3. Locked(q)' /\ WritesByPc(q)' /\ QuietWithoutRow(q)'
    <2>1. Locked(q)'
      BY <1>0, <1>2 DEF SessionInv, Locked
    <2>2. WritesByPc(q)'
      BY <1>0, <1>2 DEF SessionInv, WritesByPc
    <2>3. QuietWithoutRow(q)'
      BY <1>0, <1>2, Zenon DEF SessionInv, QuietWithoutRow
    <2> QED
      BY <2>1, <2>2, <2>3
  <1>4. Fresh(q)'
    BY <1>0, <1>1, <1>2, Zenon DEF SessionInv, Fresh, Apart
  <1>5. Counts(q)'
    BY <1>0, <1>2, CommitAlone, Zenon DEF CommitsAlone, SessionInv, Counts
  <1>6. Finds(q)'
    <2>1. CASE UNCHANGED <<chunk, index, compart>>
      BY <1>0, <1>1, <1>2, <2>1, Zenon DEF SessionInv, Finds
    <2>2. CASE v.compart = <<>> /\ v.index = NoIndex
      BY <1>0, <1>2, <2>2, Zenon DEF SessionInv, Finds, QuietWithoutRow
    <2> QED
      BY <2>1, <2>2, CommitAlone DEF CommitsAlone
  <1>7. Forgets(q)'
    <2>1. (v.gone \ (v.tombAdd \cup v.del)) \cap chunk' \subseteq tomb' \cup cleared'
      <3> SUFFICES ASSUME NEW c \in (v.gone \ (v.tombAdd \cup v.del)) \cap chunk'
                   PROVE  c \in tomb' \cup cleared'
        OBVIOUS
      <3>1. c \in chunk
        BY <1>0, <1>1 DEF Apart
      <3>2. c \in tomb \cup cleared
        BY <1>0, <3>1 DEF SessionInv, Forgets
      <3> QED
        BY <1>1, <3>2, CommitClears
    <2> QED
      BY <1>0, <1>1, <1>2, <2>1, Zenon DEF SessionInv, Forgets
  <1> QED
    BY <1>3, <1>4, <1>5, <1>6, <1>7 DEF SessionInv

(* A commit keeps the invariant.                                           *)
LEMMA CommitKeeps ==
  ASSUME AnnInv, NEW p \in Sessions, Commit(p)
  PROVE  AnnInv'
  <1> DEFINE w == wr[p]
  <1>1. /\ wr'[p] = NoWrites /\ pc'[p] = "idle" /\ pc' \in [Sessions -> PCs]
        /\ wr' \in [Sessions -> Writes] /\ arg' \in [Sessions -> Args]
        /\ lock' \in Sessions \cup {NoSession}
    BY NoWritesFields, Zenon DEF Commit, EndTxn, Goto, AnnInv, TypeOK, PCs, Args, NoArg
  <1>2. \A q \in Sessions \ {p} : Untouched(q)
    BY DEF Commit, EndTxn, Goto, AnnInv, TypeOK, Untouched
  <1>3. SharedInv'
    BY CommitShared
  <1>4. TypeOK'
    <2>1. /\ w.add \subseteq Chunks /\ w.tombAdd \subseteq Chunks
          /\ w.tombDel \subseteq Chunks /\ w.gone \subseteq Chunks
          /\ w.deltaAdd \subseteq Chunks /\ w.index \in Graphs \cup {NoIndex}
          /\ w.compart \in Rows \cup {<<>>}
      BY Zenon DEF AnnInv, TypeOK, Writes
    <2>2. IsFiniteSet(chunk')
      <3>1. IsFiniteSet(chunk) /\ IsFiniteSet(w.add)
        BY DEF AnnInv, TypeOK, SessionInv, Fresh
      <3>2. IsFiniteSet(chunk \cup w.add)
        BY <3>1, FS_Union, Zenon
      <3>3. chunk' \subseteq chunk \cup w.add
        BY Zenon DEF Commit
      <3> QED
        BY <3>2, <3>3, FS_Subset
    <2>3. {chunk', tomb', delta', used', gone', cleared'} \subseteq SUBSET Chunks
      <3>1. {chunk, tomb, delta, used, gone, cleared} \subseteq SUBSET Chunks
        BY Zenon DEF AnnInv, TypeOK
      <3>2. chunk' \subseteq Chunks /\ tomb' \subseteq Chunks /\ delta' \subseteq Chunks
        BY <2>1, <3>1, Zenon DEF Commit
      <3>3. used' \subseteq Chunks /\ gone' \subseteq Chunks /\ cleared' \subseteq Chunks
        BY <2>1, <3>1, Zenon DEF Commit
      <3> QED
        BY <3>2, <3>3, Zenon
    <2>4. index' \in Graphs \cup {NoIndex} /\ compart' \in Rows
      BY <2>1, Zenon DEF Commit, Row, AnnInv, TypeOK
    <2>5. DOMAIN seen' = Sessions /\ calls' \in Nat
      BY Zenon DEF Commit, AnnInv, TypeOK
    <2> QED
      BY <1>1, <2>2, <2>3, <2>4, <2>5, Zenon DEF TypeOK
  <1>5. SessionInv(p)'
    <2>1. seen'[p].gone \subseteq gone'
      BY DEF Commit, AnnInv, SessionInv, Forgets
    <2> QED
      BY <1>1, <2>1, NoTransaction
  <1>6. \A q \in Sessions : SessionInv(q)'
    BY <1>2, <1>5, CommitOthers
  <1>7. \A q, r \in Sessions : Apart(q, r)'
    <2>1. \A q \in Sessions : Apart(p, q)' /\ Apart(q, p)'
      BY <1>1, <1>2, NoWritesFields, StillApart
    <2>2. \A q, r \in Sessions \ {p} : Apart(q, r)'
      BY <1>2 DEF AnnInv, Apart, Untouched
    <2> QED
      BY <2>1, <2>2
  <1> QED
    BY <1>3, <1>4, <1>6, <1>7 DEF AnnInv

-----------------------------------------------------------------------------

(* The invariant holds of an empty compartment.                            *)
LEMMA InitInv == Init => AnnInv
  <1> SUFFICES ASSUME Init PROVE AnnInv
    OBVIOUS
  <1>1. TypeOK
    BY NoWritesFields, FS_EmptySet DEF Init, TypeOK, Rows, PCs, Args, NoArg
  <1>2. SharedInv
    BY FS_EmptySet DEF Init, SharedInv, CountIsTrue, Findable
  <1>3. ASSUME NEW p \in Sessions PROVE SessionInv(p)
    <2> USE NoWritesFields
    <2>1. wr[p] = NoWrites /\ pc[p] = "idle" /\ seen[p].gone = {}
      BY DEF Init, NothingSeen
    <2>2. Locked(p) /\ WritesByPc(p) /\ QuietWithoutRow(p)
      BY <2>1 DEF Locked, WritesByPc, QuietWithoutRow
    <2>3. Fresh(p) /\ Counts(p)
      BY <2>1, FS_EmptySet, Zenon DEF Fresh, Counts
    <2>4. Finds(p) /\ Forgets(p)
      BY <2>1 DEF Finds, Forgets
    <2> QED
      BY <2>2, <2>3, <2>4, Zenon DEF SessionInv
  <1>4. \A p, q \in Sessions : Apart(p, q)
    BY NoWritesFields DEF Init, Apart
  <1> QED
    BY <1>1, <1>2, <1>3, <1>4 DEF AnnInv

(* A step that changes nothing keeps the invariant.                        *)
LEMMA StutterInv == AnnInv /\ UNCHANGED vars => AnnInv'
  <1> SUFFICES ASSUME AnnInv, UNCHANGED vars PROVE AnnInv'
    OBVIOUS
  <1> USE DEF vars, committed, locals, history, AnnInv
  <1>1. TypeOK'
    BY Zenon DEF TypeOK
  <1>2. SharedInv'
    BY Zenon DEF SharedInv, CountIsTrue, Findable
  <1>3. \A p \in Sessions : Untouched(p)
    BY DEF Untouched
  <1>4. \A p \in Sessions : SessionInv(p)'
    BY <1>3, OthersKeep
  <1>5. \A p, q \in Sessions : Apart(p, q)'
    BY DEF Apart
  <1> QED
    BY <1>1, <1>2, <1>4, <1>5

(* Every step keeps the invariant.                                         *)
LEMMA NextInv == AnnInv /\ Next => AnnInv'
  <1> SUFFICES ASSUME AnnInv, NEW p \in Sessions,
                      \/ Register(p) \/ Tombstone(p) \/ Delete(p) \/ Build(p)
                      \/ Search(p) \/ Commit(p) \/ Abort(p)
               PROVE  AnnInv'
    BY DEF Next
  <1>1. CASE Register(p)
    BY <1>1, RegisterInsertKeeps, RegisterCountKeeps, RegisterDeltaKeeps DEF Register
  <1>2. CASE Tombstone(p)
    BY <1>2, TombstoneInsertKeeps, TombstoneMarkKeeps DEF Tombstone
  <1>3. CASE Delete(p)
    BY <1>3, DeleteChunkKeeps, DeleteCountKeeps DEF Delete
  <1>4. CASE Build(p)
    BY <1>4, BuildCallKeeps, BuildLockKeeps, BuildScanKeeps, BuildDrainKeeps,
       RebuildClearKeeps DEF Build
  <1>5. CASE Search(p)
    BY <1>5, SearchKeeps
  <1>6. CASE Commit(p)
    BY <1>6, CommitKeeps
  <1>7. CASE Abort(p)
    BY <1>7, AbortKeeps
  <1> QED
    BY <1>1, <1>2, <1>3, <1>4, <1>5, <1>6, <1>7

(* Every reachable state satisfies AnnInv: the types, the count, the reach *)
(* of index and delta, and for each transaction what it has written so far *)
(* and which of it no other transaction can have written too.              *)
THEOREM Invariance == Spec => []AnnInv
  BY InitInv, NextInv, StutterInv, PTL DEF Spec

(* vector_count is the number of chunk rows, whatever calls overlap or are *)
(* aborted: "keep each compartment's count true".                          *)
THEOREM CountStaysTrue == Spec => []CountIsTrue
  <1>1. AnnInv => CountIsTrue
    BY DEF AnnInv, SharedInv
  <1> QED
    BY <1>1, Invariance, PTL

(* Once a compartment is searched through its index, every committed chunk *)
(* that nobody has forgotten is in the graph or in the delta, however      *)
(* registrations, deletions, builds and rebuilds overlap or abort.         *)
THEOREM ChunksStayFindable == Spec => []Findable
  <1>1. AnnInv => Findable
    BY DEF AnnInv, SharedInv
  <1> QED
    BY <1>1, Invariance, PTL

(* A search returns no chunk whose tombstone or deletion was committed     *)
(* before it began, unless ann_rebuild has cleared the tombstone.          *)
THEOREM SearchesForget == Spec => []AnswersForget
  <1>1. AnnInv => AnswersForget
    <2> SUFFICES ASSUME AnnInv, NEW p \in Sessions
                 PROVE  Answer(p) \cap (seen[p].gone \ cleared) = {}
      BY DEF AnswersForget
    <2>1. Answer(p) \subseteq chunk \ tomb
      <3>1. \A S, n : Best(Query, S, n) \subseteq S
        BY DEF Best
      <3>2. ExactHits \subseteq chunk \ tomb
        BY <3>1 DEF ExactHits
      <3> DEFINE merged == AnnHits(seen[p].index) \cup DeltaHits(seen[p].raw)
      <3>3. \A h \in merged : h.c \notin tomb
        BY DEF AnnHits, DeltaHits, Hit
      <3>4. Ranked(merged, Limit) \subseteq merged
        BY DEF Ranked
      <3> QED
        BY <3>2, <3>3, <3>4, Zenon DEF Answer
    <2>2. seen[p].gone \subseteq gone /\ (gone \ cleared) \cap chunk \subseteq tomb
      BY DEF AnnInv, SessionInv, Forgets, SharedInv
    <2> QED
      BY <2>1, <2>2
  <1> QED
    BY <1>1, Invariance, PTL

=============================================================================
