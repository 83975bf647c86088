-------------------------- MODULE EventFeedProofs --------------------------
(***************************************************************************)
(* For every number of events, batch size, streams, drains and workers, a  *)
(* cursor passes an event nobody has got only if the event's transaction   *)
(* committed after that of a larger id.  The argument is the same for both *)
(* readers.  A position p is covered for a set G of delivered ids when      *)
(* every visible event up to p is in G or late.  A commit keeps a position *)
(* covered if the position is itself a visible event, because an id that   *)
(* appears below a visible one is late.  So the invariants say of every    *)
(* number that may become a cursor (an ack on its way, what a worker has   *)
(* read or set) that it is such a position, and of every fetched batch     *)
(* that what lies between its events is covered.                           *)
(***************************************************************************)
EXTENDS EventFeed, FiniteSetTheorems, TLAPS

(* 0, or an event that can be seen.                                        *)
Position(p) == p = 0 \/ p \in Visible

(* Every visible event of S up to p is in G or late.                       *)
Covered(p, S, G) == \A e \in Visible \cap S : e <= p => e \in G \cup late

(* Below an event of the batch B there is nothing of S left out of B.      *)
NoGap(B, S, G) ==
  \A b \in B, e \in Visible \cap S : e < b => e \in B \cup G \cup late

SubInv ==
  /\ rows \in [Streams -> SUBSET Ids]
  /\ last \in [Streams -> Nat]
  /\ \A s \in Streams :
       /\ rows[s] \subseteq Visible
       /\ NoGap(rows[s], wanted, got)
       /\ Position(last[s]) /\ Covered(last[s], wanted, got)
  /\ \A t \in acks : Position(t) /\ Covered(t, wanted, got)
  /\ Position(cursor) /\ Covered(cursor, wanted, got)

DrainInv ==
  /\ pc \in [Workers -> {"idle", "visit", "ship", "advance", "update", "record"}]
  /\ at \in [Workers -> Nat]
  /\ batch \in [Workers -> SUBSET Ids]
  /\ seen \in [Workers -> Nat]
  /\ dcursor \in [Drains -> Nat]
  /\ shipped \in [Drains -> SUBSET Ids]
  /\ moved \in [Workers -> [Drains -> Nat]]
  /\ \A d \in Drains :
       Position(dcursor[d]) /\ Covered(dcursor[d], Ids, shipped[d])
  /\ \A w \in Workers, d \in Drains :
       Position(moved[w][d]) /\ Covered(moved[w][d], Ids, shipped[d])
  /\ \A w \in Workers : pc[w] \in {"ship", "advance", "update"} =>
       /\ at[w] \in Drains
       /\ batch[w] \subseteq Visible
       /\ NoGap(batch[w], Ids, shipped[at[w]])
  /\ \A w \in Workers : pc[w] \in {"advance", "update"} =>
       batch[w] \subseteq shipped[at[w]]
  /\ \A w \in Workers : pc[w] = "update" =>
       Position(seen[w]) /\ Covered(seen[w], Ids, shipped[at[w]])

LogInv == tx \in [Ids -> {"none", "open", "committed", "aborted"}]

-----------------------------------------------------------------------------
LEMMA PositionIsNat ==
  ASSUME NEW p, Position(p)
  PROVE  p \in Nat
  BY EventLogAssumption DEF Position, Visible, Ids

LEMMA ZeroIsCovered ==
  ASSUME NEW S, NEW G
  PROVE  Position(0) /\ Covered(0, S, G)
  BY EventLogAssumption DEF Position, Covered, Visible, Ids

(* event_fetch_batch and log_drain_fetch_batch: the batch is visible and   *)
(* of S, and an event of S past the cursor that is smaller than one of the *)
(* batch is in the batch as well.                                          *)
LEMMA FetchIsPrefix ==
  ASSUME NEW c, NEW S, NEW b \in Past(c, S), NEW e \in S \cap Visible,
         e > c, e < b
  PROVE  e \in Past(c, S)
  <1> DEFINE all == {x \in S \cap Visible : x > c}
             below(x) == {f \in all : f < x}
  <1>1. all \subseteq Ids /\ b \in all /\ e \in all
    BY DEF Past, Visible
  <1>2. Ids \subseteq Nat /\ IsFiniteSet(Ids)
    BY EventLogAssumption, FS_Interval DEF Ids
  <1>3. ASSUME NEW f \in below(e)
        PROVE  f \in below(b)
    <2>1. f \in all /\ f < e
      OBVIOUS
    <2>2. f \in Nat /\ e \in Nat /\ b \in Nat
      BY <1>1, <1>2, <2>1, Zenon
    <2> QED
      BY <2>1, <2>2
  <1>4. IsFiniteSet(below(b))
    BY <1>1, <1>2, FS_Subset
  <1>5. IsFiniteSet(below(e)) /\ Cardinality(below(e)) <= Cardinality(below(b))
    BY <1>3, <1>4, FS_Subset
  <1>6. Cardinality(below(e)) \in Nat /\ Cardinality(below(b)) \in Nat
    BY <1>4, <1>5, FS_CardinalityType
  <1>7. Cardinality(below(b)) < Batch
    BY DEF Past
  <1>8. Cardinality(below(e)) < Batch
    BY <1>5, <1>6, <1>7, EventLogAssumption
  <1> QED
    BY <1>1, <1>8 DEF Past

(* So a batch fetched past a covered position has no gap.                  *)
LEMMA FetchHasNoGap ==
  ASSUME NEW c \in Nat, NEW S, NEW G, Covered(c, S, G)
  PROVE  /\ Past(c, S) \subseteq Visible
         /\ NoGap(Past(c, S), S, G)
  <1>1. Past(c, S) \subseteq Visible
    BY DEF Past
  <1>2. ASSUME NEW b \in Past(c, S), NEW e \in Visible \cap S, e < b
        PROVE  e \in Past(c, S) \cup G \cup late
    <2>1. e \in Nat
      BY EventLogAssumption DEF Visible, Ids
    <2>2. CASE e > c
      BY <1>2, <2>2, FetchIsPrefix
    <2>3. CASE e <= c
      BY <1>2, <2>3 DEF Covered
    <2> QED
      BY <2>1, <2>2, <2>3
  <1> QED
    BY <1>1, <1>2 DEF NoGap

-----------------------------------------------------------------------------
(* What a step of the emitting transactions does to all this.              *)
LEMMA EmitStep ==
  ASSUME LogInv, Emit
  PROVE  /\ LogInv'
         /\ Visible \subseteq Visible' /\ late \subseteq late'
         /\ \A e \in Visible' \ Visible : \A g \in Visible : e < g => e \in late'
  <1>1. PICK x \in Ids : emit_event(x) \/ Commit(x) \/ Abort(x)
    BY DEF Emit
  <1>2. CASE emit_event(x)
    BY <1>2 DEF LogInv, emit_event, Visible
  <1>3. CASE Commit(x)
    BY <1>3 DEF LogInv, Commit, Visible
  <1>4. CASE Abort(x)
    BY <1>4 DEF LogInv, Abort, Visible
  <1> QED
    BY <1>1, <1>2, <1>3, <1>4

LEMMA EmitKeeps ==
  ASSUME LogInv, Emit, NEW S, NEW G
  PROVE  /\ \A p : Position(p) => Position(p)'
         /\ \A p : Position(p) /\ Covered(p, S, G) =>
              \A e \in Visible' \cap S : e <= p => e \in G \cup late'
         /\ \A B \in SUBSET Visible : NoGap(B, S, G) =>
              \A b \in B, e \in Visible' \cap S : e < b => e \in B \cup G \cup late'
  <1>1. /\ Visible \subseteq Visible' /\ late \subseteq late'
        /\ \A e \in Visible' \ Visible : \A g \in Visible : e < g => e \in late'
    BY EmitStep
  <1>2. Visible' \subseteq Nat \ {0}
    BY EventLogAssumption DEF Visible, Ids
  <1>3. ASSUME NEW p, Position(p), Covered(p, S, G),
               NEW e \in Visible' \cap S, e <= p
        PROVE  e \in G \cup late'
    <2>1. p \in Visible
      BY <1>2, <1>3 DEF Position
    <2>2. e \notin Visible => e < p
      BY <1>1, <1>2, <1>3, <2>1
    <2> QED
      BY <1>1, <1>3, <2>1, <2>2 DEF Covered
  <1>4. ASSUME NEW B \in SUBSET Visible, NoGap(B, S, G),
               NEW b \in B, NEW e \in Visible' \cap S, e < b
        PROVE  e \in B \cup G \cup late'
    BY <1>1, <1>4 DEF NoGap
  <1> QED
    BY <1>1, <1>3, <1>4 DEF Position

-----------------------------------------------------------------------------
(* The subscription.                                                       *)
LEMMA SubInitInv == LogInit /\ SubInit => LogInv /\ SubInv
  <1> SUFFICES ASSUME LogInit, SubInit
               PROVE  LogInv /\ SubInv
    OBVIOUS
  <1>1. Visible = {}
    BY DEF LogInit, Visible
  <1> QED
    BY <1>1 DEF LogInit, SubInit, LogInv, SubInv, Position, Covered, NoGap

LEMMA SubKeptByEmit ==
  ASSUME LogInv, SubInv, Emit, UNCHANGED subVars
  PROVE  SubInv'
  <1>1. Visible \subseteq Visible'
    BY EmitStep
  <1>2. /\ \A p : Position(p) => Position(p)'
        /\ \A p : Position(p) /\ Covered(p, wanted, got) =>
             \A e \in Visible' \cap wanted : e <= p => e \in got \cup late'
        /\ \A B \in SUBSET Visible : NoGap(B, wanted, got) =>
             \A b \in B, e \in Visible' \cap wanted :
               e < b => e \in B \cup got \cup late'
    BY EmitKeeps, Zenon
  <1>3. UNCHANGED <<rows, last, acks, cursor, wanted, got>>
    BY DEF subVars
  <1>4. ASSUME NEW s \in Streams
        PROVE  /\ rows'[s] \subseteq Visible'
               /\ NoGap(rows[s], wanted, got)'
               /\ Position(last[s])' /\ Covered(last[s], wanted, got)'
    BY <1>1, <1>2, <1>3 DEF SubInv, NoGap, Covered, Position
  <1>5. ASSUME NEW t \in acks
        PROVE  Position(t)' /\ Covered(t, wanted, got)'
    BY <1>2, <1>3 DEF SubInv, Covered
  <1>6. Position(cursor)' /\ Covered(cursor, wanted, got)'
    BY <1>2, <1>3 DEF SubInv, Covered, Position
  <1> QED
    BY <1>3, <1>4, <1>5, <1>6 DEF SubInv

(* One step of the reader, by action.                                      *)
LEMMA SubKeptBySub ==
  ASSUME LogInv, SubInv, SubNext
  PROVE  LogInv' /\ SubInv'
  <1>1. UNCHANGED <<logVars, wanted>>
    BY DEF SubNext, StreamStep, Connect, Drain, Send, Break, ClientAck, event_ack
  <1>2. UNCHANGED <<tx, late>> /\ Visible' = Visible /\ LogInv'
    BY <1>1 DEF logVars, Visible, LogInv
  <1>3. Visible \subseteq Nat \ {0} /\ Visible \subseteq Ids
    BY EventLogAssumption DEF Visible, Ids
  <1>4. /\ event_fetch_batch \subseteq Visible
        /\ NoGap(event_fetch_batch, wanted, got)
    <2>1. Position(cursor) /\ Covered(cursor, wanted, got)
      BY DEF SubInv
    <2>2. cursor \in Nat
      BY <2>1, PositionIsNat
    <2> QED
      BY <2>1, <2>2, FetchHasNoGap DEF event_fetch_batch
  <1>5. ASSUME NEW s \in Streams, Connect(s) \/ Drain(s)
        PROVE  SubInv'
    BY <1>1, <1>2, <1>3, <1>4, <1>5, Zenon
       DEF SubInv, Connect, Drain, Position, Covered, NoGap
  <1>6. ASSUME NEW s \in Streams, Send(s)
        PROVE  SubInv'
    <2>1. PICK e \in rows[s] :
            /\ \A f \in rows[s] : e <= f
            /\ rows' = [rows EXCEPT ![s] = @ \ {e}]
            /\ last' = [last EXCEPT ![s] = e]
            /\ got' = got \cup {e}
            /\ UNCHANGED <<acks, cursor>>
      BY <1>6, Zenon DEF Send
    <2>2. e \in Visible /\ e \in Nat
      BY <1>3 DEF SubInv
    <2>3. ASSUME NEW x \in Visible \cap wanted, x <= e
          PROVE  x \in got' \cup late
      <3>1. x = e \/ x < e
        BY <1>3, <2>2, <2>3
      <3>2. x < e => x \notin rows[s]
        BY <1>3, <2>1, <2>2
      <3>3. x < e => x \in rows[s] \cup got \cup late
        BY DEF SubInv, NoGap
      <3> QED
        BY <2>1, <3>1, <3>2, <3>3
    <2>4. ASSUME NEW r \in Streams
          PROVE  /\ rows'[r] \subseteq Visible
                 /\ NoGap(rows'[r], wanted, got')
      BY <2>1 DEF SubInv, NoGap
    <2>5. ASSUME NEW r \in Streams
          PROVE  Position(last'[r]) /\ Covered(last'[r], wanted, got')
      <3>1. CASE r = s
        BY <2>1, <2>2, <2>3, <3>1 DEF SubInv, Position, Covered
      <3>2. CASE r # s
        BY <2>1, <3>2 DEF SubInv, Position, Covered
      <3> QED
        BY <3>1, <3>2
    <2>6. /\ \A t \in acks : Position(t) /\ Covered(t, wanted, got')
          /\ Position(cursor) /\ Covered(cursor, wanted, got')
      BY <2>1 DEF SubInv, Covered
    <2>7. rows' \in [Streams -> SUBSET Ids] /\ last' \in [Streams -> Nat]
      BY <2>1, <2>2 DEF SubInv
    <2> QED
      BY <1>1, <1>2, <2>1, <2>4, <2>5, <2>6, <2>7
         DEF SubInv, Position, Covered, NoGap
  <1>7. ASSUME NEW s \in Streams, Break(s)
        PROVE  SubInv'
    BY <1>1, <1>2, <1>7 DEF SubInv, Break, Position, Covered, NoGap
  <1>8. ASSUME NEW s \in Streams, ClientAck(s)
        PROVE  SubInv'
    BY <1>1, <1>2, <1>8 DEF SubInv, ClientAck, Position, Covered, NoGap
  <1>9. ASSUME NEW t \in acks, event_ack(t)
        PROVE  SubInv'
    BY <1>1, <1>2, <1>9 DEF SubInv, event_ack, Position, Covered, NoGap
  <1> QED
    BY <1>2, <1>5, <1>6, <1>7, <1>8, <1>9 DEF SubNext, StreamStep

-----------------------------------------------------------------------------
(* The log drains.                                                         *)
LEMMA DrainInitInv == LogInit /\ DrainInit => DrainInv
  <1> SUFFICES ASSUME LogInit, DrainInit
               PROVE  DrainInv
    OBVIOUS
  <1>1. Visible = {}
    BY DEF LogInit, Visible
  <1> QED
    BY <1>1 DEF DrainInit, DrainInv, NoMoves, Drains, Position, Covered, NoGap

LEMMA DrainKeptByEmit ==
  ASSUME LogInv, DrainInv, Emit, UNCHANGED drainVars
  PROVE  DrainInv'
  <1>1. Visible \subseteq Visible'
    BY EmitStep
  <1>2. UNCHANGED <<pc, at, batch, seen, dcursor, shipped, moved>>
    BY DEF drainVars
  <1>3. ASSUME NEW d \in Drains, NEW p, Position(p), Covered(p, Ids, shipped[d])
        PROVE  Position(p)' /\ Covered(p, Ids, shipped[d])'
    BY <1>2, <1>3, EmitKeeps DEF Covered
  <1>4. ASSUME NEW d \in Drains, NEW B \in SUBSET Visible,
               NoGap(B, Ids, shipped[d])
        PROVE  NoGap(B, Ids, shipped[d])'
    BY <1>2, <1>4, EmitKeeps DEF NoGap
  <1>5. ASSUME NEW d \in Drains
        PROVE  Position(dcursor[d])' /\ Covered(dcursor[d], Ids, shipped[d])'
    BY <1>2, <1>3 DEF DrainInv, Position, Covered
  <1>6. ASSUME NEW w \in Workers, NEW d \in Drains
        PROVE  Position(moved[w][d])' /\ Covered(moved[w][d], Ids, shipped[d])'
    BY <1>2, <1>3 DEF DrainInv, Position, Covered
  <1>7. ASSUME NEW w \in Workers, pc[w] \in {"ship", "advance", "update"}
        PROVE  /\ at[w] \in Drains
               /\ batch[w] \subseteq Visible'
               /\ NoGap(batch[w], Ids, shipped[at[w]])'
    BY <1>1, <1>2, <1>4, <1>7 DEF DrainInv, NoGap
  <1>8. ASSUME NEW w \in Workers, pc[w] = "update"
        PROVE  Position(seen[w])' /\ Covered(seen[w], Ids, shipped[at[w]])'
    <2>1. at[w] \in Drains /\ Position(seen[w]) /\ Covered(seen[w], Ids, shipped[at[w]])
      BY <1>8 DEF DrainInv
    <2> QED
      BY <1>2, <1>3, <2>1 DEF Position, Covered
  <1> QED
    BY <1>2, <1>5, <1>6, <1>7, <1>8 DEF DrainInv

(* The end of a pass, with cursors that are right.                         *)
LEMMA EndsKeeps ==
  ASSUME DrainInv, NEW w \in Workers, NEW c, Ends(w, c),
         UNCHANGED <<tx, late, shipped>>,
         dcursor' \in [Drains -> Nat],
         \A d \in Drains :
           Position(dcursor'[d]) /\ Covered(dcursor'[d], Ids, shipped[d])
  PROVE  DrainInv'
  <1>1. Visible' = Visible
    BY DEF Visible
  <1>2. \A d \in Drains : Position(0) /\ Covered(0, Ids, shipped[d])
    BY ZeroIsCovered
  <1>3. moved' = [moved EXCEPT ![w] = [d \in Drains |-> 0]]
    BY DEF Ends, NoMoves
  <1>4. /\ moved' \in [Workers -> [Drains -> Nat]]
        /\ \A v \in Workers, d \in Drains :
             Position(moved'[v][d]) /\ Covered(moved'[v][d], Ids, shipped[d])
    BY <1>2, <1>3 DEF DrainInv
  <1>5. /\ pc' = [pc EXCEPT ![w] = "idle"]
        /\ at' = [at EXCEPT ![w] = 1]
        /\ batch' = [batch EXCEPT ![w] = {}]
        /\ seen' = [seen EXCEPT ![w] = 0]
    BY DEF Ends
  <1> QED
    BY <1>1, <1>4, <1>5 DEF DrainInv, Position, Covered, NoGap

(* One step of a worker, by action.  tx and late stay, so the predicates   *)
(* change only with their arguments.                                       *)
LEMMA DrainKeptByDrain ==
  ASSUME LogInv, DrainInv, DrainNext
  PROVE  LogInv' /\ DrainInv'
  <1>1. PICK w \in Workers : WorkerStep(w)
    BY DEF DrainNext
  <1>2. UNCHANGED <<tx, late>>
    BY <1>1 DEF WorkerStep, Begin, Visit, Ship, SinkError, AdvanceReads,
       log_drain_advance_cursor, record_run, CommitPass, PassFails, logVars
  <1>3. Visible' = Visible /\ LogInv'
    BY <1>2 DEF Visible, LogInv
  <1> USE <1>2, <1>3 DEF Position, Covered, NoGap
  <1>4. CASE Begin(w)
    BY <1>4 DEF DrainInv, Begin, Turn
  <1>5. CASE Visit(w)
    <2> DEFINE d == at[w]
               B == Past(dcursor[d], Ids)
    <2>1. d \in Drains /\ d \in Nat
      BY <1>5 DEF Visit, DrainInv
    <2>2. B \subseteq Visible /\ NoGap(B, Ids, shipped[d])
      <3>1. dcursor[d] \in Nat /\ Covered(dcursor[d], Ids, shipped[d])
        BY <2>1 DEF DrainInv
      <3> QED
        BY <3>1, FetchHasNoGap
    <2>3. B \subseteq Ids
      BY <2>2 DEF Visible
    <2>4. UNCHANGED <<dcursor, shipped, moved>>
      BY <1>5 DEF Visit
    <2>5. CASE /\ pc' = [pc EXCEPT ![w] = "record"]
               /\ UNCHANGED <<at, batch, seen>>
      BY <2>1, <2>4, <2>5 DEF DrainInv
    <2>6. CASE /\ batch' = [batch EXCEPT ![w] = B]
               /\ pc' = [pc EXCEPT ![w] = "ship"]
               /\ UNCHANGED <<at, seen>>
      BY <2>1, <2>2, <2>3, <2>4, <2>6 DEF DrainInv
    <2>7. CASE Turn(w, d + 1)
      BY <2>1, <2>4, <2>7 DEF DrainInv, Turn
    <2> QED
      BY <1>5, <2>5, <2>6, <2>7 DEF Visit
  <1>6. CASE Ship(w)
    BY <1>6 DEF DrainInv, Ship
  <1>7. CASE SinkError(w)
    <2>1. at[w] \in Drains /\ batch[w] \subseteq Ids
      BY <1>7 DEF SinkError, DrainInv
    <2>2. /\ shipped' \in [Drains -> SUBSET Ids]
          /\ \A d \in Drains : shipped[d] \subseteq shipped'[d]
      <3>1. \/ shipped' = shipped
            \/ shipped' = [shipped EXCEPT ![at[w]] = @ \cup batch[w]]
        BY <1>7 DEF SinkError
      <3>2. shipped \in [Drains -> SUBSET Ids]
        BY DEF DrainInv
      <3> QED
        BY <2>1, <3>1, <3>2
    <2> QED
      BY <1>7, <2>1, <2>2 DEF DrainInv, SinkError
  <1>8. CASE AdvanceReads(w)
    BY <1>8 DEF DrainInv, AdvanceReads
  <1>9. CASE log_drain_advance_cursor(w)
    <2> DEFINE d == at[w]
    <2>1. PICK last_id \in batch[w] :
            /\ \A e \in batch[w] : e <= last_id
            /\ moved' = [moved EXCEPT ![w][d] =
                           IF seen[w] > last_id THEN seen[w] ELSE last_id]
      BY <1>9, Zenon DEF log_drain_advance_cursor
    <2>2. /\ d \in Drains /\ batch[w] \subseteq Visible
          /\ batch[w] \subseteq shipped[d] /\ NoGap(batch[w], Ids, shipped[d])
          /\ Position(seen[w]) /\ Covered(seen[w], Ids, shipped[d])
      BY <1>9 DEF DrainInv, log_drain_advance_cursor
    <2>3. Visible \subseteq Nat /\ seen[w] \in Nat
      BY EventLogAssumption DEF Visible, Ids, DrainInv
    <2>4. Position(last_id) /\ last_id \in Nat
      BY <2>2, <2>3, Zenon
    <2>5. Covered(last_id, Ids, shipped[d])
      <3> SUFFICES ASSUME NEW e \in Visible \cap Ids, e <= last_id
                   PROVE  e \in shipped[d] \cup late
        OBVIOUS
      <3>1. e = last_id \/ e < last_id
        BY <2>3, <2>4
      <3> QED
        BY <2>2, <3>1
    <2>6. /\ moved' \in [Workers -> [Drains -> Nat]]
          /\ \A v \in Workers, x \in Drains :
               Position(moved'[v][x]) /\ Covered(moved'[v][x], Ids, shipped[x])
      <3> DEFINE m == IF seen[w] > last_id THEN seen[w] ELSE last_id
      <3>1. m \in Nat /\ Position(m) /\ Covered(m, Ids, shipped[d])
        BY <2>2, <2>3, <2>4, <2>5
      <3>2. /\ moved \in [Workers -> [Drains -> Nat]]
            /\ \A v \in Workers, x \in Drains :
                 Position(moved[v][x]) /\ Covered(moved[v][x], Ids, shipped[x])
        BY DEF DrainInv
      <3>3. moved' = [moved EXCEPT ![w][d] = m]
        BY <2>1
      <3> HIDE DEF m
      <3>4. moved' \in [Workers -> [Drains -> Nat]]
        BY <2>2, <3>1, <3>2, <3>3
      <3>5. \A v \in Workers, x \in Drains :
              moved'[v][x] = IF v = w /\ x = d THEN m ELSE moved[v][x]
        BY <2>2, <3>2, <3>3
      <3> QED
        BY <3>1, <3>2, <3>4, <3>5
    <2>7. /\ pc' = [pc EXCEPT ![w] = "record"]
          /\ UNCHANGED <<dcursor, shipped, at, batch, seen>>
      BY <1>9 DEF log_drain_advance_cursor
    <2> QED
      BY <2>6, <2>7 DEF DrainInv
  <1>10. CASE record_run(w)
    <2>1. Turn(w, at[w] + 1) /\ UNCHANGED <<dcursor, shipped, moved>>
      BY <1>10 DEF record_run
    <2>2. at[w] + 1 \in Nat
      BY DEF DrainInv
    <2>3. /\ pc' \in [Workers -> {"idle", "visit", "ship", "advance", "update", "record"}]
          /\ at' \in [Workers -> Nat]
          /\ batch' \in [Workers -> SUBSET Ids]
          /\ seen' \in [Workers -> Nat]
      BY <2>1, <2>2 DEF DrainInv, Turn
    <2>4. \A v \in Workers : v # w =>
            /\ pc'[v] = pc[v] /\ at'[v] = at[v]
            /\ batch'[v] = batch[v] /\ seen'[v] = seen[v]
      BY <2>1 DEF DrainInv, Turn
    <2>5. pc'[w] = "visit"
      BY <2>1 DEF DrainInv, Turn
    <2> QED
      BY <2>1, <2>3, <2>4, <2>5, Zenon DEF DrainInv
  <1>11. CASE CommitPass(w)
    <2>1. /\ dcursor' = [d \in Drains |-> IF moved[w][d] # 0 THEN moved[w][d]
                                           ELSE dcursor[d]]
          /\ UNCHANGED shipped
      BY <1>11 DEF CommitPass, Ends
    <2>2. /\ dcursor' \in [Drains -> Nat]
          /\ \A d \in Drains :
               Position(dcursor'[d]) /\ Covered(dcursor'[d], Ids, shipped[d])
      BY <2>1 DEF DrainInv
    <2> QED
      BY <1>11, <2>1, <2>2, EndsKeeps DEF CommitPass
  <1>12. CASE PassFails(w)
    <2>1. dcursor' = dcursor /\ UNCHANGED shipped
      BY <1>12 DEF PassFails, Ends
    <2>2. /\ dcursor' \in [Drains -> Nat]
          /\ \A d \in Drains :
               Position(dcursor'[d]) /\ Covered(dcursor'[d], Ids, shipped[d])
      BY <2>1 DEF DrainInv
    <2> QED
      BY <1>12, <2>1, <2>2, EndsKeeps DEF PassFails
  <1> QED
    BY <1>1, <1>4, <1>5, <1>6, <1>7, <1>8, <1>9, <1>10, <1>11, <1>12
       DEF WorkerStep

-----------------------------------------------------------------------------
(* Both readers at once.                                                   *)
FeedInv == LogInv /\ SubInv /\ DrainInv

LEMMA FeedInvInductive ==
  /\ Init => FeedInv
  /\ FeedInv /\ [Next]_vars => FeedInv'
  <1>1. Init => FeedInv
    BY SubInitInv, DrainInitInv DEF Init, FeedInv
  <1>2. ASSUME FeedInv, Emit, UNCHANGED <<subVars, drainVars>>
        PROVE  FeedInv'
    BY <1>2, EmitStep, SubKeptByEmit, DrainKeptByEmit DEF FeedInv
  <1>3. ASSUME FeedInv, SubNext, UNCHANGED drainVars
        PROVE  FeedInv'
    <2>1. UNCHANGED <<tx, late>>
      BY <1>3 DEF SubNext, StreamStep, Connect, Drain, Send, Break, ClientAck,
         event_ack, logVars
    <2>2. DrainInv'
      BY <1>3, <2>1 DEF FeedInv, DrainInv, drainVars, Position, Covered, NoGap,
         Visible
    <2> QED
      BY <1>3, <2>2, SubKeptBySub DEF FeedInv
  <1>4. ASSUME FeedInv, DrainNext, UNCHANGED subVars
        PROVE  FeedInv'
    <2>1. UNCHANGED <<tx, late>>
      BY <1>4 DEF DrainNext, WorkerStep, Begin, Visit, Ship, SinkError,
         AdvanceReads, log_drain_advance_cursor, record_run, CommitPass,
         PassFails, logVars
    <2>2. SubInv'
      BY <1>4, <2>1 DEF FeedInv, SubInv, subVars, Position, Covered, NoGap,
         Visible
    <2> QED
      BY <1>4, <2>2, DrainKeptByDrain DEF FeedInv
  <1>5. ASSUME FeedInv, UNCHANGED vars
        PROVE  FeedInv'
    <2>1. UNCHANGED <<logVars, subVars, drainVars>>
      BY <1>5 DEF vars
    <2>2. UNCHANGED <<tx, late>> /\ Visible' = Visible
      BY <2>1 DEF logVars, Visible
    <2>3. LogInv'
      BY <1>5, <2>2 DEF FeedInv, LogInv
    <2>4. SubInv'
      BY <1>5, <2>1, <2>2 DEF FeedInv, SubInv, subVars, Position, Covered, NoGap
    <2>5. DrainInv'
      BY <1>5, <2>1, <2>2 DEF FeedInv, DrainInv, drainVars, Position, Covered,
         NoGap
    <2> QED
      BY <2>3, <2>4, <2>5 DEF FeedInv
  <1> QED
    BY <1>1, <1>2, <1>3, <1>4, <1>5 DEF Next, Subscribed, Drained

LEMMA FeedInvHolds == Spec => []FeedInv
  BY FeedInvInductive, PTL DEF Spec

(* A subscriber misses an event only if it committed out of order: event_ack *)
(* never moves the cursor over an event that was visible and not sent,       *)
(* whatever streams, breaks and acknowledgements do.                         *)
THEOREM NothingInOrderIsMissed == Spec => []SkippedOnlyIfLate
  <1>1. FeedInv => SkippedOnlyIfLate
    BY DEF FeedInv, SubInv, SkippedOnlyIfLate, Covered
  <1> QED
    BY <1>1, FeedInvHolds, PTL

(* The same of a log drain: log_drain_advance_cursor, called after the batch *)
(* was shipped, never moves a cursor over a record the destination has not   *)
(* received, with any number of workers, sink errors and rolled back passes. *)
THEOREM NothingInOrderIsDropped == Spec => []PassedIsShipped
  <1>1. FeedInv => PassedIsShipped
    BY EventLogAssumption DEF FeedInv, DrainInv, PassedIsShipped, Covered, Visible
  <1> QED
    BY <1>1, FeedInvHolds, PTL

=============================================================================
