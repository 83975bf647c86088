------------------------------ MODULE LogDrain ------------------------------
(***************************************************************************)
(* malu$log_drain and maludb-logsd.  A worker's pass (iterate_once) visits *)
(* every enabled drain in order inside ONE transaction: it fetches what    *)
(* lies past the drain's cursor, ships it, and only then advances the      *)
(* cursor, whose row stays locked until the pass commits.  A SinkError     *)
(* costs the drain its turn; any other exception rolls the pass back, and  *)
(* run_forever starts the next one.                                        *)
(*                                                                         *)
(* One stream per drain.  Two workers are two logsd processes.             *)
(***************************************************************************)
EXTENDS EventLog

CONSTANTS
  NumDrains,
  Workers,
  MaxFaults  \* bound on passing sink errors, other exceptions and crashes

Drains == 1 .. NumDrains
Nobody == "nobody"

VARIABLES
  down,      \* drains whose sink always answers with a SinkError
  poisoned,  \* drains whose visit raises something else: a stream that is
             \* not supported, a destination that cannot be opened
  dcursor,   \* committed cursor_jsonb, per drain
  shipped,   \* ids a drain's destination has received
  lock,      \* the worker whose transaction holds the drain's row
  pc,        \* "idle", "visit", "ship", "advance", "update" or "record"
  at,        \* the drain a worker is at
  batch,     \* the rows it fetched
  seen,      \* v_existing
  moved,     \* moved[w]: the cursors its transaction has set, 0 for none
  faults

drainVars ==
  <<down, poisoned, dcursor, shipped, lock, pc, at, batch, seen, moved, faults>>

NoMoves == [d \in Drains |-> 0]

DrainInit ==
  /\ down \in SUBSET Drains
  /\ poisoned \in SUBSET (Drains \ down)
  /\ dcursor = NoMoves
  /\ shipped = [d \in Drains |-> {}]
  /\ lock = [d \in Drains |-> Nobody]
  /\ pc = [w \in Workers |-> "idle"]
  /\ at = [w \in Workers |-> 1]
  /\ batch = [w \in Workers |-> {}]
  /\ seen = [w \in Workers |-> 0]
  /\ moved = [w \in Workers |-> NoMoves]
  /\ faults = 0

\* How a worker is between drains.
Turn(w, d) ==
  /\ pc' = [pc EXCEPT ![w] = "visit"]
  /\ at' = [at EXCEPT ![w] = d]
  /\ batch' = [batch EXCEPT ![w] = {}]
  /\ seen' = [seen EXCEPT ![w] = 0]

\* The end of a pass: locks go, and with a commit the cursors it set appear.
Ends(w, cursors) ==
  /\ pc' = [pc EXCEPT ![w] = "idle"]
  /\ at' = [at EXCEPT ![w] = 1]
  /\ batch' = [batch EXCEPT ![w] = {}]
  /\ seen' = [seen EXCEPT ![w] = 0]
  /\ moved' = [moved EXCEPT ![w] = NoMoves]
  /\ lock' = [d \in Drains |-> IF lock[d] = w THEN Nobody ELSE lock[d]]
  /\ dcursor' = cursors

Begin(w) ==
  /\ pc[w] = "idle"
  /\ Turn(w, 1)
  /\ UNCHANGED <<logVars, down, poisoned, dcursor, shipped, lock, moved, faults>>

\* Set up the sink and fetch.
Visit(w) ==
  LET d == at[w] IN
  /\ pc[w] = "visit" /\ d \in Drains /\ d \notin poisoned
  /\ \/ /\ d \in down
        /\ pc' = [pc EXCEPT ![w] = "record"]
        /\ UNCHANGED <<at, batch, seen>>
     \/ /\ Past(dcursor[d], Ids) # {}
        /\ batch' = [batch EXCEPT ![w] = Past(dcursor[d], Ids)]
        /\ pc' = [pc EXCEPT ![w] = "ship"]
        /\ UNCHANGED <<at, seen>>
     \/ /\ Past(dcursor[d], Ids) = {}
        /\ Turn(w, d + 1)
  /\ UNCHANGED <<logVars, down, poisoned, dcursor, shipped, lock, moved, faults>>

Ship(w) ==
  /\ pc[w] = "ship" /\ at[w] \notin down
  /\ shipped' = [shipped EXCEPT ![at[w]] = @ \cup batch[w]]
  /\ pc' = [pc EXCEPT ![w] = "advance"]
  /\ UNCHANGED <<logVars, down, poisoned, dcursor, lock, at, batch, seen, moved,
                 faults>>

\* The cursor is advanced although the sink refused the batch.
SinkError_Advances(w) ==
  /\ pc[w] = "ship"
  /\ \/ at[w] \in down /\ UNCHANGED <<shipped, faults>>
     \/ /\ at[w] \notin down /\ faults < MaxFaults
        /\ faults' = faults + 1
        /\ UNCHANGED shipped
  /\ pc' = [pc EXCEPT ![w] = "advance"]
  /\ UNCHANGED <<logVars, down, poisoned, dcursor, lock, at, batch, seen, moved>>

\* The exception leaves iterate_once.
SinkError_NotCaught(w) ==
  /\ pc[w] = "ship"
  /\ \/ at[w] \in down /\ UNCHANGED <<shipped, faults>>
     \/ /\ at[w] \notin down /\ faults < MaxFaults
        /\ faults' = faults + 1
        /\ UNCHANGED shipped
  /\ Ends(w, dcursor)
  /\ UNCHANGED <<logVars, down, poisoned>>

\* The sink refuses the batch, or took it and its answer was lost.
SinkError(w) ==
  /\ pc[w] = "ship"
  /\ \/ at[w] \in down /\ UNCHANGED <<shipped, faults>>
     \/ /\ at[w] \notin down /\ faults < MaxFaults
        /\ faults' = faults + 1
        /\ shipped' \in
             {shipped, [shipped EXCEPT ![at[w]] = @ \cup batch[w]]}
  /\ pc' = [pc EXCEPT ![w] = "record"]
  /\ UNCHANGED <<logVars, down, poisoned, dcursor, lock, at, batch, seen, moved>>

\* log_drain_advance_cursor reads the cursor, without a lock ...
AdvanceReads(w) ==
  /\ pc[w] = "advance"
  /\ seen' = [seen EXCEPT ![w] = dcursor[at[w]]]
  /\ pc' = [pc EXCEPT ![w] = "update"]
  /\ UNCHANGED <<logVars, down, poisoned, dcursor, shipped, lock, at, batch,
                 moved, faults>>

\* ... waits for the row and sets what it has worked out.
log_drain_advance_cursor(w) ==
  LET d == at[w] IN
  /\ pc[w] = "update" /\ lock[d] \in {Nobody, w}
  /\ lock' = [lock EXCEPT ![d] = w]
  /\ \E last_id \in batch[w] :
       /\ \A e \in batch[w] : e <= last_id
       /\ moved' = [moved EXCEPT ![w][d] =
                      IF seen[w] > last_id THEN seen[w] ELSE last_id]
  /\ pc' = [pc EXCEPT ![w] = "record"]
  /\ UNCHANGED <<logVars, down, poisoned, dcursor, shipped, at, batch, seen,
                 faults>>

\* log_drain_record_run inserts into malu$log_drain_run; its foreign key locks
\* nothing that the update of a cursor waits for.
record_run(w) ==
  /\ pc[w] = "record"
  /\ Turn(w, at[w] + 1)
  /\ UNCHANGED <<logVars, down, poisoned, dcursor, shipped, lock, moved, faults>>

CommitPass(w) ==
  /\ pc[w] = "visit" /\ at[w] \notin Drains
  /\ Ends(w, [d \in Drains |-> IF moved[w][d] # 0 THEN moved[w][d] ELSE dcursor[d]])
  /\ UNCHANGED <<logVars, down, poisoned, shipped, faults>>

\* An exception that is no SinkError, or the end of the process: everything
\* the pass has set is undone, and nothing it has shipped.
PassFails(w) ==
  /\ \/ /\ pc[w] = "visit" /\ at[w] \in poisoned
        /\ UNCHANGED faults
     \/ /\ pc[w] # "idle" /\ faults < MaxFaults
        /\ faults' = faults + 1
  /\ Ends(w, dcursor)
  /\ UNCHANGED <<logVars, down, poisoned, shipped>>

WorkerStep(w) ==
  \/ Begin(w) \/ Visit(w) \/ Ship(w) \/ SinkError(w) \/ AdvanceReads(w)
  \/ log_drain_advance_cursor(w) \/ record_run(w) \/ CommitPass(w) \/ PassFails(w)

DrainNext == \E w \in Workers : WorkerStep(w)

-----------------------------------------------------------------------------
\* A record the stored cursor of a drain has passed is at its destination,
\* unless its transaction committed after that of a larger id: not lost to a
\* sink error, to a pass rolled back between shipping and commit, or to a
\* second worker on the same drain.
PassedIsShipped ==
  \A d \in Drains : \A e \in Visible :
    e <= dcursor[d] /\ e \notin shipped[d] => e \in late

\* A drain whose sink works gets every record that commits in order, whatever
\* the sinks of the other drains do and however often two workers meet at its
\* row.  It holds only while no drain raises anything but a SinkError: such a
\* drain rolls back every pass, and with it the cursors of the others.
HealthyDrainShips ==
  \A d \in Drains, e \in Ids :
    (poisoned = {} /\ d \notin down /\ e \in Visible \ late) ~> (e \in shipped[d])

=============================================================================
