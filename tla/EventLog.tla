------------------------------ MODULE EventLog ------------------------------
(***************************************************************************)
(* malu$event, the table behind the realtime feed and the log drains.  A   *)
(* transaction that emits an event draws the event_id, which is also the   *)
(* cursor position, from a sequence when it inserts the row; the row       *)
(* becomes visible when the transaction commits, which may be after        *)
(* transactions that drew larger ids have committed, or never.             *)
(***************************************************************************)
EXTENDS Naturals, FiniteSets

CONSTANTS
  MaxEvent,  \* ids drawn are 1 .. MaxEvent
  Batch      \* rows a fetch returns at most

ASSUME EventLogAssumption == MaxEvent \in Nat /\ Batch \in Nat \ {0}

Ids == 1 .. MaxEvent

VARIABLES
  tx,   \* tx[e]: the emitting transaction, "none", "open", "committed" or
        \* "aborted"
  late  \* ids whose transaction committed after that of a larger id

logVars == <<tx, late>>

LogInit == tx = [e \in Ids |-> "none"] /\ late = {}

Visible == {e \in Ids : tx[e] = "committed"}

\* The INSERT: the next value of the sequence.
emit_event(e) ==
  /\ tx[e] = "none"
  /\ \A f \in Ids : f < e => tx[f] # "none"
  /\ tx' = [tx EXCEPT ![e] = "open"]
  /\ UNCHANGED late

Commit(e) ==
  /\ tx[e] = "open"
  /\ tx' = [tx EXCEPT ![e] = "committed"]
  /\ late' = late \cup {f \in {e} : \E g \in Visible : g > f}

Abort(e) ==
  /\ tx[e] = "open"
  /\ tx' = [tx EXCEPT ![e] = "aborted"]
  /\ UNCHANGED late

Emit == \E e \in Ids : emit_event(e) \/ Commit(e) \/ Abort(e)

\* WHERE event_id > cursor ... ORDER BY event_id LIMIT, among the events of S:
\* the Batch smallest.  A reader goes through them in ascending order.
Past(cursor, S) ==
  LET all == {e \in S \cap Visible : e > cursor}
  IN  {e \in all : Cardinality({f \in all : f < e}) < Batch}

=============================================================================
