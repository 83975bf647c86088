---------------------------- MODULE Subscription ----------------------------
(***************************************************************************)
(* One row of malu$event_subscription and maludb-realtimed, which serves   *)
(* it: event_fetch_batch, event_ack, and the streams (SSE or WebSocket)    *)
(* that clients of the subscription hold open.  A stream sends what lies   *)
(* past the stored cursor, again and again until an ack moves the cursor.  *)
(* An ack names the last event its sender has received; it travels on its  *)
(* own (POST /events/ack, or a frame), so it can be late, overtaken or     *)
(* repeated.                                                               *)
(***************************************************************************)
EXTENDS EventLog

CONSTANTS
  Streams,   \* connections to /events or /events/ws for the subscription
  MaxBreaks  \* bound on how often a stream ends: hang-up, error, 600 s

VARIABLES
  wanted,  \* the ids that pass the subscription's filters
  cursor,  \* malu$event_subscription.cursor
  acked,   \* ids with an 'acked' row in malu$event_delivery
  open,    \* open[s]: stream s is connected
  rows,    \* rows[s]: the rows fetched and not yet written to the client
  last,    \* last[s]: the last event the client got over s, 0 at first
  acks,    \* acks on their way
  got,     \* ids some client of the subscription has received
  breaks

subVars == <<wanted, cursor, acked, open, rows, last, acks, got, breaks>>

SubInit ==
  /\ wanted \in SUBSET Ids
  /\ cursor = 0 /\ acked = {}
  /\ open = [s \in Streams |-> FALSE]
  /\ rows = [s \in Streams |-> {}]
  /\ last = [s \in Streams |-> 0]
  /\ acks = {} /\ got = {} /\ breaks = 0

\* The newest rows first: the limit cuts off the oldest.
event_fetch_batch_NewestFirst ==
  LET all == {e \in wanted \cap Visible : e > cursor}
  IN  {e \in all : Cardinality({f \in all : f > e}) < Batch}

\* One statement, one snapshot; the cursor stays.
event_fetch_batch == Past(cursor, wanted)

\* LISTEN, then the initial drain.
Connect(s) ==
  /\ ~open[s]
  /\ open' = [open EXCEPT ![s] = TRUE]
  /\ rows' = [rows EXCEPT ![s] = event_fetch_batch]
  /\ UNCHANGED <<logVars, wanted, cursor, acked, last, acks, got, breaks>>

\* The loop: woken by a notification or the poll interval, it fetches again.
Drain(s) ==
  /\ open[s] /\ rows[s] = {}
  /\ event_fetch_batch # {}
  /\ rows' = [rows EXCEPT ![s] = event_fetch_batch]
  /\ UNCHANGED <<logVars, wanted, cursor, acked, open, last, acks, got, breaks>>

Send(s) ==
  \E e \in rows[s] :
    /\ open[s] /\ \A f \in rows[s] : e <= f
    /\ rows' = [rows EXCEPT ![s] = @ \ {e}]
    /\ last' = [last EXCEPT ![s] = e]
    /\ got' = got \cup {e}
    /\ UNCHANGED <<logVars, wanted, cursor, acked, open, acks, breaks>>

\* The stream ends, with what it had fetched.
Break(s) ==
  /\ open[s] /\ breaks < MaxBreaks
  /\ open' = [open EXCEPT ![s] = FALSE]
  /\ rows' = [rows EXCEPT ![s] = {}]
  /\ breaks' = breaks + 1
  /\ UNCHANGED <<logVars, wanted, cursor, acked, last, acks, got>>

\* The client acknowledges through the last event of its stream.
ClientAck(s) ==
  /\ last[s] # 0 /\ last[s] \notin acks
  /\ acks' = acks \cup {last[s]}
  /\ UNCHANGED <<logVars, wanted, cursor, acked, open, rows, last, got, breaks>>

\* The delivery rows are written and the cursor is left.
event_ack_KeepsCursor(t) ==
  /\ t \in acks
  /\ acks' \in {acks, acks \ {t}}
  /\ acked' = acked \cup {e \in Visible : cursor < e /\ e <= t}
  /\ UNCHANGED <<logVars, wanted, cursor, open, rows, last, got, breaks>>

\* Delivery rows for every visible event passed over, filtered or not.  The
\* row lock makes the call one step.  It arrives once or, after a lost
\* answer, again.
event_ack(t) ==
  /\ t \in acks
  /\ acks' \in {acks, acks \ {t}}
  /\ IF t <= cursor
       THEN UNCHANGED <<acked, cursor>>
       ELSE /\ acked' = acked \cup {e \in Visible : cursor < e /\ e <= t}
            /\ cursor' = t
  /\ UNCHANGED <<logVars, wanted, open, rows, last, got, breaks>>

StreamStep(s) ==
  Connect(s) \/ Drain(s) \/ Send(s) \/ Break(s) \/ ClientAck(s)

SubNext ==
  \/ \E s \in Streams : StreamStep(s)
  \/ \E t \in acks : event_ack(t)

-----------------------------------------------------------------------------
\* "at-least-once delivery" (event_fetch_batch), as far as the code keeps it:
\* an event the cursor has passed was received by a client, unless its
\* transaction committed after that of a larger id.  Two streams, their
\* breaks, and late and repeated acks do not make the cursor pass an event
\* nobody got.
SkippedOnlyIfLate ==
  \A e \in Visible \cap wanted : e <= cursor /\ e \notin got => e \in late

\* An event that passes the filters and commits in order reaches a client,
\* over streams that break and although each fetch stops at its limit.
EveryEventDelivered ==
  \A e \in Ids :
    (e \in Visible \cap wanted /\ e \notin late) ~> (e \in got)

=============================================================================
