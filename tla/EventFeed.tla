----------------------------- MODULE EventFeed -----------------------------
(***************************************************************************)
(* The readers of malu$event, a subscription and the log drains, against   *)
(* the transactions that write it.  Readers change nothing of the log and  *)
(* know nothing of each other, so they are checked one kind at a time:     *)
(* reader says which is at work.                                           *)
(***************************************************************************)
EXTENDS Subscription, LogDrain

VARIABLE reader

vars == <<logVars, subVars, drainVars, reader>>

Init ==
  /\ LogInit /\ SubInit /\ DrainInit
  /\ \/ reader = "subscription" /\ down = Drains
     \/ reader = "drains" /\ wanted = {}

Subscribed(A) == reader = "subscription" /\ A /\ UNCHANGED <<drainVars, reader>>
Drained(A) == reader = "drains" /\ A /\ UNCHANGED <<subVars, reader>>

Next ==
  \/ Emit /\ UNCHANGED <<subVars, drainVars, reader>>
  \/ Subscribed(SubNext)
  \/ Drained(DrainNext)

\* realtimed gives every stream a thread, and clients reconnect and
\* acknowledge.  A worker's loop never ends, and PostgreSQL grants a row lock
\* to those that wait for it.  No transaction is obliged to commit.
Fairness ==
  /\ \A s \in Streams :
       /\ WF_vars(Subscribed(Connect(s)))
       /\ WF_vars(Subscribed(Drain(s)))
       /\ WF_vars(Subscribed(Send(s)))
       /\ WF_vars(Subscribed(ClientAck(s)))
  /\ \A t \in Ids : WF_vars(Subscribed(event_ack(t)))
  /\ \A w \in Workers : WF_vars(Drained(WorkerStep(w)))

Spec == Init /\ [][Next]_vars /\ Fairness

=============================================================================
