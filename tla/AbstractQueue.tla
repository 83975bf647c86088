---------------------------- MODULE AbstractQueue ----------------------------
(***************************************************************************)
(* What the durable job queue promises its users, with one atomic step for  *)
(* each call and neither lease rows, row locks nor transactions: a job is   *)
(* pending, is handed out, and in the end is completed or, after            *)
(* max_retries attempts, dead with one letter in the dead-letter queue.     *)
(* QueueRefinement relates it to Queue, which implements it while workers   *)
(* are timely.                                                              *)
(***************************************************************************)
EXTENDS Naturals

CONSTANTS Jobs, MaxRetries

VARIABLES state, tries, letters

vars == <<state, tries, letters>>

Init ==
  /\ state = [j \in Jobs |-> "absent"]
  /\ tries = [j \in Jobs |-> 0]
  /\ letters = [j \in Jobs |-> 0]

\* Every job of S is in one state and moves to another in the same step.
Move(S, from, to) ==
  /\ \A j \in S : state[j] = from
  /\ state' = [j \in Jobs |-> IF j \in S THEN to ELSE state[j]]

\* queue_enqueue: one new job; a job that exists is left as it is.
Enqueue(j) ==
  /\ Move({j}, "absent", "pending")
  /\ UNCHANGED <<tries, letters>>

\* queue_lease hands out several jobs at once and counts the attempt.
Lease(S) ==
  /\ Move(S, "pending", "leased")
  /\ tries' = [j \in Jobs |-> IF j \in S THEN tries[j] + 1 ELSE tries[j]]
  /\ UNCHANGED letters

\* queue_ack.
Complete(j) ==
  /\ Move({j}, "leased", "completed")
  /\ UNCHANGED <<tries, letters>>

\* queue_nack of a job that may be tried again.
Retry(j) ==
  /\ tries[j] < MaxRetries
  /\ Move({j}, "leased", "pending")
  /\ UNCHANGED <<tries, letters>>

\* queue_nack of a job whose last attempt this was.
Bury(j) ==
  /\ tries[j] >= MaxRetries
  /\ Move({j}, "leased", "dead")
  /\ letters' = [letters EXCEPT ![j] = @ + 1]
  /\ UNCHANGED tries

\* queue_reap_expired_leases: jobs whose lease ran out, whatever their count.
Reclaim(S) ==
  /\ Move(S, "leased", "pending")
  /\ UNCHANGED <<tries, letters>>

Next ==
  \/ \E j \in Jobs : Enqueue(j) \/ Complete(j) \/ Retry(j) \/ Bury(j)
  \/ \E S \in SUBSET Jobs : Lease(S) \/ Reclaim(S)

Spec == Init /\ [][Next]_vars

=============================================================================
