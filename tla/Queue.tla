------------------------------- MODULE Queue -------------------------------
(***************************************************************************)
(* The durable job queue (queue_enqueue, queue_lease, queue_ack,           *)
(* queue_nack, queue_reap_expired_leases) at the grain of SQL statements.  *)
(*                                                                         *)
(* Every function is one READ COMMITTED transaction.  A statement is one   *)
(* step: it reads what is committed when it runs, waits for rows another   *)
(* transaction has written, and keeps its own writes private (del, wr)     *)
(* until the commit step publishes them.  The last statement of a function *)
(* is merged with the commit where nothing can happen between the two.     *)
(*                                                                         *)
(* An UPDATE or DELETE that has to wait re-evaluates its WHERE clause on   *)
(* the newest row, so it is modelled as running once the row is free.  A   *)
(* wait cycle is broken by the server's deadlock detector (DeadlockAbort). *)
(*                                                                         *)
(* The workers are clients of the queue, assumed to commit each call: that *)
(* is what the functions are written for and how sql/queue.sql calls them. *)
(* maludb-pageindexd does not; it is module PageIndexWorker.               *)
(***************************************************************************)
EXTENDS Naturals, FiniteSets

CONSTANTS
  Jobs,         \* idempotency keys; at most one job row exists for each
  Workers,      \* clients that lease and settle jobs, one session each
  Reapers,      \* sessions that run queue_reap_expired_leases()
  Producers,    \* sessions that run queue_enqueue() once
  MaxRetries,   \* malu$queue.max_retries
  Batch,        \* p_batch of queue_lease()
  Timely,       \* TRUE: a worker never outlives its own visibility window
  MaxAttempts,  \* bound: leases handed out per job
  MaxFaults,    \* bound: rolled-back transactions and worker crashes
  NoJob

ASSUME QueueAssumption ==
  /\ MaxRetries \in Nat
  /\ Batch \in Nat \ {0}
  /\ MaxAttempts \in Nat
  /\ MaxFaults \in Nat
  /\ Timely \in BOOLEAN
  /\ NoJob \notin Jobs
  /\ Workers \cap Reapers = {}
  /\ Workers \cap Producers = {}
  /\ Reapers \cap Producers = {}

VARIABLES
  status,    \* malu$queue_job.status, "absent" before the row exists
  attempts,  \* malu$queue_job.attempts
  lease,     \* the malu$queue_lease row of the job, 0 when there is none
  lapsed,    \* <<job, lease>> pairs whose expires_at has passed
  dlq,       \* number of dead-letter rows inserted for the job
  held,      \* the worker's leased list: job -> lease it works under
  pc,        \* next statement of the session's transaction
  arg,       \* p_job_id (or the key) of the running function
  seen,      \* values read from rows earlier in the transaction
  del,       \* lease rows deleted by the open transaction
  wr,        \* job statuses written by the open transaction
  enq,       \* what queue_enqueue returned to the producer
  faults

committed == <<status, attempts, lease, dlq>>
txn       == <<pc, arg, seen, del, wr>>
vars      == <<status, attempts, lease, lapsed, dlq, held, pc, arg, seen,
               del, wr, enq, faults>>

Sessions == Workers \cup Reapers \cup Producers
Statuses == {"absent", "pending", "leased", "completed", "dead"}
Nothing  == [j \in Jobs |-> 0]
NoWrites == [j \in Jobs |-> "none"]
PCs      == {"idle", "enq_insert", "lease_insert", "ack_update",
             "ack_commit", "nack_delete", "nack_update", "nack_commit",
             "reap"}

TypeOK ==
  /\ status \in [Jobs -> Statuses]
  /\ attempts \in [Jobs -> Nat]
  /\ lease \in [Jobs -> Nat]
  /\ lapsed \subseteq Jobs \X Nat
  /\ dlq \in [Jobs -> Nat]
  /\ held \in [Workers -> [Jobs -> Nat]]
  /\ pc \in [Sessions -> PCs]
  /\ arg \in [Sessions -> Jobs \cup {NoJob}]
  /\ seen \in [Sessions -> [Jobs -> Nat]]
  /\ del \in [Sessions -> SUBSET Jobs]
  /\ wr \in [Sessions -> [Jobs -> Statuses \cup {"none"}]]
  /\ enq \in [Producers -> {"none", "inserted", "existing", "error"}]
  /\ faults \in Nat

Init ==
  /\ status = [j \in Jobs |-> "absent"]
  /\ attempts = Nothing
  /\ lease = Nothing
  /\ lapsed = {}
  /\ dlq = Nothing
  /\ held = [w \in Workers |-> Nothing]
  /\ pc = [s \in Sessions |-> "idle"]
  /\ arg = [s \in Sessions |-> NoJob]
  /\ seen = [s \in Sessions |-> Nothing]
  /\ del = [s \in Sessions |-> {}]
  /\ wr = [s \in Sessions |-> NoWrites]
  /\ enq = [p \in Producers |-> "none"]
  /\ faults = 0

-----------------------------------------------------------------------------
(* Rows held by open transactions, and the end of a transaction.           *)

JobFree(s, j)   == \A t \in Sessions \ {s} : wr[t][j] = "none"
LeaseFree(s, j) == \A t \in Sessions \ {s} : j \notin del[t]

EndTxn(s) ==
  /\ pc' = [pc EXCEPT ![s] = "idle"]
  /\ arg' = [arg EXCEPT ![s] = NoJob]
  /\ seen' = [seen EXCEPT ![s] = Nothing]
  /\ del' = [del EXCEPT ![s] = {}]
  /\ wr' = [wr EXCEPT ![s] = NoWrites]

Publish(s) ==
  /\ status' = [j \in Jobs |-> IF wr[s][j] = "none" THEN status[j]
                                                    ELSE wr[s][j]]
  /\ lease' = [j \in Jobs |-> IF j \in del[s] THEN 0 ELSE lease[j]]
  /\ EndTxn(s)

-----------------------------------------------------------------------------
(* queue_enqueue: look the key up, then insert.  The unique index turns an *)
(* insert of a key that appeared in between into an error.                 *)

EnqueueLookup(p, j) ==
  /\ pc[p] = "idle" /\ enq[p] = "none"
  /\ IF status[j] = "absent"
       THEN /\ pc' = [pc EXCEPT ![p] = "enq_insert"]
            /\ arg' = [arg EXCEPT ![p] = j]
            /\ UNCHANGED enq
       ELSE /\ enq' = [enq EXCEPT ![p] = "existing"]
            /\ UNCHANGED <<pc, arg>>
  /\ UNCHANGED <<committed, lapsed, held, seen, del, wr, faults>>

EnqueueInsert_ReusesCompleted(p) ==
  /\ pc[p] = "enq_insert"
  /\ IF status[arg[p]] \in {"absent", "completed"}
       THEN /\ status' = [status EXCEPT ![arg[p]] = "pending"]
            /\ enq' = [enq EXCEPT ![p] = "inserted"]
       ELSE /\ enq' = [enq EXCEPT ![p] = "error"]
            /\ UNCHANGED status
  /\ EndTxn(p)
  /\ UNCHANGED <<attempts, lease, dlq, lapsed, held, faults>>

EnqueueInsert(p) ==
  /\ pc[p] = "enq_insert"
  /\ IF status[arg[p]] = "absent"
       THEN /\ status' = [status EXCEPT ![arg[p]] = "pending"]
            /\ enq' = [enq EXCEPT ![p] = "inserted"]
       ELSE /\ enq' = [enq EXCEPT ![p] = "error"]
            /\ UNCHANGED status
  /\ EndTxn(p)
  /\ UNCHANGED <<attempts, lease, dlq, lapsed, held, faults>>

-----------------------------------------------------------------------------
(* queue_lease: FOR UPDATE SKIP LOCKED takes up to Batch pending rows that *)
(* nobody holds; the lease rows are inserted next, which waits for an      *)
(* uncommitted delete of the same row and fails on UNIQUE (job_id).        *)
(* priority and visible_at only order the candidates: any choice is taken. *)

Leasable(w) == {j \in Jobs : /\ status[j] = "pending"
                             /\ JobFree(w, j)
                             /\ attempts[j] < MaxAttempts}

LeaseLock(w) ==
  /\ pc[w] = "idle" /\ held[w] = Nothing
  /\ \E B \in SUBSET Leasable(w) :
       /\ B # {}
       /\ Cardinality(B) <= Batch
       /\ wr' = [wr EXCEPT ![w] = [j \in Jobs |-> IF j \in B THEN "leased"
                                                             ELSE "none"]]
  /\ pc' = [pc EXCEPT ![w] = "lease_insert"]
  /\ UNCHANGED <<committed, lapsed, held, arg, seen, del, enq, faults>>

LeaseInsert(w) ==
  LET B == {j \in Jobs : wr[w][j] = "leased"}
  IN  /\ pc[w] = "lease_insert"
      /\ \A j \in B : LeaseFree(w, j)
      /\ IF \A j \in B : lease[j] = 0
           THEN /\ status' = [j \in Jobs |-> IF j \in B THEN "leased"
                                                        ELSE status[j]]
                /\ attempts' = [j \in Jobs |-> IF j \in B THEN attempts[j] + 1
                                                          ELSE attempts[j]]
                /\ lease' = [j \in Jobs |-> IF j \in B THEN attempts[j] + 1
                                                       ELSE lease[j]]
                /\ held' = [held EXCEPT ![w] =
                     [j \in Jobs |-> IF j \in B THEN attempts[j] + 1 ELSE 0]]
           ELSE UNCHANGED <<status, attempts, lease, held>>
      /\ EndTxn(w)
      /\ UNCHANGED <<dlq, lapsed, enq, faults>>

-----------------------------------------------------------------------------
(* queue_ack: delete the lease row, then complete the job if it is leased. *)

AckDelete(w, j) ==
  /\ pc[w] = "idle" /\ held[w][j] # 0
  /\ LeaseFree(w, j)
  /\ del' = [del EXCEPT ![w] = IF lease[j] # 0 THEN {j} ELSE {}]
  /\ arg' = [arg EXCEPT ![w] = j]
  /\ pc' = [pc EXCEPT ![w] = "ack_update"]
  /\ UNCHANGED <<committed, lapsed, held, seen, wr, enq, faults>>

AckUpdate(w) ==
  LET j == arg[w]
  IN  /\ pc[w] = "ack_update"
      /\ \/ /\ status[j] = "leased" /\ JobFree(w, j)
            /\ wr' = [wr EXCEPT ![w][j] = "completed"]
         \/ /\ status[j] # "leased"
            /\ UNCHANGED wr
      /\ pc' = [pc EXCEPT ![w] = "ack_commit"]
      /\ UNCHANGED <<committed, lapsed, held, arg, seen, del, enq, faults>>

AckCommit(w) ==
  /\ pc[w] = "ack_commit"
  /\ held' = [held EXCEPT ![w][arg[w]] = 0]
  /\ Publish(w)
  /\ UNCHANGED <<attempts, dlq, lapsed, enq, faults>>

-----------------------------------------------------------------------------
(* queue_nack: an unlocked read of the job decides everything; the lease   *)
(* row is deleted and the job row is then updated without looking at its   *)
(* status again.  When the read finds the job not leased the function      *)
(* raises, and the worker drops the rest of its batch.                     *)

NackRead(w, j) ==
  /\ pc[w] = "idle" /\ held[w][j] # 0
  /\ IF status[j] = "leased"
       THEN /\ pc' = [pc EXCEPT ![w] = "nack_delete"]
            /\ arg' = [arg EXCEPT ![w] = j]
            /\ seen' = [seen EXCEPT ![w][j] = attempts[j]]
            /\ UNCHANGED held
       ELSE /\ held' = [held EXCEPT ![w] = Nothing]
            /\ UNCHANGED <<pc, arg, seen>>
  /\ UNCHANGED <<committed, lapsed, del, wr, enq, faults>>

NackDelete(w) ==
  LET j == arg[w]
  IN  /\ pc[w] = "nack_delete"
      /\ LeaseFree(w, j)
      /\ del' = [del EXCEPT ![w] = IF lease[j] # 0 THEN {j} ELSE {}]
      /\ pc' = [pc EXCEPT ![w] = "nack_update"]
      /\ UNCHANGED <<committed, lapsed, held, arg, seen, wr, enq, faults>>

(* Fault: one attempt counted twice.                                       *)
NackUpdate_CountedTwice(w) ==
  LET j == arg[w]
  IN  /\ pc[w] = "nack_update" /\ JobFree(w, j)
      /\ wr' = [wr EXCEPT ![w][j] = IF seen[w][j] + 1 >= MaxRetries
                                      THEN "dead" ELSE "pending"]
      /\ pc' = [pc EXCEPT ![w] = "nack_commit"]
      /\ UNCHANGED <<committed, lapsed, held, arg, seen, del, enq, faults>>

NackUpdate(w) ==
  LET j == arg[w]
  IN  /\ pc[w] = "nack_update"
      /\ JobFree(w, j)
      /\ wr' = [wr EXCEPT ![w][j] = IF seen[w][j] >= MaxRetries THEN "dead"
                                                                ELSE "pending"]
      /\ pc' = [pc EXCEPT ![w] = "nack_commit"]
      /\ UNCHANGED <<committed, lapsed, held, arg, seen, del, enq, faults>>

NackCommit(w) ==
  LET j == arg[w]
  IN  /\ pc[w] = "nack_commit"
      /\ dlq' = [dlq EXCEPT ![j] = IF wr[w][j] = "dead" THEN @ + 1 ELSE @]
      /\ held' = [held EXCEPT ![w][j] = 0]
      /\ Publish(w)
      /\ UNCHANGED <<attempts, lapsed, enq, faults>>

-----------------------------------------------------------------------------
(* queue_reap_expired_leases: one statement over the expired lease rows of *)
(* its snapshot.  A row another transaction deletes first is skipped.      *)

ReapFrom(r, expired) ==
  /\ pc[r] = "idle"
  /\ expired # {}
  /\ seen' = [seen EXCEPT ![r] = [j \in Jobs |-> IF j \in expired
                                                   THEN lease[j] ELSE 0]]
  /\ pc' = [pc EXCEPT ![r] = "reap"]
  /\ UNCHANGED <<committed, lapsed, held, arg, del, wr, enq, faults>>

(* Faults: expires_at is not looked at; its comparison is reversed.        *)
ReapStart_AnyLease(r) == ReapFrom(r, {j \in Jobs : lease[j] # 0})
ReapStart_Reversed(r) ==
  ReapFrom(r, {j \in Jobs : lease[j] # 0 /\ <<j, lease[j]>> \notin lapsed})

ReapStart(r) ==
  ReapFrom(r, {j \in Jobs : lease[j] # 0 /\ <<j, lease[j]>> \in lapsed})

ReapDelete(r, j) ==
  /\ pc[r] = "reap" /\ seen[r][j] # 0 /\ j \notin del[r]
  /\ LeaseFree(r, j)
  /\ \/ /\ lease[j] = seen[r][j]
        /\ del' = [del EXCEPT ![r] = @ \cup {j}]
        /\ UNCHANGED seen
     \/ /\ lease[j] # seen[r][j]
        /\ seen' = [seen EXCEPT ![r][j] = 0]
        /\ UNCHANGED del
  /\ UNCHANGED <<committed, lapsed, held, pc, arg, wr, enq, faults>>

(* Fault: the job is not returned to pending.                              *)
ReapRevive_Forgotten(r, j) ==
  /\ pc[r] = "reap" /\ seen[r][j] # 0 /\ j \in del[r]
  /\ seen' = [seen EXCEPT ![r][j] = 0]
  /\ UNCHANGED <<committed, lapsed, held, pc, arg, del, wr, enq, faults>>

ReapRevive(r, j) ==
  /\ pc[r] = "reap" /\ seen[r][j] # 0 /\ j \in del[r]
  /\ \/ /\ status[j] = "leased" /\ JobFree(r, j)
        /\ wr' = [wr EXCEPT ![r][j] = "pending"]
     \/ /\ status[j] # "leased"
        /\ UNCHANGED wr
  /\ seen' = [seen EXCEPT ![r][j] = 0]
  /\ UNCHANGED <<committed, lapsed, held, pc, arg, del, enq, faults>>

ReapCommit(r) ==
  /\ pc[r] = "reap" /\ seen[r] = Nothing
  /\ Publish(r)
  /\ UNCHANGED <<attempts, dlq, lapsed, held, enq, faults>>

-----------------------------------------------------------------------------
(* The clock and the faults.                                               *)

(* A lease's expires_at passes.  Only leases somebody still refers to      *)
(* matter.  A timely worker is done with a lease before that happens.      *)
Lapse(j, n) ==
  /\ <<j, n>> \notin lapsed
  /\ lease[j] = n \/ \E w \in Workers : held[w][j] = n
  /\ Timely => \A w \in Workers : held[w][j] # n
  /\ lapsed' = lapsed \cup {<<j, n>>}
  /\ UNCHANGED <<committed, held, txn, enq, faults>>

(* What a worker may do when a call raises: it keeps its list and tries to *)
(* settle the job again, or, when a nack failed, gives up the batch.       *)
HandleError(s) ==
  \/ UNCHANGED held
  \/ /\ s \in Workers
     /\ pc[s] \in {"nack_delete", "nack_update", "nack_commit"}
     /\ held' = [held EXCEPT ![s] = Nothing]

(* Lost connection or statement timeout: the transaction is rolled back and *)
(* its session goes on.                                                    *)
Rollback(s) ==
  /\ pc[s] # "idle" /\ faults < MaxFaults
  /\ EndTxn(s)
  /\ HandleError(s)
  /\ faults' = faults + 1
  /\ UNCHANGED <<committed, lapsed, enq>>

(* The server's deadlock detector ends one of two transactions that wait   *)
(* for each other: a lease waiting to insert a lease row, and the deleter  *)
(* of that row waiting for the job row the lease has locked.               *)
WaitsForLeaseRow(s, t) ==
  pc[s] = "lease_insert" /\ \E j \in del[t] : wr[s][j] = "leased"
WaitsForJobRow(s, t) ==
  pc[s] = "nack_update" /\ wr[t][arg[s]] # "none"
DeadlockAbort(s) ==
  /\ \E t \in Sessions \ {s} :
       \/ WaitsForLeaseRow(s, t) /\ WaitsForJobRow(t, s)
       \/ WaitsForJobRow(s, t) /\ WaitsForLeaseRow(t, s)
  /\ EndTxn(s)
  /\ HandleError(s)
  /\ UNCHANGED <<committed, lapsed, enq, faults>>

(* The worker process dies; the server rolls its transaction back.         *)
Crash(w) ==
  /\ pc[w] # "idle" \/ held[w] # Nothing
  /\ faults < MaxFaults
  /\ EndTxn(w)
  /\ held' = [held EXCEPT ![w] = Nothing]
  /\ faults' = faults + 1
  /\ UNCHANGED <<committed, lapsed, enq>>

-----------------------------------------------------------------------------
queue_enqueue(p) == (\E j \in Jobs : EnqueueLookup(p, j)) \/ EnqueueInsert(p)
queue_lease(w)   == LeaseLock(w) \/ LeaseInsert(w)
queue_ack(w)     == (\E j \in Jobs : AckDelete(w, j)) \/ AckUpdate(w)
                       \/ AckCommit(w)
queue_nack(w)    == (\E j \in Jobs : NackRead(w, j)) \/ NackDelete(w)
                       \/ NackUpdate(w) \/ NackCommit(w)
queue_reap_expired_leases(r) ==
  \/ ReapStart(r)
  \/ \E j \in Jobs : ReapDelete(r, j) \/ ReapRevive(r, j)
  \/ ReapCommit(r)

Next ==
  \/ \E p \in Producers : queue_enqueue(p)
  \/ \E w \in Workers : queue_lease(w) \/ queue_ack(w) \/ queue_nack(w)
  \/ \E r \in Reapers : queue_reap_expired_leases(r)
  \/ \E j \in Jobs : \E n \in 1..MaxAttempts : Lapse(j, n)
  \/ \E s \in Sessions : Rollback(s) \/ DeadlockAbort(s)
  \/ \E w \in Workers : Crash(w)

Spec == Init /\ [][Next]_vars

(* Sessions keep executing the statements of a function they have begun,   *)
(* the reaper runs on a schedule, time passes, and deadlocks are detected. *)
(* Of the clients it is assumed that they keep polling and settle what     *)
(* they leased.                                                            *)
Fairness ==
  /\ \A p \in Producers : WF_vars(EnqueueInsert(p))
  /\ \A w \in Workers : /\ WF_vars(queue_lease(w))
                        /\ WF_vars(queue_ack(w) \/ queue_nack(w))
  /\ \A r \in Reapers : WF_vars(queue_reap_expired_leases(r))
  /\ \A j \in Jobs : \A n \in 1..MaxAttempts : WF_vars(Lapse(j, n))
  /\ WF_vars(\E s \in Sessions : DeadlockAbort(s))

FairSpec == Spec /\ Fairness

-----------------------------------------------------------------------------
(* What holds in every schedule, workers that outlive their window included. *)

(* A leased job always has its lease row, and the row is the one of the    *)
(* job's latest lease: queue_reap_expired_leases finds jobs through lease  *)
(* rows only, so a leased job without one could never be recovered.        *)
LeasedHasLease ==
  \A j \in Jobs : status[j] = "leased" => lease[j] # 0 /\ lease[j] = attempts[j]

(* A job is dead only after it was leased at least max_retries times, even *)
(* when queue_nack decides on an attempts value other sessions have moved  *)
(* past since it read it.  At least: the comparison in the code is >=.     *)
DeadIsExhausted ==
  \A j \in Jobs : status[j] = "dead" => attempts[j] >= MaxRetries

(* What the header of the queue says: "queue_nack auto-promotes to         *)
(* status='dead' once attempts > queue.max_retries."  The code does so one *)
(* lease earlier.                                                          *)
DeadIsOverLimit ==
  \A j \in Jobs : status[j] = "dead" => attempts[j] > MaxRetries

(* No job stays leased forever: the worker settles it, or the lease lapses *)
(* and queue_reap_expired_leases returns it to pending, whatever of these  *)
(* overlap; provided every client commits its calls.                       *)
LeaseIsReleased ==
  \A j \in Jobs : status[j] = "leased" ~> status[j] # "leased"

-----------------------------------------------------------------------------
(* What holds when every worker finishes inside its visibility window.     *)

(* Two workers never work on the same job.                                 *)
SoleWorker ==
  \A j \in Jobs : \A v, w \in Workers :
    held[v][j] # 0 /\ held[w][j] # 0 => v = w

(* With finitely many faults, and clients that keep polling and commit     *)
(* their calls, every job that was enqueued is settled: no interleaving of *)
(* queue_lease, queue_ack, queue_nack and the reaper strands one.          *)
EverySettled ==
  \A j \in Jobs : status[j] = "pending" ~> status[j] \in {"completed", "dead"}

=============================================================================
