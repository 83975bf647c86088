---------------------------- MODULE QueueProofs -----------------------------
(***************************************************************************)
(* Proofs about the durable queue for every set of jobs, workers, reapers  *)
(* and producers and every bound, in three parts: typing and the facts     *)
(* about sessions that the rest uses; a leased job has its lease row; a    *)
(* job dies only after its retries.                                        *)
(***************************************************************************)
EXTENDS Queue, TLAPS

(* A function with a job argument works on a job of the queue.             *)
ArgIsJob ==
  \A s \in Sessions :
    pc[s] \in {"enq_insert", "ack_update", "ack_commit", "nack_delete",
               "nack_update", "nack_commit"} => arg[s] \in Jobs

(* The types of the private variables of the sessions.                     *)
TxnType ==
  /\ pc \in [Sessions -> PCs]
  /\ arg \in [Sessions -> Jobs \cup {NoJob}]
  /\ seen \in [Sessions -> [Jobs -> Nat]]
  /\ del \in [Sessions -> SUBSET Jobs]
  /\ wr \in [Sessions -> [Jobs -> Statuses \cup {"none"}]]

LEMMA TxnTypeHolds == TypeOK => TxnType
  BY DEF TypeOK, TxnType

-----------------------------------------------------------------------------
LEMMA InitType == Init => TypeOK
  BY DEF Init, TypeOK, Nothing, NoWrites, Statuses, PCs, Sessions

(* The end of a transaction restores the session's private variables.      *)
LEMMA EndTxnType ==
  ASSUME TypeOK, NEW s \in Sessions, EndTxn(s)
  PROVE  /\ pc' \in [Sessions -> PCs]
         /\ arg' \in [Sessions -> Jobs \cup {NoJob}]
         /\ seen' \in [Sessions -> [Jobs -> Nat]]
         /\ del' \in [Sessions -> SUBSET Jobs]
         /\ wr' \in [Sessions -> [Jobs -> Statuses \cup {"none"}]]
  BY DEF TypeOK, EndTxn, Nothing, NoWrites, PCs

LEMMA HandleErrorType ==
  ASSUME TypeOK, NEW s \in Sessions, HandleError(s)
  PROVE  held' \in [Workers -> [Jobs -> Nat]]
  <1>1. Nothing \in [Jobs -> Nat]
    BY DEF Nothing
  <1> QED
    BY <1>1, Zenon DEF TypeOK, HandleError

LEMMA PublishType ==
  ASSUME TypeOK, NEW s \in Sessions, Publish(s)
  PROVE  /\ status' \in [Jobs -> Statuses]
         /\ lease' \in [Jobs -> Nat]
         /\ EndTxn(s)
  <1>1. \A j \in Jobs : wr[s][j] # "none" => wr[s][j] \in Statuses
    BY DEF TypeOK
  <1> QED
    BY <1>1 DEF TypeOK, Publish

LEMMA NextType == TypeOK /\ ArgIsJob /\ [Next]_vars => TypeOK'
  <1> SUFFICES ASSUME TypeOK, ArgIsJob, [Next]_vars
               PROVE  TypeOK'
    OBVIOUS
  <1> USE DEF TypeOK, committed
  <1>1. ASSUME NEW p \in Producers, NEW j \in Jobs, EnqueueLookup(p, j)
        PROVE  TypeOK'
    BY <1>1, Zenon DEF EnqueueLookup, PCs, Sessions
  <1>2. ASSUME NEW p \in Producers, EnqueueInsert(p)
        PROVE  TypeOK'
    <2>1. p \in Sessions /\ EndTxn(p)
      BY <1>2 DEF EnqueueInsert, Sessions
    <2> QED
      BY <1>2, <2>1, EndTxnType, Zenon DEF EnqueueInsert, Statuses
  <1>3. ASSUME NEW w \in Workers, LeaseLock(w)
        PROVE  TypeOK'
    BY <1>3 DEF LeaseLock, PCs, Statuses, Sessions
  <1>4. ASSUME NEW w \in Workers, LeaseInsert(w)
        PROVE  TypeOK'
    <2>1. w \in Sessions /\ EndTxn(w)
      BY <1>4 DEF LeaseInsert, Sessions
    <2>2. \A j \in Jobs : /\ attempts[j] \in Nat /\ attempts[j] + 1 \in Nat
                        /\ lease[j] \in Nat
      OBVIOUS
    <2>3. /\ status' \in [Jobs -> Statuses]
          /\ attempts' \in [Jobs -> Nat]
          /\ lease' \in [Jobs -> Nat]
      <3> DEFINE B == {j \in Jobs : wr[w][j] = "leased"}
      <3>1. CASE UNCHANGED <<status, attempts, lease>>
        BY <3>1
      <3>2. CASE /\ status' = [j \in Jobs |-> IF j \in B THEN "leased" ELSE status[j]]
                 /\ attempts' = [j \in Jobs |-> IF j \in B THEN attempts[j] + 1
                                                           ELSE attempts[j]]
                 /\ lease' = [j \in Jobs |-> IF j \in B THEN attempts[j] + 1
                                                        ELSE lease[j]]
        <4> HIDE DEF B
        <4>1. status' \in [Jobs -> Statuses]
          BY <3>2 DEF Statuses
        <4>2. attempts' \in [Jobs -> Nat]
          BY <2>2, <3>2
        <4>3. lease' \in [Jobs -> Nat]
          BY <2>2, <3>2
        <4> QED
          BY <4>1, <4>2, <4>3
      <3> QED
        BY <1>4, <3>1, <3>2, Zenon DEF LeaseInsert
    <2> DEFINE grant ==
          [j \in Jobs |-> IF j \in {i \in Jobs : wr[w][i] = "leased"}
                            THEN attempts[j] + 1 ELSE 0]
    <2>4. grant \in [Jobs -> Nat]
      BY <2>2
    <2>5. held' = [held EXCEPT ![w] = grant] \/ held' = held
      BY <1>4 DEF LeaseInsert
    <2> HIDE DEF grant
    <2>6. held' \in [Workers -> [Jobs -> Nat]]
      BY <2>4, <2>5, Zenon
    <2> QED
      BY <1>4, <2>1, <2>3, <2>6, EndTxnType DEF LeaseInsert
  <1>5. ASSUME NEW w \in Workers, NEW j \in Jobs, AckDelete(w, j)
        PROVE  TypeOK'
    BY <1>5 DEF AckDelete, PCs, Sessions
  <1>6. ASSUME NEW w \in Workers, AckUpdate(w)
        PROVE  TypeOK'
    <2>1. w \in Sessions
      BY DEF Sessions
    <2>2. [wr[w] EXCEPT ![arg[w]] = "completed"]
            \in [Jobs -> Statuses \cup {"none"}]
      BY <2>1, Zenon DEF Statuses
    <2>3. wr' \in [Sessions -> [Jobs -> Statuses \cup {"none"}]]
      BY <1>6, <2>1, <2>2, Zenon DEF AckUpdate
    <2> QED
      BY <1>6, <2>1, <2>3, Zenon DEF AckUpdate, PCs
  <1>7. ASSUME NEW w \in Workers, AckCommit(w)
        PROVE  TypeOK'
    <2>1. w \in Sessions /\ Publish(w)
      BY <1>7 DEF AckCommit, Sessions
    <2>2. held' \in [Workers -> [Jobs -> Nat]]
      BY <1>7, Zenon DEF AckCommit
    <2> QED
      BY <1>7, <2>1, <2>2, PublishType, EndTxnType DEF AckCommit
  <1>8. ASSUME NEW w \in Workers, NEW j \in Jobs, NackRead(w, j)
        PROVE  TypeOK'
    <2>1. w \in Sessions /\ attempts[j] \in Nat
      BY DEF Sessions
    <2>2. [seen[w] EXCEPT ![j] = attempts[j]] \in [Jobs -> Nat]
      BY <2>1
    <2>3. seen' \in [Sessions -> [Jobs -> Nat]]
      BY <1>8, <2>1, <2>2, Zenon DEF NackRead
    <2>4. held' \in [Workers -> [Jobs -> Nat]]
      <3>1. Nothing \in [Jobs -> Nat]
        BY DEF Nothing
      <3> QED
        BY <1>8, <3>1, Zenon DEF NackRead
    <2> QED
      BY <1>8, <2>1, <2>3, <2>4, Zenon DEF NackRead, PCs
  <1>9. ASSUME NEW w \in Workers, NackDelete(w)
        PROVE  TypeOK'
    <2>1. w \in Sessions /\ arg[w] \in Jobs
      BY <1>9 DEF NackDelete, ArgIsJob, Sessions
    <2> QED
      BY <1>9, <2>1 DEF NackDelete, PCs
  <1>10. ASSUME NEW w \in Workers, NackUpdate(w)
         PROVE  TypeOK'
    <2>1. wr' \in [Sessions -> [Jobs -> Statuses \cup {"none"}]]
      BY <1>10, Zenon DEF NackUpdate, Statuses, Sessions
    <2> QED
      BY <1>10, <2>1 DEF NackUpdate, PCs, Sessions
  <1>11. ASSUME NEW w \in Workers, NackCommit(w)
         PROVE  TypeOK'
    <2>1. w \in Sessions /\ Publish(w)
      BY <1>11 DEF NackCommit, Sessions
    <2>2. held' \in [Workers -> [Jobs -> Nat]]
      BY <1>11, Zenon DEF NackCommit
    <2>3. \A j \in Jobs : dlq[j] + 1 \in Nat
      OBVIOUS
    <2>4. dlq' \in [Jobs -> Nat]
      BY <1>11, <2>3, Zenon DEF NackCommit
    <2> QED
      BY <1>11, <2>1, <2>2, <2>4, PublishType, EndTxnType DEF NackCommit
  <1>12. ASSUME NEW r \in Reapers, ReapStart(r)
         PROVE  TypeOK'
    BY <1>12 DEF ReapStart, ReapFrom, PCs, Sessions
  <1>13. ASSUME NEW r \in Reapers, NEW j \in Jobs, ReapDelete(r, j)
         PROVE  TypeOK'
    <2>1. r \in Sessions
      BY DEF Sessions
    <2>2. [seen[r] EXCEPT ![j] = 0] \in [Jobs -> Nat]
      BY <2>1
    <2>3. seen' \in [Sessions -> [Jobs -> Nat]]
      BY <1>13, <2>1, <2>2, Zenon DEF ReapDelete
    <2>4. del' \in [Sessions -> SUBSET Jobs]
      BY <1>13, <2>1 DEF ReapDelete
    <2>5. UNCHANGED <<status, attempts, lease, dlq, lapsed, held, pc, arg, wr, enq,
                      faults>>
      BY <1>13 DEF ReapDelete
    <2> QED
      BY <2>3, <2>4, <2>5, Zenon
  <1>14. ASSUME NEW r \in Reapers, NEW j \in Jobs, ReapRevive(r, j)
         PROVE  TypeOK'
    <2>1. r \in Sessions
      BY DEF Sessions
    <2>2. seen' \in [Sessions -> [Jobs -> Nat]]
      BY <1>14, <2>1 DEF ReapRevive
    <2>3. [wr[r] EXCEPT ![j] = "pending"] \in [Jobs -> Statuses \cup {"none"}]
      BY <2>1 DEF Statuses
    <2>4. wr' \in [Sessions -> [Jobs -> Statuses \cup {"none"}]]
      BY <1>14, <2>1, <2>3, Zenon DEF ReapRevive
    <2> QED
      BY <1>14, <2>2, <2>4 DEF ReapRevive
  <1>15. ASSUME NEW r \in Reapers, ReapCommit(r)
         PROVE  TypeOK'
    <2>1. r \in Sessions /\ Publish(r)
      BY <1>15 DEF ReapCommit, Sessions
    <2> QED
      BY <1>15, <2>1, PublishType, EndTxnType DEF ReapCommit
  <1>16. ASSUME NEW j \in Jobs, NEW n \in 1..MaxAttempts, Lapse(j, n)
         PROVE  TypeOK'
    BY <1>16, QueueAssumption DEF Lapse, txn
  <1>17. ASSUME NEW s \in Sessions, Rollback(s)
         PROVE  TypeOK'
    <2>1. held' \in [Workers -> [Jobs -> Nat]]
      BY <1>17, HandleErrorType DEF Rollback
    <2> QED
      BY <1>17, <2>1, EndTxnType DEF Rollback
  <1>18. ASSUME NEW s \in Sessions, DeadlockAbort(s)
         PROVE  TypeOK'
    <2>1. held' \in [Workers -> [Jobs -> Nat]]
      BY <1>18, HandleErrorType DEF DeadlockAbort
    <2> QED
      BY <1>18, <2>1, EndTxnType DEF DeadlockAbort
  <1>19. ASSUME NEW w \in Workers, Crash(w)
         PROVE  TypeOK'
    <2>1. w \in Sessions /\ EndTxn(w)
      BY <1>19 DEF Crash, Sessions
    <2> QED
      BY <1>19, <2>1, EndTxnType DEF Crash, Nothing
  <1>20. CASE UNCHANGED vars
    BY <1>20 DEF vars
  <1> QED
    BY <1>1, <1>2, <1>3, <1>4, <1>5, <1>6, <1>7, <1>8, <1>9, <1>10, <1>11,
       <1>12, <1>13, <1>14, <1>15, <1>16, <1>17, <1>18, <1>19, <1>20,
       Zenon
    DEF Next, queue_enqueue, queue_lease, queue_ack, queue_nack,
        queue_reap_expired_leases

(* What a finished transaction leaves of its session, and of the others.   *)
LEMMA EndTxnFacts ==
  ASSUME TypeOK, NEW s \in Sessions, EndTxn(s)
  PROVE  /\ pc'[s] = "idle" /\ del'[s] = {}
         /\ \A j \in Jobs : wr'[s][j] = "none"
         /\ \A t \in Sessions \ {s} :
              /\ pc'[t] = pc[t] /\ arg'[t] = arg[t] /\ seen'[t] = seen[t]
              /\ del'[t] = del[t] /\ wr'[t] = wr[t]
  BY DEF TypeOK, EndTxn, NoWrites

LEMMA NextArg == TypeOK /\ ArgIsJob /\ [Next]_vars => ArgIsJob'
  <1> SUFFICES ASSUME TypeOK, ArgIsJob, [Next]_vars
               PROVE  ArgIsJob'
    OBVIOUS
  <1>1. ASSUME NEW s \in Sessions, EndTxn(s)
        PROVE  ArgIsJob'
    BY <1>1, EndTxnFacts DEF ArgIsJob
  <1>2. ASSUME NEW p \in Producers, NEW j \in Jobs, EnqueueLookup(p, j)
        PROVE  ArgIsJob'
    BY <1>2, Zenon DEF EnqueueLookup, ArgIsJob, TypeOK, Sessions
  <1>3. ASSUME NEW w \in Workers, LeaseLock(w)
        PROVE  ArgIsJob'
    BY <1>3 DEF LeaseLock, ArgIsJob, TypeOK, Sessions
  <1>4. ASSUME NEW w \in Workers, NEW j \in Jobs, AckDelete(w, j)
        PROVE  ArgIsJob'
    BY <1>4 DEF AckDelete, ArgIsJob, TypeOK, Sessions
  <1>5. ASSUME NEW w \in Workers, AckUpdate(w)
        PROVE  ArgIsJob'
    BY <1>5 DEF AckUpdate, ArgIsJob, TypeOK, Sessions
  <1>6. ASSUME NEW w \in Workers, NEW j \in Jobs, NackRead(w, j)
        PROVE  ArgIsJob'
    BY <1>6 DEF NackRead, ArgIsJob, TypeOK, Sessions
  <1>7. ASSUME NEW w \in Workers, NackDelete(w) \/ NackUpdate(w)
        PROVE  ArgIsJob'
    BY <1>7 DEF NackDelete, NackUpdate, ArgIsJob, TypeOK, Sessions
  <1>8. ASSUME NEW r \in Reapers, ReapStart(r)
        PROVE  ArgIsJob'
    BY <1>8 DEF ReapStart, ReapFrom, ArgIsJob, TypeOK, Sessions
  <1>9. ASSUME NEW r \in Reapers, NEW j \in Jobs,
               ReapDelete(r, j) \/ ReapRevive(r, j)
        PROVE  ArgIsJob'
    BY <1>9 DEF ReapDelete, ReapRevive, ArgIsJob
  <1>10. CASE UNCHANGED <<pc, arg>>
    BY <1>10 DEF ArgIsJob
  <1>11. ASSUME NEW p \in Producers, EnqueueInsert(p)
         PROVE  ArgIsJob'
    BY <1>1, <1>11 DEF EnqueueInsert, Sessions
  <1>12. ASSUME NEW w \in Workers,
                LeaseInsert(w) \/ AckCommit(w) \/ NackCommit(w) \/ Crash(w)
         PROVE  ArgIsJob'
    BY <1>1, <1>12 DEF LeaseInsert, AckCommit, NackCommit, Crash, Publish,
                       Sessions
  <1>13. ASSUME NEW r \in Reapers, ReapCommit(r)
         PROVE  ArgIsJob'
    BY <1>1, <1>13 DEF ReapCommit, Publish, Sessions
  <1>14. ASSUME NEW s \in Sessions, Rollback(s) \/ DeadlockAbort(s)
         PROVE  ArgIsJob'
    BY <1>1, <1>14 DEF Rollback, DeadlockAbort
  <1>15. ASSUME NEW j \in Jobs, NEW n \in 1..MaxAttempts, Lapse(j, n)
         PROVE  ArgIsJob'
    BY <1>10, <1>15 DEF Lapse, txn
  <1>16. CASE UNCHANGED vars
    BY <1>10, <1>16 DEF vars
  <1> QED
    BY <1>2, <1>3, <1>4, <1>5, <1>6, <1>7, <1>8, <1>9, <1>11, <1>12, <1>13,
       <1>14, <1>15, <1>16
    DEF Next, queue_enqueue, queue_lease, queue_ack, queue_nack,
        queue_reap_expired_leases

(* Every reachable state of the queue tables, the worker loops and the     *)
(* open transactions has the types TypeOK declares.                        *)
THEOREM TypeCorrect == Spec => []TypeOK
  <1>1. Init => TypeOK /\ ArgIsJob
    BY InitType DEF Init, ArgIsJob
  <1> QED
    BY <1>1, NextType, NextArg, PTL DEF Spec

-----------------------------------------------------------------------------
(***************************************************************************)
(* A leased job always has the lease row that the reaper needs to recover  *)
(* it, for every set of sessions and jobs and every bound.                 *)
(***************************************************************************)

(* Two open transactions never hold the same lease row or the same job row. *)
RowsExclusive ==
  \A s, t \in Sessions : s # t =>
    /\ del[s] \cap del[t] = {}
    /\ \A j \in Jobs : wr[s][j] = "none" \/ wr[t][j] = "none"

(* What the open transaction of a session has done so far: which lease     *)
(* rows it may have deleted (they still exist for everybody else), that    *)
(* only queue_lease writes "leased", and that a job whose update after the *)
(* delete was skipped is not leased and stays so until the commit.         *)
Skipped(s, j) ==
  /\ pc[s] = "ack_commit" => status[j] # "leased"
  /\ pc[s] = "reap" => seen[s][j] # 0 \/ status[j] # "leased"
SessionInv(s) ==
  /\ pc[s] \in {"idle", "enq_insert", "lease_insert", "nack_delete"}
       => del[s] = {}
  /\ pc[s] \in {"ack_update", "ack_commit", "nack_update", "nack_commit"}
       => del[s] \subseteq {arg[s]}
  /\ pc[s] = "nack_commit" => wr[s][arg[s]] # "none"
  /\ \A j \in Jobs : wr[s][j] = "leased" => pc[s] = "lease_insert"
  /\ \A j \in del[s] : lease[j] # 0
  /\ \A j \in del[s] : wr[s][j] = "none" => Skipped(s, j)

(* The lease row is the one of the latest lease.                           *)
LeaseIsLatest == \A j \in Jobs : lease[j] # 0 => lease[j] = attempts[j]

LeaseInv ==
  /\ TypeOK /\ ArgIsJob
  /\ RowsExclusive
  /\ \A s \in Sessions : SessionInv(s)
  /\ LeaseIsLatest /\ LeasedHasLease

-----------------------------------------------------------------------------
(* The lease invariant.  Each lemma takes the actions that share a shape.  *)

(* A rolled-back transaction leaves the committed rows alone.              *)
LEMMA AbortKeepsLeaseInv ==
  ASSUME LeaseInv, TypeOK', ArgIsJob', NEW s \in Sessions, EndTxn(s),
         UNCHANGED <<status, attempts, lease>>
  PROVE  LeaseInv'
  <1> USE EndTxnFacts DEF LeaseInv
  <1>1. RowsExclusive'
    BY DEF RowsExclusive
  <1>2. \A t \in Sessions : SessionInv(t)'
    BY DEF SessionInv, Skipped
  <1>3. LeaseIsLatest' /\ LeasedHasLease'
    BY DEF LeaseIsLatest, LeasedHasLease
  <1> QED
    BY <1>1, <1>2, <1>3

(* A commit of queue_ack, queue_nack or the reaper.  If it deletes the     *)
(* lease row of a job then it also moves the job out of "leased", or has   *)
(* found it in another status.                                             *)
LEMMA PublishKeepsLeaseInv ==
  ASSUME LeaseInv, TypeOK', ArgIsJob',
         NEW s \in Sessions, Publish(s), UNCHANGED attempts,
         \/ pc[s] \in {"ack_commit", "nack_commit"}
         \/ pc[s] = "reap" /\ seen[s] = Nothing
  PROVE  LeaseInv'
  <1>0. EndTxn(s)
    BY DEF Publish
  <1> USE EndTxnFacts, <1>0 DEF LeaseInv
  <1>1. RowsExclusive'
    BY DEF RowsExclusive
  <1>2. \A j \in Jobs : wr[s][j] # "leased"
    BY DEF SessionInv, Skipped
  <1>3. ASSUME NEW t \in Sessions, t # s
        PROVE  SessionInv(t)'
    <2>1. \A j \in del[t] : j \in Jobs /\ j \notin del[s]
      BY <1>3 DEF RowsExclusive, TypeOK
    <2>2. \A j \in del'[t] : lease'[j] # 0
      BY <1>3, <2>1 DEF SessionInv, Skipped, Publish
    <2>3. ASSUME NEW j \in del'[t], wr'[t][j] = "none"
          PROVE  Skipped(t, j)'
      <3>1. j \in Jobs /\ Skipped(t, j)
        BY <1>3, <2>1, <2>3 DEF SessionInv, Skipped
      <3>2. status'[j] = "leased" => status[j] = "leased"
        BY <3>1, <1>2 DEF Publish
      <3> QED
        BY <1>3, <3>1, <3>2 DEF Skipped
    <2> QED
      BY <1>3, <2>2, <2>3 DEF SessionInv, Skipped
  <1>4. SessionInv(s)'
    BY DEF SessionInv, Skipped
  <1>5. LeaseIsLatest'
    BY DEF LeaseIsLatest, Publish
  <1>6. LeasedHasLease'
    <2> SUFFICES ASSUME NEW j \in Jobs, status'[j] = "leased"
                 PROVE  lease'[j] # 0
      BY <1>5 DEF LeasedHasLease, LeaseIsLatest
    <2>1. wr[s][j] = "none" /\ status[j] = "leased"
      BY <1>2 DEF Publish, TypeOK
    <2>2. j \notin del[s]
      <3>1. CASE pc[s] = "ack_commit"
        BY <2>1, <3>1 DEF SessionInv, Skipped
      <3>2. CASE pc[s] = "nack_commit"
        BY <2>1, <3>2 DEF SessionInv, Skipped
      <3>3. CASE pc[s] = "reap" /\ seen[s] = Nothing
        <4>1. seen[s][j] = 0
          BY <3>3 DEF Nothing
        <4> QED
          BY <2>1, <3>3, <4>1 DEF SessionInv, Skipped
      <3> QED
        BY <3>1, <3>2, <3>3
    <2> QED
      BY <2>1, <2>2 DEF Publish, LeasedHasLease, TypeOK
  <1> QED
    BY <1>1, <1>3, <1>4, <1>5, <1>6

(* A statement inside a transaction: it changes the private state of its   *)
(* own session only, and takes rows that nobody else holds.                *)
StatementOf(s) ==
  /\ UNCHANGED <<status, attempts, lease>>
  /\ \A t \in Sessions \ {s} :
       /\ pc'[t] = pc[t] /\ arg'[t] = arg[t] /\ seen'[t] = seen[t]
       /\ del'[t] = del[t] /\ wr'[t] = wr[t]
  /\ \A j \in del'[s] : j \in del[s] \/ LeaseFree(s, j)
  /\ \A j \in Jobs : wr'[s][j] \in {"none", wr[s][j]} \/ JobFree(s, j)

LEMMA StatementKeepsLeaseInv ==
  ASSUME LeaseInv, TypeOK', ArgIsJob', NEW s \in Sessions,
         StatementOf(s), SessionInv(s)'
  PROVE  LeaseInv'
  <1>1. \A t \in Sessions \ {s} : SessionInv(t)'
    BY DEF LeaseInv, SessionInv, Skipped, StatementOf
  <1>2. RowsExclusive'
    BY DEF LeaseInv, RowsExclusive, StatementOf, LeaseFree, JobFree
  <1>3. LeaseIsLatest' /\ LeasedHasLease'
    BY DEF LeaseInv, LeaseIsLatest, LeasedHasLease, StatementOf
  <1> QED
    BY <1>1, <1>2, <1>3 DEF LeaseInv

LEMMA EnqueueLookupKeeps ==
  ASSUME LeaseInv, TypeOK', ArgIsJob', NEW p \in Producers,
         NEW j \in Jobs, EnqueueLookup(p, j)
  PROVE  LeaseInv'
  <1>1. p \in Sessions
    BY DEF Sessions
  <1>2. TxnType /\ ArgIsJob /\ SessionInv(p)
    BY <1>1, TxnTypeHolds DEF LeaseInv
  <1>3. StatementOf(p)
    BY <1>1, <1>2
    DEF StatementOf, EnqueueLookup, committed, TxnType
  <1>4. SessionInv(p)'
    BY <1>1, <1>2
    DEF SessionInv, Skipped, EnqueueLookup, committed, TxnType
  <1> QED
    BY <1>1, <1>3, <1>4, StatementKeepsLeaseInv

LEMMA LeaseLockKeeps ==
  ASSUME LeaseInv, TypeOK', ArgIsJob', NEW w \in Workers, LeaseLock(w)
  PROVE  LeaseInv'
  <1>1. w \in Sessions
    BY DEF Sessions
  <1>2. TxnType /\ ArgIsJob /\ SessionInv(w)
    BY <1>1, TxnTypeHolds DEF LeaseInv
  <1>3. StatementOf(w)
    BY <1>1, <1>2
    DEF StatementOf, LeaseLock, committed, TxnType, Leasable
  <1>4. SessionInv(w)'
    BY <1>1, <1>2
    DEF SessionInv, Skipped, LeaseLock, committed, TxnType, Leasable
  <1> QED
    BY <1>1, <1>3, <1>4, StatementKeepsLeaseInv

LEMMA AckDeleteKeeps ==
  ASSUME LeaseInv, TypeOK', ArgIsJob', NEW w \in Workers,
         NEW j \in Jobs, AckDelete(w, j)
  PROVE  LeaseInv'
  <1>1. w \in Sessions
    BY DEF Sessions
  <1>2. TxnType /\ ArgIsJob /\ SessionInv(w)
    BY <1>1, TxnTypeHolds DEF LeaseInv
  <1>3. StatementOf(w)
    BY <1>1, <1>2
    DEF StatementOf, AckDelete, committed, TxnType
  <1>4. SessionInv(w)'
    BY <1>1, <1>2
    DEF SessionInv, Skipped, AckDelete, committed, TxnType
  <1> QED
    BY <1>1, <1>3, <1>4, StatementKeepsLeaseInv

LEMMA AckUpdateKeeps ==
  ASSUME LeaseInv, TypeOK', ArgIsJob', NEW w \in Workers, AckUpdate(w)
  PROVE  LeaseInv'
  <1>1. w \in Sessions
    BY DEF Sessions
  <1>2. TxnType /\ ArgIsJob /\ SessionInv(w)
    BY <1>1, TxnTypeHolds DEF LeaseInv
  <1>3. StatementOf(w)
    BY <1>1, <1>2
    DEF StatementOf, AckUpdate, committed, TxnType, ArgIsJob
  <1>4. SessionInv(w)'
    BY <1>1, <1>2
    DEF SessionInv, Skipped, AckUpdate, committed, TxnType, ArgIsJob
  <1> QED
    BY <1>1, <1>3, <1>4, StatementKeepsLeaseInv

LEMMA NackReadKeeps ==
  ASSUME LeaseInv, TypeOK', ArgIsJob', NEW w \in Workers,
         NEW j \in Jobs, NackRead(w, j)
  PROVE  LeaseInv'
  <1>1. w \in Sessions
    BY DEF Sessions
  <1>2. TxnType /\ ArgIsJob /\ SessionInv(w)
    BY <1>1, TxnTypeHolds DEF LeaseInv
  <1>3. StatementOf(w)
    BY <1>1, <1>2
    DEF StatementOf, NackRead, committed, TxnType
  <1>4. SessionInv(w)'
    BY <1>1, <1>2
    DEF SessionInv, Skipped, NackRead, committed, TxnType
  <1> QED
    BY <1>1, <1>3, <1>4, StatementKeepsLeaseInv

LEMMA NackDeleteKeeps ==
  ASSUME LeaseInv, TypeOK', ArgIsJob', NEW w \in Workers, NackDelete(w)
  PROVE  LeaseInv'
  <1>1. w \in Sessions
    BY DEF Sessions
  <1>2. TxnType /\ ArgIsJob /\ SessionInv(w)
    BY <1>1, TxnTypeHolds DEF LeaseInv
  <1>3. StatementOf(w)
    BY <1>1, <1>2
    DEF StatementOf, NackDelete, committed, TxnType, ArgIsJob
  <1>4. SessionInv(w)'
    BY <1>1, <1>2
    DEF SessionInv, Skipped, NackDelete, committed, TxnType, ArgIsJob
  <1> QED
    BY <1>1, <1>3, <1>4, StatementKeepsLeaseInv

LEMMA NackUpdateKeeps ==
  ASSUME LeaseInv, TypeOK', ArgIsJob', NEW w \in Workers, NackUpdate(w)
  PROVE  LeaseInv'
  <1>1. w \in Sessions
    BY DEF Sessions
  <1>2. TxnType /\ ArgIsJob /\ SessionInv(w)
    BY <1>1, TxnTypeHolds DEF LeaseInv
  <1>3. StatementOf(w)
    BY <1>1, <1>2
    DEF StatementOf, NackUpdate, committed, TxnType, ArgIsJob
  <1>4. SessionInv(w)'
    BY <1>1, <1>2
    DEF SessionInv, Skipped, NackUpdate, committed, TxnType, ArgIsJob
  <1> QED
    BY <1>1, <1>3, <1>4, StatementKeepsLeaseInv

LEMMA ReapStartKeeps ==
  ASSUME LeaseInv, TypeOK', ArgIsJob', NEW r \in Reapers, ReapStart(r)
  PROVE  LeaseInv'
  <1>1. r \in Sessions
    BY DEF Sessions
  <1>2. TxnType /\ ArgIsJob /\ SessionInv(r)
    BY <1>1, TxnTypeHolds DEF LeaseInv
  <1>3. StatementOf(r)
    BY <1>1, <1>2
    DEF StatementOf, ReapStart, ReapFrom, committed, TxnType
  <1>4. SessionInv(r)'
    BY <1>1, <1>2
    DEF SessionInv, Skipped, ReapStart, ReapFrom, committed, TxnType
  <1> QED
    BY <1>1, <1>3, <1>4, StatementKeepsLeaseInv

LEMMA ReapDeleteKeeps ==
  ASSUME LeaseInv, TypeOK', ArgIsJob', NEW r \in Reapers,
         NEW j \in Jobs, ReapDelete(r, j)
  PROVE  LeaseInv'
  <1>1. r \in Sessions
    BY DEF Sessions
  <1>2. TxnType /\ ArgIsJob /\ SessionInv(r)
    BY <1>1, TxnTypeHolds DEF LeaseInv
  <1>3. StatementOf(r)
    BY <1>1, <1>2
    DEF StatementOf, ReapDelete, committed, TxnType
  <1>4. SessionInv(r)'
    BY <1>1, <1>2
    DEF SessionInv, Skipped, ReapDelete, committed, TxnType
  <1> QED
    BY <1>1, <1>3, <1>4, StatementKeepsLeaseInv

LEMMA ReapReviveKeeps ==
  ASSUME LeaseInv, TypeOK', ArgIsJob', NEW r \in Reapers,
         NEW j \in Jobs, ReapRevive(r, j)
  PROVE  LeaseInv'
  <1>1. r \in Sessions
    BY DEF Sessions
  <1>2. TxnType /\ ArgIsJob /\ SessionInv(r)
    BY <1>1, TxnTypeHolds DEF LeaseInv
  <1>3. StatementOf(r)
    BY <1>1, <1>2
    DEF StatementOf, ReapRevive, committed, TxnType
  <1>4. SessionInv(r)'
    BY <1>1, <1>2
    DEF SessionInv, Skipped, ReapRevive, committed, TxnType
  <1> QED
    BY <1>1, <1>3, <1>4, StatementKeepsLeaseInv

(* queue_enqueue commits a new pending row.                                *)
LEMMA EnqueueInsertKeeps ==
  ASSUME LeaseInv, TypeOK', ArgIsJob', NEW p \in Producers, EnqueueInsert(p)
  PROVE  LeaseInv'
  <1>1. p \in Sessions /\ EndTxn(p)
    BY DEF EnqueueInsert, Sessions
  <1>2. TypeOK /\ TxnType
    BY TxnTypeHolds DEF LeaseInv
  <1>3. /\ pc'[p] = "idle" /\ del'[p] = {}
        /\ \A j \in Jobs : wr'[p][j] = "none"
        /\ \A t \in Sessions \ {p} :
             /\ pc'[t] = pc[t] /\ arg'[t] = arg[t] /\ seen'[t] = seen[t]
             /\ del'[t] = del[t] /\ wr'[t] = wr[t]
    BY <1>1, <1>2, EndTxnFacts
  <1>4. \A j \in Jobs : status'[j] = "leased" => status[j] = "leased"
    <2>1. status \in [Jobs -> Statuses]
      BY <1>2 DEF TypeOK
    <2> QED
      BY <2>1 DEF EnqueueInsert
  <1>5. lease' = lease /\ attempts' = attempts
    BY DEF EnqueueInsert
  <1>6. RowsExclusive'
    <2>1. RowsExclusive
      BY DEF LeaseInv
    <2> QED
      BY <1>3, <2>1 DEF RowsExclusive
  <1>7. ASSUME NEW t \in Sessions
        PROVE  SessionInv(t)'
    <2>1. CASE t = p
      BY <1>3, <2>1 DEF SessionInv, Skipped
    <2>2. CASE t # p
      <3>1. \A j \in del[t] : j \in Jobs
        BY <1>2 DEF TxnType
      <3>2. /\ pc'[t] = pc[t] /\ arg'[t] = arg[t] /\ seen'[t] = seen[t]
            /\ del'[t] = del[t] /\ wr'[t] = wr[t]
        BY <1>3, <2>2
      <3>3. \A j \in del[t] : Skipped(t, j) => Skipped(t, j)'
        BY <1>4, <3>1, <3>2 DEF Skipped
      <3>4. SessionInv(t)
        BY DEF LeaseInv
      <3> QED
        BY <1>5, <3>2, <3>3, <3>4 DEF SessionInv
    <2> QED
      BY <2>1, <2>2
  <1>8. LeaseIsLatest' /\ LeasedHasLease'
    <2>1. LeaseIsLatest /\ LeasedHasLease
      BY DEF LeaseInv
    <2> QED
      BY <1>4, <1>5, <2>1 DEF LeaseIsLatest, LeasedHasLease
  <1> QED
    BY <1>6, <1>7, <1>8 DEF LeaseInv

(* queue_lease commits: the rows it leases are deleted by nobody, so no    *)
(* open transaction relies on their status.                                *)
LEMMA LeaseInsertKeeps ==
  ASSUME LeaseInv, TypeOK', ArgIsJob', NEW w \in Workers, LeaseInsert(w)
  PROVE  LeaseInv'
  <1> DEFINE B == {j \in Jobs : wr[w][j] = "leased"}
  <1>1. w \in Sessions /\ EndTxn(w)
    BY DEF LeaseInsert, Sessions
  <1>2. CASE UNCHANGED <<status, attempts, lease>>
    BY <1>1, <1>2, AbortKeepsLeaseInv
  <1>3. CASE /\ \A j \in B : lease[j] = 0
             /\ status' = [j \in Jobs |-> IF j \in B THEN "leased" ELSE status[j]]
             /\ attempts' = [j \in Jobs |-> IF j \in B THEN attempts[j] + 1
                                                       ELSE attempts[j]]
             /\ lease' = [j \in Jobs |-> IF j \in B THEN attempts[j] + 1
                                                    ELSE lease[j]]
    <2>0. /\ pc'[w] = "idle" /\ del'[w] = {}
          /\ \A j \in Jobs : wr'[w][j] = "none"
          /\ \A t \in Sessions \ {w} :
               /\ pc'[t] = pc[t] /\ arg'[t] = arg[t] /\ seen'[t] = seen[t]
               /\ del'[t] = del[t] /\ wr'[t] = wr[t]
      BY <1>1, EndTxnFacts DEF LeaseInv
    <2>1. \A t \in Sessions \ {w} : \A j \in del[t] : j \in Jobs /\ j \notin B
      <3>1. TxnType
        BY TxnTypeHolds DEF LeaseInv
      <3> QED
        BY <1>1, <3>1 DEF LeaseInsert, LeaseFree, TxnType
    <2>2. \A j \in Jobs \ B : /\ status'[j] = status[j] /\ lease'[j] = lease[j]
                              /\ attempts'[j] = attempts[j]
      BY <1>3
    <2>3. \A j \in B : lease'[j] = attempts'[j] /\ lease'[j] # 0
      <3>1. attempts \in [Jobs -> Nat]
        BY DEF LeaseInv, TypeOK
      <3> QED
        BY <1>3, <3>1
    <2> HIDE DEF B
    <2>4. RowsExclusive'
      <3>1. RowsExclusive
        BY DEF LeaseInv
      <3> QED
        BY <2>0, <3>1 DEF RowsExclusive
    <2>5. SessionInv(w)'
      BY <2>0, Zenon DEF SessionInv
    <2>6. ASSUME NEW t \in Sessions \ {w}
          PROVE  SessionInv(t)'
      <3>1. SessionInv(t)
        BY DEF LeaseInv
      <3>2. \A j \in del[t] : /\ status'[j] = status[j] /\ lease'[j] = lease[j]
                              /\ j \in Jobs
        BY <2>1, <2>2
      <3>3. ASSUME NEW j \in del[t], Skipped(t, j)
            PROVE  Skipped(t, j)'
        BY <2>0, <3>2, <3>3 DEF Skipped
      <3> QED
        BY <2>0, <3>1, <3>2, <3>3 DEF SessionInv
    <2>7. LeaseIsLatest' /\ LeasedHasLease'
      <3>1. LeaseIsLatest /\ LeasedHasLease
        BY DEF LeaseInv
      <3> QED
        BY <2>2, <2>3, <3>1 DEF LeaseIsLatest, LeasedHasLease
    <2> QED
      BY <2>4, <2>5, <2>6, <2>7 DEF LeaseInv
  <1> QED
    BY <1>2, <1>3 DEF LeaseInsert

LEMMA NextLeaseInv == LeaseInv /\ [Next]_vars => LeaseInv'
  <1> SUFFICES ASSUME LeaseInv, [Next]_vars
               PROVE  LeaseInv'
    OBVIOUS
  <1>0. TypeOK' /\ ArgIsJob'
    BY NextType, NextArg DEF LeaseInv
  <1> USE <1>0 DEF committed
  <1>1. ASSUME NEW p \in Producers, queue_enqueue(p)
        PROVE  LeaseInv'
    BY <1>1, EnqueueLookupKeeps, EnqueueInsertKeeps DEF queue_enqueue
  <1>2. ASSUME NEW w \in Workers, queue_lease(w)
        PROVE  LeaseInv'
    BY <1>2, LeaseLockKeeps, LeaseInsertKeeps DEF queue_lease
  <1>3. ASSUME NEW w \in Workers, queue_ack(w)
        PROVE  LeaseInv'
    <2>1. ASSUME AckCommit(w)
          PROVE  LeaseInv'
      BY <2>1, PublishKeepsLeaseInv DEF AckCommit, Sessions
    <2> QED
      BY <1>3, <2>1, AckDeleteKeeps, AckUpdateKeeps DEF queue_ack
  <1>4. ASSUME NEW w \in Workers, queue_nack(w)
        PROVE  LeaseInv'
    <2>1. ASSUME NackCommit(w)
          PROVE  LeaseInv'
      BY <2>1, PublishKeepsLeaseInv DEF NackCommit, Sessions
    <2> QED
      BY <1>4, <2>1, NackReadKeeps, NackDeleteKeeps, NackUpdateKeeps
      DEF queue_nack
  <1>5. ASSUME NEW r \in Reapers, queue_reap_expired_leases(r)
        PROVE  LeaseInv'
    <2>1. ASSUME ReapCommit(r)
          PROVE  LeaseInv'
      BY <2>1, PublishKeepsLeaseInv DEF ReapCommit, Sessions
    <2> QED
      BY <1>5, <2>1, ReapStartKeeps, ReapDeleteKeeps, ReapReviveKeeps
      DEF queue_reap_expired_leases
  <1>6. ASSUME UNCHANGED <<status, attempts, lease, txn>>
        PROVE  LeaseInv'
    <2>1. RowsExclusive'
      BY <1>6 DEF txn, LeaseInv, RowsExclusive
    <2>2. \A s \in Sessions : SessionInv(s)'
      <3> TAKE s \in Sessions
      <3>1. SessionInv(s)
        BY DEF LeaseInv
      <3> QED
        BY <1>6, <3>1 DEF txn, SessionInv, Skipped
    <2>3. LeaseIsLatest' /\ LeasedHasLease'
      BY <1>6 DEF LeaseInv, LeaseIsLatest, LeasedHasLease
    <2> QED
      BY <2>1, <2>2, <2>3 DEF LeaseInv
  <1>7. ASSUME NEW j \in Jobs, NEW n \in 1..MaxAttempts, Lapse(j, n)
        PROVE  LeaseInv'
    BY <1>6, <1>7 DEF Lapse
  <1>8. ASSUME NEW s \in Sessions, Rollback(s) \/ DeadlockAbort(s)
        PROVE  LeaseInv'
    BY <1>8, AbortKeepsLeaseInv DEF Rollback, DeadlockAbort
  <1>9. ASSUME NEW w \in Workers, Crash(w)
        PROVE  LeaseInv'
    BY <1>9, AbortKeepsLeaseInv DEF Crash, Sessions
  <1>10. CASE UNCHANGED vars
    BY <1>6, <1>10 DEF vars, txn
  <1> QED
    BY <1>1, <1>2, <1>3, <1>4, <1>5, <1>7, <1>8, <1>9, <1>10 DEF Next

LEMMA LeaseInvHolds == Spec => []LeaseInv
  <1>1. Init => LeaseInv
    BY InitType DEF Init, LeaseInv, ArgIsJob, RowsExclusive, SessionInv, Skipped,
                    LeaseIsLatest, LeasedHasLease, Nothing, NoWrites
  <1> QED
    BY <1>1, NextLeaseInv, PTL DEF Spec

(* A leased job always has its lease row, in every interleaving of the     *)
(* statements of queue_lease, queue_ack, queue_nack and the reaper, stale  *)
(* workers, rollbacks, deadlock aborts and crashes included.               *)
THEOREM LeasedJobsAreRecoverable == Spec => []LeasedHasLease
  BY LeaseInvHolds, PTL DEF LeaseInv

-----------------------------------------------------------------------------
(***************************************************************************)
(* A job dies only after max_retries leases, for every set of sessions and *)
(* jobs and every bound.                                                   *)
(***************************************************************************)

(* queue_nack decides on a value of attempts it read without a lock.       *)

(* No step lowers attempts.                                                *)
LEMMA AttemptsGrow ==
  ASSUME TypeOK, [Next]_vars
  PROVE  \A j \in Jobs : attempts[j] \in Nat /\ attempts[j] <= attempts'[j]
  <1>1. CASE attempts' = attempts
    BY <1>1 DEF TypeOK
  <1>2. ASSUME NEW w \in Workers, LeaseInsert(w)
        PROVE  \A j \in Jobs : attempts[j] \in Nat /\ attempts[j] <= attempts'[j]
    <2>1. attempts \in [Jobs -> Nat]
      BY DEF TypeOK
    <2>2. \/ attempts' = attempts
          \/ \E B \in SUBSET Jobs :
               attempts' = [j \in Jobs |-> IF j \in B THEN attempts[j] + 1
                                                     ELSE attempts[j]]
      BY <1>2, Zenon DEF LeaseInsert
    <2> QED
      BY <2>1, <2>2
  <1>3. attempts' = attempts \/ \E w \in Workers : LeaseInsert(w)
    <2>1. ASSUME NEW p \in Producers, queue_enqueue(p)
          PROVE  attempts' = attempts
      BY <2>1 DEF queue_enqueue, EnqueueLookup, EnqueueInsert, committed
    <2>2. ASSUME NEW w \in Workers, queue_lease(w)
          PROVE  attempts' = attempts \/ LeaseInsert(w)
      BY <2>2 DEF queue_lease, LeaseLock, committed
    <2>3. ASSUME NEW w \in Workers, queue_ack(w)
          PROVE  attempts' = attempts
      BY <2>3 DEF queue_ack, AckDelete, AckUpdate, AckCommit, committed
    <2>4. ASSUME NEW w \in Workers, queue_nack(w)
          PROVE  attempts' = attempts
      BY <2>4 DEF queue_nack, NackRead, NackDelete, NackUpdate, NackCommit,
                  committed
    <2>5. ASSUME NEW r \in Reapers, queue_reap_expired_leases(r)
          PROVE  attempts' = attempts
      BY <2>5 DEF queue_reap_expired_leases, ReapStart, ReapFrom, ReapDelete,
                  ReapRevive, ReapCommit, committed
    <2>6. CASE \/ \E j \in Jobs : \E n \in 1..MaxAttempts : Lapse(j, n)
               \/ \E t \in Sessions : Rollback(t) \/ DeadlockAbort(t)
               \/ \E w \in Workers : Crash(w)
      BY <2>6, Zenon DEF Lapse, Rollback, DeadlockAbort, Crash, committed
    <2>7. CASE UNCHANGED vars
      BY <2>7 DEF vars, committed
    <2> QED
      BY <2>1, <2>2, <2>3, <2>4, <2>5, <2>6, <2>7 DEF Next
  <1> QED
    BY <1>1, <1>2, <1>3

(* A statement of queue_nack keeps the value it read at or below the       *)
(* current one, and writes "dead" only when the current one allows it.     *)
NackInv(s) ==
  /\ pc[s] \in {"nack_delete", "nack_update"}
       => seen[s][arg[s]] <= attempts[arg[s]]
  /\ \A j \in Jobs : wr[s][j] = "dead" => attempts[j] >= MaxRetries

DeadInv ==
  /\ TypeOK /\ ArgIsJob
  /\ \A s \in Sessions : NackInv(s)
  /\ DeadIsExhausted

(* What is at least m stays so when it grows.                              *)
LEMMA AtLeast ==
  ASSUME NEW m \in Nat, NEW a \in Nat, NEW b \in Nat, a >= m, a <= b
  PROVE  b >= m
  OBVIOUS

(* Sessions whose private state a step leaves alone keep NackInv.          *)
LEMMA OthersKeepNackInv ==
  ASSUME DeadInv, TypeOK', [Next]_vars, NEW t \in Sessions,
         pc'[t] = pc[t], arg'[t] = arg[t], seen'[t] = seen[t],
         \A j \in Jobs : wr'[t][j] = "dead" => wr[t][j] = "dead"
  PROVE  NackInv(t)'
  <1>1. NackInv(t) /\ TxnType /\ ArgIsJob
    BY TxnTypeHolds, Zenon DEF DeadInv
  <1>2. \A j \in Jobs : /\ attempts[j] \in Nat /\ attempts'[j] \in Nat
                        /\ attempts[j] <= attempts'[j]
    BY AttemptsGrow DEF DeadInv, TypeOK
  <1>3. \A j \in Jobs : wr'[t][j] = "dead" => attempts'[j] >= MaxRetries
    <2> SUFFICES ASSUME NEW j \in Jobs, wr'[t][j] = "dead"
                 PROVE  attempts'[j] >= MaxRetries
      OBVIOUS
    <2>1. attempts[j] >= MaxRetries
      BY <1>1 DEF NackInv
    <2>2. attempts[j] \in Nat /\ attempts'[j] \in Nat /\ attempts[j] <= attempts'[j]
      BY <1>2
    <2>3. MaxRetries \in Nat
      BY QueueAssumption
    <2> QED
      BY <2>1, <2>2, <2>3, AtLeast, Zenon
  <1>4. ASSUME pc[t] \in {"nack_delete", "nack_update"}
        PROVE  seen[t][arg[t]] <= attempts'[arg[t]]
    <2>1. arg[t] \in Jobs /\ seen[t][arg[t]] <= attempts[arg[t]]
      BY <1>1, <1>4 DEF NackInv, ArgIsJob
    <2>2. seen[t][arg[t]] \in Nat
      BY <1>1, <2>1 DEF TxnType
    <2> QED
      BY <1>2, <2>1, <2>2
  <1> QED
    BY <1>3, <1>4 DEF NackInv

LEMMA NextNackInv ==
  ASSUME DeadInv, TypeOK', [Next]_vars
  PROVE  \A t \in Sessions : NackInv(t)'
  <1>0. TxnType
    BY TxnTypeHolds DEF DeadInv
  <1>1. ASSUME NEW s \in Sessions, EndTxn(s)
        PROVE  \A t \in Sessions : NackInv(t)'
    <2>1. NackInv(s)'
      BY <1>1, EndTxnFacts DEF NackInv, DeadInv
    <2> QED
      <3>1. ASSUME NEW t \in Sessions, t # s
            PROVE  NackInv(t)'
        <4>1. /\ pc'[t] = pc[t] /\ arg'[t] = arg[t] /\ seen'[t] = seen[t]
              /\ wr'[t] = wr[t]
          BY <1>1, <3>1, EndTxnFacts DEF DeadInv
        <4> QED
          BY <4>1, OthersKeepNackInv
      <3> QED
        BY <2>1, <3>1
  <1> DEFINE Only(s) ==
        \A t \in Sessions \ {s} :
          /\ pc'[t] = pc[t] /\ arg'[t] = arg[t] /\ seen'[t] = seen[t]
          /\ wr'[t] = wr[t]
  <1>2. ASSUME NEW s \in Sessions,
               pc'[s] \notin {"nack_delete", "nack_update"},
               \A j \in Jobs : wr'[s][j] = "dead" => wr[s][j] = "dead",
               Only(s)
        PROVE  \A t \in Sessions : NackInv(t)'
    <2>1. NackInv(s)'
      <3> SUFFICES ASSUME NEW j \in Jobs, wr'[s][j] = "dead"
                   PROVE  attempts'[j] >= MaxRetries
        BY <1>2 DEF NackInv
      <3>1. attempts[j] >= MaxRetries
        BY <1>2 DEF NackInv, DeadInv
      <3>2. attempts[j] \in Nat /\ attempts'[j] \in Nat /\ attempts[j] <= attempts'[j]
        BY AttemptsGrow DEF DeadInv, TypeOK
      <3> QED
        BY <3>1, <3>2, AtLeast, QueueAssumption
    <2> QED
      BY <1>2, <2>1, OthersKeepNackInv
  <1>3. ASSUME NEW p \in Producers, NEW j \in Jobs, EnqueueLookup(p, j)
        PROVE  \A t \in Sessions : NackInv(t)'
    <2>1. p \in Sessions
      BY DEF Sessions
    <2>2. /\ Only(p) /\ pc'[p] \notin {"nack_delete", "nack_update"}
          /\ \A i \in Jobs : wr'[p][i] = "dead" => wr[p][i] = "dead"
      BY <1>0, <1>3, <2>1 DEF EnqueueLookup, TxnType
    <2> QED
      BY <1>2, <2>1, <2>2
  <1>4. ASSUME NEW w \in Workers, LeaseLock(w)
        PROVE  \A t \in Sessions : NackInv(t)'
    <2>1. w \in Sessions
      BY DEF Sessions
    <2>2. /\ Only(w) /\ pc'[w] \notin {"nack_delete", "nack_update"}
          /\ \A i \in Jobs : wr'[w][i] = "dead" => wr[w][i] = "dead"
      BY <1>0, <1>4, <2>1 DEF LeaseLock, TxnType
    <2> QED
      BY <1>2, <2>1, <2>2
  <1>5. ASSUME NEW w \in Workers, NEW j \in Jobs, AckDelete(w, j)
        PROVE  \A t \in Sessions : NackInv(t)'
    <2>1. w \in Sessions
      BY DEF Sessions
    <2>2. /\ Only(w) /\ pc'[w] \notin {"nack_delete", "nack_update"}
          /\ \A i \in Jobs : wr'[w][i] = "dead" => wr[w][i] = "dead"
      BY <1>0, <1>5, <2>1, Zenon DEF AckDelete, TxnType
    <2> QED
      BY <1>2, <2>1, <2>2
  <1>6. ASSUME NEW w \in Workers, AckUpdate(w)
        PROVE  \A t \in Sessions : NackInv(t)'
    <2>1. w \in Sessions
      BY DEF Sessions
    <2>2. Only(w) /\ pc'[w] \notin {"nack_delete", "nack_update"}
      BY <1>0, <1>6, <2>1 DEF AckUpdate, TxnType
    <2>3. \A i \in Jobs : wr'[w][i] \in {wr[w][i], "completed"}
      BY <1>0, <1>6, <2>1 DEF AckUpdate, TxnType
    <2> QED
      BY <1>2, <2>1, <2>2, <2>3
  <1>7. ASSUME NEW r \in Reapers, ReapStart(r)
        PROVE  \A t \in Sessions : NackInv(t)'
    <2>1. r \in Sessions
      BY DEF Sessions
    <2>2. /\ Only(r) /\ pc'[r] \notin {"nack_delete", "nack_update"}
          /\ \A i \in Jobs : wr'[r][i] = "dead" => wr[r][i] = "dead"
      BY <1>0, <1>7, <2>1 DEF ReapStart, ReapFrom, TxnType
    <2> QED
      BY <1>2, <2>1, <2>2
  <1>8. ASSUME NEW r \in Reapers, NEW j \in Jobs,
               ReapDelete(r, j) \/ ReapRevive(r, j)
        PROVE  \A t \in Sessions : NackInv(t)'
    <2>1. r \in Sessions
      BY DEF Sessions
    <2>2. Only(r)
      <3>1. CASE ReapDelete(r, j)
        BY <1>0, <2>1, <3>1 DEF ReapDelete, TxnType
      <3>2. CASE ReapRevive(r, j)
        BY <1>0, <2>1, <3>2 DEF ReapRevive, TxnType
      <3> QED
        BY <1>8, <3>1, <3>2
    <2>3. pc'[r] \notin {"nack_delete", "nack_update"}
      BY <1>8 DEF ReapDelete, ReapRevive
    <2>4. \A i \in Jobs : wr'[r][i] \in {wr[r][i], "pending"}
      <3>1. CASE wr' = wr
        BY <3>1
      <3>2. CASE wr' = [wr EXCEPT ![r][j] = "pending"]
        BY <1>0, <2>1, <3>2 DEF TxnType
      <3> QED
        BY <1>8, <3>1, <3>2 DEF ReapDelete, ReapRevive
    <2> QED
      BY <1>2, <2>1, <2>2, <2>3, <2>4
  <1>9. ASSUME NEW w \in Workers, NEW j \in Jobs, NackRead(w, j)
        PROVE  \A t \in Sessions : NackInv(t)'
    <2>1. w \in Sessions
      BY DEF Sessions
    <2>2. Only(w) /\ wr' = wr /\ attempts' = attempts
      BY <1>0, <1>9, <2>1 DEF NackRead, committed, TxnType
    <2>3. CASE status[j] = "leased"
      <3>1. arg'[w] = j /\ seen'[w][j] = attempts[j]
        <4>1. /\ arg \in [Sessions -> Jobs \cup {NoJob}]
              /\ seen \in [Sessions -> [Jobs -> Nat]]
          BY <1>0 DEF TxnType
        <4> QED
          BY <1>9, <2>1, <2>3, <4>1 DEF NackRead
      <3>2. NackInv(w)
        BY <2>1 DEF DeadInv
      <3>3. attempts[j] \in Nat
        BY DEF DeadInv, TypeOK
      <3>4. NackInv(w)'
        BY <2>2, <3>1, <3>2, <3>3 DEF NackInv
      <3> QED
        BY <2>2, <3>4, OthersKeepNackInv
    <2>4. CASE status[j] # "leased"
      BY <1>2, <1>9, <2>1, <2>2, <2>4 DEF NackRead
    <2> QED
      BY <2>3, <2>4
  <1>10. ASSUME NEW w \in Workers, NackDelete(w)
         PROVE  \A t \in Sessions : NackInv(t)'
    <2>1. w \in Sessions
      BY DEF Sessions
    <2>2. Only(w) /\ UNCHANGED <<wr, attempts, arg, seen>>
      BY <1>0, <1>10, <2>1 DEF NackDelete, committed, TxnType
    <2>3. NackInv(w)'
      BY <1>10, <2>1, <2>2, Zenon DEF NackDelete, NackInv, DeadInv
    <2> QED
      BY <2>2, <2>3, OthersKeepNackInv
  <1>11. ASSUME NEW w \in Workers, NackUpdate(w)
         PROVE  \A t \in Sessions : NackInv(t)'
    <2>1. w \in Sessions /\ arg[w] \in Jobs
      BY <1>11 DEF NackUpdate, DeadInv, ArgIsJob, Sessions
    <2>2. Only(w) /\ attempts' = attempts /\ pc'[w] = "nack_commit"
      BY <1>0, <1>11, <2>1 DEF NackUpdate, committed, TxnType
    <2>3. seen[w][arg[w]] \in Nat /\ attempts[arg[w]] \in Nat
      BY <2>1 DEF DeadInv, TypeOK
    <2>4. seen[w][arg[w]] <= attempts[arg[w]]
      BY <1>11, <2>1 DEF NackUpdate, NackInv, DeadInv
    <2>5. \A j \in Jobs \ {arg[w]} : wr'[w][j] = wr[w][j]
      BY <1>0, <1>11, <2>1 DEF NackUpdate, TxnType
    <2>6. wr'[w][arg[w]] = IF seen[w][arg[w]] >= MaxRetries THEN "dead"
                                                            ELSE "pending"
      BY <1>0, <1>11, <2>1 DEF NackUpdate, TxnType
    <2>7. wr'[w][arg[w]] = "dead" => attempts[arg[w]] >= MaxRetries
      BY <2>3, <2>4, <2>6, QueueAssumption
    <2>8. \A j \in Jobs : wr'[w][j] = "dead" => attempts[j] >= MaxRetries
      BY <2>1, <2>5, <2>7 DEF NackInv, DeadInv
    <2>9. NackInv(w)'
      BY <2>2, <2>8 DEF NackInv
    <2> QED
      BY <2>2, <2>9, OthersKeepNackInv
  <1>12. CASE UNCHANGED txn
    <2> TAKE t \in Sessions
    <2> QED
      BY <1>12, OthersKeepNackInv DEF txn
  <1>13. ASSUME NEW s \in Sessions,
                \/ s \in Producers /\ EnqueueInsert(s)
                \/ s \in Workers /\ (LeaseInsert(s) \/ AckCommit(s)
                                      \/ NackCommit(s) \/ Crash(s))
                \/ s \in Reapers /\ ReapCommit(s)
                \/ Rollback(s) \/ DeadlockAbort(s)
         PROVE  \A t \in Sessions : NackInv(t)'
    BY <1>1, <1>13 DEF EnqueueInsert, LeaseInsert, AckCommit, NackCommit,
         Crash, ReapCommit, Rollback, DeadlockAbort, Publish
  <1> QED
    BY <1>3, <1>4, <1>5, <1>6, <1>7, <1>8, <1>9, <1>10, <1>11, <1>12, <1>13,
       Zenon
    DEF Next, queue_enqueue, queue_lease, queue_ack, queue_nack, vars, txn,
        queue_reap_expired_leases, Lapse, Sessions

(* "dead" is only ever written from a justified NackInv.                   *)
LEMMA NextDead ==
  ASSUME DeadInv, TypeOK', [Next]_vars
  PROVE  DeadIsExhausted'
  <1> SUFFICES ASSUME NEW j \in Jobs, status'[j] = "dead"
               PROVE  attempts'[j] >= MaxRetries
    BY DEF DeadIsExhausted
  <1>1. status[j] = "dead" \/ \E s \in Sessions : wr[s][j] = "dead"
    <2>1. CASE status' = status
      BY <2>1
    <2>2. ASSUME NEW s \in Sessions, Publish(s)
          PROVE  status[j] = "dead" \/ wr[s][j] = "dead"
      BY <2>2 DEF Publish
    <2>3. ASSUME NEW p \in Producers, EnqueueInsert(p)
          PROVE  status[j] = "dead"
      <3>1. status \in [Jobs -> Statuses]
        BY DEF DeadInv, TypeOK
      <3> QED
        BY <2>3, <3>1 DEF EnqueueInsert
    <2>4. ASSUME NEW w \in Workers, LeaseInsert(w)
          PROVE  status[j] = "dead"
      BY <2>4 DEF LeaseInsert
    <2>5. \/ status' = status
          \/ \E s \in Sessions : Publish(s)
          \/ \E p \in Producers : EnqueueInsert(p)
          \/ \E w \in Workers : LeaseInsert(w)
      BY Zenon DEF Next, queue_enqueue, queue_lease, queue_ack, queue_nack,
             queue_reap_expired_leases, committed, vars, EnqueueLookup,
             LeaseLock, AckDelete, AckUpdate, AckCommit, NackRead,
             NackDelete, NackUpdate, NackCommit, ReapStart, ReapFrom, ReapDelete,
             ReapRevive, ReapCommit, Lapse, Rollback, DeadlockAbort, Crash,
             Sessions
    <2> QED
      BY <2>1, <2>2, <2>3, <2>4, <2>5
  <1>2. attempts[j] >= MaxRetries
    BY <1>1 DEF DeadInv, DeadIsExhausted, NackInv
  <1>3. attempts[j] \in Nat /\ attempts'[j] \in Nat /\ attempts[j] <= attempts'[j]
    BY AttemptsGrow DEF DeadInv, TypeOK
  <1> QED
    BY <1>2, <1>3, AtLeast, QueueAssumption

LEMMA DeadInvHolds == Spec => []DeadInv
  <1>1. Init => DeadInv
    BY InitType DEF Init, DeadInv, ArgIsJob, NackInv, DeadIsExhausted,
                    NoWrites, Nothing
  <1>2. DeadInv /\ [Next]_vars => DeadInv'
    BY NextType, NextArg, NextNackInv, NextDead DEF DeadInv
  <1> QED
    BY <1>1, <1>2, PTL DEF Spec

(* A job dies only after max_retries leases, although queue_nack decides   *)
(* on an unlocked read that may be stale when it writes.                   *)
THEOREM DeadJobsWereRetried == Spec => []DeadIsExhausted
  BY DeadInvHolds, PTL DEF DeadInv

=============================================================================
