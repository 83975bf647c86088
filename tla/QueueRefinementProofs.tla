----------------------- MODULE QueueRefinementProofs ------------------------
(***************************************************************************)
(* While workers finish inside their visibility window, two of them never  *)
(* work on the same job and the queue implements AbstractQueue, for every  *)
(* set of sessions and jobs and every bound.                               *)
(*                                                                         *)
(* The argument: a job a worker holds is leased under the worker's own     *)
(* lease row, which has not lapsed (HeldInv).  The reaper takes lapsed     *)
(* rows only, and nobody leases a job that is not pending.  So the row     *)
(* that queue_nack updates without looking is still the one it read, and   *)
(* a status written by any open transaction replaces the one it expects    *)
(* when it commits (WriteInv).                                             *)
(***************************************************************************)
EXTENDS QueueRefinement, QueueProofs

InCall == {"ack_update", "ack_commit", "nack_delete", "nack_update", "nack_commit"}

(* What an open transaction has written, and what it replaces.             *)
WriteInv(s) ==
  /\ pc[s] \in {"idle", "enq_insert", "ack_update", "nack_delete", "nack_update"}
       => \A j \in Jobs : wr[s][j] = "none"
  /\ pc[s] \in {"ack_commit", "nack_commit"}
       => \A j \in Jobs : wr[s][j] # "none" => j = arg[s]
  /\ pc[s] = "ack_commit" => wr[s][arg[s]] \in {"none", "completed"}
  /\ pc[s] = "nack_commit" => wr[s][arg[s]] \in {"pending", "dead"}
  /\ pc[s] = "lease_insert" => \A j \in Jobs : wr[s][j] \in {"none", "leased"}
  /\ pc[s] = "reap" =>
       /\ \A j \in Jobs : wr[s][j] = "none" \/ (wr[s][j] = "pending" /\ j \in del[s])
       /\ \A j \in Jobs : seen[s][j] # 0 => <<j, seen[s][j]>> \in lapsed
       /\ \A j \in del[s] : <<j, lease[j]>> \in lapsed
  /\ \A j \in Jobs : wr[s][j] # "none" =>
       status[j] = IF wr[s][j] = "leased" THEN "pending" ELSE "leased"

(* A job in a worker's leased list.                                        *)
HeldInv ==
  \A w \in Workers : \A j \in Jobs : held[w][j] # 0 =>
    /\ status[j] = "leased"
    /\ lease[j] = held[w][j]
    /\ <<j, lease[j]>> \notin lapsed

(* A worker acknowledges only what it holds.                               *)
WorkInv == \A w \in Workers : pc[w] \in InCall => held[w][arg[w]] # 0

(* Only leases that were handed out lapse.                                 *)
LapsedInv == \A j \in Jobs : \A n \in Nat : <<j, n>> \in lapsed => n <= attempts[j]

TimelyInv ==
  /\ \A s \in Sessions : WriteInv(s)
  /\ HeldInv /\ WorkInv /\ LapsedInv
  /\ SoleWorker

-----------------------------------------------------------------------------
(* Sessions and workers that a step is not about.                          *)

SamePrivate(t) ==
  /\ pc'[t] = pc[t] /\ arg'[t] = arg[t] /\ seen'[t] = seen[t]
  /\ del'[t] = del[t] /\ wr'[t] = wr[t]

LEMMA OtherWriteInv ==
  ASSUME TypeOK, NEW t \in Sessions, WriteInv(t), SamePrivate(t),
         lapsed \subseteq lapsed',
         \A j \in Jobs : wr[t][j] # "none" => status'[j] = status[j],
         \A j \in del[t] : lease'[j] = lease[j]
  PROVE  WriteInv(t)'
  <1>1. del[t] \subseteq Jobs
    BY DEF TypeOK
  <1> QED
    BY <1>1 DEF WriteInv, SamePrivate

(* A finished transaction leaves a session that has written nothing.       *)
LEMMA EndedWriteInv ==
  ASSUME TypeOK, NEW s \in Sessions, EndTxn(s)
  PROVE  /\ WriteInv(s)' /\ pc'[s] = "idle"
         /\ \A t \in Sessions \ {s} : SamePrivate(t)
  BY EndTxnFacts DEF WriteInv, SamePrivate

(* A statement inside a transaction changes its own session only.          *)
LEMMA StatementKeepsTimely ==
  ASSUME TypeOK, TimelyInv, NEW s \in Sessions,
         UNCHANGED <<status, attempts, lease, lapsed, held>>,
         \A t \in Sessions \ {s} : SamePrivate(t),
         WriteInv(s)',
         s \in Workers /\ pc'[s] \in InCall => held[s][arg'[s]] # 0
  PROVE  TimelyInv'
  <1>1. \A t \in Sessions : WriteInv(t)'
    BY OtherWriteInv DEF TimelyInv
  <1>2. WorkInv'
    BY DEF TimelyInv, WorkInv, SamePrivate, Sessions
  <1>3. HeldInv' /\ LapsedInv' /\ SoleWorker'
    BY DEF TimelyInv, HeldInv, LapsedInv, SoleWorker
  <1> QED
    BY <1>1, <1>2, <1>3 DEF TimelyInv

(* A transaction is rolled back, and its worker may drop its leased list.  *)
LEMMA AbortKeepsTimely ==
  ASSUME TypeOK, TimelyInv, NEW s \in Sessions, EndTxn(s),
         UNCHANGED <<status, attempts, lease, lapsed>>,
         \A w \in Workers \ {s} : held'[w] = held[w],
         \A w \in Workers : \A j \in Jobs : held'[w][j] \in {0, held[w][j]}
  PROVE  TimelyInv'
  <1>1. /\ WriteInv(s)' /\ pc'[s] = "idle"
        /\ \A t \in Sessions \ {s} : SamePrivate(t)
    BY EndedWriteInv
  <1>2. \A t \in Sessions : WriteInv(t)'
    BY <1>1, OtherWriteInv DEF TimelyInv
  <1>3. WorkInv'
    <2> SUFFICES ASSUME NEW w \in Workers, pc'[w] \in InCall
                 PROVE  held'[w][arg'[w]] # 0
      BY DEF WorkInv
    <2>1. w # s
      BY <1>1 DEF InCall
    <2> QED
      BY <1>1, <2>1 DEF TimelyInv, WorkInv, SamePrivate, Sessions
  <1>4. HeldInv' /\ LapsedInv' /\ SoleWorker'
    BY DEF TimelyInv, HeldInv, LapsedInv, SoleWorker
  <1> QED
    BY <1>2, <1>3, <1>4 DEF TimelyInv

(* The statements of the producers and of the workers.                     *)
LEMMA EnqueueLookupTimely ==
  ASSUME TypeOK, TimelyInv, NEW p \in Producers, NEW j \in Jobs, EnqueueLookup(p, j)
  PROVE  TimelyInv'
  <1>1. p \in Sessions /\ p \notin Workers /\ TxnType /\ WriteInv(p)
    BY QueueAssumption, TxnTypeHolds DEF Sessions, TimelyInv
  <1>2. \A t \in Sessions \ {p} : SamePrivate(t)
    BY <1>1 DEF EnqueueLookup, TxnType, SamePrivate
  <1>3. WriteInv(p)'
    BY <1>1 DEF EnqueueLookup, TxnType, WriteInv, committed
  <1> QED
    BY <1>1, <1>2, <1>3, StatementKeepsTimely DEF EnqueueLookup, committed

LEMMA LeaseLockTimely ==
  ASSUME TypeOK, TimelyInv, NEW w \in Workers, LeaseLock(w)
  PROVE  TimelyInv'
  <1>1. w \in Sessions /\ TxnType /\ WriteInv(w)
    BY TxnTypeHolds DEF Sessions, TimelyInv
  <1>2. \A t \in Sessions \ {w} : SamePrivate(t)
    BY <1>1 DEF LeaseLock, TxnType, SamePrivate
  <1>3. pc'[w] = "lease_insert"
    BY <1>1 DEF LeaseLock, TxnType
  <1>4. \A j \in Jobs : \/ wr'[w][j] = "none"
                        \/ wr'[w][j] = "leased" /\ status[j] = "pending"
    BY <1>1 DEF LeaseLock, TxnType, Leasable
  <1>5. WriteInv(w)'
    BY <1>3, <1>4 DEF WriteInv, LeaseLock, committed
  <1> QED
    BY <1>1, <1>2, <1>3, <1>5, StatementKeepsTimely DEF LeaseLock, committed, InCall

LEMMA AckDeleteTimely ==
  ASSUME TypeOK, TimelyInv, NEW w \in Workers, NEW j \in Jobs, AckDelete(w, j)
  PROVE  TimelyInv'
  <1>1. w \in Sessions /\ TxnType /\ WriteInv(w)
    BY TxnTypeHolds DEF Sessions, TimelyInv
  <1>2. \A t \in Sessions \ {w} : SamePrivate(t)
    BY <1>1 DEF AckDelete, TxnType, SamePrivate
  <1>3. pc'[w] = "ack_update" /\ arg'[w] = j /\ wr'[w] = wr[w]
    BY <1>1 DEF AckDelete, TxnType
  <1>4. WriteInv(w)'
    BY <1>1, <1>3 DEF WriteInv, AckDelete, committed
  <1> QED
    BY <1>1, <1>2, <1>3, <1>4, StatementKeepsTimely DEF AckDelete, committed

LEMMA AckUpdateTimely ==
  ASSUME TypeOK, ArgIsJob, TimelyInv, NEW w \in Workers, AckUpdate(w)
  PROVE  TimelyInv'
  <1>1. w \in Sessions /\ TxnType /\ WriteInv(w) /\ arg[w] \in Jobs
    BY TxnTypeHolds DEF Sessions, TimelyInv, AckUpdate, ArgIsJob
  <1>2. \A t \in Sessions \ {w} : SamePrivate(t)
    BY <1>1 DEF AckUpdate, TxnType, SamePrivate
  <1>3. pc'[w] = "ack_commit" /\ arg'[w] = arg[w]
    BY <1>1 DEF AckUpdate, TxnType
  <1>4. /\ \A j \in Jobs \ {arg[w]} : wr'[w][j] = "none"
        /\ \/ wr'[w][arg[w]] = "none"
           \/ wr'[w][arg[w]] = "completed" /\ status[arg[w]] = "leased"
    BY <1>1 DEF AckUpdate, TxnType, WriteInv
  <1>5. WriteInv(w)'
    BY <1>1, <1>3, <1>4 DEF WriteInv, AckUpdate, committed
  <1>6. held[w][arg'[w]] # 0
    BY <1>3 DEF TimelyInv, WorkInv, AckUpdate, InCall
  <1> QED
    BY <1>1, <1>2, <1>5, <1>6, StatementKeepsTimely DEF AckUpdate, committed

LEMMA NackReadTimely ==
  ASSUME TypeOK, TimelyInv, NEW w \in Workers, NEW j \in Jobs, NackRead(w, j)
  PROVE  TimelyInv'
  <1>1. w \in Sessions /\ TxnType /\ WriteInv(w)
    BY TxnTypeHolds DEF Sessions, TimelyInv
  <1>2. status[j] = "leased"
    BY Zenon DEF TimelyInv, HeldInv, NackRead
  <1>3. \A t \in Sessions \ {w} : SamePrivate(t)
    BY <1>1 DEF NackRead, TxnType, SamePrivate
  <1>4. pc'[w] = "nack_delete" /\ arg'[w] = j /\ wr'[w] = wr[w]
    BY <1>1, <1>2 DEF NackRead, TxnType
  <1>5. WriteInv(w)'
    BY <1>1, <1>4 DEF WriteInv, NackRead, committed
  <1> QED
    BY <1>1, <1>2, <1>3, <1>4, <1>5, StatementKeepsTimely DEF NackRead, committed

LEMMA NackDeleteTimely ==
  ASSUME TypeOK, TimelyInv, NEW w \in Workers, NackDelete(w)
  PROVE  TimelyInv'
  <1>1. w \in Sessions /\ TxnType /\ WriteInv(w)
    BY TxnTypeHolds DEF Sessions, TimelyInv
  <1>2. \A t \in Sessions \ {w} : SamePrivate(t)
    BY <1>1 DEF NackDelete, TxnType, SamePrivate
  <1>3. pc'[w] = "nack_update" /\ arg'[w] = arg[w] /\ wr'[w] = wr[w]
    BY <1>1 DEF NackDelete, TxnType
  <1>4. WriteInv(w)'
    BY <1>1, <1>3 DEF WriteInv, NackDelete, committed
  <1>5. held[w][arg'[w]] # 0
    BY <1>3 DEF TimelyInv, WorkInv, NackDelete, InCall
  <1> QED
    BY <1>1, <1>2, <1>4, <1>5, StatementKeepsTimely DEF NackDelete, committed

(* The update that does not look at the status: HeldInv knows it.          *)
LEMMA NackUpdateTimely ==
  ASSUME TypeOK, ArgIsJob, TimelyInv, NEW w \in Workers, NackUpdate(w)
  PROVE  TimelyInv'
  <1>1. w \in Sessions /\ TxnType /\ WriteInv(w) /\ arg[w] \in Jobs
    BY TxnTypeHolds DEF Sessions, TimelyInv, NackUpdate, ArgIsJob
  <1>2. \A t \in Sessions \ {w} : SamePrivate(t)
    BY <1>1 DEF NackUpdate, TxnType, SamePrivate
  <1>3. pc'[w] = "nack_commit" /\ arg'[w] = arg[w]
    BY <1>1 DEF NackUpdate, TxnType
  <1>4. held[w][arg[w]] # 0
    BY DEF TimelyInv, WorkInv, NackUpdate, InCall
  <1>5. status[arg[w]] = "leased"
    BY <1>1, <1>4, Zenon DEF TimelyInv, HeldInv
  <1>6. /\ \A j \in Jobs \ {arg[w]} : wr'[w][j] = "none"
        /\ wr'[w][arg[w]] \in {"pending", "dead"}
    BY <1>1 DEF NackUpdate, TxnType, WriteInv
  <1>7. WriteInv(w)'
    BY <1>1, <1>3, <1>5, <1>6 DEF WriteInv, NackUpdate, committed
  <1> QED
    BY <1>1, <1>2, <1>3, <1>4, <1>7, StatementKeepsTimely DEF NackUpdate, committed

(* The statements of the reaper.                                           *)
LEMMA ReaperTimely ==
  ASSUME TypeOK, TimelyInv, NEW r \in Reapers,
         ReapStart(r) \/ \E j \in Jobs : ReapDelete(r, j) \/ ReapRevive(r, j),
         del[r] = {} \/ pc[r] = "reap"
  PROVE  TimelyInv'
  <1>1. r \in Sessions /\ r \notin Workers /\ TxnType /\ WriteInv(r)
    BY QueueAssumption, TxnTypeHolds DEF Sessions, TimelyInv
  <1>2. CASE ReapStart(r)
    <2>1. \A t \in Sessions \ {r} : SamePrivate(t)
      BY <1>1, <1>2 DEF ReapStart, ReapFrom, TxnType, SamePrivate
    <2>2. /\ pc'[r] = "reap" /\ wr'[r] = wr[r] /\ del'[r] = {}
          /\ \A j \in Jobs : seen'[r][j] # 0 => <<j, seen'[r][j]>> \in lapsed
      BY <1>1, <1>2 DEF ReapStart, ReapFrom, TxnType
    <2>3. WriteInv(r)'
      BY <1>1, <1>2, <2>2 DEF WriteInv, ReapStart, ReapFrom, committed
    <2> QED
      BY <1>1, <1>2, <2>1, <2>3, StatementKeepsTimely DEF ReapStart, ReapFrom, committed
  <1>3. ASSUME NEW j \in Jobs, ReapDelete(r, j)
        PROVE  TimelyInv'
    <2>1. \A t \in Sessions \ {r} : SamePrivate(t)
      BY <1>1, <1>3 DEF ReapDelete, TxnType, SamePrivate
    <2>2. pc'[r] = "reap" /\ pc[r] = "reap" /\ wr' = wr /\ lapsed' = lapsed
          /\ lease' = lease /\ status' = status
      BY <1>3 DEF ReapDelete, committed
    <2>3. \A i \in Jobs : seen'[r][i] \in {0, seen[r][i]}
      BY <1>1, <1>3 DEF ReapDelete, TxnType
    <2>4. /\ del[r] \subseteq del'[r]
          /\ \A i \in del'[r] : i \in del[r] \/ (i = j /\ lease[j] = seen[r][j] /\ seen[r][j] # 0)
      BY <1>1, <1>3 DEF ReapDelete, TxnType
    <2>5. WriteInv(r)'
      BY <1>1, <2>2, <2>3, <2>4 DEF WriteInv
    <2> QED
      BY <1>1, <1>3, <2>1, <2>5, StatementKeepsTimely DEF ReapDelete, committed
  <1>4. ASSUME NEW j \in Jobs, ReapRevive(r, j)
        PROVE  TimelyInv'
    <2>1. \A t \in Sessions \ {r} : SamePrivate(t)
      BY <1>1, <1>4 DEF ReapRevive, TxnType, SamePrivate
    <2>2. pc'[r] = "reap" /\ pc[r] = "reap" /\ del' = del /\ lapsed' = lapsed
          /\ lease' = lease /\ status' = status /\ j \in del[r]
      BY <1>4 DEF ReapRevive, committed
    <2>3. \A i \in Jobs : seen'[r][i] \in {0, seen[r][i]}
      BY <1>1, <1>4 DEF ReapRevive, TxnType
    <2>4. \A i \in Jobs : \/ wr'[r][i] = wr[r][i]
                          \/ i = j /\ wr'[r][i] = "pending" /\ status[i] = "leased"
      BY <1>1, <1>4 DEF ReapRevive, TxnType
    <2>5. WriteInv(r)'
      BY <1>1, <2>2, <2>3, <2>4 DEF WriteInv
    <2> QED
      BY <1>1, <1>4, <2>1, <2>5, StatementKeepsTimely DEF ReapRevive, committed
  <1> QED
    BY <1>2, <1>3, <1>4

-----------------------------------------------------------------------------
(* Commits.                                                                *)

(* A commit that touches no job another worker, or this one, still holds.  *)
LEMMA PublishTimely ==
  ASSUME LeaseInv, TimelyInv, NEW s \in Sessions, Publish(s),
         UNCHANGED <<attempts, lapsed>>,
         \A w \in Workers \ {s} : held'[w] = held[w],
         \A w \in Workers : \A j \in Jobs : held'[w][j] # 0 =>
           held'[w][j] = held[w][j] /\ wr[s][j] = "none" /\ j \notin del[s]
  PROVE  TimelyInv'
  <1>0. TypeOK /\ TxnType /\ RowsExclusive /\ EndTxn(s)
    BY TxnTypeHolds DEF LeaseInv, Publish
  <1>1. /\ WriteInv(s)' /\ pc'[s] = "idle"
        /\ \A t \in Sessions \ {s} : SamePrivate(t)
    BY <1>0, EndedWriteInv
  <1>2. /\ \A j \in Jobs : wr[s][j] = "none" => status'[j] = status[j]
        /\ \A j \in Jobs : j \notin del[s] => lease'[j] = lease[j]
    BY DEF Publish
  <1>3. ASSUME NEW t \in Sessions \ {s}
        PROVE  WriteInv(t)'
    <2>1. \A j \in Jobs : wr[t][j] # "none" => status'[j] = status[j]
      BY <1>0, <1>2 DEF RowsExclusive
    <2>2. \A j \in del[t] : j \in Jobs /\ j \notin del[s]
      BY <1>0 DEF RowsExclusive, TxnType
    <2>3. \A j \in del[t] : lease'[j] = lease[j]
      BY <1>2, <2>2
    <2> QED
      BY <1>0, <1>1, <2>1, <2>3, OtherWriteInv DEF TimelyInv
  <1>4. WorkInv'
    <2> SUFFICES ASSUME NEW w \in Workers, pc'[w] \in InCall
                 PROVE  held'[w][arg'[w]] # 0
      BY DEF WorkInv
    <2>1. w # s
      BY <1>1 DEF InCall
    <2> QED
      BY <1>1, <2>1 DEF TimelyInv, WorkInv, SamePrivate, Sessions
  <1>5. HeldInv'
    BY <1>2 DEF TimelyInv, HeldInv
  <1>6. LapsedInv' /\ SoleWorker'
    BY DEF TimelyInv, LapsedInv, SoleWorker
  <1> QED
    BY <1>1, <1>3, <1>4, <1>5, <1>6 DEF TimelyInv

(* The jobs a worker's call is not about, and those other workers hold.    *)
LEMMA CallCommitTimely ==
  ASSUME LeaseInv, TimelyInv, NEW w \in Workers, Publish(w),
         UNCHANGED <<attempts, lapsed>>,
         pc[w] \in {"ack_commit", "nack_commit"},
         held' = [held EXCEPT ![w][arg[w]] = 0]
  PROVE  TimelyInv'
  <1>1. w \in Sessions /\ TypeOK /\ arg[w] \in Jobs
    BY DEF Sessions, LeaseInv, ArgIsJob
  <1>2. held \in [Workers -> [Jobs -> Nat]]
    BY <1>1 DEF TypeOK
  <1>3. /\ \A v \in Workers \ {w} : held'[v] = held[v]
        /\ held'[w][arg[w]] = 0
        /\ \A j \in Jobs \ {arg[w]} : held'[w][j] = held[w][j]
    BY <1>1, <1>2
  <1>4. held[w][arg[w]] # 0
    BY DEF TimelyInv, WorkInv, InCall
  <1>5. \A j \in Jobs \ {arg[w]} : wr[w][j] = "none" /\ j \notin del[w]
    <2>1. WriteInv(w) /\ SessionInv(w)
      BY <1>1 DEF TimelyInv, LeaseInv
    <2> QED
      BY <2>1 DEF WriteInv, SessionInv
  <1>6. \A v \in Workers : \A j \in Jobs : held'[v][j] # 0 =>
          held'[v][j] = held[v][j] /\ j # arg[w]
    BY <1>1, <1>3, <1>4 DEF TimelyInv, SoleWorker
  <1> QED
    BY <1>1, <1>3, <1>5, <1>6, PublishTimely

(* The reaper commits: it has taken only rows that had lapsed.             *)
LEMMA ReapCommitTimely ==
  ASSUME LeaseInv, TimelyInv, NEW r \in Reapers, ReapCommit(r)
  PROVE  TimelyInv'
  <1>1. r \in Sessions /\ WriteInv(r) /\ TxnType
    BY TxnTypeHolds DEF Sessions, TimelyInv, LeaseInv
  <1>2. /\ pc[r] = "reap" /\ Publish(r) /\ UNCHANGED <<attempts, lapsed, held>>
    BY DEF ReapCommit
  <1>3. \A w \in Workers : \A j \in Jobs : held[w][j] # 0 =>
          wr[r][j] = "none" /\ j \notin del[r]
    BY <1>1, <1>2, Zenon DEF TimelyInv, HeldInv, WriteInv
  <1> QED
    BY <1>1, <1>2, <1>3, PublishTimely

LEMMA EnqueueInsertTimely ==
  ASSUME TypeOK, ArgIsJob, TimelyInv, NEW p \in Producers, EnqueueInsert(p)
  PROVE  TimelyInv'
  <1>1. p \in Sessions /\ p \notin Workers /\ EndTxn(p)
    BY QueueAssumption DEF Sessions, EnqueueInsert
  <1>2. UNCHANGED <<attempts, lease, lapsed, held>>
    BY DEF EnqueueInsert
  <1>3. \A j \in Jobs : status[j] # "absent" => status'[j] = status[j]
    <2>1. status \in [Jobs -> Statuses]
      BY DEF TypeOK
    <2> QED
      BY <2>1 DEF EnqueueInsert
  <1>4. /\ WriteInv(p)' /\ pc'[p] = "idle"
        /\ \A t \in Sessions \ {p} : SamePrivate(t)
    BY <1>1, EndedWriteInv
  <1>5. ASSUME NEW t \in Sessions \ {p}
        PROVE  WriteInv(t)'
    <2>1. WriteInv(t)
      BY DEF TimelyInv
    <2>2. \A j \in Jobs : wr[t][j] # "none" => status'[j] = status[j]
      BY <1>3, <2>1 DEF WriteInv
    <2> QED
      BY <1>2, <1>4, <2>1, <2>2, OtherWriteInv
  <1>6. WorkInv'
    BY <1>1, <1>2, <1>4 DEF TimelyInv, WorkInv, SamePrivate, Sessions
  <1>7. HeldInv' /\ LapsedInv' /\ SoleWorker'
    BY <1>2, <1>3 DEF TimelyInv, HeldInv, LapsedInv, SoleWorker
  <1> QED
    BY <1>4, <1>5, <1>6, <1>7 DEF TimelyInv

LEMMA LeaseInsertTimely ==
  ASSUME LeaseInv, TimelyInv, NEW w \in Workers, LeaseInsert(w)
  PROVE  TimelyInv'
  <1> DEFINE B == {j \in Jobs : wr[w][j] = "leased"}
  <1>0. w \in Sessions /\ TypeOK /\ TxnType /\ RowsExclusive /\ EndTxn(w)
    BY TxnTypeHolds DEF Sessions, LeaseInv, LeaseInsert
  <1>1. CASE UNCHANGED <<status, attempts, lease, held>>
    BY <1>0, <1>1, AbortKeepsTimely DEF LeaseInsert
  <1>2. CASE /\ status' = [j \in Jobs |-> IF j \in B THEN "leased" ELSE status[j]]
             /\ attempts' = [j \in Jobs |-> IF j \in B THEN attempts[j] + 1
                                                       ELSE attempts[j]]
             /\ lease' = [j \in Jobs |-> IF j \in B THEN attempts[j] + 1
                                                    ELSE lease[j]]
             /\ held' = [held EXCEPT ![w] =
                  [j \in Jobs |-> IF j \in B THEN attempts[j] + 1 ELSE 0]]
    <2>1. /\ WriteInv(w)' /\ pc'[w] = "idle"
          /\ \A t \in Sessions \ {w} : SamePrivate(t)
      BY <1>0, EndedWriteInv
    <2>2. \A j \in B : j \in Jobs /\ status[j] = "pending"
      BY <1>0 DEF TimelyInv, WriteInv
    <2>3. \A t \in Sessions \ {w} :
            /\ \A j \in Jobs : wr[t][j] # "none" => j \notin B
            /\ \A j \in del[t] : j \in Jobs /\ j \notin B
      BY <1>0 DEF RowsExclusive, LeaseInsert, LeaseFree, TxnType
    <2>4. /\ \A j \in Jobs \ B : /\ status'[j] = status[j] /\ lease'[j] = lease[j]
                                 /\ attempts'[j] = attempts[j]
          /\ \A j \in B : /\ status'[j] = "leased" /\ lease'[j] = attempts[j] + 1
                          /\ attempts'[j] = attempts[j] + 1
      BY <1>2
    <2>5. /\ \A v \in Workers \ {w} : held'[v] = held[v]
          /\ \A j \in B : held'[w][j] = attempts[j] + 1
          /\ \A j \in Jobs \ B : held'[w][j] = 0
      BY <1>0, <1>2 DEF TypeOK
    <2>6. lapsed' = lapsed /\ \A j \in Jobs : attempts[j] \in Nat
      BY <1>0 DEF LeaseInsert, TypeOK
    <2>7. B \subseteq Jobs
      OBVIOUS
    <2> HIDE DEF B
    <2>8. ASSUME NEW t \in Sessions \ {w}
          PROVE  WriteInv(t)'
      <3>1. \A j \in Jobs : wr[t][j] # "none" => status'[j] = status[j]
        BY <2>3, <2>4
      <3>2. \A j \in del[t] : lease'[j] = lease[j]
        BY <2>3, <2>4
      <3> QED
        BY <1>0, <2>1, <2>6, <3>1, <3>2, OtherWriteInv DEF TimelyInv
    <2>9. WorkInv'
      <3> SUFFICES ASSUME NEW v \in Workers, pc'[v] \in InCall
                   PROVE  held'[v][arg'[v]] # 0
        BY DEF WorkInv
      <3>1. v # w
        BY <2>1 DEF InCall
      <3> QED
        BY <2>1, <2>5, <3>1 DEF TimelyInv, WorkInv, SamePrivate, Sessions
    <2>10. ASSUME NEW v \in Workers \ {w}, NEW j \in Jobs, held'[v][j] # 0
           PROVE  j \notin B /\ held[v][j] = held'[v][j]
      <3>1. v \in Workers /\ held'[v] = held[v]
        BY <2>5
      <3>2. status[j] = "leased"
        BY <2>10, <3>1, Zenon DEF TimelyInv, HeldInv
      <3>3. "leased" # "pending"
        OBVIOUS
      <3> QED
        BY <2>2, <3>1, <3>2, <3>3
    <2>11. HeldInv'
      <3> SUFFICES ASSUME NEW v \in Workers, NEW j \in Jobs, held'[v][j] # 0
                   PROVE  /\ status'[j] = "leased" /\ lease'[j] = held'[v][j]
                          /\ <<j, lease'[j]>> \notin lapsed
        BY <2>6 DEF HeldInv
      <3>1. CASE v # w
        BY <2>4, <2>10, <3>1 DEF TimelyInv, HeldInv
      <3>2. CASE v = w
        <4>1. j \in B
          BY <2>5, <3>2
        <4>2. attempts[j] \in Nat /\ ~(attempts[j] + 1 <= attempts[j])
          BY <2>6
        <4>3. <<j, attempts[j] + 1>> \notin lapsed
          BY <4>2 DEF TimelyInv, LapsedInv
        <4> QED
          BY <2>4, <2>5, <3>2, <4>1, <4>3
      <3> QED
        BY <3>1, <3>2
    <2>12. SoleWorker'
      BY <2>5, <2>10 DEF TimelyInv, SoleWorker
    <2>13. LapsedInv'
      <3> SUFFICES ASSUME NEW j \in Jobs, NEW n \in Nat, <<j, n>> \in lapsed
                   PROVE  n <= attempts'[j]
        BY <2>6 DEF LapsedInv
      <3>1. n <= attempts[j] /\ attempts[j] \in Nat
        BY <2>6 DEF TimelyInv, LapsedInv
      <3>2. attempts'[j] \in {attempts[j], attempts[j] + 1}
        BY <2>4
      <3> QED
        BY <3>1, <3>2
    <2> QED
      BY <2>1, <2>8, <2>9, <2>11, <2>12, <2>13 DEF TimelyInv
  <1> QED
    BY <1>1, <1>2 DEF LeaseInsert

(* Time passes: not for a lease that a worker holds.                       *)
LEMMA LapseTimely ==
  ASSUME Timely, LeaseInv, TimelyInv, NEW j \in Jobs, NEW n \in 1..MaxAttempts,
         Lapse(j, n)
  PROVE  TimelyInv'
  <1>1. /\ UNCHANGED <<status, attempts, lease, held, pc, arg, seen, del, wr>>
        /\ lapsed' = lapsed \cup {<<j, n>>}
        /\ \A w \in Workers : held[w][j] # n
    BY DEF Lapse, committed, txn
  <1>2. \A s \in Sessions : WriteInv(s)'
    BY <1>1, OtherWriteInv DEF TimelyInv, SamePrivate, LeaseInv
  <1>3. HeldInv'
    BY <1>1 DEF TimelyInv, HeldInv
  <1>4. LapsedInv'
    <2>1. n \in Nat /\ n # 0 /\ lease[j] = n
      BY <1>1, QueueAssumption DEF Lapse
    <2>2. n <= attempts[j]
      BY <2>1 DEF LeaseInv, LeaseIsLatest
    <2> QED
      BY <1>1, <2>2 DEF TimelyInv, LapsedInv
  <1>5. WorkInv' /\ SoleWorker'
    BY <1>1 DEF TimelyInv, WorkInv, SoleWorker
  <1> QED
    BY <1>2, <1>3, <1>4, <1>5 DEF TimelyInv

LEMMA NextTimely ==
  ASSUME Timely, LeaseInv, TimelyInv, [Next]_vars
  PROVE  TimelyInv'
  <1>0. TypeOK /\ ArgIsJob
    BY DEF LeaseInv
  <1>1. ASSUME NEW p \in Producers, queue_enqueue(p)
        PROVE  TimelyInv'
    BY <1>0, <1>1, EnqueueLookupTimely, EnqueueInsertTimely DEF queue_enqueue
  <1>2. ASSUME NEW w \in Workers, queue_lease(w)
        PROVE  TimelyInv'
    BY <1>0, <1>2, LeaseLockTimely, LeaseInsertTimely DEF queue_lease
  <1>3. ASSUME NEW w \in Workers, AckCommit(w) \/ NackCommit(w)
        PROVE  TimelyInv'
    BY <1>3, CallCommitTimely DEF AckCommit, NackCommit
  <1>4. ASSUME NEW w \in Workers, queue_ack(w) \/ queue_nack(w)
        PROVE  TimelyInv'
    BY <1>0, <1>3, <1>4, AckDeleteTimely, AckUpdateTimely, NackReadTimely,
       NackDeleteTimely, NackUpdateTimely DEF queue_ack, queue_nack
  <1>5. ASSUME NEW r \in Reapers, queue_reap_expired_leases(r)
        PROVE  TimelyInv'
    <2>1. CASE ReapCommit(r)
      BY <2>1, ReapCommitTimely
    <2>2. CASE ReapStart(r) \/ \E j \in Jobs : ReapDelete(r, j) \/ ReapRevive(r, j)
      <3>1. pc[r] \in {"idle", "reap"}
        BY <2>2 DEF ReapStart, ReapFrom, ReapDelete, ReapRevive
      <3>2. del[r] = {} \/ pc[r] = "reap"
        BY <3>1 DEF LeaseInv, SessionInv, Sessions
      <3> QED
        BY <1>0, <2>2, <3>2, ReaperTimely
    <2> QED
      BY <1>5, <2>1, <2>2 DEF queue_reap_expired_leases
  <1>6. ASSUME NEW s \in Sessions, EndTxn(s), UNCHANGED <<status, attempts, lease, lapsed>>,
               held' = held \/ (s \in Workers /\ held' = [held EXCEPT ![s] = Nothing])
        PROVE  TimelyInv'
    <2>1. held \in [Workers -> [Jobs -> Nat]]
      BY <1>0 DEF TypeOK
    <2>2. /\ \A w \in Workers \ {s} : held'[w] = held[w]
          /\ \A w \in Workers : \A j \in Jobs : held'[w][j] \in {0, held[w][j]}
      BY <1>6, <2>1 DEF Nothing
    <2> QED
      BY <1>0, <1>6, <2>2, AbortKeepsTimely
  <1>7. ASSUME NEW s \in Sessions, Rollback(s) \/ DeadlockAbort(s)
        PROVE  TimelyInv'
    BY <1>6, <1>7 DEF Rollback, DeadlockAbort, HandleError, committed
  <1>8. ASSUME NEW w \in Workers, Crash(w)
        PROVE  TimelyInv'
    BY <1>6, <1>8, Zenon DEF Crash, committed, Sessions
  <1>9. CASE UNCHANGED vars
    <2>1. \A s \in Sessions : WriteInv(s)'
      BY <1>0, <1>9, OtherWriteInv DEF TimelyInv, SamePrivate, vars
    <2> QED
      BY <1>9, <2>1 DEF TimelyInv, HeldInv, WorkInv, LapsedInv, SoleWorker, vars
  <1> QED
    BY <1>1, <1>2, <1>4, <1>5, <1>7, <1>8, <1>9, LapseTimely DEF Next

LEMMA TimelyInvHolds ==
  ASSUME Timely
  PROVE  Spec => []TimelyInv
  <1>1. Init => TimelyInv
    BY DEF Init, TimelyInv, WriteInv, HeldInv, WorkInv, LapsedInv, SoleWorker,
           Nothing, NoWrites, Sessions, InCall
  <1>2. LeaseInv /\ TimelyInv /\ [Next]_vars => TimelyInv'
    BY NextTimely
  <1> QED
    BY <1>1, <1>2, LeaseInvHolds, PTL DEF Spec

(* Two workers never work on the same job while every worker finishes      *)
(* inside its visibility window, whatever transactions are rolled back,    *)
(* chosen as deadlock victims or lost in a crash.                          *)
THEOREM TimelyWorkersAreAlone ==
  ASSUME Timely
  PROVE  Spec => []SoleWorker
  BY TimelyInvHolds, PTL DEF TimelyInv

-----------------------------------------------------------------------------
(* The refinement.                                                         *)

(* A commit that moves the jobs of S from "leased" to one status.          *)
LEMMA PublishMoves ==
  ASSUME TypeOK, NEW s \in Sessions, Publish(s), NEW S \in SUBSET Jobs, NEW to,
         to # "none",
         \A j \in S : wr[s][j] = to /\ status[j] = "leased",
         \A j \in Jobs \ S : wr[s][j] = "none"
  PROVE  Abstract!Move(S, "leased", to)
  BY DEF Abstract!Move, Publish

(* A commit that writes no job row.                                        *)
LEMMA PublishNothing ==
  ASSUME TypeOK, NEW s \in Sessions, Publish(s),
         \A j \in Jobs : wr[s][j] = "none"
  PROVE  status' = status
  BY DEF TypeOK, Publish

LEMMA AckIsComplete ==
  ASSUME LeaseInv, TimelyInv, NEW w \in Workers, AckCommit(w)
  PROVE  (\E j \in Jobs : Abstract!Complete(j)) \/ UNCHANGED Abstract!vars
  <1>1. /\ w \in Sessions /\ TypeOK /\ arg[w] \in Jobs /\ WriteInv(w)
        /\ Publish(w) /\ UNCHANGED <<attempts, dlq>> /\ pc[w] = "ack_commit"
    BY DEF Sessions, LeaseInv, TimelyInv, ArgIsJob, AckCommit
  <1>2. CASE wr[w][arg[w]] = "none"
    <2>1. status' = status
      BY <1>1, <1>2, PublishNothing DEF WriteInv
    <2> QED
      BY <1>1, <2>1 DEF Abstract!vars
  <1>3. CASE wr[w][arg[w]] = "completed"
    <2>1. Abstract!Move({arg[w]}, "leased", "completed")
      BY <1>1, <1>3, PublishMoves DEF WriteInv
    <2> QED
      BY <1>1, <2>1, Zenon DEF Abstract!Complete
  <1> QED
    BY <1>1, <1>2, <1>3 DEF WriteInv

LEMMA NackIsRetryOrBury ==
  ASSUME LeaseInv, DeadInv, TimelyInv, NEW w \in Workers, NackCommit(w)
  PROVE  \/ \E j \in Jobs : Abstract!Bury(j)
         \/ \E S \in SUBSET Jobs : Abstract!Reclaim(S)
  <1>1. /\ w \in Sessions /\ TypeOK /\ arg[w] \in Jobs /\ WriteInv(w) /\ NackInv(w)
        /\ Publish(w) /\ attempts' = attempts /\ pc[w] = "nack_commit"
    BY DEF Sessions, LeaseInv, DeadInv, TimelyInv, ArgIsJob, NackCommit
  <1>2. dlq' = [dlq EXCEPT ![arg[w]] = IF wr[w][arg[w]] = "dead" THEN @ + 1 ELSE @]
    BY DEF NackCommit
  <1>3. CASE wr[w][arg[w]] = "dead"
    <2>1. Abstract!Move({arg[w]}, "leased", "dead")
      BY <1>1, <1>3, PublishMoves DEF WriteInv
    <2> QED
      BY <1>1, <1>2, <1>3, <2>1, Zenon DEF Abstract!Bury, NackInv
  <1>4. CASE wr[w][arg[w]] = "pending"
    <2>1. Abstract!Move({arg[w]}, "leased", "pending")
      BY <1>1, <1>4, PublishMoves DEF WriteInv
    <2>2. dlq' = dlq
      BY <1>1, <1>2, <1>4 DEF TypeOK
    <2> QED
      BY <1>1, <2>1, <2>2 DEF Abstract!Reclaim
  <1> QED
    BY <1>1, <1>3, <1>4 DEF WriteInv

LEMMA ReapIsReclaim ==
  ASSUME LeaseInv, TimelyInv, NEW r \in Reapers, ReapCommit(r)
  PROVE  \E S \in SUBSET Jobs : Abstract!Reclaim(S)
  <1> DEFINE S == {j \in Jobs : wr[r][j] = "pending"}
  <1>1. /\ r \in Sessions /\ TypeOK /\ WriteInv(r) /\ Publish(r)
        /\ UNCHANGED <<attempts, dlq>> /\ pc[r] = "reap"
    BY DEF Sessions, LeaseInv, TimelyInv, ReapCommit
  <1>2. /\ \A j \in S : wr[r][j] = "pending" /\ status[j] = "leased"
        /\ \A j \in Jobs \ S : wr[r][j] = "none"
    BY <1>1 DEF WriteInv
  <1>3. Abstract!Move(S, "leased", "pending")
    BY <1>1, <1>2, PublishMoves
  <1> QED
    BY <1>1, <1>3 DEF Abstract!Reclaim

LEMMA LeaseIsLease ==
  ASSUME LeaseInv, TimelyInv, NEW w \in Workers, LeaseInsert(w)
  PROVE  (\E S \in SUBSET Jobs : Abstract!Lease(S)) \/ UNCHANGED Abstract!vars
  <1> DEFINE B == {j \in Jobs : wr[w][j] = "leased"}
  <1>1. w \in Sessions /\ WriteInv(w) /\ dlq' = dlq
    BY DEF Sessions, TimelyInv, LeaseInsert
  <1>2. CASE UNCHANGED <<status, attempts>>
    BY <1>1, <1>2 DEF Abstract!vars
  <1>3. CASE /\ status' = [j \in Jobs |-> IF j \in B THEN "leased" ELSE status[j]]
             /\ attempts' = [j \in Jobs |-> IF j \in B THEN attempts[j] + 1
                                                       ELSE attempts[j]]
    <2>1. \A j \in B : status[j] = "pending"
      BY <1>1 DEF WriteInv
    <2>2. B \in SUBSET Jobs
      OBVIOUS
    <2> HIDE DEF B
    <2>3. Abstract!Lease(B)
      BY <1>1, <1>3, <2>1 DEF Abstract!Lease, Abstract!Move
    <2> QED
      BY <2>2, <2>3
  <1> QED
    BY <1>2, <1>3 DEF LeaseInsert

LEMMA EnqueueIsEnqueue ==
  ASSUME TypeOK, ArgIsJob, NEW p \in Producers, EnqueueInsert(p)
  PROVE  (\E j \in Jobs : Abstract!Enqueue(j)) \/ UNCHANGED Abstract!vars
  <1>1. arg[p] \in Jobs /\ UNCHANGED <<attempts, dlq>>
    BY DEF EnqueueInsert, ArgIsJob, Sessions
  <1>2. CASE status' = status
    BY <1>1, <1>2 DEF Abstract!vars
  <1>3. CASE status[arg[p]] = "absent" /\ status' = [status EXCEPT ![arg[p]] = "pending"]
    <2>1. status \in [Jobs -> Statuses]
      BY DEF TypeOK
    <2>2. Abstract!Move({arg[p]}, "absent", "pending")
      BY <1>1, <1>3, <2>1, Zenon DEF Abstract!Move
    <2> QED
      BY <1>1, <2>2, Zenon DEF Abstract!Enqueue
  <1> QED
    BY <1>2, <1>3 DEF EnqueueInsert

(* Every step of the queue is a step of AbstractQueue or changes nothing a *)
(* user sees.                                                              *)
LEMMA StepSimulates ==
  ASSUME LeaseInv, DeadInv, TimelyInv, [Next]_vars
  PROVE  [Abstract!Next]_(Abstract!vars)
  <1>1. \/ UNCHANGED <<status, attempts, dlq>>
        \/ \E p \in Producers : EnqueueInsert(p)
        \/ \E w \in Workers : LeaseInsert(w) \/ AckCommit(w) \/ NackCommit(w)
        \/ \E r \in Reapers : ReapCommit(r)
    <2>1. ASSUME NEW p \in Producers, queue_enqueue(p)
          PROVE  UNCHANGED <<status, attempts, dlq>> \/ EnqueueInsert(p)
      BY <2>1 DEF queue_enqueue, EnqueueLookup, committed
    <2>2. ASSUME NEW w \in Workers, queue_lease(w)
          PROVE  UNCHANGED <<status, attempts, dlq>> \/ LeaseInsert(w)
      BY <2>2 DEF queue_lease, LeaseLock, committed
    <2>3. ASSUME NEW w \in Workers, queue_ack(w)
          PROVE  UNCHANGED <<status, attempts, dlq>> \/ AckCommit(w)
      BY <2>3 DEF queue_ack, AckDelete, AckUpdate, committed
    <2>4. ASSUME NEW w \in Workers, queue_nack(w)
          PROVE  UNCHANGED <<status, attempts, dlq>> \/ NackCommit(w)
      BY <2>4 DEF queue_nack, NackRead, NackDelete, NackUpdate, committed
    <2>5. ASSUME NEW r \in Reapers, queue_reap_expired_leases(r)
          PROVE  UNCHANGED <<status, attempts, dlq>> \/ ReapCommit(r)
      BY <2>5 DEF queue_reap_expired_leases, ReapStart, ReapFrom, ReapDelete,
                  ReapRevive, committed
    <2>6. CASE \/ \E j \in Jobs : \E n \in 1..MaxAttempts : Lapse(j, n)
               \/ \E s \in Sessions : Rollback(s) \/ DeadlockAbort(s)
               \/ \E w \in Workers : Crash(w)
      BY <2>6, Zenon DEF Lapse, Rollback, DeadlockAbort, Crash, committed
    <2>7. CASE UNCHANGED vars
      BY <2>7 DEF vars, committed
    <2> QED
      BY <2>1, <2>2, <2>3, <2>4, <2>5, <2>6, <2>7 DEF Next
  <1>2. CASE UNCHANGED <<status, attempts, dlq>>
    BY <1>2 DEF Abstract!vars
  <1>3. TypeOK /\ ArgIsJob
    BY DEF LeaseInv
  <1> QED
    BY <1>1, <1>2, <1>3, EnqueueIsEnqueue, LeaseIsLease, AckIsComplete,
       NackIsRetryOrBury, ReapIsReclaim DEF Abstract!Next

(* While workers are timely the queue implements AbstractQueue: to its     *)
(* users the functions of the queue are atomic calls.                      *)
THEOREM TimelyQueueIsAtomic ==
  ASSUME Timely
  PROVE  Spec => ImplementsAbstractQueue
  <1>1. Init => Abstract!Init
    BY DEF Init, Nothing, Abstract!Init
  <1>2. LeaseInv /\ DeadInv /\ TimelyInv /\ [Next]_vars
          => [Abstract!Next]_(Abstract!vars)
    BY StepSimulates
  <1> QED
    BY <1>1, <1>2, LeaseInvHolds, DeadInvHolds, TimelyInvHolds, PTL
    DEF Spec, ImplementsAbstractQueue, Abstract!Spec

=============================================================================
