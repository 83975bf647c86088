-------------------------- MODULE PageIndexWorker --------------------------
(***************************************************************************)
(* maludb-pageindexd: the loop that leases jobs of the queue               *)
(* pageindex_build, builds the page-index tree of each and acknowledges    *)
(* it, on one psycopg connection that is not in autocommit mode.           *)
(*                                                                         *)
(* `with conn.transaction()' is a transaction when none is open (BEGIN ... *)
(* COMMIT) and a savepoint inside the one that is.  A statement outside    *)
(* such a block opens a transaction; nothing in the service commits it.    *)
(* What a session has written and not committed is in the two drafts.      *)
(*                                                                         *)
(* One worker; its tree's nodes and audit rows are not told apart.  The    *)
(* worker is done with a job inside the job's visibility window.           *)
(***************************************************************************)
EXTENDS Naturals, FiniteSets, FiniteSetsExt, TLC

CONSTANTS
  Jobs,         \* jobs of the queue; each has a tree of its own
  MaxRetries,   \* malu$queue.max_retries, 3 as registered
  Batch,        \* batch_size of the loop, 1 by default
  MaxAttempts,  \* bound: leases handed out per job
  MaxFaults     \* bound: failing statements and lost connections

\* What is wrong with a job, if anything.
Kinds == {"good", "bad_payload", "no_source", "unparsable", "unsummarizable"}

VARIABLES
  kind,
  job,        \* job[j]: status and attempts of malu$queue_job, as committed
  tree,       \* tree[j]: malu$page_index_tree.build_status, as committed
  conn,       \* "none", "idle", "intrans" or "inerror"
  jobDraft,   \* jobs written by the open transaction
  treeDraft,  \* trees written by the open transaction
  at,         \* the next statement of the loop
  leased,     \* the rest of the list _drain goes through
  acked,      \* history: jobs whose build succeeded and whose queue_ack ran
  faults

database == <<job, tree, conn, jobDraft, treeDraft>>
vars == <<kind, database, at, leased, acked, faults>>

Nothing == << >>

Init ==
  /\ kind \in [Jobs -> Kinds]
  /\ job = [j \in Jobs |-> [status |-> "pending", attempts |-> 0]]
  /\ tree = [j \in Jobs |-> "pending"]
  /\ conn = "none" /\ jobDraft = Nothing /\ treeDraft = Nothing
  /\ at = "connect" /\ leased = {}
  /\ acked = {} /\ faults = 0

-----------------------------------------------------------------------------
(* Transactions.                                                           *)

\* The worker's session sees what is committed and what it has written.
SeesJob(j) == (jobDraft @@ job)[j]
SeesTree(j) == (treeDraft @@ tree)[j]

\* A block that writes these jobs and trees.
Block(jobs, trees) ==
  \/ /\ conn = "idle"
     /\ job' = jobs @@ job /\ tree' = trees @@ tree
     /\ UNCHANGED <<conn, jobDraft, treeDraft>>
  \/ /\ conn = "intrans"
     /\ jobDraft' = jobs @@ jobDraft /\ treeDraft' = trees @@ treeDraft
     /\ UNCHANGED <<job, tree, conn>>

\* Where an exception goes: out of build_tree to the handler in _drain; from
\* the nodes to _mark_failed, which keeps its own to itself; out of _drain.
Handler ==
  [lease |-> "connect", mark |-> "nack_raised", fetch |-> "nack_raised",
   structure |-> "nack_raised", nodes |-> "fail", ready |-> "nack_raised",
   fail |-> "nack", ack |-> "nack_raised", nack |-> "nack_raised",
   nack_raised |-> "connect"]

Goto(where) ==
  /\ at' = where
  /\ leased' = IF where = "connect" THEN {} ELSE leased

Raise == Goto(Handler[at]) /\ UNCHANGED <<database, acked>>

\* The first of the list.
Doing == CHOOSE j \in leased : TRUE

JobDone == at' = "next" /\ leased' = leased \ {Doing}

-----------------------------------------------------------------------------
(* _drain.                                                                 *)

connect ==
  /\ at = "connect"
  /\ conn' = IF conn = "none" THEN "idle" ELSE conn
  /\ Goto("lease")
  /\ UNCHANGED <<job, tree, jobDraft, treeDraft, acked>>

Pending ==
  {j \in Jobs : SeesJob(j).status = "pending" /\ SeesJob(j).attempts < MaxAttempts}

Lease ==
  /\ at = "lease"
  /\ \E B \in kSubset(Min({Batch, Cardinality(Pending)}), Pending) :
       /\ Block([j \in B |-> [status |-> "leased",
                              attempts |-> SeesJob(j).attempts + 1]], Nothing)
       /\ leased' = B
       /\ at' = IF B = {} THEN "connect" ELSE "next"
  /\ UNCHANGED acked

\* The payload's fields and the parser are looked at before any statement.
NextJob ==
  /\ at = "next"
  /\ Goto(IF leased = {} THEN "connect"
          ELSE IF kind[Doing] = "bad_payload" THEN "nack_raised"
          ELSE "mark")
  /\ UNCHANGED <<database, acked>>

Ack ==
  /\ at = "ack"
  /\ Block(IF SeesJob(Doing).status = "leased"
           THEN Doing :> [SeesJob(Doing) EXCEPT !.status = "completed"]
           ELSE Nothing,
           Nothing)
  /\ acked' = acked \cup {Doing}
  /\ JobDone

\* Raises for a job that is not leased.
_nack ==
  /\ at \in {"nack", "nack_raised"}
  /\ LET row == SeesJob(Doing) IN
     \/ /\ row.status = "leased"
        /\ Block(Doing :> [row EXCEPT !.status = IF row.attempts >= MaxRetries
                                                 THEN "dead" ELSE "pending"],
                 Nothing)
        /\ JobDone
        /\ UNCHANGED acked
     \/ row.status # "leased" /\ Raise

-----------------------------------------------------------------------------
(* build_tree.                                                             *)

\* A block that moves the tree to a status, and raises if it is in none of
\* those it may come from.
Mark(from, to, where) ==
  \/ /\ SeesTree(Doing) \in from
     /\ Block(Nothing, Doing :> to)
     /\ Goto(where)
     /\ UNCHANGED acked
  \/ SeesTree(Doing) \notin from /\ Raise

MarkBuilding == at = "mark" /\ Mark({"pending", "failed"}, "building", "fetch")

\* A SELECT that is in no block.
_fetch_source ==
  /\ at = "fetch" /\ conn # "inerror"
  /\ conn' = "intrans"
  /\ Goto(IF kind[Doing] = "no_source" THEN "nack_raised"
          ELSE IF kind[Doing] = "unparsable" THEN "fail"
          ELSE "structure")
  /\ UNCHANGED <<job, tree, jobDraft, treeDraft, acked>>

StructurePass ==
  /\ at = "structure"
  /\ Block(Nothing, Nothing)
  /\ Goto("nodes")
  /\ UNCHANGED acked

RecordNodes ==
  /\ at = "nodes"
  /\ \/ /\ kind[Doing] = "good"
        /\ Block(Nothing, Nothing)
        /\ Goto("ready")
        /\ UNCHANGED acked
     \/ kind[Doing] = "unsummarizable" /\ Raise

MarkReady == at = "ready" /\ Mark({"building"}, "ready", "ack")

_mark_failed == at = "fail" /\ Mark({"pending", "building"}, "failed", "nack")

-----------------------------------------------------------------------------
(* What goes wrong, and the reaper.                                        *)

\* psycopg enters no block in a failed transaction, and the server runs no
\* statement in it.
InFailedTransaction ==
  /\ at \in DOMAIN Handler /\ conn = "inerror"
  /\ Raise

Worker ==
  /\ \/ connect \/ Lease \/ NextJob \/ Ack \/ _nack
     \/ MarkBuilding \/ _fetch_source \/ StructurePass \/ RecordNodes
     \/ MarkReady \/ _mark_failed
     \/ InFailedTransaction
  /\ UNCHANGED <<kind, faults>>

\* In a block the statement's own writes are undone, outside one the
\* transaction is failed.
StatementFails ==
  /\ faults < MaxFaults /\ faults' = faults + 1
  /\ at \in DOMAIN Handler /\ conn # "inerror"
  /\ Goto(Handler[at])
  /\ IF at = "fetch"
     THEN conn' = "inerror" /\ jobDraft' = Nothing /\ treeDraft' = Nothing
     ELSE UNCHANGED <<conn, jobDraft, treeDraft>>
  /\ UNCHANGED <<kind, job, tree, acked>>

\* No handler gets anything done on a closed connection.
LoseConnection ==
  /\ faults < MaxFaults /\ faults' = faults + 1
  /\ conn # "none"
  /\ conn' = "none" /\ jobDraft' = Nothing /\ treeDraft' = Nothing
  /\ Goto("connect")
  /\ UNCHANGED <<kind, job, tree, acked>>

\* queue_reap_expired_leases waits for a job whose row is locked.
Reap(j) ==
  /\ job[j].status = "leased" /\ j \notin leased \cup DOMAIN jobDraft
  /\ job' = [job EXCEPT ![j].status = "pending"]
  /\ UNCHANGED <<kind, tree, conn, jobDraft, treeDraft, at, leased, acked, faults>>

Next ==
  \/ Worker \/ StatementFails \/ LoseConnection
  \/ \E j \in Jobs : Reap(j)

\* The loop runs for ever, and the reaper is run on a schedule.
Fairness == WF_vars(Worker) /\ \A j \in Jobs : WF_vars(Reap(j))

Spec == Init /\ [][Next]_vars /\ Fairness

-----------------------------------------------------------------------------

\* build_tree "opens explicit transactions per logical write batch", and
\* worker.py: "Each leased job runs through build_tree; on success queue_ack".
\* So a job that was built and acknowledged is, in the end, completed, and its
\* tree ready.  They are not: after the SELECT of _fetch_source the batches are
\* savepoints of a transaction that nobody commits.
BuildsAreKept ==
  \A j \in Jobs : j \in acked ~> job[j].status = "completed" /\ tree[j] = "ready"

=============================================================================
