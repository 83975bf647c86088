-------------------------- MODULE QueueRefinement ---------------------------
(***************************************************************************)
(* The job table as a user of the durable queue sees it: the rows of       *)
(* malu$queue_job and of the dead-letter queue.  Lease rows, row locks and *)
(* the intermediate statements of the calls are not part of it.            *)
(***************************************************************************)
EXTENDS Queue

Abstract == INSTANCE AbstractQueue
              WITH state <- status, tries <- attempts, letters <- dlq

(* While workers are timely, the five functions of the queue, run statement *)
(* by statement with rollbacks, crashes and deadlock victims, look like     *)
(* atomic calls: a settled job stays settled and it dies with exactly one   *)
(* dead letter, after its last attempt.                                     *)
ImplementsAbstractQueue == Abstract!Spec

=============================================================================
