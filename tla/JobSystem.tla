----------------------------- MODULE JobSystem ------------------------------
(***************************************************************************)
(* A technical-document job from its creation to its result: the row and   *)
(* the requests of the API (JobRecord) and the Celery worker that runs its *)
(* task (DocumentWorker), joined by the result backend and the revocation. *)
(***************************************************************************)
EXTENDS JobRecord, DocumentWorker

systemVars == <<recordVars, workerVars>>

ownVars == <<circuits, attemptVars, losses, kept, cached, carried, document>>

SystemInit == RecordInit /\ WorkerInit

(* apply_async: the message of the task is queued. *)
SendJob ==
  /\ DispatchSends
  /\ delivery' = "queued"
  /\ UNCHANGED <<circuits, retries, proc, draft, answer, losses, kept, cached,
                 carried, document>>

ApiStep ==
  /\ \/ Create \/ DispatchNothing \/ DispatchFails \/ Bind \/ DispatchDies
     \/ EagerStep
     \/ \E r \in Requests : RequestStep(r)
  /\ UNCHANGED ownVars

Work == WorkerActions /\ UNCHANGED recordVars

SystemNext == SendJob \/ ApiStep \/ Work

SystemSpec ==
  /\ SystemInit /\ [][SystemNext]_systemVars
  /\ WorkerFairness /\ DispatchFairness /\ RequestFairness

(* Every variable keeps its type; a message is under way exactly while the  *)
(* task is unfinished.                                                      *)
SystemTypeOK ==
  /\ TaskTypeOK /\ RecordTypeOK
  /\ circuits \in [Providers -> Breaker]
  /\ delivery \in {"none", "queued", "running"}
  /\ (delivery # "none") = (backend \in Unfinished)
  /\ (proc \in Procs) = (delivery = "running")

=============================================================================
