----------------------------- MODULE CeleryTask -----------------------------
(***************************************************************************)
(* What the platform relies on of one Celery task: the state its result    *)
(* backend shows under the id of the job, and the request to revoke it.    *)
(* JobRecord reads and steers the task through this interface;             *)
(* DocumentWorker is a task of the code that implements it.                *)
(***************************************************************************)

VARIABLES
  backend,   \* the state of the task in the result backend
  outcome,   \* what the task returned: the status of its JobResult
  revoked    \* the workers were told to discard the task

taskVars == <<backend, outcome, revoked>>

Unfinished == {"pending", "progress", "retry"}
Ended == {"success", "failure", "revoked"}
Outcomes == {"succeeded", "failed"}

TaskTypeOK ==
  /\ backend \in {"unsent"} \cup Unfinished \cup Ended
  /\ outcome \in {"none"} \cup Outcomes
  /\ revoked \in BOOLEAN

TaskInit == backend = "unsent" /\ outcome = "none" /\ revoked = FALSE

Send ==
  /\ backend = "unsent"
  /\ backend' = "pending"
  /\ UNCHANGED <<outcome, revoked>>

RequestRevoke == revoked' = TRUE /\ UNCHANGED <<backend, outcome>>

(* update_state(PROGRESS), or Celery noting that the task is to be retried. *)
Report(state) ==
  /\ backend \in Unfinished
  /\ backend' = state
  /\ UNCHANGED <<outcome, revoked>>

(* The task function returned a JobResult. *)
Return(o) ==
  /\ backend \in Unfinished
  /\ backend' = "success"
  /\ outcome' = o
  /\ UNCHANGED revoked

(* The task raised: its retries are used up, or the hard time limit hit. *)
Raise ==
  /\ backend \in Unfinished
  /\ backend' = "failure"
  /\ UNCHANGED <<outcome, revoked>>

(* A worker that receives a revoked task drops it. *)
Discard ==
  /\ backend \in Unfinished
  /\ revoked
  /\ backend' = "revoked"
  /\ UNCHANGED <<outcome, revoked>>

WorkerStep ==
  \/ \E state \in {"progress", "retry"} : Report(state)
  \/ \E o \in Outcomes : Return(o)
  \/ Raise
  \/ Discard

TaskNext == Send \/ RequestRevoke \/ WorkerStep

TaskSpec == TaskInit /\ [][TaskNext]_taskVars

=============================================================================
