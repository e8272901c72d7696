----------------------------- MODULE JobRecord ------------------------------
(***************************************************************************)
(* The database row of one job (domains/jobs): a dispatch creates it and   *)
(* sends its Celery task, or runs the task itself when the workers are     *)
(* eager (WORKER_EAGER_MODE); GET /jobs/{id} refreshes it from the result  *)
(* backend, POST /jobs/{id}/cancel cancels it.  Every request has a        *)
(* database session of its own, which keeps the row as it read it          *)
(* (expire_on_commit is off, a second SELECT does not overwrite it) and    *)
(* whose UPDATE writes only the columns the request changed in that copy.  *)
(***************************************************************************)
EXTENDS CeleryTask

CONSTANT Requests   \* refreshes and cancellations under way at once (bound)

VARIABLES
  row,        \* the stored row; status "absent" before it is created
  dispatch,   \* the dispatching request
  reqs,       \* the other requests
  refused     \* history: the dispatcher marked the job failed by itself

recordVars == <<row, dispatch, reqs, refused>>

JobStatus == {"queued", "running", "succeeded", "failed", "cancelled"}
Row == [status : JobStatus \cup {"absent"}, bound : BOOLEAN, flag : BOOLEAN,
        result : {"none"} \cup Outcomes]

Absent == [status |-> "absent", bound |-> FALSE, flag |-> FALSE,
           result |-> "none"]

IsFinished(r) == r.status \in {"succeeded", "failed", "cancelled"}
IsCancellable(r) == r.status \in {"queued", "running"} /\ ~r.flag

(* A dispatch inside its try; the last five for an eager task.              *)
Trying == {"created", "sent", "started", "applying", "applied", "bound",
           "persisted"}

(* shown: what an eager task has reported to the result backend, where its  *)
(* end is not stored; got: what task.apply returned, "error" if that is no  *)
(* JobResult.                                                               *)
Dispatch == [at : {"idle", "done", "dead"} \cup Trying, copy : Row,
             eager : BOOLEAN, shown : {"unsent", "progress"},
             got : {"none", "error"} \cup Outcomes]

NotBegun == [at |-> "idle", copy |-> Absent, eager |-> FALSE,
             shown |-> "unsent", got |-> "none"]

Idle == [at |-> "idle", copy |-> Absent, to |-> "none"]

RecordTypeOK ==
  /\ row \in Row
  /\ dispatch \in Dispatch
  /\ reqs \in [Requests -> [at : {"idle", "loaded", "refreshing", "cancelling",
                                  "revoking"},
                            copy : Row,
                            to : {"none"} \cup JobStatus]]
  /\ refused \in BOOLEAN

RecordInit ==
  /\ row = Absent
  /\ dispatch = NotBegun
  /\ reqs = [r \in Requests |-> Idle]
  /\ refused = FALSE

-----------------------------------------------------------------------------
(* The UPDATE of a session                                                 *)

(* A column is written when the request changed it in its copy. *)
Column(mine, copied, stored) == IF mine = copied THEN stored ELSE mine

Update(copy, mine) ==
  row' = [status |-> Column(mine.status, copy.status, row.status),
          bound  |-> Column(mine.bound, copy.bound, row.bound),
          flag   |-> Column(mine.flag, copy.flag, row.flag),
          result |-> Column(mine.result, copy.result, row.result)]

WithStatus(copy, status) == [copy EXCEPT !.status = status]
AsCancelled(copy) == [copy EXCEPT !.status = "cancelled", !.flag = TRUE]

(* _persist_worker_result of a mapping; no worker of the repository returns *)
(* the status "cancelled".                                                  *)
Persisted(o) == IF o = "succeeded" THEN "succeeded" ELSE "failed"
WithOutcome(copy, o) == [copy EXCEPT !.status = Persisted(o), !.result = o]

-----------------------------------------------------------------------------
(* JobDispatcher.dispatch                                                  *)

DispatchAt(at) == dispatch' = [dispatch EXCEPT !.at = at]

(* The session of the dispatch writes the row and keeps what it wrote. *)
Save(mine, at) ==
  /\ Update(dispatch.copy, mine)
  /\ dispatch' = [dispatch EXCEPT !.at = at, !.copy = mine]

Create ==
  /\ dispatch.at = "idle"
  /\ row' = [Absent EXCEPT !.status = "queued"]
  /\ dispatch' = [dispatch EXCEPT !.at = "created", !.copy = row']
  /\ UNCHANGED <<taskVars, reqs, refused>>

(* The scene has no route, or importing the worker module raises before the *)
(* try: the row stays queued.                                               *)
DispatchNothing ==
  /\ dispatch.at = "created"
  /\ DispatchAt("done")
  /\ UNCHANGED <<taskVars, row, reqs, refused>>

(* The task is not registered, or anything in the try raises: sending the   *)
(* task, before or after the broker took it; running an eager one, which    *)
(* raises what it raised (task_eager_propagates); or saving the row.        *)
DispatchFails ==
  /\ dispatch.at \in Trying
  /\ Save(WithStatus(dispatch.copy, "failed"), "done")
  /\ refused' = TRUE
  /\ UNCHANGED <<taskVars, reqs>>

DispatchSends ==
  /\ dispatch.at = "created"
  /\ Send
  /\ DispatchAt("sent")
  /\ UNCHANGED <<row, reqs, refused>>

BindFrom(from, to) ==
  /\ dispatch.at = from
  /\ Save([dispatch.copy EXCEPT !.bound = TRUE], to)
  /\ UNCHANGED <<taskVars, reqs, refused>>

Bind == BindFrom("sent", "done")

(* The workers are eager: mark_job_started, committed ... *)
EagerStart ==
  /\ dispatch.at = "created"
  /\ Update(dispatch.copy, WithStatus(dispatch.copy, "running"))
  /\ dispatch' = [dispatch EXCEPT !.at = "started", !.eager = TRUE,
                     !.copy = WithStatus(@, "running")]
  /\ UNCHANGED <<taskVars, reqs, refused>>

(* ... and read again, before task.apply runs the task in a thread. *)
EagerApply ==
  /\ dispatch.at = "started"
  /\ dispatch' = [dispatch EXCEPT !.at = "applying", !.copy = row]
  /\ UNCHANGED <<taskVars, row, reqs, refused>>

EagerReports ==
  /\ dispatch.at = "applying"
  /\ dispatch' = [dispatch EXCEPT !.shown = "progress"]
  /\ UNCHANGED <<taskVars, row, reqs, refused>>

EagerReturns(o) ==
  /\ dispatch.at = "applying"
  /\ dispatch' = [dispatch EXCEPT !.at = "applied", !.got = o]
  /\ UNCHANGED <<taskVars, row, reqs, refused>>

EagerBind == BindFrom("applied", "bound")

EagerPersist ==
  /\ dispatch.at = "bound"
  /\ Save(IF dispatch.got = "error" THEN WithStatus(dispatch.copy, "failed")
          ELSE WithOutcome(dispatch.copy, dispatch.got), "persisted")
  /\ UNCHANGED <<taskVars, reqs, refused>>

EagerDone ==
  /\ dispatch.at = "persisted"
  /\ DispatchAt("done")
  /\ UNCHANGED <<taskVars, row, reqs, refused>>

(* The process of the API ends, or cannot write what failed. *)
DispatchDies ==
  /\ dispatch.at \in Trying
  /\ DispatchAt("dead")
  /\ UNCHANGED <<taskVars, row, reqs, refused>>

EagerStep ==
  \/ EagerStart \/ EagerApply \/ EagerReports \/ EagerBind \/ EagerPersist
  \/ EagerDone
  \/ \E o \in {"error"} \cup Outcomes : EagerReturns(o)

(* A dispatch that runs its task by itself goes on with it. *)
DispatchFairness ==
  WF_<<recordVars, taskVars>>(EagerBind \/ EagerPersist)

(* The state of the task in the result backend. *)
Shown == IF dispatch.eager THEN dispatch.shown ELSE backend

(* What became of the task: "none" as long as nothing has. *)
Came == IF dispatch.eager THEN dispatch.got
        ELSE IF backend = "failure" THEN "error" ELSE outcome

-----------------------------------------------------------------------------
(* GET /jobs/{id} and POST /jobs/{id}/cancel                               *)

Request(r, at, to) == reqs' = [reqs EXCEPT ![r].at = at, ![r].to = to]
Done(r) == reqs' = [reqs EXCEPT ![r] = Idle]

(* Reading the row, to refresh it or to cancel it. *)
Load(r) ==
  /\ reqs[r].at = "idle" /\ row.status # "absent"
  /\ reqs' = [reqs EXCEPT ![r] = [at |-> "loaded", copy |-> row,
                                  to |-> "none"]]
  /\ UNCHANGED <<taskVars, row, dispatch, refused>>

(* Mutant of Refreshed: a failed task is not looked at. *)
RefreshedNoFailure(copy) ==
  CASE Shown = "success" -> Persisted(outcome)
    [] Shown = "progress" -> "running"
    [] Shown = "retry" /\ copy.status = "queued" -> "running"
    [] Shown = "revoked" /\ IsCancellable(copy) -> "cancelled"
    [] OTHER -> "none"

(* The status a refresh writes, by the backend's state; "none": no write. *)
Refreshed(copy) ==
  CASE Shown = "success" -> Persisted(outcome)
    [] Shown = "failure" -> "failed"
    [] Shown = "progress" -> "running"
    [] Shown = "retry" /\ copy.status = "queued" -> "running"
    [] Shown = "revoked" /\ IsCancellable(copy) -> "cancelled"
    [] OTHER -> "none"

BeginRefresh(r) ==
  /\ reqs[r].at = "loaded"
  /\ LET copy == reqs[r].copy
         to == IF IsFinished(copy) \/ ~copy.bound THEN "none"
               ELSE Refreshed(copy)
     IN IF to = "none" THEN Done(r) ELSE Request(r, "refreshing", to)
  /\ UNCHANGED <<taskVars, row, dispatch, refused>>

(* What the refresh makes of its copy.  A result is written with the        *)
(* status it came with; cancelling by a refresh is cancel_job.              *)
Refresh(copy, to) ==
  CASE to = "cancelled" -> AsCancelled(copy)
    [] to \in {"succeeded", "failed"} /\ Shown = "success" ->
         WithOutcome(copy, outcome)
    [] OTHER -> WithStatus(copy, to)

FinishRefresh(r) ==
  /\ reqs[r].at = "refreshing"
  /\ Update(reqs[r].copy, Refresh(reqs[r].copy, reqs[r].to))
  /\ Done(r)
  /\ UNCHANGED <<taskVars, dispatch, refused>>

(* Mutant of Cancel: cancel_job does not write is_cancelled. *)
CancelUnflagged(r) ==
  /\ reqs[r].at = "loaded" /\ IsCancellable(reqs[r].copy)
  /\ Update(reqs[r].copy, WithStatus(reqs[r].copy, "cancelled"))
  /\ Request(r, "revoking", IF row'.bound THEN "cancelled" ELSE "none")
  /\ UNCHANGED <<taskVars, dispatch, refused>>

(* cancel_job, committed; the row is read again for its Celery id. *)
Cancel(r) ==
  /\ reqs[r].at = "loaded" /\ IsCancellable(reqs[r].copy)
  /\ Update(reqs[r].copy, AsCancelled(reqs[r].copy))
  /\ Request(r, "revoking", IF row'.bound THEN "cancelled" ELSE "none")
  /\ UNCHANGED <<taskVars, dispatch, refused>>

Revoke(r) ==
  /\ reqs[r].at = "revoking" /\ reqs[r].to = "cancelled"
  /\ RequestRevoke
  /\ Done(r)
  /\ UNCHANGED <<row, dispatch, refused>>

(* There is no Celery id to revoke, the broker cannot be reached, or the    *)
(* request for a finished job is refused.                                   *)
RevokeNothing(r) ==
  /\ reqs[r].at = "revoking"
  /\ Done(r)
  /\ UNCHANGED <<taskVars, row, dispatch, refused>>

(* cancel_job refuses a job that is finished or has been cancelled. *)
Refuse(r) ==
  /\ reqs[r].at = "loaded" /\ ~IsCancellable(reqs[r].copy)
  /\ Done(r)
  /\ UNCHANGED <<taskVars, row, dispatch, refused>>

RequestStep(r) ==
  \/ Load(r) \/ BeginRefresh(r) \/ FinishRefresh(r)
  \/ Cancel(r) \/ Revoke(r) \/ RevokeNothing(r) \/ Refuse(r)

(* Clients poll the job, and a request that was begun is finished. *)
RequestFairness ==
  \A r \in Requests :
    WF_<<recordVars, taskVars>>(RequestStep(r))

-----------------------------------------------------------------------------
(* Properties                                                              *)

(* The row tells what became of the task: it is succeeded or failed only    *)
(* because the task was, or because the dispatcher could not send or run    *)
(* it, and cancelled because somebody cancelled it; through stale copies    *)
(* and reordered writes, whoever ran the task.                              *)
HonestOutcome ==
  /\ row.status = "succeeded" => Came = "succeeded"
  /\ row.status = "failed" => refused \/ Came \in {"failed", "error"}
  /\ row.status = "cancelled" => row.flag
  /\ row.result # "none" => row.result = Came

(* Nobody is left to tell the end of an eager task: the backend does not    *)
(* store it, and the process that was to write it is gone.                  *)
Orphaned == dispatch.eager /\ dispatch.at = "dead"

(* A job that is bound to its task is in the end finished for good, or was  *)
(* cancelled, whatever retries, losses and stale refreshes come between,    *)
(* unless the process that ran an eager task ended before it had written    *)
(* the row (job_dispatcher.py:84-98).                                       *)
BoundJobSettles ==
  row.bound ~> [](IsFinished(row) \/ row.flag \/ Orphaned)

(* A finished job is not set running again by those who poll it: a refresh  *)
(* is to synchronize "a queued/running DB record"                           *)
(* (job_dispatcher.refresh).                                                *)
NotRestarted ==
  [][UNCHANGED dispatch /\ IsFinished(row) => row'.status # "running"]_row

=============================================================================
