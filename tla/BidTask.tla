------------------------------- MODULE BidTask -------------------------------
(***************************************************************************)
(* One bid task of module M5 (backend/app/domains/bids): its status, the   *)
(* jobs dispatched for it, the results written back for them, and the      *)
(* review reports that gate the generation of documents.                   *)
(*                                                                         *)
(* The store hands out deep copies and takes back whole entities without   *)
(* comparing versions.  A request is suspended where it awaits the file    *)
(* service, the job dispatcher or one of two kinds of lock: the lock of a  *)
(* task's enqueue method (_serialized_enqueue), held by a request from its *)
(* first read to the end of the dispatch and of the eager application of   *)
(* the result; and the one lock of all results (_serialized_job_result).   *)
(* Who holds them can be read off reqs.                                    *)
(***************************************************************************)
EXTENDS Naturals

CONSTANTS
  Files,       \* the files that can be bound as tender document
  Keys,        \* Idempotency-Key values
  Requests,    \* requests that can be suspended at the same time (bound)
  MaxJobs,     \* jobs ever dispatched for the task (bound)
  None         \* no failed stage; an unused field of a request

ASSUME ConstantsAssumption ==
  /\ Files # {}
  /\ Keys # {}
  /\ MaxJobs \in Nat
  /\ None \notin Files \cup Keys

Jobs == 1..MaxJobs

VARIABLES
  task,         \* the stored task
  jobs,         \* the job bindings and, per job, its result and report
  latest,       \* store.latest_jobs: action -> job, 0 for none
  remembered,   \* the jobs whose reference is kept under their key
  reqs          \* the suspended requests

vars == <<task, jobs, latest, remembered, reqs>>

BidStatus == {"draft", "parsing", "material_prep", "ai_review",
              "pending_output", "completed", "archived", "failed"}

Stage == {"parsing", "material_prep", "ai_review", "pending_output"}

Action == {"parse", "match", "template", "review", "document", "rollback"}

(* The status an enqueue starts from, besides failed in the same stage.    *)
EnqueueFrom == [parse |-> "draft",
                match |-> "material_prep", template |-> "material_prep",
                review |-> "material_prep", document |-> "ai_review"]

(* The status it leads to, which is also the stage its failure is filed    *)
(* under; a rollback changes no status.                                    *)
StageOf == [parse |-> "parsing",
            match |-> "material_prep", template |-> "material_prep",
            review |-> "ai_review", document |-> "pending_output"]

StagedAction == DOMAIN StageOf

(* Dispatched by the eager application in the enqueue itself. *)
EagerAction == {"parse", "review", "document"}

Transitions(from) ==
  CASE from = "draft"          -> {"parsing", "failed"}
    [] from = "parsing"        -> {"material_prep", "failed"}
    [] from = "material_prep"  -> {"ai_review", "failed"}
    [] from = "ai_review"      -> {"pending_output", "failed"}
    [] from = "pending_output" -> {"completed", "failed"}
    [] from = "completed"      -> {"archived"}
    [] from = "failed"         -> Stage
    [] OTHER                   -> {}

Task == [status : BidStatus, stage : Stage \cup {None}, file : Files]

Outcome == {"none", "succeeded", "failed"}

(* A job: what it was dispatched for and under which key; the tender file  *)
(* it read; how often a result was written to the task for it (history);   *)
(* for a review, its report and whether a high or critical finding of it   *)
(* is still pending.                                                       *)
Job == [phase : {"unused", "dispatching", "bound"}, act : Action, key : Keys,
        file : Files, result : Outcome, settled : Nat,
        report : {"none", "queued", "succeeded", "failed"}, open : BOOLEAN]

(* A request: where it is suspended, and what it still holds.              *)
(*   checking     enqueue_parse awaits files.assert_accessible             *)
(*   dispatching  an enqueue awaits jobs.enqueue; snap is the original     *)
(*   waiting      an eager enqueue waits for the lock of results           *)
(*   applying     a template, review or document result awaits the files   *)
(*   tender       set_tender_file awaits files.assert_accessible           *)
(*   binding      bind_material_file or batch_bind awaits the same         *)
Request == [op    : {"idle", "checking", "dispatching", "waiting", "applying",
                     "tender", "binding"},
            act   : Action,
            key   : Keys,
            job   : 0..MaxJobs,
            eager : BOOLEAN,
            want  : Outcome,
            file  : Files,
            snap  : Task]

SomeFile == CHOOSE f \in Files : TRUE
SomeKey == CHOOSE k \in Keys : TRUE

Idle == [op |-> "idle", act |-> "parse", key |-> SomeKey, job |-> 0,
         eager |-> FALSE, want |-> "none", file |-> SomeFile,
         snap |-> [status |-> "draft", stage |-> None, file |-> SomeFile]]

Unused == [phase |-> "unused", act |-> "parse", key |-> SomeKey,
           file |-> SomeFile, result |-> "none", settled |-> 0,
           report |-> "none", open |-> FALSE]

TypeOK ==
  /\ task \in Task
  /\ jobs \in [Jobs -> Job]
  /\ latest \in [Action -> 0..MaxJobs]
  /\ remembered \subseteq Jobs
  /\ reqs \in [Requests -> Request]

(* create: a task always has a tender file. *)
Init ==
  /\ \E f \in Files : task = [status |-> "draft", stage |-> None, file |-> f]
  /\ jobs = [j \in Jobs |-> Unused]
  /\ latest = [a \in Action |-> 0]
  /\ remembered = {}
  /\ reqs = [r \in Requests |-> Idle]

Resume(r, q) == reqs' = [reqs EXCEPT ![r] = q]

-----------------------------------------------------------------------------
(* The locks and the idempotency cache                                     *)

(* r is inside the enqueue method of action a. *)
Enqueuing(r, a) ==
  /\ reqs[r].act = a
  /\ \/ reqs[r].op \in {"checking", "dispatching", "waiting"}
     \/ reqs[r].op = "applying" /\ reqs[r].eager

EnqueueFree(a) == \A r \in Requests : ~Enqueuing(r, a)

(* Mutant of ResultFree: an enqueue holds the lock of results as well. *)
ResultFreeOneLock ==
  \A r \in Requests : reqs[r].op \notin {"applying", "waiting"}

ResultFree == \A r \in Requests : reqs[r].op # "applying"

(* get_idempotency: the key was used for this action and its reply kept. *)
Replayed(a, k) == \E j \in remembered : jobs[j].act = a /\ jobs[j].key = k

(* Jobs are numbered in the order of their dispatch; the number after the  *)
(* last one that is in use comes next.                                     *)
Fresh(j) ==
  /\ \A i \in Jobs : i >= j => jobs[i].phase = "unused"
  /\ \A i \in Jobs : i + 1 = j => jobs[i].phase # "unused"

-----------------------------------------------------------------------------
(* Enqueue                                                                 *)

(* The status checks of the enqueue methods, on the task they read. *)
MayEnqueue(t, a) ==
  IF a = "rollback"
    THEN t.status \in {"pending_output", "completed"}
    ELSE \/ t.status = EnqueueFrom[a]
         \/ t.status = "failed" /\ t.stage = StageOf[a]

(* latest_review_for_task: the report created last. *)
LatestReport(j) ==
  /\ jobs[j].report # "none"
  /\ \A i \in Jobs : jobs[i].report # "none" => i <= j

(* A document needs a finished review without unresolved grave findings,   *)
(* a rollback a version to go back to.                                     *)
Gate(a) ==
  CASE a = "document" ->
         \E j \in Jobs : /\ LatestReport(j)
                         /\ jobs[j].report = "succeeded"
                         /\ ~jobs[j].open
    [] a = "rollback" ->
         \E j \in Jobs : /\ jobs[j].act = "document"
                         /\ jobs[j].result = "succeeded"
    [] OTHER -> TRUE

Moved(t, a) == IF a = "rollback"
                 THEN t
                 ELSE [t EXCEPT !.status = StageOf[a], !.stage = None]

(* The copy t is moved on and saved, a review gets its queued report, and  *)
(* the dispatch is awaited with t kept for the case that it fails.         *)
Dispatch(r, a, k, j, t) ==
  /\ Fresh(j)
  /\ task' = IF a = "rollback" \/ t.status = StageOf[a] THEN task
                                                       ELSE Moved(t, a)
  /\ jobs' = [jobs EXCEPT ![j] =
       [Unused EXCEPT !.phase = "dispatching", !.act = a, !.key = k,
                      !.file = t.file,
                      !.report = IF a = "review" THEN "queued" ELSE "none"]]
  /\ Resume(r, [Idle EXCEPT !.op = "dispatching", !.act = a, !.key = k,
                            !.job = j, !.snap = t])

(* Mutant of BeginEnqueue: the lock of the method is not taken. *)
BeginEnqueueUnlocked(r, a, k, j) ==
  /\ reqs[r].op = "idle"
  /\ a # "parse"
  /\ ~Replayed(a, k)
  /\ MayEnqueue(task, a)
  /\ Gate(a)
  /\ Dispatch(r, a, k, j, task)
  /\ UNCHANGED <<latest, remembered>>

(* Mutant of BeginEnqueue: documents are generated from any review. *)
BeginEnqueueUngated(r, a, k, j) ==
  /\ reqs[r].op = "idle"
  /\ a # "parse"
  /\ EnqueueFree(a)
  /\ ~Replayed(a, k)
  /\ MayEnqueue(task, a)
  /\ Dispatch(r, a, k, j, task)
  /\ UNCHANGED <<latest, remembered>>

(* enqueue_material_match, enqueue_template_generate, enqueue_review,      *)
(* enqueue_document_generate and enqueue_document_rollback.                *)
BeginEnqueue(r, a, k, j) ==
  /\ reqs[r].op = "idle"
  /\ a # "parse"
  /\ EnqueueFree(a)
  /\ ~Replayed(a, k)
  /\ MayEnqueue(task, a)
  /\ Gate(a)
  /\ Dispatch(r, a, k, j, task)
  /\ UNCHANGED <<latest, remembered>>

(* enqueue_parse awaits the tender file first, and only then checks and    *)
(* moves the copy it has read before.                                      *)
BeginParse(r, k) ==
  /\ reqs[r].op = "idle"
  /\ EnqueueFree("parse")
  /\ ~Replayed("parse", k)
  /\ Resume(r, [Idle EXCEPT !.op = "checking", !.act = "parse", !.key = k,
                            !.snap = task])
  /\ UNCHANGED <<task, jobs, latest, remembered>>

CheckedParse(r, j) ==
  /\ reqs[r].op = "checking"
  /\ MayEnqueue(reqs[r].snap, "parse")
  /\ Dispatch(r, "parse", reqs[r].key, j, reqs[r].snap)
  /\ UNCHANGED <<latest, remembered>>

(* The dispatch returns: the job is bound and becomes the latest of its    *)
(* action.  If the worker has not run yet the reply is kept and the        *)
(* request is done; otherwise its result is to be applied at once.         *)
Dispatched(r, want) ==
  LET q == reqs[r] IN
  /\ q.op = "dispatching"
  /\ want # "none" => q.act \in EagerAction
  /\ jobs' = [jobs EXCEPT ![q.job].phase = "bound"]
  /\ latest' = [latest EXCEPT ![q.act] = q.job]
  /\ IF want = "none"
       THEN /\ remembered' = remembered \cup {q.job}
            /\ Resume(r, Idle)
       ELSE /\ Resume(r, [q EXCEPT !.op = "waiting", !.eager = TRUE,
                                   !.want = want, !.snap = Idle.snap])
            /\ UNCHANGED remembered
  /\ UNCHANGED task

(* The dispatch fails: the original is saved back, the report removed.     *)
DispatchFails(r) ==
  LET q == reqs[r] IN
  /\ q.op = "dispatching"
  /\ task' = IF q.act = "rollback" THEN task ELSE q.snap
  /\ jobs' = [jobs EXCEPT ![q.job] = Unused]
  /\ Resume(r, Idle)
  /\ UNCHANGED <<latest, remembered>>

-----------------------------------------------------------------------------
(* Results: applied by a callback, or by the enqueue itself                *)

(* What every apply method checks first: no result yet, the latest job.    *)
Applicable(j) ==
  /\ jobs[j].phase = "bound"
  /\ jobs[j].result = "none"
  /\ latest[jobs[j].act] = j

Settled(j, outcome) ==
  [jobs EXCEPT ![j].result = outcome, ![j].settled = @ + 1]

(* apply_parse_result: only for the tender file the job was dispatched     *)
(* with.                                                                   *)
ApplyParse(j) ==
  /\ jobs[j].act = "parse"
  /\ task.status = "parsing"
  /\ task.file = jobs[j].file
  /\ jobs' = Settled(j, "succeeded")
  /\ task' = [task EXCEPT !.status = "material_prep", !.stage = None]

(* apply_material_match_result *)
ApplyMatch(j) ==
  /\ jobs[j].act = "match"
  /\ task.status = "material_prep"
  /\ jobs' = Settled(j, "succeeded")
  /\ UNCHANGED task

(* apply_document_rollback_result: a new version, no new status. *)
ApplyRollback(j) ==
  /\ jobs[j].act = "rollback"
  /\ task.status \in {"pending_output", "completed"}
  /\ jobs' = Settled(j, "succeeded")
  /\ UNCHANGED task

(* apply_job_failure for a rollback only records the failure. *)
RollbackFailed(j) ==
  /\ jobs[j].act = "rollback"
  /\ task.status \in {"pending_output", "completed"}
  /\ jobs' = Settled(j, "failed")
  /\ UNCHANGED task

(* Mutant of StageFailed: the stage is read after the status is set. *)
StageFailedSwapped(j) ==
  /\ jobs[j].act \in StagedAction
  /\ task.status = StageOf[jobs[j].act]
  /\ task' = [task EXCEPT !.status = "failed", !.stage = "failed"]
  /\ jobs' = Settled(j, "failed")

(* apply_job_failure: the task fails in the stage of the job. *)
StageFailed(j) ==
  /\ jobs[j].act \in StagedAction
  /\ task.status = StageOf[jobs[j].act]
  /\ task' = [task EXCEPT !.status = "failed", !.stage = StageOf[jobs[j].act]]
  /\ jobs' = IF jobs[j].act = "review"
               THEN [Settled(j, "failed") EXCEPT ![j].report = "failed"]
               ELSE Settled(j, "failed")

(* The apply methods that hold the lock of results without an await. *)
ApplyNow(j, outcome) ==
  /\ ResultFree
  /\ Applicable(j)
  /\ \/ /\ outcome = "succeeded"
        /\ ApplyParse(j) \/ ApplyMatch(j) \/ ApplyRollback(j)
     \/ /\ outcome = "failed"
        /\ RollbackFailed(j) \/ StageFailed(j)

Callback(j, outcome) ==
  /\ ApplyNow(j, outcome)
  /\ UNCHANGED <<latest, remembered, reqs>>

(* The end of an eager enqueue.  When the audit record or the notification *)
(* of the apply method fails, the result stays and the reply is lost.      *)
EndEager(r) ==
  /\ Resume(r, Idle)
  /\ remembered' \in {remembered, remembered \cup {reqs[r].job}}

EagerApply(r) ==
  /\ reqs[r].op = "waiting"
  /\ ApplyNow(reqs[r].job, reqs[r].want)
  /\ EndEager(r)
  /\ UNCHANGED latest

(* A callback has settled the job in the meantime. *)
EagerCached(r) ==
  /\ reqs[r].op = "waiting"
  /\ ResultFree
  /\ jobs[reqs[r].job].result = reqs[r].want
  /\ EndEager(r)
  /\ UNCHANGED <<task, jobs, latest>>

(* apply_template_result, apply_review_result and the two document methods *)
(* up to their awaits.                                                     *)
MayApply(j) ==
  /\ Applicable(j)
  /\ jobs[j].act \in {"template", "review", "document"}
  /\ task.status = StageOf[jobs[j].act]

(* Mutant of BeginApply: results of one job are not serialized. *)
BeginApplyUnlocked(r, j) ==
  /\ reqs[r].op = "idle"
  /\ MayApply(j)
  /\ Resume(r, [Idle EXCEPT !.op = "applying", !.act = jobs[j].act,
                            !.key = jobs[j].key, !.job = j, !.snap = task])
  /\ UNCHANGED <<task, jobs, latest, remembered>>

BeginApply(r, j) ==
  /\ reqs[r].op = "idle"
  /\ ResultFree
  /\ MayApply(j)
  /\ Resume(r, [Idle EXCEPT !.op = "applying", !.act = jobs[j].act,
                            !.key = jobs[j].key, !.job = j, !.snap = task])
  /\ UNCHANGED <<task, jobs, latest, remembered>>

EagerBegin(r) ==
  /\ reqs[r].op = "waiting"
  /\ reqs[r].want = "succeeded"
  /\ ResultFree
  /\ MayApply(reqs[r].job)
  /\ Resume(r, [reqs[r] EXCEPT !.op = "applying", !.snap = task])
  /\ UNCHANGED <<task, jobs, latest, remembered>>

(* A callback lets go of the lock, an enqueue comes to its end. *)
EndApply(r) == IF reqs[r].eager THEN EndEager(r)
                                ELSE Resume(r, Idle) /\ UNCHANGED remembered

(* apply_template_result reads the task again after its awaits. *)
FinishTemplate(r) ==
  LET q == reqs[r] IN
  /\ q.op = "applying"
  /\ q.act = "template"
  /\ latest["template"] = q.job
  /\ task.status = "material_prep"
  /\ jobs' = Settled(q.job, "succeeded")
  /\ EndApply(r)
  /\ UNCHANGED <<task, latest>>

(* Mutant of FinishReview: the second assert_latest_job is missing. *)
FinishReviewUnchecked(r) ==
  LET q == reqs[r] IN
  /\ q.op = "applying"
  /\ q.act = "review"
  /\ \E grave \in BOOLEAN :
       jobs' = [Settled(q.job, "succeeded")
                  EXCEPT ![q.job].report = "succeeded", ![q.job].open = grave]
  /\ task' = [q.snap EXCEPT !.stage = None]
  /\ EndApply(r)
  /\ UNCHANGED latest

(* After the last file: the job must still be the latest; the task copy    *)
(* read before the awaits is saved.                                        *)
FinishReview(r) ==
  LET q == reqs[r] IN
  /\ q.op = "applying"
  /\ q.act = "review"
  /\ latest["review"] = q.job
  /\ \E grave \in BOOLEAN :
       jobs' = [Settled(q.job, "succeeded")
                  EXCEPT ![q.job].report = "succeeded", ![q.job].open = grave]
  /\ task' = [q.snap EXCEPT !.stage = None]
  /\ EndApply(r)
  /\ UNCHANGED latest

(* The versions are appended and the copy is saved as completed.  The      *)
(* eager method does not look again whether its job is the latest.         *)
FinishDocument(r) ==
  LET q == reqs[r] IN
  /\ q.op = "applying"
  /\ q.act = "document"
  /\ ~q.eager => latest["document"] = q.job
  /\ jobs' = Settled(q.job, "succeeded")
  /\ task' = [q.snap EXCEPT !.status = "completed", !.stage = None]
  /\ EndApply(r)
  /\ UNCHANGED latest

-----------------------------------------------------------------------------
(* Other writers of the task                                               *)

SetTenderFile(r, f) ==
  /\ reqs[r].op = "idle"
  /\ task.status \in {"draft", "failed"}
  /\ Resume(r, [Idle EXCEPT !.op = "tender", !.file = f, !.snap = task])
  /\ UNCHANGED <<task, jobs, latest, remembered>>

TenderFileSet(r) ==
  /\ reqs[r].op = "tender"
  /\ task' = [reqs[r].snap EXCEPT !.file = reqs[r].file]
  /\ Resume(r, Idle)
  /\ UNCHANGED <<jobs, latest, remembered>>

BindMaterial(r) ==
  /\ reqs[r].op = "idle"
  /\ task.status \in {"draft", "material_prep", "failed"}
  /\ Resume(r, [Idle EXCEPT !.op = "binding", !.snap = task])
  /\ UNCHANGED <<task, jobs, latest, remembered>>

MaterialBound(r) ==
  /\ reqs[r].op = "binding"
  /\ task' = reqs[r].snap
  /\ Resume(r, Idle)
  /\ UNCHANGED <<jobs, latest, remembered>>

(* The file is refused, the status check of a parse fails, a result is     *)
(* refused or its files are: the request ends, and nothing is saved.       *)
FailRequest(r) ==
  /\ reqs[r].op \in {"checking", "waiting", "applying", "tender", "binding"}
  /\ reqs[r].op = "waiting" => ResultFree
  /\ Resume(r, Idle)
  /\ UNCHANGED <<task, jobs, latest, remembered>>

(* decide_finding: a decision can also be set back to pending. *)
DecideFinding(j, grave) ==
  /\ task.status = "ai_review"
  /\ jobs[j].report = "succeeded"
  /\ jobs' = [jobs EXCEPT ![j].open = grave]
  /\ UNCHANGED <<task, latest, remembered, reqs>>

Archive ==
  /\ "archived" \in Transitions(task.status)
  /\ task' = [task EXCEPT !.status = "archived"]
  /\ UNCHANGED <<jobs, latest, remembered, reqs>>

-----------------------------------------------------------------------------
UserStep ==
  \/ \E r \in Requests, a \in Action, k \in Keys, j \in Jobs :
       BeginEnqueue(r, a, k, j)
  \/ \E r \in Requests, k \in Keys : BeginParse(r, k)
  \/ \E r \in Requests, f \in Files : SetTenderFile(r, f)
  \/ \E r \in Requests : BindMaterial(r)
  \/ \E j \in Jobs, grave \in BOOLEAN : DecideFinding(j, grave)
  \/ Archive

CallbackStep ==
  \/ \E j \in Jobs, outcome \in Outcome : Callback(j, outcome)
  \/ \E r \in Requests, j \in Jobs : BeginApply(r, j)

ResumeStep(r) ==
  \/ \E j \in Jobs : CheckedParse(r, j)
  \/ \E want \in Outcome : Dispatched(r, want)
  \/ DispatchFails(r)
  \/ EagerApply(r)
  \/ EagerCached(r)
  \/ EagerBegin(r)
  \/ FinishTemplate(r)
  \/ FinishReview(r)
  \/ FinishDocument(r)
  \/ TenderFileSet(r)
  \/ MaterialBound(r)
  \/ FailRequest(r)

Next == UserStep \/ CallbackStep \/ \E r \in Requests : ResumeStep(r)

Spec == Init /\ [][Next]_vars

(* The event loop resumes every suspended request, whose await returns or  *)
(* raises.  Fairness is strong because a waiting request finds the lock of *)
(* results free again and again only: asyncio.Lock serves its waiters in   *)
(* turn.  No user and no worker is obliged to call.                        *)
FairSpec == Spec /\ \A r \in Requests : SF_vars(ResumeStep(r))

-----------------------------------------------------------------------------
(* Properties                                                              *)

(* A job is settled once: no matter how callbacks, their repetitions and   *)
(* the eager application of an enqueue overlap, the task is written for    *)
(* its result at most one time (get_job_result under the lock of results). *)
OneOutcome ==
  \A j \in Jobs : /\ jobs[j].settled <= 1
                  /\ jobs[j].settled = 1 <=> jobs[j].result # "none"

(* Only the newest job of an action is ever settled: a result that was     *)
(* overtaken while its files were awaited is not written, although the     *)
(* eager document method does not look a second time (assert_latest_job).  *)
LatestWins ==
  [][\A j \in Jobs : jobs'[j].result # jobs[j].result
                       => latest[jobs[j].act] = j]_vars

(* An Idempotency-Key stands for one job of an action: two jobs whose      *)
(* replies were kept were not dispatched under one key.                    *)
OneJobPerKey ==
  \A i, j \in remembered :
    jobs[i].act = jobs[j].act /\ jobs[i].key = jobs[j].key => i = j

Done(a) == \E j \in Jobs : jobs[j].act = a /\ jobs[j].result = "succeeded"

Broken(stage) == \E j \in Jobs : /\ jobs[j].act \in StagedAction
                                 /\ StageOf[jobs[j].act] = stage
                                 /\ jobs[j].result = "failed"

(* The step of the workflow a task is in, or failed in. *)
StepOf(t) == IF t.status = "failed" THEN t.stage ELSE t.status

(* What a task, stored or copied, needs to have earned. *)
Earned(t) ==
  /\ StepOf(t) \notin {"draft", "parsing"} => Done("parse")
  /\ StepOf(t) \in {"pending_output", "completed", "archived"} => Done("review")
  /\ StepOf(t) \in {"completed", "archived"} => Done("document")
  /\ t.status = "failed" => t.stage \in Stage /\ Broken(t.stage)

(* No step of the workflow is skipped and no failure invented, whatever    *)
(* old copy of the task comes back: beyond parsing some parse result was   *)
(* applied, from pending_output on some review result, from completed on   *)
(* some document result, and a failed task names a stage in which a job    *)
(* has failed.                                                             *)
StageEarned == Earned(task)

(* Why they hold: what the bindings say of a job, and what a suspended     *)
(* request still knows because of the lock it holds.                       *)
JobWhole(j) ==
  /\ jobs[j].phase # "bound" => jobs[j].result = "none" /\ j \notin remembered
  /\ jobs[j].report = "succeeded"
       => jobs[j].act = "review" /\ jobs[j].result = "succeeded"

KnowsItsJob(q) ==
  /\ q.op = "dispatching" => q.job \in Jobs /\ jobs[q.job].phase = "dispatching"
  /\ q.op \in {"waiting", "applying"}
       => q.job \in Jobs /\ jobs[q.job].phase = "bound"
  /\ q.op \in {"dispatching", "waiting", "applying"}
       => jobs[q.job].act = q.act /\ jobs[q.job].key = q.key
  /\ q.op = "waiting" => q.eager
  /\ q.op = "applying" => /\ q.act \in {"template", "review", "document"}
                          /\ q.snap.status = StageOf[q.act]
                          /\ jobs[q.job].result = "none"
  /\ q.op \in {"waiting", "applying"} /\ q.eager => latest[q.act] = q.job
  /\ q.op = "checking" => q.act = "parse"

Exclusive ==
  /\ \A r, s \in Requests :
       reqs[r].op = "applying" /\ reqs[s].op = "applying" => r = s
  /\ \A r, s \in Requests, a \in Action :
       Enqueuing(r, a) /\ Enqueuing(s, a) => r = s

KeyUnused ==
  \A r \in Requests, a \in Action : Enqueuing(r, a) => ~Replayed(a, reqs[r].key)

BidInv ==
  /\ TypeOK
  /\ \A j \in Jobs : JobWhole(j)
  /\ \A r \in Requests : KnowsItsJob(reqs[r]) /\ Earned(reqs[r].snap)
  /\ Exclusive
  /\ KeyUnused
  /\ OneOutcome
  /\ OneJobPerKey
  /\ StageEarned

(* Every request comes to an end: the lock of results is taken while an    *)
(* enqueue lock is held, and that nesting never leaves both waiting.       *)
Drains == \A r \in Requests : reqs[r].op # "idle" ~> reqs[r].op = "idle"

(* The requirements and materials worked with are those of the bound       *)
(* tender file: beyond parsing, a parse result was applied that was read   *)
(* from the file the task names (apply_parse_result refuses any other).    *)
ParsedFileIsBound ==
  task.status \in {"material_prep", "ai_review", "pending_output", "completed"}
    => \E j \in Jobs : /\ jobs[j].act = "parse"
                       /\ jobs[j].result = "succeeded"
                       /\ jobs[j].file = task.file
=============================================================================
