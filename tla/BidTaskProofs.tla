---------------------------- MODULE BidTaskProofs ----------------------------
(* A bid task's jobs are settled once, by the newest job of their action   *)
(* only, and no step of its workflow is skipped, for any number of files,  *)
(* keys, jobs and overlapping requests.                                    *)
EXTENDS BidTask, TLAPS

(* The two tables of the enqueue methods, entry by entry. *)
LEMMA Tables ==
  /\ StagedAction = {"parse", "match", "template", "review", "document"}
  /\ StageOf["parse"] = "parsing"
  /\ StageOf["match"] = "material_prep"
  /\ StageOf["template"] = "material_prep"
  /\ StageOf["review"] = "ai_review"
  /\ StageOf["document"] = "pending_output"
  /\ EnqueueFrom["parse"] = "draft"
  /\ EnqueueFrom["match"] = "material_prep"
  /\ EnqueueFrom["template"] = "material_prep"
  /\ EnqueueFrom["review"] = "material_prep"
  /\ EnqueueFrom["document"] = "ai_review"
BY DEF StagedAction, StageOf, EnqueueFrom

-----------------------------------------------------------------------------
(* Types                                                                   *)

(* The values the actions build have their types. *)
LEMMA Values ==
  /\ SomeFile \in Files /\ SomeKey \in Keys
  /\ Idle \in Request
  /\ Unused \in Job
  /\ \A t \in Task, f \in Files : [t EXCEPT !.file = f] \in Task
  /\ \A t \in Task, st \in BidStatus :
       /\ [t EXCEPT !.status = st] \in Task
       /\ \A stage \in Stage \cup {None} :
            [t EXCEPT !.status = st, !.stage = stage] \in Task
  /\ \A t \in Task : [t EXCEPT !.stage = None] \in Task
<1>1. SomeFile \in Files /\ SomeKey \in Keys
  BY ConstantsAssumption DEF SomeFile, SomeKey
<1>2. Idle \in Request
  BY <1>1, ConstantsAssumption
  DEF Idle, Request, Action, Outcome, Task, BidStatus
<1>3. Unused \in Job
  BY <1>1 DEF Unused, Job, Action, Outcome
<1>4. \A t \in Task, f \in Files : [t EXCEPT !.file = f] \in Task
  BY DEF Task
<1>5. \A t \in Task, st \in BidStatus :
        /\ [t EXCEPT !.status = st] \in Task
        /\ \A stage \in Stage \cup {None} :
             [t EXCEPT !.status = st, !.stage = stage] \in Task
  BY DEF Task
<1>6. \A t \in Task : [t EXCEPT !.stage = None] \in Task
  BY DEF Task
<1> QED BY <1>1, <1>2, <1>3, <1>4, <1>5, <1>6

(* What a dispatch does to the types. *)
LEMMA DispatchTypes ==
  ASSUME TypeOK, NEW r \in Requests, NEW a \in Action, NEW k \in Keys,
         NEW j \in Jobs, NEW t \in Task, Dispatch(r, a, k, j, t)
  PROVE  task' \in Task /\ jobs' \in [Jobs -> Job]
           /\ reqs' \in [Requests -> Request]
<1>1. task' \in Task
  <2>1. CASE task' = task
    BY <2>1 DEF TypeOK
  <2>2. CASE task' = Moved(t, a) /\ a # "rollback"
    <3>1. StageOf[a] \in BidStatus
      BY <2>2, Tables DEF Action, BidStatus
    <3> QED BY <2>2, <3>1, Values DEF Moved
  <2> QED BY <2>1, <2>2 DEF Dispatch
<1>2. jobs' \in [Jobs -> Job]
  <2>1. [Unused EXCEPT !.phase = "dispatching", !.act = a, !.key = k,
                       !.file = t.file,
                       !.report = IF a = "review" THEN "queued" ELSE "none"]
          \in Job
    BY Values DEF Job, Task
  <2> QED BY <2>1 DEF Dispatch, TypeOK
<1>3. reqs' \in [Requests -> Request]
  <2>0. j \in 0..MaxJobs
    BY DEF Jobs
  <2>1. [Idle EXCEPT !.op = "dispatching", !.act = a, !.key = k, !.job = j,
                     !.snap = t] \in Request
    BY <2>0, Values DEF Request
  <2> QED BY <2>1 DEF Dispatch, Resume, TypeOK
<1> QED BY <1>1, <1>2, <1>3

(* What the record of an outcome does to the types. *)
LEMMA SettledTypes ==
  ASSUME TypeOK, NEW j \in Jobs, NEW outcome \in Outcome
  PROVE  /\ Settled(j, outcome) \in [Jobs -> Job]
         /\ \A rep \in {"none", "queued", "succeeded", "failed"},
               grave \in BOOLEAN :
              /\ [Settled(j, outcome) EXCEPT ![j].report = rep]
                   \in [Jobs -> Job]
              /\ [Settled(j, outcome) EXCEPT ![j].report = rep, ![j].open = grave]
                   \in [Jobs -> Job]
<1> DEFINE first == [jobs EXCEPT ![j].result = outcome]
           both == Settled(j, outcome)
<1>1. first \in [Jobs -> Job]
  BY DEF TypeOK, Job
<1>2. both = [first EXCEPT ![j].settled = @ + 1]
  BY DEF Settled
<1> HIDE DEF first
<1>3. both \in [Jobs -> Job]
  BY <1>1, <1>2 DEF Job
<1> HIDE DEF both
<1>4. ASSUME NEW rep \in {"none", "queued", "succeeded", "failed"}
      PROVE  [both EXCEPT ![j].report = rep] \in [Jobs -> Job]
  BY <1>3 DEF Job
<1>5. ASSUME NEW rep \in {"none", "queued", "succeeded", "failed"},
             NEW grave \in BOOLEAN
      PROVE  [both EXCEPT ![j].report = rep, ![j].open = grave] \in [Jobs -> Job]
  <2> DEFINE one == [both EXCEPT ![j].report = rep]
  <2>1. one \in [Jobs -> Job]
    BY <1>4
  <2>2. [one EXCEPT ![j].open = grave] \in [Jobs -> Job]
    <3> HIDE DEF one
    <3> QED BY <2>1 DEF Job
  <2> QED BY <2>2
<1> QED BY <1>3, <1>4, <1>5 DEF both

(* A result that is applied at once. *)
LEMMA ApplyNowTypes ==
  ASSUME TypeOK, NEW j \in Jobs, NEW outcome \in Outcome, ApplyNow(j, outcome)
  PROVE  task' \in Task /\ jobs' \in [Jobs -> Job]
<1> USE DEF TypeOK
<1>1. CASE ApplyParse(j)
  <2>1. task' \in Task
    BY <1>1, Values DEF ApplyParse, BidStatus
  <2> QED BY <1>1, <2>1, SettledTypes DEF ApplyParse, Outcome
<1>2. CASE ApplyMatch(j)
  BY <1>2, SettledTypes DEF ApplyMatch, Outcome
<1>3. CASE ApplyRollback(j)
  BY <1>3, SettledTypes DEF ApplyRollback, Outcome
<1>4. CASE RollbackFailed(j)
  BY <1>4, SettledTypes DEF RollbackFailed, Outcome
<1>5. CASE StageFailed(j)
  <2>1. StageOf[jobs[j].act] \in Stage
    BY <1>5, Tables DEF StageFailed, Stage
  <2>2. task' \in Task
    BY <1>5, <2>1, Values DEF StageFailed, BidStatus
  <2>3. jobs' \in [Jobs -> Job]
    BY <1>5, SettledTypes DEF StageFailed, Outcome
  <2> QED BY <2>2, <2>3
<1> QED BY <1>1, <1>2, <1>3, <1>4, <1>5 DEF ApplyNow

(* A request knows the job it dispatched or applies. *)
LEMMA JobOfRequest ==
  ASSUME TypeOK, NEW r \in Requests, KnowsItsJob(reqs[r]),
         reqs[r].op \in {"dispatching", "waiting", "applying"}
  PROVE  /\ reqs[r] \in Request
         /\ reqs[r].job \in Jobs
         /\ jobs[reqs[r].job] \in Job
         /\ jobs[reqs[r].job].act = reqs[r].act
         /\ jobs[reqs[r].job].key = reqs[r].key
BY DEF TypeOK, KnowsItsJob

(* Every step keeps the types; a request's job is one by what it knows.    *)
LEMMA TypeStep ==
  TypeOK /\ (\A r \in Requests : KnowsItsJob(reqs[r])) /\ [Next]_vars => TypeOK'
<1> SUFFICES ASSUME TypeOK, \A r \in Requests : KnowsItsJob(reqs[r]), [Next]_vars
             PROVE  TypeOK'
  OBVIOUS
<1> USE DEF TypeOK
<1>a. \A j \in Jobs : j \in 0..MaxJobs
  BY DEF Jobs
<1>1. ASSUME NEW r \in Requests, NEW a \in Action, NEW k \in Keys, NEW j \in Jobs,
             BeginEnqueue(r, a, k, j)
      PROVE  TypeOK'
  BY <1>1, DispatchTypes DEF BeginEnqueue
<1>2. ASSUME NEW r \in Requests, NEW k \in Keys, BeginParse(r, k) PROVE TypeOK'
  <2>1. [Idle EXCEPT !.op = "checking", !.act = "parse", !.key = k,
                     !.snap = task] \in Request
    BY Values DEF Request, Action
  <2> QED BY <1>2, <2>1 DEF BeginParse, Resume
<1>3. ASSUME NEW r \in Requests, NEW f \in Files, SetTenderFile(r, f)
      PROVE  TypeOK'
  <2>1. [Idle EXCEPT !.op = "tender", !.file = f, !.snap = task] \in Request
    BY Values DEF Request
  <2> QED BY <1>3, <2>1 DEF SetTenderFile, Resume
<1>4. ASSUME NEW r \in Requests, BindMaterial(r) PROVE TypeOK'
  <2>1. [Idle EXCEPT !.op = "binding", !.snap = task] \in Request
    BY Values DEF Request
  <2> QED BY <1>4, <2>1 DEF BindMaterial, Resume
<1>5. ASSUME NEW j \in Jobs, NEW grave \in BOOLEAN, DecideFinding(j, grave)
      PROVE  TypeOK'
  BY <1>5 DEF DecideFinding, Job
<1>6. CASE Archive
  BY <1>6, Values DEF Archive, BidStatus
<1>7. ASSUME NEW j \in Jobs, NEW outcome \in Outcome, Callback(j, outcome)
      PROVE  TypeOK'
  BY <1>7, ApplyNowTypes DEF Callback
<1>8. ASSUME NEW r \in Requests, NEW j \in Jobs, BeginApply(r, j) PROVE TypeOK'
  <2>1. [Idle EXCEPT !.op = "applying", !.act = jobs[j].act, !.key = jobs[j].key,
                     !.job = j, !.snap = task] \in Request
    BY <1>a, Values DEF Request, Job
  <2> QED BY <1>8, <2>1 DEF BeginApply, Resume
<1>9. ASSUME NEW r \in Requests, ResumeStep(r) PROVE TypeOK'
  <2>0. reqs[r] \in Request
    OBVIOUS
  <2>i. Resume(r, Idle) => reqs' \in [Requests -> Request]
    BY Values DEF Resume
  <2>e. EndEager(r) /\ reqs[r].op \in {"waiting", "applying"}
          => reqs' \in [Requests -> Request] /\ remembered' \subseteq Jobs
    BY <2>i, JobOfRequest DEF EndEager
  <2>f. EndApply(r) /\ reqs[r].op = "applying"
          => reqs' \in [Requests -> Request] /\ remembered' \subseteq Jobs
    BY <2>i, <2>e DEF EndApply
  <2>1. ASSUME NEW j \in Jobs, CheckedParse(r, j) PROVE TypeOK'
    <3>1. reqs[r].snap \in Task /\ reqs[r].key \in Keys /\ "parse" \in Action
      BY <2>0 DEF Request, Action
    <3> QED BY <2>1, <3>1, DispatchTypes DEF CheckedParse
  <2>2. ASSUME NEW want \in Outcome, Dispatched(r, want) PROVE TypeOK'
    <3>1. reqs[r].job \in Jobs /\ reqs[r].act \in Action
      BY <2>0, <2>2, JobOfRequest DEF Dispatched, Request
    <3>2. jobs' \in [Jobs -> Job]
      BY <2>2, <3>1 DEF Dispatched, Job
    <3>3. latest' \in [Action -> 0..MaxJobs]
      BY <2>2, <3>1, <1>a DEF Dispatched
    <3>4. [reqs[r] EXCEPT !.op = "waiting", !.eager = TRUE, !.want = want,
                          !.snap = Idle.snap] \in Request
      BY <2>0, Values DEF Request
    <3> QED BY <2>2, <3>1, <3>2, <3>3, <3>4, <2>i DEF Dispatched, Resume
  <2>3. CASE DispatchFails(r)
    <3>1. reqs[r].snap \in Task
      BY <2>0 DEF Request
    <3> QED BY <2>3, <3>1, <2>i, Values DEF DispatchFails
  <2>4. CASE EagerApply(r)
    <3>1. reqs[r].job \in Jobs /\ reqs[r].want \in Outcome
      BY <2>0, <2>4, JobOfRequest DEF EagerApply, Request
    <3> QED BY <2>4, <3>1, <2>e, ApplyNowTypes DEF EagerApply
  <2>5. CASE EagerCached(r)
    BY <2>5, <2>e DEF EagerCached
  <2>6. CASE EagerBegin(r)
    <3>1. [reqs[r] EXCEPT !.op = "applying", !.snap = task] \in Request
      BY <2>0 DEF Request
    <3> QED BY <2>6, <3>1 DEF EagerBegin, Resume
  <2>7. CASE FinishTemplate(r)
    <3>1. reqs[r].job \in Jobs
      BY <2>7, JobOfRequest DEF FinishTemplate
    <3> QED BY <2>7, <3>1, <2>f, SettledTypes DEF FinishTemplate, Outcome
  <2>8. CASE FinishReview(r)
    <3>1. reqs[r].job \in Jobs /\ reqs[r].snap \in Task
      BY <2>0, <2>8, JobOfRequest DEF FinishReview, Request
    <3>2. task' \in Task
      BY <2>8, <3>1, Values DEF FinishReview
    <3>3. PICK grave \in BOOLEAN :
            jobs' = [Settled(reqs[r].job, "succeeded")
                       EXCEPT ![reqs[r].job].report = "succeeded",
                              ![reqs[r].job].open = grave]
      BY <2>8 DEF FinishReview
    <3>4. jobs' \in [Jobs -> Job]
      BY <3>1, <3>3, SettledTypes DEF Outcome
    <3> QED BY <2>8, <3>2, <3>4, <2>f DEF FinishReview
  <2>9. CASE FinishDocument(r)
    <3>1. reqs[r].job \in Jobs /\ reqs[r].snap \in Task
      BY <2>0, <2>9, JobOfRequest DEF FinishDocument, Request
    <3>2. task' \in Task
      BY <2>9, <3>1, Values DEF FinishDocument, BidStatus
    <3> QED BY <2>9, <3>1, <3>2, <2>f, SettledTypes DEF FinishDocument, Outcome
  <2>10. CASE TenderFileSet(r)
    <3>1. reqs[r].snap \in Task /\ reqs[r].file \in Files
      BY <2>0 DEF Request
    <3> QED BY <2>10, <3>1, <2>i, Values DEF TenderFileSet
  <2>11. CASE MaterialBound(r)
    <3>1. reqs[r].snap \in Task
      BY <2>0 DEF Request
    <3> QED BY <2>11, <3>1, <2>i DEF MaterialBound
  <2>12. CASE FailRequest(r)
    BY <2>12, <2>i DEF FailRequest
  <2> QED BY <1>9, <2>1, <2>2, <2>3, <2>4, <2>5, <2>6, <2>7, <2>8, <2>9, <2>10,
             <2>11, <2>12 DEF ResumeStep
<1>10. CASE UNCHANGED vars
  BY <1>10 DEF vars
<1> QED BY <1>1, <1>2, <1>3, <1>4, <1>5, <1>6, <1>7, <1>8, <1>9, <1>10
        DEF Next, UserStep, CallbackStep

-----------------------------------------------------------------------------
(* What the jobs keep                                                      *)

(* No outcome is changed or lost. *)
OutcomesStay ==
  \A i \in Jobs : jobs[i].result # "none"
                    => /\ jobs'[i].result = jobs[i].result
                       /\ jobs'[i].act = jobs[i].act

(* The outcome of job j is recorded, once, and nothing else about it but   *)
(* a review's report.                                                      *)
SettledBy(j, outcome) ==
  /\ jobs[j].phase = "bound"
  /\ jobs[j].result = "none"
  /\ latest[jobs[j].act] = j
  /\ \A i \in Jobs \ {j} : jobs'[i] = jobs[i]
  /\ jobs'[j].phase = "bound"
  /\ jobs'[j].act = jobs[j].act
  /\ jobs'[j].key = jobs[j].key
  /\ jobs'[j].result = outcome
  /\ jobs'[j].settled = jobs[j].settled + 1
  /\ jobs'[j].report = "succeeded"
       => \/ jobs[j].report = "succeeded"
          \/ jobs[j].act = "review" /\ outcome = "succeeded"

(* A task that has earned its place keeps what it has earned. *)
LEMMA EarnedStays ==
  ASSUME OutcomesStay
  PROVE  \A t : Earned(t) => Earned(t)'
<1> SUFFICES ASSUME NEW t, Earned(t) PROVE Earned(t)'
  OBVIOUS
<1>1. \A a : Done(a) => Done(a)'
  BY DEF Done, OutcomesStay
<1>2. \A stage : Broken(stage) => Broken(stage)'
  BY DEF Broken, OutcomesStay
<1> QED BY <1>1, <1>2 DEF Earned, StepOf

(* Everything stored or still held has been earned.                        *)
Worth == StageEarned /\ \A r \in Requests : Earned(reqs[r].snap)

(* Copies that only move between the store and the requests. *)
LEMMA CopiesStay ==
  ASSUME Worth, OutcomesStay,
         \/ task' = task
         \/ \E r \in Requests : task' = reqs[r].snap
         \/ Earned(task)',
         \A r \in Requests : \/ reqs'[r].snap = reqs[r].snap
                             \/ reqs'[r].snap = task
                             \/ reqs'[r].snap = Idle.snap
  PROVE  Worth'
<1>1. \A t : Earned(t) => Earned(t)'
  BY EarnedStays
<1>2. Earned(Idle.snap)
  BY DEF Earned, StepOf, Idle
<1>3. Earned(task)'
  <2>1. SUFFICES ASSUME \/ task' = task
                        \/ \E r \in Requests : task' = reqs[r].snap
                 PROVE  Earned(task)'
    OBVIOUS
  <2>2. PICK t : t = task' /\ Earned(t)
    BY <2>1 DEF Worth, StageEarned
  <2>3. Earned(t)'
    BY <2>2, <1>1
  <2> QED BY <2>2, <2>3 DEF Earned, StepOf
<1>4. ASSUME NEW r \in Requests PROVE Earned(reqs[r].snap)'
  <2>1. PICK t : t = reqs'[r].snap /\ Earned(t)
    BY <1>2 DEF Worth, StageEarned
  <2>2. Earned(t)'
    BY <2>1, <1>1
  <2> QED BY <2>1, <2>2 DEF Earned, StepOf
<1> QED BY <1>3, <1>4 DEF Worth, StageEarned

(* The parts of the invariant: the jobs, the requests with their locks,    *)
(* and the keys.                                                           *)
Bindings == (\A j \in Jobs : JobWhole(j)) /\ OneOutcome

Holding == (\A r \in Requests : KnowsItsJob(reqs[r])) /\ Exclusive

OneUse == KeyUnused /\ OneJobPerKey

(* The invariant falls into four parts. *)
LEMMA Parts == BidInv <=> TypeOK /\ Bindings /\ Holding /\ OneUse /\ Worth
BY DEF BidInv, Bindings, Holding, OneUse, Worth

(* Settling a job *)
LEMMA SettledBindings ==
  ASSUME TypeOK, Bindings, NEW j \in Jobs,
         NEW outcome \in {"succeeded", "failed"},
         SettledBy(j, outcome), remembered' \subseteq remembered \cup {j}
  PROVE  Bindings' /\ OutcomesStay
<1>1. jobs[j].settled = 0
  BY DEF Bindings, OneOutcome, SettledBy, TypeOK, Job
<1>2. \A i \in Jobs : JobWhole(i)'
  <2>1. ASSUME NEW i \in Jobs, i # j PROVE JobWhole(i)'
    BY <2>1 DEF Bindings, JobWhole, SettledBy
  <2>2. JobWhole(j)'
    BY DEF Bindings, JobWhole, SettledBy
  <2> QED BY <2>1, <2>2
<1>3. OneOutcome'
  BY <1>1 DEF Bindings, OneOutcome, SettledBy
<1>4. OutcomesStay
  BY DEF OutcomesStay, SettledBy
<1> QED BY <1>2, <1>3, <1>4 DEF Bindings

(* Requests that did nothing still know their jobs. *)
LEMMA StillKnows ==
  ASSUME NEW s \in Requests, KnowsItsJob(reqs[s]), reqs'[s] = reqs[s],
         reqs[s].op \in {"dispatching", "waiting", "applying"} =>
           /\ jobs'[reqs[s].job].phase = jobs[reqs[s].job].phase
           /\ jobs'[reqs[s].job].act = jobs[reqs[s].job].act
           /\ jobs'[reqs[s].job].key = jobs[reqs[s].job].key,
         reqs[s].op = "applying" =>
           jobs'[reqs[s].job].result = jobs[reqs[s].job].result,
         reqs[s].op \in {"waiting", "applying"} /\ reqs[s].eager =>
           latest'[reqs[s].act] = latest[reqs[s].act]
  PROVE  KnowsItsJob(reqs[s])'
BY DEF KnowsItsJob

(* A request that is idle holds nothing. *)
LEMMA IdleKnows ==
  ASSUME NEW s \in Requests, reqs'[s].op \in {"idle", "tender", "binding"}
  PROVE  KnowsItsJob(reqs[s])' /\ \A a : ~Enqueuing(s, a)'
BY DEF KnowsItsJob, Enqueuing

(* Locks that are only let go. *)
LEMMA StillExclusive ==
  ASSUME Exclusive,
         \A s \in Requests : \/ reqs'[s] = reqs[s]
                             \/ reqs'[s].op \in {"idle", "tender", "binding"}
  PROVE  Exclusive'
BY DEF Exclusive, Enqueuing

(* A settled job disturbs no request, as no other one is applying results. *)
LEMMA SettledHolding ==
  ASSUME Holding, NEW j \in Jobs, NEW outcome \in {"succeeded", "failed"},
         SettledBy(j, outcome), UNCHANGED latest,
         \A s \in Requests : \/ reqs'[s] = reqs[s] /\ reqs[s].op # "applying"
                             \/ reqs'[s].op = "idle"
  PROVE  Holding'
<1>1. ASSUME NEW s \in Requests PROVE KnowsItsJob(reqs[s])'
  <2>1. CASE reqs'[s].op = "idle"
    BY <2>1, IdleKnows
  <2>2. CASE reqs'[s] = reqs[s] /\ reqs[s].op # "applying"
    <3>1. \A i \in Jobs : /\ jobs'[i].phase = jobs[i].phase
                          /\ jobs'[i].act = jobs[i].act
                          /\ jobs'[i].key = jobs[i].key
      BY DEF SettledBy
    <3>2. KnowsItsJob(reqs[s])
      BY DEF Holding
    <3>3. reqs[s].op \in {"dispatching", "waiting", "applying"}
            => reqs[s].job \in Jobs
      BY <3>2 DEF KnowsItsJob
    <3> QED BY <2>2, <3>1, <3>2, <3>3, StillKnows
  <2> QED BY <2>1, <2>2
<1>2. Exclusive'
  BY StillExclusive DEF Holding
<1> QED BY <1>1, <1>2 DEF Holding

(* Keys stay used as they were when no reply is added.                     *)
LEMMA KeptUse ==
  ASSUME OneUse,
         \A i \in remembered :
           jobs'[i].act = jobs[i].act /\ jobs'[i].key = jobs[i].key,
         remembered' = remembered,
         \A s \in Requests, a \in Action :
           Enqueuing(s, a)' => \/ Enqueuing(s, a) /\ reqs'[s].key = reqs[s].key
                              \/ ~Replayed(a, reqs'[s].key)
  PROVE  OneUse'
<1>1. OneJobPerKey'
  BY DEF OneUse, OneJobPerKey
<1>2. KeyUnused'
  BY DEF OneUse, KeyUnused, Replayed
<1> QED BY <1>1, <1>2 DEF OneUse

(* The reply of r is kept as r ends. *)
LEMMA RememberedUse ==
  ASSUME OneUse, Exclusive, NEW r \in Requests, NEW act \in Action, 
         Enqueuing(r, act), jobs[reqs[r].job].act = act,
         jobs[reqs[r].job].key = reqs[r].key,
         \A i \in remembered \cup {reqs[r].job} :
           jobs'[i].act = jobs[i].act /\ jobs'[i].key = jobs[i].key,
         remembered' \subseteq remembered \cup {reqs[r].job},
         reqs'[r].op = "idle",
         \A s \in Requests \ {r} : reqs'[s] = reqs[s]
  PROVE  OneUse'
<1>1. OneJobPerKey'
  BY DEF OneUse, OneJobPerKey, KeyUnused, Replayed
<1>2. KeyUnused'
  <2> SUFFICES ASSUME NEW s \in Requests, NEW a \in Action, Enqueuing(s, a)'
               PROVE  ~Replayed(a, reqs[s].key)'
    BY DEF KeyUnused
  <2>1. s # r /\ reqs'[s] = reqs[s] /\ Enqueuing(s, a)
    BY DEF Enqueuing
  <2>2. a # act
    BY <2>1 DEF Exclusive
  <2>3. ~Replayed(a, reqs[s].key)
    BY <2>1 DEF OneUse, KeyUnused
  <2> QED BY <2>1, <2>2, <2>3 DEF Replayed
<1> QED BY <1>1, <1>2 DEF OneUse

-----------------------------------------------------------------------------
(* The steps of an enqueue                                                 *)

(* A finished review without open findings means a result was applied. *)
LEMMA GateMeansReview ==
  ASSUME Bindings, Gate("document")
  PROVE  Done("review")
BY DEF Gate, Bindings, JobWhole, Done

(* The status an enqueue moves to is earned by the one it starts from. *)
LEMMA MovedEarned ==
  ASSUME Bindings, NEW a \in Action \ {"rollback"}, NEW t \in Task, Earned(t),
         MayEnqueue(t, a), Gate(a)
  PROVE  Earned(Moved(t, a))
<1>1. Moved(t, a).status = StageOf[a] /\ StageOf[a] \in Stage
  BY Tables DEF Moved, Task, Action, Stage
<1>2. a # "parse" => StepOf(t) \notin {"draft", "parsing"}
  BY Tables DEF MayEnqueue, StepOf, Action
<1>3. a = "document" => Done("review")
  BY GateMeansReview
<1>4. StageOf[a] = "pending_output" => a = "document"
  BY Tables DEF Action
<1>5. StageOf[a] # "parsing" => a # "parse"
  BY Tables
<1> HIDE DEF StageOf
<1> QED BY <1>1, <1>2, <1>3, <1>4, <1>5 DEF Earned, StepOf, Stage

(* The task is moved on and a job dispatched for it.                       *)
LEMMA DispatchStep ==
  ASSUME BidInv, TypeOK', NEW r \in Requests, NEW a \in Action, NEW k \in Keys,
         NEW j \in Jobs, NEW t \in Task, Dispatch(r, a, k, j, t),
         t = task \/ t = reqs[r].snap, MayEnqueue(t, a), Gate(a),
         \A s \in Requests \ {r} : ~Enqueuing(s, a), ~Replayed(a, k),
         UNCHANGED <<latest, remembered>>
  PROVE  BidInv'
<1>1. TypeOK /\ Bindings /\ Holding /\ OneUse /\ Worth
  BY Parts
<1>2. /\ jobs[j].phase = "unused"
      /\ \A i \in Jobs \ {j} : jobs'[i] = jobs[i]
      /\ jobs'[j].phase = "dispatching"
      /\ jobs'[j].act = a
      /\ jobs'[j].key = k
      /\ jobs'[j].result = "none"
      /\ jobs'[j].settled = 0
      /\ jobs'[j].report # "succeeded"
  <2>1. jobs[j].phase = "unused"
    BY DEF Dispatch, Fresh, Jobs
  <2> QED BY <2>1, <1>1 DEF Dispatch, TypeOK, Unused
<1>3. /\ reqs'[r].op = "dispatching"
      /\ reqs'[r].act = a
      /\ reqs'[r].key = k
      /\ reqs'[r].job = j
      /\ reqs'[r].snap = t
      /\ \A s \in Requests \ {r} : reqs'[s] = reqs[s]
  BY <1>1 DEF Dispatch, Resume, TypeOK, Idle
<1>4. j \notin remembered /\ jobs[j].result = "none"
  BY <1>1, <1>2 DEF Bindings, JobWhole
<1>5. OutcomesStay
  BY <1>2, <1>4 DEF OutcomesStay
<1>6. Bindings'
  <2>1. ASSUME NEW i \in Jobs, i # j PROVE JobWhole(i)'
    BY <1>1, <1>2, <2>1 DEF Bindings, JobWhole
  <2>2. JobWhole(j)'
    BY <1>2, <1>4 DEF JobWhole
  <2>3. OneOutcome'
    BY <1>1, <1>2 DEF Bindings, OneOutcome
  <2> QED BY <2>1, <2>2, <2>3 DEF Bindings
<1>7. Holding'
  <2>1. ASSUME NEW s \in Requests, s # r PROVE KnowsItsJob(reqs[s])'
    <3>1. KnowsItsJob(reqs[s])
      BY <1>1 DEF Holding
    <3>2. reqs[s].op \in {"dispatching", "waiting", "applying"}
            => reqs[s].job \in Jobs \ {j}
      BY <3>1, <1>2 DEF KnowsItsJob
    <3> QED BY <2>1, <3>1, <3>2, <1>2, <1>3, StillKnows
  <2>2. KnowsItsJob(reqs[r])'
    BY <1>2, <1>3 DEF KnowsItsJob
  <2>3. Exclusive'
    BY <1>1, <1>3 DEF Holding, Exclusive, Enqueuing
  <2> QED BY <2>1, <2>2, <2>3 DEF Holding
<1>8. OneUse'
  <2>1. ASSUME NEW s \in Requests, NEW b \in Action, Enqueuing(s, b)'
        PROVE  \/ Enqueuing(s, b) /\ reqs'[s].key = reqs[s].key
               \/ ~Replayed(b, reqs'[s].key)
    BY <1>3, <2>1 DEF Enqueuing
  <2>2. \A i \in remembered : jobs'[i] = jobs[i]
    BY <1>1, <1>2, <1>4 DEF TypeOK
  <2> QED BY <1>1, <2>1, <2>2, KeptUse
<1>9. Worth'
  <2>1. Earned(t)
    BY <1>1 DEF Worth, StageEarned
  <2>2. task' = task \/ (a # "rollback" /\ task' = Moved(t, a))
    BY DEF Dispatch
  <2>3. task' = task \/ Earned(task)'
    <3>1. ASSUME a # "rollback", task' = Moved(t, a) PROVE Earned(task)'
      <4>1. PICK u : u = Moved(t, a)
        OBVIOUS
      <4>2. Earned(u)
        BY <1>1, <2>1, <3>1, <4>1, MovedEarned
      <4>3. Earned(u)'
        BY <1>5, <4>2, EarnedStays
      <4> QED BY <3>1, <4>1, <4>3 DEF Earned, StepOf
    <3> QED BY <2>2, <3>1
  <2> QED BY <1>1, <1>3, <1>5, <2>3, CopiesStay
<1> QED BY <1>6, <1>7, <1>8, <1>9 DEF BidInv, Bindings, Holding, OneUse, Worth

-----------------------------------------------------------------------------
(* The steps that settle a job                                             *)

(* The record of an outcome, field by field. *)
LEMMA SettledFields ==
  ASSUME TypeOK, NEW j \in Jobs, NEW outcome
  PROVE  /\ DOMAIN Settled(j, outcome) = Jobs
         /\ \A i \in Jobs \ {j} : Settled(j, outcome)[i] = jobs[i]
         /\ Settled(j, outcome)[j] =
              [jobs[j] EXCEPT !.result = outcome, !.settled = @ + 1]
  BY DEF Settled, TypeOK, Job

(* The three ways an outcome is recorded.                                  *)
LEMMA SettledIsSettledBy ==
  ASSUME TypeOK, NEW j \in Jobs, NEW outcome \in {"succeeded", "failed"},
         jobs[j].phase = "bound", jobs[j].result = "none",
         latest[jobs[j].act] = j,
         \/ jobs' = Settled(j, outcome)
         \/ jobs' = [Settled(j, outcome) EXCEPT ![j].report = "failed"]
         \/ /\ jobs[j].act = "review"
            /\ outcome = "succeeded"
            /\ \E grave \in BOOLEAN :
                 jobs' = [Settled(j, outcome) EXCEPT ![j].report = "succeeded",
                                                     ![j].open = grave]
  PROVE  SettledBy(j, outcome)
<1> DEFINE new == Settled(j, outcome)
<1>1. /\ DOMAIN new = Jobs
      /\ \A i \in Jobs \ {j} : new[i] = jobs[i]
      /\ new[j] = [jobs[j] EXCEPT !.result = outcome, !.settled = @ + 1]
  BY SettledFields
<1>2. jobs[j] \in Job
  BY DEF TypeOK
<1>3. /\ new[j].phase = "bound" /\ new[j].act = jobs[j].act
      /\ new[j].key = jobs[j].key /\ new[j].result = outcome
      /\ new[j].settled = jobs[j].settled + 1 /\ new[j].report = jobs[j].report
  BY <1>1, <1>2 DEF Job
<1>4. new \in [Jobs -> Job]
  BY SettledTypes DEF Outcome
<1> HIDE DEF new
<1>5. CASE jobs' = new
  BY <1>1, <1>3, <1>5 DEF SettledBy
<1>6. CASE jobs' = [new EXCEPT ![j].report = "failed"]
  BY <1>1, <1>3, <1>4, <1>6 DEF SettledBy, Job
<1>7. ASSUME NEW grave \in BOOLEAN, jobs[j].act = "review", outcome = "succeeded",
             jobs' = [new EXCEPT ![j].report = "succeeded", ![j].open = grave]
      PROVE  SettledBy(j, outcome)
  <2> DEFINE one == [new EXCEPT ![j].report = "succeeded"]
  <2>0. one \in [Jobs -> Job]
    BY <1>4, SettledTypes DEF new, Outcome
  <2>1. /\ \A i \in Jobs \ {j} : one[i] = jobs[i]
        /\ one[j].phase = "bound" /\ one[j].act = jobs[j].act
        /\ one[j].key = jobs[j].key /\ one[j].result = outcome
        /\ one[j].settled = jobs[j].settled + 1
    <3>1. one[j] = [new[j] EXCEPT !.report = "succeeded"]
      BY <1>4
    <3> QED BY <1>1, <1>2, <1>3, <1>4, <3>1 DEF Job
  <2>2. jobs' = [one EXCEPT ![j].open = grave]
    BY <1>7
  <2> HIDE DEF one
  <2> QED BY <1>7, <2>0, <2>1, <2>2 DEF SettledBy, Job
<1> QED BY <1>5, <1>6, <1>7 DEF new

(* A job is settled and its task saved, by a callback or as r ends. *)
LEMMA SettleStep ==
  ASSUME BidInv, TypeOK', NEW j \in Jobs, NEW outcome \in {"succeeded", "failed"},
         SettledBy(j, outcome), Earned(task)', UNCHANGED latest,
         \/ UNCHANGED <<reqs, remembered>> /\ ResultFree
         \/ \E r \in Requests :
              /\ reqs[r].op \in {"waiting", "applying"}
              /\ reqs[r].job = j
              /\ \A s \in Requests \ {r} : reqs[s].op # "applying"
              /\ reqs' = [reqs EXCEPT ![r] = Idle]
              /\ \/ remembered' = remembered
                 \/ reqs[r].eager /\ remembered' = remembered \cup {j}
  PROVE  BidInv'
<1>1. TypeOK /\ Bindings /\ Holding /\ OneUse /\ Worth
  BY Parts
<1>2. remembered' \subseteq remembered \cup {j}
  OBVIOUS
<1>3. Bindings' /\ OutcomesStay
  BY <1>1, <1>2, SettledBindings
<1>4. \A i \in Jobs : jobs'[i].act = jobs[i].act /\ jobs'[i].key = jobs[i].key
  BY DEF SettledBy
<1>5. CASE UNCHANGED <<reqs, remembered>> /\ ResultFree
  <2>1. Holding'
    BY <1>1, <1>5, SettledHolding DEF ResultFree
  <2>2. OneUse'
    BY <1>1, <1>4, <1>5 DEF OneUse, OneJobPerKey, KeyUnused, Replayed, Enqueuing,
       TypeOK
  <2>3. Worth'
    BY <1>1, <1>3, <1>5, CopiesStay
  <2> QED BY <1>3, <2>1, <2>2, <2>3 DEF BidInv, Bindings, Holding, OneUse, Worth
<1>6. ASSUME NEW r \in Requests, reqs[r].op \in {"waiting", "applying"},
             reqs[r].job = j, \A s \in Requests \ {r} : reqs[s].op # "applying",
             reqs' = [reqs EXCEPT ![r] = Idle],
             \/ remembered' = remembered
             \/ reqs[r].eager /\ remembered' = remembered \cup {j}
      PROVE  BidInv'
  <2>1. reqs'[r] = Idle /\ \A s \in Requests \ {r} : reqs'[s] = reqs[s]
    BY <1>1, <1>6 DEF TypeOK
  <2>2. Holding'
    BY <1>1, <1>6, <2>1, SettledHolding DEF Idle
  <2>3. OneUse'
    <3>1. CASE remembered' = remembered
      <4>1. \A s \in Requests, a \in Action :
              Enqueuing(s, a)' => Enqueuing(s, a) /\ reqs'[s].key = reqs[s].key
        BY <2>1 DEF Enqueuing, Idle
      <4> QED BY <1>1, <1>4, <3>1, <4>1, KeptUse DEF TypeOK
    <3>2. CASE reqs[r].eager /\ remembered' = remembered \cup {j}
      <4>1. /\ reqs[r].act \in Action
            /\ jobs[j].act = reqs[r].act
            /\ jobs[j].key = reqs[r].key
        BY <1>1, <1>6 DEF Holding, KnowsItsJob, TypeOK, Request
      <4>2. Enqueuing(r, reqs[r].act)
        BY <1>6, <3>2 DEF Enqueuing
      <4>3. \A i \in remembered \cup {reqs[r].job} :
              jobs'[i].act = jobs[i].act /\ jobs'[i].key = jobs[i].key
        BY <1>1, <1>4, <1>6 DEF TypeOK
      <4>4. reqs'[r].op = "idle"
        BY <2>1 DEF Idle
      <4> QED BY <1>1, <1>6, <2>1, <3>2, <4>1, <4>2, <4>3, <4>4, RememberedUse
              DEF Holding
    <3> QED BY <1>6, <3>1, <3>2
  <2>4. Worth'
    BY <1>1, <1>3, <2>1, CopiesStay
  <2> QED BY <1>3, <2>2, <2>3, <2>4 DEF BidInv, Bindings, Holding, OneUse, Worth
<1> QED BY <1>5, <1>6

(* What a recorded success adds. *)
LEMMA NowDone ==
  ASSUME NEW j \in Jobs, SettledBy(j, "succeeded")
  PROVE  Done(jobs[j].act)'
BY DEF SettledBy, Done

(* A result applied at once is earned by the status it leads to.           *)
LEMMA ApplyNowEarned ==
  ASSUME BidInv, NEW j \in Jobs, NEW outcome \in Outcome, ApplyNow(j, outcome)
  PROVE  /\ outcome \in {"succeeded", "failed"}
         /\ SettledBy(j, outcome)
         /\ Earned(task)'
<1>1. TypeOK /\ Bindings /\ Worth /\ Earned(task)
  BY Parts DEF Worth, StageEarned
<1>2. outcome \in {"succeeded", "failed"}
  BY DEF ApplyNow
<1>3. SettledBy(j, outcome)
  BY <1>1, <1>2, SettledIsSettledBy
  DEF ApplyNow, Applicable, ApplyParse, ApplyMatch, ApplyRollback, RollbackFailed,
      StageFailed
<1>4. OutcomesStay
  BY <1>1, <1>3, <1>2 DEF OutcomesStay, SettledBy
<1>5. \A t : Earned(t) => Earned(t)'
  BY <1>4, EarnedStays
<1>6. ASSUME task' = task PROVE Earned(task)'
  <2>1. PICK t : t = task
    OBVIOUS
  <2>2. Earned(t)'
    BY <1>1, <1>5, <2>1
  <2> QED BY <1>6, <2>1, <2>2 DEF Earned, StepOf
<1>7. ASSUME outcome = "succeeded", ApplyParse(j) PROVE Earned(task)'
  <2>1. jobs'[j].act = "parse" /\ jobs'[j].result = "succeeded"
    BY <1>3, <1>7 DEF ApplyParse, SettledBy
  <2>2. Done("parse")'
    BY <2>1 DEF Done
  <2>3. task'.status = "material_prep"
    BY <1>1, <1>7 DEF ApplyParse, TypeOK, Task
  <2> QED BY <2>2, <2>3 DEF Earned, StepOf
<1>8. ASSUME outcome = "failed", StageFailed(j) PROVE Earned(task)'
  <2>1. /\ jobs'[j].act = jobs[j].act /\ jobs'[j].result = "failed"
        /\ jobs[j].act \in StagedAction
        /\ task.status = StageOf[jobs[j].act]
        /\ task'.status = "failed" /\ task'.stage = StageOf[jobs[j].act]
        /\ StageOf[jobs[j].act] \in Stage
    BY <1>1, <1>3, <1>8, Tables DEF StageFailed, SettledBy, TypeOK, Task, Stage
  <2> HIDE DEF StageOf, StagedAction
  <2>2. Broken(task.stage)'
    BY <2>1 DEF Broken
  <2>3. StepOf(task) = task'.stage
    BY <2>1 DEF StepOf, Stage
  <2>4. PICK t : t = task /\ Earned(t)
    BY <1>1
  <2>5. Earned(t)'
    BY <1>5, <2>4
  <2> QED BY <2>1, <2>2, <2>3, <2>4, <2>5 DEF Earned, StepOf
<1> QED BY <1>2, <1>3, <1>6, <1>7, <1>8
        DEF ApplyNow, ApplyMatch, ApplyRollback, RollbackFailed

-----------------------------------------------------------------------------
(* The other steps                                                         *)

(* A task whose status and stage are those of an earned one is earned. *)
LEMMA SameStep ==
  ASSUME OutcomesStay, NEW t, Earned(t), task'.status = t.status,
         task'.stage = t.stage
  PROVE  Earned(task)'
<1>1. Earned(t)'
  BY EarnedStays
<1> QED BY <1>1 DEF Earned, StepOf

(* A step of r that leaves the jobs alone. *)
LEMMA QuietStep ==
  ASSUME BidInv, TypeOK', UNCHANGED <<jobs, latest, remembered>>, Exclusive',
         NEW r \in Requests, KnowsItsJob(reqs[r])',
         \A s \in Requests \ {r} : reqs'[s] = reqs[s],
         \A a \in Action :
           Enqueuing(r, a)' => \/ Enqueuing(r, a) /\ reqs'[r].key = reqs[r].key
                              \/ ~Replayed(a, reqs'[r].key),
         reqs'[r].snap = task \/ reqs'[r].snap = Idle.snap,
         \/ task' = task
         \/ task'.status = reqs[r].snap.status /\ task'.stage = reqs[r].snap.stage
  PROVE  BidInv'
<1>1. TypeOK /\ Bindings /\ Holding /\ OneUse /\ Worth
  BY Parts
<1>2. OutcomesStay
  BY DEF OutcomesStay
<1>3. Bindings'
  BY <1>1 DEF Bindings, JobWhole, OneOutcome
<1>4. Holding'
  <2>1. ASSUME NEW s \in Requests, s # r PROVE KnowsItsJob(reqs[s])'
    BY <1>1, <2>1, StillKnows DEF Holding
  <2> QED BY <2>1 DEF Holding
<1>5. OneUse'
  <2>1. ASSUME NEW s \in Requests, NEW a \in Action, Enqueuing(s, a)'
        PROVE  \/ Enqueuing(s, a) /\ reqs'[s].key = reqs[s].key
               \/ ~Replayed(a, reqs'[s].key)
    <3>1. CASE s = r
      BY <2>1, <3>1
    <3>2. CASE s # r
      BY <2>1, <3>2 DEF Enqueuing
    <3> QED BY <3>1, <3>2
  <2> QED BY <1>1, <2>1, KeptUse
<1>6. Worth'
  <2>1. task' = task \/ Earned(task)'
    BY <1>1, <1>2, SameStep DEF Worth
  <2> QED BY <1>1, <1>2, <2>1, CopiesStay
<1> QED BY <1>3, <1>4, <1>5, <1>6 DEF BidInv, Bindings, Holding, OneUse, Worth

(* A request that ends without a result. *)
LEMMA EndStep ==
  ASSUME BidInv, TypeOK', UNCHANGED <<jobs, latest, remembered>>,
         NEW r \in Requests, Resume(r, Idle),
         \/ task' = task
         \/ task'.status = reqs[r].snap.status /\ task'.stage = reqs[r].snap.stage
  PROVE  BidInv'
<1>1. reqs'[r] = Idle /\ \A s \in Requests \ {r} : reqs'[s] = reqs[s]
  BY DEF Resume, BidInv, TypeOK
<1>2. reqs'[r].op = "idle"
  BY <1>1 DEF Idle
<1>3. Exclusive'
  BY <1>1, <1>2, StillExclusive DEF BidInv
<1>4. KnowsItsJob(reqs[r])' /\ \A a : ~Enqueuing(r, a)'
  BY <1>2, IdleKnows
<1> QED BY <1>1, <1>3, <1>4, QuietStep

(* Steps that change neither requests nor outcomes. *)
LEMMA AsideStep ==
  ASSUME BidInv, TypeOK', UNCHANGED <<latest, remembered, reqs>>, Earned(task)',
         \A j \in Jobs : /\ jobs'[j].phase = jobs[j].phase
                         /\ jobs'[j].act = jobs[j].act
                         /\ jobs'[j].key = jobs[j].key
                         /\ jobs'[j].result = jobs[j].result
                         /\ jobs'[j].settled = jobs[j].settled
                         /\ jobs'[j].report = jobs[j].report
  PROVE  BidInv'
<1>1. TypeOK /\ Bindings /\ Holding /\ OneUse /\ Worth
  BY Parts
<1>2. Bindings' /\ OutcomesStay
  BY <1>1 DEF Bindings, JobWhole, OneOutcome, OutcomesStay
<1>3. Holding'
  <2>1. ASSUME NEW s \in Requests PROVE KnowsItsJob(reqs[s])'
    <3>1. KnowsItsJob(reqs[s])
      BY <1>1 DEF Holding
    <3>2. reqs[s].op \in {"dispatching", "waiting", "applying"}
            => reqs[s].job \in Jobs
      BY <3>1 DEF KnowsItsJob
    <3> QED BY <3>1, <3>2, StillKnows
  <2> QED BY <1>1, <2>1 DEF Holding, Exclusive, Enqueuing
<1>4. OneUse'
  BY <1>1 DEF OneUse, OneJobPerKey, KeyUnused, Replayed, Enqueuing, TypeOK
<1>5. Worth'
  BY <1>1, <1>2, CopiesStay
<1> QED BY <1>2, <1>3, <1>4, <1>5 DEF BidInv, Bindings, Holding, OneUse, Worth

(* The dispatch returned. *)
LEMMA DispatchedStep ==
  ASSUME BidInv, TypeOK', NEW r \in Requests, NEW want \in Outcome,
         Dispatched(r, want)
  PROVE  BidInv'
<1> DEFINE j == reqs[r].job
           act == reqs[r].act
<1>1. TypeOK /\ Bindings /\ Holding /\ OneUse /\ Worth
  BY Parts
<1>2. /\ reqs[r].op = "dispatching"
      /\ j \in Jobs /\ jobs[j].phase = "dispatching"
      /\ jobs[j].act = act /\ jobs[j].key = reqs[r].key
      /\ act \in Action
  BY <1>1 DEF Dispatched, Holding, KnowsItsJob, TypeOK, Request
<1>3. /\ \A i \in Jobs \ {j} : jobs'[i] = jobs[i]
      /\ jobs'[j] = [jobs[j] EXCEPT !.phase = "bound"]
      /\ latest' = [latest EXCEPT ![act] = j]
      /\ latest'[act] = j
      /\ task' = task
  BY <1>1, <1>2 DEF Dispatched, TypeOK
<1>4. \A i \in Jobs : /\ jobs'[i].act = jobs[i].act
                      /\ jobs'[i].key = jobs[i].key
                      /\ jobs'[i].result = jobs[i].result
                      /\ jobs'[i].settled = jobs[i].settled
                      /\ jobs'[i].report = jobs[i].report
                      /\ i # j => jobs'[i].phase = jobs[i].phase
                      /\ jobs'[j].phase = "bound"
  BY <1>1, <1>2, <1>3 DEF TypeOK, Job
<1>5. \A s \in Requests \ {r} : reqs'[s] = reqs[s]
  BY <1>1 DEF Dispatched, Resume, TypeOK
<1>6. \/ reqs'[r] = Idle /\ remembered' = remembered \cup {j}
      \/ /\ reqs'[r] = [reqs[r] EXCEPT !.op = "waiting", !.eager = TRUE,
                                       !.want = want, !.snap = Idle.snap]
         /\ remembered' = remembered
  BY <1>1 DEF Dispatched, Resume, TypeOK
<1>7. Enqueuing(r, act)
  BY <1>2 DEF Enqueuing
<1>f. /\ reqs'[r].snap = Idle.snap
      /\ \/ reqs'[r].op = "idle" /\ remembered' = remembered \cup {j}
         \/ /\ reqs'[r].op = "waiting" /\ reqs'[r].eager
            /\ reqs'[r].act = act /\ reqs'[r].key = reqs[r].key
            /\ reqs'[r].job = j
            /\ remembered' = remembered
  <2>1. CASE reqs'[r] = Idle /\ remembered' = remembered \cup {j}
    BY <2>1 DEF Idle
  <2>2. CASE /\ reqs'[r] = [reqs[r] EXCEPT !.op = "waiting", !.eager = TRUE,
                                           !.want = want, !.snap = Idle.snap]
             /\ remembered' = remembered
    BY <1>1, <2>2 DEF TypeOK, Request
  <2> QED BY <1>6, <2>1, <2>2
<1>8. Bindings' /\ OutcomesStay
  <2>1. ASSUME NEW i \in Jobs PROVE JobWhole(i)'
    BY <1>1, <1>2, <1>4, <1>6 DEF Bindings, JobWhole
  <2> QED BY <1>1, <1>4, <2>1 DEF Bindings, OneOutcome, OutcomesStay
<1>9. Holding'
  <2>1. ASSUME NEW s \in Requests, s # r PROVE KnowsItsJob(reqs[s])'
    <3>1. KnowsItsJob(reqs[s])
      BY <1>1 DEF Holding
    <3>2. reqs[s].op \in {"dispatching", "waiting", "applying"}
            => reqs[s].job \in Jobs
      BY <3>1 DEF KnowsItsJob
    <3>3. reqs[s].op \in {"dispatching", "waiting", "applying"} => reqs[s].job # j
      <4>1. reqs[s].op = "dispatching" => reqs[s].act # act
        BY <1>1, <1>2, <1>7, <2>1 DEF Holding, Exclusive, Enqueuing
      <4> QED BY <1>2, <3>1, <4>1 DEF KnowsItsJob
    <3>4. reqs[s].op \in {"waiting", "applying"} /\ reqs[s].eager
            => reqs[s].act # act
      BY <1>1, <1>2, <1>7, <2>1 DEF Holding, Exclusive, Enqueuing
    <3>5. reqs[s].act \in Action
      BY <1>1 DEF TypeOK, Request
    <3>6. reqs[s].act # act => latest'[reqs[s].act] = latest[reqs[s].act]
      BY <1>1, <1>3, <3>5 DEF TypeOK
    <3> QED BY <1>4, <1>5, <2>1, <3>1, <3>2, <3>3, <3>4, <3>6, StillKnows
  <2>2. KnowsItsJob(reqs[r])'
    <3>1. CASE reqs'[r].op = "idle"
      BY <3>1, IdleKnows
    <3>2. CASE /\ reqs'[r].op = "waiting" /\ reqs'[r].eager
               /\ reqs'[r].act = act /\ reqs'[r].key = reqs[r].key
               /\ reqs'[r].job = j
      <4>1. /\ jobs'[j].phase = "bound" /\ jobs'[j].act = act
            /\ jobs'[j].key = reqs[r].key
        BY <1>2, <1>4
      <4> QED BY <1>2, <1>3, <3>2, <4>1 DEF KnowsItsJob
    <3> QED BY <1>f, <3>1, <3>2
  <2>3. Exclusive'
    <3>1. \A a \in Action : Enqueuing(r, a)' => Enqueuing(r, a)
      BY <1>2, <1>f DEF Enqueuing
    <3>2. reqs'[r].op # "applying"
      BY <1>f
    <3>3. \A s \in Requests, a \in Action : Enqueuing(s, a)' => Enqueuing(s, a)
      BY <1>5, <3>1 DEF Enqueuing
    <3> QED BY <1>1, <1>5, <3>2, <3>3 DEF Holding, Exclusive
  <2> QED BY <2>1, <2>2, <2>3 DEF Holding
<1>10. OneUse'
  <2>0. \A i \in remembered \cup {reqs[r].job} :
          jobs'[i].act = jobs[i].act /\ jobs'[i].key = jobs[i].key
    BY <1>1, <1>2, <1>4 DEF TypeOK
  <2>1. CASE reqs'[r].op = "idle" /\ remembered' = remembered \cup {j}
    BY <1>1, <1>2, <1>5, <1>7, <2>0, <2>1, RememberedUse DEF Holding
  <2>2. CASE /\ reqs'[r].op = "waiting" /\ reqs'[r].act = act
             /\ reqs'[r].key = reqs[r].key
             /\ remembered' = remembered
    <3>1. \A s \in Requests, a \in Action :
            Enqueuing(s, a)' => Enqueuing(s, a) /\ reqs'[s].key = reqs[s].key
      BY <1>2, <1>5, <2>2 DEF Enqueuing
    <3> QED BY <1>1, <2>0, <2>2, <3>1, KeptUse
  <2> QED BY <1>f, <2>1, <2>2
<1>11. Worth'
  BY <1>1, <1>3, <1>5, <1>8, <1>f, CopiesStay
<1> QED BY <1>8, <1>9, <1>10, <1>11 DEF BidInv, Bindings, Holding, OneUse, Worth

(* The dispatch raised. *)
LEMMA DispatchFailsStep ==
  ASSUME BidInv, TypeOK', NEW r \in Requests, DispatchFails(r)
  PROVE  BidInv'
<1> DEFINE j == reqs[r].job
           act == reqs[r].act
<1>1. TypeOK /\ Bindings /\ Holding /\ OneUse /\ Worth
  BY Parts
<1>2. /\ reqs[r].op = "dispatching"
      /\ j \in Jobs /\ jobs[j].phase = "dispatching"
      /\ jobs[j].act = act
      /\ act \in Action
      /\ j \notin remembered /\ jobs[j].result = "none"
  BY <1>1 DEF DispatchFails, Holding, KnowsItsJob, TypeOK, Request, Bindings,
     JobWhole
<1>3. /\ \A i \in Jobs \ {j} : jobs'[i] = jobs[i]
      /\ jobs'[j] = Unused
      /\ UNCHANGED <<latest, remembered>>
  BY <1>1, <1>2 DEF DispatchFails, TypeOK
<1>4. reqs'[r] = Idle /\ \A s \in Requests \ {r} : reqs'[s] = reqs[s]
  BY <1>1 DEF DispatchFails, Resume, TypeOK
<1>5. OutcomesStay
  BY <1>2, <1>3 DEF OutcomesStay
<1>6. Bindings'
  <2>1. ASSUME NEW i \in Jobs, i # j PROVE JobWhole(i)'
    BY <1>1, <1>3, <2>1 DEF Bindings, JobWhole
  <2>2. ASSUME NEW i \in Jobs, i = j PROVE JobWhole(i)'
    BY <1>2, <1>3, <2>2 DEF JobWhole, Unused
  <2>3. OneOutcome'
    BY <1>1, <1>3 DEF Bindings, OneOutcome, Unused
  <2> QED BY <2>1, <2>2, <2>3 DEF Bindings
<1>7. reqs'[r].op = "idle" /\ reqs'[r].snap = Idle.snap
  BY <1>4 DEF Idle
<1>8. Holding'
  <2>1. ASSUME NEW s \in Requests, s # r PROVE KnowsItsJob(reqs[s])'
    <3>1. KnowsItsJob(reqs[s])
      BY <1>1 DEF Holding
    <3>2. reqs[s].op = "dispatching" => reqs[s].act # act
      BY <1>1, <1>2, <2>1 DEF Holding, Exclusive, Enqueuing
    <3>3. reqs[s].op \in {"dispatching", "waiting", "applying"}
            => reqs[s].job \in Jobs \ {j}
      BY <1>2, <3>1, <3>2 DEF KnowsItsJob
    <3> QED BY <1>3, <1>4, <2>1, <3>1, <3>3, StillKnows
  <2>2. KnowsItsJob(reqs[r])'
    BY <1>7, IdleKnows
  <2>3. Exclusive'
    BY <1>1, <1>4, <1>7, StillExclusive DEF Holding
  <2> QED BY <2>1, <2>2, <2>3 DEF Holding
<1>9. OneUse'
  <2>1. \A i \in remembered : jobs'[i] = jobs[i]
    BY <1>1, <1>2, <1>3 DEF TypeOK
  <2>2. \A s \in Requests, a \in Action :
          Enqueuing(s, a)' => Enqueuing(s, a) /\ reqs'[s].key = reqs[s].key
    BY <1>4, <1>7 DEF Enqueuing
  <2> QED BY <1>1, <1>3, <2>1, <2>2, KeptUse
<1>10. Worth'
  <2>1. task' = task \/ task' = reqs[r].snap
    BY DEF DispatchFails
  <2> QED BY <1>1, <1>4, <1>5, <1>7, <2>1, CopiesStay
<1> QED BY <1>6, <1>8, <1>9, <1>10 DEF BidInv, Bindings, Holding, OneUse, Worth

(* The second half of a result that awaited its files. *)
LEMMA FinishSettles ==
  ASSUME BidInv, NEW r \in Requests,
         FinishTemplate(r) \/ FinishReview(r) \/ FinishDocument(r)
  PROVE  /\ reqs[r].op = "applying"
         /\ reqs[r].job \in Jobs
         /\ SettledBy(reqs[r].job, "succeeded")
         /\ Earned(task)'
<1> DEFINE j == reqs[r].job
<1>1. TypeOK /\ Bindings /\ Holding /\ Worth /\ KnowsItsJob(reqs[r])
  BY Parts DEF Holding
<1>2. reqs[r].op = "applying"
  BY DEF FinishTemplate, FinishReview, FinishDocument
<1>3. /\ j \in Jobs /\ jobs[j].phase = "bound" /\ jobs[j].result = "none"
      /\ jobs[j].act = reqs[r].act
      /\ reqs[r].snap.status = StageOf[reqs[r].act]
      /\ reqs[r].eager => latest[reqs[r].act] = j
      /\ reqs[r].snap \in Task
  BY <1>1, <1>2 DEF KnowsItsJob, TypeOK, Request
<1>4. latest[jobs[j].act] = j
  BY <1>3 DEF FinishTemplate, FinishReview, FinishDocument
<1>5. SettledBy(j, "succeeded")
  <2>1. CASE FinishTemplate(r) \/ FinishDocument(r)
    BY <1>1, <1>3, <1>4, <2>1, SettledIsSettledBy
    DEF FinishTemplate, FinishDocument
  <2>2. CASE FinishReview(r)
    BY <1>1, <1>3, <1>4, <2>2, SettledIsSettledBy DEF FinishReview
  <2> QED BY <2>1, <2>2
<1>6. OutcomesStay
  BY <1>3, <1>5 DEF OutcomesStay, SettledBy
<1>7. \A t : Earned(t) => Earned(t)'
  BY <1>6, EarnedStays
<1>8. Earned(task) /\ Earned(reqs[r].snap)
  BY <1>1 DEF Worth, StageEarned
<1>9. ASSUME FinishTemplate(r) PROVE Earned(task)'
  BY <1>6, <1>8, <1>9, SameStep DEF FinishTemplate
<1>10. ASSUME FinishReview(r) PROVE Earned(task)'
  <2>1. PICK t : t = reqs[r].snap /\ Earned(t)
    BY <1>8
  <2>2. Earned(t)'
    BY <1>7, <2>1
  <2>3. t.status = "ai_review" /\ task'.status = "ai_review"
    BY <1>3, <1>10, <2>1, Tables DEF FinishReview, Task
  <2> QED BY <2>2, <2>3 DEF Earned, StepOf
<1>11. ASSUME FinishDocument(r) PROVE Earned(task)'
  <2>1. PICK t : t = reqs[r].snap /\ Earned(t)
    BY <1>8
  <2>2. Earned(t)'
    BY <1>7, <2>1
  <2>3. t.status = "pending_output" /\ task'.status = "completed"
    BY <1>3, <1>11, <2>1, Tables DEF FinishDocument, Task
  <2>4. Done("document")'
    <3>1. jobs'[j].act = "document" /\ jobs'[j].result = "succeeded"
      BY <1>3, <1>5, <1>11 DEF FinishDocument, SettledBy
    <3> QED BY <1>3, <3>1 DEF Done
  <2> QED BY <2>2, <2>3, <2>4 DEF Earned, StepOf
<1> QED BY <1>2, <1>3, <1>5, <1>9, <1>10, <1>11

(* The end of an enqueue that applied its result. *)
LEMMA EagerEnds ==
  ASSUME BidInv, NEW r \in Requests, reqs[r].op = "waiting" \/ reqs[r].eager,
         EndEager(r)
  PROVE  /\ reqs' = [reqs EXCEPT ![r] = Idle]
         /\ \/ remembered' = remembered
            \/ reqs[r].eager /\ remembered' = remembered \cup {reqs[r].job}
BY DEF EndEager, Resume, BidInv, KnowsItsJob

(* Every step keeps the inductive invariant.                               *)
LEMMA InvStep == BidInv /\ [Next]_vars => BidInv'
<1> SUFFICES ASSUME BidInv, [Next]_vars PROVE BidInv'
  OBVIOUS
<1>t. TypeOK /\ TypeOK'
  BY TypeStep DEF BidInv
<1>p. TypeOK /\ Bindings /\ Holding /\ OneUse /\ Worth /\ Earned(task)
  BY Parts DEF Worth, StageEarned
<1>1. ASSUME NEW r \in Requests, NEW a \in Action, NEW k \in Keys, NEW j \in Jobs,
             BeginEnqueue(r, a, k, j)
      PROVE  BidInv'
  <2>1. task \in Task
    BY <1>t DEF TypeOK
  <2> QED BY <1>t, <1>1, <2>1, DispatchStep DEF BeginEnqueue, EnqueueFree
<1>2. ASSUME NEW r \in Requests, NEW k \in Keys, BeginParse(r, k) PROVE BidInv'
  <2>1. /\ reqs'[r].op = "checking" /\ reqs'[r].act = "parse"
        /\ reqs'[r].key = k /\ reqs'[r].snap = task
        /\ \A s \in Requests \ {r} : reqs'[s] = reqs[s]
        /\ \A s \in Requests : ~Enqueuing(s, "parse")
        /\ ~Replayed("parse", k)
        /\ UNCHANGED <<task, jobs, latest, remembered>>
    BY <1>t, <1>2 DEF BeginParse, Resume, TypeOK, Idle, EnqueueFree
  <2>2. KnowsItsJob(reqs[r])'
    BY <2>1 DEF KnowsItsJob
  <2>3. Exclusive'
    BY <1>p, <2>1 DEF Holding, Exclusive, Enqueuing
  <2>4. \A a \in Action : Enqueuing(r, a)' => ~Replayed(a, reqs'[r].key)
    BY <2>1 DEF Enqueuing
  <2> QED BY <1>t, <2>1, <2>2, <2>3, <2>4, QuietStep
<1>3. ASSUME NEW r \in Requests,
             (\E f \in Files : SetTenderFile(r, f)) \/ BindMaterial(r)
      PROVE  BidInv'
  <2>1. /\ reqs'[r].op \in {"tender", "binding"} /\ reqs'[r].snap = task
        /\ \A s \in Requests \ {r} : reqs'[s] = reqs[s]
        /\ UNCHANGED <<task, jobs, latest, remembered>>
    BY <1>t, <1>3 DEF SetTenderFile, BindMaterial, Resume, TypeOK, Idle
  <2>2. KnowsItsJob(reqs[r])' /\ \A a : ~Enqueuing(r, a)'
    BY <2>1, IdleKnows
  <2>3. Exclusive'
    BY <1>p, <2>1, StillExclusive DEF Holding
  <2> QED BY <1>t, <2>1, <2>2, <2>3, QuietStep
<1>4. ASSUME NEW j \in Jobs, NEW grave \in BOOLEAN, DecideFinding(j, grave)
      PROVE  BidInv'
  <2>1. jobs'[j] = [jobs[j] EXCEPT !.open = grave]
        /\ \A i \in Jobs \ {j} : jobs'[i] = jobs[i]
    BY <1>t, <1>4 DEF DecideFinding, TypeOK
  <2>2. \A i \in Jobs : /\ jobs'[i].phase = jobs[i].phase
                        /\ jobs'[i].act = jobs[i].act
                        /\ jobs'[i].key = jobs[i].key
                        /\ jobs'[i].result = jobs[i].result
                        /\ jobs'[i].settled = jobs[i].settled
                        /\ jobs'[i].report = jobs[i].report
    BY <1>t, <2>1 DEF TypeOK, Job
  <2>3. OutcomesStay
    BY <2>2 DEF OutcomesStay
  <2>4. Earned(task)'
    BY <1>p, <1>4, <2>3, SameStep DEF DecideFinding
  <2> QED BY <1>t, <1>4, <2>2, <2>4, AsideStep DEF DecideFinding
<1>5. CASE Archive
  <2>1. task.status = "completed" /\ task'.status = "archived"
    BY <1>t, <1>5 DEF Archive, Transitions, TypeOK, Task, BidStatus, Stage
  <2>2. Earned(task)'
    <3>1. PICK t : t = task /\ Earned(t)
      BY <1>p
    <3>2. Earned(t)'
      BY <1>5, <3>1, EarnedStays DEF Archive, OutcomesStay
    <3> QED BY <2>1, <3>1, <3>2 DEF Earned, StepOf
  <2> QED BY <1>t, <1>5, <2>2, AsideStep DEF Archive
<1>6. ASSUME NEW j \in Jobs, NEW outcome \in Outcome, Callback(j, outcome)
      PROVE  BidInv'
  BY <1>t, <1>6, ApplyNowEarned, SettleStep DEF Callback, ApplyNow
<1>7. ASSUME NEW r \in Requests, NEW j \in Jobs, BeginApply(r, j) PROVE BidInv'
  <2>1. /\ reqs'[r].op = "applying" /\ reqs'[r].act = jobs[j].act
        /\ reqs'[r].key = jobs[j].key /\ reqs'[r].job = j
        /\ ~reqs'[r].eager /\ reqs'[r].snap = task
        /\ \A s \in Requests \ {r} : reqs'[s] = reqs[s]
        /\ \A s \in Requests : reqs[s].op # "applying"
        /\ UNCHANGED <<task, jobs, latest, remembered>>
    BY <1>t, <1>7 DEF BeginApply, Resume, TypeOK, Idle, ResultFree
  <2>2. KnowsItsJob(reqs[r])'
    BY <1>7, <2>1 DEF KnowsItsJob, BeginApply, MayApply, Applicable
  <2>3. \A a : ~Enqueuing(r, a)'
    BY <2>1 DEF Enqueuing
  <2>4. Exclusive'
    BY <1>p, <2>1 DEF Holding, Exclusive, Enqueuing
  <2> QED BY <1>t, <2>1, <2>2, <2>3, <2>4, QuietStep
<1>8. ASSUME NEW r \in Requests, ResumeStep(r) PROVE BidInv'
  <2>q. reqs[r] \in Request /\ KnowsItsJob(reqs[r])
    BY <1>p DEF TypeOK, Holding
  <2>1. ASSUME NEW j \in Jobs, CheckedParse(r, j) PROVE BidInv'
    <3>1. /\ reqs[r].act = "parse" /\ Enqueuing(r, "parse")
          /\ reqs[r].key \in Keys /\ reqs[r].snap \in Task
          /\ "parse" \in Action
      BY <2>q, <2>1 DEF CheckedParse, KnowsItsJob, Enqueuing, Request, Action
    <3>2. ~Replayed("parse", reqs[r].key)
      BY <1>p, <3>1 DEF OneUse, KeyUnused
    <3>3. \A s \in Requests \ {r} : ~Enqueuing(s, "parse")
      BY <1>p, <3>1 DEF Holding, Exclusive
    <3>4. Gate("parse")
      BY DEF Gate
    <3> QED BY <1>t, <2>1, <3>1, <3>2, <3>3, <3>4, DispatchStep DEF CheckedParse
  <2>2. ASSUME NEW want \in Outcome, Dispatched(r, want) PROVE BidInv'
    BY <1>t, <2>2, DispatchedStep
  <2>3. CASE DispatchFails(r)
    BY <1>t, <2>3, DispatchFailsStep
  <2>4. CASE EagerApply(r)
    <3>1. reqs[r].job \in Jobs /\ reqs[r].want \in Outcome
      BY <2>q, <2>4 DEF EagerApply, KnowsItsJob, Request
    <3>2. \A s \in Requests \ {r} : reqs[s].op # "applying"
      BY <2>4 DEF EagerApply, ApplyNow, ResultFree
    <3> QED BY <1>t, <2>4, <3>1, <3>2, EagerEnds, ApplyNowEarned, SettleStep
            DEF EagerApply
  <2>5. CASE EagerCached(r)
    <3>1. /\ reqs[r].job \in Jobs /\ jobs[reqs[r].job].act = reqs[r].act
          /\ jobs[reqs[r].job].key = reqs[r].key /\ reqs[r].act \in Action
          /\ jobs[reqs[r].job].phase = "bound"
      BY <2>q, <2>5 DEF EagerCached, KnowsItsJob, Request
    <3>2. Enqueuing(r, reqs[r].act)
      BY <2>5 DEF EagerCached, Enqueuing
    <3>3. /\ reqs' = [reqs EXCEPT ![r] = Idle]
          /\ remembered' \subseteq remembered \cup {reqs[r].job}
          /\ UNCHANGED <<task, jobs, latest>>
      BY <2>5, EagerEnds DEF EagerCached
    <3>4. reqs'[r] = Idle /\ \A s \in Requests \ {r} : reqs'[s] = reqs[s]
      BY <1>t, <3>3 DEF TypeOK
    <3>5. reqs'[r].op = "idle" /\ reqs'[r].snap = Idle.snap
      BY <3>4 DEF Idle
    <3>6. Bindings'
      BY <1>p, <3>1, <3>3 DEF Bindings, JobWhole, OneOutcome
    <3>7. Holding'
      <4>1. ASSUME NEW s \in Requests, s # r PROVE KnowsItsJob(reqs[s])'
        BY <1>p, <3>3, <3>4, <4>1, StillKnows DEF Holding
      <4>2. KnowsItsJob(reqs[r])'
        BY <3>5, IdleKnows
      <4>3. Exclusive'
        BY <1>p, <3>4, <3>5, StillExclusive DEF Holding
      <4> QED BY <4>1, <4>2, <4>3 DEF Holding
    <3>8. OneUse'
      BY <1>p, <3>1, <3>2, <3>3, <3>4, <3>5, RememberedUse DEF Holding
    <3>9. Worth'
      BY <1>p, <3>3, <3>4, <3>5, CopiesStay DEF OutcomesStay
    <3> QED BY <1>t, <3>6, <3>7, <3>8, <3>9
            DEF BidInv, Bindings, Holding, OneUse, Worth
  <2>6. CASE EagerBegin(r)
    <3>1. /\ reqs'[r].op = "applying" /\ reqs'[r].act = reqs[r].act
          /\ reqs'[r].key = reqs[r].key /\ reqs'[r].job = reqs[r].job
          /\ reqs'[r].eager = reqs[r].eager /\ reqs'[r].snap = task
          /\ \A s \in Requests \ {r} : reqs'[s] = reqs[s]
          /\ \A s \in Requests : reqs[s].op # "applying"
          /\ UNCHANGED <<task, jobs, latest, remembered>>
      BY <1>t, <2>q, <2>6 DEF EagerBegin, Resume, TypeOK, Request, ResultFree
    <3>2. KnowsItsJob(reqs[r])'
      BY <2>q, <2>6, <3>1 DEF KnowsItsJob, EagerBegin, MayApply, Applicable
    <3>3. \A a \in Action : Enqueuing(r, a)' => Enqueuing(r, a)
      BY <2>6, <3>1 DEF Enqueuing, EagerBegin
    <3>4. \A s \in Requests, a \in Action : Enqueuing(s, a)' => Enqueuing(s, a)
      BY <3>1, <3>3 DEF Enqueuing
    <3>5. Exclusive'
      BY <1>p, <3>1, <3>4 DEF Holding, Exclusive
    <3> QED BY <1>t, <3>1, <3>2, <3>3, <3>5, QuietStep
  <2>7. CASE FinishTemplate(r) \/ FinishReview(r) \/ FinishDocument(r)
    <3>1. /\ reqs[r].op = "applying" /\ reqs[r].job \in Jobs
          /\ SettledBy(reqs[r].job, "succeeded") /\ Earned(task)'
      BY <2>7, FinishSettles
    <3>2. \A s \in Requests \ {r} : reqs[s].op # "applying"
      BY <1>p, <3>1 DEF Holding, Exclusive
    <3>3. UNCHANGED latest /\ EndApply(r)
      BY <2>7 DEF FinishTemplate, FinishReview, FinishDocument
    <3>4. /\ reqs' = [reqs EXCEPT ![r] = Idle]
          /\ \/ remembered' = remembered
             \/ reqs[r].eager /\ remembered' = remembered \cup {reqs[r].job}
      BY <3>3, EagerEnds DEF EndApply, Resume
    <3> QED BY <1>t, <3>1, <3>2, <3>3, <3>4, SettleStep
  <2>8. CASE TenderFileSet(r)
    <3>1. task'.status = reqs[r].snap.status /\ task'.stage = reqs[r].snap.stage
      BY <2>q, <2>8 DEF TenderFileSet, Request, Task
    <3> QED BY <1>t, <2>8, <3>1, EndStep DEF TenderFileSet
  <2>9. CASE MaterialBound(r)
    BY <1>t, <2>9, EndStep DEF MaterialBound
  <2>10. CASE FailRequest(r)
    BY <1>t, <2>10, EndStep DEF FailRequest
  <2> QED BY <1>8, <2>1, <2>2, <2>3, <2>4, <2>5, <2>6, <2>7, <2>8, <2>9, <2>10
          DEF ResumeStep
<1>9. CASE UNCHANGED vars
  <2>1. Earned(task)'
    BY <1>p, <1>9, SameStep DEF vars, OutcomesStay
  <2> QED BY <1>t, <1>9, <2>1, AsideStep DEF vars
<1> QED BY <1>1, <1>2, <1>3, <1>4, <1>5, <1>6, <1>7, <1>8, <1>9
        DEF Next, UserStep, CallbackStep

(* A created task satisfies it.                                            *)
LEMMA InvInit == Init => BidInv
<1> SUFFICES ASSUME Init PROVE BidInv
  OBVIOUS
<1>1. TypeOK
  <2>1. task \in Task
    BY DEF Init, Task, BidStatus
  <2>2. latest \in [Action -> 0..MaxJobs]
    BY ConstantsAssumption DEF Init
  <2> QED BY <2>1, <2>2, Values DEF Init, TypeOK
<1>2. /\ task.status = "draft"
      /\ \A r \in Requests : reqs[r].op = "idle" /\ reqs[r].snap.status = "draft"
      /\ \A j \in Jobs : /\ jobs[j].phase = "unused" /\ jobs[j].result = "none"
                         /\ jobs[j].settled = 0 /\ jobs[j].report = "none"
      /\ remembered = {}
  BY DEF Init, Idle, Unused
<1>3. Bindings
  BY <1>2 DEF Bindings, JobWhole, OneOutcome
<1>4. Holding
  BY <1>2 DEF Holding, KnowsItsJob, Exclusive, Enqueuing
<1>5. OneUse
  BY <1>2 DEF OneUse, KeyUnused, OneJobPerKey, Replayed
<1>6. Worth
  BY <1>2 DEF Worth, StageEarned, Earned, StepOf
<1> QED BY <1>1, <1>3, <1>4, <1>5, <1>6, Parts

(* The inductive invariant of jobs, locks and workflow holds in every      *)
(* state.                                                                  *)
THEOREM BidInvariant == Spec => []BidInv
<1> QED BY InvInit, InvStep, PTL DEF Spec

(* The result of a job is written to its task at most once. *)
THEOREM SettledOnce == Spec => []OneOutcome
<1>1. BidInv => OneOutcome
  BY DEF BidInv
<1> QED BY <1>1, BidInvariant, PTL

(* Two jobs whose replies are kept were not dispatched under one key. *)
THEOREM KeysAreForOneJob == Spec => []OneJobPerKey
<1>1. BidInv => OneJobPerKey
  BY DEF BidInv
<1> QED BY <1>1, BidInvariant, PTL

(* No old copy of the task that is saved skips a step of the workflow. *)
THEOREM WorkflowEarned == Spec => []StageEarned
<1>1. BidInv => StageEarned
  BY DEF BidInv
<1> QED BY <1>1, BidInvariant, PTL

(* A job is settled only while it is the newest of its action. *)
THEOREM NewestSettles == Spec => LatestWins
<1> DEFINE Newest == \A j \in Jobs : jobs'[j].result # jobs[j].result
                                     => latest[jobs[j].act] = j
<1>1. BidInv /\ [Next]_vars => [Newest]_vars
  <2> SUFFICES ASSUME BidInv, Next PROVE Newest
    BY DEF vars
  <2>p. TypeOK /\ Bindings /\ Holding
    BY Parts
  <2>s. \A i \in Jobs, outcome \in Outcome : SettledBy(i, outcome) => Newest
    BY DEF SettledBy
  <2>d. ASSUME NEW r \in Requests, NEW a, NEW k, NEW j \in Jobs, NEW t,
               Dispatch(r, a, k, j, t)
        PROVE  Newest
    <3>1. jobs[j].phase = "unused"
      BY <2>d DEF Dispatch, Fresh, Jobs
    <3>2. jobs[j].result = "none" /\ jobs'[j].result = "none"
      BY <2>p, <2>d, <3>1 DEF Bindings, JobWhole, Dispatch, TypeOK, Unused
    <3>3. \A i \in Jobs \ {j} : jobs'[i] = jobs[i]
      BY <2>p, <2>d DEF Dispatch, TypeOK
    <3> QED BY <3>2, <3>3
  <2>1. CASE UserStep
    <3>1. ASSUME NEW j \in Jobs, NEW grave \in BOOLEAN, DecideFinding(j, grave)
          PROVE  Newest
      <4>1. \A i \in Jobs : jobs'[i].result = jobs[i].result
        BY <2>p, <3>1 DEF DecideFinding, TypeOK, Job
      <4> QED BY <4>1
    <3> QED BY <2>1, <2>d, <3>1
            DEF UserStep, BeginEnqueue, BeginParse, SetTenderFile, BindMaterial,
                Archive
  <2>2. CASE CallbackStep
    BY <2>2, <2>s, ApplyNowEarned DEF CallbackStep, Callback, BeginApply
  <2>3. ASSUME NEW r \in Requests, ResumeStep(r) PROVE Newest
    <3>k. KnowsItsJob(reqs[r]) /\ reqs[r] \in Request
      BY <2>p DEF Holding, TypeOK
    <3>1. ASSUME NEW want \in Outcome, Dispatched(r, want) PROVE Newest
      <4>1. \A i \in Jobs : jobs'[i].result = jobs[i].result
        BY <2>p, <3>1 DEF Dispatched, TypeOK, Job
      <4> QED BY <4>1
    <3>2. CASE DispatchFails(r)
      <4>1. /\ reqs[r].job \in Jobs /\ jobs[reqs[r].job].result = "none"
        BY <2>p, <3>k, <3>2 DEF DispatchFails, KnowsItsJob, Bindings, JobWhole
      <4> QED BY <2>p, <3>2, <4>1 DEF DispatchFails, TypeOK, Unused
    <3>3. CASE EagerApply(r)
      <4>1. reqs[r].job \in Jobs /\ reqs[r].want \in Outcome
        BY <3>k, <3>3 DEF EagerApply, KnowsItsJob, Request
      <4> QED BY <2>s, <3>3, <4>1, ApplyNowEarned DEF EagerApply
    <3>4. CASE FinishTemplate(r) \/ FinishReview(r) \/ FinishDocument(r)
      BY <2>s, <3>4, FinishSettles DEF Outcome
    <3> QED BY <2>3, <2>d, <3>1, <3>2, <3>3, <3>4
            DEF ResumeStep, CheckedParse, EagerCached, EagerBegin, TenderFileSet,
                MaterialBound, FailRequest
  <2> QED BY <2>1, <2>2, <2>3 DEF Next
<1> QED BY <1>1, BidInvariant, PTL DEF Spec, LatestWins
==============================================================================
