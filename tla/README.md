# TLA+ models of the bidding platform

The repository is a Python/FastAPI back end (`src/backend/app`) for two lines of
business: preparing a bid (`domains/bids` and the libraries it draws on) and
running an evaluation of suppliers (`domains/evaluations`, `portal`, `pricing`,
`scoring`), with platform services (files, jobs, accounts) and AI workers
(`ai`, `workers`), and a React demo. This directory models the parts whose
correctness depends on the order of things, checks them with TLC on small
instances, and proves what matters most with TLAPS for every instance.

## Inventory

| part | state it keeps | operations | what is hard | correct when |
|---|---|---|---|---|
| evaluation lifecycle (`evaluations/service.py`, `state_machine.py`, `store.py`) | one entity per evaluation: status, suppliers, settings; submissions, notices, scores apart from it | publish, cancel, advance, close | the store returns deep copies and saves whole entities without comparing versions; portal requests await the file service between the two | status moves along the table; terminal states freeze |
| evaluation drafts (`evaluations/service.py`, `validation.py`, `access.py`) | the entity before it is published | create, update, put_*, publish | any order, any repetition; one step fits what another left | what is published is whole |
| portal (`portal/service.py`) | submissions, receipts under idempotency keys | put/delete material, submit, respond to a notice | admission checked before an await; per-file awaits; keys checked before and filled after them | only complete suppliers count as submitted; the portal goes quiet after closing |
| invites and sessions (`portal`, `evaluations/service.py`) | code index, invite fields in the entity, tokens | issue, rotate, revoke, exchange, refresh, logout | invite fields come back with old copies while the index does not | a code is worth one living session |
| scoring (`scoring/service.py`) | score sheet, confirmations, risks, reports | AI scoring, adjust, confirm, decide risk, rank, report | the dispatch is awaited between status and scores, between the check and the risks, before the number of a report | no result without a reviewer; the sheet is whole; the ranking follows the exact totals |
| pricing (`pricing/service.py`) | rounds and quotes; the current quote in the entity | create/close round, submit quote, compare | overlapping rounds; old entities bring old quotes back | one quote per round and supplier |
| bid task (`bids/service.py`, `store.py`) | task, job bindings and results, review reports, latest job per action | enqueue parse/match/template/review/document/rollback, write results back, bind the tender file | two kinds of locks, eager results inside the enqueue, repeated and late callbacks, stale copies | a job is settled once and only as the newest; no step skipped |
| bid materials (same files) | materials with version, file, status | create, update, delete, bind, unbind, match, template | snapshots compared when a result is written, not when a file is bound | nothing a job was not shown is overwritten |
| libraries (`qualifications`, `fragments`, `documents`) | certificates, fragments, documents with versions | create, change, new version, import, roll back | entities read before a file await are saved after it | numbers are unique and consecutive |
| jobs (`jobs/services`) | a row per job, read and written in one SQL session per request | dispatch (to Celery or eager), refresh, cancel, revoke | a status is assigned from a stale row; the result backend runs on; an eager task ends in the memory of the API | the row never tells an outcome that did not happen |
| workers (`workers`) | a checkpoint per process, the task in the result backend | start, model call, retry, time limits, lost process | redelivery, checkpoints that are older or missing, cached answers | the document is whole; one end |
| AI router (`ai/router.py`, `cache.py`) | circuit breakers, cached answers | call with fallback | cooldown, levels | an offline answer is visible |
| files (`files/services`) | upload session, parts, File rows, objects | upload part, complete, cancel, clean up, delete | object store and row written by overlapping requests | a recorded part was stored; a row stands for verified bytes |
| accounts (`auth`) | users, links, tokens | invite, enable, role, reset, sign in | look-ups before commits, old links | a spent link rests |
| notifications, audit, settings, search, health, core, contracts, demo, e2e, infra, scripts | see `PROJECT.json` | | | not modelled |

The parts meet in three ways: in-process calls through ports
(`evaluations/ports.py`), the shared in-process stores, and jobs whose results
come back as calls of `apply_*` methods. The stores of bids, evaluations and the
libraries live in one process; the only interleaving there is between coroutines,
at awaits that really suspend: the calls of the file service, of `jobs.enqueue`
and of `asyncio.Lock`. `audit.append` and `notify` come after the last state
change of an operation. Jobs, files and accounts are in SQL: there requests
overlap at every await of the session, and a session keeps the row as it read it.

## Modules

Most of the code has one shape: a handler reads an entity, awaits something, and
saves what it read. The models have one action for each segment between two
awaits, and a variable that holds what a suspended request will save
(`reqs`, `held`, `binders`, `renewals`, `clerks`, `calls`). A handler that awaits
nothing before its last save is one action.

### Evaluations

**`EvaluationLifecycle`** says what the status promises: it moves along
`EVALUATION_TRANSITIONS`; besides, a portal request that read the evaluation
while it was neither closed nor cancelled may write back, once, the status it
read. `Evaluation` implements it (`LifecycleKept == Lifecycle!Spec`, the copy a
request holds being `held`).

**`Evaluation`** is one published evaluation with its suppliers. `entity` is the
stored entity; `subs`, `notices`, `score`, `confirmed`, `activity` are the
store's other tables; `reqs[r]` is a suspended request with the copy (`snap`) it
will save: `BeginPut`/`FinishPut`, `BeginSubmit`/`ContinueSubmit`/`FinishSubmit`,
`BeginRespond`/`ContinueRespond`/`FinishRespond`, `BeginScoring`/`FinishScoring`.
`FailRequest` is an await that raises. `reached`, `complete` and `rejected` are
history. `publish` only warns of a past deadline (`validation.py:36-44`), so
`DeadlinePasses` may come first; `SubmitNothing` is a submit without any
material, which awaits nothing. `advance_to_pending` has no route but is an
operation of the service. Left out: `save_draft`, notice deadlines, the job
callbacks without a caller, the statuses no operation assigns (qualified,
withdrawn, overdue), the demo seed.

**`EvaluationDraft`** is the same entity before it is published: the steps of
the configuration in any order by any member of staff, with `access.py` and
`validation.py`. **`PriceRounds`** has the rounds and quotes as tables of their
own and the current quote as the part of the entity that `EndUpload` brings back;
`Round.closed` is a hand-closed round, its opening and deadline are compared with
`clock` as `comparison` and `submit_quote` do; a quote keeps whether its round
was closed (`late`), since the round may be closed after it. **`Award`** has what the result
rests on: risk checks and reports that await the dispatcher (`desks`), decisions
on risks, and the ranking with its rounding in hundredths. `Tenderers` lists each
supplier once, as the entity does; the standing of a supplier is what `Evaluation`
says, here only as far as `decide_risk` changes it.

**`PortalSessions`** follows the codes of one evaluation: `entity` is the invite
fields, which come back with old copies, `index` the codes that can be exchanged,
`sessions` the token pairs. That a code lapses is over-approximated (any indexed
code may lapse at any time); all open statuses are one. A sequence worth knowing:
rotate to c2, an upload suspends, rotate to c3, the upload saves c2 back, another
upload suspends, revoke (which unindexes c2), the second upload saves: the invite
is active again and c3 was never unindexed.

### Bids

**`BidTask`** is one bid task. `task` holds status, failed stage and tender file;
`jobs[j]` the binding, result and review report of a job, numbered in the order
of dispatch; `latest` and `remembered` the store's tables; `reqs` the suspended
requests. The locks need no variables: the enqueue lock of an action is held by
the request that is checking, dispatching, waiting or eagerly applying for it,
the lock of results by the request that is applying. `Keys` stands for pairs of
actor and `Idempotency-Key`. A waiting enqueue may be overtaken even when the lock
is free, which `asyncio.Lock` does not allow: a superset of the real behaviours.
Callbacks (`Callback`, `BeginApply`) are the `apply_*` methods as the tests call
them; in production only the eager application inside an enqueue does. What a
worker returns, and whether it is refused, is a choice.

**`BidMaterials`** is the material list of that task, edited and bound by people
while match and template jobs run. The task's status appears as `phase`, which
moves in any way `BidTask` allows; `matJobs[j].seen` is the snapshot a job was
given; `binders` hold the material that `bind_material_file` and `batch_bind` read
before the file service answers. **`Qualifications`** has the library of
certificates with the import under its lock (`applying` is what was validated
before the awaits), **`Fragments`** one text fragment, **`DocumentVersions`** the
versions of the generated documents with `diff_sections` as an operator on texts
(functions from the sections that occur to what they say).

### Jobs and workers

**`CeleryTask`** is the interface between the API and the workers: the state a
result backend shows of one task. It is external code, modelled from how
`job_dispatcher.py` and `workers/base.py` use it. **`ModelRouter`** is the router
with its breakers, **`DocumentWorker`** the technical-document task of
`bidding_generator.py`: one action per model call and per outcome of it, the
checkpoint of each process, the shared cache, the retries of `base.py`, both time
limits and lost processes. The worker writes to the backend without looking what
is there (`Write`, `WriteResult`); that it is nevertheless a `CeleryTask`
(`WorkerIsTask == TaskSpec`) rests on the delivery of the message. **`JobRecord`**
is the row of the job under dispatch, refresh, cancel and revoke; each request has
the row as its session first read it. A dispatch sends the task, or, when the
workers are eager (the default of `infra/compose.yaml`), runs it itself
(`job_dispatcher.py:84-98`): `EagerStart` sets the row running, `EagerApply` reads
it again, `EagerReturns` is the end of `task.apply`, `EagerBind` and
`EagerPersist` write. The steps inside an eager task are abstracted to what it
reports, returns or raises; the result backend shows no more than its progress,
because the end of an eager task is not stored. `DispatchFails` is an exception
anywhere in the `try`, also after the row was set running, `DispatchDies` the end
of the process at any such point. **`JobSystem`** composes `JobRecord` with
`DocumentWorker` over the shared variables of `CeleryTask`.

### Platform

**`Accounts`** has the accounts of the staff, the links mailed to them and their
tokens; `clerks` are requests between their look-up and their commit. The hash of
a password, which a link quotes, is the number of the password. **`FileUpload`**
is one resumable upload; `calls` hold the row as the request's session read it,
and a commit writes the columns that differ from it. `stored` and `spent` (in
`Accounts`) are history.

### Model-checking modules

`MCEvaluation`, `MCBidTask`, `MCDocumentWorker`, `MCJobSystem` and `MCFileUpload`
only add symmetry sets and values. `MCAward`, `MCLibrary` and `MCPlatform` each check
several components in one run: `part` says which of them a behaviour is about, the
others stand still. The components of one such module share no variable, so a
behaviour of the run is exactly a behaviour of one component.

## Runs

| run | instance | what it shows |
|---|---|---|
| `overlap` | `Evaluation`: 1 supplier, 2 requests, 1 material, 2 criteria | the safety properties, the invariant the proofs use and the refinement, with two requests of the portal or of staff overlapping; nothing is required, so that an empty submission happens |
| `files` | `Evaluation`: 2 materials, one of them required, 1 request, deadline, key | submissions and responses of several files; the portal goes quiet |
| `table`, `stuck` | `Evaluation`: 1 supplier, 1 request | two disagreements of code and documents (below) |
| `bids` | `BidTask`: 2 requests, 3 jobs, 1 key, 1 file | jobs settled once and as the newest, keys, steps; every request ends |
| `platform` | `DocumentWorker`: 2 processes, 2 sections, 2 retries, 2 lost processes, a provider and the offline one as its fallback; `Accounts`: 2 people, 2 addresses, 3 passwords, 2 links, 2 requests | whole documents, in which an offline answer is visible; the worker is a Celery task; links are spent once |
| `nocarry` | the same worker with `CarryForward = 0`, 1 retry, 1 lost process | the context is not bounded (below) |
| `jobs` | `JobSystem`: 2 requests, 1 process, 1 paragraph, 1 lost process; dispatch to Celery or eager | the row never tells a false outcome, and settles |
| `restarted` | the same without a lost process | a finished or cancelled job is set to running (below) |
| `award` | `EvaluationDraft`, `PriceRounds`, `Award`: 2 suppliers, 2 rounds, 2 amounts, 2 quotes, 2 criteria with weights 33.33 and 66.67, 2 suspended requests; `PortalSessions`: 1 supplier, 2 codes, 2 sessions, 1 suspended request | whole configurations; quotes and their order; ranking, risks and reports; codes and tokens |
| `library` | `BidMaterials`, `Qualifications`, `Fragments`, `DocumentVersions`: 2 materials, 3 certificates of 2 numbers, 2 requests, 2 documents; `FileUpload`: 2 parts, one of which may be sent damaged, 2 requests, 1 file row | origins of files, unique numbers, versions with their bodies, differences; recorded parts |
| `livefile` | `FileUpload`: 1 part, 2 requests, 2 file rows | a file without its object (below) |

Why the bounds are enough to be interesting: a stale copy needs one suspended
request and one other step, an overlap of two stale copies needs two; a second session shows a refresh, and
a second code an exchange after a rotation; two amounts and two quotes show an
order; three passwords are two resets after one link; three jobs show a result of an older job
that comes after a newer one was bound, and a third dispatched in between; the
clock of three ticks opens, overlaps and closes both rounds. One binder and one
material job suffice to bring every pair of a job and a person together; a version
limit of 3 lets a job see, miss and see again. Two suppliers with two requests
each exceed what TLC does in minutes; symmetry is used where no liveness is
checked. What a bound hides from TLC (two live keys of one action, more
overlapping requests, more suppliers in one score sheet) is covered by the
theorems, which have no bound. `CHECK_DEADLOCK FALSE` appears where the system
may stop: a closed evaluation, an archived task whose keys are used up, an ended
job, or the bound of a counter.

## Fairness

* `Evaluation.FairSpec`: weak fairness of `ResumeStep`: the event loop resumes
  every suspended request, its await returns or raises.
* `BidTask.FairSpec`: strong fairness of `ResumeStep`, because a waiting request
  finds the lock free only now and then, and `asyncio.Lock` serves its waiters in
  turn.
* `DocumentWorker.WorkerFairness` (in `JobSystem`): the pool starts a queued
  task and goes on with the one it runs. No time limit, lost process, expiry or
  cooldown has to happen.
* `JobRecord.RequestFairness`: a request of the API that has begun goes on; the
  clients that poll a job are part of it, since a row is only settled by being
  refreshed.
* `JobRecord.DispatchFairness`: a dispatcher whose eager task has returned binds
  it and writes its result, unless it fails or its process ends.

No user, administrator or clock is obliged to do anything.

## Disagreements found

Checked by a violation run:

* `table`: an upload suspended across a cancellation saves its old copy; the
  cancelled evaluation is collecting again, against the transition table that
  calls itself the only arbiter.
* `stuck`: `start_ai_scoring` saves `ai_review` before it dispatches; if the
  dispatch raises, no score exists and none of the offered actions is possible.
* `restarted`: a refresh that read the row queued, and PROGRESS in the backend,
  writes `running` after another request has finished or cancelled the job. (The
  property leaves out the dispatcher, which likewise sets a job running that was
  cancelled before its eager task began.)
* `nocarry`: `completed_paragraphs[-n:]` is the whole text when `n` is 0, which the
  options and the contract allow; the second paragraph call is offered more than
  nothing.
* `livefile`: a session that is verifying can be completed a second time; two File
  rows then name one object, and deleting one file removes the object of the other.

Seen while modelling. Where the modules have a definition that states what is not
kept, it stands there for documentation and is in no run:

* `Evaluation.OneRecordPerKey`: two overlapping submissions with one key are both
  recorded.
* `BidTask.ParsedFileIsBound`: a task that failed in a later stage accepts a new
  tender file and is retried in that stage, so the file is never parsed.
* `ModelRouter`, `DocumentWorker.FailingProviderRests`: after its cooldown a
  breaker does not open again until a success resets it.
* `DocumentWorker.OfflineIsTold`: every route names the offline provider as its
  fallback, so its answers are reported as `fallback` and the document is returned
  as an ordinary success, where the code's message asks for a manual review.
  `OfflineIsVisible`, which is checked and proved, is what remains: such a document
  does not have the status `primary`.
* `PortalSessions.SessionsEndWithEvaluation`: portal sessions work, and can be
  refreshed, after the evaluation is closed.
* `BidMaterials.MaterialsStayDeleted`: a binding saves the material it read
  before the file await, which undoes a deletion, a match or another binding.
* `Qualifications.CertificateOnce`, `Fragments.UsesCounted` and `StaysDeleted`:
  `add_version` does the same to certificates and fragments. The properties that
  hold except them (`revived`) or are weaker (`UsesWereMade`).
* `PriceRounds.CurrentIsLast`: an overlapping upload takes a current quote back.
* `Award.RecommendedQualified`: a disqualified supplier stays in the ranking.
* `FileUpload.RecordPart`: parts uploaded at the same time each write the list they
  read, so one of them is missing.
* `JobRecord.Orphaned`: when the process that runs an eager task ends before it has
  written the row, the row stays running: the backend knows no end of it. This is
  the declared exception of `BoundJobSettles`.
* When an eager result is refused, a bid task stays in `parsing`, `ai_review` or
  `pending_output`, from which the action cannot be repeated
  (`bids/service.py:869`).

## Proofs

All proofs hold for every value of the constants that satisfies the named
assumptions of the modules (the sets are non-empty where the code needs a member,
bounds are naturals, the marks for nothing are members of nothing, a list of
suppliers names each once). Every proof module follows one pattern: the claims
are about stored state, which a suspended request may overwrite with what it
holds, so they are not inductive; the invariant says the same of every copy that
is held, and for that what the copy may rest on.

* `EvaluationProofs`: `TypeCorrect`, `InvariantHolds`, `ReviewedResult`,
  `CompleteSubmission`, `WholeSheet`, `Frozen`, `LifecycleImplemented`.
  `EvaluationInv`: whatever an entity claims (a submitted supplier, human review
  begun, a result) follows from facts that never become false again (a complete
  submission was recorded, a human score, a confirmation), and this holds for the
  stored entity and for every suspended copy. A step then either makes such a
  fact true before it claims it, or moves a copy about.
* `EvaluationLifecycleProofs`: `LegalHistory`, for the abstract machine and,
  through `LifecycleImplemented`, for its implementation.
* `BidTaskProofs`: `BidInvariant`, `SettledOnce`, `KeysAreForOneJob`,
  `WorkflowEarned`, `NewestSettles`. `BidInv` has four parts, each kept by every
  step: the bindings (a job without a binding has no result; a finished report
  means a recorded result); what a request knows of its job, with the locks
  exclusive; the keys (a key inside an enqueue method has not been used); and
  that the stored task and every suspended copy has earned its step. The eager
  document method writes without a second look at `latest`; it may, because the
  enqueue lock it holds keeps `latest` as it was, a conjunct of `KnowsItsJob`.
* `JobProofs`: `WorkerImplementsTask` (a message is under way exactly while the
  task is unfinished, `DeliveryInv`, so that what the worker writes blindly is a
  step of `CeleryTask`); `WholeDocuments` and `OfflineShows` from one
  invariant, `WorkerInv`: every checkpoint there is, the one of the attempt and the
  one each process keeps, is a `DraftOK` (paragraphs in order, a call recorded for
  each, no offline author without a status that shows it), an answer under way
  belongs to a draft that is not complete, and the cache holds nothing of the
  offline provider, whose breaker never opens, so that some level ends every call
  (`SomeLevelDecides`). `OfflineShows` holds for every route that does not name the
  offline provider first (`RouterAssumption`).
  `SystemImplementsWorker` carries all of this over to the composed system, whose
  types and deliveries `SystemTypes` states. `HonestRow` (`JobInv`: an outcome
  that a row, a session's copy or an answer of Celery tells is that of the task,
  whoever ran it; `DispatchOK`: what the dispatcher holds at each stage of an eager
  task).
* `AwardProofs`: `PublishedWhole` (what every supplier is asked for agrees with
  the items after every step, not only at publication), `QuotesCorrect` (every
  held copy of the entity shows quotes that were given; none was given to a closed
  round) and `QuotesRanked` (a set ordered by `Cheaper` is ranked without a gap
  or a tie), `PlaceholdersUnique` (placeholders come into being only together, one
  for each supplier), `AwardTypes`, `NumberedReports` (the versions of a format
  are exactly 1 to their number, whatever set of formats is appended at once),
  `FairRanking` (each rounded part is off by half a hundredth at most, hence the
  totals by half a hundredth for each criterion; the places are a bijection).
* `LibraryProofs`: `MaterialsCorrect` (a binder awaits a person's file, a job of
  which a result is being applied generates files), `ResultsReplaceWhatTheySaw`,
  `CertificatesCorrect` (a suspended copy has a number, and saving one that is
  still stored changes none), `WholeImports` (`ImportInv`: a suspended copy has
  the import mark its qualification has, so that saving it moves none; the
  placement of the rows is a bijection), `FragmentsCorrect` (a copy that is held
  has a body and counts no use that was not made), `DocumentsCorrect` (no document
  has more versions than were saved), `DifferencesRebuild`.
* `PlatformProofs`: `LinksAreSpentOnce` (`LinksInv`: a hash
  is as old as the password it was made for, and the password of an account is
  younger than every link spent for it), `UploadsCorrect` (`CarriesStored`: what a
  request carries from await to await was stored before). For the portal sessions `SessionsInvariant`, `OneSession`,
  `WholeSessions`: an indexed code has opened no session yet and every session's
  code was issued; old entities do not matter, since the index is not part of
  them.
* `CountingLemmas` has what the others share: how `SumFunctionOnSet` of the
  community modules unfolds, grows with one entry and stays within the bounds of
  its parts, and that counting those ahead ranks an ordered finite set. The
  induction is over finite sets, by a smallest counterexample (`SmallestSubset`,
  from the well-foundedness of set inclusion), because the induction theorems of
  the library take an operator as a parameter.

Only model-checked:

* liveness (`PortalQuiesces`, `Drains`, `BoundJobSettles`), which needs fairness
  and ENABLED;
* what the violation runs show.

## Not modelled

`PROJECT.json` lists each component with its status. In short: notifications,
realtime tickets, the audit log, settings, search and health record or read and
decide nothing; `core` is wiring; contracts are generated; the demo shows what the
back end decides. Of the modelled parts, prompts, providers' HTTP calls, layout of
DOCX and PDF, profile data, assignments and boards of bid tasks keep no state
whose order matters. Workers other than the technical-document task are one call
without a checkpoint. `register` and `apply_job_result_report` have no caller.
