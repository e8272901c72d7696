----------------------------- MODULE Evaluation -----------------------------
(***************************************************************************)
(* One evaluation of the bidding platform (backend/app/domains, module M6): *)
(* the evaluation entity, the material submissions, the supplement notices *)
(* and the score sheet, all held in one in-process EvaluationStore, and    *)
(* the staff and portal requests that act on them.                         *)
(*                                                                         *)
(* The store hands out a deep copy of the entity and takes back a whole    *)
(* entity, without comparing versions.  A request runs without             *)
(* interruption until it awaits the file service or the job dispatcher;    *)
(* the copy it read before such an await is kept in reqs[r].snap and is    *)
(* what it saves afterwards, whatever happened in between.                 *)
(***************************************************************************)
EXTENDS Naturals, FiniteSets

CONSTANTS
  Suppliers,        \* the suppliers invited to the evaluation
  Materials,        \* the material items configured in the draft
  Required,         \* those marked required
  Criteria,         \* the scoring criteria
  Notices,          \* supplement notices that can be sent (bound)
  Keys,             \* Idempotency-Key values a portal may send with a submit
  NoKey,            \* a submit without the header
  Requests,         \* requests that can be suspended at the same time (bound)
  None,             \* an unused field of a request or a notice
  CloseAtDeadline   \* review_settings.close_submission_at_deadline

ASSUME ConstantsAssumption ==
  /\ Required \subseteq Materials
  /\ Criteria # {}
  /\ None \notin Suppliers \cup Materials \cup Notices
  /\ NoKey \notin Keys
  /\ CloseAtDeadline \in BOOLEAN

VARIABLES
  entity,      \* the stored evaluation: its status and its suppliers' status
  past,        \* supplier_deadline has passed
  subs,        \* store.submissions: supplier -> material -> state
  notices,     \* store.notices
  score,       \* store.scores: supplier -> criterion -> origin of final_score
  confirmed,   \* the confirmed cells of the score sheet
  activity,    \* formal submissions recorded, per supplier and key
  reqs,        \* the suspended requests
  reached,     \* history: every status the evaluation has had
  complete,    \* history: suppliers that once held every required material
  rejected     \* history: suppliers with a risk decided "rejected"

evaluationVars == <<entity, reached>>
sheetVars == <<score, confirmed>>
historyVars == <<complete, rejected>>
vars == <<entity, past, subs, notices, score, confirmed, activity, reqs,
          reached, complete, rejected>>

(* The status of the copy a suspended portal request is going to save. *)
HeldStatus(q) == IF q.op \in {"put", "submit"} THEN q.snap.status ELSE "unread"

Lifecycle == INSTANCE EvaluationLifecycle
               WITH status <- entity.status,
                    held <- [r \in Requests |-> HeldStatus(reqs[r])],
                    AdminReopen <- FALSE

EvaluationStatus == Lifecycle!EvaluationStatus
TerminalStatus == Lifecycle!TerminalStatus

(* The supplier statuses an operation of the code ever assigns. *)
SupplierStatus == {"invited", "partial", "submitted", "supplementing",
                   "disqualified"}

SubmissionState == {"none", "draft", "submitted"}
ScoreState == {"none", "ai", "human"}

Entity == [status : EvaluationStatus, sup : [Suppliers -> SupplierStatus]]

InitEntity == [status |-> "draft", sup |-> [s \in Suppliers |-> "invited"]]

(* A request: where it is suspended, and what it still holds.              *)
(*   put       put_material_file awaits files.assert_accessible            *)
(*   listing   respond_notice awaits list_materials after a put            *)
(*   submit    submit awaits files.get_file, todo still to be marked       *)
(*   scoring   start_ai_scoring awaits jobs.enqueue                        *)
Request == [op   : {"idle", "put", "listing", "submit", "scoring"},
            who  : Suppliers \cup {None},
            mat  : Materials \cup {None},
            todo : SUBSET Materials,
            note : Notices \cup {None},
            key  : Keys \cup {NoKey},
            snap : Entity]

Idle == [op |-> "idle", who |-> None, mat |-> None, todo |-> {},
         note |-> None, key |-> NoKey, snap |-> InitEntity]

TypeOK ==
  /\ entity \in Entity
  /\ past \in BOOLEAN
  /\ subs \in [Suppliers -> [Materials -> SubmissionState]]
  /\ notices \in [Notices -> [to : Suppliers \cup {None},
                              status : {"unsent", "sent", "responded"}]]
  /\ score \in [Suppliers -> [Criteria -> ScoreState]]
  /\ confirmed \subseteq Suppliers \X Criteria
  /\ activity \in [Suppliers -> [Keys -> Nat]]
  /\ reqs \in [Requests -> Request]
  /\ reached \subseteq EvaluationStatus
  /\ complete \subseteq Suppliers
  /\ rejected \subseteq Suppliers

Init ==
  /\ entity = InitEntity
  /\ past = FALSE
  /\ subs = [s \in Suppliers |-> [m \in Materials |-> "none"]]
  /\ notices = [n \in Notices |-> [to |-> None, status |-> "unsent"]]
  /\ score = [s \in Suppliers |-> [c \in Criteria |-> "none"]]
  /\ confirmed = {}
  /\ activity = [s \in Suppliers |-> [k \in Keys |-> 0]]
  /\ reqs = [r \in Requests |-> Idle]
  /\ reached = {"draft"}
  /\ complete = {}
  /\ rejected = {}

-----------------------------------------------------------------------------
(* The state machines and the store                                        *)

CanMove(to) == to \in Lifecycle!EvaluationTransitions(entity.status)

(* A request that reads the entity, changes its status and saves it with   *)
(* no await in between.                                                    *)
SetStatus(to) ==
  /\ entity' = [entity EXCEPT !.status = to]
  /\ reached' = reached \cup {to}

(* save_evaluation of an entity that may have been read long ago. *)
SaveEntity(e) == entity' = e /\ reached' = reached \cup {e.status}

Resume(r, q) == reqs' = [reqs EXCEPT ![r] = q]

(* Mutant of AssertOpen: the early return for a closed or cancelled        *)
(* evaluation is missing.                                                  *)
AssertOpenInTerminal(s) ==
  /\ entity.status # "collecting" => entity.sup[s] = "supplementing"
  /\ past /\ CloseAtDeadline => entity.sup[s] = "supplementing"

(* PortalService._assert_open *)
AssertOpen(s) ==
  /\ entity.status \notin TerminalStatus
  /\ entity.status # "collecting" => entity.sup[s] = "supplementing"
  /\ past /\ CloseAtDeadline => entity.sup[s] = "supplementing"

Held(s) == {m \in Materials : subs[s][m] # "none"}

Scored(s) == {c \in Criteria : score[s][c] # "none"}

-----------------------------------------------------------------------------
(* Staff requests that run without a suspension before their last save     *)

Publish ==
  /\ CanMove("collecting")
  /\ SetStatus("collecting")
  /\ UNCHANGED <<past, subs, notices, sheetVars, activity, reqs, historyVars>>

(* A formal submission blocks everybody but an administrator. *)
HasSubmission ==
  \E s \in Suppliers : entity.sup[s] \in {"submitted", "supplementing"}

Cancel(admin) ==
  /\ CanMove("cancelled")
  /\ entity.status = "collecting" /\ HasSubmission => admin
  /\ SetStatus("cancelled")
  /\ UNCHANGED <<past, subs, notices, sheetVars, activity, reqs, historyVars>>

Close ==
  /\ CanMove("closed")
  /\ SetStatus("closed")
  /\ UNCHANGED <<past, subs, notices, sheetVars, activity, reqs, historyVars>>

AdvanceToPending ==
  /\ CanMove("pending")
  /\ SetStatus("pending")
  /\ UNCHANGED <<past, subs, notices, sheetVars, activity, reqs, historyVars>>

(* Mutant of AdjustScore: a cell that has no score yet is given one. *)
AdjustUnscored(s, c) ==
  /\ entity.status \in {"ai_review", "human_review"}
  /\ score' = [score EXCEPT ![s][c] = "human"]
  /\ IF entity.status = "ai_review" THEN SetStatus("human_review")
                                    ELSE UNCHANGED evaluationVars
  /\ UNCHANGED <<past, subs, notices, confirmed, activity, reqs, historyVars>>

(* adjust_score: the first human score opens the human review. *)
AdjustScore(s, c) ==
  /\ entity.status \in {"ai_review", "human_review"}
  /\ score[s][c] # "none"
  /\ score' = [score EXCEPT ![s][c] = "human"]
  /\ IF entity.status = "ai_review" THEN SetStatus("human_review")
                                    ELSE UNCHANGED evaluationVars
  /\ UNCHANGED <<past, subs, notices, confirmed, activity, reqs, historyVars>>

(* Mutant of ConfirmScores: the AI scores can be confirmed unseen. *)
ConfirmUnreviewed(scope) ==
  LET items == {x \in scope \X Criteria : score[x[1]][x[2]] # "none"} IN
  /\ items # {}
  /\ confirmed' = confirmed \cup items
  /\ IF entity.status \in {"ai_review", "human_review"}
       THEN SetStatus("completed")
       ELSE UNCHANGED evaluationVars
  /\ UNCHANGED <<past, subs, notices, score, activity, reqs, historyVars>>

(* confirm_scores, of one supplier or of all: any status will do, and any  *)
(* confirmation completes a human review.                                  *)
ConfirmScores(scope) ==
  LET items == {x \in scope \X Criteria : score[x[1]][x[2]] # "none"} IN
  /\ items # {}
  /\ confirmed' = confirmed \cup items
  /\ IF entity.status = "human_review" THEN SetStatus("completed")
                                       ELSE UNCHANGED evaluationVars
  /\ UNCHANGED <<past, subs, notices, score, activity, reqs, historyVars>>

(* Mutant of RejectRisk: a rejection counts as a withdrawal, a status the  *)
(* supplier table has and no operation uses.                               *)
RejectAsWithdrawn(s) ==
  /\ entity' = IF entity.sup[s] \in {"submitted", "supplementing", "partial"}
                 THEN [entity EXCEPT !.sup[s] = "withdrawn"]
                 ELSE entity
  /\ rejected' = rejected \cup {s}
  /\ UNCHANGED <<past, subs, notices, sheetVars, activity, reqs, reached,
                 complete>>

(* decide_risk with "rejected", whatever the status of the evaluation. *)
RejectRisk(s) ==
  /\ entity' = IF entity.sup[s] \in {"submitted", "supplementing", "partial"}
                 THEN [entity EXCEPT !.sup[s] = "disqualified"]
                 ELSE entity
  /\ rejected' = rejected \cup {s}
  /\ UNCHANGED <<past, subs, notices, sheetVars, activity, reqs, reached,
                 complete>>

(* create_supplement_notice *)
SendNotice(n, s) ==
  /\ notices[n].status = "unsent"
  /\ notices' = [notices EXCEPT ![n] = [to |-> s, status |-> "sent"]]
  /\ entity' = IF entity.sup[s] = "submitted"
                 THEN [entity EXCEPT !.sup[s] = "supplementing"]
                 ELSE entity
  /\ UNCHANGED <<past, subs, sheetVars, activity, reqs, reached, historyVars>>

-----------------------------------------------------------------------------
(* Portal: material files                                                  *)

(* put_material_file, the step after its await: the submission becomes a   *)
(* draft, and the copy read at the beginning is saved with the supplier    *)
(* moved on from invited.                                                  *)
Started(e, s) == IF e.sup[s] = "invited" THEN [e EXCEPT !.sup[s] = "partial"]
                                         ELSE e

PutRequest(s, m, n, rest) ==
  [Idle EXCEPT !.op = "put", !.who = s, !.mat = m, !.note = n,
               !.todo = rest, !.snap = entity]

BeginPut(r, s, m) ==
  /\ reqs[r].op = "idle"
  /\ AssertOpen(s)
  /\ Resume(r, PutRequest(s, m, None, {}))
  /\ UNCHANGED <<evaluationVars, past, subs, notices, sheetVars, activity,
                 historyVars>>

FinishPut(r) ==
  LET q == reqs[r] IN
  /\ q.op = "put"
  /\ subs' = [subs EXCEPT ![q.who][q.mat] = "draft"]
  /\ SaveEntity(Started(q.snap, q.who))
  /\ Resume(r, IF q.note = None
                 THEN Idle
                 ELSE [q EXCEPT !.op = "listing", !.mat = None,
                                !.snap = InitEntity])
  /\ UNCHANGED <<past, notices, sheetVars, activity, historyVars>>

(* Mutant of FailRequest: a response refused between two files hangs. *)
FailAtAwaitOnly(r) ==
  /\ reqs[r].op \in {"put", "submit", "scoring"}
  /\ Resume(r, Idle)
  /\ UNCHANGED <<evaluationVars, past, subs, notices, sheetVars, activity,
                 historyVars>>

(* The file is unknown or infected, the database fails, or, between two    *)
(* files of a response, the portal is no longer open: the request ends.    *)
FailRequest(r) ==
  /\ reqs[r].op # "idle"
  /\ Resume(r, Idle)
  /\ UNCHANGED <<evaluationVars, past, subs, notices, sheetVars, activity,
                 historyVars>>

DeleteMaterial(s, m) ==
  /\ AssertOpen(s)
  /\ subs' = [subs EXCEPT ![s][m] = "none"]
  /\ UNCHANGED <<evaluationVars, past, notices, sheetVars, activity, reqs,
                 historyVars>>

-----------------------------------------------------------------------------
(* Portal: formal submission                                               *)

(* Mutant of MaySubmit: the check for missing required materials is gone. *)
MaySubmitUnchecked(s, k) ==
  /\ k \in Keys => activity[s][k] = 0
  /\ AssertOpen(s)

(* History: the required materials a submit finds at its beginning. *)
NoteComplete(s) ==
  complete' = IF Required \subseteq Held(s) THEN complete \cup {s} ELSE complete

(* What submit checks before its first await. *)
MaySubmit(s, k) ==
  /\ k \in Keys => activity[s][k] = 0      \* no remembered receipt
  /\ AssertOpen(s)
  /\ Required \subseteq Held(s)

(* submit: the submissions found at the beginning are marked one by one,   *)
(* with an await on the file service after each.                           *)
BeginSubmit(r, s, k) ==
  /\ reqs[r].op = "idle"
  /\ MaySubmit(s, k)
  /\ \E m \in Held(s) :
       /\ subs' = [subs EXCEPT ![s][m] = "submitted"]
       /\ Resume(r, [Idle EXCEPT !.op = "submit", !.who = s, !.key = k,
                                 !.todo = Held(s) \ {m}, !.snap = entity])
  /\ NoteComplete(s)
  /\ UNCHANGED <<evaluationVars, past, notices, sheetVars, activity, rejected>>

ContinueSubmit(r) ==
  /\ reqs[r].op = "submit"
  /\ \E m \in reqs[r].todo :
       /\ subs' = [subs EXCEPT ![reqs[r].who][m] = "submitted"]
       /\ Resume(r, [reqs[r] EXCEPT !.todo = @ \ {m}])
  /\ UNCHANGED <<evaluationVars, past, notices, sheetVars, activity,
                 historyVars>>

(* The supplier of a completed submit, in the copy the request read. *)
Submitted(e, s) ==
  IF e.sup[s] \in {"invited", "partial", "supplementing"}
    THEN [e EXCEPT !.sup[s] = "submitted"]
    ELSE e

(* The receipt is remembered under the key, and the activity recorded. *)
Record(s, k) ==
  activity' = IF k = NoKey THEN activity
                           ELSE [activity EXCEPT ![s][k] = @ + 1]

FinishSubmit(r) ==
  LET q == reqs[r] IN
  /\ q.op = "submit"
  /\ q.todo = {}
  /\ SaveEntity(Submitted(q.snap, q.who))
  /\ Record(q.who, q.key)
  /\ Resume(r, Idle)
  /\ UNCHANGED <<past, subs, notices, sheetVars, historyVars>>

(* Nothing required and nothing held: submit reaches its end unsuspended. *)
SubmitNothing(s, k) ==
  /\ MaySubmit(s, k)
  /\ Held(s) = {}
  /\ SaveEntity(Submitted(entity, s))
  /\ Record(s, k)
  /\ NoteComplete(s)
  /\ UNCHANGED <<past, subs, notices, sheetVars, reqs, rejected>>

-----------------------------------------------------------------------------
(* Portal: response to a supplement notice                                 *)

(* Each file goes through put_material_file; the notice and the supplier   *)
(* are settled after the last one, on a fresh copy of the entity.          *)
BeginRespond(r, s, n, files) ==
  /\ reqs[r].op = "idle"
  /\ notices[n].to = s
  /\ AssertOpen(s)
  /\ \E m \in files : Resume(r, PutRequest(s, m, n, files \ {m}))
  /\ UNCHANGED <<evaluationVars, past, subs, notices, sheetVars, activity,
                 historyVars>>

ContinueRespond(r) ==
  LET q == reqs[r] IN
  /\ q.op = "listing"
  /\ AssertOpen(q.who)
  /\ \E m \in q.todo : Resume(r, PutRequest(q.who, m, q.note, q.todo \ {m}))
  /\ UNCHANGED <<evaluationVars, past, subs, notices, sheetVars, activity,
                 historyVars>>

Settle(n) ==
  LET s == notices[n].to IN
  /\ notices' = [notices EXCEPT ![n].status = "responded"]
  /\ entity' = IF entity.sup[s] = "supplementing"
                 THEN [entity EXCEPT !.sup[s] = "submitted"]
                 ELSE entity

FinishRespond(r) ==
  /\ reqs[r].op = "listing"
  /\ reqs[r].todo = {}
  /\ Settle(reqs[r].note)
  /\ Resume(r, Idle)
  /\ UNCHANGED <<reached, past, subs, sheetVars, activity, historyVars>>

(* No file bound: nothing is awaited, and the portal need not be open. The *)
(* supplier has a session, which only an invitation of publish can give.   *)
RespondWithoutFiles(n) ==
  /\ notices[n].status # "unsent"
  /\ "collecting" \in reached
  /\ Settle(n)
  /\ UNCHANGED <<reached, past, subs, sheetVars, activity, reqs, historyVars>>

-----------------------------------------------------------------------------
(* AI scoring                                                              *)

(* Mutant of BeginScoring: the check of the evaluation status is missing. *)
BeginScoringAnytime(r) ==
  /\ reqs[r].op = "idle"
  /\ entity' = [entity EXCEPT !.status = "ai_review"]
  /\ reached' = reached \cup {"pending", "ai_review"}
  /\ Resume(r, [Idle EXCEPT !.op = "scoring", !.snap = entity'])
  /\ UNCHANGED <<past, subs, notices, sheetVars, activity, historyVars>>

(* start_ai_scoring up to its await: the status is saved before the job is *)
(* dispatched.                                                             *)
BeginScoring(r) ==
  /\ reqs[r].op = "idle"
  /\ entity.status \in {"collecting", "pending"}
  /\ entity' = [entity EXCEPT !.status = "ai_review"]
  /\ reached' = reached \cup {"pending", "ai_review"}
  /\ Resume(r, [Idle EXCEPT !.op = "scoring", !.snap = entity'])
  /\ UNCHANGED <<past, subs, notices, sheetVars, activity, historyVars>>

(* After the dispatch: a score for every cell that has none, except for    *)
(* the suppliers that were disqualified when the request began.            *)
FinishScoring(r) ==
  LET q == reqs[r] IN
  /\ q.op = "scoring"
  /\ score' = [s \in Suppliers |-> [c \in Criteria |->
                 IF q.snap.sup[s] # "disqualified" /\ score[s][c] = "none"
                   THEN "ai"
                   ELSE score[s][c]]]
  /\ Resume(r, Idle)
  /\ UNCHANGED <<evaluationVars, past, subs, notices, confirmed, activity,
                 historyVars>>

-----------------------------------------------------------------------------
(* Without close_submission_at_deadline nobody looks at the deadline. *)
DeadlinePasses ==
  /\ ~past
  /\ CloseAtDeadline
  /\ past' = TRUE
  /\ UNCHANGED <<evaluationVars, subs, notices, sheetVars, activity, reqs,
                 historyVars>>

StaffStep ==
  \/ Publish
  \/ \E admin \in BOOLEAN : Cancel(admin)
  \/ Close
  \/ AdvanceToPending
  \/ \E s \in Suppliers, c \in Criteria : AdjustScore(s, c)
  \/ ConfirmScores(Suppliers)
  \/ \E s \in Suppliers : ConfirmScores({s})
  \/ \E s \in Suppliers : RejectRisk(s)
  \/ \E n \in Notices, s \in Suppliers : SendNotice(n, s)

PortalStep ==
  \/ \E r \in Requests, s \in Suppliers, m \in Materials : BeginPut(r, s, m)
  \/ \E s \in Suppliers, m \in Materials : DeleteMaterial(s, m)
  \/ \E r \in Requests, s \in Suppliers, k \in Keys \cup {NoKey} :
       BeginSubmit(r, s, k)
  \/ \E s \in Suppliers, k \in Keys \cup {NoKey} : SubmitNothing(s, k)
  \/ \E r \in Requests, s \in Suppliers, n \in Notices,
        files \in SUBSET Materials : BeginRespond(r, s, n, files)
  \/ \E n \in Notices : RespondWithoutFiles(n)

(* A suspended request goes on. *)
ResumeStep(r) ==
  \/ FinishPut(r)
  \/ ContinueSubmit(r)
  \/ FinishSubmit(r)
  \/ ContinueRespond(r)
  \/ FinishRespond(r)
  \/ FinishScoring(r)
  \/ FailRequest(r)

Next ==
  \/ StaffStep
  \/ PortalStep
  \/ \E r \in Requests : BeginScoring(r)
  \/ \E r \in Requests : ResumeStep(r)
  \/ DeadlinePasses

Spec == Init /\ [][Next]_vars

(* The event loop resumes every suspended request: its await returns or    *)
(* raises.  Nobody is obliged to send a request.                           *)
FairSpec == Spec /\ \A r \in Requests : WF_vars(ResumeStep(r))

-----------------------------------------------------------------------------
(* Properties                                                              *)

PortalBusy(r) == reqs[r].op \in {"put", "listing", "submit"}

(* A result is never reached without people: whatever an overlapping       *)
(* request writes back, an evaluation is in human review, completed or     *)
(* closed only if a reviewer has scored a cell, and completed or closed    *)
(* only if some score has been confirmed (adjust_score, confirm_scores).   *)
ReviewBeforeResult ==
  /\ entity.status \in {"human_review", "completed", "closed"}
       => \E s \in Suppliers, c \in Criteria : score[s][c] = "human"
  /\ entity.status \in {"completed", "closed"} => confirmed # {}

(* A supplier counts as having submitted only if, when some submit of its  *)
(* began, it held every required material, even when an old copy of the    *)
(* entity brings the status back (submit's check for missing materials).   *)
SubmittedWasComplete ==
  \A s \in Suppliers :
    entity.sup[s] \in {"submitted", "supplementing"} => s \in complete

(* The score sheet is written whole: once anybody is scored, every         *)
(* supplier has a score for every criterion, except one that a reviewer    *)
(* rejected before the scoring began (start_ai_scoring after its await).   *)
SheetIsWhole ==
  /\ \A s \in Suppliers : Scored(s) \in {{}, Criteria}
  /\ (\E s \in Suppliers : Scored(s) # {})
       => \A s \in Suppliers : Scored(s) = Criteria \/ s \in rejected

(* Why the invariants above survive old copies: what they say of the       *)
(* stored entity follows from facts that never become false again, and     *)
(* those facts hold of every copy a request still carries.                 *)
Earned(e) ==
  \A s \in Suppliers :
    /\ e.sup[s] \in {"submitted", "supplementing"} => s \in complete
    /\ e.sup[s] = "disqualified" => s \in rejected

ReachedByReview ==
  /\ entity.status \in reached
  /\ reached \cap {"human_review", "completed", "closed"} # {}
       => \E s \in Suppliers, c \in Criteria : score[s][c] = "human"
  /\ reached \cap {"completed", "closed"} # {} => confirmed # {}

CopyEarned(q) ==
  /\ q.op \in {"put", "listing", "submit"} => q.who \in Suppliers
  /\ Earned(q.snap)
  /\ q.op \in {"put", "submit"}
       => q.snap.status \in reached \ (TerminalStatus \cup {"draft"})
  /\ q.op = "submit" => q.who \in complete

CopiesEarned == \A r \in Requests : CopyEarned(reqs[r])

UntouchedDraft ==
  entity.status = "draft" => \A s \in Suppliers : entity.sup[s] = "invited"

EvaluationInv ==
  /\ TypeOK
  /\ UntouchedDraft
  /\ ReachedByReview
  /\ Earned(entity)
  /\ CopiesEarned
  /\ SheetIsWhole

(* Once the evaluation is closed or cancelled and no portal request is     *)
(* still suspended, neither its status nor any submission changes again.   *)
TerminalFreeze ==
  [][entity.status \in TerminalStatus /\ (\A r \in Requests : ~PortalBusy(r))
       => entity'.status = entity.status /\ subs' = subs]_vars

(* Overlapping requests included, the status keeps what the lifecycle      *)
(* module promises: it moves along the table, or a portal request writes   *)
(* back, once, the status it read when it was admitted.                    *)
LifecycleKept == Lifecycle!Spec

(* An evaluation that stays closed or cancelled is eventually left alone:  *)
(* the admission check of _assert_open keeps new portal requests out, and  *)
(* those under way come to an end.                                         *)
PortalQuiesces ==
  <>[](entity.status \in TerminalStatus)
    => <>[](\A r \in Requests : ~PortalBusy(r))

(* The transition table itself, read as "the only arbiter" of the status:  *)
(* the stored status changes along the table only (two entries at once     *)
(* for start_ai_scoring, which passes through pending).                    *)
StatusFollowsTable ==
  [][\/ entity'.status = entity.status
     \/ CanMove(entity'.status)
     \/ /\ entity.status = "collecting"
        /\ entity'.status = "ai_review"]_vars

(* In ai_review the table of allowed actions offers start_human_review,    *)
(* which is adjust_score on an existing score: with no scoring under way,  *)
(* there must be one.                                                      *)
HumanReviewStartable ==
  entity.status = "ai_review" /\ (\A r \in Requests : reqs[r].op # "scoring")
    => \E s \in Suppliers : Scored(s) # {}

(* A repeated submission with one Idempotency-Key leaves one record. *)
OneRecordPerKey == \A s \in Suppliers, k \in Keys : activity[s][k] <= 1
=============================================================================
