-------------------------- MODULE EvaluationProofs --------------------------
(***************************************************************************)
(* Theorems about Evaluation, for any number of suppliers, materials,      *)
(* criteria, notices, keys and overlapping requests.                       *)
(***************************************************************************)
EXTENDS Evaluation, TLAPS

-----------------------------------------------------------------------------
(* Type correctness                                                        *)

LEMMA EntityUpdate ==
  ASSUME NEW e \in Entity
  PROVE  /\ \A to \in EvaluationStatus : [e EXCEPT !.status = to] \in Entity
         /\ \A s : \A to \in SupplierStatus :
              [e EXCEPT !.sup[s] = to] \in Entity
         /\ \A s : Started(e, s) \in Entity /\ Submitted(e, s) \in Entity
         /\ \A s : /\ Started(e, s).status = e.status
                   /\ Submitted(e, s).status = e.status
  BY DEF Entity, SupplierStatus, Started, Submitted

LEMMA StatusNames ==
  /\ EvaluationStatus = {"draft", "collecting", "pending", "ai_review",
                         "human_review", "completed", "closed", "cancelled"}
  /\ TerminalStatus = {"closed", "cancelled"}
  BY DEF EvaluationStatus, TerminalStatus, Lifecycle!EvaluationStatus,
         Lifecycle!TerminalStatus

LEMMA IdleIsRequest == InitEntity \in Entity /\ Idle \in Request
  BY StatusNames DEF InitEntity, Entity, SupplierStatus, Idle, Request

LEMMA RecordType ==
  ASSUME activity \in [Suppliers -> [Keys -> Nat]], NEW s, NEW k, Record(s, k)
  PROVE  activity' \in [Suppliers -> [Keys -> Nat]]
<1>1. CASE k \in Keys /\ s \in Suppliers
  <2>1. activity[s][k] + 1 \in Nat
    BY <1>1
  <2>2. activity' = [activity EXCEPT ![s][k] = activity[s][k] + 1] \/
        activity' = activity
    BY DEF Record
  <2> QED BY <1>1, <2>1, <2>2
<1>2. CASE ~(k \in Keys /\ s \in Suppliers)
  <2>1. activity' = [activity EXCEPT ![s][k] = activity[s][k] + 1] \/
        activity' = activity
    BY DEF Record
  <2> QED BY <1>2, <2>1
<1> QED BY <1>1, <1>2

LEMMA TypeStep == TypeOK /\ [Next]_vars => TypeOK'
<1> SUFFICES ASSUME TypeOK, [Next]_vars PROVE TypeOK'
  OBVIOUS
<1> USE DEF TypeOK, evaluationVars, sheetVars, historyVars
<1>a. entity.status \in EvaluationStatus
  BY DEF Entity
<1>1. CASE Publish
  BY <1>1, EntityUpdate, StatusNames DEF Publish, SetStatus
<1>2. ASSUME NEW admin \in BOOLEAN, Cancel(admin) PROVE TypeOK'
  BY <1>2, EntityUpdate, StatusNames DEF Cancel, SetStatus
<1>3. CASE Close
  BY <1>3, EntityUpdate, StatusNames DEF Close, SetStatus
<1>4. CASE AdvanceToPending
  BY <1>4, EntityUpdate, StatusNames DEF AdvanceToPending, SetStatus
<1>5. ASSUME NEW s \in Suppliers, NEW c \in Criteria, AdjustScore(s, c)
      PROVE  TypeOK'
  BY <1>5, EntityUpdate, StatusNames DEF AdjustScore, SetStatus, ScoreState
<1>6. ASSUME NEW scope \in SUBSET Suppliers, ConfirmScores(scope) PROVE TypeOK'
  BY <1>6, EntityUpdate, StatusNames DEF ConfirmScores, SetStatus
<1>7. ASSUME NEW s \in Suppliers, RejectRisk(s) PROVE TypeOK'
  BY <1>7, EntityUpdate DEF RejectRisk, SupplierStatus
<1>8. ASSUME NEW n \in Notices, NEW s \in Suppliers, SendNotice(n, s)
      PROVE  TypeOK'
  <2>1. entity' \in Entity
    BY <1>8, EntityUpdate DEF SendNotice, SupplierStatus
  <2> QED BY <1>8, <2>1 DEF SendNotice
<1>9. ASSUME NEW r \in Requests, NEW s \in Suppliers, NEW m \in Materials,
             BeginPut(r, s, m)
      PROVE  TypeOK'
  <2>1. PutRequest(s, m, None, {}) \in Request
    BY IdleIsRequest DEF PutRequest, Request
  <2> QED BY <1>9, <2>1 DEF BeginPut, Resume
<1>10. ASSUME NEW r \in Requests, FinishPut(r) PROVE TypeOK'
  <2>1. reqs[r] \in Request
    OBVIOUS
  <2>2. reqs[r].snap \in Entity
    BY <2>1 DEF Request
  <2>3. [reqs[r] EXCEPT !.op = "listing", !.mat = None, !.snap = InitEntity]
          \in Request
    BY <2>1, IdleIsRequest DEF Request
  <2>4. reqs' \in [Requests -> Request]
    BY <1>10, <2>3, IdleIsRequest DEF FinishPut, Resume
  <2>5. entity' \in Entity
    BY <1>10, <2>2, EntityUpdate DEF FinishPut, SaveEntity
  <2>7. reached' \subseteq EvaluationStatus
    BY <1>10, <2>5 DEF FinishPut, SaveEntity, Entity
  <2>6. subs' \in [Suppliers -> [Materials -> SubmissionState]]
    BY <1>10 DEF FinishPut, SubmissionState
  <2> QED BY <1>10, <2>4, <2>5, <2>6, <2>7 DEF FinishPut
<1>11. ASSUME NEW r \in Requests, FailRequest(r) PROVE TypeOK'
  BY <1>11, IdleIsRequest DEF FailRequest, Resume
<1>12. ASSUME NEW s \in Suppliers, NEW m \in Materials, DeleteMaterial(s, m)
       PROVE  TypeOK'
  BY <1>12 DEF DeleteMaterial, SubmissionState
<1>13. ASSUME NEW r \in Requests, NEW s \in Suppliers,
              NEW k \in Keys \cup {NoKey}, BeginSubmit(r, s, k)
       PROVE  TypeOK'
  <2>1. PICK m \in Held(s) :
          /\ subs' = [subs EXCEPT ![s][m] = "submitted"]
          /\ reqs' = [reqs EXCEPT ![r] =
                        [Idle EXCEPT !.op = "submit", !.who = s, !.key = k,
                                     !.todo = Held(s) \ {m}, !.snap = entity]]
    BY <1>13 DEF BeginSubmit, Resume
  <2>2. [Idle EXCEPT !.op = "submit", !.who = s, !.key = k,
                     !.todo = Held(s) \ {m}, !.snap = entity] \in Request
    BY IdleIsRequest DEF Request, Held
  <2>3. complete' \subseteq Suppliers
    BY <1>13 DEF BeginSubmit, NoteComplete
  <2> QED BY <1>13, <2>1, <2>2, <2>3 DEF BeginSubmit, SubmissionState
<1>14. ASSUME NEW r \in Requests, ContinueSubmit(r) PROVE TypeOK'
  <2>1. PICK m \in reqs[r].todo :
          /\ subs' = [subs EXCEPT ![reqs[r].who][m] = "submitted"]
          /\ reqs' = [reqs EXCEPT ![r] = [reqs[r] EXCEPT !.todo = @ \ {m}]]
    BY <1>14 DEF ContinueSubmit, Resume
  <2>2. [reqs[r] EXCEPT !.todo = @ \ {m}] \in Request
    BY DEF Request
  <2>3. reqs' \in [Requests -> Request]
    BY <2>1, <2>2
  <2> QED BY <1>14, <2>1, <2>3 DEF ContinueSubmit, SubmissionState
<1>15. ASSUME NEW r \in Requests, FinishSubmit(r) PROVE TypeOK'
  <2>1. reqs[r].snap \in Entity
    BY DEF Request
  <2>2. entity' \in Entity
    BY <1>15, <2>1, EntityUpdate DEF FinishSubmit, SaveEntity
  <2>5. reached' \subseteq EvaluationStatus
    BY <1>15, <2>2 DEF FinishSubmit, SaveEntity, Entity
  <2>3. activity' \in [Suppliers -> [Keys -> Nat]]
    BY <1>15, RecordType DEF FinishSubmit
  <2>4. reqs' \in [Requests -> Request]
    BY <1>15, IdleIsRequest DEF FinishSubmit, Resume
  <2> QED BY <1>15, <2>2, <2>3, <2>4, <2>5 DEF FinishSubmit
<1>16. ASSUME NEW s \in Suppliers, NEW k \in Keys \cup {NoKey},
              SubmitNothing(s, k)
       PROVE  TypeOK'
  <2>1. entity' \in Entity
    BY <1>16, EntityUpdate DEF SubmitNothing, SaveEntity
  <2>4. reached' \subseteq EvaluationStatus
    BY <1>16, <2>1 DEF SubmitNothing, SaveEntity, Entity
  <2>2. activity' \in [Suppliers -> [Keys -> Nat]]
    BY <1>16, RecordType DEF SubmitNothing
  <2>3. complete' \subseteq Suppliers
    BY <1>16 DEF SubmitNothing, NoteComplete
  <2> QED BY <1>16, <2>1, <2>2, <2>3, <2>4 DEF SubmitNothing
<1>17. ASSUME NEW r \in Requests, NEW s \in Suppliers, NEW n \in Notices,
              NEW files \in SUBSET Materials, BeginRespond(r, s, n, files)
       PROVE  TypeOK'
  <2>1. \A m \in files : PutRequest(s, m, n, files \ {m}) \in Request
    BY IdleIsRequest DEF PutRequest, Request
  <2> QED BY <1>17, <2>1 DEF BeginRespond, Resume
<1>18. ASSUME NEW r \in Requests, ContinueRespond(r) PROVE TypeOK'
  <2>1. \A m \in reqs[r].todo :
          PutRequest(reqs[r].who, m, reqs[r].note, reqs[r].todo \ {m})
            \in Request
    BY IdleIsRequest DEF PutRequest, Request
  <2> QED BY <1>18, <2>1 DEF ContinueRespond, Resume
<1>19. ASSUME NEW n, Settle(n)
       PROVE  /\ entity' \in Entity
              /\ notices' \in [Notices -> [to : Suppliers \cup {None},
                                 status : {"unsent", "sent", "responded"}]]
  BY <1>19, EntityUpdate DEF Settle, SupplierStatus
<1>20. ASSUME NEW r \in Requests, FinishRespond(r) PROVE TypeOK'
  BY <1>20, <1>19, IdleIsRequest DEF FinishRespond, Resume
<1>21. ASSUME NEW n \in Notices, RespondWithoutFiles(n) PROVE TypeOK'
  BY <1>21, <1>19 DEF RespondWithoutFiles
<1>22. ASSUME NEW r \in Requests, BeginScoring(r) PROVE TypeOK'
  <2>1. entity' \in Entity
    BY <1>22, EntityUpdate, StatusNames DEF BeginScoring
  <2>2. [Idle EXCEPT !.op = "scoring", !.snap = entity'] \in Request
    BY <2>1, IdleIsRequest DEF Request
  <2> QED BY <1>22, <2>1, <2>2, StatusNames DEF BeginScoring, Resume
<1>23. ASSUME NEW r \in Requests, FinishScoring(r) PROVE TypeOK'
  BY <1>23, IdleIsRequest DEF FinishScoring, Resume, ScoreState
<1>24. CASE DeadlinePasses
  BY <1>24 DEF DeadlinePasses
<1>25. CASE UNCHANGED vars
  BY <1>25 DEF vars
<1> QED
  BY <1>1, <1>2, <1>3, <1>4, <1>5, <1>6, <1>7, <1>8, <1>9, <1>10, <1>11,
     <1>12, <1>13, <1>14, <1>15, <1>16, <1>17, <1>18, <1>20, <1>21, <1>22,
     <1>23, <1>24, <1>25
  DEF Next, StaffStep, PortalStep, ResumeStep

LEMMA TypeInit == Init => TypeOK
<1> SUFFICES ASSUME Init PROVE TypeOK
  OBVIOUS
<1>1. entity \in Entity /\ reqs \in [Requests -> Request]
  BY IdleIsRequest DEF Init
<1>2. /\ subs \in [Suppliers -> [Materials -> SubmissionState]]
      /\ score \in [Suppliers -> [Criteria -> ScoreState]]
  BY DEF Init, SubmissionState, ScoreState
<1>3. activity \in [Suppliers -> [Keys -> Nat]]
  BY DEF Init
<1>4. notices \in [Notices -> [to : Suppliers \cup {None},
                              status : {"unsent", "sent", "responded"}]]
  BY DEF Init
<1> QED BY <1>1, <1>2, <1>3, <1>4, StatusNames DEF Init, TypeOK

(* Every variable keeps its type, whatever requests overlap. *)
THEOREM TypeCorrect == Spec => []TypeOK
  BY TypeInit, TypeStep, PTL DEF Spec

-----------------------------------------------------------------------------
(* The inductive invariant                                                 *)

(* The history only grows, so a copy that was earned stays earned.         *)
HistoryGrows ==
  /\ reached \subseteq reached'
  /\ complete \subseteq complete'
  /\ rejected \subseteq rejected'

LEMMA ReachedFrame ==
  ASSUME ReachedByReview, UNCHANGED <<score, confirmed>>,
         entity'.status \in reached',
         reached' \subseteq reached \cup {"collecting", "cancelled", "pending",
                                          "ai_review"}
  PROVE  ReachedByReview'
  BY DEF ReachedByReview

LEMMA EarnedFrame ==
  ASSUME NEW e, Earned(e), HistoryGrows, entity'.sup = e.sup
  PROVE  Earned(entity)'
  BY DEF Earned, HistoryGrows

(* CopyEarned of a value q, in the state after the step. *)
WillBeEarned(q) ==
  /\ q.op \in {"put", "listing", "submit"} => q.who \in Suppliers
  /\ \A s \in Suppliers :
       /\ q.snap.sup[s] \in {"submitted", "supplementing"} => s \in complete'
       /\ q.snap.sup[s] = "disqualified" => s \in rejected'
  /\ q.op \in {"put", "submit"}
       => q.snap.status \in reached' \ (TerminalStatus \cup {"draft"})
  /\ q.op = "submit" => q.who \in complete'

LEMMA CopiesFrame ==
  ASSUME CopiesEarned, HistoryGrows, UNCHANGED reqs
  PROVE  CopiesEarned'
  BY DEF CopiesEarned, CopyEarned, Earned, HistoryGrows

(* A request that resumes as q: the other requests keep their copies. *)
LEMMA ResumeFrame ==
  ASSUME TypeOK, CopiesEarned, HistoryGrows,
         NEW r \in Requests, NEW q, Resume(r, q), WillBeEarned(q)
  PROVE  CopiesEarned'
<1> SUFFICES ASSUME NEW x \in Requests PROVE CopyEarned(reqs[x])'
  BY DEF CopiesEarned
<1>1. CASE x = r
  <2>1. reqs'[x] = q
    BY <1>1 DEF Resume, TypeOK
  <2> QED BY <2>1 DEF WillBeEarned, CopyEarned, Earned
<1>2. CASE x # r
  <2>1. reqs'[x] = reqs[x]
    BY <1>2 DEF Resume, TypeOK
  <2> QED BY <2>1 DEF CopiesEarned, CopyEarned, Earned, HistoryGrows
<1> QED BY <1>1, <1>2

LEMMA SheetFrame ==
  ASSUME SheetIsWhole, UNCHANGED score, HistoryGrows
  PROVE  SheetIsWhole'
  BY DEF SheetIsWhole, Scored, HistoryGrows

(* What no longer carries a copy is of no concern. *)
LEMMA CopylessEarned ==
  ASSUME NEW q, q.snap = InitEntity, q.op \notin {"put", "submit"},
         q.op = "listing" => q.who \in Suppliers
  PROVE  WillBeEarned(q)
  BY DEF WillBeEarned, InitEntity

LEMMA IdleEarned == WillBeEarned(Idle)
  BY CopylessEarned DEF Idle

(* Nobody is admitted to a draft, so what is read is past the draft.       *)
LEMMA OpenIsNoDraft ==
  ASSUME EvaluationInv, NEW s \in Suppliers, AssertOpen(s)
  PROVE  entity.status \in reached \ (TerminalStatus \cup {"draft"})
  BY DEF EvaluationInv, UntouchedDraft, ReachedByReview, AssertOpen

LEMMA CopyOfEntity ==
  ASSUME EvaluationInv, NEW s \in Suppliers, AssertOpen(s), HistoryGrows,
         NEW q, q.snap = entity, q.who = s,
         q.op = "submit" => s \in complete'
  PROVE  WillBeEarned(q)
  BY OpenIsNoDraft DEF EvaluationInv, WillBeEarned, Earned, HistoryGrows

LEMMA InvStep == EvaluationInv /\ [Next]_vars => EvaluationInv'
<1> SUFFICES ASSUME EvaluationInv, [Next]_vars PROVE EvaluationInv'
  OBVIOUS
<1> USE DEF evaluationVars, sheetVars, historyVars
<1>a. /\ TypeOK /\ TypeOK'
      /\ UntouchedDraft /\ ReachedByReview /\ Earned(entity)
      /\ CopiesEarned /\ SheetIsWhole
  BY TypeStep DEF EvaluationInv
<1>b. /\ entity \in Entity /\ entity.status \in reached
      /\ \A r \in Requests : reqs[r] \in Request /\ CopyEarned(reqs[r])
  BY <1>a DEF TypeOK, ReachedByReview, CopiesEarned
<1> DEFINE Rest == /\ UntouchedDraft' /\ ReachedByReview'
                   /\ Earned(entity)' /\ CopiesEarned' /\ SheetIsWhole'
<1> SUFFICES Rest
  BY <1>a DEF EvaluationInv
(* A staff request that only moves the status, to one without a result. *)
<1>m. ASSUME NEW to \in {"collecting", "cancelled", "pending"}, SetStatus(to),
             UNCHANGED <<score, confirmed, reqs, complete, rejected>>
      PROVE  Rest
  <2>1. /\ entity'.status = to /\ entity'.sup = entity.sup
        /\ reached' = reached \cup {to}
    BY <1>m, <1>b DEF SetStatus, Entity
  <2>2. HistoryGrows
    BY <1>m, <2>1 DEF HistoryGrows
  <2>3. ReachedByReview'
    BY <1>a, <1>m, <2>1, ReachedFrame
  <2>4. Earned(entity)'
    BY <1>a, <2>1, <2>2, EarnedFrame
  <2> QED
    BY <1>a, <1>m, <2>1, <2>2, <2>3, <2>4, CopiesFrame, SheetFrame
    DEF UntouchedDraft
<1>1. CASE Publish
  BY <1>1, <1>m DEF Publish
<1>2. ASSUME NEW admin \in BOOLEAN, Cancel(admin) PROVE Rest
  BY <1>2, <1>m DEF Cancel
<1>3. CASE Close
  <2>1. entity.status = "completed"
    BY <1>3, <1>b, StatusNames
    DEF Close, CanMove, Lifecycle!EvaluationTransitions, Entity
  <2>2. /\ entity'.status = "closed" /\ entity'.sup = entity.sup
        /\ reached' = reached \cup {"closed"}
    BY <1>3, <1>b DEF Close, SetStatus, Entity
  <2>3. HistoryGrows
    BY <1>3, <2>2 DEF Close, HistoryGrows
  <2>4. ReachedByReview'
    BY <1>3, <1>a, <1>b, <2>1, <2>2 DEF Close, ReachedByReview
  <2>5. Earned(entity)'
    BY <1>a, <2>2, <2>3, EarnedFrame
  <2> QED
    BY <1>3, <1>a, <2>2, <2>3, <2>4, <2>5, CopiesFrame, SheetFrame
    DEF Close, UntouchedDraft
<1>4. CASE AdvanceToPending
  BY <1>4, <1>m DEF AdvanceToPending
<1>5. ASSUME NEW s \in Suppliers, NEW c \in Criteria, AdjustScore(s, c)
      PROVE  Rest
  <2>1. /\ entity'.sup = entity.sup /\ entity'.status = "human_review"
        /\ reached \subseteq reached'
        /\ reached' \subseteq reached \cup {"human_review"}
        /\ entity'.status \in reached'
    BY <1>5, <1>b DEF AdjustScore, SetStatus, Entity
  <2>2. HistoryGrows
    BY <1>5, <2>1 DEF AdjustScore, HistoryGrows
  <2>3. score'[s][c] = "human"
    BY <1>5, <1>a DEF AdjustScore, TypeOK
  <2>4. \A x \in Suppliers : Scored(x)' = Scored(x)
    BY <1>5, <1>a DEF AdjustScore, Scored, TypeOK
  <2>5. ReachedByReview'
    BY <1>5, <1>a, <2>1, <2>3 DEF AdjustScore, ReachedByReview
  <2>6. SheetIsWhole'
    BY <1>a, <2>2, <2>4 DEF SheetIsWhole, HistoryGrows
  <2>7. Earned(entity)'
    BY <1>a, <2>1, <2>2, EarnedFrame
  <2> QED
    BY <1>5, <1>a, <2>1, <2>2, <2>5, <2>6, <2>7, CopiesFrame
    DEF AdjustScore, UntouchedDraft
<1>6. ASSUME NEW scope \in SUBSET Suppliers, ConfirmScores(scope) PROVE Rest
  <2>1. confirmed' # {} /\ confirmed \subseteq confirmed'
    BY <1>6 DEF ConfirmScores
  <2>2. /\ entity'.sup = entity.sup
        /\ \/ entity' = entity /\ reached' = reached
           \/ /\ entity.status = "human_review"
              /\ entity'.status = "completed"
              /\ reached' = reached \cup {"completed"}
    BY <1>6, <1>b DEF ConfirmScores, SetStatus, Entity
  <2>3. HistoryGrows
    BY <1>6, <2>2 DEF ConfirmScores, HistoryGrows
  <2>4. ReachedByReview'
    BY <1>6, <1>a, <2>1, <2>2 DEF ConfirmScores, ReachedByReview
  <2>5. Earned(entity)'
    BY <1>a, <2>2, <2>3, EarnedFrame
  <2> QED
    BY <1>6, <1>a, <2>2, <2>3, <2>4, <2>5, CopiesFrame, SheetFrame
    DEF ConfirmScores, UntouchedDraft
<1>7. ASSUME NEW s \in Suppliers, RejectRisk(s) PROVE Rest
  <2>1. HistoryGrows
    BY <1>7 DEF RejectRisk, HistoryGrows
  <2>2. /\ entity'.status = entity.status
        /\ \A x \in Suppliers : \/ entity'.sup[x] = entity.sup[x]
                                \/ /\ x = s /\ entity'.sup[x] = "disqualified"
                                   /\ entity.sup[x] # "invited"
    BY <1>7, <1>b DEF RejectRisk, Entity
  <2>3. Earned(entity)'
    BY <1>7, <1>a, <2>2 DEF RejectRisk, Earned
  <2>4. ReachedByReview'
    BY <1>7, <1>a, <1>b, <2>2, ReachedFrame DEF RejectRisk
  <2> QED
    BY <1>7, <1>a, <2>1, <2>2, <2>3, <2>4, CopiesFrame, SheetFrame
    DEF RejectRisk, UntouchedDraft
<1>8. ASSUME NEW n \in Notices, NEW s \in Suppliers, SendNotice(n, s)
      PROVE  Rest
  <2>1. HistoryGrows
    BY <1>8 DEF SendNotice, HistoryGrows
  <2>2. /\ entity'.status = entity.status
        /\ \A x \in Suppliers : \/ entity'.sup[x] = entity.sup[x]
                                \/ /\ entity'.sup[x] = "supplementing"
                                   /\ entity.sup[x] = "submitted"
    BY <1>8, <1>b DEF SendNotice, Entity
  <2>3. Earned(entity)'
    BY <1>8, <1>a, <2>2 DEF SendNotice, Earned
  <2>4. ReachedByReview'
    BY <1>8, <1>a, <1>b, <2>2, ReachedFrame DEF SendNotice
  <2> QED
    BY <1>8, <1>a, <2>1, <2>2, <2>3, <2>4, CopiesFrame, SheetFrame
    DEF SendNotice, UntouchedDraft
(* A portal step that leaves everything but a request and the submissions. *)
<1>p. ASSUME UNCHANGED <<entity, reached, score, confirmed, complete, rejected>>,
             CopiesEarned'
      PROVE  Rest
  BY <1>p, <1>a, <1>b, ReachedFrame, EarnedFrame, SheetFrame
  DEF HistoryGrows, UntouchedDraft
<1>9. ASSUME NEW r \in Requests, NEW s \in Suppliers, NEW m \in Materials,
             BeginPut(r, s, m)
      PROVE  Rest
  <2>1. HistoryGrows
    BY <1>9 DEF BeginPut, HistoryGrows
  <2>2. WillBeEarned(PutRequest(s, m, None, {}))
    BY <1>9, <2>1, CopyOfEntity DEF BeginPut, PutRequest, Idle
  <2>3. CopiesEarned'
    BY <1>9, <1>a, <2>1, <2>2, ResumeFrame DEF BeginPut
  <2> QED BY <1>9, <1>p, <2>3 DEF BeginPut
(* A portal step that saves a copy of the entity. *)
<1>w. ASSUME NEW e, SaveEntity(e), e.status \in reached \ {"draft"},
             UNCHANGED <<score, confirmed, rejected>>,
             complete \subseteq complete',
             \A s \in Suppliers :
               /\ e.sup[s] \in {"submitted", "supplementing"} => s \in complete'
               /\ e.sup[s] = "disqualified" => s \in rejected,
             CopiesEarned'
      PROVE  Rest
  <2>1. entity' = e /\ reached' = reached
    BY <1>w DEF SaveEntity
  <2>2. HistoryGrows
    BY <1>w, <2>1 DEF HistoryGrows
  <2>3. ReachedByReview'
    BY <1>w, <1>a, <2>1, ReachedFrame
  <2>4. Earned(entity)'
    BY <1>w, <2>1 DEF Earned
  <2> QED
    BY <1>w, <1>a, <2>1, <2>2, <2>3, <2>4, SheetFrame DEF UntouchedDraft
<1>10. ASSUME NEW r \in Requests, FinishPut(r) PROVE Rest
  <2> DEFINE q == reqs[r]
             e == Started(q.snap, q.who)
             rest == IF q.note = None
                       THEN Idle
                       ELSE [q EXCEPT !.op = "listing", !.mat = None,
                                      !.snap = InitEntity]
  <2>1. /\ SaveEntity(e) /\ Resume(r, rest) /\ q.op = "put"
        /\ UNCHANGED <<score, confirmed, complete, rejected>>
    BY <1>10 DEF FinishPut
  <2>2. /\ q.snap \in Entity /\ q \in Request /\ CopyEarned(q)
        /\ q.who \in Suppliers
    BY <1>b, <2>1 DEF Request, CopyEarned
  <2>3. /\ e.status = q.snap.status
        /\ \A s \in Suppliers : \/ e.sup[s] = q.snap.sup[s]
                                \/ e.sup[s] = "partial"
    BY <2>2 DEF Started, Entity
  <2>4. e.status \in reached \ {"draft"}
    BY <2>1, <2>2, <2>3 DEF CopyEarned
  <2>5. \A s \in Suppliers :
          /\ e.sup[s] \in {"submitted", "supplementing"} => s \in complete
          /\ e.sup[s] = "disqualified" => s \in rejected
    BY <2>2, <2>3 DEF CopyEarned, Earned
  <2> HIDE DEF e
  <2>6. HistoryGrows
    BY <2>1, <2>4 DEF HistoryGrows, SaveEntity
  <2>7. WillBeEarned(rest)
    <3>1. CASE q.note = None
      BY <3>1, IdleEarned
    <3>2. CASE q.note # None
      <4>1. rest.snap = InitEntity /\ rest.op = "listing" /\ rest.who = q.who
        BY <2>2, <3>2 DEF Request
      <4> QED BY <2>2, <4>1, CopylessEarned
    <3> QED BY <3>1, <3>2
  <2> HIDE DEF rest
  <2>8. CopiesEarned'
    BY <1>a, <2>1, <2>6, <2>7, ResumeFrame
  <2> QED BY <1>w, <2>1, <2>4, <2>5, <2>8
<1>11. ASSUME NEW r \in Requests, FailRequest(r) PROVE Rest
  <2>1. HistoryGrows
    BY <1>11 DEF FailRequest, HistoryGrows
  <2>2. CopiesEarned'
    BY <1>11, <1>a, <2>1, IdleEarned, ResumeFrame DEF FailRequest
  <2> QED BY <1>11, <1>p, <2>2 DEF FailRequest
<1>12. ASSUME NEW s \in Suppliers, NEW m \in Materials, DeleteMaterial(s, m)
       PROVE  Rest
  BY <1>12, <1>a, <1>p, CopiesFrame DEF DeleteMaterial, HistoryGrows
<1>13. ASSUME NEW r \in Requests, NEW s \in Suppliers,
              NEW k \in Keys \cup {NoKey}, BeginSubmit(r, s, k)
       PROVE  Rest
  <2>1. PICK m \in Held(s) :
          Resume(r, [Idle EXCEPT !.op = "submit", !.who = s, !.key = k,
                                 !.todo = Held(s) \ {m}, !.snap = entity])
    BY <1>13 DEF BeginSubmit
  <2> DEFINE q == [Idle EXCEPT !.op = "submit", !.who = s, !.key = k,
                               !.todo = Held(s) \ {m}, !.snap = entity]
  <2>2. complete' = complete \cup {s}
    BY <1>13 DEF BeginSubmit, NoteComplete, MaySubmit
  <2>3. UNCHANGED <<entity, reached, score, confirmed, rejected>>
    BY <1>13 DEF BeginSubmit
  <2>4. HistoryGrows
    BY <2>2, <2>3 DEF HistoryGrows
  <2>5. WillBeEarned(q)
    <3>1. q.snap = entity /\ q.who = s /\ AssertOpen(s)
      BY <1>13 DEF BeginSubmit, MaySubmit, Idle
    <3> QED BY <2>2, <2>4, <3>1, CopyOfEntity
  <2> HIDE DEF q
  <2>6. CopiesEarned'
    BY <1>a, <2>1, <2>4, <2>5, ResumeFrame DEF q
  <2> QED
    BY <1>a, <1>b, <2>3, <2>4, <2>6, ReachedFrame, EarnedFrame, SheetFrame
    DEF UntouchedDraft
<1>14. ASSUME NEW r \in Requests, ContinueSubmit(r) PROVE Rest
  <2>1. HistoryGrows
    BY <1>14 DEF ContinueSubmit, HistoryGrows
  <2>2. PICK m \in reqs[r].todo : Resume(r, [reqs[r] EXCEPT !.todo = @ \ {m}])
    BY <1>14 DEF ContinueSubmit
  <2>3. WillBeEarned([reqs[r] EXCEPT !.todo = @ \ {m}])
    BY <1>b, <2>1
    DEF Request, WillBeEarned, CopyEarned, Earned, HistoryGrows
  <2>4. CopiesEarned'
    BY <1>a, <2>1, <2>2, <2>3, ResumeFrame
  <2> QED BY <1>14, <1>p, <2>4 DEF ContinueSubmit
(* A submitted supplier was complete when its submit began. *)
<1>s. ASSUME NEW f \in Entity, NEW s \in Suppliers, s \in complete',
             f.status \in reached \ {"draft"},
             Earned(f), complete \subseteq complete'
      PROVE  LET e == Submitted(f, s) IN
             /\ e.status \in reached \ {"draft"}
             /\ \A x \in Suppliers :
                  /\ e.sup[x] \in {"submitted", "supplementing"}
                       => x \in complete'
                  /\ e.sup[x] = "disqualified" => x \in rejected
  BY <1>s DEF Submitted, Entity, Earned
<1>15. ASSUME NEW r \in Requests, FinishSubmit(r) PROVE Rest
  <2> DEFINE q == reqs[r]
  <2>1. /\ SaveEntity(Submitted(q.snap, q.who)) /\ Resume(r, Idle)
        /\ q.op = "submit"
        /\ UNCHANGED <<score, confirmed, complete, rejected>>
    BY <1>15 DEF FinishSubmit
  <2>2. /\ q.snap \in Entity /\ CopyEarned(q)
        /\ q.who \in Suppliers /\ q.who \in complete'
        /\ q.snap.status \in reached \ {"draft"} /\ Earned(q.snap)
    BY <1>b, <2>1 DEF Request, CopyEarned
  <2> HIDE DEF q
  <2>3. LET e == Submitted(q.snap, q.who) IN
        /\ e.status \in reached \ {"draft"}
        /\ \A x \in Suppliers :
             /\ e.sup[x] \in {"submitted", "supplementing"} => x \in complete'
             /\ e.sup[x] = "disqualified" => x \in rejected
    BY <1>s, <2>1, <2>2
  <2>4. HistoryGrows
    BY <2>1, <2>3 DEF HistoryGrows, SaveEntity
  <2>5. CopiesEarned'
    BY <1>a, <2>1, <2>4, IdleEarned, ResumeFrame
  <2> QED BY <1>w, <2>1, <2>3, <2>5
<1>16. ASSUME NEW s \in Suppliers, NEW k \in Keys \cup {NoKey},
              SubmitNothing(s, k)
       PROVE  Rest
  <2>1. /\ SaveEntity(Submitted(entity, s))
        /\ complete' = complete \cup {s}
        /\ UNCHANGED <<score, confirmed, reqs, rejected>>
    BY <1>16 DEF SubmitNothing, NoteComplete, MaySubmit
  <2>2. entity.status \in reached \ {"draft"}
    BY <1>16, OpenIsNoDraft DEF SubmitNothing, MaySubmit
  <2>3. LET e == Submitted(entity, s) IN
        /\ e.status \in reached \ {"draft"}
        /\ \A x \in Suppliers :
             /\ e.sup[x] \in {"submitted", "supplementing"} => x \in complete'
             /\ e.sup[x] = "disqualified" => x \in rejected
    BY <1>a, <1>b, <1>s, <2>1, <2>2
  <2>4. HistoryGrows
    BY <2>1, <2>3 DEF HistoryGrows, SaveEntity
  <2>5. CopiesEarned'
    BY <1>a, <2>1, <2>4, CopiesFrame
  <2> QED BY <1>w, <2>1, <2>3, <2>5
<1>17. ASSUME NEW r \in Requests, NEW s \in Suppliers, NEW n \in Notices,
              NEW files \in SUBSET Materials, BeginRespond(r, s, n, files)
       PROVE  Rest
  <2>1. HistoryGrows
    BY <1>17 DEF BeginRespond, HistoryGrows
  <2>2. \A m : WillBeEarned(PutRequest(s, m, n, files \ {m}))
    BY <1>17, <2>1, CopyOfEntity DEF BeginRespond, PutRequest, Idle
  <2>3. CopiesEarned'
    BY <1>17, <1>a, <2>1, <2>2, ResumeFrame DEF BeginRespond
  <2> QED BY <1>17, <1>p, <2>3 DEF BeginRespond
<1>18. ASSUME NEW r \in Requests, ContinueRespond(r) PROVE Rest
  <2> DEFINE q == reqs[r]
  <2>1. HistoryGrows
    BY <1>18 DEF ContinueRespond, HistoryGrows
  <2>2. q.who \in Suppliers /\ AssertOpen(q.who)
    BY <1>18, <1>b DEF ContinueRespond, CopyEarned
  <2>3. \A m : WillBeEarned(PutRequest(q.who, m, q.note, q.todo \ {m}))
    BY <2>1, <2>2, CopyOfEntity DEF PutRequest, Idle
  <2>4. CopiesEarned'
    BY <1>18, <1>a, <2>1, <2>3, ResumeFrame DEF ContinueRespond
  <2> QED BY <1>18, <1>p, <2>4 DEF ContinueRespond
<1>19. ASSUME NEW n, Settle(n),
              UNCHANGED <<reached, score, confirmed, complete, rejected>>,
              CopiesEarned'
       PROVE  Rest
  <2>1. /\ entity'.status = entity.status
        /\ \A x \in Suppliers : \/ entity'.sup[x] = entity.sup[x]
                                \/ /\ entity'.sup[x] = "submitted"
                                   /\ entity.sup[x] = "supplementing"
    BY <1>19, <1>b DEF Settle, Entity
  <2>2. Earned(entity)'
    BY <1>19, <1>a, <2>1 DEF Earned
  <2>3. ReachedByReview'
    BY <1>19, <1>a, <1>b, <2>1, ReachedFrame
  <2> QED
    BY <1>19, <1>a, <2>1, <2>2, <2>3, SheetFrame
    DEF HistoryGrows, UntouchedDraft
<1>20. ASSUME NEW r \in Requests, FinishRespond(r) PROVE Rest
  BY <1>20, <1>19, <1>a, IdleEarned, ResumeFrame
  DEF FinishRespond, HistoryGrows
<1>21. ASSUME NEW n \in Notices, RespondWithoutFiles(n) PROVE Rest
  BY <1>21, <1>19, <1>a, CopiesFrame DEF RespondWithoutFiles, HistoryGrows
<1>22. ASSUME NEW r \in Requests, BeginScoring(r) PROVE Rest
  <2> DEFINE q == [Idle EXCEPT !.op = "scoring", !.snap = entity']
  <2>1. /\ Resume(r, q) /\ UNCHANGED <<score, confirmed, complete, rejected>>
        /\ entity'.status = "ai_review" /\ entity'.sup = entity.sup
        /\ reached' = reached \cup {"pending", "ai_review"}
    BY <1>22, <1>b DEF BeginScoring, Entity
  <2>2. HistoryGrows
    BY <2>1 DEF HistoryGrows
  <2>3. Earned(entity)'
    BY <1>a, <2>1, <2>2, EarnedFrame
  <2>4. WillBeEarned(q)
    BY <2>3 DEF Idle, WillBeEarned, Earned
  <2> HIDE DEF q
  <2>5. CopiesEarned'
    BY <1>a, <2>1, <2>2, <2>4, ResumeFrame
  <2>6. ReachedByReview'
    BY <1>a, <2>1, ReachedFrame
  <2> QED
    BY <1>a, <2>1, <2>2, <2>3, <2>5, <2>6, SheetFrame DEF UntouchedDraft
<1>23. ASSUME NEW r \in Requests, FinishScoring(r) PROVE Rest
  <2>1. /\ Resume(r, Idle)
        /\ UNCHANGED <<entity, reached, confirmed, complete, rejected>>
    BY <1>23 DEF FinishScoring
  <2>2. HistoryGrows
    BY <2>1 DEF HistoryGrows
  <2>3. CopiesEarned'
    BY <1>a, <2>1, <2>2, IdleEarned, ResumeFrame
  <2>4. \A s \in Suppliers, c \in Criteria :
          IF reqs[r].snap.sup[s] # "disqualified" /\ score[s][c] = "none"
            THEN score'[s][c] = "ai"
            ELSE score'[s][c] = score[s][c]
    BY <1>23 DEF FinishScoring
  <2>5. ReachedByReview'
    BY <1>a, <2>1, <2>4 DEF ReachedByReview
  <2>6. \A s \in Suppliers :
          \/ Scored(s)' = Criteria
          \/ s \in rejected /\ Scored(s)' = Scored(s)
    BY <1>b, <2>4 DEF Scored, CopyEarned, Earned
  <2>7. SheetIsWhole'
    BY <1>a, <2>1, <2>6 DEF SheetIsWhole
  <2> QED
    BY <1>a, <2>1, <2>2, <2>3, <2>5, <2>7, EarnedFrame DEF UntouchedDraft
<1>24. CASE DeadlinePasses
  BY <1>24, <1>a, <1>p, CopiesFrame DEF DeadlinePasses, HistoryGrows
<1>25. CASE UNCHANGED vars
  BY <1>25, <1>a, <1>p, CopiesFrame DEF vars, HistoryGrows
<1> HIDE DEF Rest
<1> QED
  BY <1>1, <1>2, <1>3, <1>4, <1>5, <1>6, <1>7, <1>8, <1>9, <1>10, <1>11,
     <1>12, <1>13, <1>14, <1>15, <1>16, <1>17, <1>18, <1>20, <1>21, <1>22,
     <1>23, <1>24, <1>25
  DEF Next, StaffStep, PortalStep, ResumeStep

(* The inductive invariant holds in every state. *)
THEOREM InvariantHolds == Spec => []EvaluationInv
<1>1. Init => EvaluationInv
  <2> SUFFICES ASSUME Init PROVE EvaluationInv
    OBVIOUS
  <2>1. TypeOK
    BY TypeInit
  <2>2. UntouchedDraft /\ Earned(entity) /\ ReachedByReview
    BY DEF Init, UntouchedDraft, Earned, ReachedByReview, InitEntity
  <2>3. CopiesEarned
    BY DEF Init, CopiesEarned, CopyEarned, Earned, Idle, InitEntity
  <2>4. SheetIsWhole
    BY DEF Init, SheetIsWhole, Scored
  <2> QED BY <2>1, <2>2, <2>3, <2>4 DEF EvaluationInv
<1> QED BY <1>1, InvStep, PTL DEF Spec

-----------------------------------------------------------------------------
(* What follows from it                                                    *)

(* No evaluation reaches human review without a human score, or a result   *)
(* without a confirmed one.                                                *)
THEOREM ReviewedResult == Spec => []ReviewBeforeResult
<1>1. EvaluationInv => ReviewBeforeResult
  BY DEF EvaluationInv, ReachedByReview, ReviewBeforeResult
<1> QED BY <1>1, InvariantHolds, PTL

(* A supplier with a formal submission held every required material when   *)
(* a submit of its began.                                                  *)
THEOREM CompleteSubmission == Spec => []SubmittedWasComplete
<1>1. EvaluationInv => SubmittedWasComplete
  BY DEF EvaluationInv, Earned, SubmittedWasComplete
<1> QED BY <1>1, InvariantHolds, PTL

(* The score sheet has all the criteria of a supplier or none, and leaves  *)
(* out rejected suppliers only.                                            *)
THEOREM WholeSheet == Spec => []SheetIsWhole
<1>1. EvaluationInv => SheetIsWhole
  BY DEF EvaluationInv
<1> QED BY <1>1, InvariantHolds, PTL

(* With no portal request suspended, a closed or cancelled evaluation      *)
(* keeps its status and its submissions.                                   *)
LEMMA FreezeStep ==
  ASSUME TypeOK, [Next]_vars, entity.status \in TerminalStatus,
         \A r \in Requests : ~PortalBusy(r)
  PROVE  entity'.status = entity.status /\ subs' = subs
<1> USE DEF evaluationVars, sheetVars, historyVars, TypeOK, Entity
<1>1. CASE StaffStep
  BY <1>1, StatusNames
  DEF StaffStep, Publish, Cancel, Close, AdvanceToPending, AdjustScore,
      ConfirmScores, RejectRisk, SendNotice, CanMove,
      Lifecycle!EvaluationTransitions
<1>2. CASE PortalStep
  BY <1>2, StatusNames
  DEF PortalStep, BeginPut, DeleteMaterial, BeginSubmit, SubmitNothing,
      BeginRespond, RespondWithoutFiles, AssertOpen, MaySubmit, Settle
<1>3. ASSUME NEW r \in Requests, BeginScoring(r) PROVE FALSE
  BY <1>3, StatusNames DEF BeginScoring
<1>4. ASSUME NEW r \in Requests, ResumeStep(r)
      PROVE  entity'.status = entity.status /\ subs' = subs
  BY <1>4
  DEF ResumeStep, FinishPut, ContinueSubmit, FinishSubmit, ContinueRespond,
      FinishRespond, FinishScoring, FailRequest, PortalBusy
<1>5. CASE DeadlinePasses
  BY <1>5 DEF DeadlinePasses
<1>6. CASE UNCHANGED vars
  BY <1>6 DEF vars
<1> QED BY <1>1, <1>2, <1>3, <1>4, <1>5, <1>6 DEF Next

THEOREM Frozen == Spec => TerminalFreeze
<1>1. TypeOK /\ [Next]_vars =>
        [entity.status \in TerminalStatus /\ (\A r \in Requests : ~PortalBusy(r))
           => entity'.status = entity.status /\ subs' = subs]_vars
  BY FreezeStep
<1> QED BY <1>1, TypeCorrect, PTL DEF Spec, TerminalFreeze

-----------------------------------------------------------------------------
(* Evaluation implements EvaluationLifecycle                               *)

HeldCopies == [r \in Requests |-> HeldStatus(reqs[r])]

LEMMA ResumeHeld ==
  ASSUME TypeOK, NEW r \in Requests, NEW q, Resume(r, q)
  PROVE  HeldCopies' = [HeldCopies EXCEPT ![r] = HeldStatus(q)]
<1>1. \A x \in Requests :
        HeldStatus(reqs'[x]) = IF x = r THEN HeldStatus(q)
                                        ELSE HeldStatus(reqs[x])
  BY DEF Resume, TypeOK
<1> QED BY <1>1 DEF HeldCopies, HeldStatus

LEMMA MoveStep ==
  ASSUME TypeOK, NEW to, CanMove(to), SetStatus(to), UNCHANGED reqs
  PROVE  Lifecycle!Move
  BY DEF CanMove, SetStatus, Lifecycle!Move, TypeOK, Entity, HeldStatus

(* A step that touches neither the status nor a copy about to be saved. *)
LifecycleStutter == UNCHANGED <<entity.status, reached, HeldCopies>>

LEMMA LifecycleStep ==
  EvaluationInv /\ [Next]_vars => [Lifecycle!Next]_(Lifecycle!lifecycleVars)
<1> SUFFICES ASSUME EvaluationInv, [Next]_vars
             PROVE  Lifecycle!Next \/ LifecycleStutter
  BY DEF LifecycleStutter, HeldCopies, Lifecycle!lifecycleVars
<1> USE DEF evaluationVars, sheetVars, historyVars
<1>a. /\ TypeOK /\ entity \in Entity /\ entity.status \in reached
      /\ \A r \in Requests : reqs[r] \in Request /\ CopyEarned(reqs[r])
  BY DEF EvaluationInv, TypeOK, ReachedByReview, CopiesEarned
<1>b. HeldCopies \in [Requests -> EvaluationStatus \cup {"unread"}]
  <2>1. \A r \in Requests : HeldStatus(reqs[r])
                              \in EvaluationStatus \cup {"unread"}
    BY <1>a DEF HeldStatus, Request, Entity
  <2> QED BY <2>1 DEF HeldCopies
<1>c. HeldStatus(Idle) = "unread"
  BY DEF HeldStatus, Idle
<1>d. entity' = entity /\ reached' = reached /\ reqs' = reqs => LifecycleStutter
  BY DEF LifecycleStutter, HeldCopies
<1>e. ASSUME NEW r \in Requests, NEW q, Resume(r, q),
             HeldStatus(q) = "unread", UNCHANGED <<entity, reached>>
      PROVE  Lifecycle!Next
  <2>1. HeldCopies' = [HeldCopies EXCEPT ![r] = "unread"]
    BY <1>a, <1>e, ResumeHeld
  <2>2. Lifecycle!DropCopy(r)
    BY <1>e, <2>1 DEF Lifecycle!DropCopy, HeldCopies
  <2> QED BY <2>2 DEF Lifecycle!Next
(* An admitted request that keeps the entity it read. *)
<1>f. ASSUME NEW r \in Requests, NEW s \in Suppliers, AssertOpen(s), NEW q,
             Resume(r, q), q.op \in {"put", "submit"}, q.snap = entity,
             UNCHANGED <<entity, reached>>
      PROVE  Lifecycle!Next
  <2>1. HeldCopies' = [HeldCopies EXCEPT ![r] = entity.status]
    BY <1>a, <1>f, ResumeHeld DEF HeldStatus
  <2>2. entity.status \notin TerminalStatus \cup {"draft"}
    BY <1>f, OpenIsNoDraft
  <2>3. Lifecycle!ReadCopy(r)
    BY <1>f, <2>1, <2>2 DEF Lifecycle!ReadCopy, HeldCopies, TerminalStatus
  <2> QED BY <2>3 DEF Lifecycle!Next
<1>1. CASE Publish
  BY <1>1, <1>a, MoveStep DEF Publish, Lifecycle!Next
<1>2. ASSUME NEW admin \in BOOLEAN, Cancel(admin) PROVE Lifecycle!Next
  BY <1>2, <1>a, MoveStep DEF Cancel, Lifecycle!Next
<1>3. CASE Close
  BY <1>3, <1>a, MoveStep DEF Close, Lifecycle!Next
<1>4. CASE AdvanceToPending
  BY <1>4, <1>a, MoveStep DEF AdvanceToPending, Lifecycle!Next
<1>5. ASSUME NEW s \in Suppliers, NEW c \in Criteria, AdjustScore(s, c)
      PROVE  Lifecycle!Next \/ LifecycleStutter
  <2>1. CASE entity.status = "ai_review"
    <3>1. CanMove("human_review")
      BY <2>1 DEF CanMove, Lifecycle!EvaluationTransitions
    <3> QED BY <1>5, <1>a, <2>1, <3>1, MoveStep
            DEF AdjustScore, Lifecycle!Next
  <2>2. CASE entity.status # "ai_review"
    BY <1>5, <1>d, <2>2 DEF AdjustScore
  <2> QED BY <2>1, <2>2
<1>6. ASSUME NEW scope \in SUBSET Suppliers, ConfirmScores(scope)
      PROVE  Lifecycle!Next \/ LifecycleStutter
  <2>1. CASE entity.status = "human_review"
    <3>1. CanMove("completed")
      BY <2>1 DEF CanMove, Lifecycle!EvaluationTransitions
    <3> QED BY <1>6, <1>a, <2>1, <3>1, MoveStep
            DEF ConfirmScores, Lifecycle!Next
  <2>2. CASE entity.status # "human_review"
    BY <1>6, <1>d, <2>2 DEF ConfirmScores
  <2> QED BY <2>1, <2>2
<1>7. ASSUME NEW s \in Suppliers, RejectRisk(s) PROVE LifecycleStutter
  BY <1>7, <1>a DEF RejectRisk, LifecycleStutter, HeldCopies, Entity
<1>8. ASSUME NEW n \in Notices, NEW s \in Suppliers, SendNotice(n, s)
      PROVE  LifecycleStutter
  BY <1>8, <1>a DEF SendNotice, LifecycleStutter, HeldCopies, Entity
<1>9. ASSUME NEW r \in Requests, NEW s \in Suppliers, NEW m \in Materials,
             BeginPut(r, s, m)
      PROVE  Lifecycle!Next
  BY <1>9, <1>f DEF BeginPut, PutRequest, Idle
(* A request that saves its copy and drops it. *)
<1>w. ASSUME NEW r \in Requests, reqs[r].op \in {"put", "submit"}, NEW e,
             SaveEntity(e), e.status = reqs[r].snap.status,
             NEW q, Resume(r, q), HeldStatus(q) = "unread"
      PROVE  Lifecycle!Next
  <2>1. HeldCopies' = [HeldCopies EXCEPT ![r] = "unread"]
    BY <1>a, <1>w, ResumeHeld
  <2>2. /\ HeldCopies[r] = reqs[r].snap.status
        /\ reqs[r].snap.status \in reached
        /\ reqs[r].snap.status \in EvaluationStatus
    BY <1>a, <1>w DEF HeldCopies, HeldStatus, CopyEarned, Request, Entity
  <2>3. entity'.status = HeldCopies[r] /\ reached' = reached
    BY <1>w, <2>2 DEF SaveEntity
  <2>4. Lifecycle!WriteBack(r)
    BY <2>1, <2>2, <2>3, StatusNames DEF Lifecycle!WriteBack, HeldCopies
  <2> QED BY <2>4 DEF Lifecycle!Next
<1>10. ASSUME NEW r \in Requests, FinishPut(r) PROVE Lifecycle!Next
  <2> DEFINE e == Started(reqs[r].snap, reqs[r].who)
             q == IF reqs[r].note = None
                    THEN Idle
                    ELSE [reqs[r] EXCEPT !.op = "listing", !.mat = None,
                                         !.snap = InitEntity]
  <2>1. SaveEntity(e) /\ Resume(r, q) /\ reqs[r].op = "put"
    BY <1>10 DEF FinishPut
  <2>2. e.status = reqs[r].snap.status
    BY <1>a, EntityUpdate DEF Request
  <2>3. HeldStatus(q) = "unread"
    BY <1>a, <1>c DEF HeldStatus, Request
  <2> HIDE DEF e, q
  <2> QED BY <1>w, <2>1, <2>2, <2>3
<1>11. ASSUME NEW r \in Requests, FailRequest(r) PROVE Lifecycle!Next
  BY <1>11, <1>c, <1>e DEF FailRequest
<1>12. ASSUME NEW s \in Suppliers, NEW m \in Materials, DeleteMaterial(s, m)
       PROVE  LifecycleStutter
  BY <1>12, <1>d DEF DeleteMaterial
<1>13. ASSUME NEW r \in Requests, NEW s \in Suppliers,
              NEW k \in Keys \cup {NoKey}, BeginSubmit(r, s, k)
       PROVE  Lifecycle!Next
  <2>1. PICK m \in Held(s) :
          Resume(r, [Idle EXCEPT !.op = "submit", !.who = s, !.key = k,
                                 !.todo = Held(s) \ {m}, !.snap = entity])
    BY <1>13 DEF BeginSubmit
  <2>2. AssertOpen(s) /\ UNCHANGED <<entity, reached>>
    BY <1>13 DEF BeginSubmit, MaySubmit
  <2> DEFINE q == [Idle EXCEPT !.op = "submit", !.who = s, !.key = k,
                               !.todo = Held(s) \ {m}, !.snap = entity]
  <2>3. q.op = "submit" /\ q.snap = entity
    BY DEF Idle
  <2>4. Resume(r, q)
    BY <2>1
  <2> HIDE DEF q
  <2> QED BY <1>f, <2>2, <2>3, <2>4
<1>14. ASSUME NEW r \in Requests, ContinueSubmit(r) PROVE LifecycleStutter
  <2>1. PICK m \in reqs[r].todo : Resume(r, [reqs[r] EXCEPT !.todo = @ \ {m}])
    BY <1>14 DEF ContinueSubmit
  <2>2. HeldStatus([reqs[r] EXCEPT !.todo = @ \ {m}]) = HeldCopies[r]
    BY <1>a DEF HeldStatus, HeldCopies, Request
  <2>3. HeldCopies' = [HeldCopies EXCEPT ![r] = HeldCopies[r]]
    BY <1>a, <2>1, <2>2, ResumeHeld
  <2> QED BY <1>14, <1>b, <2>3 DEF ContinueSubmit, LifecycleStutter
<1>15. ASSUME NEW r \in Requests, FinishSubmit(r) PROVE Lifecycle!Next
  <2>1. Submitted(reqs[r].snap, reqs[r].who).status = reqs[r].snap.status
    BY <1>a, EntityUpdate DEF Request
  <2> QED BY <1>15, <1>c, <1>w, <2>1 DEF FinishSubmit
<1>16. ASSUME NEW s \in Suppliers, NEW k \in Keys \cup {NoKey},
              SubmitNothing(s, k)
       PROVE  LifecycleStutter
  BY <1>16, <1>a, EntityUpdate
  DEF SubmitNothing, SaveEntity, LifecycleStutter, HeldCopies
<1>17. ASSUME NEW r \in Requests, NEW s \in Suppliers, NEW n \in Notices,
              NEW files \in SUBSET Materials, BeginRespond(r, s, n, files)
       PROVE  Lifecycle!Next
  <2>1. PICK m \in files : Resume(r, PutRequest(s, m, n, files \ {m}))
    BY <1>17 DEF BeginRespond
  <2> QED BY <1>17, <1>f, <2>1 DEF BeginRespond, PutRequest, Idle
<1>18. ASSUME NEW r \in Requests, ContinueRespond(r) PROVE Lifecycle!Next
  <2> DEFINE q == reqs[r]
  <2>1. PICK m \in q.todo :
          Resume(r, PutRequest(q.who, m, q.note, q.todo \ {m}))
    BY <1>18 DEF ContinueRespond
  <2>2. AssertOpen(q.who) /\ q.who \in Suppliers
    BY <1>18, <1>a DEF ContinueRespond, CopyEarned
  <2> QED BY <1>18, <1>f, <2>1, <2>2 DEF ContinueRespond, PutRequest, Idle
<1>19. ASSUME NEW n, Settle(n) PROVE entity'.status = entity.status
  BY <1>19, <1>a DEF Settle, Entity
<1>20. ASSUME NEW r \in Requests, FinishRespond(r) PROVE LifecycleStutter
  <2>1. HeldCopies' = [HeldCopies EXCEPT ![r] = "unread"]
    BY <1>20, <1>a, <1>c, ResumeHeld DEF FinishRespond
  <2>2. HeldCopies[r] = "unread"
    BY <1>20 DEF FinishRespond, HeldCopies, HeldStatus
  <2> QED BY <1>20, <1>b, <1>19, <2>1, <2>2 DEF FinishRespond, LifecycleStutter
<1>21. ASSUME NEW n \in Notices, RespondWithoutFiles(n) PROVE LifecycleStutter
  BY <1>21, <1>19 DEF RespondWithoutFiles, LifecycleStutter, HeldCopies
<1>22. ASSUME NEW r \in Requests, BeginScoring(r)
       PROVE  Lifecycle!Next
  <2> DEFINE q == [Idle EXCEPT !.op = "scoring", !.snap = entity']
  <2>1. /\ entity'.status = "ai_review"
        /\ reached' = reached \cup {"pending", "ai_review"}
        /\ Resume(r, q) /\ reqs[r].op = "idle"
        /\ entity.status \in {"collecting", "pending"}
    BY <1>22, <1>a DEF BeginScoring, Entity
  <2>2. HeldStatus(q) = "unread" /\ HeldCopies[r] = "unread"
    BY <2>1 DEF HeldStatus, HeldCopies, Idle
  <2> HIDE DEF q
  <2>3. HeldCopies' = HeldCopies
    BY <1>a, <1>b, <2>1, <2>2, ResumeHeld
  <2>4. CASE entity.status = "collecting"
    <3>1. /\ "pending" \in Lifecycle!EvaluationTransitions(entity.status)
          /\ "ai_review" \in Lifecycle!EvaluationTransitions("pending")
      BY <2>4 DEF Lifecycle!EvaluationTransitions
    <3>2. Lifecycle!MoveTwice
      BY <2>1, <2>3, <3>1 DEF Lifecycle!MoveTwice, HeldCopies
    <3> QED BY <3>2 DEF Lifecycle!Next
  <2>5. CASE entity.status = "pending"
    <3>1. "ai_review" \in Lifecycle!EvaluationTransitions(entity.status)
      BY <2>5 DEF Lifecycle!EvaluationTransitions
    <3>2. reached' = reached \cup {"ai_review"}
      BY <1>a, <2>1, <2>5
    <3>3. Lifecycle!Move
      BY <2>1, <2>3, <3>1, <3>2 DEF Lifecycle!Move, HeldCopies
    <3> QED BY <3>3 DEF Lifecycle!Next
  <2> QED BY <2>1, <2>4, <2>5
<1>23. ASSUME NEW r \in Requests, FinishScoring(r) PROVE Lifecycle!Next
  BY <1>23, <1>c, <1>e DEF FinishScoring
<1>24. CASE DeadlinePasses
  BY <1>24, <1>d DEF DeadlinePasses
<1>25. CASE UNCHANGED vars
  BY <1>25, <1>d DEF vars
<1> QED
  BY <1>1, <1>2, <1>3, <1>4, <1>5, <1>6, <1>7, <1>8, <1>9, <1>10, <1>11,
     <1>12, <1>13, <1>14, <1>15, <1>16, <1>17, <1>18, <1>20, <1>21, <1>22,
     <1>23, <1>24, <1>25
  DEF Next, StaffStep, PortalStep, ResumeStep

(* However the requests overlap, the stored status behaves as the          *)
(* lifecycle module says.                                                  *)
THEOREM LifecycleImplemented == Spec => LifecycleKept
<1>1. Init => Lifecycle!Init
  BY DEF Init, Lifecycle!Init, InitEntity, HeldStatus, Idle
<1> QED
  BY <1>1, LifecycleStep, InvariantHolds, PTL
  DEF Spec, LifecycleKept, Lifecycle!Spec
=============================================================================
