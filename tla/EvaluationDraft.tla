--------------------------- MODULE EvaluationDraft --------------------------
(***************************************************************************)
(* An evaluation before it is published (domains/evaluations): a project   *)
(* lead creates it, its owner configures it step by step, and publish      *)
(* validates the whole.  None of these requests awaits anything between    *)
(* reading the entity and saving it.                                       *)
(***************************************************************************)
EXTENDS Naturals, FiniteSets

CONSTANTS
  Entrants,    \* suppliers that can be entered
  Staff,       \* internal users
  RoleOf,      \* the role of each of them
  Limits,      \* values of maxRounds
  MaxItems,    \* material items of a draft (bound)
  Nobody       \* no member of staff

Roles == {"admin", "project_lead", "member", "reviewer"}

ASSUME DraftAssumption ==
  /\ RoleOf \in [Staff -> Roles]
  /\ Nobody \notin Staff
  /\ Limits # {} /\ Limits \subseteq Nat \ {0}
  /\ MaxItems \in Nat

VARIABLE
  draft        \* the stored evaluation, or its absence

(* items and required count the material items; weights says whether the   *)
(* criteria's weights add up to 100; party gives each supplier that was    *)
(* entered its required_material_count.                                     *)
Draft == [status : {"absent", "draft", "collecting", "cancelled"},
          assignee : Staff \cup {Nobody}, reviewers : SUBSET Staff,
          items : 0..MaxItems, required : 0..MaxItems,
          weights : {"none", "wrong", "whole"},
          multi : BOOLEAN, limit : Limits,
          party : UNION {[P -> 0..MaxItems] : P \in SUBSET Entrants}]

DraftTypeOK == draft \in Draft

Unwritten == [status |-> "absent", assignee |-> Nobody, reviewers |-> {},
              items |-> 0, required |-> 0, weights |-> "none",
              multi |-> FALSE, limit |-> CHOOSE n \in Limits : TRUE,
              party |-> [s \in {} |-> 0]]

DraftInit == draft = Unwritten

-----------------------------------------------------------------------------
(* access.py                                                               *)

CanCreate(a) == RoleOf[a] \in {"admin", "project_lead"}
CanOwn(a, e) == RoleOf[a] = "admin" \/ e.assignee = a

-----------------------------------------------------------------------------
(* What publish asks of a draft: an error keeps it back, a warning (the    *)
(* deadline is past, no item is required) does not.                        *)
Entered(e) == DOMAIN e.party

(* Mutant of IsValid: a weight sum that is off is only a warning. *)
IsValidAnyWeights(e) ==
  /\ e.items > 0 /\ e.weights # "none" /\ e.reviewers # {}
  /\ e.multi => e.limit >= 2
  /\ Entered(e) # {}

IsValid(e) ==
  /\ e.items > 0
  /\ e.weights = "whole"
  /\ e.reviewers # {}
  /\ e.multi => e.limit >= 2
  /\ Entered(e) # {}

(* create_draft, for any assignee. *)
CreateDraft ==
  /\ draft.status = "absent"
  /\ \E a \in Staff, to \in Staff :
       /\ CanCreate(a)
       /\ draft' = [draft EXCEPT !.status = "draft", !.assignee = to]

(* create_from_bid_task: the materials of the bid task are copied or left. *)
CreateFromBid ==
  /\ draft.status = "absent"
  /\ \E a \in Staff, items \in 0..MaxItems : \E required \in 0..items :
       /\ CanCreate(a)
       /\ draft' = [draft EXCEPT !.status = "draft", !.assignee = a,
                                 !.items = items, !.required = required]

(* update with the version the caller read: it may pass the task on. *)
Configurable(a) == draft.status = "draft" /\ CanOwn(a, draft)

Update ==
  \E a \in Staff, to \in Staff :
    /\ Configurable(a)
    /\ draft' = [draft EXCEPT !.assignee = to]

(* Mutant of PutMaterials: the suppliers entered before keep their count. *)
PutMaterialsOnly ==
  \E a \in Staff, items \in 0..MaxItems : \E required \in 0..items :
    /\ Configurable(a)
    /\ draft' = [draft EXCEPT !.items = items, !.required = required]

PutMaterials ==
  \E a \in Staff, items \in 0..MaxItems : \E required \in 0..items :
    /\ Configurable(a)
    /\ draft' = [draft EXCEPT
         !.items = items, !.required = required,
         !.party = [s \in Entered(draft) |-> required]]

PutCriteria ==
  \E a \in Staff, weights \in {"none", "wrong", "whole"} :
    /\ Configurable(a)
    /\ draft' = [draft EXCEPT !.weights = weights]

PutReviewSettings ==
  \E a \in Staff, multi \in BOOLEAN, limit \in Limits :
    /\ Configurable(a)
    /\ draft' = [draft EXCEPT !.multi = multi, !.limit = limit]

PutReviewers ==
  \E a \in Staff, reviewers \in SUBSET Staff :
    /\ Configurable(a)
    /\ draft' = [draft EXCEPT !.reviewers = reviewers]

PutSuppliers ==
  \E a \in Staff, entered \in SUBSET Entrants :
    /\ Configurable(a)
    /\ draft' = [draft EXCEPT
         !.party = [s \in entered |-> draft.required]]

PublishDraft ==
  \E a \in Staff :
    /\ Configurable(a)
    /\ IsValid(draft)
    /\ draft' = [draft EXCEPT !.status = "collecting"]

CancelDraft ==
  \E a \in Staff :
    /\ draft.status \in {"draft", "collecting"} /\ CanOwn(a, draft)
    /\ draft' = [draft EXCEPT !.status = "cancelled"]

DraftNext ==
  \/ CreateDraft \/ CreateFromBid \/ Update \/ PutMaterials \/ PutCriteria
  \/ PutReviewSettings \/ PutReviewers \/ PutSuppliers \/ PublishDraft
  \/ CancelDraft

DraftSpec == DraftInit /\ [][DraftNext]_draft

-----------------------------------------------------------------------------
(* Properties                                                              *)

(* What suppliers see is a whole configuration, in whatever order its steps *)
(* were taken and repeated: material items, weights of 100, a reviewer, and *)
(* every supplier is asked for exactly the required items, whether the      *)
(* items or the supplier came first (put_materials, put_suppliers, publish).*)
PublishedIsWhole ==
  draft.status = "collecting" =>
    /\ draft.items > 0 /\ draft.weights = "whole" /\ draft.reviewers # {}
    /\ draft.multi => draft.limit > 1
    /\ Entered(draft) # {}
    /\ \A s \in Entered(draft) : draft.party[s] = draft.required

=============================================================================
