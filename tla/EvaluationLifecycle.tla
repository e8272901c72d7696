------------------------- MODULE EvaluationLifecycle -------------------------
(***************************************************************************)
(* What the evaluation status promises, as the code can keep it.  It moves *)
(* along the transition table of evaluations/state_machine.py; besides, a  *)
(* portal request that read the evaluation while it was not closed or      *)
(* cancelled may, once, write back the status it read.  Nothing else ever  *)
(* changes it.                                                             *)
(***************************************************************************)
CONSTANTS
  Requests,     \* the requests that can be under way
  AdminReopen   \* whether some operation passes admin_reopen=True (a boolean)

VARIABLES
  status,     \* EvaluationEntity.status as stored
  reached,    \* every status the stored entity has had, or passed through
  held        \* request -> the status in the copy it will save, or "unread"

lifecycleVars == <<status, reached, held>>

EvaluationStatus == {"draft", "collecting", "pending", "ai_review",
                     "human_review", "completed", "closed", "cancelled"}

TerminalStatus == {"closed", "cancelled"}

(* EVALUATION_TRANSITIONS with the admin_reopen condition of               *)
(* assert_evaluation_transition folded in.                                 *)
EvaluationTransitions(from) ==
  CASE from = "draft"        -> {"collecting", "cancelled"}
    [] from = "collecting"   -> {"pending", "cancelled"}
    [] from = "pending"      -> {"ai_review"}
    [] from = "ai_review"    -> {"human_review"}
    [] from = "human_review" -> {"completed"}
    [] from = "completed"    -> {"closed"} \cup
                                (IF AdminReopen THEN {"human_review"} ELSE {})
    [] OTHER                 -> {}

Init ==
  /\ status = "draft"
  /\ reached = {"draft"}
  /\ held = [r \in Requests |-> "unread"]

(* One legal transition. *)
Move ==
  /\ \E to \in EvaluationTransitions(status) :
       status' = to /\ reached' = reached \cup {to}
  /\ UNCHANGED held

(* start_ai_scoring passes through pending before it saves ai_review. *)
MoveTwice ==
  /\ \E via \in EvaluationTransitions(status) :
     \E to \in EvaluationTransitions(via) :
       status' = to /\ reached' = reached \cup {via, to}
  /\ UNCHANGED held

(* A request passes the admission check and keeps a copy. *)
ReadCopy(r) ==
  /\ status \notin TerminalStatus \cup {"draft"}
  /\ held' = [held EXCEPT ![r] = status]
  /\ UNCHANGED <<status, reached>>

(* The request saves its copy. *)
WriteBack(r) ==
  /\ held[r] # "unread"
  /\ status' = held[r]
  /\ held' = [held EXCEPT ![r] = "unread"]
  /\ UNCHANGED reached

(* The request fails: the copy is dropped. *)
DropCopy(r) ==
  /\ held' = [held EXCEPT ![r] = "unread"]
  /\ UNCHANGED <<status, reached>>

Next ==
  \/ Move
  \/ MoveTwice
  \/ \E r \in Requests : ReadCopy(r) \/ WriteBack(r) \/ DropCopy(r)

Spec == Init /\ [][Next]_lifecycleVars

(* No status without a legal predecessor, and no copy of a status that was *)
(* never reached or that is terminal.                                      *)
ReachedLegally ==
  /\ status \in reached
  /\ \A to \in reached \ {"draft"} :
       \E from \in reached : to \in EvaluationTransitions(from)
  /\ \A r \in Requests :
       held[r] \in {"unread"} \cup (reached \ (TerminalStatus \cup {"draft"}))
=============================================================================
