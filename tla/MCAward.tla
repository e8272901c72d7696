------------------------------ MODULE MCAward -------------------------------
(* What surrounds the core of an evaluation, one thing at a time: its      *)
(* configuration before it is published, its price rounds, what its result *)
(* rests on, and the invites and sessions of its suppliers.  part says     *)
(* which of them a behaviour is about; they share no variable here.        *)
EXTENDS EvaluationDraft, PriceRounds, Award, PortalSessions, TLC

CONSTANTS s1, s2, c1, c2, admin, lead

VARIABLE part

runVars == <<part, draft, priceVars, awardVars, vars>>

Listed == <<s1, s2>>
Thirds == c1 :> 3333 @@ c2 :> 6667
StaffRoles == admin :> "admin" @@ lead :> "project_lead"
RoundPlans == {[opens |-> 0, deadline |-> 1, eligible |-> {s1, s2}],
               [opens |-> 1, deadline |-> 2, eligible |-> {s1}]}

(* Desks and Codes are one set of model values. *)
Symmetry == Permutations(Desks)

RunInit ==
  /\ part \in {"draft", "pricing", "award", "sessions"}
  /\ DraftInit /\ PriceInit /\ AwardInit /\ Init
  /\ part # "award" => /\ standing = [s \in Party |-> "submitted"]
                       /\ sheet = [s \in Party |-> [c \in Criteria |-> 50]]

RunNext ==
  /\ part' = part
  /\ part # "draft" => UNCHANGED draft
  /\ part # "pricing" => UNCHANGED priceVars
  /\ part # "award" => UNCHANGED awardVars
  /\ part # "sessions" => UNCHANGED vars
  /\ \/ part = "draft" /\ DraftNext
     \/ part = "pricing" /\ PriceNext
     \/ part = "award" /\ AwardNext
     \/ part = "sessions" /\ Next

RunSpec == RunInit /\ [][RunNext]_runVars
=============================================================================
