------------------------------- MODULE Award --------------------------------
(***************************************************************************)
(* From the reviewers' desk to the award (scoring/service.py): risk checks *)
(* and reports made by workers, decisions on risks, and the ranking that   *)
(* is computed from the score sheet.  A check or a report reads the store, *)
(* awaits jobs.enqueue, and writes what came back; the desk goes on in the *)
(* meantime.                                                               *)
(***************************************************************************)
EXTENDS Integers, FiniteSets, SequencesExt, FiniteSetsExt

CONSTANTS
  Tenderers,     \* the suppliers, as the entity lists them: a sequence
  Criteria,      \* the scoring criteria
  Weight,        \* their weights, in hundredths of a percent
  Scores,        \* final scores, in hundredths of a point
  Formats,       \* formats of a report
  MaxReports,    \* reports that are written (bound)
  MaxRisks,      \* risks that are recorded (bound)
  Desks          \* requests that can be suspended at a time (bound)

ASSUME AwardAssumption ==
  /\ Tenderers \in Seq(Range(Tenderers)) /\ IsInjective(Tenderers)
  /\ IsFiniteSet(Criteria) /\ IsFiniteSet(Formats)
  /\ Weight \in [Criteria -> Nat]
  /\ Scores \subseteq Nat
  /\ MaxReports \in Nat /\ MaxRisks \in Nat

VARIABLES
  standing,   \* the status of each supplier in the entity
  sheet,      \* the final score of every cell
  risks,      \* store.risks, in the order they were saved
  reports,    \* store.reports, in the order they were saved
  desks       \* the suspended requests

awardVars == <<standing, sheet, risks, reports, desks>>

Party == Range(Tenderers)
Standing == {"invited", "partial", "submitted", "supplementing", "disqualified"}
Risk == [who : Party, decision : {"pending", "passed", "rejected"},
         placeholder : BOOLEAN]
Report == [format : Formats, version : 1..MaxReports]


(* What a request is about to write, and the formats of a report. *)
Desk == [task : {"none", "risks", "report"},
         formats : SUBSET Formats]
Free == [task |-> "none", formats |-> {}]

AwardTypeOK ==
  /\ standing \in [Party -> Standing]
  /\ sheet \in [Party -> [Criteria -> Scores]]
  /\ risks \in Seq(Risk)
  /\ reports \in Seq(Report)
  /\ desks \in [Desks -> Desk]

AwardInit ==
  /\ standing \in [Party -> {"invited", "submitted"}]
  /\ sheet \in [Party -> [Criteria -> Scores]]
  /\ risks = <<>> /\ reports = <<>>
  /\ desks = [d \in Desks |-> Free]

-----------------------------------------------------------------------------
(* The ranking                                                             *)

(* quantize(0.01, ROUND_HALF_UP) of n / unit hundredths. *)
Rounded(n, unit) == (2 * n + unit) \div (2 * unit)

Exact(s) == SumFunction([c \in Criteria |-> sheet[s][c] * Weight[c]])

(* Each weighted part is rounded, and the parts are added up. *)
Total(s) ==
  SumFunction([c \in Criteria |-> Rounded(sheet[s][c] * Weight[c], 10000)])

(* The supplier with the higher total is ahead, and of two equal ones the   *)
(* one the entity lists first: sort is stable.                              *)
Ahead(i, j) ==
  \/ Total(Tenderers[i]) > Total(Tenderers[j])
  \/ Total(Tenderers[i]) = Total(Tenderers[j]) /\ i < j

Place(i) == 1 + Cardinality({j \in DOMAIN Tenderers : Ahead(j, i)})

Places == [i \in DOMAIN Tenderers |-> Place(i)]

(* Mutant of Ranking: from the lowest total up. *)
RankingUpwards ==
  LET place == Places
  IN [n \in DOMAIN Tenderers |->
        Tenderers[CHOOSE i \in DOMAIN place : place[i] = Len(Tenderers) + 1 - n]]

(* Every supplier is ranked that has not withdrawn, which none of the       *)
(* operations lets it do.                                                   *)
Ranking ==
  LET place == Places
  IN [n \in DOMAIN Tenderers |->
        Tenderers[CHOOSE i \in DOMAIN place : place[i] = n]]

Recommended == Ranking[1]

-----------------------------------------------------------------------------
(* Requests that await nothing before their last save                      *)

(* adjust_score, anew in the human review. *)
Adjust(s, c, points) ==
  /\ sheet' = [sheet EXCEPT ![s][c] = points]
  /\ UNCHANGED <<standing, risks, reports, desks>>

(* decide_risk; a passed risk that was rejected before reinstates nobody. *)
Disqualified(s) == IF standing[s] = "invited" THEN standing
                   ELSE [standing EXCEPT ![s] = "disqualified"]

DecideRisk(i, decision) ==
  /\ risks' = [risks EXCEPT ![i].decision = decision]
  /\ standing' = IF decision = "rejected" THEN Disqualified(risks[i].who)
                 ELSE standing
  /\ UNCHANGED <<sheet, reports, desks>>

-----------------------------------------------------------------------------
(* Requests that await the dispatcher                                      *)

Suspend(d, task, formats) ==
  /\ desks[d] = Free
  /\ (task = "report") = (formats # {})
  /\ desks' = [desks EXCEPT ![d] = [task |-> task, formats |-> formats]]
  /\ UNCHANGED <<standing, sheet, risks, reports>>

Resumed(d) == desks' = [desks EXCEPT ![d] = Free]

(* The dispatch raises. *)
Refused(d) ==
  /\ desks[d] # Free
  /\ Resumed(d)
  /\ UNCHANGED <<standing, sheet, risks, reports>>

(* The findings of an eager worker; one that names no supplier of the       *)
(* evaluation is laid at the door of the next in line.                      *)
Finding(who) == [who |-> who, decision |-> "pending", placeholder |-> FALSE]

EndRiskCheck(d) ==
  /\ desks[d].task = "risks"
  /\ \E n \in 0..(MaxRisks - Len(risks)) : \E who \in [1..n -> Party] :
       risks' = risks \o [i \in 1..n |-> Finding(who[i])]
  /\ Resumed(d)
  /\ UNCHANGED <<standing, sheet, reports>>

(* Mutant of EndQueuedRiskCheck: whatever was recorded in the meantime. *)
EndQueuedRiskCheckAlways(d) ==
  /\ desks[d].task = "risks"
  /\ risks' = risks \o [i \in DOMAIN Tenderers |->
                          [Finding(Tenderers[i]) EXCEPT !.placeholder = TRUE]]
  /\ Resumed(d)
  /\ UNCHANGED <<standing, sheet, reports>>

(* The check was queued: a placeholder for every supplier, unless there is  *)
(* a risk by now.                                                           *)
EndQueuedRiskCheck(d) ==
  /\ desks[d].task = "risks"
  /\ risks' = IF risks # <<>> THEN risks
              ELSE [i \in DOMAIN Tenderers |->
                      [Finding(Tenderers[i]) EXCEPT !.placeholder = TRUE]]
  /\ Resumed(d)
  /\ UNCHANGED <<standing, sheet, reports>>

Versions(format) == {reports[i].version : i \in
                       {j \in DOMAIN reports : reports[j].format = format}}

(* Mutant of NextVersion: the reports of every format are counted. *)
NextVersionOfAll(format) == Len(reports) + 1

NextVersion(format) == 1 + Max(Versions(format) \cup {0})

(* start_report after the dispatch; formats are numbered by themselves. *)
EndReport(d) ==
  /\ desks[d].task = "report"
  /\ Len(reports) + Cardinality(desks[d].formats) <= MaxReports
  /\ reports' = reports \o SetToSeq({[format |-> f, version |-> NextVersion(f)] :
                                       f \in desks[d].formats})
  /\ Resumed(d)
  /\ UNCHANGED <<standing, sheet, risks>>

AwardNext ==
  \/ \E s \in Party, c \in Criteria, points \in Scores : Adjust(s, c, points)
  \/ \E i \in DOMAIN risks, decision \in {"passed", "rejected"} :
       DecideRisk(i, decision)
  \/ \E d \in Desks :
       \/ \E task \in {"risks", "report"}, formats \in SUBSET Formats : Suspend(d, task, formats)
       \/ EndRiskCheck(d) \/ EndQueuedRiskCheck(d) \/ EndReport(d) \/ Refused(d)

AwardSpec == AwardInit /\ [][AwardNext]_awardVars

-----------------------------------------------------------------------------
(* Properties                                                              *)

(* The rounding of the parts moves a total by half a hundredth for each     *)
(* criterion at most (money.weighted_score), so that everybody has a place  *)
(* in the ranking, and is ahead of another only if its exact total is, but  *)
(* for that.                                                                *)
RankingIsFair ==
  LET rows == Ranking
  IN /\ Range(rows) = Party
     /\ \A i, j \in DOMAIN rows :
          i < j => Exact(rows[i]) + Cardinality(Criteria) * 10000
                     >= Exact(rows[j])

(* The reports of a format are numbered 1, 2, ... however many requests for *)
(* one are under way (start_report numbers after its await).                *)
ReportsNumbered ==
  \A i \in DOMAIN reports :
    reports[i].version =
      Cardinality({j \in 1..i : reports[j].format = reports[i].format})

(* Overlapping risk checks leave one placeholder for a supplier at most     *)
(* (start_risk_check looks for risks after its await).                      *)
OnePlaceholder ==
  \A s \in Party :
    Cardinality({i \in DOMAIN risks : risks[i].placeholder /\ risks[i].who = s})
      <= 1

(* The recommended supplier has not been disqualified. *)
RecommendedQualified == standing[Recommended] # "disqualified"

=============================================================================
