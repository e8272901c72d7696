---------------------- MODULE EvaluationLifecycleProofs ----------------------
(* What the lifecycle module's promise amounts to, with or without an      *)
(* administrator who reopens.                                              *)
EXTENDS EvaluationLifecycle, TLAPS

LifecycleInv ==
  /\ reached \subseteq EvaluationStatus
  /\ DOMAIN held = Requests
  /\ ReachedLegally

LEMMA LifecycleInvStep == LifecycleInv /\ [Next]_lifecycleVars => LifecycleInv'
<1> SUFFICES ASSUME LifecycleInv, [Next]_lifecycleVars PROVE LifecycleInv'
  OBVIOUS
<1> USE DEF LifecycleInv, ReachedLegally
<1>1. \A from : /\ EvaluationTransitions(from) \subseteq EvaluationStatus
                /\ from \notin EvaluationStatus
                     => EvaluationTransitions(from) = {}
  BY DEF EvaluationTransitions, EvaluationStatus
<1>2. CASE Move
  BY <1>1, <1>2 DEF Move
<1>3. CASE MoveTwice
  <2>1. PICK via \in EvaluationTransitions(status) :
        \E to \in EvaluationTransitions(via) :
           status' = to /\ reached' = reached \cup {via, to}
    BY <1>3 DEF MoveTwice
  <2> QED BY <1>1, <1>3, <2>1 DEF MoveTwice
<1>4. ASSUME NEW r \in Requests, ReadCopy(r) PROVE LifecycleInv'
  BY <1>4 DEF ReadCopy
<1>5. ASSUME NEW r \in Requests, WriteBack(r) PROVE LifecycleInv'
  BY <1>5 DEF WriteBack
<1>6. ASSUME NEW r \in Requests, DropCopy(r) PROVE LifecycleInv'
  BY <1>6 DEF DropCopy
<1>7. CASE UNCHANGED lifecycleVars
  BY <1>7 DEF lifecycleVars
<1> QED BY <1>2, <1>3, <1>4, <1>5, <1>6, <1>7 DEF Next

(* Whatever is written back, every status the evaluation ever had was      *)
(* reached along the table of state_machine.py, and no request holds a     *)
(* closed, cancelled or draft copy.                                        *)
THEOREM LegalHistory == Spec => []ReachedLegally
<1>1. Init => LifecycleInv
  BY DEF Init, LifecycleInv, ReachedLegally, EvaluationStatus
<1>2. LifecycleInv => ReachedLegally
  BY DEF LifecycleInv
<1> QED BY <1>1, <1>2, LifecycleInvStep, PTL DEF Spec
=============================================================================
