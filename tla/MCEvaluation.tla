---------------------------- MODULE MCEvaluation ----------------------------
(* Evaluation with small sets of model values. *)
EXTENDS Evaluation, TLC

(* Suppliers and requests are interchangeable: no action or safety         *)
(* property singles one out. Not used in the run with a liveness property. *)
Symmetry == Permutations(Suppliers) \cup Permutations(Requests)
=============================================================================
