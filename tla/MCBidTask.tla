----------------------------- MODULE MCBidTask -----------------------------
(* BidTask with small sets of model values. *)
EXTENDS BidTask, TLC

(* Requests are interchangeable. Not used in the run with liveness. *)
Symmetry == Permutations(Requests)
============================================================================
