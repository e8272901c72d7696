-------------------------- MODULE MCDocumentWorker --------------------------
(* A small instance of DocumentWorker: two sections. *)
EXTENDS DocumentWorker, TLC

TwoSections == <<2, 1>>
Symmetry == Permutations(Procs)

=============================================================================
