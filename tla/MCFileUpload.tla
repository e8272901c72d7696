---------------------------- MODULE MCFileUpload ----------------------------
(* A small instance of FileUpload. *)
EXTENDS FileUpload, TLC

AllGood == [p \in Parts |-> "good"]
AllSent == Parts \X Bytes
Symmetry == Permutations(Calls)

=============================================================================
