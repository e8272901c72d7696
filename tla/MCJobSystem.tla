---------------------------- MODULE MCJobSystem -----------------------------
(* A small instance of JobSystem. *)
EXTENDS JobSystem

OneParagraph == <<1>>

=============================================================================
