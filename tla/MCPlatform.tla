----------------------------- MODULE MCPlatform -----------------------------
(* What the domains stand on, one thing at a time: the worker that writes a *)
(* technical document, and the accounts of the staff.  part says which of   *)
(* them a behaviour is about; they share no variable.                       *)
EXTENDS DocumentWorker, Accounts, TLC

VARIABLE part

platformVars == <<part, workerVars, accountVars>>

TwoSections == <<2, 1>>

(* Procs and Clerks are one set of model values. *)
Symmetry == Permutations(Procs)

PlatformInit ==
  /\ part \in {"worker", "accounts"}
  /\ WorkerInit /\ AccountsInit

PlatformNext ==
  /\ part' = part
  /\ part # "worker" => UNCHANGED workerVars
  /\ part # "accounts" => UNCHANGED accountVars
  /\ \/ part = "worker" /\ WorkerNext
     \/ part = "accounts" /\ AccountsNext

PlatformSpec == PlatformInit /\ [][PlatformNext]_platformVars
=============================================================================
