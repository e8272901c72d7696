---------------------------- MODULE ModelRouter -----------------------------
(***************************************************************************)
(* The model router (ai/router.py): a call goes to the primary provider,   *)
(* then the fallback, then the offline provider, past those that are       *)
(* missing or whose circuit breaker is open.  A worker process makes one   *)
(* call at a time.  A breaker counts failures until a success forgets it;  *)
(* its opening time is set once and never renewed.                         *)
(***************************************************************************)
EXTENDS Naturals

CONSTANTS
  Providers,    \* the names of providers
  Registered,   \* those in the registry and available
  Primary,      \* the route of the prompt: primary provider,
  Fallback,     \* and fallback provider
  Offline,      \* the built-in provider that always answers
  Threshold     \* circuit_breaker_failures

ASSUME RouterAssumption ==
  /\ {Primary, Fallback, Offline} \subseteq Providers
  /\ Registered \subseteq Providers
  /\ Primary \notin {Fallback, Offline}
  /\ Offline \in Registered
  /\ Threshold \in Nat \ {0}

VARIABLE
  circuits      \* the breakers of the router in this process

(* opened_at: never set, within the cooldown, or longer ago. *)
Breaker == [failures : Nat, opened : {"never", "cooling", "cooled"}]

Closed == [failures |-> 0, opened |-> "never"]
RouterInit == circuits = [p \in Providers |-> Closed]

(* What a provider does with a request.  An error is a ProviderError or     *)
(* AIServiceUnavailable, which the router catches; a timeout or rate limit  *)
(* is neither and leaves invoke at once.  The offline provider answers.     *)
Behaviour == {b \in [Providers -> {"answer", "error", "timeout"}] :
                b[Offline] = "answer"}

Level(i) == <<Primary, Fallback, Offline>>[i]
StatusOf(i) == <<"primary", "fallback", "offline">>[i]
Statuses == {"primary", "fallback", "offline"}

Open(p) == circuits[p].failures >= Threshold /\ circuits[p].opened = "cooling"
Skipped(i) == Level(i) \notin Registered \/ Open(Level(i))

(* The level that ends the invocation, by an answer or by a timeout: the    *)
(* first that is not skipped and does not fail.                             *)
Deciding(b) ==
  CHOOSE i \in 1..3 :
    /\ ~Skipped(i) /\ b[Level(i)] # "error"
    /\ \A j \in 1..(i - 1) : Skipped(j) \/ b[Level(j)] = "error"

Failing(b) == {Level(i) : i \in {j \in 1..(Deciding(b) - 1) : ~Skipped(j)}}

(* Mutant of Failed: the counter forgets to open the breaker. *)
FailedUnopened(c) == [c EXCEPT !.failures = @ + 1]

Failed(c) ==
  [failures |-> c.failures + 1,
   opened |-> IF c.failures + 1 >= Threshold /\ c.opened = "never"
                THEN "cooling" ELSE c.opened]

Answers(b) == b[Level(Deciding(b))] = "answer"
AnsweredAs(b) == StatusOf(Deciding(b))
AnsweredBy(b) == Level(Deciding(b))

Invoke(b) ==
  circuits' = [p \in Providers |->
                 IF p \in Failing(b) THEN Failed(circuits[p])
                 ELSE IF Answers(b) /\ p = AnsweredBy(b) THEN Closed
                 ELSE circuits[p]]

(* The cooldown of a breaker runs out. *)
Cooldown(p) ==
  /\ circuits[p].opened = "cooling"
  /\ circuits' = [circuits EXCEPT ![p].opened = "cooled"]

(* A new task call starts with a new router. *)
ResetRouter == circuits' = [p \in Providers |-> Closed]

=============================================================================
