--------------------------- MODULE DocumentWorker ---------------------------
(***************************************************************************)
(* One technical-document job in the Celery workers                        *)
(* (workers/bidding_generator.py, workers/base.py).  The document is       *)
(* planned by one model call and written by one call per paragraph; after  *)
(* every call a copy is kept in the memory of the worker process, from     *)
(* which a later attempt in the same process goes on.  An attempt ends by  *)
(* a result, by a retry, or with its process; Celery delivers the task     *)
(* again after a lost process, and keeps at most one attempt running.      *)
(***************************************************************************)
EXTENDS CeleryTask, ModelRouter, Sequences, Functions

CONSTANTS
  Procs,          \* worker processes
  Targets,        \* targetParagraphs of each section, in order
  CarryForward,   \* carryForwardParagraphs
  MaxRetries,     \* max_retries of the task
  MaxLosses,      \* processes that end while the job is under way (bound)
  None            \* no process, no answer, no checkpoint

ASSUME WorkerAssumption ==
  /\ Targets \in Seq(Nat \ {0}) /\ Targets # <<>>
  /\ CarryForward \in Nat /\ MaxRetries \in Nat /\ MaxLosses \in Nat
  /\ None \notin Procs \cup Providers

VARIABLES
  delivery,   \* the message of the task: "none", "queued" or "running"
  retries,    \* retries made
  losses,     \* processes that ended
  proc,       \* the process that runs the attempt
  draft,      \* its checkpoint object
  answer,     \* what the model call under way has brought
  kept,       \* _CHECKPOINTS of each process
  cached,     \* the shared cache of model answers
  carried,    \* paragraphs carried into the last paragraph call
  document    \* the checkpoint the returned result was made from

attemptVars == <<delivery, retries, proc, draft, answer>>
workerVars == <<taskVars, circuits, attemptVars, losses, kept, cached, carried,
                document>>

Sections == 1..Len(Targets)

(* _GenerationCheckpoint: has the plan been made, the paragraphs of each    *)
(* section, the number of calls recorded, their statuses and providers.     *)
Blank == [planned |-> FALSE, text |-> [s \in Sections |-> <<>>], calls |-> 0,
          statuses |-> {}, authors |-> {}]

Written(d) == SumFunction([s \in Sections |-> Len(d.text[s])])
Complete(d) == d.planned /\ \A s \in Sections : Len(d.text[s]) = Targets[s]

(* The section that is written next: every section before it is whole. *)
Current(d) == CHOOSE s \in Sections :
                /\ Len(d.text[s]) < Targets[s]
                /\ \A before \in 1..(s - 1) :
                     Len(d.text[before]) = Targets[before]

(* The plan is call <<0, 0>>; paragraph i of section s is call <<s, i>>. *)
Plan == <<0, 0>>
NextCall(d) == IF d.planned THEN <<Current(d), Len(d.text[Current(d)]) + 1>>
               ELSE Plan

WorkerInit ==
  /\ TaskInit /\ RouterInit
  /\ delivery = "none" /\ retries = 0 /\ losses = 0
  /\ proc = None /\ draft = Blank /\ answer = None
  /\ kept = [p \in Procs |-> None]
  /\ cached = {} /\ carried = 0 /\ document = None

-----------------------------------------------------------------------------
(* What the worker writes to the result backend. Nothing looks at what is  *)
(* there: that the task was unfinished is for the delivery to see to.      *)

Write(state) == backend' = state /\ UNCHANGED <<outcome, revoked>>

WriteResult(status) ==
  /\ backend' = "success"
  /\ outcome' = status
  /\ UNCHANGED revoked

Enqueue ==
  /\ Send
  /\ delivery' = "queued"
  /\ UNCHANGED <<circuits, retries, proc, draft, answer, losses, kept, cached,
                 carried, document>>

(* The attempt is over and its process keeps nothing but its checkpoint. *)
EndAttempt(message) ==
  /\ delivery' = message
  /\ proc' = None /\ draft' = Blank /\ answer' = None

(* _load_checkpoint; the progress of a resumed job is reported at once. *)
Start(p) ==
  /\ delivery = "queued"
  /\ delivery' = "running"
  /\ proc' = p
  /\ draft' = IF kept[p] = None THEN Blank ELSE kept[p]
  /\ ResetRouter
  /\ IF kept[p] = None THEN UNCHANGED taskVars ELSE Write("progress")
  /\ UNCHANGED <<retries, answer, losses, kept, cached, carried, document>>

Drop ==
  /\ delivery = "queued"
  /\ revoked
  /\ Write("revoked")
  /\ EndAttempt("none")
  /\ UNCHANGED <<retries, circuits, losses, kept, cached, carried, document>>

(* completed_paragraphs[-carry_forward_paragraphs:], which is the whole     *)
(* list when none are to be carried.                                        *)
Carried(d) == IF CarryForward = 0 \/ Written(d) < CarryForward THEN Written(d)
              ELSE CarryForward

(* The answer to a call: its status, the provider that gave it, and whether *)
(* it has the structure the worker asks for.  The offline provider's answer *)
(* is a plan but never a paragraph.                                         *)
Reply(status, by, valid) == [status |-> status, by |-> by, valid |-> valid]
Raised == [status |-> "raised", by |-> None, valid |-> FALSE]
MayBeValid(call, by) == call = Plan \/ by # Offline

AskCache(call) ==
  \E entry \in cached :
    /\ entry.call = call
    /\ answer' = entry.reply
    /\ UNCHANGED <<circuits, cached>>

AskProviders(call, b, valid) ==
  /\ \A entry \in cached : entry.call # call
  /\ Invoke(b)
  /\ IF Answers(b)
       THEN LET by == AnsweredBy(b)
            IN /\ valid => MayBeValid(call, by)
               /\ answer' = Reply(AnsweredAs(b), by, valid)
               /\ cached' = IF by = Offline THEN cached
                            ELSE cached \cup
                              {[call |-> call,
                                reply |-> Reply("primary", by, valid)]}
       ELSE answer' = Raised /\ UNCHANGED cached

Ask ==
  /\ delivery = "running" /\ answer = None /\ ~Complete(draft)
  /\ LET call == NextCall(draft)
     IN /\ \/ AskCache(call)
           \/ \E b \in Behaviour, valid \in BOOLEAN :
                AskProviders(call, b, valid)
        /\ carried' = IF call = Plan THEN carried ELSE Carried(draft)
  /\ UNCHANGED <<taskVars, delivery, retries, proc, draft, losses, kept,
                 document>>

(* Mutant of Recorded: the draft only keeps the last status. *)
RecordedLast(d, call) ==
  LET noted == [d EXCEPT !.calls = @ + 1, !.statuses = {answer.status},
                         !.authors = @ \cup {answer.by}]
  IN IF call = Plan THEN [noted EXCEPT !.planned = TRUE]
     ELSE [noted EXCEPT !.text[call[1]] = Append(@, call[2])]

(* The draft with the answer to its next call recorded. *)
Recorded(d, call) ==
  LET noted == [d EXCEPT !.calls = @ + 1,
                         !.statuses = @ \cup {answer.status},
                         !.authors = @ \cup {answer.by}]
  IN IF call = Plan THEN [noted EXCEPT !.planned = TRUE]
     ELSE [noted EXCEPT !.text[call[1]] = Append(@, call[2])]

(* Mutant of Take: the copy is kept before the call is recorded in it. *)
TakeEarlyCopy ==
  /\ delivery = "running" /\ answer # None /\ answer.valid
  /\ LET next == Recorded(draft, NextCall(draft))
     IN /\ draft' = next
        /\ kept' = [kept EXCEPT ![proc] = [next EXCEPT !.calls = draft.calls]]
  /\ answer' = None
  /\ Write("progress")
  /\ UNCHANGED <<delivery, retries, proc, circuits, losses, cached, carried,
                 document>>

Take ==
  /\ delivery = "running" /\ answer # None /\ answer.valid
  /\ LET next == Recorded(draft, NextCall(draft))
     IN draft' = next /\ kept' = [kept EXCEPT ![proc] = next]
  /\ answer' = None
  /\ Write("progress")
  /\ UNCHANGED <<delivery, retries, proc, circuits, losses, cached, carried,
                 document>>

(* GeneratedContentValidationError, or the soft time limit: the wrapper     *)
(* returns a failed result.                                                 *)
GiveUp ==
  /\ delivery = "running"
  /\ WriteResult("failed")
  /\ EndAttempt("none")
  /\ UNCHANGED <<retries, circuits, losses, kept, cached, carried, document>>

Invalid ==
  /\ answer # None /\ ~answer.valid /\ answer.status # "raised"
  /\ GiveUp

SoftLimit == answer = None /\ GiveUp

(* autoretry_for *)
Retry ==
  /\ delivery = "running" /\ answer = Raised /\ retries < MaxRetries
  /\ Write("retry")
  /\ retries' = retries + 1
  /\ EndAttempt("queued")
  /\ UNCHANGED <<circuits, losses, kept, cached, carried, document>>

OutOfRetries ==
  /\ delivery = "running" /\ answer = Raised /\ retries = MaxRetries
  /\ Write("failure")
  /\ EndAttempt("none")
  /\ UNCHANGED <<retries, circuits, losses, kept, cached, carried, document>>

(* _aggregate_provider_status: the status of the result, by the worst call. *)
Aggregated(statuses) ==
  IF "offline" \in statuses \/ statuses = {} THEN "offline"
  ELSE IF "fallback" \in statuses THEN "fallback" ELSE "primary"

(* Mutant of Finish: the message is not acknowledged. *)
FinishUnacked ==
  /\ delivery = "running" /\ Complete(draft) /\ answer = None
  /\ WriteResult("succeeded")
  /\ document' = [text |-> draft.text, calls |-> draft.calls,
                  authors |-> draft.authors,
                  status |-> Aggregated(draft.statuses)]
  /\ kept' = [kept EXCEPT ![proc] = None]
  /\ EndAttempt("queued")
  /\ UNCHANGED <<retries, circuits, losses, cached, carried>>

(* The checkpoint is deleted and the result returned; the status "offline"  *)
(* makes it a partial result that asks for a manual review.                 *)
Finish ==
  /\ delivery = "running" /\ Complete(draft) /\ answer = None
  /\ WriteResult("succeeded")
  /\ document' = [text |-> draft.text, calls |-> draft.calls,
                  authors |-> draft.authors,
                  status |-> Aggregated(draft.statuses)]
  /\ kept' = [kept EXCEPT ![proc] = None]
  /\ EndAttempt("none")
  /\ UNCHANGED <<retries, circuits, losses, cached, carried>>

(* The hard time limit kills the process and fails the task. *)
HardLimit ==
  /\ delivery = "running"
  /\ Write("failure")
  /\ kept' = [kept EXCEPT ![proc] = None]
  /\ EndAttempt("none")
  /\ UNCHANGED <<retries, circuits, losses, cached, carried, document>>

(* A process ends: replaced after its number of tasks, or lost in the midst *)
(* of one, which is then delivered again.                                   *)
LoseProcess(p) ==
  /\ losses < MaxLosses
  /\ losses' = losses + 1
  /\ kept' = [kept EXCEPT ![p] = None]
  /\ IF proc = p THEN EndAttempt("queued")
     ELSE UNCHANGED <<delivery, proc, draft, answer>>
  /\ UNCHANGED <<taskVars, retries, circuits, cached, carried, document>>

Expire(entry) ==
  /\ cached' = cached \ {entry}
  /\ UNCHANGED <<taskVars, circuits, attemptVars, losses, kept, carried,
                 document>>

CoolDown(p) ==
  /\ Cooldown(p)
  /\ UNCHANGED <<taskVars, attemptVars, losses, kept, cached, carried,
                 document>>

WorkerActions ==
  \/ \E p \in Procs : Start(p) \/ LoseProcess(p)
  \/ Drop \/ Ask \/ Take \/ Invalid \/ SoftLimit \/ Retry \/ OutOfRetries
  \/ Finish \/ HardLimit
  \/ \E entry \in cached : Expire(entry)
  \/ \E p \in Providers : CoolDown(p)

(* A request of the API, at any time. *)
ToldToRevoke ==
  /\ RequestRevoke
  /\ UNCHANGED <<circuits, attemptVars, losses, kept, cached, carried, document>>

WorkerNext == Enqueue \/ ToldToRevoke \/ WorkerActions

WorkerSpec == WorkerInit /\ [][WorkerNext]_workerVars

(* The pool runs what is queued and goes on with what it runs. *)
WorkerFairness ==
  WF_workerVars(\/ \E p \in Procs : Start(p)
                \/ Ask \/ Take \/ Invalid \/ Retry \/ OutOfRetries \/ Finish)

-----------------------------------------------------------------------------
(* Properties                                                              *)

(* A document that is returned has, of every section and in order, exactly  *)
(* the paragraphs asked for, and one recorded call for each and the plan,   *)
(* through whatever retries, lost processes and cached answers it was made. *)
WholeDocument ==
  document # None =>
    /\ \A s \in Sections : document.text[s] = [i \in 1..Targets[s] |-> i]
    /\ document.calls = 1 + Written(document)

(* A paragraph call carries the last carryForwardParagraphs paragraphs and  *)
(* no more of the text (PROJECT_MASTER_PROMPT.md:1283).                     *)
ContextBounded == carried <= CarryForward

(* A document with an answer of the offline provider in it is never shown   *)
(* as one the primary provider wrote, whichever level of the route named    *)
(* that provider and however many calls, resumed attempts and cached        *)
(* answers it was made of (_record_call, _aggregate_provider_status).       *)
OfflineIsVisible ==
  document # None =>
    (Offline \in document.authors => document.status # "primary")

(* It is returned as one that needs a manual review ("one or more           *)
(* paragraphs used the offline provider", bidding_generator.py:198).        *)
OfflineIsTold ==
  document # None =>
    (Offline \in document.authors => document.status = "offline")

(* The worker is a Celery task to the rest of the platform: its state goes  *)
(* the way of the result backend and stays as it is once it has ended.      *)
WorkerIsTask == TaskSpec

(* A provider that has just failed Threshold times or more in a row is left *)
(* alone until the cooldown is over.                                        *)
FailingProviderRests ==
  [][\A p \in Providers :
       circuits'[p].failures > circuits[p].failures
       /\ circuits'[p].failures >= Threshold
         => circuits'[p].opened = "cooling"]_circuits

=============================================================================
