----------------------------- MODULE JobProofs ------------------------------
(***************************************************************************)
(* Proofs about one job for any number of providers, worker processes,     *)
(* requests, retries and lost processes: the worker is the Celery task the *)
(* rest of the platform takes it for, and the database row never tells     *)
(* anything of that task that did not happen.                              *)
(***************************************************************************)
EXTENDS JobSystem, CountingLemmas

-----------------------------------------------------------------------------
(* The worker as a task                                                    *)

(* Why the worker may write without looking: while a message is queued or  *)
(* running the task is unfinished, and a process works on a running one.   *)
DeliveryInv ==
  /\ delivery \in {"none", "queued", "running"}
  /\ delivery # "none" => backend \in Unfinished
  /\ proc # None => delivery = "running"

LEMMA DeliveryInit == WorkerInit => DeliveryInv
BY DEF WorkerInit, DeliveryInv

(* Whatever the worker does to the task is a step of a Celery task, and     *)
(* leaves no message behind when the task is finished.                      *)
LEMMA WorkStep ==
  ASSUME DeliveryInv, WorkerActions
  PROVE  [WorkerStep]_taskVars /\ DeliveryInv'
<1> USE DEF DeliveryInv, Unfinished, EndAttempt, Write, WriteResult, WorkerStep
<1>1. CASE \E p \in Procs : Start(p)
  BY <1>1 DEF Start, Report, taskVars
<1>2. CASE \E p \in Procs : LoseProcess(p)
  BY <1>2, WorkerAssumption DEF LoseProcess, taskVars
<1>3. CASE Drop
  BY <1>3 DEF Drop, Discard
<1>4. CASE Ask
  BY <1>4 DEF Ask, taskVars
<1>5. CASE Take
  BY <1>5 DEF Take, Report
<1>6. CASE Invalid \/ SoftLimit
  BY <1>6 DEF Invalid, SoftLimit, GiveUp, Return, Outcomes
<1>7. CASE Retry \/ OutOfRetries
  BY <1>7 DEF Retry, OutOfRetries, Report, Raise
<1>8. CASE Finish \/ HardLimit
  BY <1>8 DEF Finish, HardLimit, Return, Raise, Outcomes
<1>9. CASE \/ \E entry \in cached : Expire(entry)
           \/ \E p \in Providers : CoolDown(p)
  BY <1>9 DEF Expire, CoolDown, taskVars, attemptVars
<1> QED BY <1>1, <1>2, <1>3, <1>4, <1>5, <1>6, <1>7, <1>8, <1>9
        DEF WorkerActions

(* Every step of the worker is one of the task or leaves it alone. *)
LEMMA WorkerStepIsTaskStep ==
  DeliveryInv /\ [WorkerNext]_workerVars => [TaskNext]_taskVars /\ DeliveryInv'
<1> SUFFICES ASSUME DeliveryInv, [WorkerNext]_workerVars
             PROVE  [TaskNext]_taskVars /\ DeliveryInv'
  OBVIOUS
<1>1. CASE WorkerActions
  BY <1>1, WorkStep DEF TaskNext
<1>2. CASE Enqueue
  BY <1>2 DEF Enqueue, Send, TaskNext, DeliveryInv, Unfinished
<1>3. CASE ToldToRevoke
  BY <1>3 DEF ToldToRevoke, RequestRevoke, TaskNext, DeliveryInv, attemptVars
<1>4. CASE UNCHANGED workerVars
  BY <1>4 DEF workerVars, taskVars, attemptVars, DeliveryInv
<1> QED BY <1>1, <1>2, <1>3, <1>4 DEF WorkerNext

(* The worker implements a Celery task: what it writes to the result       *)
(* backend, through resumed attempts, retries and lost processes           *)
(* (M7Task.__call__), is what the task interface allows, and a      *)
(* task that has ended is never written to again.                          *)
THEOREM WorkerImplementsTask == WorkerSpec => WorkerIsTask
<1>1. WorkerInit => TaskInit
  BY DEF WorkerInit
<1> QED BY <1>1, DeliveryInit, WorkerStepIsTaskStep, PTL
        DEF WorkerSpec, WorkerIsTask, TaskSpec

-----------------------------------------------------------------------------
(* The router                                                              *)

(* The offline provider answers whatever it is asked, so that its breaker  *)
(* never opens and every call comes to an end at some level.               *)
RouterInv ==
  /\ circuits \in [Providers -> Breaker]
  /\ circuits[Offline].failures = 0

LEMMA RouterStart == RouterInit => RouterInv
  BY RouterAssumption DEF RouterInit, RouterInv, Closed, Breaker

LEMMA Levels ==
  /\ Level(1) = Primary /\ Level(2) = Fallback /\ Level(3) = Offline
  /\ StatusOf(1) = "primary" /\ StatusOf(2) = "fallback" /\ StatusOf(3) = "offline"
  /\ \A i \in 1..3 : Level(i) \in Providers /\ StatusOf(i) \in Statuses
<1>1. /\ Level(1) = Primary /\ Level(2) = Fallback /\ Level(3) = Offline
      /\ StatusOf(1) = "primary" /\ StatusOf(2) = "fallback" /\ StatusOf(3) = "offline"
  BY DEF Level, StatusOf
<1>2. \A i \in 1..3 : i = 1 \/ i = 2 \/ i = 3
  OBVIOUS
<1> QED BY <1>1, <1>2, RouterAssumption DEF Statuses

(* Some level decides every call, and it is one that was asked. *)
LEMMA SomeLevelDecides ==
  ASSUME RouterInv, NEW b \in Behaviour
  PROVE  /\ Deciding(b) \in 1..3
         /\ ~Skipped(Deciding(b)) /\ b[Level(Deciding(b))] # "error"
         /\ \A j \in 1..(Deciding(b) - 1) : Skipped(j) \/ b[Level(j)] = "error"
<1> DEFINE Ends(i) == ~Skipped(i) /\ b[Level(i)] # "error"
<1>1. Ends(3)
  <2>1. b[Offline] = "answer"
    BY DEF Behaviour
  <2>2. ~Open(Offline)
    BY RouterAssumption DEF RouterInv, Open
  <2> QED BY <2>1, <2>2, Levels, RouterAssumption DEF Skipped
<1>2. \A i \in 1..3 : ~Ends(i) => Skipped(i) \/ b[Level(i)] = "error"
  OBVIOUS
<1> HIDE DEF Ends
<1>3. \E i \in 1..3 : Ends(i) /\ \A j \in 1..(i - 1) : ~Ends(j)
  <2>1. 1..0 = {} /\ 1..1 = {1} /\ 1..2 = {1, 2}
    OBVIOUS
  <2>2. 1 - 1 = 0 /\ 2 - 1 = 1 /\ 3 - 1 = 2
    OBVIOUS
  <2>3. CASE Ends(1)
    BY <2>1, <2>2, <2>3
  <2>4. CASE ~Ends(1) /\ Ends(2)
    BY <2>1, <2>2, <2>4
  <2>5. CASE ~Ends(1) /\ ~Ends(2)
    BY <1>1, <2>1, <2>2, <2>5
  <2> QED BY <2>3, <2>4, <2>5
<1>4. \E i \in 1..3 : /\ ~Skipped(i) /\ b[Level(i)] # "error"
                      /\ \A j \in 1..(i - 1) : Skipped(j) \/ b[Level(j)] = "error"
  <2>1. PICK i \in 1..3 : Ends(i) /\ \A j \in 1..(i - 1) : ~Ends(j)
    BY <1>3
  <2>2. \A j \in 1..(i - 1) : j \in 1..3
    OBVIOUS
  <2> QED BY <1>2, <2>1, <2>2 DEF Ends
<1>5. Deciding(b) = CHOOSE i \in 1..3 :
        /\ ~Skipped(i) /\ b[Level(i)] # "error"
        /\ \A j \in 1..(i - 1) : Skipped(j) \/ b[Level(j)] = "error"
  BY DEF Deciding
<1> QED BY <1>4, <1>5

LEMMA RouterCalls ==
  ASSUME RouterInv, NEW b \in Behaviour, Invoke(b)
  PROVE  RouterInv'
<1>1. \A p \in Providers : circuits[p] \in Breaker
  BY DEF RouterInv
<1>2. \A c \in Breaker : Failed(c) \in Breaker
  BY DEF Breaker, Failed
<1>3. Closed \in Breaker /\ Closed.failures = 0
  BY DEF Closed, Breaker
<1>4. Offline \notin Failing(b)
  <2> SUFFICES ASSUME Offline \in Failing(b) PROVE FALSE
    OBVIOUS
  <2>1. PICK i \in 1..(Deciding(b) - 1) : ~Skipped(i) /\ Level(i) = Offline
    BY DEF Failing
  <2>2. b[Offline] = "error"
    BY <2>1, SomeLevelDecides
  <2>3. b[Offline] = "answer"
    BY DEF Behaviour
  <2> QED BY <2>2, <2>3
<1>5. circuits' \in [Providers -> Breaker]
  BY <1>1, <1>2, <1>3 DEF Invoke
<1>6. circuits'[Offline] = circuits[Offline] \/ circuits'[Offline] = Closed
  BY <1>4, RouterAssumption DEF Invoke
<1> QED BY <1>3, <1>5, <1>6 DEF RouterInv

LEMMA RouterRests ==
  ASSUME RouterInv
  PROVE  /\ ResetRouter => RouterInv'
         /\ \A p \in Providers : Cooldown(p) => RouterInv'
         /\ UNCHANGED circuits => RouterInv'
<1>1. ResetRouter => RouterInv'
  BY RouterAssumption DEF ResetRouter, RouterInv, Closed, Breaker
<1>2. ASSUME NEW p \in Providers, Cooldown(p) PROVE RouterInv'
  <2> DEFINE c == [circuits[p] EXCEPT !.opened = "cooled"]
  <2>1. circuits' = [circuits EXCEPT ![p] = c]
    BY <1>2 DEF Cooldown
  <2>2. circuits[p] \in Breaker
    BY DEF RouterInv
  <2>3. c \in Breaker /\ c.failures = circuits[p].failures
    BY <2>2 DEF Breaker
  <2> HIDE DEF c
  <2> QED BY <2>1, <2>3, RouterAssumption DEF RouterInv
<1> QED BY <1>1, <1>2 DEF RouterInv

-----------------------------------------------------------------------------
(* The document                                                            *)

(* A draft: the paragraphs of every section in order and no more of them   *)
(* than asked for, one recorded call for each and the plan, and no answer  *)
(* of the offline provider without a status that shows it: the router asks *)
(* that provider as the fallback or at the last level, never first.        *)
Shows(status) == status \in {"fallback", "offline"}

Checkpoint == [planned : BOOLEAN, text : [Sections -> Seq(Nat)], calls : Nat,
               statuses : SUBSET (Statuses \cup {"raised"}),
               authors : SUBSET (Providers \cup {None})]

InOrder(d) ==
  \A s \in Sections : /\ Len(d.text[s]) <= Targets[s]
                      /\ \A i \in 1..Len(d.text[s]) : d.text[s][i] = i

DraftOK(d) ==
  /\ d \in Checkpoint
  /\ InOrder(d)
  /\ d.calls = (IF d.planned THEN 1 ELSE 0) + Written(d)
  /\ Offline \in d.authors => \E status \in d.statuses : Shows(status)

Replies == [status : Statuses \cup {"raised"}, by : Providers \cup {None},
            valid : BOOLEAN]

KeptOK ==
  /\ kept \in [Procs -> Checkpoint \cup {None}]
  /\ \A p \in Procs : kept[p] # None => DraftOK(kept[p])

(* A call is made for a document that is not complete. *)
AnswerOK ==
  answer # None =>
    /\ answer \in Replies /\ ~Complete(draft)
    /\ answer.by = Offline => Shows(answer.status)

CacheOK == \A e \in cached : e.reply \in Replies /\ e.reply.by # Offline

WorkerInv ==
  /\ RouterInv
  /\ (proc # None) = (delivery = "running") /\ proc \in Procs \cup {None}
  /\ answer # None => delivery = "running"
  /\ DraftOK(draft) /\ KeptOK /\ AnswerOK /\ CacheOK
  /\ WholeDocument /\ OfflineIsVisible

LEMMA TargetsKnown ==
  /\ Len(Targets) \in Nat /\ Sections = 1..Len(Targets) /\ IsFiniteSet(Sections)
  /\ \A s \in Sections : Targets[s] \in Nat \ {0}
<1>1. Targets \in Seq(Nat \ {0})
  BY WorkerAssumption
<1>2. Len(Targets) \in Nat /\ Sections = 1..Len(Targets)
  BY <1>1 DEF Sections
<1>3. \A s \in Sections : Targets[s] \in Nat \ {0}
  BY <1>1, <1>2
<1> QED BY <1>2, <1>3, FS_Interval

LEMMA WrittenIsSum ==
  ASSUME NEW d
  PROVE  Written(d) = SumFunctionOnSet([s \in Sections |-> Len(d.text[s])], Sections)
<1>1. DOMAIN [s \in Sections |-> Len(d.text[s])] = Sections
  OBVIOUS
<1> QED BY <1>1 DEF Written, SumFunction

LEMMA WrittenType ==
  ASSUME NEW d \in Checkpoint
  PROVE  Written(d) \in Nat
<1> DEFINE f == [s \in Sections |-> Len(d.text[s])]
<1>1. \A s \in Sections : f[s] \in Nat
  BY DEF Checkpoint
<1>2. IsFiniteSet(Sections)
  BY TargetsKnown
<1> HIDE DEF f
<1>3. SumFunctionOnSet(f, Sections) \in Nat
  BY <1>1, <1>2, SumType
<1> QED BY <1>3, WrittenIsSum DEF f

LEMMA BlankIsDraft == DraftOK(Blank)
<1> DEFINE f == [s \in Sections |-> Len(Blank.text[s])]
<1>1. \A s \in Sections : Blank.text[s] = <<>> /\ Len(Blank.text[s]) = 0
  BY DEF Blank
<1>2. \A s \in Sections : f[s] = 0
  BY <1>1
<1> HIDE DEF f
<1>3. SumFunctionOnSet(f, Sections) = 0
  BY <1>2, TargetsKnown, SumOfNothing
<1>4. Written(Blank) = 0
  BY <1>3, WrittenIsSum DEF f
<1>5. Blank \in Checkpoint
  BY DEF Blank, Checkpoint
<1>6. InOrder(Blank)
  BY <1>1, TargetsKnown DEF InOrder
<1>7. Blank.planned = FALSE /\ Blank.calls = 0 /\ Blank.authors = {}
  BY DEF Blank
<1> QED BY <1>4, <1>5, <1>6, <1>7 DEF DraftOK

(* The section that is written next: the first that is not whole. *)
LEMMA CurrentIsOpen ==
  ASSUME NEW d, DraftOK(d), d.planned, ~Complete(d)
  PROVE  Current(d) \in Sections /\ Len(d.text[Current(d)]) < Targets[Current(d)]
<1> DEFINE S == {s \in Sections : Len(d.text[s]) < Targets[s]}
<1>1. \A s \in Sections : Len(d.text[s]) \in Nat /\ Targets[s] \in Nat
                         /\ Len(d.text[s]) <= Targets[s]
  BY TargetsKnown DEF DraftOK, Checkpoint, InOrder
<1>2. S # {} /\ S \in SUBSET (1..Len(Targets))
  <2>1. \E s \in Sections : Len(d.text[s]) # Targets[s]
    BY DEF Complete
  <2> QED BY <1>1, <2>1, TargetsKnown
<1>3. PICK k \in S : \A l \in S : k <= l
  <2> HIDE DEF S
  <2> QED BY <1>2, TargetsKnown, LeastNumber
<1>4. \A before \in 1..(k - 1) : Len(d.text[before]) = Targets[before]
  <2> SUFFICES ASSUME NEW before \in 1..(k - 1)
               PROVE  Len(d.text[before]) = Targets[before]
    OBVIOUS
  <2>1. k \in 1..Len(Targets) /\ Len(Targets) \in Nat
    BY TargetsKnown
  <2>2. before \in Sections /\ ~(k <= before)
    BY <2>1, TargetsKnown
  <2>3. before \notin S
    BY <1>3, <2>2
  <2> QED BY <1>1, <2>2, <2>3
<1>5. \E s \in Sections :
        /\ Len(d.text[s]) < Targets[s]
        /\ \A before \in 1..(s - 1) : Len(d.text[before]) = Targets[before]
  BY <1>3, <1>4
<1>6. Current(d) = CHOOSE s \in Sections :
        /\ Len(d.text[s]) < Targets[s]
        /\ \A before \in 1..(s - 1) : Len(d.text[before]) = Targets[before]
  BY DEF Current
<1> QED BY <1>5, <1>6

LEMMA OneMore ==
  ASSUME NEW d \in Checkpoint, NEW e \in Checkpoint, NEW s \in Sections,
         \A t \in Sections :
           Len(e.text[t]) = IF t = s THEN Len(d.text[t]) + 1 ELSE Len(d.text[t])
  PROVE  Written(e) = Written(d) + 1
<1> DEFINE f == [t \in Sections |-> Len(d.text[t])]
           g == [t \in Sections |-> Len(e.text[t])]
<1>1. \A t \in Sections : f[t] \in Int /\ g[t] = IF t = s THEN f[t] + 1 ELSE f[t]
  BY DEF Checkpoint
<1> HIDE DEF f, g
<1>2. 1 \in Int /\ IsFiniteSet(Sections)
  BY TargetsKnown
<1>3. SumFunctionOnSet(g, Sections) =
        IF s \in Sections THEN SumFunctionOnSet(f, Sections) + 1
        ELSE SumFunctionOnSet(f, Sections)
  BY ONLY <1>1, <1>2, SumGrows
<1> QED BY <1>3, WrittenIsSum DEF f, g

(* Recording a valid answer leaves a draft. *)
LEMMA RecordedIsDraft ==
  ASSUME DraftOK(draft), ~Complete(draft), answer \in Replies, answer.valid,
         answer.by = Offline => Shows(answer.status)
  PROVE  DraftOK(Recorded(draft, NextCall(draft)))
<1> DEFINE d == draft
           noted == [d EXCEPT !.calls = @ + 1, !.statuses = @ \cup {answer.status},
                              !.authors = @ \cup {answer.by}]
<1>1. d \in Checkpoint /\ Written(d) \in Nat /\ InOrder(d)
  BY WrittenType DEF DraftOK
<1>2. /\ noted \in Checkpoint /\ noted.text = d.text /\ noted.planned = d.planned
      /\ noted.calls = d.calls + 1
      /\ Offline \in noted.authors => \E status \in noted.statuses : Shows(status)
  <2>1. /\ noted.authors = d.authors \cup {answer.by}
        /\ noted.statuses = d.statuses \cup {answer.status}
        /\ noted.text = d.text /\ noted.planned = d.planned
        /\ noted.calls = d.calls + 1
    BY <1>1 DEF Checkpoint
  <2>2. answer.by \in Providers \cup {None} /\ answer.status \in Statuses \cup {"raised"}
    BY DEF Replies
  <2>3. Offline \in d.authors => \E status \in d.statuses : Shows(status)
    BY DEF DraftOK
  <2>4. noted \in Checkpoint
    <3>1. /\ d.authors \cup {answer.by} \in SUBSET (Providers \cup {None})
          /\ d.statuses \cup {answer.status} \in SUBSET (Statuses \cup {"raised"})
          /\ d.calls + 1 \in Nat
      BY <1>1, <2>2 DEF Checkpoint
    <3>2. ASSUME NEW c \in Nat, NEW st \in SUBSET (Statuses \cup {"raised"}),
                 NEW au \in SUBSET (Providers \cup {None}), NEW e \in Checkpoint
          PROVE  [e EXCEPT !.calls = c, !.statuses = st, !.authors = au] \in Checkpoint
      BY DEF Checkpoint
    <3> QED BY ONLY <1>1, <3>1, <3>2
  <2> HIDE DEF noted
  <2>5. Offline \in noted.authors => \E status \in noted.statuses : Shows(status)
    BY <2>1, <2>3
  <2> QED BY <2>1, <2>4, <2>5
<1>3. d.calls = (IF d.planned THEN 1 ELSE 0) + Written(d)
  BY DEF DraftOK
<1>4. CASE ~d.planned
  <2> DEFINE next == [noted EXCEPT !.planned = TRUE]
  <2>1. Recorded(d, NextCall(d)) = next
    BY <1>4 DEF Recorded, NextCall
  <2> HIDE DEF noted
  <2>2. /\ next \in Checkpoint /\ next.text = d.text /\ next.planned = TRUE
        /\ next.calls = d.calls + 1
        /\ next.authors = noted.authors /\ next.statuses = noted.statuses
    BY <1>2 DEF Checkpoint
  <2> HIDE DEF next
  <2>3. Written(next) = Written(d) /\ InOrder(next)
    BY <1>1, <2>2 DEF Written, InOrder
  <2>4. next.calls = (IF next.planned THEN 1 ELSE 0) + Written(next)
    BY <1>1, <1>3, <1>4, <2>2, <2>3
  <2> QED BY <1>2, <2>1, <2>2, <2>3, <2>4 DEF DraftOK
<1>5. CASE d.planned
  <2> DEFINE s == Current(d)
             n == Len(d.text[s])
             more == Append(d.text[s], n + 1)
             next == [noted EXCEPT !.text = [d.text EXCEPT ![s] = more]]
  <2>1. s \in Sections /\ n < Targets[s]
    BY <1>5, CurrentIsOpen
  <2>2. d.text \in [Sections -> Seq(Nat)] /\ d.text[s] \in Seq(Nat) /\ n \in Nat
    BY <1>1, <2>1 DEF Checkpoint
  <2>3. Recorded(d, NextCall(d)) = next
    <3>1. NextCall(d) = <<s, n + 1>> /\ NextCall(d) # Plan
      <4>1. s # 0
        BY <2>1, TargetsKnown
      <4> QED BY <1>5, <4>1 DEF NextCall, Plan
    <3>2. Recorded(d, NextCall(d)) =
            [noted EXCEPT !.text[s] = Append(@, n + 1)]
      BY <3>1 DEF Recorded
    <3> HIDE DEF noted
    <3> QED BY <1>2, <3>2
  <2>4. more \in Seq(Nat) /\ Len(more) = n + 1
        /\ \A i \in 1..(n + 1) : more[i] = IF i = n + 1 THEN n + 1 ELSE d.text[s][i]
    BY <2>2
  <2> HIDE DEF noted, more
  <2>5. /\ next \in Checkpoint /\ next.planned = d.planned
        /\ next.text = [d.text EXCEPT ![s] = more]
        /\ next.calls = d.calls + 1
        /\ next.authors = noted.authors /\ next.statuses = noted.statuses
    <3>1. [d.text EXCEPT ![s] = more] \in [Sections -> Seq(Nat)]
      BY <2>2, <2>4
    <3> QED BY <1>2, <3>1 DEF Checkpoint
  <2> HIDE DEF next
  <2>6. \A t \in Sections : next.text[t] = IF t = s THEN more ELSE d.text[t]
    BY <2>2, <2>5
  <2> HIDE DEF s, n
  <2>7. InOrder(next)
    <3> SUFFICES ASSUME NEW t \in Sections
                 PROVE  /\ Len(next.text[t]) <= Targets[t]
                        /\ \A i \in 1..Len(next.text[t]) : next.text[t][i] = i
      BY DEF InOrder
    <3>1. CASE t = s
      <4>1. Targets[s] \in Nat /\ next.text[t] = more
        BY <2>1, <2>6, <3>1, TargetsKnown
      <4>2. \A i \in 1..n : d.text[s][i] = i
        BY <1>1, <2>1 DEF InOrder, n
      <4>3. \A i \in 1..(n + 1) : more[i] = i
        <5>1. n \in Nat
          BY <2>2
        <5>2. \A i \in 1..(n + 1) : i = n + 1 \/ i \in 1..n
          BY <5>1
        <5> QED BY <2>4, <4>2, <5>2
      <4> QED BY <2>1, <2>2, <2>4, <3>1, <4>1, <4>3
    <3>2. CASE t # s
      BY <1>1, <2>6, <3>2 DEF InOrder
    <3> QED BY <3>1, <3>2
  <2>8. Written(next) = Written(d) + 1
    <3>1. next \in Checkpoint /\ d \in Checkpoint /\ s \in Sections
      BY <1>1, <2>1, <2>5
    <3>2. \A t \in Sections :
            Len(next.text[t]) = IF t = s THEN Len(d.text[t]) + 1 ELSE Len(d.text[t])
      BY <2>4, <2>6 DEF n
    <3> QED BY <3>1, <3>2, OneMore
  <2>9. next.calls = (IF next.planned THEN 1 ELSE 0) + Written(next)
    BY <1>1, <1>3, <1>5, <2>5, <2>8
  <2> QED BY <1>2, <2>3, <2>5, <2>7, <2>9 DEF DraftOK, s, n
<1> QED BY <1>4, <1>5

LEMMA WorkerStart == WorkerInit => WorkerInv
<1> SUFFICES ASSUME WorkerInit PROVE WorkerInv
  OBVIOUS
<1>1. RouterInv
  BY RouterStart DEF WorkerInit
<1>2. DraftOK(draft)
  BY BlankIsDraft DEF WorkerInit
<1>3. /\ (proc # None) = (delivery = "running") /\ proc \in Procs \cup {None}
      /\ answer = None /\ document = None /\ cached = {}
      /\ kept = [p \in Procs |-> None]
  BY DEF WorkerInit
<1> QED BY <1>1, <1>2, <1>3
        DEF WorkerInv, KeptOK, AnswerOK, CacheOK, WholeDocument, OfflineIsVisible

(* What a step leaves alone stays as it should be. *)
LEMMA Untouched ==
  ASSUME WorkerInv
  PROVE  /\ UNCHANGED circuits => RouterInv'
         /\ UNCHANGED draft => DraftOK(draft)'
         /\ UNCHANGED kept => KeptOK'
         /\ UNCHANGED cached => CacheOK'
         /\ UNCHANGED document => WholeDocument' /\ OfflineIsVisible'
  BY DEF WorkerInv, RouterInv, KeptOK, CacheOK, WholeDocument, OfflineIsVisible

(* An attempt that ends leaves no draft and no answer behind. *)
LEMMA EndedAttempt ==
  ASSUME WorkerInv, NEW message \in {"none", "queued"}, EndAttempt(message)
  PROVE  /\ (proc' # None) = (delivery' = "running") /\ proc' \in Procs \cup {None}
         /\ answer' # None => delivery' = "running"
         /\ DraftOK(draft)' /\ AnswerOK'
<1>1. draft' = Blank /\ answer' = None /\ proc' = None /\ delivery' # "running"
  BY DEF EndAttempt
<1> QED BY <1>1, BlankIsDraft DEF AnswerOK

(* A process that loses its checkpoint, or keeps another. *)
LEMMA Keeps ==
  ASSUME KeptOK, NEW p, NEW d, d = None \/ DraftOK(d), kept' = [kept EXCEPT ![p] = d]
  PROVE  KeptOK'
<1>1. d \in Checkpoint \cup {None}
  BY DEF DraftOK
<1> QED BY <1>1 DEF KeptOK

LEMMA StartKeeps ==
  ASSUME WorkerInv, NEW p \in Procs, Start(p)
  PROVE  WorkerInv'
<1>1. /\ delivery' = "running" /\ proc' = p /\ answer' = answer
      /\ draft' = (IF kept[p] = None THEN Blank ELSE kept[p])
      /\ ResetRouter /\ delivery = "queued"
      /\ UNCHANGED <<kept, cached, carried, document>>
  BY DEF Start
<1>2. DraftOK(draft)'
  BY <1>1, BlankIsDraft DEF WorkerInv, KeptOK
<1>3. answer' = None
  BY <1>1 DEF WorkerInv
<1>4. RouterInv'
  BY <1>1, RouterRests DEF WorkerInv
<1>5. proc' # None
  BY <1>1, WorkerAssumption
<1>6. AnswerOK' /\ (proc' # None) = (delivery' = "running")
      /\ proc' \in Procs \cup {None} /\ (answer' # None => delivery' = "running")
  BY <1>1, <1>3, <1>5 DEF AnswerOK
<1> QED BY <1>1, <1>2, <1>4, <1>6, Untouched DEF WorkerInv

(* What a call brings: a reply whose status shows when it is the offline   *)
(* provider's, and nothing of that provider goes into the cache.           *)
LEMMA ProvidersReply ==
  ASSUME WorkerInv, NEW call, NEW b \in Behaviour, NEW valid \in BOOLEAN,
         AskProviders(call, b, valid)
  PROVE  /\ RouterInv' /\ CacheOK'
         /\ answer' \in Replies
         /\ answer'.by = Offline => Shows(answer'.status)
<1>1. RouterInv'
  BY RouterCalls DEF WorkerInv, AskProviders
<1>2. CASE Answers(b)
  <2> DEFINE by == AnsweredBy(b)
             status == AnsweredAs(b)
  <2>1. PICK i \in 1..3 : by = Level(i) /\ status = StatusOf(i)
    BY SomeLevelDecides DEF WorkerInv, AnsweredBy, AnsweredAs
  <2>2. by \in Providers /\ status \in Statuses /\ "primary" \in Statuses
    BY <2>1, Levels DEF Statuses
  <2>3. by = Offline => Shows(status)
    <3>1. i = 1 \/ i = 2 \/ i = 3
      BY <2>1
    <3> QED BY <2>1, <3>1, Levels, RouterAssumption DEF Shows
  <2>4. /\ answer' = Reply(status, by, valid)
        /\ cached' = IF by = Offline THEN cached
                     ELSE cached \cup {[call |-> call,
                                        reply |-> Reply("primary", by, valid)]}
    BY <1>2 DEF AskProviders
  <2> HIDE DEF by, status
  <2>5. Reply(status, by, valid) \in Replies /\ Reply("primary", by, valid) \in Replies
    BY <2>2 DEF Reply, Replies
  <2>6. /\ answer'.by = by /\ answer'.status = status
        /\ Reply("primary", by, valid).by = by
    BY <2>4 DEF Reply
  <2>7. CacheOK'
    BY <2>4, <2>5, <2>6 DEF WorkerInv, CacheOK
  <2> QED BY <1>1, <2>3, <2>4, <2>5, <2>6, <2>7
<1>3. CASE ~Answers(b)
  <2>1. answer' = Raised /\ cached' = cached
    BY <1>3 DEF AskProviders
  <2>2. Raised \in Replies /\ Raised.by # Offline
    BY RouterAssumption, WorkerAssumption DEF Raised, Replies
  <2> QED BY <1>1, <2>1, <2>2 DEF WorkerInv, CacheOK
<1> QED BY <1>2, <1>3

LEMMA AskKeeps ==
  ASSUME WorkerInv, Ask
  PROVE  WorkerInv'
<1>1. /\ delivery = "running" /\ ~Complete(draft)
      /\ UNCHANGED <<delivery, proc, draft, kept, document>>
  BY DEF Ask
<1>2. /\ RouterInv' /\ CacheOK' /\ answer' \in Replies
      /\ answer'.by = Offline => Shows(answer'.status)
  <2>1. CASE AskCache(NextCall(draft))
    <3>1. PICK entry \in cached : answer' = entry.reply /\ UNCHANGED <<circuits, cached>>
      BY <2>1 DEF AskCache
    <3>2. answer' \in Replies /\ answer'.by # Offline
      BY <3>1 DEF WorkerInv, CacheOK
    <3> QED BY <3>1, <3>2, Untouched
  <2>2. CASE \E b \in Behaviour, valid \in BOOLEAN :
               AskProviders(NextCall(draft), b, valid)
    BY <2>2, ProvidersReply
  <2> QED BY <2>1, <2>2 DEF Ask
<1>3. ~Complete(draft)'
  BY <1>1 DEF Complete
<1>4. AnswerOK'
  BY <1>2, <1>3 DEF AnswerOK
<1>5. /\ (proc' # None) = (delivery' = "running") /\ proc' \in Procs \cup {None}
      /\ answer' # None => delivery' = "running"
  BY <1>1 DEF WorkerInv
<1> QED BY <1>1, <1>2, <1>4, <1>5, Untouched DEF WorkerInv

LEMMA TakeKeeps ==
  ASSUME WorkerInv, Take
  PROVE  WorkerInv'
<1> DEFINE next == Recorded(draft, NextCall(draft))
<1>1. /\ delivery = "running" /\ answer # None /\ answer.valid
      /\ draft' = next /\ kept' = [kept EXCEPT ![proc] = next] /\ answer' = None
      /\ UNCHANGED <<delivery, proc, circuits, cached, carried, document>>
  BY DEF Take
<1>2. DraftOK(next)
  BY <1>1, RecordedIsDraft DEF WorkerInv, AnswerOK
<1> HIDE DEF next
<1>3. DraftOK(draft)' /\ KeptOK' /\ AnswerOK'
  BY <1>1, <1>2, Keeps DEF WorkerInv, AnswerOK
<1> QED BY <1>1, <1>3, Untouched DEF WorkerInv

(* The document is a complete draft. *)
LEMMA FinishKeeps ==
  ASSUME WorkerInv, Finish
  PROVE  WorkerInv'
<1>1. /\ Complete(draft)
      /\ document' = [text |-> draft.text, calls |-> draft.calls,
                      authors |-> draft.authors,
                      status |-> Aggregated(draft.statuses)]
      /\ kept' = [kept EXCEPT ![proc] = None] /\ EndAttempt("none")
      /\ UNCHANGED <<circuits, cached, carried>>
  BY DEF Finish
<1>2. DraftOK(draft) /\ draft \in Checkpoint
  BY DEF WorkerInv, DraftOK
<1>3. WholeDocument'
  <2>1. ASSUME NEW s \in Sections
        PROVE  document'.text[s] = [i \in 1..Targets[s] |-> i]
    <3>1. draft.text[s] \in Seq(Nat) /\ Len(draft.text[s]) = Targets[s]
      BY <1>1, <1>2 DEF Checkpoint, Complete
    <3>2. \A i \in 1..Targets[s] : draft.text[s][i] = i
      BY <1>2, <3>1 DEF DraftOK, InOrder
    <3>3. DOMAIN draft.text[s] = 1..Targets[s]
      BY <3>1
    <3>4. draft.text[s] = [i \in DOMAIN draft.text[s] |-> draft.text[s][i]]
      BY <3>1
    <3> QED BY <1>1, <3>2, <3>3, <3>4
  <2>2. Written(document)' = Written(draft)
    BY <1>1 DEF Written
  <2>3. document'.calls = 1 + Written(draft)
    BY <1>1, <1>2 DEF DraftOK, Complete
  <2> QED BY <2>1, <2>2, <2>3 DEF WholeDocument
<1>4. OfflineIsVisible'
  <2>1. document'.authors = draft.authors
        /\ document'.status = Aggregated(draft.statuses)
    BY <1>1
  <2>2. \A status \in draft.statuses :
          Shows(status) => Aggregated(draft.statuses) # "primary"
    BY DEF Shows, Aggregated
  <2> QED BY <1>2, <2>1, <2>2 DEF DraftOK, OfflineIsVisible
<1>5. KeptOK'
  BY <1>1, Keeps DEF WorkerInv
<1> QED BY <1>1, <1>3, <1>4, <1>5, EndedAttempt, Untouched DEF WorkerInv

(* An attempt that ends without a document, or a process. *)
LEMMA EndingsKeep ==
  ASSUME WorkerInv,
         \/ Drop \/ Invalid \/ SoftLimit \/ Retry \/ OutOfRetries \/ HardLimit
         \/ \E p \in Procs : LoseProcess(p)
  PROVE  WorkerInv'
<1>1. CASE \E p \in Procs : LoseProcess(p)
  <2>1. PICK p \in Procs :
          /\ kept' = [kept EXCEPT ![p] = None]
          /\ \/ EndAttempt("queued")
             \/ UNCHANGED <<delivery, proc, draft, answer>>
          /\ UNCHANGED <<circuits, cached, carried, document>>
    BY <1>1 DEF LoseProcess
  <2>2. KeptOK'
    BY <2>1, Keeps DEF WorkerInv
  <2>3. CASE EndAttempt("queued")
    BY <2>1, <2>2, <2>3, EndedAttempt, Untouched DEF WorkerInv
  <2>4. CASE UNCHANGED <<delivery, proc, draft, answer>>
    <3>1. AnswerOK' /\ (proc' # None) = (delivery' = "running")
          /\ proc' \in Procs \cup {None} /\ (answer' # None => delivery' = "running")
      BY <2>4 DEF WorkerInv, AnswerOK, Complete
    <3> QED BY <2>1, <2>2, <2>4, <3>1, Untouched DEF WorkerInv
  <2> QED BY <2>1, <2>3, <2>4
<1>2. CASE Drop \/ Invalid \/ SoftLimit \/ Retry \/ OutOfRetries
  <2>1. /\ EndAttempt("none") \/ EndAttempt("queued")
        /\ UNCHANGED <<circuits, kept, cached, carried, document>>
    BY <1>2 DEF Drop, Invalid, SoftLimit, GiveUp, Retry, OutOfRetries
  <2> QED BY <2>1, EndedAttempt, Untouched DEF WorkerInv
<1>3. CASE HardLimit
  <2>1. /\ EndAttempt("none") /\ kept' = [kept EXCEPT ![proc] = None]
        /\ UNCHANGED <<circuits, cached, carried, document>>
    BY <1>3 DEF HardLimit
  <2>2. KeptOK'
    BY <2>1, Keeps DEF WorkerInv
  <2> QED BY <2>1, <2>2, EndedAttempt, Untouched DEF WorkerInv
<1> QED BY <1>1, <1>2, <1>3

(* Nothing of the attempt moves. *)
LEMMA AsidesKeep ==
  ASSUME WorkerInv,
         \/ \E entry \in cached : Expire(entry)
         \/ \E p \in Providers : CoolDown(p)
         \/ Enqueue /\ delivery # "running"
         \/ UNCHANGED ownVars
  PROVE  WorkerInv'
<1>1. /\ UNCHANGED <<proc, draft, answer, kept, carried, document>>
      /\ UNCHANGED delivery \/ (delivery' = "queued" /\ delivery # "running")
      /\ RouterInv' /\ CacheOK'
  <2>1. CASE \E entry \in cached : Expire(entry)
    <3>1. UNCHANGED <<circuits, attemptVars, kept, carried, document>> /\ cached' \subseteq cached
      BY <2>1 DEF Expire
    <3>2. CacheOK'
      BY <3>1 DEF WorkerInv, CacheOK
    <3> QED BY <3>1, <3>2, Untouched DEF attemptVars
  <2>2. CASE \E p \in Providers : CoolDown(p)
    <3>1. RouterInv' /\ UNCHANGED <<attemptVars, kept, cached, carried, document>>
      BY <2>2, RouterRests DEF CoolDown, WorkerInv
    <3> QED BY <3>1, Untouched DEF attemptVars
  <2>3. CASE Enqueue /\ delivery # "running"
    BY <2>3, Untouched DEF Enqueue
  <2>4. CASE UNCHANGED ownVars
    BY <2>4, Untouched DEF ownVars, attemptVars
  <2> QED BY <2>1, <2>2, <2>3, <2>4
<1>2. AnswerOK' /\ (proc' # None) = (delivery' = "running")
      /\ proc' \in Procs \cup {None} /\ (answer' # None => delivery' = "running")
  BY <1>1 DEF WorkerInv, AnswerOK, Complete
<1> QED BY <1>1, <1>2, Untouched DEF WorkerInv

LEMMA WorkKeepsDocument ==
  ASSUME WorkerInv, WorkerActions
  PROVE  WorkerInv'
  BY StartKeeps, AskKeeps, TakeKeeps, FinishKeeps, EndingsKeep, AsidesKeep
     DEF WorkerActions

(* Every step of the worker keeps the invariant of the document: a message *)
(* is sent once, when none is under way.                                   *)
LEMMA WorkerKeepsDocument ==
  DeliveryInv /\ WorkerInv /\ [WorkerNext]_workerVars => WorkerInv'
<1> SUFFICES ASSUME DeliveryInv, WorkerInv, [WorkerNext]_workerVars
             PROVE  WorkerInv'
  OBVIOUS
<1>1. CASE WorkerActions
  BY <1>1, WorkKeepsDocument
<1>2. CASE Enqueue
  <2>1. delivery # "running"
    BY <1>2 DEF Enqueue, Send, DeliveryInv, Unfinished
  <2> QED BY <1>2, <2>1, AsidesKeep
<1>3. CASE ToldToRevoke \/ UNCHANGED workerVars
  <2>1. UNCHANGED ownVars
    BY <1>3 DEF ToldToRevoke, workerVars, ownVars
  <2> QED BY <2>1, AsidesKeep
<1> QED BY <1>1, <1>2, <1>3 DEF WorkerNext

LEMMA WorkerInvariant == WorkerSpec => [](DeliveryInv /\ WorkerInv)
<1>1. WorkerInit => DeliveryInv /\ WorkerInv
  BY DeliveryInit, WorkerStart
<1>2. DeliveryInv /\ WorkerInv /\ [WorkerNext]_workerVars => (DeliveryInv /\ WorkerInv)'
  BY WorkerStepIsTaskStep, WorkerKeepsDocument
<1> QED BY <1>1, <1>2, PTL DEF WorkerSpec

(* A document that is returned is whole, of every section and in order, and *)
(* has one recorded call for each paragraph and the plan                    *)
(* (TechnicalDocumentGenerator.generate, _record_response), through any     *)
(* number of retries, lost processes and resumed checkpoints and whatever   *)
(* the cache answers.                                                       *)
THEOREM WholeDocuments == WorkerSpec => []WholeDocument
<1>1. WorkerInv => WholeDocument
  BY DEF WorkerInv
<1> QED BY <1>1, WorkerInvariant, PTL

(* A document with a plan or a paragraph of the offline provider in it is   *)
(* never returned as one the primary provider wrote (_record_call,          *)
(* _aggregate_provider_status): on every route that asks another provider   *)
(* first, and through resumed checkpoints and cached answers.               *)
THEOREM OfflineShows == WorkerSpec => []OfflineIsVisible
<1>1. WorkerInv => OfflineIsVisible
  BY DEF WorkerInv
<1> QED BY <1>1, WorkerInvariant, PTL

-----------------------------------------------------------------------------
(* The row                                                                 *)

(* A row, or a copy of it, tells what became of the task. *)
Honest(c) ==
  /\ c.status = "succeeded" => Came = "succeeded"
  /\ c.status = "failed" => refused \/ Came \in {"failed", "error"}
  /\ c.status = "cancelled" => c.flag
  /\ c.result # "none" => c.result = Came

(* Who runs the task: an eager one never gets to the result backend, and   *)
(* its dispatcher knows what it returned from the time it has returned.    *)
DispatchOK ==
  /\ dispatch.at \in {"idle", "created"} \/ dispatch.eager => backend = "unsent"
  /\ dispatch.at \in {"started", "applying", "applied", "bound", "persisted"} =>
       dispatch.eager
  /\ dispatch.at \in {"idle", "created", "sent"} => ~dispatch.eager
  /\ dispatch.at \in {"idle", "created", "started", "applying"} =>
       dispatch.got = "none"
  /\ dispatch.at \in {"applied", "bound"} => dispatch.got # "none"

(* What the dispatcher has in its session. *)
DispatchCopy == Honest(dispatch.copy) /\ (dispatch.copy.flag => row.flag)

(* The status a refresh is about to write is what the backend showed. *)
Told(q) ==
  q.at = "refreshing" =>
    /\ q.to # "none"
    /\ q.to = "succeeded" => Came = "succeeded"
    /\ q.to = "failed" => Came \in {"failed", "error"}
    /\ q.to = "cancelled" => IsCancellable(q.copy)

(* A copy is honest and no copy knows of a cancellation the row does not. *)
CopyIsHonest(q) ==
  /\ Honest(q.copy)
  /\ q.copy.flag => row.flag
  /\ Told(q)

(* The inductive invariant of the row: the outcome is there exactly when   *)
(* the task returned one, and nothing is read before the row is created.   *)
JobInv ==
  /\ TaskTypeOK /\ RecordTypeOK
  /\ (backend = "success") = (outcome # "none")
  /\ dispatch.at = "idle" => row = Absent /\ \A r \in Requests : reqs[r] = Idle
  /\ DispatchOK /\ DispatchCopy
  /\ Honest(row)
  /\ \A r \in Requests : CopyIsHonest(reqs[r])

(* What became of the task once is what became of it. *)
LEMMA HonestStays ==
  ASSUME NEW c, Honest(c), Came # "none" => Came' = Came, refused => refused'
  PROVE  /\ c.status = "succeeded" => Came' = "succeeded"
         /\ c.status = "failed" => refused' \/ Came' \in {"failed", "error"}
         /\ c.status = "cancelled" => c.flag
         /\ c.result # "none" => c.result = Came'
  BY DEF Honest

(* The copies stay honest while the task goes on and the row is written. *)
LEMMA CopiesStay ==
  ASSUME JobInv, UNCHANGED reqs, Came # "none" => Came' = Came,
         refused => refused', row.flag => row'.flag
  PROVE  \A r \in Requests : CopyIsHonest(reqs[r])'
<1> SUFFICES ASSUME NEW r \in Requests PROVE CopyIsHonest(reqs[r])'
  OBVIOUS
<1>1. CopyIsHonest(reqs[r])
  BY DEF JobInv
<1>2. Honest(reqs[r].copy)'
  <2>1. Honest(reqs[r].copy)
    BY <1>1 DEF CopyIsHonest
  <2> QED BY <2>1, HonestStays DEF Honest
<1>3. Told(reqs[r])'
  BY <1>1 DEF CopyIsHonest, Told, IsCancellable
<1> QED BY <1>1, <1>2, <1>3 DEF CopyIsHonest

LEMMA JobInit == SystemInit => JobInv
<1> SUFFICES ASSUME SystemInit PROVE JobInv
  OBVIOUS
<1> USE DEF SystemInit, RecordInit, WorkerInit, TaskInit
<1>1. TaskTypeOK /\ ((backend = "success") = (outcome # "none"))
  BY DEF TaskTypeOK
<1>2. RecordTypeOK
  BY DEF RecordTypeOK, Row, Absent, Idle, JobStatus, NotBegun, Dispatch, Trying
<1>3. DispatchCopy /\ Honest(row) /\ DispatchOK
  BY DEF DispatchCopy, DispatchOK, Honest, Absent, NotBegun
<1>4. ASSUME NEW r \in Requests PROVE reqs[r] = Idle /\ CopyIsHonest(reqs[r])
  BY DEF CopyIsHonest, Honest, Told, Idle, Absent
<1> QED BY <1>1, <1>2, <1>3, <1>4 DEF JobInv

(* The task goes on while nothing else changes: what it has returned or    *)
(* raised it never takes back.                                             *)
LEMMA TaskKeepsInv ==
  ASSUME JobInv, [WorkerStep]_taskVars, UNCHANGED recordVars
  PROVE  JobInv'
<1>1. TaskTypeOK' /\ ((backend = "success") = (outcome # "none"))'
  BY DEF JobInv, TaskTypeOK, taskVars, WorkerStep, Report, Return, Raise, Discard,
         Unfinished, Ended, Outcomes
<1>2. /\ backend = "unsent" => backend' = backend
      /\ backend \in {"success", "failure"} => backend' = backend
      /\ outcome # "none" => outcome' = outcome
  BY DEF JobInv, TaskTypeOK, taskVars, WorkerStep, Report, Return, Raise, Discard,
         Unfinished, Ended, Outcomes
<1>3. UNCHANGED <<row, dispatch, reqs, refused>>
  BY DEF recordVars
<1>4. Came # "none" => Came' = Came
  BY <1>1, <1>2, <1>3 DEF JobInv, Came
<1>5. RecordTypeOK' /\ DispatchOK'
  BY <1>2, <1>3 DEF JobInv, RecordTypeOK, DispatchOK
<1>6. Honest(row)' /\ DispatchCopy'
  BY <1>3, <1>4, HonestStays DEF JobInv, DispatchCopy, Honest
<1>7. \A r \in Requests : CopyIsHonest(reqs[r])'
  BY <1>3, <1>4, CopiesStay
<1> QED BY <1>1, <1>3, <1>5, <1>6, <1>7 DEF JobInv

(* One request changes at most its own entry. *)
LEMMA OthersKeep ==
  ASSUME JobInv, NEW r \in Requests, NEW q,
         reqs' = [reqs EXCEPT ![r] = q],
         CopyIsHonest(q)', RecordTypeOK', Honest(row)', dispatch.at # "idle",
         UNCHANGED <<backend, outcome, revoked, dispatch, refused>>,
         row.flag => row'.flag
  PROVE  JobInv'
<1>1. TaskTypeOK' /\ ((backend = "success") = (outcome # "none"))'
  BY DEF JobInv, TaskTypeOK
<1>2. DispatchOK' /\ DispatchCopy' /\ (dispatch.at # "idle")'
  BY DEF JobInv, DispatchOK, DispatchCopy, Honest, Came
<1>3. ASSUME NEW s \in Requests PROVE CopyIsHonest(reqs[s])'
  <2>1. CASE s = r
    BY <2>1 DEF JobInv, RecordTypeOK
  <2>2. CASE s # r
    <3>1. CopyIsHonest(reqs[s]) /\ reqs'[s] = reqs[s]
      BY <2>2 DEF JobInv, RecordTypeOK
    <3> QED BY <3>1 DEF CopyIsHonest, Honest, Told, IsCancellable, Came
  <2> QED BY <2>1, <2>2
<1> QED BY <1>1, <1>2, <1>3 DEF JobInv

(* Writing the columns of a copy that is honest leaves the row honest.     *)
LEMMA UpdateIsHonest ==
  ASSUME RecordTypeOK, NEW copy \in Row, NEW mine \in Row, Honest(row),
         Honest(mine)', Update(copy, mine), copy.flag => mine.flag,
         Came' = Came, refused => refused',
         mine.status = "cancelled" /\ mine.status # copy.status => ~copy.flag
  PROVE  row' \in Row /\ Honest(row)' /\ (row.flag => row'.flag)
<1>1. row \in Row
  BY DEF RecordTypeOK
<1>2. row' \in Row
  BY <1>1 DEF Update, Column, Row
<1>3. row.flag => row'.flag
  BY <1>1 DEF Update, Column, Row
<1>4. Honest(row)'
  <2>1. /\ row'.status = mine.status \/ row'.status = row.status
        /\ row'.result = mine.result \/ row'.result = row.result
    BY DEF Update, Column
  <2>2. row'.status = "cancelled" => row'.flag
    <3>1. CASE mine.status = copy.status
      BY <1>3, <3>1 DEF Update, Column, Honest
    <3>2. CASE mine.status # copy.status
      BY <3>2 DEF Update, Column, Honest, Row
    <3> QED BY <3>1, <3>2
  <2> QED BY <2>1, <2>2 DEF Honest
<1> QED BY <1>2, <1>3, <1>4

(* The session of the dispatch writes something honest of its copy: a      *)
(* status, an outcome or its id, never a cancellation.                     *)
LEMMA SaveKeepsInv ==
  ASSUME JobInv, dispatch.at # "idle", NEW mine \in Row, Update(dispatch.copy, mine),
         dispatch' \in Dispatch, dispatch'.copy = mine, dispatch'.at # "idle",
         DispatchOK', Came' = Came, Honest(mine)', mine.flag = dispatch.copy.flag,
         mine.status # "cancelled" \/ mine.status = dispatch.copy.status,
         UNCHANGED <<backend, outcome, revoked, reqs>>,
         refused => refused', refused' \in BOOLEAN
  PROVE  JobInv'
<1>1. RecordTypeOK /\ dispatch.copy \in Row /\ Honest(row)
  BY DEF JobInv, RecordTypeOK, Dispatch
<1>2. row' \in Row /\ Honest(row)' /\ (row.flag => row'.flag)
  BY <1>1, UpdateIsHonest
<1>3. RecordTypeOK'
  BY <1>1, <1>2 DEF RecordTypeOK
<1>4. DispatchCopy'
  BY <1>2 DEF JobInv, DispatchCopy, Honest
<1>5. \A r \in Requests : CopyIsHonest(reqs[r])'
  BY <1>2, CopiesStay
<1>6. TaskTypeOK' /\ ((backend = "success") = (outcome # "none"))'
  BY DEF JobInv, TaskTypeOK
<1> QED BY <1>2, <1>3, <1>4, <1>5, <1>6 DEF JobInv

(* The dispatch moves on and leaves the row alone. *)
LEMMA MoveKeepsInv ==
  ASSUME JobInv, dispatch.at # "idle", dispatch' \in Dispatch, dispatch'.at # "idle",
         dispatch'.copy \in {dispatch.copy, row}, DispatchOK',
         Came # "none" => Came' = Came, TaskTypeOK',
         ((backend = "success") = (outcome # "none"))',
         UNCHANGED <<row, reqs, refused>>
  PROVE  JobInv'
<1>1. RecordTypeOK' /\ Honest(row)'
  BY HonestStays DEF JobInv, RecordTypeOK, Honest
<1>2. DispatchCopy'
  <2>1. CASE dispatch'.copy = row
    BY <1>1, <2>1 DEF DispatchCopy, Honest
  <2>2. CASE dispatch'.copy = dispatch.copy
    BY <2>2, HonestStays DEF JobInv, DispatchCopy, Honest
  <2> QED BY <2>1, <2>2
<1>3. \A r \in Requests : CopyIsHonest(reqs[r])'
  BY CopiesStay
<1> QED BY <1>1, <1>2, <1>3 DEF JobInv

DispatchStep ==
  \/ Create \/ DispatchNothing \/ DispatchFails \/ DispatchSends \/ Bind
  \/ DispatchDies \/ EagerStep

(* The dispatching request. *)
LEMMA DispatchKeepsInv ==
  ASSUME JobInv, DispatchStep
  PROVE  JobInv'
<1>0. PICK d : d = dispatch
  OBVIOUS
<1>1. /\ d \in Dispatch /\ d.copy \in Row /\ Honest(d.copy) /\ DispatchOK
      /\ TaskTypeOK /\ refused \in BOOLEAN
      /\ (backend = "success") = (outcome # "none")
  BY <1>0 DEF JobInv, RecordTypeOK, Dispatch, DispatchCopy
<1>2. ASSUME NEW to \in Trying \cup {"done", "dead"}
      PROVE  [d EXCEPT !.at = to] \in Dispatch
  BY <1>1 DEF Dispatch
<1>3. CASE Create
  <2>1. /\ UNCHANGED <<backend, outcome, revoked, reqs, refused>>
        /\ d.at = "idle" /\ backend = "unsent"
    BY <1>0, <1>1, <1>3 DEF Create, taskVars, DispatchOK
  <2>2. /\ row' = [Absent EXCEPT !.status = "queued"]
        /\ dispatch' = [d EXCEPT !.at = "created", !.copy = row']
        /\ \A r \in Requests : reqs[r] = Idle
    BY <1>0, <1>3 DEF Create, JobInv
  <2>3. row' \in Row
    BY <2>2 DEF Absent, Row, JobStatus
  <2>4. dispatch' \in Dispatch /\ dispatch'.at = "created" /\ dispatch'.copy = row'
        /\ dispatch'.eager = d.eager /\ dispatch'.got = d.got
    BY <1>1, <2>2, <2>3 DEF Dispatch, Trying
  <2>5. RecordTypeOK'
    BY <2>1, <2>3, <2>4 DEF JobInv, RecordTypeOK
  <2>6. DispatchOK'
    BY <1>0, <1>1, <2>1, <2>4 DEF DispatchOK
  <2>7. DispatchCopy' /\ Honest(row)'
    BY <2>2, <2>4 DEF DispatchCopy, Honest, Absent
  <2>8. ASSUME NEW r \in Requests PROVE CopyIsHonest(reqs[r])'
    BY <2>1, <2>2 DEF CopyIsHonest, Honest, Told, Idle, Absent
  <2>9. TaskTypeOK' /\ ((backend = "success") = (outcome # "none"))'
    BY <1>1, <2>1 DEF TaskTypeOK
  <2> QED BY <2>4, <2>5, <2>6, <2>7, <2>8, <2>9 DEF JobInv
<1>4. CASE DispatchNothing \/ DispatchDies \/ EagerDone
  <2>1. PICK to \in {"done", "dead"} :
          /\ dispatch' = [d EXCEPT !.at = to]
          /\ UNCHANGED <<backend, outcome, revoked, row, reqs, refused>>
          /\ d.at # "idle"
    BY <1>0, <1>4 DEF DispatchNothing, DispatchDies, EagerDone, DispatchAt, taskVars,
                      Trying
  <2>2. /\ dispatch' \in Dispatch /\ dispatch'.at = to /\ dispatch'.copy = d.copy
        /\ dispatch'.eager = d.eager /\ dispatch'.got = d.got
    BY <1>1, <1>2, <2>1 DEF Dispatch
  <2>3. DispatchOK' /\ Came' = Came
    BY <1>0, <1>1, <2>1, <2>2 DEF DispatchOK, Came
  <2>4. TaskTypeOK'
    BY <1>1, <2>1 DEF TaskTypeOK
  <2> QED BY <1>0, <1>1, <2>1, <2>2, <2>3, <2>4, MoveKeepsInv
<1>5. CASE DispatchSends
  <2>1. /\ UNCHANGED <<row, reqs, refused>>
        /\ dispatch' = [d EXCEPT !.at = "sent"] /\ d.at = "created"
        /\ backend = "unsent" /\ backend' = "pending"
        /\ UNCHANGED <<outcome, revoked>>
    BY <1>0, <1>5 DEF DispatchSends, DispatchAt, Send
  <2>2. /\ dispatch' \in Dispatch /\ dispatch'.at = "sent" /\ dispatch'.copy = d.copy
        /\ dispatch'.eager = d.eager /\ dispatch'.got = d.got
    BY <1>1, <1>2, <2>1 DEF Dispatch, Trying
  <2>3. ~d.eager
    BY <1>0, <1>5 DEF JobInv, DispatchOK, DispatchSends
  <2>4. DispatchOK' /\ Came' = Came
    BY <1>0, <2>1, <2>2, <2>3 DEF DispatchOK, Came
  <2>5. TaskTypeOK' /\ ((backend = "success") = (outcome # "none"))'
    BY <1>1, <2>1 DEF TaskTypeOK, Unfinished
  <2> QED BY <1>0, <2>1, <2>2, <2>4, <2>5, MoveKeepsInv
<1>6. CASE \/ EagerApply \/ EagerReports
           \/ \E o \in {"error"} \cup Outcomes : EagerReturns(o)
  <2>1. /\ d.at \in {"started", "applying"}
        /\ UNCHANGED <<backend, outcome, revoked, row, reqs, refused>>
    BY <1>0, <1>6 DEF EagerApply, EagerReports, EagerReturns, taskVars
  <2>2. row \in Row /\ d.eager /\ d.got = "none"
    BY <1>0, <1>1, <2>1 DEF JobInv, RecordTypeOK, DispatchOK
  <2>3. /\ dispatch' \in Dispatch /\ dispatch'.copy \in {d.copy, row}
        /\ dispatch'.eager = d.eager
        /\ \/ dispatch'.at = "applying" /\ dispatch'.got = "none"
           \/ dispatch'.at = "applied" /\ dispatch'.got # "none"
    BY <1>0, <1>1, <1>6, <2>1, <2>2
       DEF EagerApply, EagerReports, EagerReturns, Dispatch, Trying, Outcomes
  <2>4. DispatchOK' /\ Came = "none"
    BY <1>0, <1>1, <2>1, <2>2, <2>3 DEF DispatchOK, Came
  <2>5. TaskTypeOK' /\ ((backend = "success") = (outcome # "none"))'
    BY <1>1, <2>1 DEF TaskTypeOK
  <2> QED BY <1>0, <2>1, <2>3, <2>4, <2>5, MoveKeepsInv
<1>7. CASE DispatchFails
  <2> DEFINE mine == WithStatus(d.copy, "failed")
  <2>1. /\ Update(d.copy, mine) /\ d.at # "idle" /\ refused' = TRUE
        /\ dispatch' = [d EXCEPT !.at = "done", !.copy = mine]
        /\ UNCHANGED <<backend, outcome, revoked, reqs>>
    BY <1>0, <1>7 DEF DispatchFails, Save, taskVars, Trying
  <2>2. mine \in Row /\ mine.status = "failed" /\ mine.flag = d.copy.flag
        /\ mine.result = d.copy.result
    BY <1>1 DEF WithStatus, Row, JobStatus
  <2> HIDE DEF mine
  <2>3. /\ dispatch' \in Dispatch /\ dispatch'.at = "done" /\ dispatch'.copy = mine
        /\ dispatch'.eager = d.eager /\ dispatch'.got = d.got
    BY <1>1, <2>1, <2>2 DEF Dispatch
  <2>4. DispatchOK' /\ Came' = Came
    BY <1>0, <1>1, <2>1, <2>3 DEF DispatchOK, Came
  <2>5. Honest(mine)'
    BY <1>1, <2>1, <2>2, <2>4 DEF Honest
  <2> QED BY <1>0, <2>1, <2>2, <2>3, <2>4, <2>5, SaveKeepsInv
<1>8. CASE EagerStart
  <2> DEFINE mine == WithStatus(d.copy, "running")
  <2>1. /\ Update(d.copy, mine) /\ d.at = "created"
        /\ dispatch' = [d EXCEPT !.at = "started", !.eager = TRUE, !.copy = mine]
        /\ UNCHANGED <<backend, outcome, revoked, reqs, refused>>
    BY <1>0, <1>8 DEF EagerStart, taskVars
  <2>2. mine \in Row /\ mine.status = "running" /\ mine.flag = d.copy.flag
        /\ mine.result = d.copy.result
    BY <1>1 DEF WithStatus, Row, JobStatus
  <2> HIDE DEF mine
  <2>3. /\ dispatch' \in Dispatch /\ dispatch'.at = "started" /\ dispatch'.copy = mine
        /\ dispatch'.eager = TRUE /\ dispatch'.got = d.got
    BY <1>1, <2>1, <2>2 DEF Dispatch, Trying
  <2>4. /\ backend = "unsent" /\ outcome = "none" /\ d.got = "none"
    BY <1>0, <1>1, <2>1 DEF DispatchOK
  <2>5. DispatchOK' /\ Came' = Came
    BY <1>0, <2>1, <2>3, <2>4 DEF DispatchOK, Came
  <2>6. Honest(mine)'
    BY <1>1, <2>1, <2>2, <2>5 DEF Honest
  <2> QED BY <1>0, <1>1, <2>1, <2>2, <2>3, <2>5, <2>6, SaveKeepsInv
<1>9. CASE Bind \/ EagerBind
  <2> DEFINE mine == [d.copy EXCEPT !.bound = TRUE]
  <2>1. PICK to \in {"done", "bound"} :
          /\ Update(d.copy, mine)
          /\ dispatch' = [d EXCEPT !.at = to, !.copy = mine]
          /\ d.at \in {"sent", "applied"} /\ (to = "bound" => d.at = "applied")
          /\ UNCHANGED <<backend, outcome, revoked, reqs, refused>>
    BY <1>0, <1>9 DEF Bind, EagerBind, BindFrom, Save, taskVars
  <2>2. mine \in Row /\ mine.status = d.copy.status /\ mine.flag = d.copy.flag
        /\ mine.result = d.copy.result
    BY <1>1 DEF Row
  <2> HIDE DEF mine
  <2>3. /\ dispatch' \in Dispatch /\ dispatch'.at = to /\ dispatch'.copy = mine
        /\ dispatch'.eager = d.eager /\ dispatch'.got = d.got
    BY <1>1, <2>1, <2>2 DEF Dispatch, Trying
  <2>4. DispatchOK' /\ Came' = Came
    BY <1>0, <1>1, <2>1, <2>3 DEF DispatchOK, Came
  <2>5. Honest(mine)'
    BY <1>1, <2>1, <2>2, <2>4 DEF Honest
  <2> QED BY <1>0, <1>1, <2>1, <2>2, <2>3, <2>4, <2>5, SaveKeepsInv
<1>10. CASE EagerPersist
  <2> DEFINE mine == IF d.got = "error" THEN WithStatus(d.copy, "failed")
                     ELSE WithOutcome(d.copy, d.got)
  <2>1. /\ Update(d.copy, mine) /\ d.at = "bound"
        /\ dispatch' = [d EXCEPT !.at = "persisted", !.copy = mine]
        /\ UNCHANGED <<backend, outcome, revoked, reqs, refused>>
    BY <1>0, <1>10 DEF EagerPersist, Save, taskVars
  <2>2. d.eager /\ Came = d.got /\ d.got \in {"none", "error"} \cup Outcomes
    BY <1>0, <1>1, <2>1 DEF DispatchOK, Came, Dispatch
  <2>3. /\ mine \in Row /\ mine.flag = d.copy.flag
        /\ mine.status \in {"succeeded", "failed"}
        /\ mine.status = "succeeded" => d.got = "succeeded"
        /\ mine.status = "failed" => d.got # "succeeded"
        /\ mine.result \in {d.copy.result, d.got}
    BY <1>1, <2>2 DEF WithStatus, WithOutcome, Persisted, Row, JobStatus, Outcomes
  <2> HIDE DEF mine
  <2>4. /\ dispatch' \in Dispatch /\ dispatch'.at = "persisted"
        /\ dispatch'.copy = mine
        /\ dispatch'.eager = d.eager /\ dispatch'.got = d.got
    BY <1>1, <2>1, <2>3 DEF Dispatch, Trying
  <2>5. DispatchOK' /\ Came' = Came
    BY <1>0, <1>1, <2>1, <2>2, <2>4 DEF DispatchOK, Came
  <2>6. d.got # "none"
    BY <1>0, <2>1 DEF JobInv, DispatchOK
  <2>7. Honest(mine)'
    BY <1>1, <2>1, <2>2, <2>3, <2>5, <2>6 DEF Honest, Outcomes
  <2> QED BY <1>0, <1>1, <2>1, <2>3, <2>4, <2>5, <2>7, SaveKeepsInv
<1> QED BY <1>3, <1>4, <1>5, <1>6, <1>7, <1>8, <1>9, <1>10
        DEF DispatchStep, EagerStep

LEMMA CameRests ==
  ASSUME UNCHANGED <<backend, outcome, dispatch>>
  PROVE  Came' = Came
  BY DEF Came

(* What the backend shows of a task that has ended is what became of it. *)
LEMMA ShownCame ==
  ASSUME JobInv
  PROVE  /\ Shown = "success" => Came = outcome /\ outcome \in Outcomes
         /\ Shown = "failure" => Came = "error"
  BY DEF JobInv, RecordTypeOK, Dispatch, TaskTypeOK, Shown, Came

(* The requests that poll and cancel. *)
LEMMA RequestKeepsInv ==
  ASSUME JobInv, NEW r \in Requests, RequestStep(r)
  PROVE  JobInv'
<1>0. PICK q : q = reqs[r]
  OBVIOUS
<1>1. /\ q \in [at : {"idle", "loaded", "refreshing", "cancelling", "revoking"},
                copy : Row, to : {"none"} \cup JobStatus]
      /\ CopyIsHonest(q) /\ RecordTypeOK /\ TaskTypeOK /\ Honest(row)
  BY <1>0 DEF JobInv, RecordTypeOK
<1>2. dispatch.at # "idle"
  BY DEF JobInv, RequestStep, Load, BeginRefresh, FinishRefresh, Cancel, Revoke,
         RevokeNothing, Refuse, Idle, Absent
<1>3. CASE Load(r)
  <2>1. /\ reqs' = [reqs EXCEPT ![r] = [at |-> "loaded", copy |-> row,
                                       to |-> "none"]]
        /\ UNCHANGED <<backend, outcome, revoked, row, dispatch, refused>>
    BY <1>3 DEF Load, taskVars
  <2>2. CopyIsHonest([at |-> "loaded", copy |-> row, to |-> "none"])'
    BY <1>1, <2>1, CameRests DEF CopyIsHonest, Honest, Told
  <2>3. RecordTypeOK' /\ Honest(row)'
    BY <1>1, <2>1, CameRests DEF RecordTypeOK, Honest
  <2> QED BY <1>2, <2>1, <2>2, <2>3, OthersKeep
<1>4. ASSUME Done(r), row' \in Row, Honest(row)', row.flag => row'.flag,
             UNCHANGED <<backend, outcome, revoked, dispatch, refused>>
      PROVE  JobInv'
  <2>1. CopyIsHonest(Idle)' /\ reqs' = [reqs EXCEPT ![r] = Idle]
    BY <1>4, CameRests DEF CopyIsHonest, Honest, Told, Idle, Absent, Done
  <2>2. Idle \in [at : {"idle"}, copy : Row, to : {"none"}]
    BY DEF Idle, Absent, Row
  <2>3. RecordTypeOK'
    BY <1>1, <1>4, <2>1, <2>2 DEF RecordTypeOK
  <2> QED BY <1>2, <1>4, <2>1, <2>3, OthersKeep
<1>5. ASSUME NEW at \in {"refreshing", "revoking"}, NEW to \in {"none"} \cup JobStatus,
             Request(r, at, to), row' \in Row, Honest(row)',
             row.flag => row'.flag, Told([q EXCEPT !.at = at, !.to = to]),
             UNCHANGED <<backend, outcome, revoked, dispatch, refused>>
      PROVE  JobInv'
  <2>0. PICK new : new = [q EXCEPT !.at = at, !.to = to]
    OBVIOUS
  <2>1. reqs' = [reqs EXCEPT ![r] = new]
    BY <1>0, <1>1, <1>5, <2>0 DEF Request, RecordTypeOK
  <2>2. CopyIsHonest(new)'
    BY <1>1, <1>5, <2>0, CameRests DEF CopyIsHonest, Honest, Told, IsCancellable
  <2>3. RecordTypeOK'
    BY <1>1, <1>5, <2>0, <2>1 DEF RecordTypeOK
  <2> QED BY <1>2, <1>5, <2>1, <2>2, <2>3, OthersKeep
<1>6. ASSUME UNCHANGED row PROVE row' \in Row /\ (row.flag => row'.flag)
  BY <1>1, <1>6 DEF RecordTypeOK
<1>7. ASSUME UNCHANGED <<row, backend, outcome, dispatch, refused>>
      PROVE  Honest(row)'
  BY <1>1, <1>7, CameRests DEF Honest
<1>8. CASE BeginRefresh(r)
  <2> DEFINE to == IF IsFinished(q.copy) \/ ~q.copy.bound THEN "none"
                   ELSE Refreshed(q.copy)
  <2>1. UNCHANGED <<backend, outcome, revoked, row, dispatch, refused>>
    BY <1>8 DEF BeginRefresh, taskVars
  <2>2. to \in {"none"} \cup JobStatus
    BY DEF Refreshed, Persisted, JobStatus
  <2>3. to # "none" => Told([q EXCEPT !.at = "refreshing", !.to = to])
    <3>1. /\ to = "succeeded" => Shown = "success" /\ outcome = "succeeded"
          /\ to = "failed" =>
               Shown = "failure" \/ (Shown = "success" /\ outcome # "succeeded")
          /\ to = "cancelled" => IsCancellable(q.copy)
      BY DEF Refreshed, Persisted
    <3> HIDE DEF to
    <3>2. /\ to = "succeeded" => Came = "succeeded"
          /\ to = "failed" => Came \in {"failed", "error"}
      BY <3>1, ShownCame DEF Outcomes
    <3> QED BY <1>1, <3>1, <3>2 DEF Told, IsCancellable
  <2>4. IF to = "none" THEN Done(r) ELSE Request(r, "refreshing", to)
    BY <1>0, <1>8 DEF BeginRefresh
  <2> HIDE DEF to
  <2> QED BY <1>4, <1>5, <1>6, <1>7, <2>1, <2>2, <2>3, <2>4
<1>9. CASE FinishRefresh(r)
  <2>0. PICK mine : mine = Refresh(q.copy, q.to)
    OBVIOUS
  <2>1. /\ q.at = "refreshing" /\ Update(q.copy, mine) /\ Done(r)
        /\ UNCHANGED <<backend, outcome, revoked, dispatch, refused>>
    BY <1>0, <1>9, <2>0 DEF FinishRefresh, taskVars
  <2>2. PICK o : o = outcome
    OBVIOUS
  <2>3. \/ mine = AsCancelled(q.copy) /\ IsCancellable(q.copy)
        \/ mine = WithOutcome(q.copy, o) /\ Came = o /\ o \in Outcomes
        \/ mine = WithStatus(q.copy, q.to) /\ q.to \in JobStatus \ {"cancelled"}
    <3>1. q.to \in JobStatus /\ (q.to = "cancelled" => IsCancellable(q.copy))
      BY <1>1, <2>1 DEF CopyIsHonest, Told
    <3> QED BY <2>0, <2>2, <3>1, ShownCame DEF Refresh
  <2>4. /\ q.copy \in Row /\ Honest(q.copy) /\ Came' = Came
        /\ q.to = "succeeded" => Came = "succeeded"
        /\ q.to = "failed" => Came \in {"failed", "error"}
    BY <1>1, <2>1, CameRests DEF CopyIsHonest, Told
  <2>5. /\ mine \in Row /\ Honest(mine)' /\ (q.copy.flag => mine.flag)
        /\ mine.status = "cancelled" /\ mine.status # q.copy.status => ~q.copy.flag
    <3>1. CASE mine = AsCancelled(q.copy) /\ IsCancellable(q.copy)
      BY <2>1, <2>4, <3>1 DEF AsCancelled, IsCancellable, Row, JobStatus, Honest
    <3>2. CASE mine = WithOutcome(q.copy, o) /\ Came = o /\ o \in Outcomes
      BY <2>1, <2>4, <3>2 DEF WithOutcome, Persisted, Outcomes, Row, JobStatus, Honest
    <3>3. CASE mine = WithStatus(q.copy, q.to) /\ q.to \in JobStatus \ {"cancelled"}
      BY <2>1, <2>4, <3>3 DEF WithStatus, Row, JobStatus, Honest
    <3> QED BY <2>3, <3>1, <3>2, <3>3
  <2>6. row' \in Row /\ Honest(row)' /\ (row.flag => row'.flag)
    BY <1>1, <2>1, <2>4, <2>5, UpdateIsHonest
  <2> QED BY <1>4, <2>1, <2>6
<1>10. CASE Cancel(r)
  <2>0. PICK mine : mine = AsCancelled(q.copy)
    OBVIOUS
  <2>1. PICK to : to = IF row'.bound THEN "cancelled" ELSE "none"
    OBVIOUS
  <2>2. /\ IsCancellable(q.copy) /\ Update(q.copy, mine)
        /\ Request(r, "revoking", to)
        /\ UNCHANGED <<backend, outcome, revoked, dispatch, refused>>
    BY <1>0, <1>10, <2>0, <2>1 DEF Cancel, taskVars
  <2>3. mine \in Row /\ Honest(mine)'
    BY <1>1, <2>0, <2>2, CameRests
       DEF AsCancelled, Row, JobStatus, CopyIsHonest, Honest
  <2>4. row' \in Row /\ Honest(row)' /\ (row.flag => row'.flag)
    <3>1. q.copy.flag = FALSE /\ mine.flag = TRUE
      BY <1>1, <2>0, <2>2 DEF AsCancelled, IsCancellable, Row
    <3> QED BY <1>1, <2>2, <2>3, <3>1, CameRests, UpdateIsHonest
  <2>5. to \in {"none"} \cup JobStatus
    BY <2>1 DEF JobStatus
  <2>6. Told([q EXCEPT !.at = "revoking", !.to = to])
    BY <1>1 DEF Told
  <2> QED BY <1>5, <2>2, <2>4, <2>5, <2>6
<1>11. CASE Revoke(r)
  <2>1. /\ reqs' = [reqs EXCEPT ![r] = Idle]
        /\ UNCHANGED <<backend, outcome, row, dispatch, refused>>
        /\ revoked' \in BOOLEAN
    BY <1>11 DEF Revoke, RequestRevoke, Done
  <2>2. CopyIsHonest(Idle)' /\ Came' = Came
    BY <2>1, CameRests DEF CopyIsHonest, Honest, Told, Idle, Absent
  <2>3. ASSUME NEW s \in Requests PROVE CopyIsHonest(reqs[s])'
    <3>1. CASE s = r
      BY <1>1, <2>1, <2>2, <3>1 DEF RecordTypeOK
    <3>2. CASE s # r
      BY <1>1, <2>1, <2>2, <3>2 DEF JobInv, RecordTypeOK, CopyIsHonest, Honest, Told,
                                    IsCancellable
    <3> QED BY <3>1, <3>2
  <2>4. RecordTypeOK'
    BY <1>1, <2>1 DEF RecordTypeOK, Idle, Absent, Row
  <2>5. DispatchOK' /\ DispatchCopy'
    BY <2>1, <2>2 DEF JobInv, DispatchOK, DispatchCopy, Honest
  <2> QED BY <1>2, <1>7, <2>1, <2>3, <2>4, <2>5 DEF JobInv, TaskTypeOK
<1>12. CASE RevokeNothing(r) \/ Refuse(r)
  BY <1>4, <1>6, <1>7, <1>12 DEF RevokeNothing, Refuse, taskVars
<1> QED BY <1>3, <1>8, <1>9, <1>10, <1>11, <1>12 DEF RequestStep

(* A step of the API does nothing to the task but ask to revoke it. *)
LEMMA ApiLeavesTask ==
  ASSUME ApiStep
  PROVE  UNCHANGED taskVars \/ RequestRevoke
<1>1. CASE Create \/ DispatchNothing \/ DispatchFails \/ Bind \/ DispatchDies
  BY <1>1 DEF Create, DispatchNothing, DispatchFails, Bind, BindFrom, DispatchDies
<1>2. CASE EagerStep
  BY <1>2 DEF EagerStep, EagerStart, EagerApply, EagerReports, EagerReturns,
              EagerBind, BindFrom, EagerPersist, EagerDone
<1>3. CASE \E r \in Requests : RequestStep(r)
  BY <1>3 DEF RequestStep, Load, BeginRefresh, FinishRefresh, Cancel, Revoke,
              RevokeNothing, Refuse
<1> QED BY <1>1, <1>2, <1>3 DEF ApiStep

(* A step of the system keeps the invariants of the row and the message. *)
LEMMA SystemKeepsInv ==
  JobInv /\ DeliveryInv /\ [SystemNext]_systemVars => JobInv' /\ DeliveryInv'
<1> SUFFICES ASSUME JobInv, DeliveryInv, [SystemNext]_systemVars
             PROVE  JobInv' /\ DeliveryInv'
  OBVIOUS
<1>1. CASE SendJob
  BY <1>1, DispatchKeepsInv
  DEF SendJob, DispatchStep, DispatchSends, Send, DeliveryInv, Unfinished
<1>2. CASE ApiStep
  <2>1. JobInv'
    BY <1>2, DispatchKeepsInv, RequestKeepsInv DEF ApiStep, DispatchStep
  <2>2. UNCHANGED <<backend, delivery, proc>>
    BY <1>2, ApiLeavesTask DEF ApiStep, ownVars, attemptVars, taskVars, RequestRevoke
  <2> QED BY <2>1, <2>2 DEF DeliveryInv
<1>3. CASE Work
  BY <1>3, WorkStep, TaskKeepsInv DEF Work, TaskNext
<1>4. CASE UNCHANGED systemVars
  BY <1>4, TaskKeepsInv DEF systemVars, workerVars, taskVars, attemptVars,
                            DeliveryInv
<1> QED BY <1>1, <1>2, <1>3, <1>4 DEF SystemNext

(* The row is succeeded or failed only when the task was or the dispatcher *)
(* refused it, cancelled only with its flag, and its result is the one of  *)
(* the task (JobService.update_job_status, cancel_job, JobDispatcher): the *)
(* columns of stale copies never add up to an outcome that did not happen. *)
THEOREM HonestRow == SystemSpec => []HonestOutcome
<1>1. JobInv => HonestOutcome
  BY DEF JobInv, Honest, HonestOutcome
<1>2. SystemInit => DeliveryInv
  BY DeliveryInit DEF SystemInit
<1> QED BY <1>1, <1>2, JobInit, SystemKeepsInv, PTL DEF SystemSpec

-----------------------------------------------------------------------------
(* The row and the worker together                                         *)

(* A task that is not finished has a message. *)
UnderWay == backend \in Unfinished => delivery # "none"

LEMMA KeepsUnderWay ==
  ASSUME DeliveryInv, UnderWay, [WorkerNext]_workerVars
  PROVE  UnderWay'
<1> USE DEF DeliveryInv, UnderWay, Unfinished, EndAttempt, Write, WriteResult
<1>1. CASE \E p \in Procs : Start(p) \/ LoseProcess(p)
  BY <1>1 DEF Start, LoseProcess, taskVars
<1>2. CASE Drop \/ Invalid \/ SoftLimit \/ OutOfRetries \/ Finish \/ HardLimit
  BY <1>2 DEF Drop, Invalid, SoftLimit, GiveUp, OutOfRetries, Finish, HardLimit
<1>3. CASE Ask \/ Take \/ Retry
  BY <1>3 DEF Ask, Take, Retry, taskVars
<1>4. CASE \/ \E entry \in cached : Expire(entry)
           \/ \E p \in Providers : CoolDown(p)
           \/ ToldToRevoke \/ UNCHANGED workerVars
  BY <1>4 DEF Expire, CoolDown, ToldToRevoke, RequestRevoke, workerVars, taskVars,
              attemptVars
<1>5. CASE Enqueue
  BY <1>5 DEF Enqueue
<1> QED BY <1>1, <1>2, <1>3, <1>4, <1>5 DEF WorkerNext, WorkerActions

(* A step of the system is one of the worker or leaves the worker alone. *)
LEMMA SystemStepIsWorkerStep ==
  [SystemNext]_systemVars => [WorkerNext]_workerVars
<1> SUFFICES ASSUME [SystemNext]_systemVars PROVE [WorkerNext]_workerVars
  OBVIOUS
<1>1. CASE SendJob
  BY <1>1 DEF SendJob, DispatchSends, Enqueue, WorkerNext
<1>2. CASE ApiStep
  <2>1. UNCHANGED taskVars \/ RequestRevoke
    BY <1>2, ApiLeavesTask
  <2>2. UNCHANGED ownVars
    BY <1>2 DEF ApiStep
  <2>3. CASE UNCHANGED taskVars
    BY <2>2, <2>3 DEF ownVars, workerVars
  <2>4. CASE RequestRevoke
    BY <2>2, <2>4 DEF ownVars, ToldToRevoke, WorkerNext
  <2> QED BY <2>1, <2>3, <2>4
<1>3. CASE Work \/ UNCHANGED systemVars
  BY <1>3 DEF Work, WorkerNext, systemVars
<1> QED BY <1>1, <1>2, <1>3 DEF SystemNext

(* To the worker the rest of the platform sends its task once and may ask   *)
(* to revoke it at any time (JobDispatcher, JobService.cancel_job): what is *)
(* proved of the worker by itself holds of it in the system.                *)
THEOREM SystemImplementsWorker == SystemSpec => WorkerSpec
<1>1. SystemInit => WorkerInit
  BY DEF SystemInit
<1> QED BY <1>1, SystemStepIsWorkerStep, PTL DEF SystemSpec, WorkerSpec

(* Every variable of the system keeps its type; Celery holds a message of  *)
(* the task exactly while the result backend shows it unfinished, and a    *)
(* process of the pool works on it exactly while it is delivered.          *)
THEOREM SystemTypes == SystemSpec => []SystemTypeOK
<1>1. SystemInit => DeliveryInv /\ UnderWay
  BY DeliveryInit DEF SystemInit, WorkerInit, TaskInit, UnderWay, Unfinished
<1>2. DeliveryInv /\ UnderWay /\ [SystemNext]_systemVars => DeliveryInv' /\ UnderWay'
  BY SystemStepIsWorkerStep, WorkerStepIsTaskStep, KeepsUnderWay
<1>3. SystemSpec => [](DeliveryInv /\ WorkerInv)
  BY SystemImplementsWorker, WorkerInvariant
<1>4. JobInv /\ DeliveryInv /\ UnderWay /\ WorkerInv => SystemTypeOK
  <2> SUFFICES ASSUME JobInv, DeliveryInv, UnderWay, WorkerInv PROVE SystemTypeOK
    OBVIOUS
  <2>1. TaskTypeOK /\ RecordTypeOK /\ circuits \in [Providers -> Breaker]
    BY DEF JobInv, WorkerInv, RouterInv
  <2>2. /\ delivery \in {"none", "queued", "running"}
        /\ (delivery # "none") = (backend \in Unfinished)
    BY DEF DeliveryInv, UnderWay
  <2>3. (proc \in Procs) = (delivery = "running")
    BY WorkerAssumption DEF WorkerInv
  <2> QED BY <2>1, <2>2, <2>3 DEF SystemTypeOK
<1> QED BY <1>1, <1>2, <1>3, <1>4, JobInit, SystemKeepsInv, PTL DEF SystemSpec

=============================================================================
