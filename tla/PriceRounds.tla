----------------------------- MODULE PriceRounds ----------------------------
(***************************************************************************)
(* The price rounds of a published evaluation (pricing/service.py).        *)
(* Rounds and quotes are tables of their own; the current quote of a       *)
(* supplier is a field of the evaluation entity, which an upload of the    *)
(* portal reads before it awaits the file service and saves afterwards.    *)
(***************************************************************************)
EXTENDS Naturals, FiniteSets, SequencesExt

CONSTANTS
  Bidders,       \* the suppliers of the evaluation
  Amounts,       \* amounts of a quote, positive
  MultiRound,    \* review_settings.multi_round_pricing
  MaxRounds,     \* review_settings.max_rounds
  MaxTime,       \* how far the clock goes (bound)
  MaxQuotes,     \* quotes saved in all (bound)
  Plans,         \* rounds that may be created: times and eligible suppliers
  Uploads,       \* uploads that can be suspended at a time (bound)
  NoCopy         \* an idle upload

ASSUME PriceAssumption ==
  /\ Amounts \subseteq Nat \ {0}
  /\ MultiRound \in BOOLEAN /\ MaxRounds \in Nat \ {0}
  /\ MultiRound => MaxRounds >= 2      \* validate_evaluation
  /\ MaxTime \in Nat /\ MaxQuotes \in Nat
  /\ Plans \subseteq [opens : 0..MaxTime, deadline : 0..MaxTime,
                     eligible : SUBSET Bidders]

VARIABLES
  market,    \* the entity: its status, and the current quote of each supplier
  clock,
  rounds,    \* the rounds, in the order of their numbers
  quotes,    \* the quotes, in the order they were saved
  held       \* the copy of the entity a suspended upload will save

priceVars == <<market, clock, rounds, quotes, held>>

(* under_way stands for collecting, pending, ai_review and human_review. *)
Stages == {"under_way", "completed", "closed", "cancelled"}
Market == [stage : Stages, current : [Bidders -> {0} \cup Amounts]]
Round == [opens : 0..MaxTime, deadline : 0..MaxTime, closed : BOOLEAN,
          eligible : SUBSET Bidders]
(* late (history): the round had been closed by hand before the quote.     *)
Quote == [round : 1..MaxRounds, who : Bidders, amount : Amounts,
          at : 0..MaxTime, late : BOOLEAN]

PriceTypeOK ==
  /\ market \in Market
  /\ clock \in 0..MaxTime
  /\ rounds \in Seq(Round)
  /\ quotes \in Seq(Quote)
  /\ held \in [Uploads -> Market \cup {NoCopy}]

PriceInit ==
  /\ market = [stage |-> "under_way", current |-> [s \in Bidders |-> 0]]
  /\ clock = 0
  /\ rounds = <<>> /\ quotes = <<>>
  /\ held = [u \in Uploads |-> NoCopy]

-----------------------------------------------------------------------------

StageAfter == [under_way |-> {"completed", "cancelled"},
               completed |-> {"closed"}, closed |-> {}, cancelled |-> {}]

(* The evaluation goes on (see module Evaluation). *)
Advance ==
  /\ \E to \in StageAfter[market.stage] : market' = [market EXCEPT !.stage = to]
  /\ UNCHANGED <<clock, rounds, quotes, held>>

Tick ==
  /\ clock < MaxTime
  /\ clock' = clock + 1
  /\ UNCHANGED <<market, rounds, quotes, held>>

(* create_round numbers the round by the length of the list. *)
CreateRound(plan) ==
  /\ market.stage = "under_way"
  /\ ~MultiRound => rounds = <<>>
  /\ Len(rounds) < MaxRounds
  /\ plan.opens < plan.deadline
  /\ rounds' = Append(rounds, [opens |-> plan.opens, closed |-> FALSE,
                               deadline |-> plan.deadline,
                               eligible |-> plan.eligible])
  /\ UNCHANGED <<market, clock, quotes, held>>

CloseRound(k) ==
  /\ ~rounds[k].closed
  /\ rounds' = [rounds EXCEPT ![k].closed = TRUE]
  /\ UNCHANGED <<market, clock, quotes, held>>

Quoted(s, k) == \E i \in DOMAIN quotes : quotes[i].who = s /\ quotes[i].round = k

(* A round is open from its opening time, whatever its status was, to its   *)
(* deadline or until it is closed by hand.                                  *)
IsOpen(k) ==
  ~rounds[k].closed /\ rounds[k].opens <= clock /\ clock <= rounds[k].deadline

QuoteNow(s, k, amount) ==
  [round |-> k, who |-> s, amount |-> amount, at |-> clock,
   late |-> rounds[k].closed]

(* Mutant of MayQuote: the supplier may quote again. *)
MayQuoteAgain(s, k) ==
  /\ market.stage # "closed"
  /\ IsOpen(k)
  /\ s \in rounds[k].eligible

(* submit_quote refuses a closed evaluation only. *)
MayQuote(s, k) ==
  /\ market.stage # "closed"
  /\ IsOpen(k)
  /\ s \in rounds[k].eligible
  /\ ~Quoted(s, k)

(* Mutant of SubmitQuote: the amount goes to every supplier of the entity. *)
SubmitQuoteForAll(s, k, amount) ==
  /\ MayQuote(s, k)
  /\ Len(quotes) < MaxQuotes
  /\ quotes' = Append(quotes, QuoteNow(s, k, amount))
  /\ market' = [market EXCEPT !.current = [t \in Bidders |-> amount]]
  /\ UNCHANGED <<clock, rounds, held>>

SubmitQuote(s, k, amount) ==
  /\ MayQuote(s, k)
  /\ Len(quotes) < MaxQuotes
  /\ quotes' = Append(quotes, QuoteNow(s, k, amount))
  /\ market' = [market EXCEPT !.current[s] = amount]
  /\ UNCHANGED <<clock, rounds, held>>

(* put_material_file around its await. *)
BeginUpload(u) ==
  /\ held[u] = NoCopy
  /\ market.stage \notin {"closed", "cancelled"}
  /\ held' = [held EXCEPT ![u] = market]
  /\ UNCHANGED <<market, clock, rounds, quotes>>

EndUpload(u) ==
  /\ held[u] # NoCopy
  /\ market' = held[u]
  /\ held' = [held EXCEPT ![u] = NoCopy]
  /\ UNCHANGED <<clock, rounds, quotes>>

PriceNext ==
  \/ Advance \/ Tick
  \/ \E plan \in Plans : CreateRound(plan)
  \/ \E k \in DOMAIN rounds : CloseRound(k)
  \/ \E s \in Bidders, k \in DOMAIN rounds, amount \in Amounts :
       SubmitQuote(s, k, amount)
  \/ \E u \in Uploads : BeginUpload(u) \/ EndUpload(u)

PriceSpec == PriceInit /\ [][PriceNext]_priceVars

-----------------------------------------------------------------------------
(* The comparison of prices                                                *)

QuotesOf(k) == {i \in DOMAIN quotes : quotes[i].round = k}

(* sorted is stable: among equal amounts the earlier quote comes first. *)
Cheaper(i, j) ==
  \/ quotes[i].amount < quotes[j].amount
  \/ quotes[i].amount = quotes[j].amount /\ i < j

RankOf(i) == 1 + Cardinality({j \in QuotesOf(quotes[i].round) : Cheaper(j, i)})

-----------------------------------------------------------------------------
(* Properties                                                              *)

QuotedOnce ==
  \A i, j \in DOMAIN quotes :
    quotes[i].round = quotes[j].round /\ quotes[i].who = quotes[j].who => i = j

QuotedWhileOpen ==
  \A i \in DOMAIN quotes :
    LET r == rounds[quotes[i].round]
    IN /\ quotes[i].who \in r.eligible
       /\ quotes[i].at \in r.opens..r.deadline /\ ~quotes[i].late

RanksCountQuotes ==
  \A k \in DOMAIN rounds :
    /\ {RankOf(i) : i \in QuotesOf(k)} = 1..Cardinality(QuotesOf(k))
    /\ \A i, j \in QuotesOf(k) :
         quotes[i].amount < quotes[j].amount => RankOf(i) < RankOf(j)

(* A supplier has one quote in a round at most, given while the round was   *)
(* open to it, however rounds overlap and the evaluation moves; the ranks   *)
(* of a round are those quotes counted through from the cheapest            *)
(* (submit_quote, comparison).                                              *)
OneQuotePerRound == QuotedOnce /\ QuotedWhileOpen /\ RanksCountQuotes

(* The current quote of a supplier is one it gave: an old copy of the       *)
(* entity may bring back an earlier one, or none, but nobody else's.        *)
CurrentWasQuoted ==
  \A s \in Bidders :
    market.current[s] # 0 =>
      \E i \in DOMAIN quotes : /\ quotes[i].who = s
                               /\ quotes[i].amount = market.current[s]

(* The current quote is the supplier's last one. *)
CurrentIsLast ==
  \A i \in DOMAIN quotes :
    (\A j \in DOMAIN quotes : quotes[j].who = quotes[i].who => j <= i)
      => market.current[quotes[i].who] = quotes[i].amount

=============================================================================
