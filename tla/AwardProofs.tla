----------------------------- MODULE AwardProofs ----------------------------
(***************************************************************************)
(* Proofs about what an evaluation is made from and what its result rests  *)
(* on: its configuration, its quotes and its risks, each for any number of *)
(* suppliers, rounds and suspended requests.                               *)
(***************************************************************************)
EXTENDS EvaluationDraft, PriceRounds, Award, CountingLemmas, SequenceTheorems

-----------------------------------------------------------------------------
(* The configuration                                                       *)

(* A supplier is always asked for what is required by now, and what is     *)
(* published was found valid and is not configured any more.               *)
DraftInv ==
  /\ DraftTypeOK
  /\ \A s \in Entered(draft) : draft.party[s] = draft.required
  /\ draft.status = "absent" => Entered(draft) = {}
  /\ draft.status = "collecting" => IsValid(draft)

LEMMA PartyShape ==
  ASSUME NEW P \in SUBSET Entrants, NEW n \in 0..MaxItems
  PROVE  /\ [s \in P |-> n] \in UNION {[Q -> 0..MaxItems] : Q \in SUBSET Entrants}
         /\ DOMAIN [s \in P |-> n] = P
         /\ \A s \in P : [t \in P |-> n][s] = n
  OBVIOUS

LEMMA EnteredAreSuppliers == draft \in Draft => Entered(draft) \subseteq Entrants
  BY DEF Draft, Entered

LEMMA DraftStart == DraftInit => DraftInv
<1> SUFFICES ASSUME DraftInit PROVE DraftInv
  OBVIOUS
<1> DEFINE none == [s \in {} |-> 0]
           least == CHOOSE n \in Limits : TRUE
<1>1. none \in UNION {[P -> 0..MaxItems] : P \in SUBSET Entrants} /\ DOMAIN none = {}
  <2>1. none \in [{} -> 0..MaxItems] /\ DOMAIN none = {} /\ {} \in SUBSET Entrants
    BY DraftAssumption
  <2> HIDE DEF none
  <2> QED BY <2>1
<1>2. least \in Limits
  BY DraftAssumption
<1>3. Unwritten = [status |-> "absent", assignee |-> Nobody, reviewers |-> {},
                   items |-> 0, required |-> 0, weights |-> "none",
                   multi |-> FALSE, limit |-> least, party |-> none]
  BY DEF Unwritten
<1> HIDE DEF none, least
<1>4. Unwritten \in Draft
  <2>1. /\ "absent" \in {"absent", "draft", "collecting", "cancelled"}
        /\ Nobody \in Staff \cup {Nobody} /\ {} \in SUBSET Staff
        /\ 0 \in 0..MaxItems /\ "none" \in {"none", "wrong", "whole"}
        /\ FALSE \in BOOLEAN
    BY DraftAssumption
  <2> QED BY <1>1, <1>2, <1>3, <2>1 DEF Draft
<1>5. Entered(Unwritten) = {} /\ Unwritten.status = "absent"
  BY <1>1, <1>3 DEF Entered
<1> QED BY <1>4, <1>5 DEF DraftInit, DraftInv, DraftTypeOK

(* A step of the configuration: the entity is whole again, and only what   *)
(* was found valid is published.                                           *)
LEMMA DraftSaved ==
  ASSUME NEW d \in Draft, draft' = d,
         \A s \in DOMAIN d.party : d.party[s] = d.required,
         d.status = "absent" => DOMAIN d.party = {},
         d.status = "collecting" => IsValid(d)
  PROVE  DraftInv'
  BY DEF DraftInv, DraftTypeOK, Entered

LEMMA DraftStep == DraftInv /\ [DraftNext]_draft => DraftInv'
<1> SUFFICES ASSUME DraftInv, [DraftNext]_draft PROVE DraftInv'
  OBVIOUS
<1> USE DraftAssumption
<1>1. /\ draft \in Draft
      /\ \A s \in DOMAIN draft.party : draft.party[s] = draft.required
      /\ draft.status = "absent" => DOMAIN draft.party = {}
      /\ draft.status = "collecting" => IsValid(draft)
  BY DEF DraftInv, DraftTypeOK, Entered
<1>2. CASE UNCHANGED draft
  BY <1>1, <1>2, DraftSaved
<1>3. ASSUME NEW d \in Draft, draft' = d, d.party = draft.party,
             d.required = draft.required, d.status = "draft"
      PROVE  DraftInv'
  BY <1>1, <1>3, DraftSaved
<1>4. CASE CreateDraft
  <2>1. PICK to \in Staff :
          draft' = [draft EXCEPT !.status = "draft", !.assignee = to]
    BY <1>4 DEF CreateDraft
  <2> DEFINE g == [draft EXCEPT !.status = "draft"]
             d == [g EXCEPT !.assignee = to]
  <2>2. draft' = d
    BY <2>1
  <2>3. /\ g \in Draft /\ g.party = draft.party /\ g.required = draft.required
        /\ g.status = "draft"
    BY <1>1 DEF Draft
  <2> HIDE DEF g
  <2>4. /\ d \in Draft /\ d.party = draft.party /\ d.required = draft.required
        /\ d.status = "draft"
    BY <2>3 DEF Draft
  <2> HIDE DEF d
  <2> QED BY <1>3, <2>2, <2>4
<1>5. CASE CreateFromBid
  <2>1. PICK a \in Staff, items \in 0..MaxItems : \E required \in 0..items :
          draft' = [draft EXCEPT !.status = "draft", !.assignee = a,
                                 !.items = items, !.required = required]
    BY <1>5 DEF CreateFromBid
  <2>2. PICK required \in 0..items :
          draft' = [draft EXCEPT !.status = "draft", !.assignee = a,
                                 !.items = items, !.required = required]
    BY <2>1
  <2>3. required \in 0..MaxItems
    OBVIOUS
  <2> DEFINE f == [draft EXCEPT !.status = "draft"]
             g == [f EXCEPT !.assignee = a]
             h == [g EXCEPT !.items = items]
             d == [h EXCEPT !.required = required]
  <2>4. draft' = d
    BY <2>2
  <2>5. f \in Draft /\ f.party = draft.party /\ f.status = "draft"
    BY <1>1 DEF Draft
  <2> HIDE DEF f
  <2>6. g \in Draft /\ g.party = draft.party /\ g.status = "draft"
    BY <2>5 DEF Draft
  <2> HIDE DEF g
  <2>7. h \in Draft /\ h.party = draft.party /\ h.status = "draft"
    BY <2>6 DEF Draft
  <2> HIDE DEF h
  <2>8. d \in Draft /\ d.party = draft.party /\ d.status = "draft"
    BY <2>3, <2>7 DEF Draft
  <2> HIDE DEF d
  <2>9. DOMAIN draft.party = {}
    BY <1>1, <1>5 DEF CreateFromBid
  <2> QED BY <2>4, <2>8, <2>9, DraftSaved
<1>6. CASE Update
  <2>1. PICK to \in Staff : draft' = [draft EXCEPT !.assignee = to]
    BY <1>6 DEF Update
  <2> DEFINE d == [draft EXCEPT !.assignee = to]
  <2>2. draft.status = "draft"
    BY <1>6 DEF Update, Configurable
  <2>3. /\ d \in Draft /\ d.party = draft.party /\ d.required = draft.required
        /\ d.status = "draft"
    BY <1>1, <2>2 DEF Draft
  <2> HIDE DEF d
  <2> QED BY <1>3, <2>1, <2>3 DEF d
<1>7. CASE PutMaterials
  <2>1. PICK items \in 0..MaxItems : \E required \in 0..items :
          draft' = [draft EXCEPT !.items = items, !.required = required,
                                 !.party = [s \in Entered(draft) |-> required]]
    BY <1>7 DEF PutMaterials
  <2>2. PICK required \in 0..items :
          draft' = [draft EXCEPT !.items = items, !.required = required,
                                 !.party = [s \in Entered(draft) |-> required]]
    BY <2>1
  <2>3. required \in 0..MaxItems
    OBVIOUS
  <2> DEFINE p == [s \in Entered(draft) |-> required]
             g == [draft EXCEPT !.items = items]
             h == [g EXCEPT !.required = required]
             d == [h EXCEPT !.party = p]
  <2>4. draft' = d
    BY <2>2
  <2>5. /\ p \in UNION {[Q -> 0..MaxItems] : Q \in SUBSET Entrants}
        /\ \A s \in DOMAIN p : p[s] = required
    BY <1>1, <2>3, PartyShape, EnteredAreSuppliers
  <2> HIDE DEF p
  <2>6. draft.status = "draft"
    BY <1>7 DEF PutMaterials, Configurable
  <2>7. g \in Draft /\ g.status = "draft"
    BY <1>1, <2>6 DEF Draft
  <2> HIDE DEF g
  <2>8. h \in Draft /\ h.status = "draft" /\ h.required = required
    BY <2>3, <2>7 DEF Draft
  <2> HIDE DEF h
  <2>9. /\ d \in Draft /\ d.status = "draft" /\ d.required = required
        /\ d.party = p
    BY <2>5, <2>8 DEF Draft
  <2> HIDE DEF d
  <2> QED BY <2>4, <2>5, <2>9, DraftSaved
<1>8. CASE PutCriteria
  <2>1. PICK weights \in {"none", "wrong", "whole"} :
          draft' = [draft EXCEPT !.weights = weights]
    BY <1>8 DEF PutCriteria
  <2> DEFINE d == [draft EXCEPT !.weights = weights]
  <2>2. draft.status = "draft"
    BY <1>8 DEF PutCriteria, Configurable
  <2>3. /\ d \in Draft /\ d.party = draft.party /\ d.required = draft.required
        /\ d.status = "draft"
    BY <1>1, <2>2 DEF Draft
  <2> HIDE DEF d
  <2> QED BY <1>3, <2>1, <2>3 DEF d
<1>9. CASE PutReviewSettings
  <2>1. PICK multi \in BOOLEAN, limit \in Limits :
          draft' = [draft EXCEPT !.multi = multi, !.limit = limit]
    BY <1>9 DEF PutReviewSettings
  <2> DEFINE g == [draft EXCEPT !.multi = multi]
             d == [g EXCEPT !.limit = limit]
  <2>2. draft.status = "draft" /\ draft' = d
    BY <1>9, <2>1 DEF PutReviewSettings, Configurable
  <2>3. /\ g \in Draft /\ g.party = draft.party /\ g.required = draft.required
        /\ g.status = "draft"
    BY <1>1, <2>2 DEF Draft
  <2> HIDE DEF g
  <2>4. /\ d \in Draft /\ d.party = draft.party /\ d.required = draft.required
        /\ d.status = "draft"
    BY <2>3 DEF Draft
  <2> HIDE DEF d
  <2> QED BY <1>3, <2>2, <2>4
<1>10. CASE PutReviewers
  <2>1. PICK reviewers \in SUBSET Staff : draft' = [draft EXCEPT !.reviewers = reviewers]
    BY <1>10 DEF PutReviewers
  <2> DEFINE d == [draft EXCEPT !.reviewers = reviewers]
  <2>2. draft.status = "draft"
    BY <1>10 DEF PutReviewers, Configurable
  <2>3. /\ d \in Draft /\ d.party = draft.party /\ d.required = draft.required
        /\ d.status = "draft"
    BY <1>1, <2>2 DEF Draft
  <2> HIDE DEF d
  <2> QED BY <1>3, <2>1, <2>3 DEF d
<1>11. CASE PutSuppliers
  <2>1. PICK entered \in SUBSET Entrants :
          draft' = [draft EXCEPT !.party = [s \in entered |-> draft.required]]
    BY <1>11 DEF PutSuppliers
  <2> DEFINE p == [s \in entered |-> draft.required]
             d == [draft EXCEPT !.party = p]
  <2>2. draft.required \in 0..MaxItems
    BY <1>1 DEF Draft
  <2>3. /\ p \in UNION {[Q -> 0..MaxItems] : Q \in SUBSET Entrants}
        /\ \A s \in DOMAIN p : p[s] = draft.required
    BY <2>2, PartyShape
  <2> HIDE DEF p
  <2>4. draft.status = "draft"
    BY <1>11 DEF PutSuppliers, Configurable
  <2>5. /\ d \in Draft /\ d.status = "draft" /\ d.required = draft.required
        /\ d.party = p
    BY <1>1, <2>3, <2>4 DEF Draft
  <2> HIDE DEF d
  <2> QED BY <2>1, <2>3, <2>5, DraftSaved DEF d, p
<1>12. ASSUME NEW status \in {"collecting", "cancelled"},
              draft' = [draft EXCEPT !.status = status],
              draft.status # "absent", status = "collecting" => IsValid(draft)
       PROVE  DraftInv'
  <2> DEFINE d == [draft EXCEPT !.status = status]
  <2>1. /\ d \in Draft /\ d.party = draft.party /\ d.required = draft.required
        /\ d.status = status /\ d.items = draft.items
        /\ d.weights = draft.weights /\ d.reviewers = draft.reviewers
        /\ d.multi = draft.multi /\ d.limit = draft.limit
    BY <1>1 DEF Draft
  <2> HIDE DEF d
  <2>2. IsValid(draft) => IsValid(d)
    BY <2>1 DEF IsValid, Entered
  <2> QED BY <1>1, <1>12, <2>1, <2>2, DraftSaved DEF d
<1>13. CASE PublishDraft \/ CancelDraft
  BY <1>12, <1>13 DEF PublishDraft, CancelDraft, Configurable
<1> QED BY <1>2, <1>4, <1>5, <1>6, <1>7, <1>8, <1>9, <1>10, <1>11, <1>13 DEF DraftNext

(* What suppliers see is a whole configuration, for any number of          *)
(* suppliers, items and people, in whatever order its steps were taken     *)
(* (EvaluationService.put_materials, put_suppliers, publish).              *)
THEOREM PublishedWhole == DraftSpec => [](DraftTypeOK /\ PublishedIsWhole)
<1>1. DraftInv => DraftTypeOK /\ PublishedIsWhole
  <2> SUFFICES ASSUME DraftInv PROVE DraftTypeOK /\ PublishedIsWhole
    OBVIOUS
  <2>1. draft.limit \in Nat
    BY DraftAssumption DEF DraftInv, DraftTypeOK, Draft
  <2> QED BY <2>1 DEF DraftInv, IsValid, PublishedIsWhole
<1> QED BY <1>1, DraftStart, DraftStep, PTL DEF DraftSpec

-----------------------------------------------------------------------------
(* The price rounds                                                        *)

(* Every current quote of a copy of the entity was given by its supplier.  *)
CopyWasQuoted(copy) ==
  \A s \in Bidders :
    copy.current[s] # 0 =>
      \E i \in DOMAIN quotes : /\ quotes[i].who = s
                               /\ quotes[i].amount = copy.current[s]

PriceInv ==
  /\ PriceTypeOK /\ QuotedOnce /\ QuotedWhileOpen
  /\ Len(rounds) <= MaxRounds
  /\ \A i \in DOMAIN quotes : quotes[i].round \in DOMAIN rounds
  /\ CopyWasQuoted(market)
  /\ \A u \in Uploads : held[u] # NoCopy => CopyWasQuoted(held[u])

LEMMA PriceStart == PriceInit => PriceInv
  BY PriceAssumption DEF PriceInit, PriceInv, PriceTypeOK, Market, Stages, QuotedOnce,
                         QuotedWhileOpen, CopyWasQuoted

(* Only the entity moves, to a status or to a copy of its own. *)
LEMMA MarketStep ==
  ASSUME PriceInv, NEW m \in Market, market' = m, CopyWasQuoted(m),
         clock' \in 0..MaxTime, UNCHANGED <<rounds, quotes>>,
         held' \in [Uploads -> Market \cup {NoCopy}],
         \A u \in Uploads : held'[u] \in {held[u], market, NoCopy}
  PROVE  PriceInv'
<1>1. PriceTypeOK' /\ QuotedOnce' /\ QuotedWhileOpen' /\ Len(rounds') <= MaxRounds
  BY DEF PriceInv, PriceTypeOK, QuotedOnce, QuotedWhileOpen
<1>2. \A i \in DOMAIN quotes' : quotes'[i].round \in DOMAIN rounds'
  BY DEF PriceInv
<1>3. CopyWasQuoted(market)'
  BY DEF CopyWasQuoted
<1>4. ASSUME NEW u \in Uploads, held'[u] # NoCopy PROVE CopyWasQuoted(held[u])'
  <2>1. CASE held'[u] = held[u]
    BY <1>4, <2>1 DEF PriceInv, CopyWasQuoted
  <2>2. CASE held'[u] = market
    BY <2>2 DEF PriceInv, CopyWasQuoted
  <2> QED BY <1>4, <2>1, <2>2
<1> QED BY <1>1, <1>2, <1>3, <1>4 DEF PriceInv

(* Rounds are added and closed; those there are keep their window and      *)
(* whom they are open to.                                                  *)
LEMMA RoundsStep ==
  ASSUME PriceInv, rounds' \in Seq(Round), Len(rounds') <= MaxRounds,
         \A k \in DOMAIN rounds :
           /\ k \in DOMAIN rounds'
           /\ rounds'[k].opens = rounds[k].opens
           /\ rounds'[k].deadline = rounds[k].deadline
           /\ rounds'[k].eligible = rounds[k].eligible,
         UNCHANGED <<market, clock, quotes, held>>
  PROVE  PriceInv'
<1>1. PriceTypeOK' /\ QuotedOnce' /\ Len(rounds') <= MaxRounds
  BY DEF PriceInv, PriceTypeOK, QuotedOnce
<1>2. /\ QuotedWhileOpen'
      /\ \A i \in DOMAIN quotes' : quotes'[i].round \in DOMAIN rounds'
  BY DEF PriceInv, QuotedWhileOpen
<1>3. CopyWasQuoted(market)'
      /\ \A u \in Uploads : held'[u] # NoCopy => CopyWasQuoted(held[u])'
  BY DEF PriceInv, CopyWasQuoted
<1> QED BY <1>1, <1>2, <1>3 DEF PriceInv

LEMMA QuoteStep ==
  ASSUME PriceInv, NEW s \in Bidders, NEW k \in DOMAIN rounds, NEW amount \in Amounts,
         SubmitQuote(s, k, amount)
  PROVE  PriceInv'
<1> DEFINE q == QuoteNow(s, k, amount)
<1>1. /\ market \in Market /\ clock \in 0..MaxTime /\ rounds \in Seq(Round)
      /\ quotes \in Seq(Quote) /\ Len(rounds) <= MaxRounds
      /\ MaxRounds \in Nat /\ 0 \notin Amounts
  BY PriceAssumption DEF PriceInv, PriceTypeOK
<1>2. /\ quotes' = Append(quotes, q) /\ MayQuote(s, k)
      /\ market' = [market EXCEPT !.current[s] = amount]
      /\ UNCHANGED <<clock, rounds, held>>
  BY DEF SubmitQuote
<1>3. k \in 1..MaxRounds /\ ~rounds[k].closed
  BY <1>1, <1>2 DEF MayQuote, IsOpen
<1>4. /\ q \in Quote /\ q.round = k /\ q.who = s /\ q.amount = amount
      /\ q.at = clock /\ ~q.late
  <2>1. rounds[k] \in Round
    BY <1>1
  <2>2. rounds[k].closed \in BOOLEAN
    BY <2>1 DEF Round
  <2> QED BY <1>1, <1>3, <2>2 DEF QuoteNow, Quote
<1> HIDE DEF q
<1>5. /\ quotes' \in Seq(Quote) /\ DOMAIN quotes' = 1..(Len(quotes) + 1)
      /\ DOMAIN quotes = 1..Len(quotes) /\ Len(quotes) \in Nat
      /\ \A i \in DOMAIN quotes : quotes'[i] = quotes[i]
      /\ quotes'[Len(quotes) + 1] = q
  BY <1>1, <1>2, <1>4
<1>6. market' \in Market
  BY <1>1, <1>2 DEF Market
<1>7. PriceTypeOK'
  BY <1>2, <1>5, <1>6 DEF PriceInv, PriceTypeOK
<1>8. QuotedOnce'
  <2>1. \A i \in DOMAIN quotes : ~(quotes[i].who = s /\ quotes[i].round = k)
    BY <1>2 DEF MayQuote, Quoted
  <2> QED BY <1>4, <1>5, <2>1 DEF PriceInv, QuotedOnce
<1>9. QuotedWhileOpen'
  <2>1. /\ s \in rounds[k].eligible
        /\ rounds[k].opens <= clock /\ clock <= rounds[k].deadline
    BY <1>2 DEF MayQuote, IsOpen
  <2>2. rounds[k].opens \in 0..MaxTime /\ rounds[k].deadline \in 0..MaxTime
    <3>1. rounds[k] \in Round
      BY <1>1
    <3> QED BY <3>1 DEF Round
  <2>3. clock \in rounds[k].opens..rounds[k].deadline
    BY <1>1, <2>1, <2>2, PriceAssumption
  <2> QED BY <1>2, <1>4, <1>5, <2>1, <2>3 DEF PriceInv, QuotedWhileOpen
<1>10. \A i \in DOMAIN quotes' : quotes'[i].round \in DOMAIN rounds'
  BY <1>2, <1>4, <1>5 DEF PriceInv
<1>11. CopyWasQuoted(market)'
  <2>1. \A t \in Bidders : market'.current[t] = IF t = s THEN amount
                                                ELSE market.current[t]
    BY <1>1, <1>2 DEF Market
  <2>2. \E i \in DOMAIN quotes' : quotes'[i].who = s /\ quotes'[i].amount = amount
    BY <1>4, <1>5
  <2>3. ASSUME NEW t \in Bidders, market'.current[t] # 0, t # s
        PROVE  \E i \in DOMAIN quotes' : /\ quotes'[i].who = t
                                         /\ quotes'[i].amount = market'.current[t]
    BY <1>5, <2>1, <2>3 DEF PriceInv, CopyWasQuoted
  <2> QED BY <2>1, <2>2, <2>3 DEF CopyWasQuoted
<1>12. ASSUME NEW u \in Uploads, held'[u] # NoCopy PROVE CopyWasQuoted(held[u])'
  BY <1>2, <1>5, <1>12 DEF PriceInv, CopyWasQuoted
<1> QED BY <1>1, <1>2, <1>7, <1>8, <1>9, <1>10, <1>11, <1>12 DEF PriceInv

LEMMA PriceStep == PriceInv /\ [PriceNext]_priceVars => PriceInv'
<1> SUFFICES ASSUME PriceInv, [PriceNext]_priceVars PROVE PriceInv'
  OBVIOUS
<1>1. /\ market \in Market /\ clock \in 0..MaxTime /\ rounds \in Seq(Round)
      /\ held \in [Uploads -> Market \cup {NoCopy}] /\ CopyWasQuoted(market)
      /\ Len(rounds) <= MaxRounds /\ MaxTime \in Nat /\ MaxRounds \in Nat
  BY PriceAssumption DEF PriceInv, PriceTypeOK
<1>2. \A u \in Uploads : held[u] \in {held[u], market, NoCopy}
  OBVIOUS
<1>3. CASE Advance
  <2>1. PICK to \in StageAfter[market.stage] : market' = [market EXCEPT !.stage = to]
    BY <1>3 DEF Advance
  <2> DEFINE m == [market EXCEPT !.stage = to]
  <2>2. to \in Stages
    BY <1>1 DEF StageAfter, Market, Stages
  <2>3. m \in Market /\ m.current = market.current
    BY <1>1, <2>2 DEF Market
  <2> HIDE DEF m
  <2>4. CopyWasQuoted(m)
    BY <1>1, <2>3 DEF CopyWasQuoted
  <2> QED BY <1>1, <1>2, <1>3, <2>1, <2>3, <2>4, MarketStep DEF Advance, m
<1>4. CASE Tick
  <2>1. clock' \in 0..MaxTime
    BY <1>1, <1>4 DEF Tick
  <2> QED BY <1>1, <1>2, <1>4, <2>1, MarketStep DEF Tick
<1>5. ASSUME NEW plan \in Plans, CreateRound(plan) PROVE PriceInv'
  <2> DEFINE k == [opens |-> plan.opens, closed |-> FALSE, deadline |-> plan.deadline,
                   eligible |-> plan.eligible]
  <2>1. k \in Round
    BY PriceAssumption DEF Round
  <2>2. /\ rounds' = Append(rounds, k) /\ Len(rounds) < MaxRounds
        /\ UNCHANGED <<market, clock, quotes, held>>
    BY <1>5 DEF CreateRound
  <2> HIDE DEF k
  <2>3. /\ rounds' \in Seq(Round) /\ Len(rounds') <= MaxRounds
        /\ \A n \in DOMAIN rounds : n \in DOMAIN rounds' /\ rounds'[n] = rounds[n]
    BY <1>1, <2>1, <2>2
  <2> QED BY <2>2, <2>3, RoundsStep
<1>6. ASSUME NEW k \in DOMAIN rounds, CloseRound(k) PROVE PriceInv'
  <2> DEFINE r == [rounds[k] EXCEPT !.closed = TRUE]
  <2>1. rounds' = [rounds EXCEPT ![k] = r] /\ UNCHANGED <<market, clock, quotes, held>>
    BY <1>1, <1>6 DEF CloseRound
  <2>2. rounds[k] \in Round
    BY <1>1
  <2>3. /\ r \in Round /\ r.opens = rounds[k].opens
        /\ r.deadline = rounds[k].deadline /\ r.eligible = rounds[k].eligible
    BY <2>2 DEF Round
  <2> HIDE DEF r
  <2>4. /\ rounds' \in Seq(Round) /\ Len(rounds') = Len(rounds)
        /\ DOMAIN rounds' = DOMAIN rounds
        /\ \A n \in DOMAIN rounds : rounds'[n] = IF n = k THEN r ELSE rounds[n]
    BY <1>1, <2>1, <2>3
  <2> QED BY <1>1, <2>1, <2>3, <2>4, RoundsStep
<1>7. ASSUME NEW u \in Uploads, BeginUpload(u) PROVE PriceInv'
  <2>1. /\ held' \in [Uploads -> Market \cup {NoCopy}]
        /\ \A v \in Uploads : held'[v] \in {held[v], market, NoCopy}
    BY <1>1, <1>7 DEF BeginUpload
  <2> QED BY <1>1, <1>7, <2>1, MarketStep DEF BeginUpload
<1>8. ASSUME NEW u \in Uploads, EndUpload(u) PROVE PriceInv'
  <2>1. /\ held' \in [Uploads -> Market \cup {NoCopy}]
        /\ \A v \in Uploads : held'[v] \in {held[v], market, NoCopy}
        /\ held[u] \in Market /\ CopyWasQuoted(held[u]) /\ market' = held[u]
    BY <1>1, <1>8 DEF EndUpload, PriceInv
  <2>2. PICK m \in Market : m = held[u]
    BY <2>1
  <2>3. CopyWasQuoted(m)
    BY <2>1, <2>2
  <2> QED BY <1>1, <1>8, <2>1, <2>2, <2>3, MarketStep DEF EndUpload
<1>9. CASE UNCHANGED priceVars
  BY <1>1, <1>2, <1>9, MarketStep DEF priceVars
<1> QED BY <1>3, <1>4, <1>5, <1>6, <1>7, <1>8, <1>9, QuoteStep DEF PriceNext

(* A supplier quotes once in a round and while it is open to it, and the   *)
(* current quote the entity shows is one it gave, for any number of        *)
(* suppliers, rounds and suspended uploads that save an old copy           *)
(* (PricingService.submit_quote, PortalService.put_material_file).         *)
THEOREM QuotesCorrect ==
  PriceSpec => [](PriceTypeOK /\ QuotedOnce /\ QuotedWhileOpen /\ CurrentWasQuoted)
<1>1. PriceInv => PriceTypeOK /\ QuotedOnce /\ QuotedWhileOpen /\ CurrentWasQuoted
  BY DEF PriceInv, CopyWasQuoted, CurrentWasQuoted
<1> QED BY <1>1, PriceStart, PriceStep, PTL DEF PriceSpec

(* The ranks count the quotes of a round through, from the cheapest. *)
LEMMA QuotesAreRanked == PriceTypeOK => RanksCountQuotes
<1> SUFFICES ASSUME PriceTypeOK, NEW k \in DOMAIN rounds
             PROVE  /\ {RankOf(i) : i \in QuotesOf(k)} = 1..Cardinality(QuotesOf(k))
                    /\ \A i, j \in QuotesOf(k) :
                         quotes[i].amount < quotes[j].amount => RankOf(i) < RankOf(j)
  BY DEF RanksCountQuotes
<1> DEFINE D == QuotesOf(k)
           R == {x \in D \X D : Cheaper(x[1], x[2])}
<1>1. /\ D \in SUBSET (1..Len(quotes)) /\ Len(quotes) \in Nat
      /\ \A i \in D : i \in Nat /\ quotes[i].amount \in Nat
  <2>1. quotes \in Seq(Quote)
    BY DEF PriceTypeOK
  <2>2. DOMAIN quotes = 1..Len(quotes) /\ Len(quotes) \in Nat
    BY <2>1
  <2>3. \A i \in DOMAIN quotes : quotes[i] \in Quote
    BY <2>1
  <2>4. \A q \in Quote : q.amount \in Nat
    BY PriceAssumption DEF Quote
  <2> QED BY <2>2, <2>3, <2>4 DEF QuotesOf
<1>2. IsFiniteSet(D)
  <2>1. IsFiniteSet(1..Len(quotes))
    BY <1>1, FS_Interval
  <2> HIDE DEF D
  <2> QED BY <1>1, <2>1, FS_Subset
<1>3. \A i, j \in D : <<i, j>> \in R <=> Cheaper(i, j)
  OBVIOUS
<1>4. Orders(R, D)
  <2> HIDE DEF D, R
  <2>1. \A i, j \in D : <<i, j>> \in R <=>
          \/ quotes[i].amount < quotes[j].amount
          \/ quotes[i].amount = quotes[j].amount /\ i < j
    BY <1>3 DEF Cheaper
  <2>2. \A x \in D : <<x, x>> \notin R
    BY <1>1, <2>1
  <2>3. ASSUME NEW x \in D, NEW y \in D, NEW z \in D,
               <<x, y>> \in R, <<y, z>> \in R
        PROVE  <<x, z>> \in R
    BY <1>1, <2>1, <2>3
  <2>4. ASSUME NEW x \in D, NEW y \in D
        PROVE  x = y \/ <<x, y>> \in R \/ <<y, x>> \in R
    BY <1>1, <2>1
  <2> QED BY <2>2, <2>3, <2>4 DEF Orders
<1>5. \A i \in D : RankOf(i) = 1 + Cardinality(Below(R, D, i))
  <2> SUFFICES ASSUME NEW i \in D
               PROVE  RankOf(i) = 1 + Cardinality(Below(R, D, i))
    OBVIOUS
  <2>1. quotes[i].round = k
    BY DEF QuotesOf
  <2>2. {j \in QuotesOf(quotes[i].round) : Cheaper(j, i)} = Below(R, D, i)
    BY <1>3, <2>1 DEF Below
  <2> QED BY <2>2 DEF RankOf
<1> DEFINE rank == [i \in D |-> 1 + Cardinality(Below(R, D, i))]
           n == Cardinality(D)
<1> HIDE DEF D, R
<1>6. /\ rank \in Bijection(D, 1..n)
      /\ \A i \in D : 1 + Cardinality(Below(R, D, i)) \in 1..n
      /\ \A i, j \in D :
           <<i, j>> \in R => Cardinality(Below(R, D, i)) < Cardinality(Below(R, D, j))
  BY <1>2, <1>4, Ranks
<1>7. {RankOf(i) : i \in D} = 1..n
  <2>1. \A m \in 1..n : \E i \in D : rank[i] = m
    <3> HIDE DEF rank
    <3> QED BY <1>6 DEF Bijection, Surjection
  <2> HIDE DEF n
  <2> QED BY <1>5, <1>6, <2>1
<1>8. ASSUME NEW i \in D, NEW j \in D, quotes[i].amount < quotes[j].amount
      PROVE  RankOf(i) < RankOf(j)
  <2>1. <<i, j>> \in R
    BY <1>3, <1>8 DEF Cheaper
  <2>2. \A x \in D : Cardinality(Below(R, D, x)) \in Nat
    <3> SUFFICES ASSUME NEW x \in D PROVE Cardinality(Below(R, D, x)) \in Nat
      OBVIOUS
    <3>1. Below(R, D, x) \in SUBSET D
      BY DEF Below
    <3>2. IsFiniteSet(Below(R, D, x))
      BY <1>2, <3>1, FS_Subset
    <3> QED BY <3>2, FS_CardinalityType
  <2>3. Cardinality(Below(R, D, i)) < Cardinality(Below(R, D, j))
    BY <1>6, <2>1
  <2> QED BY <1>5, <2>2, <2>3
<1> QED BY <1>7, <1>8 DEF D, n

(* A supplier has one quote in a round at most, given while it was open to *)
(* it, and the ranks of a round count its quotes through from the          *)
(* cheapest, however many suppliers quote in however many rounds           *)
(* (PricingService.submit_quote, comparison).                              *)
THEOREM QuotesRanked == PriceSpec => []OneQuotePerRound
<1>1. PriceInv => OneQuotePerRound
  BY QuotesAreRanked DEF PriceInv, OneQuotePerRound
<1> QED BY <1>1, PriceStart, PriceStep, PTL DEF PriceSpec

-----------------------------------------------------------------------------
(* The risks                                                               *)

(* No two placeholders are for one supplier. *)
PlaceholdersDiffer ==
  \A i, j \in DOMAIN risks :
    risks[i].placeholder /\ risks[j].placeholder /\ risks[i].who = risks[j].who
      => i = j

RiskInv == risks \in Seq(Risk) /\ PlaceholdersDiffer

LEMMA RiskStart == AwardInit => RiskInv
  BY DEF AwardInit, RiskInv, PlaceholdersDiffer

LEMMA RiskStep == RiskInv /\ [AwardNext]_awardVars => RiskInv'
<1> SUFFICES ASSUME RiskInv, [AwardNext]_awardVars PROVE RiskInv'
  OBVIOUS
<1>1. risks \in Seq(Risk) /\ PlaceholdersDiffer
  BY DEF RiskInv
<1>2. CASE UNCHANGED risks
  BY <1>1, <1>2 DEF RiskInv, PlaceholdersDiffer
<1>3. ASSUME NEW i \in DOMAIN risks, NEW decision \in {"passed", "rejected"},
             DecideRisk(i, decision)
      PROVE  RiskInv'
  <2> DEFINE r == [risks[i] EXCEPT !.decision = decision]
  <2>1. risks' = [risks EXCEPT ![i] = r]
    BY <1>1, <1>3 DEF DecideRisk
  <2>2. risks[i] \in Risk
    BY <1>1
  <2>3. r \in Risk /\ r.who = risks[i].who /\ r.placeholder = risks[i].placeholder
    BY <2>2 DEF Risk
  <2> HIDE DEF r
  <2>4. /\ risks' \in Seq(Risk) /\ DOMAIN risks' = DOMAIN risks
        /\ \A j \in DOMAIN risks : risks'[j].who = risks[j].who
                                   /\ risks'[j].placeholder = risks[j].placeholder
    BY <1>1, <2>1, <2>3
  <2> QED BY <1>1, <2>4 DEF RiskInv, PlaceholdersDiffer
<1>4. ASSUME NEW d \in Desks, EndRiskCheck(d) PROVE RiskInv'
  <2>1. PICK n \in 0..(MaxRisks - Len(risks)) : \E who \in [1..n -> Party] :
          risks' = risks \o [i \in 1..n |-> Finding(who[i])]
    BY <1>4 DEF EndRiskCheck
  <2>2. PICK who \in [1..n -> Party] :
          risks' = risks \o [i \in 1..n |-> Finding(who[i])]
    BY <2>1
  <2> DEFINE found == [i \in 1..n |-> Finding(who[i])]
  <2>3. n \in Nat
    BY <1>1, AwardAssumption
  <2>4. \A x \in Party : Finding(x) \in Risk /\ ~Finding(x).placeholder
    BY DEF Finding, Risk
  <2>5. /\ found \in [1..n -> Risk]
        /\ \A i \in 1..n : ~found[i].placeholder
    BY <2>4
  <2> HIDE DEF found
  <2>6. found \in Seq(Risk) /\ Len(found) = n /\ DOMAIN found = 1..n
    BY <2>3, <2>5
  <2>7. risks' = risks \o found
    BY <2>2 DEF found
  <2>8. /\ risks' \in Seq(Risk)
        /\ \A i \in DOMAIN risks : i \in DOMAIN risks' /\ risks'[i] = risks[i]
        /\ \A i \in DOMAIN risks' : i \notin DOMAIN risks =>
             risks'[i] = found[i - Len(risks)] /\ i - Len(risks) \in 1..n
    <3>1. risks' \in Seq(Risk) /\ Len(risks') = Len(risks) + n
      BY <1>1, <2>6, <2>7, ConcatProperties
    <3>2. /\ DOMAIN risks = 1..Len(risks) /\ Len(risks) \in Nat
          /\ DOMAIN risks' = 1..(Len(risks) + n)
      BY <1>1, <3>1
    <3>3. \A i \in 1..(Len(risks) + n) :
            risks'[i] = IF i <= Len(risks) THEN risks[i] ELSE found[i - Len(risks)]
      BY <1>1, <2>3, <2>6, <2>7
    <3> QED BY <2>3, <3>1, <3>2, <3>3
  <2>9. \A i \in DOMAIN risks' : i \notin DOMAIN risks => ~risks'[i].placeholder
    BY <2>5, <2>8
  <2> QED BY <1>1, <2>8, <2>9 DEF RiskInv, PlaceholdersDiffer
<1>5. ASSUME NEW d \in Desks, EndQueuedRiskCheck(d) PROVE RiskInv'
  <2> DEFINE Held(x) == [Finding(x) EXCEPT !.placeholder = TRUE]
             new == [i \in DOMAIN Tenderers |-> Held(Tenderers[i])]
  <2>1. risks' = risks \/ risks' = new
    BY <1>5 DEF EndQueuedRiskCheck
  <2>2. \A x \in Party : Held(x) \in Risk /\ Held(x).who = x
    BY DEF Finding, Risk
  <2> HIDE DEF Held
  <2>3. /\ Tenderers \in Seq(Party) /\ DOMAIN Tenderers = 1..Len(Tenderers)
        /\ Len(Tenderers) \in Nat
        /\ \A i, j \in DOMAIN Tenderers : Tenderers[i] = Tenderers[j] => i = j
    BY AwardAssumption DEF Party, IsInjective
  <2>4. new \in Seq(Risk) /\ DOMAIN new = DOMAIN Tenderers
        /\ \A i \in DOMAIN new : new[i].who = Tenderers[i]
    BY <2>2, <2>3
  <2> HIDE DEF new
  <2>5. CASE risks' = new
    BY <2>3, <2>4, <2>5 DEF RiskInv, PlaceholdersDiffer
  <2> QED BY <1>2, <2>1, <2>5
<1>6. CASE \/ \E s \in Party, c \in Criteria, points \in Scores : Adjust(s, c, points)
           \/ \E d \in Desks :
                \/ \E task \in {"risks", "report"}, formats \in SUBSET Formats :
                     Suspend(d, task, formats)
                \/ EndReport(d) \/ Refused(d)
           \/ UNCHANGED awardVars
  <2>1. UNCHANGED risks
    BY <1>6 DEF Adjust, Suspend, EndReport, Refused, awardVars
  <2> QED BY <1>2, <2>1
<1> QED BY <1>3, <1>4, <1>5, <1>6 DEF AwardNext

(* However many risk checks overlap, each supplier has one placeholder at  *)
(* most, for any number of suppliers (ScoringService.start_risk_check).    *)
THEOREM PlaceholdersUnique == AwardSpec => []OnePlaceholder
<1>1. RiskInv => OnePlaceholder
  <2> SUFFICES ASSUME RiskInv, NEW s \in Party
               PROVE  Cardinality({i \in DOMAIN risks :
                                     risks[i].placeholder /\ risks[i].who = s}) <= 1
    BY DEF OnePlaceholder
  <2> DEFINE S == {i \in DOMAIN risks : risks[i].placeholder /\ risks[i].who = s}
  <2>1. \A i, j \in S : i = j
    BY DEF RiskInv, PlaceholdersDiffer
  <2> HIDE DEF S
  <2>2. Cardinality(S) <= 1
    <3>1. CASE S = {}
      BY <3>1, FS_EmptySet
    <3>2. CASE S # {}
      <4>1. PICK i \in S : S = {i}
        BY <2>1, <3>2
      <4>2. Cardinality(S) = 1
        BY <4>1, FS_Singleton
      <4> QED BY <4>2
    <3> QED BY <3>1, <3>2
  <2> QED BY <2>2 DEF S
<1> QED BY <1>1, RiskStart, RiskStep, PTL DEF AwardSpec

-----------------------------------------------------------------------------
(* The ranking                                                             *)

SheetOK == sheet \in [Party -> [Criteria -> Scores]]

LEMMA RoundedWithin ==
  ASSUME NEW n \in Nat
  PROVE  /\ Rounded(n, 10000) \in Nat
         /\ n - 5000 <= 10000 * Rounded(n, 10000)
         /\ 10000 * Rounded(n, 10000) <= n + 5000
<1> DEFINE q == (2 * n + 10000) \div 20000
<1>1. q \in Nat /\ 20000 * q <= 2 * n + 10000 /\ 2 * n + 10000 < 20000 * q + 20000
  OBVIOUS
<1>2. Rounded(n, 10000) = q
  BY DEF Rounded
<1> HIDE DEF q
<1> QED BY <1>1, <1>2

LEMMA ListedParty ==
  /\ Tenderers \in Seq(Party) /\ Len(Tenderers) \in Nat
  /\ DOMAIN Tenderers = 1..Len(Tenderers)
  /\ \A i \in DOMAIN Tenderers : Tenderers[i] \in Party
  /\ Party = {Tenderers[i] : i \in DOMAIN Tenderers}
  BY AwardAssumption DEF Party, Range

(* A total is the exact one but for half a hundredth for each criterion.   *)
LEMMA TotalWithin ==
  ASSUME SheetOK, NEW s \in Party
  PROVE  /\ Total(s) \in Int /\ Exact(s) \in Int
         /\ Exact(s) - 5000 * Cardinality(Criteria) <= 10000 * Total(s)
         /\ 10000 * Total(s) <= Exact(s) + 5000 * Cardinality(Criteria)
<1> DEFINE f == [c \in Criteria |-> sheet[s][c] * Weight[c]]
           g == [c \in Criteria |-> Rounded(sheet[s][c] * Weight[c], 10000)]
<1>1. IsFiniteSet(Criteria)
  BY AwardAssumption
<1>2. \A c \in Criteria : sheet[s][c] * Weight[c] \in Nat
  <2> SUFFICES ASSUME NEW c \in Criteria PROVE sheet[s][c] * Weight[c] \in Nat
    OBVIOUS
  <2>1. sheet[s] \in [Criteria -> Scores]
    BY DEF SheetOK
  <2>2. sheet[s][c] \in Nat /\ Weight[c] \in Nat
    BY <2>1, AwardAssumption
  <2> QED BY <2>2
<1>3. \A c \in Criteria : /\ f[c] \in Int /\ g[c] \in Int
                          /\ f[c] - 5000 <= 10000 * g[c]
                          /\ 10000 * g[c] <= f[c] + 5000
  <2> SUFFICES ASSUME NEW c \in Criteria
               PROVE  /\ f[c] \in Int /\ g[c] \in Int
                      /\ f[c] - 5000 <= 10000 * g[c]
                      /\ 10000 * g[c] <= f[c] + 5000
    OBVIOUS
  <2> DEFINE n == sheet[s][c] * Weight[c]
  <2>1. f[c] = n /\ g[c] = Rounded(n, 10000) /\ n \in Nat
    BY <1>2
  <2> HIDE DEF f, g, n
  <2>2. Rounded(n, 10000) \in Nat /\ n - 5000 <= 10000 * Rounded(n, 10000)
        /\ 10000 * Rounded(n, 10000) <= n + 5000
    BY <2>1, RoundedWithin
  <2> QED BY <2>1, <2>2
<1>4. Exact(s) = SumFunctionOnSet(f, Criteria) /\ Total(s) = SumFunctionOnSet(g, Criteria)
  <2>1. DOMAIN f = Criteria /\ DOMAIN g = Criteria
    OBVIOUS
  <2> QED BY <2>1 DEF Exact, Total, SumFunction
<1> HIDE DEF f, g
<1>5. Exact(s) \in Int /\ Total(s) \in Int
  BY <1>1, <1>3, <1>4, SumType
<1>6. LET e == 5000 * Cardinality(Criteria)
      IN /\ SumFunctionOnSet(f, Criteria) - e <= 10000 * SumFunctionOnSet(g, Criteria)
         /\ 10000 * SumFunctionOnSet(g, Criteria) <= SumFunctionOnSet(f, Criteria) + e
  <2>1. 10000 \in Nat /\ 5000 \in Nat
    OBVIOUS
  <2> QED BY <1>1, <1>3, <2>1, SumWithin
<1> QED BY <1>4, <1>5, <1>6

(* The places are 1, 2, ... without a gap or a tie, in the order of Ahead. *)
LEMMA PlacesRank ==
  ASSUME SheetOK
  PROVE  LET D == DOMAIN Tenderers
         IN /\ \A i \in D : Place(i) \in D
            /\ \A n \in D : \E i \in D : Place(i) = n
            /\ \A i, j \in D : Place(i) < Place(j)
                               => Total(Tenderers[i]) >= Total(Tenderers[j])
            /\ \A i, j \in D : Place(i) = Place(j) => i = j
<1> DEFINE D == DOMAIN Tenderers
           R == {x \in D \X D : Ahead(x[1], x[2])}
           n == Len(Tenderers)
<1>1. D = 1..n /\ n \in Nat /\ \A i \in D : i \in Nat
  BY ListedParty
<1>2. \A i \in D : Total(Tenderers[i]) \in Int
  BY ListedParty, TotalWithin
<1>3. IsFiniteSet(D) /\ Cardinality(D) = n
  <2> HIDE DEF D, n
  <2>1. IsFiniteSet(1..n) /\ Cardinality(1..n) = IF 1 > n THEN 0 ELSE n - 1 + 1
    BY <1>1, FS_Interval
  <2> QED BY <1>1, <2>1
<1>4. \A i, j \in D : <<i, j>> \in R <=>
        \/ Total(Tenderers[i]) > Total(Tenderers[j])
        \/ Total(Tenderers[i]) = Total(Tenderers[j]) /\ i < j
  BY DEF Ahead
<1>5. \A i \in D : {j \in D : Ahead(j, i)} = Below(R, D, i)
  BY DEF Below
<1> HIDE DEF D, R, n
<1>6. Orders(R, D)
  <2>1. \A x \in D : <<x, x>> \notin R
    BY <1>1, <1>2, <1>4
  <2>2. ASSUME NEW x \in D, NEW y \in D, NEW z \in D,
               <<x, y>> \in R, <<y, z>> \in R
        PROVE  <<x, z>> \in R
    BY <1>1, <1>2, <1>4, <2>2
  <2>3. ASSUME NEW x \in D, NEW y \in D
        PROVE  x = y \/ <<x, y>> \in R \/ <<y, x>> \in R
    BY <1>1, <1>2, <1>4
  <2> QED BY <2>1, <2>2, <2>3 DEF Orders
<1>7. \A i \in D : Place(i) = 1 + Cardinality(Below(R, D, i))
  BY <1>5 DEF Place, D
<1> DEFINE rank == [i \in D |-> 1 + Cardinality(Below(R, D, i))]
<1>8. /\ rank \in Bijection(D, D)
      /\ \A i \in D : 1 + Cardinality(Below(R, D, i)) \in D
      /\ \A i, j \in D :
           <<i, j>> \in R => Cardinality(Below(R, D, i)) < Cardinality(Below(R, D, j))
  BY <1>1, <1>3, <1>6, Ranks
<1>9. \A i \in D : rank[i] = Place(i)
  BY <1>7
<1>10. DOMAIN rank = D
  OBVIOUS
<1> HIDE DEF rank
<1>11. /\ \A m \in D : \E i \in D : Place(i) = m
       /\ \A i, j \in D : Place(i) = Place(j) => i = j
  BY <1>8, <1>9, <1>10 DEF Bijection, Injection, Surjection, IsInjective
<1>12. ASSUME NEW i \in D, NEW j \in D, Place(i) < Place(j)
       PROVE  Total(Tenderers[i]) >= Total(Tenderers[j])
  <2>1. Cardinality(Below(R, D, i)) \in Nat /\ Cardinality(Below(R, D, j)) \in Nat
    <3>1. Below(R, D, i) \in SUBSET D /\ Below(R, D, j) \in SUBSET D
      BY DEF Below
    <3>2. IsFiniteSet(Below(R, D, i)) /\ IsFiniteSet(Below(R, D, j))
      BY <1>3, <3>1, FS_Subset
    <3> QED BY <3>2, FS_CardinalityType
  <2>2. <<j, i>> \notin R
    BY <1>7, <1>8, <1>12, <2>1
  <2> QED BY <1>2, <1>4, <2>2
<1>13. \A i \in D : Place(i) \in D
  BY <1>7, <1>8
<1> QED BY <1>11, <1>12, <1>13 DEF D

(* Everybody has a place, and nobody is ahead of a supplier whose exact    *)
(* total is higher by more than the rounding of the criteria.              *)
LEMMA RankingFair == SheetOK => RankingIsFair
<1> SUFFICES ASSUME SheetOK PROVE RankingIsFair
  OBVIOUS
<1> DEFINE D == DOMAIN Tenderers
           at == [n \in D |-> CHOOSE i \in DOMAIN Places : Places[i] = n]
           k == Cardinality(Criteria)
<1>1. \A n \in D : at[n] \in D /\ Place(at[n]) = n
  <2>1. DOMAIN Places = D /\ \A i \in D : Places[i] = Place(i)
    BY DEF Places
  <2>2. \A n \in D : \E i \in DOMAIN Places : Places[i] = n
    BY <2>1, PlacesRank
  <2> QED BY <2>1, <2>2
<1>2. DOMAIN Ranking = D /\ \A n \in D : Ranking[n] = Tenderers[at[n]]
  BY DEF Ranking
<1>3. \A i \in D : Tenderers[i] \in Party /\ i \in Nat
  <2>1. D = 1..Len(Tenderers) /\ Len(Tenderers) \in Nat
    BY ListedParty
  <2>2. \A i \in D : Tenderers[i] \in Party
    BY ListedParty
  <2> HIDE DEF D
  <2> QED BY <2>1, <2>2
<1>4. k \in Nat
  BY AwardAssumption, FS_CardinalityType
<1> HIDE DEF at, k
<1>5. Range(Ranking) = Party
  <2>1. \A i \in D : Place(i) \in D /\ at[Place(i)] = i
    BY <1>1, PlacesRank
  <2>2. Range(Ranking) = {Tenderers[at[n]] : n \in D}
    BY <1>2 DEF Range
  <2>3. Party = {Tenderers[i] : i \in D}
    BY ListedParty
  <2> QED BY <1>1, <2>1, <2>2, <2>3
<1>6. ASSUME NEW i \in D, NEW j \in D, i < j
      PROVE  Exact(Ranking[i]) + k * 10000 >= Exact(Ranking[j])
  <2> DEFINE s == Tenderers[at[i]]
             t == Tenderers[at[j]]
  <2>1. s \in Party /\ t \in Party
    BY <1>1, <1>3
  <2>2. Total(s) >= Total(t)
    BY <1>1, <1>6, PlacesRank
  <2>3. Ranking[i] = s /\ Ranking[j] = t
    BY <1>2
  <2> HIDE DEF s, t
  <2>4. /\ Total(s) \in Int /\ Exact(s) \in Int /\ Total(t) \in Int /\ Exact(t) \in Int
        /\ 10000 * Total(s) <= Exact(s) + 5000 * k
        /\ Exact(t) - 5000 * k <= 10000 * Total(t)
    BY <2>1, TotalWithin DEF k
  <2> QED BY <1>4, <2>2, <2>3, <2>4
<1> QED BY <1>2, <1>5, <1>6 DEF RankingIsFair, k

-----------------------------------------------------------------------------
(* The reports, and the types                                              *)

OfFormat(f) == {i \in DOMAIN reports : reports[i].format = f}

(* The versions of a format are 1, 2, ... up to how many there are. *)
ReportInv ==
  /\ reports \in Seq(Report) /\ Len(reports) <= MaxReports
  /\ ReportsNumbered
  /\ \A f \in Formats : Versions(f) = 1..Cardinality(OfFormat(f))

AwardInv ==
  /\ standing \in [Party -> Standing] /\ SheetOK
  /\ desks \in [Desks -> Desk]
  /\ RiskInv /\ ReportInv

LEMMA MaxOfFirst ==
  ASSUME NEW n \in Nat
  PROVE  Max((1..n) \cup {0}) = n
<1> DEFINE S == (1..n) \cup {0}
<1>1. n \in S /\ \A y \in S : n >= y
  OBVIOUS
<1>2. \A x \in S : (\A y \in S : x >= y) => x = n
  BY <1>1
<1>3. Max(S) = CHOOSE x \in S : \A y \in S : x >= y
  BY DEF Max
<1> HIDE DEF S
<1>4. Max(S) = n
  BY <1>1, <1>2, <1>3
<1> QED BY <1>4 DEF S

LEMMA OfFormatFinite ==
  ASSUME ReportInv, NEW f
  PROVE  /\ IsFiniteSet(OfFormat(f)) /\ Cardinality(OfFormat(f)) \in Nat
         /\ Cardinality(OfFormat(f)) <= Len(reports)
         /\ OfFormat(f) \in SUBSET (1..Len(reports)) /\ Len(reports) \in Nat
<1>1. Len(reports) \in Nat /\ DOMAIN reports = 1..Len(reports)
  BY DEF ReportInv
<1>2. OfFormat(f) \in SUBSET (1..Len(reports))
  BY <1>1 DEF OfFormat
<1>3. IsFiniteSet(1..Len(reports)) /\ Cardinality(1..Len(reports)) = Len(reports)
  <2>1. /\ IsFiniteSet(1..Len(reports))
        /\ Cardinality(1..Len(reports)) = IF 1 > Len(reports) THEN 0
                                          ELSE Len(reports) - 1 + 1
    BY <1>1, FS_Interval
  <2> QED BY <1>1, <2>1
<1>4. IsFiniteSet(OfFormat(f)) /\ Cardinality(OfFormat(f)) <= Len(reports)
  BY <1>2, <1>3, FS_Subset
<1>5. Cardinality(OfFormat(f)) \in Nat
  BY <1>4, FS_CardinalityType
<1> QED BY <1>1, <1>2, <1>4, <1>5

(* What start_report saves: one report of each format, in some order. *)
NewReports(F) == {[format |-> f, version |-> NextVersion(f)] : f \in F}

LEMMA NewInOrder ==
  ASSUME NEW F \in SUBSET Formats
  PROVE  LET sq == SetToSeq(NewReports(F))
             m  == Cardinality(F)
         IN /\ m \in Nat
            /\ sq \in Seq(NewReports(F)) /\ Len(sq) = m
            /\ \A k \in 1..m : sq[k] \in NewReports(F)
            /\ \A k, l \in 1..m : sq[k] = sq[l] => k = l
<1> DEFINE S == NewReports(F)
           m == Cardinality(F)
           sq == SetToSeq(S)
<1>1. IsFiniteSet(F)
  BY AwardAssumption, FS_Subset
<1>2. IsFiniteSet(S) /\ Cardinality(S) = m
  <2> DEFINE h == [f \in F |-> [format |-> f, version |-> NextVersion(f)]]
  <2>1. h \in [F -> S] /\ DOMAIN h = F
    BY DEF NewReports
  <2>2. \A f \in F : h[f].format = f
    OBVIOUS
  <2>3. \A r \in S : \E f \in F : h[f] = r
    BY DEF NewReports
  <2> HIDE DEF h, S
  <2>4. h \in Bijection(F, S)
    <3>1. \A a, b \in F : h[a] = h[b] => a = b
      BY <2>2
    <3> QED BY <2>1, <2>3, <3>1 DEF Bijection, Injection, Surjection, IsInjective
  <2> QED BY <1>1, <2>4, FS_Bijection DEF ExistsBijection
<1>3. m \in Nat
  BY <1>1, FS_CardinalityType
<1> HIDE DEF S, m
<1>4. \E g : g \in [1..Cardinality(S) -> S] /\ IsInjective(g)
  <2>1. ExistsBijection(1..Cardinality(S), S)
    BY <1>2, FS_CardinalityType
  <2> QED BY <2>1 DEF ExistsBijection, Bijection, Injection
<1>5. sq \in [1..m -> S] /\ IsInjective(sq)
  <2>1. sq = CHOOSE g \in [1..Cardinality(S) -> S] : IsInjective(g)
    BY DEF SetToSeq
  <2> HIDE DEF sq
  <2> QED BY <1>2, <1>4, <2>1
<1> HIDE DEF sq
<1>6. DOMAIN sq = 1..m /\ sq \in Seq(S) /\ Len(sq) = m
  BY <1>3, <1>5
<1>7. \A k, l \in 1..m : sq[k] = sq[l] => k = l
  BY <1>5, <1>6 DEF IsInjective
<1>8. \A k \in 1..m : sq[k] \in S
  BY <1>5
<1> QED BY <1>3, <1>6, <1>7, <1>8 DEF S, m, sq

LEMMA ReportStep ==
  ASSUME AwardInv, NEW d \in Desks, EndReport(d)
  PROVE  ReportInv'
<1> DEFINE F == desks[d].formats
           new == NewReports(F)
           sq == SetToSeq(new)
           m == Cardinality(F)
           n == Len(reports)
<1>1. F \in SUBSET Formats
  BY DEF AwardInv, Desk
<1>2. /\ m \in Nat /\ sq \in Seq(new) /\ Len(sq) = m
      /\ \A k \in 1..m : sq[k] \in new
      /\ \A k, l \in 1..m : sq[k] = sq[l] => k = l
  BY <1>1, NewInOrder
<1>3. reports' = reports \o sq /\ n + m <= MaxReports
  BY DEF EndReport, NewReports
<1>4. /\ reports \in Seq(Report) /\ n \in Nat /\ DOMAIN reports = 1..n
      /\ ReportsNumbered
      /\ \A f \in Formats : Versions(f) = 1..Cardinality(OfFormat(f))
  BY DEF AwardInv, ReportInv
<1>5. \A r \in new : /\ r.format \in F /\ r.version = NextVersion(r.format)
                     /\ r = [format |-> r.format, version |-> NextVersion(r.format)]
  BY DEF NewReports
<1>6. \A f \in Formats : /\ NextVersion(f) = Cardinality(OfFormat(f)) + 1
                         /\ Cardinality(OfFormat(f)) \in 0..n
  <2> SUFFICES ASSUME NEW f \in Formats
               PROVE  /\ NextVersion(f) = Cardinality(OfFormat(f)) + 1
                      /\ Cardinality(OfFormat(f)) \in 0..n
    OBVIOUS
  <2>1. Cardinality(OfFormat(f)) \in Nat /\ Cardinality(OfFormat(f)) <= n
    BY OfFormatFinite DEF AwardInv
  <2>2. Max((1..Cardinality(OfFormat(f))) \cup {0}) = Cardinality(OfFormat(f))
    BY <2>1, MaxOfFirst
  <2>3. NextVersion(f) = 1 + Cardinality(OfFormat(f))
    BY <1>4, <2>2 DEF NextVersion
  <2> QED BY <1>4, <2>1, <2>3
<1> HIDE DEF F, new, sq, m
<1>7. new \subseteq Report \/ m = 0
  <2> SUFFICES ASSUME m # 0, NEW r \in new PROVE r \in Report
    OBVIOUS
  <2>1. r.format \in Formats /\ r.version = Cardinality(OfFormat(r.format)) + 1
    BY <1>1, <1>5, <1>6
  <2>2. r.version \in 1..MaxReports
    BY <1>2, <1>3, <1>4, <1>6, <2>1, AwardAssumption
  <2> QED BY <1>5, <2>1, <2>2 DEF Report
<1>8. sq \in Seq(Report)
  BY <1>2, <1>7
<1>9. /\ reports' \in Seq(Report) /\ Len(reports') = n + m /\ DOMAIN reports' = 1..(n + m)
      /\ \A i \in 1..(n + m) : reports'[i] = IF i <= n THEN reports[i] ELSE sq[i - n]
  <2>1. reports' \in Seq(Report) /\ Len(reports') = n + m
    BY <1>2, <1>3, <1>4, <1>8
  <2>2. \A i \in 1..(n + m) : reports'[i] = IF i <= n THEN reports[i] ELSE sq[i - n]
    BY <1>2, <1>3, <1>4, <1>8
  <2> QED BY <2>1, <2>2
<1> HIDE DEF n
(* The reports of a format: those before, and the new one if there is one. *)
<1>10. ASSUME NEW f \in Formats, NEW k \in 1..m, sq[k].format = f
       PROVE  /\ OfFormat(f)' = OfFormat(f) \cup {n + k}
              /\ n + k \notin OfFormat(f)
              /\ Versions(f)' = Versions(f) \cup {reports'[n + k].version}
              /\ reports'[n + k].version = Cardinality(OfFormat(f)) + 1
  <2>1. n + k \in 1..(n + m) /\ ~(n + k <= n) /\ (n + k) - n = k
    BY <1>2, <1>4
  <2>2. reports'[n + k] = sq[k]
    BY <1>9, <2>1
  <2>3. \A l \in 1..m : sq[l].format = f => l = k
    BY <1>2, <1>5, <1>10
  <2>4. \A i \in 1..(n + m) : reports'[i].format = f <=>
                               (i \in 1..n /\ reports[i].format = f) \/ i = n + k
    <3> SUFFICES ASSUME NEW i \in 1..(n + m)
                 PROVE  reports'[i].format = f <=>
                          (i \in 1..n /\ reports[i].format = f) \/ i = n + k
      OBVIOUS
    <3>1. CASE i <= n
      BY <1>2, <1>4, <1>9, <2>1, <3>1
    <3>2. CASE ~(i <= n)
      <4>1. i - n \in 1..m /\ reports'[i] = sq[i - n]
        BY <1>2, <1>4, <1>9, <3>2
      <4> QED BY <1>4, <1>10, <2>3, <3>2, <4>1
    <3> QED BY <3>1, <3>2
  <2>5. /\ OfFormat(f) = {i \in 1..n : reports[i].format = f}
        /\ OfFormat(f)' = {i \in 1..(n + m) : reports'[i].format = f}
    BY <1>4, <1>9 DEF OfFormat
  <2>6. OfFormat(f)' = OfFormat(f) \cup {n + k} /\ n + k \notin OfFormat(f)
    BY <1>2, <1>4, <2>1, <2>4, <2>5
  <2>7. /\ Versions(f) = {reports[i].version : i \in OfFormat(f)}
        /\ Versions(f)' = {reports'[i].version : i \in OfFormat(f)'}
    BY DEF Versions, OfFormat
  <2>8. \A i \in OfFormat(f) : reports'[i] = reports[i]
    BY <1>2, <1>4, <1>9, <2>5
  <2>9. Versions(f)' = Versions(f) \cup {reports'[n + k].version}
    BY <2>6, <2>7, <2>8
  <2> QED BY <1>2, <1>5, <1>6, <1>10, <2>2, <2>6, <2>9
<1>11. ASSUME NEW f \in Formats, \A k \in 1..m : sq[k].format # f
       PROVE  OfFormat(f)' = OfFormat(f) /\ Versions(f)' = Versions(f)
  <2>1. \A i \in 1..(n + m) : reports'[i].format = f <=>
                               (i \in 1..n /\ reports[i].format = f)
    <3> SUFFICES ASSUME NEW i \in 1..(n + m)
                 PROVE  reports'[i].format = f <=> (i \in 1..n /\ reports[i].format = f)
      OBVIOUS
    <3>1. CASE i <= n
      BY <1>2, <1>4, <1>9, <3>1
    <3>2. CASE ~(i <= n)
      <4>1. i - n \in 1..m /\ reports'[i] = sq[i - n]
        BY <1>2, <1>4, <1>9, <3>2
      <4> QED BY <1>4, <1>11, <3>2, <4>1
    <3> QED BY <3>1, <3>2
  <2>2. /\ OfFormat(f) = {i \in 1..n : reports[i].format = f}
        /\ OfFormat(f)' = {i \in 1..(n + m) : reports'[i].format = f}
    BY <1>4, <1>9 DEF OfFormat
  <2>3. OfFormat(f)' = OfFormat(f)
    BY <1>2, <1>4, <2>1, <2>2
  <2>4. /\ Versions(f) = {reports[i].version : i \in OfFormat(f)}
        /\ Versions(f)' = {reports'[i].version : i \in OfFormat(f)'}
    BY DEF Versions, OfFormat
  <2>5. \A i \in OfFormat(f) : reports'[i] = reports[i]
    BY <1>2, <1>4, <1>9, <2>2
  <2> QED BY <2>3, <2>4, <2>5
<1>12. \A f \in Formats : Versions(f)' = 1..Cardinality(OfFormat(f)')
  <2> SUFFICES ASSUME NEW f \in Formats
               PROVE  Versions(f)' = 1..Cardinality(OfFormat(f)')
    OBVIOUS
  <2> DEFINE c == Cardinality(OfFormat(f))
  <2>1. c \in Nat /\ Versions(f) = 1..c /\ IsFiniteSet(OfFormat(f))
    BY <1>4, OfFormatFinite DEF AwardInv
  <2>2. CASE \A k \in 1..m : sq[k].format # f
    BY <1>11, <2>1, <2>2
  <2>3. ASSUME NEW k \in 1..m, sq[k].format = f
        PROVE  Versions(f)' = 1..Cardinality(OfFormat(f)')
    <3>1. /\ OfFormat(f)' = OfFormat(f) \cup {n + k} /\ n + k \notin OfFormat(f)
          /\ Versions(f)' = (1..c) \cup {c + 1}
      BY <1>10, <2>1, <2>3
    <3>2. Cardinality(OfFormat(f)') = c + 1
      BY <2>1, <3>1, FS_AddElement
    <3> HIDE DEF c
    <3>3. (1..c) \cup {c + 1} = 1..(c + 1)
      BY <2>1
    <3> QED BY <3>1, <3>2, <3>3
  <2> QED BY <2>2, <2>3
<1>13. ReportsNumbered'
  <2> SUFFICES ASSUME NEW i \in 1..(n + m)
               PROVE  reports'[i].version =
                        Cardinality({j \in 1..i : reports'[j].format = reports'[i].format})
    BY <1>9 DEF ReportsNumbered
  <2>1. CASE i <= n
    <3>1. i \in 1..n /\ reports'[i] = reports[i]
      BY <1>2, <1>4, <1>9, <2>1
    <3>2. \A j \in 1..i : reports'[j] = reports[j]
      BY <1>2, <1>4, <1>9, <2>1
    <3>3. {j \in 1..i : reports'[j].format = reports'[i].format} =
            {j \in 1..i : reports[j].format = reports[i].format}
      BY <3>1, <3>2
    <3> QED BY <1>4, <3>1, <3>3 DEF ReportsNumbered
  <2>2. CASE ~(i <= n)
    <3>1. PICK k \in 1..m : reports'[i] = sq[k] /\ n + k = i
      <4>1. i - n \in 1..m /\ reports'[i] = sq[i - n] /\ n + (i - n) = i
        BY <1>2, <1>4, <1>9, <2>2
      <4> QED BY <4>1
    <3>2. PICK f \in Formats : f = sq[k].format
      BY <1>1, <1>2, <1>5
    <3>3. /\ OfFormat(f)' = OfFormat(f) \cup {i} /\ i \notin OfFormat(f)
          /\ reports'[i].version = Cardinality(OfFormat(f)) + 1
      BY <1>10, <3>1, <3>2
    <3>4. OfFormat(f)' = {j \in 1..(n + m) : reports'[j].format = f}
      BY <1>9 DEF OfFormat
    <3>5. OfFormat(f) \in SUBSET (1..n) /\ IsFiniteSet(OfFormat(f))
      BY OfFormatFinite DEF AwardInv, n
    <3>6. {j \in 1..i : reports'[j].format = f} = OfFormat(f) \cup {i}
      BY <1>2, <1>4, <2>2, <3>3, <3>4, <3>5
    <3>7. Cardinality(OfFormat(f) \cup {i}) = Cardinality(OfFormat(f)) + 1
      BY <3>3, <3>5, FS_AddElement
    <3> QED BY <3>1, <3>2, <3>3, <3>6, <3>7
  <2> QED BY <2>1, <2>2
<1> QED BY <1>3, <1>9, <1>12, <1>13 DEF ReportInv

LEMMA AwardStart == AwardInit => AwardInv
<1> SUFFICES ASSUME AwardInit PROVE AwardInv
  OBVIOUS
<1>1. reports = <<>> /\ DOMAIN reports = {}
  BY DEF AwardInit
<1>2. \A f : OfFormat(f) = {} /\ Versions(f) = {} /\ Cardinality({}) = 0
  BY <1>1, FS_EmptySet DEF OfFormat, Versions
<1>3. ReportInv
  <2>1. reports \in Seq(Report) /\ Len(reports) <= MaxReports /\ ReportsNumbered
    BY <1>1, AwardAssumption DEF ReportsNumbered
  <2>2. 1..0 = {}
    OBVIOUS
  <2>3. \A f \in Formats : Versions(f) = 1..Cardinality(OfFormat(f))
    BY <1>2, <2>2
  <2> QED BY <2>1, <2>3 DEF ReportInv
<1>4. Free \in Desk
  BY DEF Free, Desk
<1> QED BY <1>3, <1>4, RiskStart DEF AwardInit, AwardInv, SheetOK, Standing

LEMMA AwardStep == AwardInv /\ [AwardNext]_awardVars => AwardInv'
<1> SUFFICES ASSUME AwardInv, [AwardNext]_awardVars PROVE AwardInv'
  OBVIOUS
<1>1. /\ standing \in [Party -> Standing] /\ sheet \in [Party -> [Criteria -> Scores]]
      /\ desks \in [Desks -> Desk] /\ ReportInv
  BY DEF AwardInv, SheetOK
<1>2. RiskInv'
  BY RiskStep DEF AwardInv
<1>3. Free \in Desk
  BY DEF Free, Desk
<1>4. ASSUME UNCHANGED reports PROVE ReportInv'
  <2>1. \A f : Versions(f)' = Versions(f) /\ OfFormat(f)' = OfFormat(f)
    BY <1>4 DEF Versions, OfFormat
  <2>2. ReportsNumbered'
    BY <1>1, <1>4 DEF ReportInv, ReportsNumbered
  <2>3. /\ reports' \in Seq(Report) /\ Len(reports') <= MaxReports
        /\ \A f \in Formats : Versions(f) = 1..Cardinality(OfFormat(f))
    BY <1>1, <1>4 DEF ReportInv
  <2> QED BY <2>1, <2>2, <2>3 DEF ReportInv
<1>5. ASSUME UNCHANGED sheet PROVE SheetOK'
  BY <1>1, <1>5 DEF SheetOK
<1>6. ASSUME NEW s \in Party, NEW c \in Criteria, NEW points \in Scores,
             Adjust(s, c, points)
      PROVE  AwardInv'
  <2>1. sheet' \in [Party -> [Criteria -> Scores]]
    BY <1>1, <1>6 DEF Adjust
  <2>2. UNCHANGED <<standing, reports, desks>>
    BY <1>6 DEF Adjust
  <2> QED BY <1>1, <1>2, <1>4, <2>1, <2>2 DEF AwardInv, SheetOK
<1>7. ASSUME NEW i \in DOMAIN risks, NEW decision \in {"passed", "rejected"},
             DecideRisk(i, decision)
      PROVE  AwardInv'
  <2>1. risks[i].who \in Party
    <3>1. risks \in Seq(Risk)
      BY DEF AwardInv, RiskInv
    <3>2. risks[i] \in Risk
      BY <3>1
    <3> QED BY <3>2 DEF Risk
  <2>2. standing' \in [Party -> Standing]
    BY <1>1, <1>7, <2>1 DEF DecideRisk, Disqualified, Standing
  <2>3. UNCHANGED <<sheet, reports, desks>>
    BY <1>7 DEF DecideRisk
  <2> QED BY <1>1, <1>2, <1>4, <1>5, <2>2, <2>3 DEF AwardInv
<1>8. ASSUME NEW d \in Desks, NEW q \in Desk, desks' = [desks EXCEPT ![d] = q],
             UNCHANGED <<standing, sheet>>, ReportInv'
      PROVE  AwardInv'
  BY <1>1, <1>2, <1>5, <1>8 DEF AwardInv
<1>9. ASSUME NEW d \in Desks, NEW task \in {"risks", "report"},
             NEW formats \in SUBSET Formats, Suspend(d, task, formats)
      PROVE  AwardInv'
  <2>1. [task |-> task, formats |-> formats] \in Desk
    BY DEF Desk
  <2> QED BY <1>4, <1>8, <1>9, <2>1 DEF Suspend
<1>10. ASSUME NEW d \in Desks,
              EndRiskCheck(d) \/ EndQueuedRiskCheck(d) \/ Refused(d)
       PROVE  AwardInv'
  <2>1. desks' = [desks EXCEPT ![d] = Free] /\ UNCHANGED <<standing, sheet, reports>>
    BY <1>10 DEF EndRiskCheck, EndQueuedRiskCheck, Refused, Resumed
  <2> QED BY <1>3, <1>4, <1>8, <2>1
<1>11. ASSUME NEW d \in Desks, EndReport(d) PROVE AwardInv'
  <2>1. desks' = [desks EXCEPT ![d] = Free] /\ UNCHANGED <<standing, sheet>>
    BY <1>11 DEF EndReport, Resumed
  <2> QED BY <1>3, <1>8, <1>11, <2>1, ReportStep
<1>12. CASE UNCHANGED awardVars
  BY <1>1, <1>2, <1>4, <1>5, <1>12 DEF awardVars, AwardInv
<1> QED BY <1>6, <1>7, <1>9, <1>10, <1>11, <1>12 DEF AwardNext

LEMMA AwardInvariant == AwardSpec => []AwardInv
  BY AwardStart, AwardStep, PTL DEF AwardSpec

(* Every variable of the reviewers' desk keeps its type. *)
THEOREM AwardTypes == AwardSpec => []AwardTypeOK
<1>1. AwardInv => AwardTypeOK
  BY DEF AwardInv, AwardTypeOK, SheetOK, RiskInv, ReportInv
<1> QED BY <1>1, AwardInvariant, PTL

(* The reports of a format are numbered 1, 2, ... for any number of formats *)
(* and of requests that wait for the dispatcher together: the version is    *)
(* counted after the wait (ScoringService.start_report).                    *)
THEOREM NumberedReports == AwardSpec => []ReportsNumbered
<1>1. AwardInv => ReportsNumbered
  BY DEF AwardInv, ReportInv
<1> QED BY <1>1, AwardInvariant, PTL

(* Every supplier has a place in the ranking, and none is ahead of one      *)
(* whose exact total is higher by more than the rounding of the parts       *)
(* explains, for any suppliers, criteria, weights and scores                *)
(* (ScoringService.ranking, money.weighted_score).                          *)
THEOREM FairRanking == AwardSpec => []RankingIsFair
<1>1. AwardInv => RankingIsFair
  BY RankingFair DEF AwardInv
<1> QED BY <1>1, AwardInvariant, PTL
=============================================================================
