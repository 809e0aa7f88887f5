---------------------------- MODULE Pages_proofs -----------------------------
(***************************************************************************)
(* Theorems about what the browser shows, for any number of orders, polls, *)
(* handlers and readings, and for every expectation of a payment; and      *)
(* about the support pages, for every set of tickets, of requests under    *)
(* way and of seeded days, and every limit: tickets are counted and sorted *)
(* as their requests left them, and what is typed stays with its thread.   *)
(***************************************************************************)
EXTENDS PagesMC, FiniteSetTheorems, WellFoundedInduction, TLAPS

-----------------------------------------------------------------------------
(* The verdict on a transaction.                                           *)

(* What the transaction finally deserves, its age aside.                   *)
Fate ==
  IF ~final.effect.succeeded THEN "reverted"
  ELSE IF final.effect.received = 0
    THEN IF final.effect.other THEN "wrong_asset" ELSE "wrong_recipient"
  ELSE IF final.effect.received < Required THEN "insufficient_amount" ELSE "paid"

Aged == MaxAge > 0 /\ now - final.minedAt > MaxAge

FinalType ==
  final # Null =>
    /\ signed # 2
    /\ final \in [effect : [succeeded : BOOLEAN, received : Nat, other : BOOLEAN],
                  minedAt : Nat]

(* Where the last reading came from.                                       *)
Sourced(seen) ==
  \/ seen \in {Elsewhere, Unseen, Pooled}
  \/ signed # 2 /\ \E effect \in Effects, c \in Shallow : seen = Included(effect, c, 0)
  \/ final # Null /\ \E c \in Deep, t \in {Null, final.minedAt} :
       seen = Included(final.effect, c, t)

(* What a decision that settles a claim rests on: a reading that may be    *)
(* taken back, the chain the transaction is signed for, or its final fate. *)
Founded(g) ==
  \/ Provisional(g)
  \/ g.reason = "wrong_network" /\ signed = 2
  \/ final # Null /\ g.reason = Fate
  \/ final # Null /\ Fate = "paid" /\ g.reason = "too_old" /\ Aged

TransactionInv ==
  part = "transaction" =>
    /\ signed \in {Null, 1, 2} /\ now \in Nat
    /\ FinalType
    /\ Sourced(observed)
    /\ \A g \in rulings : Founded(g)

LEMMA TransactionStays ==
  ASSUME TransactionInv, [Next]_vars
  PROVE  part = "transaction" => TransactionNext \/ UNCHANGED transactionVars
BY DEF Next, vars, transactionVars

(* The decision on a reading, source by source.                            *)
LEMMA DecisionsAreFounded ==
  ASSUME TransactionAssumption, NEW seen, Sourced(seen), FinalType, now \in Nat,
         signed \in {Null, 1, 2},
         NEW decision, decision = EvaluateCryptoTransaction(seen, Expected, now),
         NEW g, g = [reason |-> decision.reason, place |-> Place(seen)]
  PROVE  /\ decision.action # "wait" => Founded(g)
         /\ Place(seen) \in {"undated", "dated"} => decision.action # "wait"
         /\ Place(seen) = "dated" /\ final # Null /\ Aged => decision.reason # "paid"
         /\ decision.reason = "paid" => final # Null
<1> USE TransactionAssumption DEF EvaluateCryptoTransaction, CryptoVerdict, Place, Expected
<1>1. CASE seen = Elsewhere
  BY <1>1 DEF Elsewhere, Unseen, Founded, Provisional
<1>2. CASE seen = Unseen
  BY <1>2 DEF Unseen
<1>3. CASE seen = Pooled
  BY <1>3 DEF Pooled, Unseen, Founded
<1>4. CASE signed # 2 /\ \E effect \in Effects, c \in Shallow : seen = Included(effect, c, 0)
  <2>1. PICK effect \in Effects, c \in Shallow : seen = Included(effect, c, 0)
    BY <1>4
  <2>2. /\ c \in Int /\ c < MinConfirmations
        /\ seen.chainId = 1 /\ seen.found /\ seen.txChainId = signed /\ seen.mined
        /\ seen.confirmations = c /\ seen.succeeded = effect.succeeded
    BY <2>1 DEF Included, Pooled, Unseen, Shallow
  <2> QED BY <1>4, <2>2 DEF Founded, Provisional
<1>5. CASE final # Null /\ \E c \in Deep, t \in {Null, final.minedAt} :
             seen = Included(final.effect, c, t)
  <2>1. PICK c \in Deep, t \in {Null, final.minedAt} : seen = Included(final.effect, c, t)
    BY <1>5
  <2>2. /\ c \in Int /\ c >= MinConfirmations
        /\ seen.chainId = 1 /\ seen.found /\ seen.txChainId = signed /\ seen.mined
        /\ seen.confirmations = c /\ seen.succeeded = final.effect.succeeded
        /\ seen.received = final.effect.received
        /\ seen.otherAssetReceived = final.effect.other /\ seen.minedAt = t
    BY <2>1 DEF Included, Pooled, Unseen, Deep
  <2>3. /\ final.effect.succeeded \in BOOLEAN /\ final.effect.other \in BOOLEAN
        /\ final.effect.received \in Nat /\ final.minedAt \in Nat /\ signed # 2
    BY <1>5 DEF FinalType
  <2> QED BY <1>5, <2>2, <2>3 DEF Founded, Fate, Aged, TooOld
<1> QED BY <1>1, <1>2, <1>3, <1>4, <1>5 DEF Sourced

(* Readings and fates look as before while the chain and the fate stay.    *)
LEMMA SourcesStay ==
  ASSUME signed' = signed, final' = final
  PROVE  /\ Pooled' = Pooled
         /\ \A effect, c, t : Included(effect, c, t)' = Included(effect, c, t)
         /\ Fate' = Fate /\ (FinalType => FinalType')
<1>1. Pooled' = Pooled
  BY DEF Pooled
<1>2. \A effect, c, t : Included(effect, c, t)' = Included(effect, c, t)
  BY <1>1 DEF Included
<1> QED BY <1>1, <1>2 DEF Fate, FinalType

LEMMA AnswersAreFounded ==
  ASSUME TransactionInv, part = "transaction", part' = part, NEW seen, Sourced(seen),
         Answers(seen)
  PROVE  TransactionInv'
<1>1. /\ signed \in {Null, 1, 2} /\ now \in Nat /\ FinalType
      /\ \A g \in rulings : Founded(g)
  BY DEF TransactionInv
<1>2. /\ observed' = seen /\ signed' = signed /\ final' = final /\ now' = now
  BY DEF Answers
<1> DEFINE decision == EvaluateCryptoTransaction(seen, Expected, now)
           g == [reason |-> decision.reason, place |-> Place(seen)]
<1>3. rulings' = IF decision.action = "wait" THEN rulings ELSE rulings \union {g}
  BY DEF Answers
<1>4. decision.action # "wait" => Founded(g)
  <2> HIDE DEF decision, g
  <2>1. decision = EvaluateCryptoTransaction(seen, Expected, now)
        /\ g = [reason |-> decision.reason, place |-> Place(seen)]
    BY DEF decision, g
  <2> QED BY <1>1, <2>1, TransactionAssumption, DecisionsAreFounded
<1> HIDE DEF decision, g
<1>5. \A h \in rulings' : Founded(h)
  BY <1>1, <1>3, <1>4
<1>6. /\ FinalType' /\ Sourced(observed)'
  BY <1>1, <1>2, SourcesStay DEF Sourced, Elsewhere, Unseen
<1>7. (\A h \in rulings : Founded(h))'
  BY <1>2, <1>5, SourcesStay DEF Founded, Provisional, Aged
<1> QED BY <1>1, <1>2, <1>6, <1>7 DEF TransactionInv

LEMMA TransactionStep ==
  ASSUME TransactionInv, [Next]_vars
  PROVE  TransactionInv'
<1> SUFFICES ASSUME part = "transaction"
             PROVE  TransactionInv'
  BY DEF TransactionInv, Next, vars
<1>1. TransactionNext \/ UNCHANGED transactionVars
  BY TransactionStays
<1>2. part' = part
  BY DEF Next, vars
<1>3. /\ signed \in {Null, 1, 2} /\ now \in Nat /\ FinalType /\ Sourced(observed)
      /\ \A g \in rulings : Founded(g)
  BY DEF TransactionInv
<1>4. CASE Finalise
  <2>1. PICK effect \in Effects : final' = [effect |-> effect, minedAt |-> now]
    BY <1>4 DEF Finalise
  <2>2. /\ final = Null /\ signed # 2 /\ signed' = signed /\ observed' = observed
        /\ now' = now /\ rulings' = rulings
    BY <1>4 DEF Finalise
  <2>3. effect \in [succeeded : BOOLEAN, received : Nat, other : BOOLEAN]
    BY TransactionAssumption DEF Effects
  <2>4. FinalType'
    BY <1>3, <2>1, <2>2, <2>3 DEF FinalType
  <2>5. Sourced(observed)'
    BY <1>3, <2>2 DEF Sourced, Elsewhere, Pooled, Unseen, Included
  <2>6. (\A g \in rulings : Founded(g))'
    BY <1>3, <2>2 DEF Founded, Provisional
  <2> QED BY <1>3, <2>2, <2>4, <2>5, <2>6 DEF TransactionInv
<1>5. CASE ReadOutside
  <2>1. PICK seen \in {Elsewhere, Unseen, Pooled} : Answers(seen)
    BY <1>5 DEF ReadOutside
  <2>2. Sourced(seen)
    BY DEF Sourced
  <2> QED BY <1>2, <2>1, <2>2, AnswersAreFounded
<1>6. CASE ReadBranch
  <2>1. PICK effect \in Effects, c \in Shallow : Answers(Included(effect, c, 0))
    BY <1>6 DEF ReadBranch
  <2> DEFINE seen == Included(effect, c, 0)
  <2>2. Sourced(seen) /\ Answers(seen)
    BY <1>6, <2>1 DEF Sourced, ReadBranch
  <2> HIDE DEF seen
  <2> QED BY <1>2, <2>2, AnswersAreFounded
<1>7. CASE ReadFinal
  <2>1. PICK c \in Deep, t \in {Null, final.minedAt} : Answers(Included(final.effect, c, t))
    BY <1>7 DEF ReadFinal
  <2> DEFINE seen == Included(final.effect, c, t)
  <2>2. Sourced(seen) /\ Answers(seen)
    BY <1>7, <2>1 DEF Sourced, ReadFinal
  <2> HIDE DEF seen
  <2> QED BY <1>2, <2>2, AnswersAreFounded
<1>8. CASE Age
  <2>1. /\ now' = now + 1 /\ signed' = signed /\ final' = final /\ observed' = observed
        /\ rulings' = rulings
    BY <1>8 DEF Age
  <2>2. FinalType' /\ Sourced(observed)'
    BY <1>3, <2>1, SourcesStay DEF Sourced, Elsewhere, Unseen
  <2>3. final # Null /\ Aged => Aged'
    BY <1>3, <2>1, TransactionAssumption DEF Aged, FinalType
  <2>4. (\A g \in rulings : Founded(g))'
    BY <1>3, <2>1, <2>3, SourcesStay DEF Founded, Provisional
  <2> QED BY <1>3, <2>1, <2>2, <2>4 DEF TransactionInv
<1>9. CASE UNCHANGED transactionVars
  <2>1. /\ signed' = signed /\ final' = final /\ observed' = observed /\ now' = now
        /\ rulings' = rulings
    BY <1>9 DEF transactionVars
  <2>2. FinalType' /\ Sourced(observed)'
    BY <1>3, <2>1, SourcesStay DEF Sourced, Elsewhere, Unseen
  <2>3. (\A g \in rulings : Founded(g))'
    BY <1>3, <2>1, SourcesStay DEF Founded, Provisional, Aged
  <2> QED BY <1>3, <2>1, <2>2, <2>3 DEF TransactionInv
<1> QED BY <1>1, <1>4, <1>5, <1>6, <1>7, <1>8, <1>9 DEF TransactionNext

(* The tables of reasons agree with the rules in every state.              *)
LEMMA TablesAgree == ReasonTablesAgree
BY DEF ReasonTablesAgree, Decision, EvaluateCryptoTransaction, CryptoVerdict,
       IsTerminalCryptoReason, TerminalCryptoReasons, CryptoMessageForReason

LEMMA VerdictsStand ==
  ASSUME TransactionInv
  PROVE  JudgedOnce
<1> SUFFICES ASSUME part = "transaction"
             PROVE  VerdictStands /\ OnlyUndatedIsForgiven /\ DeepReadingSettles
  BY TablesAgree DEF JudgedOnce
<1>1. /\ signed \in {Null, 1, 2} /\ now \in Nat /\ FinalType /\ Sourced(observed)
      /\ \A g \in rulings : Founded(g)
  BY DEF TransactionInv
<1>2. VerdictStands
  BY <1>1 DEF VerdictStands, Founded, FinalType
<1> DEFINE g == [reason |-> Decision.reason, place |-> Place(observed)]
<1>3. /\ Place(observed) \in {"undated", "dated"} => Decision.action # "wait"
      /\ Place(observed) = "dated" /\ final # Null /\ Aged => Decision.reason # "paid"
      /\ Decision.reason = "paid" => final # Null /\ (Decision.action # "wait" => Founded(g))
  <2> HIDE DEF g
  <2>1. /\ Decision = EvaluateCryptoTransaction(observed, Expected, now)
        /\ g = [reason |-> Decision.reason, place |-> Place(observed)]
    BY DEF Decision, g
  <2> QED BY <1>1, <2>1, TransactionAssumption, DecisionsAreFounded
<1>4. OnlyUndatedIsForgiven
  <2> SUFFICES ASSUME [reason |-> "too_old", place |-> "dated"] \in rulings,
                      Decision.reason = "paid"
               PROVE  Place(observed) = "undated"
    BY DEF OnlyUndatedIsForgiven
  <2>1. final # Null /\ signed # 2
    BY <1>1, <1>3 DEF FinalType
  <2>2. Aged
    BY <1>1, <2>1 DEF Founded, Provisional, Fate
  <2>3. Place(observed) # "dated"
    BY <1>3, <2>1, <2>2
  <2>4. Place(observed) \in {"undated", "dated"}
    BY <1>1, TransactionAssumption
       DEF Decision, EvaluateCryptoTransaction, CryptoVerdict, Place, Expected, Sourced,
           Elsewhere, Pooled, Unseen, Included
  <2> QED BY <2>3, <2>4
<1> QED BY <1>2, <1>3, <1>4 DEF DeepReadingSettles

LEMMA TransactionBegins ==
  ASSUME Init
  PROVE  TransactionInv
BY DEF Init, TransactionInit, TransactionInv, FinalType, Sourced

(* However nodes lag, fork, fail and serve other chains, a transaction is  *)
(* settled in one way: refused for good or taken, until it is too old, for *)
(* every number of confirmations, every price and every age the operator   *)
(* requires.  Only a node of another chain, and a failed receipt that is   *)
(* not deep yet, settle a claim before its transaction is final.  And the  *)
(* two tables kept beside the rules name the reasons and messages of the   *)
(* rules.                                                                  *)
THEOREM ClaimsAreJudgedOnce == Spec => []JudgedOnce
<1>1. TransactionInv /\ [Next]_vars => TransactionInv'
  BY TransactionStep
<1> QED BY <1>1, TransactionBegins, VerdictsStand, PTL DEF Spec

-----------------------------------------------------------------------------
(* The toast of an activation.                                             *)

CardType == [payment : Payment \union {Null}, busy : BOOLEAN, announced : BOOLEAN,
             ticks : Nat, receipt : BOOLEAN, toasts : [Orders -> Nat], resumed : BOOLEAN]

OfferTyped ==
  /\ order \in [Orders -> OrderStatuses \union {Null}]
  /\ card \in CardType
  /\ read \in [Reads -> Poll \union {Null}]
  /\ checkout \in Checkout \union {Null}
  /\ checkout # Null /\ checkout.at = "answer" =>
       checkout.payment \in Payment /\ checkout.payment.status = "pending"

(* The polls under way are about the pending order: the effect they belong *)
(* to is torn down with it.                                                *)
PollsAreCurrent ==
  \A r \in Reads : read[r] # Null => PendingOrder # Null /\ read[r].order = PendingOrder

(* While the page may announce, the order it waits for was not announced.  *)
NotYetTold ==
  ~card.resumed /\ ~card.announced /\ PendingOrder # Null => card.toasts[PendingOrder] = 0

ToldOnce == \A o \in Orders : card.toasts[o] <= 1 \/ card.resumed

OfferInv ==
  part = "offer" => OfferTyped /\ PollsAreCurrent /\ NotYetTold /\ ToldOnce

LEMMA PendingOrderTyped ==
  ASSUME NEW payment \in Payment \union {Null}
  PROVE  /\ PendingOf(payment) \in Orders \union {Null}
         /\ PendingOf(payment) # Null =>
              payment # Null /\ payment.status = "pending" /\ PendingOf(payment) = payment.order
BY OfferAssumption DEF PendingOf, Payment

(* settle leaves the announcement that was due, or makes it.               *)
LEMMA Settled ==
  ASSUME card \in CardType, NEW payment \in Payment, NEW announced \in BOOLEAN
  PROVE  LET new == Settle(payment, announced)
             tell == payment.status = "paid" /\ ~announced IN
         /\ new \in CardType /\ new.payment = payment /\ new.resumed = card.resumed
         /\ new.announced = (announced \/ tell)
         /\ tell => \A o \in Orders : new.toasts[o] =
                      IF o = payment.order THEN card.toasts[o] + 1 ELSE card.toasts[o]
         /\ ~tell => new.toasts = card.toasts
<1> DEFINE tell == payment.status = "paid" /\ ~announced
           told == announced \/ tell
           toasts == IF tell THEN [card.toasts EXCEPT ![payment.order] = @ + 1] ELSE card.toasts
           new == [card EXCEPT !.payment = payment, !.announced = told, !.toasts = toasts]
<1>1. new = Settle(payment, announced)
  BY DEF Settle
<1>2. payment.order \in Orders /\ card.toasts \in [Orders -> Nat]
  BY DEF Payment, CardType
<1>3. toasts \in [Orders -> Nat]
  BY <1>2
<1>4. /\ tell => \A o \in Orders : toasts[o] =
                   IF o = payment.order THEN card.toasts[o] + 1 ELSE card.toasts[o]
      /\ ~tell => toasts = card.toasts
  BY <1>2
<1>5. told \in BOOLEAN
  OBVIOUS
<1> HIDE DEF tell, told, toasts
<1>6. /\ new \in CardType /\ new.payment = payment /\ new.announced = told
      /\ new.toasts = toasts /\ new.resumed = card.resumed
  BY <1>3, <1>5 DEF CardType
<1> QED BY <1>1, <1>4, <1>6 DEF tell, told

LEMMA OfferStep ==
  ASSUME part = "offer", OfferInv, OfferNext, part' = part
  PROVE  OfferInv'
<1> SUFFICES (OfferTyped /\ PollsAreCurrent /\ NotYetTold /\ ToldOnce)'
  BY DEF OfferInv
<1>1. OfferTyped /\ PollsAreCurrent /\ NotYetTold /\ ToldOnce
  BY DEF OfferInv
<1> USE DEF PollsAreCurrent, NotYetTold, ToldOnce, PendingOrder
<1>2. ASSUME NEW r \in Reads, PollTick(r)
      PROVE  (OfferTyped /\ PollsAreCurrent /\ NotYetTold /\ ToldOnce)'
  <2>1. PendingOrder \in Orders /\ card' \in CardType /\ card'.payment = card.payment
        /\ card'.resumed = card.resumed /\ card'.announced = card.announced
        /\ card'.toasts = card.toasts
    BY <1>1, <1>2, PendingOrderTyped DEF PollTick, OfferTyped, CardType
  <2>2. read' = [read EXCEPT ![r] = [order |-> PendingOrder, answer |-> Null]]
    BY <1>2 DEF PollTick
  <2>3. read' \in [Reads -> Poll \union {Null}]
    BY <1>1, <2>1, <2>2 DEF OfferTyped, Poll
  <2>4. PollsAreCurrent'
    BY <1>1, <2>1, <2>2, OfferAssumption DEF OfferTyped
  <2> QED BY <1>1, <1>2, <2>1, <2>3, <2>4 DEF PollTick, OfferTyped
<1>3. ASSUME NEW r \in Reads, ReadFails(r)
      PROVE  (OfferTyped /\ PollsAreCurrent /\ NotYetTold /\ ToldOnce)'
  BY <1>1, <1>3 DEF ReadFails, OfferTyped
<1>4. ASSUME NEW r \in Reads, ReadAnswers(r)
      PROVE  (OfferTyped /\ PollsAreCurrent /\ NotYetTold /\ ToldOnce)'
  <2> DEFINE payment == [order |-> read[r].order, status |-> read[r].answer]
  <2>1. /\ read[r] # Null /\ read[r] \in Poll /\ read[r].answer # Null
        /\ PendingOrder # Null /\ read[r].order = PendingOrder
        /\ UNCHANGED <<order, late, checkout>>
    BY <1>1, <1>4 DEF ReadAnswers, OfferTyped
  <2>2. payment \in Payment /\ payment.order = PendingOrder
    BY <2>1 DEF Poll, Payment
  <2>3. card' = Settle(payment, card.announced) /\ read' = [TornDown(payment) EXCEPT ![r] = Null]
    BY <1>4 DEF ReadAnswers
  <2> HIDE DEF payment
  <2>4. card.announced \in BOOLEAN /\ card \in CardType
    BY <1>1 DEF OfferTyped, CardType
  <2> DEFINE tell == payment.status = "paid" /\ ~card.announced
  <2>5. /\ card' \in CardType /\ card'.payment = payment /\ card'.resumed = card.resumed
        /\ card'.announced = (card.announced \/ tell)
        /\ tell => \A o \in Orders : card'.toasts[o] =
                     IF o = payment.order THEN card.toasts[o] + 1 ELSE card.toasts[o]
        /\ ~tell => card'.toasts = card.toasts
    BY <2>2, <2>3, <2>4, Settled
  <2>6. read' \in [Reads -> Poll \union {Null}] /\ PollsAreCurrent'
    BY <1>1, <2>3, <2>5 DEF TornDown, OfferTyped
  <2>7. NotYetTold'
    BY <1>1, <2>2, <2>5, PendingOrderTyped
  <2>8. ToldOnce'
    <3>1. CASE ~tell
      BY <1>1, <2>5, <3>1
    <3>2. CASE tell
      BY <1>1, <2>1, <2>2, <2>4, <2>5, <3>2 DEF CardType
    <3> QED BY <3>1, <3>2
  <2> QED BY <1>1, <2>1, <2>5, <2>6, <2>7, <2>8 DEF OfferTyped
<1>5. ASSUME NEW r \in Reads, ServeRead(r)
      PROVE  (OfferTyped /\ PollsAreCurrent /\ NotYetTold /\ ToldOnce)'
  <2>1. read[r] \in Poll /\ read[r].order \in Orders /\ read[r].order = PendingOrder
        /\ PendingOrder # Null /\ order[read[r].order] \in OrderStatuses \union {Null}
    BY <1>1, <1>5 DEF ServeRead, OfferTyped, Poll
  <2> DEFINE new == [read[r] EXCEPT !.answer = order[read[r].order]]
  <2>2. read' = [read EXCEPT ![r] = new]
    BY <1>5 DEF ServeRead
  <2>3. new \in Poll /\ new.order = read[r].order
    BY <2>1 DEF Poll
  <2> QED BY <1>1, <1>5, <2>1, <2>2, <2>3 DEF ServeRead, OfferTyped
<1>6. CASE StartCheckout
  <2>1. card' \in CardType /\ card'.payment = card.payment
        /\ card'.resumed = card.resumed /\ card'.announced = card.announced
        /\ card'.toasts = card.toasts
    BY <1>1, <1>6 DEF StartCheckout, OfferTyped, CardType
  <2>2. checkout' \in Checkout /\ checkout'.at = "sent"
    BY <1>6 DEF StartCheckout, Checkout
  <2> QED BY <1>1, <1>6, <2>1, <2>2 DEF StartCheckout, OfferTyped
<1>7. CASE CheckoutAnswers
  <2> DEFINE payment == checkout.payment
             resumed == card.resumed \/ card.toasts[payment.order] > 0
             new == Settle(payment, FALSE)
  <2>1. /\ payment \in Payment /\ payment.status = "pending" /\ checkout' = Null
        /\ payment.order \in Orders
    BY <1>1, <1>7 DEF CheckoutAnswers, OfferTyped, Payment
  <2>2. /\ new \in CardType /\ new.payment = payment /\ new.resumed = card.resumed
        /\ new.announced = FALSE /\ new.toasts = card.toasts /\ card \in CardType
    BY <1>1, <2>1, Settled DEF OfferTyped
  <2>3. card' = [new EXCEPT !.ticks = 0, !.busy = FALSE,
                            !.resumed = @ \/ card.toasts[payment.order] > 0]
    BY <1>7 DEF CheckoutAnswers
  <2> HIDE DEF new
  <2>4. card' = [new EXCEPT !.ticks = 0, !.busy = FALSE, !.resumed = resumed]
    BY <2>2, <2>3
  <2>5. resumed \in BOOLEAN /\ (~resumed => ~card.resumed /\ card.toasts[payment.order] = 0)
        /\ (card.resumed => resumed)
    BY <2>1, <2>2 DEF CardType
  <2> HIDE DEF resumed
  <2>6. /\ card' \in CardType /\ card'.payment = payment /\ card'.resumed = resumed
        /\ card'.toasts = card.toasts
    BY <2>2, <2>4, <2>5 DEF CardType
  <2>7. read' \in [Reads -> Poll \union {Null}] /\ PollsAreCurrent'
    BY <1>1, <1>7, <2>6 DEF CheckoutAnswers, TornDown, OfferTyped
  <2>8. NotYetTold' /\ ToldOnce'
    BY <1>1, <2>1, <2>5, <2>6, PendingOrderTyped
  <2> QED BY <1>1, <1>7, <2>1, <2>6, <2>7, <2>8 DEF CheckoutAnswers, OfferTyped
<1>8. CASE CheckoutFails \/ RouterRefresh
  <2>1. card' \in CardType /\ card'.payment = card.payment
        /\ card'.resumed = card.resumed /\ card'.announced = card.announced
        /\ card'.toasts = card.toasts
    BY <1>1, <1>8 DEF CheckoutFails, RouterRefresh, OfferTyped, CardType
  <2> QED BY <1>1, <1>8, <2>1 DEF CheckoutFails, RouterRefresh, OfferTyped
<1>9. CASE ReadOpenOrder \/ CreateOrder \/ LoseCheckout
  <2>1. checkout # Null /\ checkout \in Checkout
    BY <1>1, <1>9 DEF ReadOpenOrder, CreateOrder, LoseCheckout, OfferTyped
  <2>2. \/ checkout' \in {[checkout EXCEPT !.at = "refused"], [checkout EXCEPT !.at = "charge"]}
        \/ \E o \in Orders :
             checkout' = [at |-> "answer", payment |-> [order |-> o, status |-> "pending"]]
    BY <1>9 DEF ReadOpenOrder, CreateOrder, LoseCheckout
  <2>3. /\ checkout' \in Checkout
        /\ checkout'.at = "answer" =>
             checkout'.payment \in Payment /\ checkout'.payment.status = "pending"
    BY <2>1, <2>2 DEF Checkout, Payment, OrderStatuses
  <2>4. order' \in [Orders -> OrderStatuses \union {Null}]
    BY <1>1, <1>9 DEF ReadOpenOrder, CreateOrder, LoseCheckout, OfferTyped, OrderStatuses
  <2> QED BY <1>1, <1>9, <2>3, <2>4 DEF ReadOpenOrder, CreateOrder, LoseCheckout, OfferTyped
<1>10. ASSUME NEW o \in Orders, SettleOrder(o) \/ Lapse(o)
       PROVE  (OfferTyped /\ PollsAreCurrent /\ NotYetTold /\ ToldOnce)'
  BY <1>1, <1>10 DEF SettleOrder, Lapse, OfferTyped, OrderStatuses
<1> QED BY <1>2, <1>3, <1>4, <1>5, <1>6, <1>7, <1>8, <1>9, <1>10 DEF OfferNext
LEMMA OfferBegins ==
  ASSUME Init
  PROVE  OfferInv
<1> SUFFICES ASSUME part = "offer"
             PROVE  OfferTyped /\ PollsAreCurrent /\ NotYetTold /\ ToldOnce
  BY DEF OfferInv
<1>1. OfferInit
  BY DEF Init
<1>2. PICK latest \in {Null} \union Orders, status \in {"pending", "failed"} :
        /\ order = [o \in Orders |-> IF o = latest THEN status ELSE Null]
        /\ card = [payment |-> IF latest = Null THEN Null
                               ELSE [order |-> latest, status |-> status],
                   busy |-> FALSE, announced |-> FALSE, ticks |-> 0, receipt |-> FALSE,
                   toasts |-> [o \in Orders |-> 0], resumed |-> FALSE]
  BY <1>1 DEF OfferInit
<1>3. card \in CardType /\ card.toasts = [o \in Orders |-> 0]
  BY <1>2 DEF CardType, Payment, OrderStatuses
<1>4. OfferTyped /\ PollsAreCurrent
  BY <1>1, <1>2, <1>3 DEF OfferInit, OfferTyped, PollsAreCurrent, OrderStatuses
<1>5. PendingOrder # Null => PendingOrder \in Orders
  BY <1>3, PendingOrderTyped DEF PendingOrder, CardType
<1> QED BY <1>3, <1>4, <1>5 DEF NotYetTold, ToldOnce

(* However polls and checkouts overlap, an order is announced once, unless *)
(* a checkout was answered with an order already announced.                *)
THEOREM ActivationsAreAnnouncedOnce == Spec => []ActivationIsAnnouncedOnce
<1>1. OfferInv /\ [Next]_vars => OfferInv'
  <2> SUFFICES ASSUME OfferInv, [Next]_vars, part = "offer"
               PROVE  OfferInv'
    BY DEF OfferInv, Next, vars
  <2>1. part' = part /\ (OfferNext \/ UNCHANGED offerVars)
    BY DEF Next, vars
  <2>2. CASE UNCHANGED offerVars
    BY <2>1, <2>2 DEF offerVars, OfferInv, OfferTyped, PollsAreCurrent, NotYetTold, ToldOnce,
                      PendingOrder
  <2> QED BY <2>1, <2>2, OfferStep
<1>2. OfferInv => ActivationIsAnnouncedOnce
  BY DEF OfferInv, ToldOnce, ActivationIsAnnouncedOnce
<1> QED BY <1>1, <1>2, OfferBegins, PTL DEF Spec
-----------------------------------------------------------------------------
(* The wallet panel.                                                       *)

WalletType == [account : Payers \union {Null}, chain : Chains, moves : Nat, sent : Nat,
               strayed : BOOLEAN, news : Seq(Announcement)]

WalletTyped ==
  /\ wallet \in WalletType /\ panel \in Panel
  /\ click \in [Clicks -> Click]
  /\ reading \in [Readings -> Reading \union {Null}]
  /\ verdict \in [Verdicts -> Clicks \union {Pasted, Null}]

(* A handler is where its kind can be.                                     *)
Shape(h) ==
  /\ h.at = "idle" => h.op = "none"
  /\ h.op = "none" => h = Resting
  /\ h.at \in {"ask", "refresh"} => h.op \in {"connect", "switch"}
  /\ h.at = "granted" => h.op = "connect"
  /\ h.at \in {"chain", "prompt", "submit", "again"} => h.op = "pay"
  /\ h.op \in {"switch", "pay"} => h.account # Null

(* A prompt is up only for the network required, and if the wallet has     *)
(* left it since, it was the payer who changed it.                         *)
Asked(h) ==
  /\ h.at = "prompt" => h.seen = "required"
  /\ h.op = "pay" /\ h.seen = "required" => wallet.chain = "required" \/ h.moved

(* Readings and verdicts answer to the handlers that wait for them.        *)
ReadersWait ==
  /\ \A r \in Readings : reading[r] # Null /\ reading[r].for # Null =>
       click[reading[r].for].at = "refresh"
  /\ \A r, s \in Readings :
       reading[r] # Null /\ reading[s] # Null /\ reading[r].for # Null
         /\ reading[r].for = reading[s].for => r = s

JudgesWait ==
  /\ \A v \in Verdicts : verdict[v] \in Clicks => click[verdict[v]].at = "submit"
  /\ \A u, v \in Verdicts : verdict[u] \in Clicks /\ verdict[u] = verdict[v] => u = v

StageOf(op) ==
  CASE op = "connect" -> "connecting" [] op = "switch" -> "switching" [] OTHER -> "waiting"

Current(h) == h.at \in {"ask", "granted", "refresh", "chain", "prompt"}
Unconnected(h) == h.op = "connect" /\ h.at \in {"ask", "granted"}

(* What keeps the button locked: the stage names the one handler that is   *)
(* asking, and a verification under way shows as verifying.                *)
Locked ==
  /\ \A k, l \in Clicks : Current(click[k]) /\ Current(click[l]) => k = l
  /\ \A k \in Clicks : Current(click[k]) => panel.stage = StageOf(click[k].op)
  /\ panel.account = Null => \A k \in Clicks :
       click[k] = Resting \/ Unconnected(click[k])
  /\ (\E v \in Verdicts : verdict[v] # Null) => panel.verifying
  /\ \A k \in Clicks : click[k].at = "submit" => \E v \in Verdicts : verdict[v] = k
  /\ \A k, l \in Paying : k = l

WalletParts ==
  /\ WalletTyped
  /\ \A k \in Clicks : Shape(click[k]) /\ Asked(click[k])
  /\ ReadersWait /\ JudgesWait
  /\ ~wallet.strayed
  /\ ~panel.unlocked => Locked

WalletInv == part = "wallet" => WalletParts

(* A refresh adds a reading for the handler that asked, and blurs at most. *)
LEMMA Refreshing ==
  ASSUME WalletTyped, NEW account \in Payers, NEW for \in Clicks \union {Null},
         NEW p \in Panel, Refresh(account, for, p)
  PROVE  /\ panel' \in Panel /\ panel'.stage = p.stage /\ panel'.account = p.account
         /\ panel'.verifying = p.verifying /\ panel'.unlocked = p.unlocked
         /\ panel'.unheard = p.unheard
         /\ \E r \in Readings :
              /\ reading[r] = Null
              /\ reading' = [reading EXCEPT ![r] = [account |-> account, seen |-> Null,
                                                    for |-> for, chained |-> FALSE]]
         /\ reading' \in [Readings -> Reading \union {Null}]
<1> DEFINE r == CHOOSE s \in Free(Readings, reading, Null) : TRUE
           blurred == \/ Free(Readings, reading, Null) # Readings
                      \/ \E k \in Clicks : click[k].at = "again"
                      \/ account # p.account
           new == [account |-> account, seen |-> Null, for |-> for, chained |-> FALSE]
<1>1. r \in Readings /\ reading[r] = Null
  <2>1. r \in Free(Readings, reading, Null)
    BY DEF Refresh
  <2> QED BY <2>1 DEF Free
<1>2. panel' = [p EXCEPT !.blurred = blurred] /\ reading' = [reading EXCEPT ![r] = new]
  BY DEF Refresh
<1>3. blurred \in BOOLEAN
  OBVIOUS
<1> HIDE DEF blurred, r
<1>4. /\ panel' \in Panel /\ panel'.stage = p.stage /\ panel'.account = p.account
      /\ panel'.verifying = p.verifying /\ panel'.unlocked = p.unlocked
      /\ panel'.unheard = p.unheard
  BY <1>2, <1>3 DEF Panel
<1>5. new \in Reading
  BY DEF Reading
<1>6. reading' \in [Readings -> Reading \union {Null}]
  BY <1>1, <1>2, <1>5 DEF WalletTyped
<1> QED BY <1>1, <1>2, <1>4, <1>6

(* A click takes a resting handler.                                        *)
LEMMA Clicking ==
  ASSUME WalletTyped, NEW op \in {"connect", "switch", "pay"}, NEW at \in {"ask", "chain"},
         NEW stage \in {"connecting", "switching", "waiting"}, BeginClick(op, at, stage)
  PROVE  /\ panel' \in Panel /\ panel'.stage = stage /\ panel'.account = panel.account
         /\ panel'.verifying = panel.verifying /\ panel'.unlocked = panel.unlocked
         /\ \E k \in Clicks, h \in Click :
              /\ click[k] = Resting /\ click' = [click EXCEPT ![k] = h]
              /\ h.op = op /\ h.at = at /\ h.account = panel.account /\ h.seen = Null
         /\ click' \in [Clicks -> Click]
         /\ UNCHANGED <<wallet, reading, verdict>>
<1> DEFINE k == CHOOSE s \in Free(Clicks, click, Resting) : TRUE
           h == [Resting EXCEPT !.op = op, !.at = at, !.account = panel.account]
<1>1. k \in Clicks /\ click[k] = Resting
  <2>1. k \in Free(Clicks, click, Resting)
    BY DEF BeginClick
  <2> QED BY <2>1 DEF Free
<1>2. click' = [click EXCEPT ![k] = h] /\ panel' = [panel EXCEPT !.stage = stage, !.listens = panel.account]
  BY DEF BeginClick
<1> HIDE DEF k
<1>3. Resting \in Click /\ Resting.seen = Null /\ panel.account \in Payers \union {Null}
  BY DEF Click, Resting, WalletTyped, Panel
<1>4. /\ h \in Click /\ h.op = op /\ h.at = at /\ h.account = panel.account
      /\ h.seen = Null
  BY <1>3 DEF Click
<1> HIDE DEF h
<1>5. click' \in [Clicks -> Click]
  BY <1>1, <1>2, <1>4 DEF WalletTyped
<1>6. /\ panel' \in Panel /\ panel'.stage = stage /\ panel'.account = panel.account
      /\ panel'.verifying = panel.verifying /\ panel'.unlocked = panel.unlocked
  BY <1>2 DEF WalletTyped, Panel
<1> QED BY <1>1, <1>2, <1>4, <1>5, <1>6 DEF BeginClick
-----------------------------------------------------------------------------
(* Each step of the wallet part keeps WalletParts.                         *)

LEMMA ClickConnectKeeps ==
  ASSUME WalletParts, ClickConnect
  PROVE  WalletParts'
<1>1. /\ panel' \in Panel /\ panel'.stage = "connecting" /\ panel'.account = panel.account
      /\ panel'.verifying = panel.verifying /\ panel'.unlocked = panel.unlocked
      /\ click' \in [Clicks -> Click] /\ UNCHANGED <<wallet, reading, verdict>>
  BY Clicking DEF ClickConnect, WalletParts
<1>2. PICK k \in Clicks, h \in Click :
        /\ click[k] = Resting /\ click' = [click EXCEPT ![k] = h]
        /\ h.op = "connect" /\ h.at = "ask" /\ h.account = panel.account /\ h.seen = Null
  BY Clicking DEF ClickConnect, WalletParts
<1>3. click'[k] = h /\ \A l \in Clicks : l # k => click'[l] = click[l]
  BY <1>2 DEF WalletParts, WalletTyped
<1>4. Resting.at = "idle" /\ Resting.op = "none"
  BY DEF Resting
<1>5. WalletTyped' /\ ~wallet'.strayed
  BY <1>1 DEF WalletParts, WalletTyped
<1>6. \A l \in Clicks : Shape(click'[l]) /\ Asked(click[l])'
  BY <1>1, <1>2, <1>3 DEF WalletParts, Shape, Asked
<1>7. ReadersWait' /\ JudgesWait'
  BY <1>1, <1>2, <1>3, <1>4 DEF WalletParts, ReadersWait, JudgesWait, WalletTyped, Reading
<1>8. ASSUME ~panel'.unlocked
      PROVE  Locked'
  <2>1. Locked /\ panel.account = Null /\ panel.stage # "connecting"
    BY <1>1, <1>8 DEF WalletParts, ClickConnect
  <2>2. \A l \in Clicks : click[l] = Resting
    BY <2>1 DEF Locked, Current, StageOf, Unconnected
  <2> QED BY <1>1, <1>2, <1>3, <1>4, <2>1, <2>2 DEF Locked, Current, StageOf, Paying, Unconnected
<1> QED BY <1>5, <1>6, <1>7, <1>8 DEF WalletParts

LEMMA ClickOtherKeeps ==
  ASSUME WalletParts, ClickSwitch \/ ClickPay
  PROVE  WalletParts'
<1>1. PICK op \in {"switch", "pay"}, at \in {"ask", "chain"},
           stage \in {"switching", "waiting"} :
        /\ BeginClick(op, at, stage) /\ stage = StageOf(op)
        /\ (op = "switch" /\ at = "ask") \/ (op = "pay" /\ at = "chain")
  BY DEF ClickSwitch, ClickPay, StageOf
<1>2. panel.account # Null /\ ~Busy
  BY DEF ClickSwitch, ClickPay
<1>3. /\ panel' \in Panel /\ panel'.stage = stage /\ panel'.account = panel.account
      /\ panel'.verifying = panel.verifying /\ panel'.unlocked = panel.unlocked
      /\ click' \in [Clicks -> Click] /\ UNCHANGED <<wallet, reading, verdict>>
  BY <1>1, Clicking DEF WalletParts
<1>4. PICK k \in Clicks, h \in Click :
        /\ click[k] = Resting /\ click' = [click EXCEPT ![k] = h]
        /\ h.op = op /\ h.at = at /\ h.account = panel.account /\ h.seen = Null
  BY <1>1, Clicking DEF WalletParts
<1>5. click'[k] = h /\ \A l \in Clicks : l # k => click'[l] = click[l]
  BY <1>4 DEF WalletParts, WalletTyped
<1>6. Resting.at = "idle" /\ Resting.op = "none"
  BY DEF Resting
<1>7. WalletTyped' /\ ~wallet'.strayed
  BY <1>3 DEF WalletParts, WalletTyped
<1>8. \A l \in Clicks : Shape(click'[l]) /\ Asked(click[l])'
  BY <1>1, <1>2, <1>3, <1>4, <1>5, WalletAssumption DEF WalletParts, Shape, Asked, Chains
<1>9. ReadersWait' /\ JudgesWait'
  BY <1>3, <1>4, <1>5, <1>6 DEF WalletParts, ReadersWait, JudgesWait, WalletTyped, Reading
<1>10. ASSUME ~panel'.unlocked
       PROVE  Locked'
  <2>1. Locked
    BY <1>3, <1>10 DEF WalletParts
  <2>2. \A v \in Verdicts : verdict[v] = Null
    BY <1>2, <2>1 DEF Locked, Busy
  <2>3. \A l \in Clicks : ~Current(click[l]) /\ click[l].at # "submit"
    <3>1. \A l \in Clicks : click[l].at # "submit"
      BY <2>1, <2>2, WalletAssumption DEF Locked
    <3>2. \A l \in Clicks : ~Current(click[l])
      BY <1>2, <2>1 DEF Locked, Busy, StageOf
    <3> QED BY <3>1, <3>2
  <2>4. \A l \in Clicks : click[l].op = "pay" => click[l].at = "again"
    BY <2>3 DEF WalletParts, WalletTyped, Shape, Current, Click
  <2>5. \A l \in Paying' : l = k
    BY <1>5, <2>4 DEF Paying
  <2>6. /\ \A l \in Clicks : Current(click'[l]) => l = k
        /\ Current(click'[k]) => panel'.stage = StageOf(click'[k].op)
    BY <1>1, <1>3, <1>4, <1>5, <2>3 DEF Current
  <2>7. \A l \in Clicks : click'[l].at # "submit"
    BY <1>1, <1>4, <1>5, <2>3
  <2> QED BY <1>2, <1>3, <2>2, <2>5, <2>6, <2>7 DEF Locked
<1> QED BY <1>7, <1>8, <1>9, <1>10 DEF WalletParts
(* A step that leaves the handlers and the verdicts alone.                 *)
LEMMA Beside ==
  ASSUME WalletParts, UNCHANGED <<click, verdict>>,
         wallet' \in WalletType, wallet'.chain = wallet.chain, wallet'.strayed = wallet.strayed,
         panel' \in Panel, panel'.stage = panel.stage, panel'.verifying = panel.verifying,
         panel'.unlocked = panel.unlocked, panel'.account = panel.account \/ panel'.account # Null,
         reading' \in [Readings -> Reading \union {Null}], ReadersWait'
  PROVE  WalletParts'
<1>1. WalletTyped' /\ ~wallet'.strayed
  BY DEF WalletParts, WalletTyped
<1>2. \A k \in Clicks : Shape(click'[k]) /\ Asked(click[k])'
  BY DEF WalletParts, Asked
<1>3. JudgesWait'
  BY DEF WalletParts, JudgesWait
<1>4. ~panel'.unlocked => Locked'
  BY DEF WalletParts, Locked, Paying
<1> QED BY <1>1, <1>2, <1>3, <1>4 DEF WalletParts

(* A handler that was not submitting lets go: it rests, or only reads the  *)
(* network once more.  If it was asking, the stage is free to change.      *)
LEMMA Released ==
  ASSUME WalletParts, NEW k \in Clicks, NEW h \in Click, click' = [click EXCEPT ![k] = h],
         h = Resting \/ (h.op = "pay" /\ h.at = "again" /\ h.seen = Null /\ h.account # Null
                           /\ click[k].op = "pay"),
         click[k].at # "submit", Current(click[k]) \/ panel'.stage = panel.stage,
         wallet' \in WalletType, wallet'.chain = wallet.chain, ~wallet'.strayed,
         panel' \in Panel, panel'.verifying = panel.verifying, panel'.account = panel.account,
         panel'.unlocked = panel.unlocked, verdict' = verdict,
         reading' \in [Readings -> Reading \union {Null}],
         \A r \in Readings : reading'[r] # Null =>
           reading[r] # Null /\ reading'[r].for = reading[r].for /\ reading'[r].for # k
  PROVE  WalletParts'
<1>1. click'[k] = h /\ (\A l \in Clicks : l # k => click'[l] = click[l])
      /\ click' \in [Clicks -> Click] /\ k # Null
  BY WalletAssumption DEF WalletParts, WalletTyped
<1>2. Resting.at = "idle" /\ Resting.op = "none"
  BY DEF Resting
<1>3. h.at \in {"idle", "again"} /\ Shape(h) /\ Asked(h)'
  BY <1>2, WalletAssumption DEF Shape, Asked, Chains
<1>4. WalletTyped' /\ \A l \in Clicks : Shape(click'[l]) /\ Asked(click[l])'
  BY <1>1, <1>3 DEF WalletParts, WalletTyped, Asked
<1>5. ReadersWait'
  <2>1. \A r \in Readings : reading'[r] # Null /\ reading'[r].for # Null => reading'[r].for \in Clicks
    BY DEF Reading
  <2> QED BY <1>1, <2>1 DEF WalletParts, ReadersWait
<1>6. JudgesWait'
  BY <1>1 DEF WalletParts, JudgesWait
<1>7. ASSUME ~panel'.unlocked
      PROVE  Locked'
  <2>1. Locked
    BY <1>7 DEF WalletParts
  <2>2. Paying' \subseteq Paying
    BY <1>1, <1>2 DEF Paying
  <2>3. \A l \in Clicks : Current(click'[l]) => l # k /\ Current(click[l])
    BY <1>1, <1>3 DEF Current
  <2>4. \A l \in Clicks : Current(click'[l]) => panel'.stage = panel.stage
    BY <2>1, <2>3 DEF Locked
  <2>5. \A l \in Clicks : Current(click'[l]) => panel'.stage = StageOf(click'[l].op)
    BY <1>1, <2>1, <2>3, <2>4 DEF Locked
  <2>6. panel'.account = Null => \A l \in Clicks :
          click'[l] = Resting \/ Unconnected(click'[l])
    BY <1>1, <1>2, <2>1 DEF Locked, Unconnected
  <2>7. \A l \in Clicks : click'[l].at = "submit" => \E v \in Verdicts : verdict'[v] = l
    BY <1>1, <1>3, <2>1 DEF Locked
  <2> QED BY <2>1, <2>2, <2>3, <2>5, <2>6, <2>7 DEF Locked
<1> QED BY <1>4, <1>5, <1>6, <1>7 DEF WalletParts

(* A handler passes on to another await of its own, where it still asks.   *)
LEMMA PassedOn ==
  ASSUME WalletParts, NEW k \in Clicks, NEW h \in Click, click' = [click EXCEPT ![k] = h],
         Shape(h), Asked(click[k])', h.op = click[k].op, h.at # "submit", click[k].at # "submit",
         Current(h) = Current(click[k]),
         h.at = click[k].at \/ h.at = "granted" \/ panel'.account # Null \/ panel'.unlocked,
         wallet' \in WalletType, ~wallet'.strayed, wallet'.chain \in {wallet.chain, "required"},
         panel' \in Panel, panel'.stage = panel.stage, panel'.verifying = panel.verifying,
         panel'.unlocked = panel.unlocked, panel'.account = panel.account \/ panel'.account # Null,
         verdict' = verdict,
         reading' \in [Readings -> Reading \union {Null}], ReadersWait'
  PROVE  WalletParts'
<1>1. click'[k] = h /\ (\A l \in Clicks : l # k => click'[l] = click[l])
      /\ click' \in [Clicks -> Click]
  BY DEF WalletParts, WalletTyped
<1>2. WalletTyped' /\ \A l \in Clicks : Shape(click'[l]) /\ Asked(click[l])'
  BY <1>1 DEF WalletParts, WalletTyped, Asked
<1>3. JudgesWait'
  BY <1>1 DEF WalletParts, JudgesWait
<1>4. ASSUME ~panel'.unlocked
      PROVE  Locked'
  <2>1. Locked
    BY <1>4 DEF WalletParts
  <2>2. \A l \in Clicks : Current(click'[l]) = Current(click[l]) /\ click'[l].op = click[l].op
    BY <1>1
  <2>3. Paying' \subseteq Paying
    <3>1. h.op = "pay" /\ h.at # "again" => Current(h)
      BY DEF Shape, Current, Click
    <3>2. \A l \in Clicks : click'[l].op = "pay" /\ click'[l].at # "again"
                            => click[l].op = "pay" /\ click[l].at # "again"
      BY <1>1, <3>1 DEF Current
    <3> QED BY <3>2 DEF Paying
  <2>4. panel'.account = Null => \A l \in Clicks :
          click'[l] = Resting \/ Unconnected(click'[l])
    <3> SUFFICES ASSUME panel'.account = Null, NEW l \in Clicks
                 PROVE  click'[l] = Resting \/ Unconnected(click'[l])
      OBVIOUS
    <3>1. click[l] = Resting \/ Unconnected(click[l])
      BY <2>1 DEF Locked
    <3>2. CASE l # k
      BY <1>1, <3>1, <3>2
    <3>3. CASE l = k /\ h.at = "granted"
      BY <1>1, <3>3 DEF Shape, Unconnected
    <3>4. CASE l = k /\ h.at = click[k].at
      BY <1>1, <3>1, <3>4 DEF Shape, Resting, Unconnected
    <3> QED BY <1>4, <3>2, <3>3, <3>4
  <2>5. \A l \in Clicks : click'[l].at = "submit" => \E v \in Verdicts : verdict'[v] = l
    BY <1>1, <2>1 DEF Locked
  <2> QED BY <2>1, <2>2, <2>3, <2>4, <2>5 DEF Locked
<1> QED BY <1>2, <1>3, <1>4 DEF WalletParts

(* Steps that leave the handlers alone.                                    *)
LEMMA ChainAnsweredKeeps ==
  ASSUME WalletParts, NEW r \in Readings, ChainAnswered(r)
  PROVE  WalletParts'
<1> DEFINE answered == [reading[r] EXCEPT !.seen = wallet.chain]
<1>1. reading[r] \in Reading /\ wallet.chain \in Chains
  BY DEF ChainAnswered, WalletParts, WalletTyped, WalletType
<1>2. answered \in Reading /\ answered.for = reading[r].for
  BY <1>1 DEF Reading
<1>3. reading' = [reading EXCEPT ![r] = answered]
  BY DEF ChainAnswered
<1> HIDE DEF answered
<1>4. reading' \in [Readings -> Reading \union {Null}]
  BY <1>2, <1>3 DEF WalletParts, WalletTyped
<1>5. \A s \in Readings : reading'[s] # Null =>
        reading[s] # Null /\ reading'[s].for = reading[s].for
  BY <1>2, <1>3 DEF WalletParts, WalletTyped, ChainAnswered
<1>6. UNCHANGED <<wallet, panel, click, verdict>>
  BY DEF ChainAnswered
<1>7. ReadersWait'
  BY <1>5, <1>6 DEF WalletParts, ReadersWait
<1> QED BY <1>4, <1>6, <1>7, Beside DEF WalletParts, WalletTyped

LEMMA RefreshBeside ==
  ASSUME WalletParts, NEW account \in Payers, NEW p \in Panel,
         p.stage = panel.stage, p.verifying = panel.verifying,
         p.unlocked = panel.unlocked, p.account = panel.account \/ p.account # Null,
         Refresh(account, Null, p), UNCHANGED <<click, verdict>>,
         wallet' \in WalletType, wallet'.chain = wallet.chain, wallet'.strayed = wallet.strayed
  PROVE  WalletParts'
<1>1. /\ panel' \in Panel /\ panel'.stage = p.stage /\ panel'.account = p.account
      /\ panel'.verifying = p.verifying /\ panel'.unlocked = p.unlocked
      /\ reading' \in [Readings -> Reading \union {Null}]
  BY Refreshing DEF WalletParts
<1>2. PICK r \in Readings :
        reading' = [reading EXCEPT ![r] = [account |-> account, seen |-> Null,
                                           for |-> Null, chained |-> FALSE]]
  BY Refreshing DEF WalletParts
<1>3. \A s \in Readings : reading'[s] # Null /\ reading'[s].for # Null =>
        reading[s] # Null /\ reading'[s].for = reading[s].for
  BY <1>2 DEF WalletParts, WalletTyped
<1>4. ReadersWait'
  BY <1>3 DEF WalletParts, ReadersWait
<1> QED BY <1>1, <1>4, Beside

LEMMA HeardNews ==
  ASSUME WalletParts, wallet.news # <<>>, Heard(wallet.news)
  PROVE  /\ wallet' \in WalletType /\ wallet'.chain = wallet.chain
         /\ wallet'.strayed = wallet.strayed /\ Head(wallet.news) \in Announcement
<1>1. wallet \in WalletType /\ wallet.news \in Seq(Announcement)
  BY DEF WalletParts, WalletTyped, WalletType
<1>2. Tail(wallet.news) \in Seq(Announcement) /\ Head(wallet.news) \in Announcement
  BY <1>1
<1> DEFINE rest == Tail(wallet.news)
<1>3. wallet' = [wallet EXCEPT !.news = rest]
  BY DEF Heard
<1> HIDE DEF rest
<1>4. rest \in Seq(Announcement)
  BY <1>2 DEF rest
<1> QED BY <1>1, <1>2, <1>3, <1>4 DEF WalletType

LEMMA HearingKeeps ==
  ASSUME WalletParts, HearAccounts \/ HearChain \/ HearNothing \/ Attach
  PROVE  WalletParts'
<1>1. panel \in Panel /\ wallet \in WalletType
  BY DEF WalletParts, WalletTyped
<1>2. ASSUME wallet.news # <<>>, Heard(wallet.news)
      PROVE  /\ wallet' \in WalletType /\ wallet'.chain = wallet.chain
             /\ wallet'.strayed = wallet.strayed /\ Head(wallet.news) \in Announcement
  BY <1>2, HeardNews
<1>3. CASE HearAccounts
  <2> DEFINE account == Head(wallet.news).account
             unheard == Granted # {}
             p == [panel EXCEPT !.account = account, !.unheard = unheard]
  <2>1. /\ wallet' \in WalletType /\ wallet'.chain = wallet.chain
        /\ wallet'.strayed = wallet.strayed /\ Head(wallet.news) \in Announcement
    BY <1>2, <1>3 DEF HearAccounts
  <2>2. account \in Payers
    BY <1>3, <2>1 DEF HearAccounts, Announcement
  <2>3. Refresh(account, Null, p) /\ UNCHANGED <<click, verdict>>
    BY <1>3 DEF HearAccounts
  <2>4. unheard \in BOOLEAN
    OBVIOUS
  <2> HIDE DEF account, unheard
  <2>5. /\ p \in Panel /\ p.stage = panel.stage /\ p.verifying = panel.verifying
        /\ p.unlocked = panel.unlocked /\ p.account # Null
    BY <1>1, <2>2, <2>4, WalletAssumption DEF Panel
  <2> HIDE DEF p
  <2> QED BY <2>1, <2>2, <2>3, <2>5, RefreshBeside
<1>4. CASE HearChain
  <2>1. panel.listens \in Payers
    BY <1>1, <1>4 DEF HearChain, Panel
  <2>2. /\ wallet' \in WalletType /\ wallet'.chain = wallet.chain
        /\ wallet'.strayed = wallet.strayed
    BY <1>2, <1>4 DEF HearChain
  <2> QED BY <1>1, <1>4, <2>1, <2>2, RefreshBeside DEF HearChain
<1>5. CASE HearNothing
  <2> DEFINE unheard == panel.unheard \/ panel.account # Null
                        \/ (Head(wallet.news).news = "accounts" /\ Granted # {})
  <2>1. UNCHANGED <<click, reading, verdict>> /\ panel' = [panel EXCEPT !.unheard = unheard]
    BY <1>5 DEF HearNothing
  <2>2. unheard \in BOOLEAN
    BY <1>1 DEF Panel
  <2> HIDE DEF unheard
  <2>3. /\ panel' \in Panel /\ panel'.stage = panel.stage
        /\ panel'.verifying = panel.verifying /\ panel'.unlocked = panel.unlocked
        /\ panel'.account = panel.account
    BY <1>1, <2>1, <2>2 DEF Panel
  <2>4. ReadersWait'
    BY <2>1 DEF WalletParts, ReadersWait
  <2>5. /\ wallet' \in WalletType /\ wallet'.chain = wallet.chain
        /\ wallet'.strayed = wallet.strayed
    BY <1>2, <1>5 DEF HearNothing
  <2> QED BY <2>1, <2>3, <2>4, <2>5, Beside DEF WalletParts, WalletTyped
<1>6. CASE Attach
  <2>1. UNCHANGED <<wallet, click, reading, verdict>>
        /\ panel' = [panel EXCEPT !.listens = panel.account]
    BY <1>6 DEF Attach
  <2>2. /\ panel' \in Panel /\ panel'.stage = panel.stage
        /\ panel'.verifying = panel.verifying /\ panel'.unlocked = panel.unlocked
        /\ panel'.account = panel.account
    BY <1>1, <2>1 DEF Panel
  <2>3. ReadersWait'
    BY <2>1 DEF WalletParts, ReadersWait
  <2> QED BY <1>1, <2>1, <2>2, <2>3, Beside DEF WalletParts, WalletTyped
<1> QED BY <1>3, <1>4, <1>5, <1>6

(* The payer moves on: the announcement queues up.                         *)
LEMMA Moving ==
  ASSUME WalletParts, NEW account \in Payers \union {Null}, NEW chain \in Chains,
         NEW news \in Announcement,
         Move([wallet EXCEPT !.account = account, !.chain = chain], news)
  PROVE  /\ wallet' \in WalletType /\ wallet'.chain = chain
         /\ wallet'.strayed = wallet.strayed /\ UNCHANGED <<panel, reading, verdict>>
<1>1. wallet \in WalletType /\ wallet.moves + 1 \in Nat
      /\ Append(wallet.news, news) \in Seq(Announcement)
  BY DEF WalletParts, WalletTyped, WalletType
<1> DEFINE more == Append(wallet.news, news)
           moves == wallet.moves + 1
           w == [wallet EXCEPT !.account = account, !.chain = chain]
<1>2. w \in WalletType /\ w.moves = wallet.moves /\ w.news = wallet.news /\ w.chain = chain
      /\ w.strayed = wallet.strayed
  BY <1>1 DEF WalletType
<1>3. wallet' = [w EXCEPT !.moves = moves, !.news = more]
  BY <1>2 DEF Move
<1>4. more \in Seq(Announcement) /\ moves \in Nat
  BY <1>1
<1> HIDE DEF w, more, moves
<1>5. wallet' \in WalletType /\ wallet'.chain = chain /\ wallet'.strayed = wallet.strayed
  BY <1>2, <1>3, <1>4 DEF WalletType
<1> QED BY <1>5 DEF Move

LEMMA MoveAccountKeeps ==
  ASSUME WalletParts, NEW account \in Payers \union {Null}, MoveAccount(account)
  PROVE  WalletParts'
<1> DEFINE news == [news |-> "accounts", account |-> account]
<1>1. news \in Announcement
  BY DEF Announcement
<1>2. wallet \in WalletType /\ wallet.chain \in Chains
  BY DEF WalletParts, WalletTyped, WalletType
<1>3. [wallet EXCEPT !.account = account]
        = [wallet EXCEPT !.account = account, !.chain = wallet.chain]
  BY <1>2 DEF WalletType
<1>4. Move([wallet EXCEPT !.account = account, !.chain = wallet.chain], news)
  BY <1>3 DEF MoveAccount
<1> HIDE DEF news
<1>5. /\ wallet' \in WalletType /\ wallet'.chain = wallet.chain
      /\ wallet'.strayed = wallet.strayed /\ UNCHANGED <<panel, reading, verdict>>
  BY <1>1, <1>2, <1>4, Moving
<1>6. UNCHANGED click
  BY DEF MoveAccount
<1>7. ReadersWait'
  BY <1>5, <1>6 DEF WalletParts, ReadersWait
<1> QED BY <1>5, <1>6, <1>7, Beside DEF WalletParts, WalletTyped

(* A change of network marks the payments that have read the old one.      *)
LEMMA MoveChainKeeps ==
  ASSUME WalletParts, NEW chain \in Chains, MoveChain(chain)
  PROVE  WalletParts'
<1> DEFINE news == [news |-> "chain", account |-> Null]
           hit(h) == [h EXCEPT !.moved = TRUE]
<1>1. news \in Announcement
  BY DEF Announcement
<1>2. wallet \in WalletType /\ wallet.account \in Payers \union {Null}
  BY DEF WalletParts, WalletTyped, WalletType
<1>3. [wallet EXCEPT !.chain = chain]
        = [wallet EXCEPT !.account = wallet.account, !.chain = chain]
  BY <1>2 DEF WalletType
<1>4. Move([wallet EXCEPT !.account = wallet.account, !.chain = chain], news)
  BY <1>3 DEF MoveChain
<1> HIDE DEF news
<1>5. /\ wallet' \in WalletType /\ wallet'.chain = chain
      /\ wallet'.strayed = wallet.strayed /\ UNCHANGED <<panel, reading, verdict>>
  BY <1>1, <1>2, <1>4, Moving
<1>6. \A h \in Click : /\ hit(h) \in Click /\ hit(h).op = h.op /\ hit(h).at = h.at
                       /\ hit(h).account = h.account /\ hit(h).seen = h.seen /\ hit(h).moved
  BY DEF Click
<1>7. click' = [k \in Clicks |-> IF click[k].op = "pay" /\ click[k].seen # Null
                                 THEN hit(click[k]) ELSE click[k]]
  BY DEF MoveChain
<1> HIDE DEF hit
<1>8. \A k \in Clicks : click[k] \in Click
  BY DEF WalletParts, WalletTyped
<1>9. /\ click' \in [Clicks -> Click]
      /\ \A k \in Clicks : /\ click'[k].op = click[k].op /\ click'[k].at = click[k].at
                           /\ click'[k].account = click[k].account
                           /\ click'[k].seen = click[k].seen
                           /\ click[k].op # "pay" => click'[k] = click[k]
                           /\ click[k].op = "pay" /\ click[k].seen # Null => click'[k].moved
  BY <1>6, <1>7, <1>8
<1>10. WalletTyped' /\ ~wallet'.strayed
  BY <1>5, <1>9 DEF WalletParts, WalletTyped
<1>11. \A k \in Clicks : Shape(click'[k]) /\ Asked(click[k])'
  <2> SUFFICES ASSUME NEW k \in Clicks
               PROVE  Shape(click'[k]) /\ Asked(click[k])'
    OBVIOUS
  <2>1. Shape(click[k]) /\ Asked(click[k])
    BY DEF WalletParts
  <2>2. Shape(click'[k])
    BY <1>9, <2>1 DEF Shape
  <2>3. Asked(click[k])'
    BY <1>9, <2>1, WalletAssumption DEF Asked, Chains
  <2> QED BY <2>2, <2>3
<1>12. ReadersWait' /\ JudgesWait'
  <2>1. ReadersWait'
    BY <1>5, <1>9 DEF WalletParts, WalletTyped, Reading, ReadersWait
  <2>2. JudgesWait'
    BY <1>5, <1>9 DEF WalletParts, JudgesWait
  <2> QED BY <2>1, <2>2
<1>13. ASSUME ~panel'.unlocked
       PROVE  Locked'
  <2>1. Locked
    BY <1>5, <1>13 DEF WalletParts
  <2>2. \A k \in Clicks : Current(click'[k]) = Current(click[k])
    BY <1>9 DEF Current
  <2>3. Paying' = Paying
    BY <1>9 DEF Paying
  <2>4. panel'.account = Null => \A k \in Clicks :
          click'[k] = Resting \/ Unconnected(click'[k])
    BY <1>5, <1>9, <2>1 DEF Locked, Resting, Unconnected
  <2> QED BY <1>5, <1>9, <2>1, <2>2, <2>3, <2>4 DEF Locked
<1> QED BY <1>10, <1>11, <1>12, <1>13 DEF WalletParts

(* Steps by which a handler comes to rest.                                 *)
LEMMA RestingIsTyped == Resting \in Click /\ Resting.seen = Null
BY DEF Resting, Click

LEMMA Resigned ==
  ASSUME WalletParts, NEW k \in Clicks, click' = [click EXCEPT ![k] = Resting],
         click[k].at \in {"ask", "chain", "prompt"} \/ panel'.stage = panel.stage,
         click[k].at \notin {"submit", "refresh"}, UNCHANGED <<reading, verdict>>,
         wallet' \in WalletType, wallet'.chain = wallet.chain, ~wallet'.strayed,
         panel' \in Panel, panel'.verifying = panel.verifying, panel'.account = panel.account,
         panel'.unlocked = panel.unlocked
  PROVE  WalletParts'
<1>1. \A r \in Readings : reading[r] # Null => reading[r].for # k
  BY WalletAssumption DEF WalletParts, ReadersWait
<1>2. reading' \in [Readings -> Reading \union {Null}]
  BY DEF WalletParts, WalletTyped
<1>3. \A r \in Readings : reading'[r] # Null =>
        reading[r] # Null /\ reading'[r].for = reading[r].for /\ reading'[r].for # k
  BY <1>1
<1> QED BY <1>2, <1>3, Released, RestingIsTyped DEF Current

LEMMA RefusedKeeps ==
  ASSUME WalletParts, NEW k \in Clicks, Refused(k) \/ Decline(k) \/ ShowChain(k)
  PROVE  WalletParts'
<1>1. panel \in Panel /\ wallet \in WalletType /\ ~wallet.strayed /\ click[k] \in Click
  BY DEF WalletParts, WalletTyped
<1>2. CASE Refused(k) \/ Decline(k)
  <2>1. PICK stage \in {"idle", "ready"} : panel' = [panel EXCEPT !.stage = stage]
    BY <1>2 DEF Refused, Decline
  <2>2. /\ panel' \in Panel /\ panel'.verifying = panel.verifying
        /\ panel'.account = panel.account /\ panel'.unlocked = panel.unlocked
    BY <1>1, <2>1 DEF Panel
  <2> QED BY <1>1, <1>2, <2>2, Resigned DEF Refused, Decline
<1>3. CASE ShowChain(k)
  <2>1. click[k].seen \in Chains
    BY <1>1, <1>3 DEF ShowChain, Click
  <2>2. panel' = [panel EXCEPT !.chain = click[k].seen] \/ panel' = [panel EXCEPT !.blurred = TRUE]
    BY <1>3 DEF ShowChain
  <2>3. /\ panel' \in Panel /\ panel'.verifying = panel.verifying
        /\ panel'.account = panel.account /\ panel'.unlocked = panel.unlocked
        /\ panel'.stage = panel.stage
    BY <1>1, <2>1, <2>2 DEF Panel
  <2> QED BY <1>1, <1>3, <2>3, Resigned DEF ShowChain
<1> QED BY <1>2, <1>3

(* What is broadcast under a prompt goes to the network required, or to    *)
(* the one the payer changed to meanwhile.                                 *)
LEMMA BroadcastGoesRight ==
  ASSUME WalletParts, NEW k \in Clicks, click[k].at = "prompt", wallet' = Broadcast(k)
  PROVE  wallet' \in WalletType /\ wallet'.chain = wallet.chain /\ ~wallet'.strayed
<1> DEFINE strayed == wallet.strayed \/ (wallet.chain = "other" /\ ~click[k].moved)
           sent == wallet.sent + 1
<1>1. Shape(click[k]) /\ Asked(click[k]) /\ wallet \in WalletType /\ ~wallet.strayed
  BY DEF WalletParts, WalletTyped
<1>2. wallet.chain = "required" \/ click[k].moved
  BY <1>1 DEF Asked, Shape
<1>3. strayed = FALSE
  BY <1>1, <1>2
<1>4. sent \in Nat
  BY <1>1 DEF WalletType
<1>5. wallet' = [wallet EXCEPT !.sent = sent, !.strayed = strayed]
  BY DEF Broadcast
<1> HIDE DEF strayed, sent
<1> QED BY <1>1, <1>3, <1>4, <1>5 DEF WalletType

LEMMA SignSilentlyKeeps ==
  ASSUME WalletParts, NEW k \in Clicks, SignSilently(k)
  PROVE  WalletParts'
<1>1. wallet' \in WalletType /\ wallet'.chain = wallet.chain /\ ~wallet'.strayed
  BY BroadcastGoesRight DEF SignSilently
<1>2. /\ panel' \in Panel /\ panel'.verifying = panel.verifying
      /\ panel'.account = panel.account /\ panel'.unlocked = panel.unlocked
  BY DEF SignSilently, WalletParts, WalletTyped, Panel
<1> QED BY <1>1, <1>2, Resigned DEF SignSilently

(* A reading ends, and with it the handler that waited for it.             *)
LEMMA ReadingEnds ==
  ASSUME WalletParts, NEW r \in Readings, reading[r] # Null,
         reading' = [reading EXCEPT ![r] = Null], UNCHANGED <<wallet, verdict>>,
         panel' \in Panel, panel'.verifying = panel.verifying,
         panel'.account = panel.account, panel'.unlocked = panel.unlocked,
         reading[r].for = Null => panel'.stage = panel.stage,
         click' = IF reading[r].for = Null THEN click
                  ELSE [click EXCEPT ![reading[r].for] = Resting]
  PROVE  WalletParts'
<1>1. reading' \in [Readings -> Reading \union {Null}] /\ reading[r] \in Reading
  BY DEF WalletParts, WalletTyped
<1>2. \A s \in Readings : reading'[s] # Null =>
        s # r /\ reading[s] # Null /\ reading'[s].for = reading[s].for
  BY DEF WalletParts, WalletTyped
<1>3. wallet' \in WalletType /\ wallet'.chain = wallet.chain /\ ~wallet'.strayed
  BY DEF WalletParts, WalletTyped
<1>4. CASE reading[r].for = Null
  <2>1. ReadersWait'
    BY <1>2, <1>4 DEF WalletParts, ReadersWait
  <2> QED BY <1>1, <1>4, <2>1, Beside DEF WalletParts, WalletTyped
<1>5. CASE reading[r].for # Null
  <2> DEFINE k == reading[r].for
  <2>1. k \in Clicks
    BY <1>1, <1>5 DEF Reading
  <2>2. click[k].at = "refresh"
    BY <1>5 DEF WalletParts, ReadersWait
  <2>3. \A s \in Readings : reading'[s] # Null =>
          reading[s] # Null /\ reading'[s].for = reading[s].for /\ reading'[s].for # k
    BY <1>2, <1>5 DEF WalletParts, ReadersWait
  <2>4. click' = [click EXCEPT ![k] = Resting] /\ Current(click[k])
    BY <1>5, <2>2 DEF Current
  <2> HIDE DEF k
  <2> QED BY ZenonT(40), <1>1, <1>3, <2>1, <2>2, <2>3, <2>4, Released, RestingIsTyped
<1> QED BY <1>4, <1>5

LEMMA ReadKeeps ==
  ASSUME WalletParts, NEW r \in Readings, ChainRead(r) \/ BalanceRead(r) \/ RefreshFails(r)
  PROVE  WalletParts'
<1> DEFINE for == reading[r].for
<1>1. panel \in Panel /\ reading[r] \in Reading /\ reading[r] # Null
  BY DEF WalletParts, WalletTyped, ChainRead, BalanceRead, RefreshFails
<1>2. CASE ChainRead(r) /\ reading[r].seen = "required"
  <2> DEFINE answered == [reading[r] EXCEPT !.chained = TRUE]
  <2>1. answered \in Reading /\ answered.for = for
    BY <1>1 DEF Reading
  <2>2. reading' = [reading EXCEPT ![r] = answered]
    BY <1>2 DEF ChainRead
  <2> HIDE DEF answered
  <2>3. /\ reading' \in [Readings -> Reading \union {Null}]
        /\ \A s \in Readings : reading'[s] # Null =>
             reading[s] # Null /\ reading'[s].for = reading[s].for
    BY <1>1, <2>1, <2>2 DEF WalletParts, WalletTyped
  <2>4. UNCHANGED <<wallet, click, verdict>>
    BY <1>2 DEF ChainRead
  <2>5. ReadersWait'
    BY <2>3, <2>4 DEF WalletParts, ReadersWait
  <2>6. panel' = [panel EXCEPT !.chain = "required", !.balance = panel.balance,
                               !.stage = panel.stage]
    BY <1>2 DEF ChainRead
  <2>7. /\ panel' \in Panel /\ panel'.verifying = panel.verifying
        /\ panel'.account = panel.account /\ panel'.unlocked = panel.unlocked
        /\ panel'.stage = panel.stage
    BY <1>1, <2>6 DEF Panel, Chains
  <2> QED BY <2>3, <2>4, <2>5, <2>7, Beside DEF WalletParts, WalletTyped
<1>3. CASE ChainRead(r) /\ reading[r].seen # "required"
  <2> DEFINE stage == IF for = Null THEN panel.stage ELSE "ready"
  <2>1. reading[r].seen \in Chains
    BY <1>1, <1>3 DEF ChainRead, Reading
  <2>2. panel' = [panel EXCEPT !.chain = reading[r].seen, !.balance = Null, !.stage = stage]
    BY <1>3 DEF ChainRead
  <2>3. /\ panel' \in Panel /\ panel'.verifying = panel.verifying
        /\ panel'.account = panel.account /\ panel'.unlocked = panel.unlocked
        /\ for = Null => panel'.stage = panel.stage
    BY <1>1, <2>1, <2>2 DEF Panel
  <2> QED BY <1>1, <1>3, <2>3, ReadingEnds DEF ChainRead
<1>4. CASE BalanceRead(r)
  <2> DEFINE stage == IF for = Null THEN panel.stage ELSE "ready"
  <2>1. PICK balance \in {reading[r].account, Null} :
          panel' = [panel EXCEPT !.balance = balance, !.stage = stage]
    BY <1>4 DEF BalanceRead
  <2>2. balance \in Payers \union {Null}
    BY <1>1 DEF Reading
  <2>3. /\ panel' \in Panel /\ panel'.verifying = panel.verifying
        /\ panel'.account = panel.account /\ panel'.unlocked = panel.unlocked
        /\ for = Null => panel'.stage = panel.stage
    BY <1>1, <2>1, <2>2 DEF Panel
  <2> QED BY <1>1, <1>4, <2>3, ReadingEnds DEF BalanceRead
<1>5. CASE RefreshFails(r)
  <2> DEFINE stage == IF for = Null THEN panel.stage
                      ELSE IF click[for].op = "connect" THEN "idle" ELSE "ready"
  <2>1. panel' = [panel EXCEPT !.blurred = TRUE, !.stage = stage]
    BY <1>5 DEF RefreshFails
  <2>2. stage \in {panel.stage, "idle", "ready"}
    OBVIOUS
  <2>3. /\ panel' \in Panel /\ panel'.verifying = panel.verifying
        /\ panel'.account = panel.account /\ panel'.unlocked = panel.unlocked
        /\ for = Null => panel'.stage = panel.stage
    BY <1>1, <2>1, <2>2 DEF Panel
  <2> QED BY <1>1, <1>5, <2>3, ReadingEnds DEF RefreshFails
<1> QED BY <1>2, <1>3, <1>4, <1>5

(* Steps by which a handler goes on to its next await.                     *)
LEMMA PayerIsHeld ==
  ASSUME WalletParts, NEW k \in Clicks, click[k].op \in {"switch", "pay"}
  PROVE  panel.account # Null \/ panel.unlocked
BY DEF WalletParts, Locked, Resting, Unconnected

LEMMA PayChainAnsweredKeeps ==
  ASSUME WalletParts, NEW k \in Clicks, PayChainAnswered(k)
  PROVE  WalletParts'
<1> DEFINE h == [click[k] EXCEPT !.seen = wallet.chain]
<1>1. /\ click[k] \in Click /\ wallet.chain \in Chains /\ Shape(click[k])
      /\ panel \in Panel /\ wallet \in WalletType /\ ~wallet.strayed
  BY DEF WalletParts, WalletTyped, WalletType
<1>2. /\ h \in Click /\ h.op = click[k].op /\ h.at = click[k].at /\ h.account = click[k].account
      /\ h.seen = wallet.chain
  BY <1>1 DEF Click
<1>3. click' = [click EXCEPT ![k] = h] /\ click[k].at \in {"chain", "again"}
      /\ UNCHANGED <<wallet, panel, reading, verdict>>
  BY DEF PayChainAnswered
<1> HIDE DEF h
<1>4. Shape(h) /\ Current(h) = Current(click[k])
  BY <1>1, <1>2, <1>3 DEF Shape, Current, Resting
<1>5. Asked(click[k])'
  <2>1. click'[k] = h
    BY <1>3 DEF WalletParts, WalletTyped
  <2> QED BY <1>1, <1>2, <1>3, <2>1 DEF Asked
<1>6. reading' \in [Readings -> Reading \union {Null}]
  BY <1>3 DEF WalletParts, WalletTyped
<1>7. \A l \in Clicks : click'[l].at = click[l].at
  BY <1>2, <1>3 DEF WalletParts, WalletTyped
<1>8. ReadersWait'
  BY <1>3, <1>7 DEF WalletParts, WalletTyped, Reading, ReadersWait
<1> QED BY <1>1, <1>2, <1>3, <1>4, <1>6, <1>8, <1>5, PassedOn

LEMMA CheckChainKeeps ==
  ASSUME WalletParts, NEW k \in Clicks, CheckChain(k)
  PROVE  WalletParts'
<1>1. /\ click[k] \in Click /\ Shape(click[k]) /\ Asked(click[k]) /\ click[k].at = "chain"
      /\ panel \in Panel /\ wallet \in WalletType /\ ~wallet.strayed
      /\ reading' \in [Readings -> Reading \union {Null}]
      /\ UNCHANGED <<wallet, reading, verdict>>
  BY DEF WalletParts, WalletTyped, CheckChain
<1>2. click[k].op = "pay" /\ click[k].account # Null
  BY <1>1 DEF Shape
<1>3. \A r \in Readings : reading[r] # Null => reading[r].for # k
  BY <1>1, WalletAssumption DEF WalletParts, ReadersWait
<1>4. CASE click[k].seen = "required"
  <2> DEFINE h == [click[k] EXCEPT !.at = "prompt"]
  <2>1. /\ h \in Click /\ h.op = "pay" /\ h.at = "prompt" /\ h.account = click[k].account
        /\ h.seen = click[k].seen /\ h.moved = click[k].moved
    BY <1>1, <1>2 DEF Click
  <2>2. click' = [click EXCEPT ![k] = h] /\ UNCHANGED panel
    BY <1>4 DEF CheckChain
  <2> HIDE DEF h
  <2>3. Shape(h) /\ Current(h) = Current(click[k])
    BY <1>1, <1>2, <1>4, <2>1 DEF Shape, Current
  <2>4. Asked(click[k])'
    <3>1. click'[k] = h
      BY <2>2 DEF WalletParts, WalletTyped
    <3> QED BY <1>1, <1>2, <1>4, <2>1, <3>1 DEF Asked
  <2>5. panel.account # Null \/ panel.unlocked
    BY <1>2, PayerIsHeld
  <2>6. ReadersWait'
    BY <1>1, <1>3, <2>2 DEF WalletParts, WalletTyped, Reading, ReadersWait
  <2> QED BY <1>1, <1>2, <2>1, <2>2, <2>3, <2>4, <2>5, <2>6, PassedOn
<1>5. CASE click[k].seen # "required"
  <2> DEFINE h == [click[k] EXCEPT !.at = "again", !.seen = Null]
             blurred == panel.blurred \/ Free(Readings, reading, Null) # Readings
  <2>1. /\ h \in Click /\ h.op = "pay" /\ h.at = "again" /\ h.account # Null
        /\ h.seen = Null
    BY <1>1, <1>2 DEF Click
  <2>2. /\ click' = [click EXCEPT ![k] = h]
        /\ panel' = [panel EXCEPT !.stage = "ready", !.blurred = blurred]
    BY <1>5 DEF CheckChain
  <2>3. blurred \in BOOLEAN
    BY <1>1 DEF Panel
  <2> HIDE DEF h, blurred
  <2>4. /\ panel' \in Panel /\ panel'.verifying = panel.verifying
        /\ panel'.account = panel.account /\ panel'.unlocked = panel.unlocked
    BY <1>1, <2>2, <2>3 DEF Panel
  <2>5. \A r \in Readings : reading'[r] # Null =>
          reading[r] # Null /\ reading'[r].for = reading[r].for /\ reading'[r].for # k
    BY <1>1, <1>3
  <2>6. Current(click[k]) /\ click[k].at # "submit"
    BY <1>1 DEF Current
  <2> QED BY <1>1, <1>2, <2>1, <2>2, <2>4, <2>5, <2>6, Released
<1> QED BY <1>4, <1>5

(* connect and switchNetwork, answered, refresh: the handler waits for the *)
(* reading it begins.                                                      *)
LEMMA Refreshes ==
  ASSUME WalletParts, NEW k \in Clicks, click[k].at \in {"ask", "granted"},
         click' = [click EXCEPT ![k].at = "refresh"],
         NEW account \in Payers, NEW p \in Panel, Refresh(account, k, p),
         p.stage = panel.stage, p.verifying = panel.verifying, p.unlocked = panel.unlocked,
         p.account # Null \/ (p.account = panel.account /\ p.unlocked),
         wallet' \in WalletType, ~wallet'.strayed, wallet'.chain \in {wallet.chain, "required"},
         verdict' = verdict
  PROVE  WalletParts'
<1> DEFINE h == [click[k] EXCEPT !.at = "refresh"]
<1>1. click[k] \in Click /\ Shape(click[k]) /\ Asked(click[k])
  BY DEF WalletParts, WalletTyped
<1>2. /\ h \in Click /\ h.op = click[k].op /\ h.at = "refresh" /\ h.account = click[k].account
      /\ h.seen = click[k].seen
  BY <1>1 DEF Click
<1>3. click' = [click EXCEPT ![k] = h]
  OBVIOUS
<1> HIDE DEF h
<1>4. Shape(h) /\ Current(h) = Current(click[k])
  BY <1>1, <1>2 DEF Shape, Current
<1>5. Asked(click[k])'
  <2>1. click'[k] = h /\ click[k].op # "pay"
    BY <1>1, <1>3 DEF WalletParts, WalletTyped, Shape
  <2> QED BY <1>2, <2>1 DEF Asked
<1>6. /\ panel' \in Panel /\ panel'.stage = p.stage /\ panel'.account = p.account
      /\ panel'.verifying = p.verifying /\ panel'.unlocked = p.unlocked
      /\ reading' \in [Readings -> Reading \union {Null}]
  BY Refreshing DEF WalletParts
<1>7. PICK r \in Readings :
        /\ reading[r] = Null
        /\ reading' = [reading EXCEPT ![r] = [account |-> account, seen |-> Null,
                                              for |-> k, chained |-> FALSE]]
  BY Refreshing DEF WalletParts
<1>8. \A s \in Readings : reading[s] # Null => reading[s].for # k
  BY WalletAssumption DEF WalletParts, ReadersWait
<1>9. /\ \A s \in Readings : s # r => reading'[s] = reading[s]
      /\ reading'[r].for = k
  BY <1>7 DEF WalletParts, WalletTyped
<1>10. click'[k].at = "refresh" /\ \A l \in Clicks : l # k => click'[l] = click[l]
  BY <1>2, <1>3 DEF WalletParts, WalletTyped
<1>11. ReadersWait'
  <2>1. \A s \in Readings : reading'[s] # Null /\ reading'[s].for # Null =>
          click'[reading'[s].for].at = "refresh"
    BY <1>6, <1>8, <1>9, <1>10 DEF WalletParts, ReadersWait, Reading
  <2>2. \A s, t \in Readings :
          reading'[s] # Null /\ reading'[t] # Null /\ reading'[s].for # Null
            /\ reading'[s].for = reading'[t].for => s = t
    BY <1>8, <1>9 DEF WalletParts, ReadersWait
  <2> QED BY <2>1, <2>2 DEF ReadersWait
<1> QED BY <1>1, <1>2, <1>3, <1>4, <1>6, <1>11, <1>5, PassedOn

LEMMA AnsweredKeeps ==
  ASSUME WalletParts, NEW k \in Clicks, Connected(k) \/ Switched(k)
  PROVE  WalletParts'
<1>1. /\ click[k] \in Click /\ panel \in Panel /\ wallet \in WalletType /\ ~wallet.strayed
  BY DEF WalletParts, WalletTyped
<1>2. CASE Connected(k)
  <2> DEFINE p == [panel EXCEPT !.account = click[k].account]
  <2>1. click[k].account \in Payers
    BY <1>1, <1>2 DEF Connected, Click
  <2>2. /\ p \in Panel /\ p.stage = panel.stage /\ p.verifying = panel.verifying
        /\ p.unlocked = panel.unlocked /\ p.account # Null
    BY <1>1, <2>1, WalletAssumption DEF Panel
  <2>3. Refresh(click[k].account, k, p)
    BY <1>2 DEF Connected
  <2> HIDE DEF p
  <2> QED BY <1>1, <1>2, <2>1, <2>2, <2>3, Refreshes DEF Connected
<1>3. CASE Switched(k)
  <2> DEFINE news == Append(wallet.news, [news |-> "chain", account |-> Null])
  <2>1. click[k].account \in Payers /\ click[k].op = "switch" /\ click[k].at = "ask"
        /\ Refresh(click[k].account, k, panel)
    BY <1>1, <1>3 DEF Switched, Click
  <2>2. [news |-> "chain", account |-> Null] \in Announcement
    BY DEF Announcement
  <2>3. news \in Seq(Announcement)
    BY <1>1, <2>2 DEF WalletType
  <2>4. wallet' = wallet \/ wallet' = [wallet EXCEPT !.chain = "required", !.news = news]
    BY <1>3 DEF Switched
  <2> HIDE DEF news
  <2>5. wallet' \in WalletType /\ ~wallet'.strayed /\ wallet'.chain \in {wallet.chain, "required"}
    BY <1>1, <2>3, <2>4 DEF WalletType, Chains
  <2>6. panel.account # Null \/ panel.unlocked
    BY <2>1, PayerIsHeld
  <2>7. click' = [click EXCEPT ![k].at = "refresh"] /\ verdict' = verdict
    BY <1>3 DEF Switched
  <2> QED BY <1>1, <2>1, <2>5, <2>6, <2>7, Refreshes
<1> QED BY <1>2, <1>3

(* The wallet grants its account, and the handler has yet to take it over. *)
LEMMA GrantKeeps ==
  ASSUME WalletParts, NEW k \in Clicks, Grant(k)
  PROVE  WalletParts'
<1> DEFINE h == [click[k] EXCEPT !.at = "granted", !.account = wallet.account]
           unheard == panel.unheard /\ (panel.account # Null \/ Granted # {})
<1>1. /\ click[k] \in Click /\ panel \in Panel /\ wallet \in WalletType /\ ~wallet.strayed
      /\ click[k].op = "connect" /\ click[k].at = "ask"
      /\ UNCHANGED <<wallet, reading, verdict>>
  BY DEF WalletParts, WalletTyped, Grant
<1>2. wallet.account \in Payers \union {Null}
  BY <1>1 DEF WalletType
<1>3. h \in Click /\ h.op = "connect" /\ h.at = "granted"
  BY <1>1, <1>2 DEF Click
<1>4. click' = [click EXCEPT ![k] = h] /\ panel' = [panel EXCEPT !.unheard = unheard]
  BY DEF Grant
<1>5. unheard \in BOOLEAN
  BY <1>1 DEF Panel
<1> HIDE DEF h, unheard
<1>6. /\ panel' \in Panel /\ panel'.stage = panel.stage /\ panel'.verifying = panel.verifying
      /\ panel'.unlocked = panel.unlocked /\ panel'.account = panel.account
  BY <1>1, <1>4, <1>5 DEF Panel
<1>7. Shape(h) /\ Current(h) /\ Current(click[k])
  BY <1>1, <1>3 DEF Shape, Current
<1>8. click'[k] = h /\ \A l \in Clicks : l # k => click'[l] = click[l]
  BY <1>4 DEF WalletParts, WalletTyped
<1>9. Asked(click[k])'
  BY <1>3, <1>8 DEF Asked
<1>10. reading' \in [Readings -> Reading \union {Null}]
  BY <1>1 DEF WalletParts, WalletTyped
<1>11. \A l \in Clicks : click[l].at = "refresh" => click'[l].at = "refresh"
  BY <1>1, <1>8
<1>12. ReadersWait'
  BY <1>1, <1>11 DEF WalletParts, WalletTyped, Reading, ReadersWait
<1> QED BY <1>1, <1>3, <1>4, <1>6, <1>7, <1>9, <1>10, <1>12, PassedOn

(* Steps of the verification, and the wallet's disconnecting.              *)
LEMMA Verifying ==
  ASSUME WalletTyped, NEW for \in Clicks \union {Pasted}, Verify(for)
  PROVE  /\ verdict' \in [Verdicts -> Clicks \union {Pasted, Null}]
         /\ \E v \in Verdicts : /\ verdict[v] = Null
                                /\ verdict' = [verdict EXCEPT ![v] = for]
<1> DEFINE v == CHOOSE u \in Free(Verdicts, verdict, Null) : TRUE
<1>1. v \in Verdicts /\ verdict[v] = Null
  <2>1. v \in Free(Verdicts, verdict, Null)
    BY DEF Verify
  <2> QED BY <2>1 DEF Free
<1>2. verdict' = [verdict EXCEPT ![v] = for]
  BY DEF Verify
<1> HIDE DEF v
<1> QED BY <1>1, <1>2 DEF WalletTyped

LEMMA SignKeeps ==
  ASSUME WalletParts, NEW k \in Clicks, Sign(k)
  PROVE  WalletParts'
<1> DEFINE h == [click[k] EXCEPT !.at = "submit"]
<1>1. /\ click[k] \in Click /\ Shape(click[k]) /\ Asked(click[k]) /\ click[k].at = "prompt"
      /\ panel \in Panel
  BY DEF WalletParts, WalletTyped, Sign
<1>2. /\ h \in Click /\ h.op = click[k].op /\ h.at = "submit" /\ h.account = click[k].account
      /\ h.seen = click[k].seen /\ h.moved = click[k].moved
  BY <1>1 DEF Click
<1>3. click' = [click EXCEPT ![k] = h]
  BY DEF Sign
<1> HIDE DEF h
<1>4. wallet' \in WalletType /\ wallet'.chain = wallet.chain /\ ~wallet'.strayed
  BY <1>1, BroadcastGoesRight DEF Sign
<1>5. /\ panel' \in Panel /\ panel'.verifying /\ panel'.stage = "submitted"
      /\ panel'.account = panel.account /\ panel'.unlocked = panel.unlocked
  BY <1>1 DEF Sign, Panel
<1>6. verdict' \in [Verdicts -> Clicks \union {Pasted, Null}]
  BY Verifying DEF Sign, WalletParts
<1>7. PICK v \in Verdicts : verdict[v] = Null /\ verdict' = [verdict EXCEPT ![v] = k]
  BY Verifying DEF Sign, WalletParts
<1>8. click'[k] = h /\ (\A l \in Clicks : l # k => click'[l] = click[l])
      /\ click' \in [Clicks -> Click]
  BY <1>2, <1>3 DEF WalletParts, WalletTyped
<1>9. verdict'[v] = k /\ \A u \in Verdicts : u # v => verdict'[u] = verdict[u]
  BY <1>7 DEF WalletParts, WalletTyped
<1>10. reading' = reading
  BY DEF Sign
<1>11. WalletTyped'
  BY <1>4, <1>5, <1>6, <1>8, <1>10 DEF WalletParts, WalletTyped
<1>12. \A l \in Clicks : Shape(click'[l]) /\ Asked(click[l])'
  <2>1. Shape(h)
    BY <1>1, <1>2 DEF Shape
  <2>2. Asked(click[k])'
    BY <1>1, <1>2, <1>4, <1>8 DEF Asked
  <2> QED BY <1>4, <1>8, <2>1, <2>2 DEF WalletParts, Asked
<1>13. ReadersWait'
  BY <1>1, <1>8, <1>10 DEF WalletParts, WalletTyped, Reading, ReadersWait
<1>14. JudgesWait'
  BY <1>1, <1>2, <1>8, <1>9 DEF WalletParts, JudgesWait
<1>15. ASSUME ~panel'.unlocked
       PROVE  Locked'
  <2>1. Locked /\ Current(click[k])
    BY <1>1, <1>5, <1>15 DEF WalletParts, Current
  <2>2. \A l \in Clicks : ~Current(click'[l])
    BY <1>2, <1>8, <2>1 DEF Locked, Current
  <2>3. click[k].op = "pay"
    BY <1>1 DEF Shape
  <2>4. panel'.account # Null
    BY <1>1, <1>5, <2>1, <2>3 DEF Locked, Resting, Unconnected
  <2>5. \A l \in Clicks : click'[l].at = "submit" => \E u \in Verdicts : verdict'[u] = l
    BY <1>7, <1>8, <1>9, <2>1, WalletAssumption DEF Locked
  <2>6. Paying' \subseteq Paying
    BY <1>1, <1>2, <1>8, <2>3 DEF Paying
  <2> QED BY <1>5, <2>1, <2>2, <2>4, <2>5, <2>6 DEF Locked
<1> QED BY <1>4, <1>11, <1>12, <1>13, <1>14, <1>15 DEF WalletParts

LEMMA ClickVerifyKeeps ==
  ASSUME WalletParts, ClickVerify
  PROVE  WalletParts'
<1>1. /\ panel \in Panel /\ UNCHANGED <<click, reading>>
      /\ wallet' \in WalletType /\ wallet'.chain = wallet.chain /\ ~wallet'.strayed
  <2> DEFINE moves == wallet.moves + 1
  <2>1. wallet \in WalletType /\ moves \in Nat /\ ~wallet.strayed
    BY DEF WalletParts, WalletTyped, WalletType
  <2>2. wallet' = [wallet EXCEPT !.moves = moves] /\ UNCHANGED <<click, reading>>
    BY DEF ClickVerify
  <2> HIDE DEF moves
  <2> QED BY <2>1, <2>2 DEF WalletType, WalletParts, WalletTyped
<1>2. /\ panel' \in Panel /\ panel'.verifying /\ panel'.stage = panel.stage
      /\ panel'.account = panel.account /\ panel'.unlocked = panel.unlocked
  BY <1>1 DEF ClickVerify, Panel
<1>3. verdict' \in [Verdicts -> Clicks \union {Pasted, Null}]
  BY Verifying DEF ClickVerify, WalletParts
<1>4. PICK v \in Verdicts : verdict[v] = Null /\ verdict' = [verdict EXCEPT ![v] = Pasted]
  BY Verifying DEF ClickVerify, WalletParts
<1>5. verdict'[v] = Pasted /\ \A u \in Verdicts : u # v => verdict'[u] = verdict[u]
  BY <1>4 DEF WalletParts, WalletTyped
<1>6. WalletTyped' /\ ~wallet'.strayed
  BY <1>1, <1>2, <1>3 DEF WalletParts, WalletTyped
<1>7. \A l \in Clicks : Shape(click'[l]) /\ Asked(click[l])'
  BY <1>1 DEF WalletParts, Asked
<1>8. ReadersWait'
  BY <1>1 DEF WalletParts, ReadersWait
<1>9. JudgesWait'
  BY <1>1, <1>5, WalletAssumption DEF WalletParts, JudgesWait
<1>10. ASSUME ~panel'.unlocked
       PROVE  Locked'
  <2>1. Locked
    BY <1>2, <1>10 DEF WalletParts
  <2>2. \A l \in Clicks : click'[l].at = "submit" => \E u \in Verdicts : verdict'[u] = l
    BY <1>1, <1>4, <1>5, <2>1, WalletAssumption DEF Locked
  <2>3. Paying' = Paying
    BY <1>1 DEF Paying
  <2> QED BY <1>1, <1>2, <2>1, <2>2, <2>3 DEF Locked
<1> QED BY <1>6, <1>7, <1>8, <1>9, <1>10 DEF WalletParts

LEMMA VerdictArrivesKeeps ==
  ASSUME WalletParts, NEW v \in Verdicts, VerdictArrives(v)
  PROVE  WalletParts'
<1> DEFINE k == verdict[v]
           other == \E u \in Verdicts \ {v} : verdict[u] # Null
           unlocked == panel.unlocked \/ other
           p == [panel EXCEPT !.verifying = FALSE, !.unlocked = unlocked]
<1>1. panel \in Panel /\ wallet \in WalletType /\ ~wallet.strayed /\ k \in Clicks \union {Pasted}
      /\ wallet' = wallet
  BY DEF WalletParts, WalletTyped, VerdictArrives
<1>2. unlocked \in BOOLEAN
  BY <1>1 DEF Panel
<1>3. p \in Panel /\ p.stage = panel.stage /\ p.account = panel.account /\ ~p.verifying
      /\ (p.unlocked <=> unlocked)
  BY <1>1, <1>2 DEF Panel
<1>4. /\ verdict' \in [Verdicts -> Clicks \union {Pasted, Null}] /\ verdict'[v] = Null
      /\ \A u \in Verdicts : u # v => verdict'[u] = verdict[u]
  BY DEF WalletParts, WalletTyped, VerdictArrives
<1>5. /\ panel' \in Panel /\ panel'.stage = panel.stage /\ panel'.account = panel.account
      /\ (panel'.unlocked <=> unlocked)
      /\ click' \in [Clicks -> Click]
      /\ \A l \in Clicks : IF l = k THEN click'[l] = Resting ELSE click'[l] = click[l]
      /\ reading' \in [Readings -> Reading \union {Null}] /\ ReadersWait'
  <2>1. CASE k = Pasted
    <3>1. panel' = p /\ UNCHANGED <<click, reading>>
      BY <2>1 DEF VerdictArrives
    <3>2. ReadersWait'
      BY <3>1 DEF WalletParts, ReadersWait
    <3> QED BY <1>3, <2>1, <3>1, <3>2, WalletAssumption DEF WalletParts, WalletTyped
  <2>2. CASE k # Pasted
    <3>1. k \in Clicks /\ click' = [click EXCEPT ![k] = Resting]
          /\ Refresh(click[k].account, Null, p)
      BY <1>1, <2>2 DEF VerdictArrives
    <3>2. click[k].at = "submit"
      BY <3>1 DEF WalletParts, JudgesWait
    <3>3. click[k].account \in Payers
      BY <3>1, <3>2 DEF WalletParts, WalletTyped, Shape, Click
    <3> HIDE DEF p, k
    <3>4. /\ panel' \in Panel /\ panel'.stage = p.stage /\ panel'.account = p.account
          /\ panel'.unlocked = p.unlocked
          /\ reading' \in [Readings -> Reading \union {Null}]
      BY <1>3, <3>1, <3>3, Refreshing DEF WalletParts
    <3>5. PICK r \in Readings :
            reading' = [reading EXCEPT ![r] = [account |-> click[k].account, seen |-> Null,
                                               for |-> Null, chained |-> FALSE]]
      BY <1>3, <3>1, <3>3, Refreshing DEF WalletParts
    <3>6. \A s \in Readings : reading'[s] # Null /\ reading'[s].for # Null =>
            reading[s] # Null /\ reading'[s].for = reading[s].for
      BY <3>5 DEF WalletParts, WalletTyped
    <3>7. /\ click' \in [Clicks -> Click] /\ click'[k] = Resting
          /\ \A l \in Clicks : l # k => click'[l] = click[l]
      BY <3>1, RestingIsTyped DEF WalletParts, WalletTyped
    <3>8. ReadersWait'
      BY <3>2, <3>4, <3>6, <3>7 DEF WalletParts, ReadersWait, Reading
    <3> QED BY <1>3, <3>1, <3>4, <3>7, <3>8
  <2> QED BY <2>1, <2>2
<1> HIDE DEF p
<1>6. Resting.at = "idle" /\ Resting.op = "none"
  BY DEF Resting
<1>7. WalletTyped' /\ ~wallet'.strayed
  BY <1>1, <1>4, <1>5 DEF WalletParts, WalletTyped
<1>8. \A l \in Clicks : Shape(click'[l]) /\ Asked(click[l])'
  BY <1>1, <1>5, <1>6 DEF WalletParts, Shape, Asked
<1>9. JudgesWait'
  BY <1>4, <1>5, WalletAssumption DEF WalletParts, JudgesWait
<1>10. ASSUME ~panel'.unlocked
       PROVE  Locked'
  <2>1. Locked /\ \A u \in Verdicts : u # v => verdict[u] = Null
    BY <1>5, <1>10 DEF WalletParts
  <2>2. \A u \in Verdicts : verdict'[u] = Null
    BY <1>4, <2>1
  <2>3. \A l \in Clicks : click'[l].at # "submit"
    BY <1>5, <1>6, <2>1, WalletAssumption DEF Locked
  <2>4. \A l \in Clicks : Current(click'[l]) => click'[l] = click[l]
    BY <1>5, <1>6 DEF Current
  <2>5. Paying' \subseteq Paying
    BY <1>5, <1>6 DEF Paying
  <2>6. panel'.account = Null => \A l \in Clicks :
          click'[l] = Resting \/ Unconnected(click'[l])
    BY <1>5, <2>1 DEF Locked
  <2> QED BY <1>5, <2>1, <2>2, <2>3, <2>4, <2>5, <2>6 DEF Locked
<1> QED BY <1>5, <1>7, <1>8, <1>9, <1>10 DEF WalletParts

LEMMA HearDisconnectKeeps ==
  ASSUME WalletParts, HearDisconnect
  PROVE  WalletParts'
<1> DEFINE unlocked == panel.unlocked \/ Free(Clicks, click, Resting) # Clicks
           unheard == panel.unheard \/ Granted # {}
<1>1. panel \in Panel /\ UNCHANGED <<click, reading, verdict>>
  BY DEF HearDisconnect, WalletParts, WalletTyped
<1>2. wallet' \in WalletType /\ wallet'.chain = wallet.chain /\ ~wallet'.strayed
  BY HeardNews DEF HearDisconnect, WalletParts
<1>3. unlocked \in BOOLEAN /\ unheard \in BOOLEAN
  BY <1>1 DEF Panel
<1>4. panel' = [panel EXCEPT !.account = Null, !.chain = Null, !.balance = Null,
                             !.stage = "idle", !.unlocked = unlocked, !.unheard = unheard]
  BY DEF HearDisconnect
<1> HIDE DEF unlocked, unheard
<1>5. panel' \in Panel /\ panel'.unlocked = unlocked /\ panel'.verifying = panel.verifying
  BY <1>1, <1>3, <1>4 DEF Panel
<1>6. WalletTyped'
  BY <1>1, <1>2, <1>5 DEF WalletParts, WalletTyped
<1>7. \A l \in Clicks : Shape(click'[l]) /\ Asked(click[l])'
  BY <1>1, <1>2 DEF WalletParts, Asked
<1>8. ReadersWait' /\ JudgesWait'
  BY <1>1 DEF WalletParts, ReadersWait, JudgesWait
<1>9. ASSUME ~panel'.unlocked
      PROVE  Locked'
  <2>1. ~panel.unlocked /\ Free(Clicks, click, Resting) = Clicks
    BY <1>5, <1>9 DEF unlocked
  <2>2. Locked /\ \A l \in Clicks : click'[l] = Resting
    BY <1>1, <2>1 DEF WalletParts, Free
  <2>3. Resting.at = "idle" /\ Resting.op = "none"
    BY DEF Resting
  <2>4. \A l \in Clicks : ~Current(click'[l]) /\ click'[l].at # "submit"
    BY <2>2, <2>3 DEF Current
  <2>5. Paying' = {}
    BY <2>2, <2>3 DEF Paying
  <2> QED BY <1>1, <1>5, <2>2, <2>4, <2>5 DEF Locked
<1> QED BY <1>2, <1>6, <1>7, <1>8, <1>9 DEF WalletParts
-----------------------------------------------------------------------------
LEMMA WalletStep ==
  ASSUME WalletParts, WalletNext
  PROVE  WalletParts'
BY ClickConnectKeeps, ClickOtherKeeps, ClickVerifyKeeps, AnsweredKeeps, RefusedKeeps,
   PayChainAnsweredKeeps, CheckChainKeeps, SignKeeps, SignSilentlyKeeps, ChainAnsweredKeeps,
   GrantKeeps, ReadKeeps, VerdictArrivesKeeps, HearingKeeps, HearDisconnectKeeps, MoveAccountKeeps,
   MoveChainKeeps
   DEF WalletNext

LEMMA WalletBegins == Init => WalletInv
<1> SUFFICES ASSUME WalletInit
             PROVE  WalletParts
  BY DEF Init, WalletInv
<1>1. WalletTyped
  <2>1. wallet \in WalletType
    <3>1. {0} \subseteq Nat /\ {FALSE} \subseteq BOOLEAN /\ {<<>>} \subseteq Seq(Announcement)
      OBVIOUS
    <3>2. wallet \in [account : Payers, chain : Chains, moves : {0}, sent : {0},
                      strayed : {FALSE}, news : {<<>>}]
      BY DEF WalletInit
    <3>3. /\ wallet = [account |-> wallet.account, chain |-> wallet.chain,
                       moves |-> wallet.moves, sent |-> wallet.sent,
                       strayed |-> wallet.strayed, news |-> wallet.news]
          /\ wallet.account \in Payers \union {Null} /\ wallet.chain \in Chains
          /\ wallet.moves \in Nat /\ wallet.sent \in Nat /\ wallet.strayed \in BOOLEAN
          /\ wallet.news \in Seq(Announcement)
      BY <3>1, <3>2
    <3> QED BY <3>3 DEF WalletType
  <2>2. panel \in Panel
    BY DEF WalletInit, Panel
  <2> QED BY <2>1, <2>2, RestingIsTyped DEF WalletInit, WalletTyped
<1>2. Resting.at = "idle" /\ Resting.op = "none" /\ \A k \in Clicks : click[k] = Resting
  BY DEF Resting, WalletInit
<1>3. \A k \in Clicks : Shape(click[k]) /\ Asked(click[k])
  BY <1>2 DEF Shape, Asked
<1>4. ReadersWait /\ JudgesWait
  BY WalletAssumption DEF WalletInit, ReadersWait, JudgesWait
<1>5. ~wallet.strayed
  BY DEF WalletInit
<1>6. Locked
  <2>1. \A k \in Clicks : ~Current(click[k]) /\ click[k].at # "submit"
    BY <1>2 DEF Current
  <2>2. Paying = {}
    BY <1>2 DEF Paying
  <2>3. \A v \in Verdicts : verdict[v] = Null
    BY DEF WalletInit
  <2> QED BY <1>2, <2>1, <2>2, <2>3 DEF Locked
<1> QED BY <1>1, <1>3, <1>4, <1>5, <1>6 DEF WalletParts

(* The wallet panel sends nothing on a network the page did not ask for,   *)
(* and never has two payments under way, however the wallet's answers and  *)
(* announcements overtake each other (wallet-pay.tsx, payWithWallet).      *)
THEOREM TheWalletIsGuarded == Spec => []PanelGuardsTheWallet
<1>1. WalletInv /\ [Next]_vars => WalletInv'
  <2> SUFFICES ASSUME WalletInv, [Next]_vars, part = "wallet"
               PROVE  WalletInv'
    BY DEF WalletInv, Next, vars
  <2>1. part' = part /\ (WalletNext \/ UNCHANGED walletVars)
    BY DEF Next, vars
  <2>2. CASE UNCHANGED walletVars
    BY <2>1, <2>2 DEF walletVars, WalletInv, WalletParts, WalletTyped, Asked, ReadersWait,
                      JudgesWait, Locked, Paying
  <2> QED BY <2>1, <2>2, WalletStep DEF WalletInv
<1>2. WalletInv => PanelGuardsTheWallet
  <2> SUFFICES ASSUME WalletParts
               PROVE  ~wallet.strayed /\ (Cardinality(Paying) <= 1 \/ panel.unlocked)
    BY DEF WalletInv, PanelGuardsTheWallet, WrongChainSendsNothing, PayIsLockedWhileOneRuns
  <2>1. CASE Paying = {}
    BY <2>1, FS_EmptySet DEF WalletParts
  <2>2. CASE Paying # {} /\ ~panel.unlocked
    <3>1. PICK k \in Clicks : k \in Paying
      BY <2>2 DEF Paying
    <3>2. Paying = {k}
      BY <2>2, <3>1 DEF WalletParts, Locked
    <3>3. Cardinality({k}) = 1
      BY FS_Singleton
    <3> QED BY <3>2, <3>3 DEF WalletParts
  <2> QED BY <2>1, <2>2 DEF WalletParts
<1> QED BY <1>1, <1>2, WalletBegins, PTL DEF Spec

-----------------------------------------------------------------------------
(* What the panel shows.                                                   *)

(* The account the wallet announced last is the one it has; once nothing   *)
(* more is announced, the panel has it, too, or the handler it was granted *)
(* to, unless an announcement went unheard.                                *)
OnlyNewsOfChain == \A i \in DOMAIN wallet.news : wallet.news[i].news = "chain"
Told ==
  /\ \A i \in DOMAIN wallet.news :
       /\ wallet.news[i].news = "accounts"
       /\ \A j \in DOMAIN wallet.news : j > i => wallet.news[j].news = "chain"
       => wallet.news[i].account = wallet.account
  /\ OnlyNewsOfChain /\ ~panel.unheard =>
       /\ panel.account # Null => panel.account = wallet.account
       /\ \A k \in Clicks : click[k].at = "granted" => click[k].account = wallet.account

NewsOfChain == \E i \in DOMAIN wallet.news : wallet.news[i].news = "chain"
NothingRead == \A r \in Readings : reading[r] = Null

(* While the last readings did not blur what is shown, there is one at     *)
(* most, for the account shown; and what was or is being read of the       *)
(* network is so, until the wallet's announcement of another is heard.     *)
Fresh ==
  panel.account # Null /\ ~panel.blurred /\ ~panel.unheard =>
    /\ \A r, s \in Readings : reading[r] # Null /\ reading[s] # Null => r = s
    /\ \A r \in Readings : reading[r] # Null => reading[r].account = panel.account
    /\ NothingRead => panel.balance \in {panel.account, Null}
    /\ ~NewsOfChain =>
         /\ \A r \in Readings : reading[r] # Null =>
              /\ reading[r].seen \in {Null, wallet.chain}
              /\ reading[r].chained => panel.chain = wallet.chain
         /\ \A k \in Clicks : click[k].at = "again" => click[k].seen \in {Null, wallet.chain}
         /\ NothingRead => panel.chain = wallet.chain

(* A handler that was granted an account was so before.                    *)
GrantsAreKept ==
  \A k \in Clicks : click'[k].at = "granted" =>
    click[k].at = "granted" /\ click'[k].account = click[k].account

ShownInv == part = "wallet" => WalletParts /\ Told /\ Fresh

(* A refresh begins anew, or blurs.                                        *)
LEMMA FreshAfterRefresh ==
  ASSUME WalletTyped, NEW account \in Payers, NEW for \in Clicks \union {Null},
         NEW p \in Panel, Refresh(account, for, p),
         \A k \in Clicks : click'[k].at = "again" => click[k].at = "again"
  PROVE  Fresh'
<1> DEFINE r == CHOOSE s \in Free(Readings, reading, Null) : TRUE
           blurred == \/ Free(Readings, reading, Null) # Readings
                      \/ \E k \in Clicks : click[k].at = "again"
                      \/ account # p.account
           new == [account |-> account, seen |-> Null, for |-> for, chained |-> FALSE]
<1>1. r \in Readings
  <2>1. r \in Free(Readings, reading, Null)
    BY DEF Refresh
  <2> QED BY <2>1 DEF Free
<1>2. panel' = [p EXCEPT !.blurred = blurred] /\ reading' = [reading EXCEPT ![r] = new]
  BY DEF Refresh
<1>3. blurred \in BOOLEAN
  OBVIOUS
<1>4. ~blurred => /\ \A s \in Readings : reading[s] = Null
                  /\ \A k \in Clicks : click[k].at # "again"
                  /\ account = p.account
  BY DEF Free
<1> HIDE DEF blurred, r
<1>5. panel'.blurred = blurred /\ panel'.account = p.account
  BY <1>2, <1>3 DEF Panel
<1>6. new \in Reading /\ new.account = account /\ new.seen = Null /\ ~new.chained
  BY DEF Reading
<1> HIDE DEF new
<1>7. new # Null
  BY <1>6, WalletAssumption
<1>8. reading'[r] = new /\ \A s \in Readings : s # r => reading'[s] = reading[s]
  BY <1>1, <1>2 DEF WalletTyped
<1>9. ~NothingRead'
  BY <1>1, <1>7, <1>8 DEF NothingRead
<1> QED BY <1>1, <1>4, <1>5, <1>6, <1>8, <1>9 DEF Fresh

(* A step that shows nothing else and reads nothing for the panel.         *)
LEMMA FreshBeside ==
  ASSUME Fresh, panel'.account = panel.account, panel'.chain = panel.chain,
         panel'.balance = panel.balance, panel.blurred => panel'.blurred, panel.unheard => panel'.unheard,
         reading' = reading, wallet'.chain = wallet.chain, NewsOfChain => NewsOfChain',
         \A k \in Clicks : click'[k].at = "again" =>
           \/ click'[k].seen \in {Null, wallet.chain}
           \/ click[k].at = "again" /\ click'[k].seen = click[k].seen
  PROVE  Fresh'
<1>1. NothingRead' = NothingRead
  BY DEF NothingRead
<1> SUFFICES ASSUME panel'.account # Null, ~panel'.blurred, ~panel'.unheard
             PROVE  /\ \A r, s \in Readings : reading'[r] # Null /\ reading'[s] # Null => r = s
                    /\ \A r \in Readings : reading'[r] # Null =>
                         reading'[r].account = panel'.account
                    /\ NothingRead' => panel'.balance \in {panel'.account, Null}
                    /\ ~NewsOfChain' =>
                         /\ \A r \in Readings : reading'[r] # Null =>
                              /\ reading'[r].seen \in {Null, wallet'.chain}
                              /\ reading'[r].chained => panel'.chain = wallet'.chain
                         /\ \A k \in Clicks : click'[k].at = "again" =>
                              click'[k].seen \in {Null, wallet'.chain}
                         /\ NothingRead' => panel'.chain = wallet'.chain
  BY DEF Fresh
<1> QED BY <1>1 DEF Fresh

LEMMA ToldBeside ==
  ASSUME Told, wallet'.news = wallet.news, wallet'.account = wallet.account,
         panel'.account = panel.account, panel.unheard => panel'.unheard, GrantsAreKept
  PROVE  Told'
BY DEF Told, OnlyNewsOfChain, GrantsAreKept

(* A first announcement is heard: the others are told as they were.        *)
LEMMA ToldWhenHeard ==
  ASSUME WalletTyped, Told, wallet.news # <<>>, Heard(wallet.news),
         click' = click,
         ~panel'.unheard =>
           /\ \/ panel'.account = Null
              \/ /\ panel'.account = panel.account /\ ~panel.unheard
                 /\ Head(wallet.news).news = "chain"
              \/ /\ panel'.account = Head(wallet.news).account
                 /\ Head(wallet.news).news = "accounts"
           /\ Granted = {} \/ (Head(wallet.news).news = "chain" /\ ~panel.unheard)
  PROVE  Told'
<1> DEFINE q == wallet.news
           rest == Tail(wallet.news)
<1>1. wallet \in WalletType /\ q \in Seq(Announcement) /\ wallet' = [wallet EXCEPT !.news = rest]
  BY DEF WalletTyped, WalletType, Heard
<1>2. /\ DOMAIN q = 1..Len(q) /\ Len(q) \in Nat \ {0} /\ DOMAIN rest = 1..(Len(q) - 1)
      /\ \A i \in DOMAIN rest : rest[i] = q[i + 1]
      /\ Head(wallet.news) = q[1]
  BY <1>1
<1>3. wallet'.news = rest /\ wallet'.account = wallet.account
  BY <1>1 DEF WalletType
<1> HIDE DEF rest
<1>4. \A i \in DOMAIN q : i = 1 \/ i - 1 \in DOMAIN rest
  BY <1>2
<1>5. \A i \in DOMAIN rest : i + 1 \in DOMAIN q /\ i \in Int
  BY <1>2
<1>6. ASSUME NEW i \in DOMAIN rest, rest[i].news = "accounts",
             \A j \in DOMAIN rest : j > i => rest[j].news = "chain"
      PROVE  rest[i].account = wallet.account
  <2>1. ASSUME NEW j \in DOMAIN q, j > i + 1 PROVE q[j].news = "chain"
    <3>1. j # 1 /\ j \in Int /\ i \in Int /\ i > 0
      BY <1>2, <2>1
    <3>2. j - 1 \in DOMAIN rest /\ j - 1 > i /\ (j - 1) + 1 = j
      BY <1>4, <2>1, <3>1
    <3> QED BY <1>2, <1>6, <3>2
  <2>2. q[i + 1].news = "accounts" /\ i + 1 \in DOMAIN q
    BY <1>2, <1>5, <1>6
  <2>3. q[i + 1].account = wallet.account
    BY <2>1, <2>2 DEF Told
  <2> QED BY <1>2, <2>3
<1>7. ASSUME ~panel'.unheard, panel'.account # Null, \A i \in DOMAIN rest : rest[i].news = "chain"
      PROVE  panel'.account = wallet.account
  <2>1. ASSUME NEW j \in DOMAIN q, j # 1 PROVE q[j].news = "chain"
    <3>1. j - 1 \in DOMAIN rest /\ (j - 1) + 1 = j
      BY <1>2, <1>4, <2>1
    <3> QED BY <1>2, <1>7, <3>1
  <2>2. 1 \in DOMAIN q /\ \A j \in DOMAIN q : j > 1 => j # 1
    BY <1>2
  <2>3. CASE panel'.account = panel.account /\ ~panel.unheard /\ q[1].news = "chain"
    <3>1. \A j \in DOMAIN q : q[j].news = "chain"
      BY <2>1, <2>3
    <3> QED BY <1>7, <2>3, <3>1 DEF Told, OnlyNewsOfChain
  <2>4. CASE panel'.account = q[1].account /\ q[1].news = "accounts"
    <3>1. \A j \in DOMAIN q : j > 1 => q[j].news = "chain"
      BY <2>1, <2>2
    <3> QED BY <2>2, <2>4, <3>1 DEF Told
  <2> QED BY <1>2, <1>7, <2>3, <2>4
<1>8. ASSUME ~panel'.unheard, NEW k \in Clicks, click[k].at = "granted",
             \A i \in DOMAIN rest : rest[i].news = "chain"
      PROVE  click[k].account = wallet.account
  <2>1. q[1].news = "chain" /\ ~panel.unheard
    BY <1>2, <1>8 DEF Granted
  <2>2. ASSUME NEW j \in DOMAIN q PROVE q[j].news = "chain"
    <3>1. CASE j = 1
      BY <2>1, <3>1
    <3>2. CASE j # 1
      <4>1. j - 1 \in DOMAIN rest /\ (j - 1) + 1 = j
        BY <1>2, <1>4, <3>2
      <4> QED BY <1>2, <1>8, <4>1
    <3> QED BY <3>1, <3>2
  <2> QED BY <1>8, <2>1, <2>2 DEF Told, OnlyNewsOfChain
<1> QED BY <1>3, <1>6, <1>7, <1>8 DEF Told, OnlyNewsOfChain

(* The wallet moves: its announcement is the last.                         *)
LEMMA ToldWhenMoved ==
  ASSUME WalletTyped, Told, NEW news \in Announcement,
         wallet'.news = Append(wallet.news, news),
         \/ news.news = "accounts" /\ news.account = wallet'.account
         \/ news.news = "chain" /\ wallet'.account = wallet.account,
         panel'.account = panel.account, panel'.unheard = panel.unheard, GrantsAreKept
  PROVE  Told'
<1> DEFINE q == wallet.news
           more == Append(wallet.news, news)
           n == Len(wallet.news) + 1
<1>1. q \in Seq(Announcement)
  BY DEF WalletTyped, WalletType
<1>2. /\ DOMAIN q = 1..(n - 1) /\ n \in Nat \ {0} /\ DOMAIN more = 1..n
      /\ \A i \in DOMAIN q : more[i] = q[i]
      /\ more[n] = news /\ n \in DOMAIN more
  BY <1>1
<1> HIDE DEF more, n
<1>3. wallet'.news = more
  BY DEF more
<1>4. /\ \A i \in DOMAIN more : i # n => i \in DOMAIN q /\ n > i
      /\ \A i \in DOMAIN q : i \in DOMAIN more
      /\ \A i \in DOMAIN more : ~(i > n)
  BY <1>2
<1>5. ASSUME NEW i \in DOMAIN more, more[i].news = "accounts",
             \A j \in DOMAIN more : j > i => more[j].news = "chain"
      PROVE  more[i].account = wallet'.account
  <2>1. CASE i = n
    BY <1>2, <1>5, <2>1
  <2>2. CASE i # n
    <3>1. i \in DOMAIN q /\ news.news = "chain"
      BY <1>2, <1>4, <1>5, <2>2
    <3>2. q[i].news = "accounts" /\ \A j \in DOMAIN q : j > i => q[j].news = "chain"
      BY <1>2, <1>4, <1>5, <3>1
    <3> QED BY <1>2, <3>1, <3>2 DEF Told
  <2> QED BY <2>1, <2>2
<1>6. ASSUME \A i \in DOMAIN more : more[i].news = "chain"
      PROVE  OnlyNewsOfChain /\ wallet'.account = wallet.account
  BY <1>2, <1>4, <1>6 DEF OnlyNewsOfChain
<1> QED BY <1>3, <1>5, <1>6 DEF Told, OnlyNewsOfChain, GrantsAreKept

(* Each step of the wallet part keeps what is told and what is fresh.      *)
LEMMA ClicksShow ==
  ASSUME WalletParts, Told, Fresh, ClickConnect \/ ClickSwitch \/ ClickPay
  PROVE  Told' /\ Fresh'
<1>1. /\ panel'.account = panel.account /\ panel'.chain = panel.chain
      /\ panel'.balance = panel.balance /\ panel'.blurred = panel.blurred
      /\ panel'.unheard = panel.unheard
  BY DEF ClickConnect, ClickSwitch, ClickPay, BeginClick, WalletParts, WalletTyped, Panel
<1>2. /\ UNCHANGED <<wallet, reading>>
      /\ \E k \in Clicks, h \in Click : click' = [click EXCEPT ![k] = h]
           /\ h.at \notin {"again", "granted"}
  BY Clicking DEF ClickConnect, ClickSwitch, ClickPay, WalletParts
<1>3. \A k \in Clicks : click'[k].at = "again" =>
        click[k].at = "again" /\ click'[k].seen = click[k].seen
  BY <1>2 DEF WalletParts, WalletTyped
<1>4. NewsOfChain => NewsOfChain'
  BY <1>2 DEF NewsOfChain
<1>5. GrantsAreKept
  BY <1>2 DEF WalletParts, WalletTyped, GrantsAreKept
<1> QED BY <1>1, <1>2, <1>3, <1>4, <1>5, FreshBeside, ToldBeside

(* A handler comes to rest, or submits.                                    *)
LEMMA PaysShow ==
  ASSUME WalletParts, Told, Fresh, NEW k \in Clicks,
         Refused(k) \/ Decline(k) \/ SignSilently(k) \/ Sign(k)
  PROVE  Told' /\ Fresh'
<1>1. /\ panel'.account = panel.account /\ panel'.chain = panel.chain
      /\ panel'.balance = panel.balance /\ panel'.blurred = panel.blurred
      /\ panel'.unheard = panel.unheard
  BY DEF Refused, Decline, SignSilently, Sign, WalletParts, WalletTyped, Panel
<1>2. reading' = reading /\ (wallet' = wallet \/ wallet' = Broadcast(k))
  BY DEF Refused, Decline, SignSilently, Sign
<1>3. /\ wallet'.news = wallet.news /\ wallet'.account = wallet.account
      /\ wallet'.chain = wallet.chain
  BY <1>2 DEF Broadcast, WalletParts, WalletTyped, WalletType
<1>4. Resting.at \notin {"again", "granted"}
  BY DEF Resting
<1>5. click[k] \in Click
  BY DEF WalletParts, WalletTyped
<1>6. [click[k] EXCEPT !.at = "submit"].at \notin {"again", "granted"}
  BY <1>5 DEF Click
<1>7. \E h : click' = [click EXCEPT ![k] = h] /\ h.at \notin {"again", "granted"}
  BY <1>4, <1>6 DEF Refused, Decline, SignSilently, Sign
<1>8. \A l \in Clicks : click'[l].at = "again" =>
        click[l].at = "again" /\ click'[l].seen = click[l].seen
  BY <1>7 DEF WalletParts, WalletTyped
<1>9. NewsOfChain => NewsOfChain'
  BY <1>3 DEF NewsOfChain
<1>10. GrantsAreKept
  BY <1>7 DEF WalletParts, WalletTyped, GrantsAreKept
<1> QED BY <1>1, <1>2, <1>3, <1>8, <1>9, <1>10, FreshBeside, ToldBeside

(* The network as the wallet answers it.                                   *)
LEMMA PayChainAnsweredShows ==
  ASSUME WalletParts, Told, Fresh, NEW k \in Clicks, PayChainAnswered(k)
  PROVE  Told' /\ Fresh'
<1> DEFINE h == [click[k] EXCEPT !.seen = wallet.chain]
<1>1. click[k] \in Click /\ wallet.chain \in Chains
  BY DEF WalletParts, WalletTyped, WalletType
<1>2. h.seen = wallet.chain /\ h.at = click[k].at /\ h.account = click[k].account
  BY <1>1 DEF Click
<1>3. click' = [click EXCEPT ![k] = h] /\ UNCHANGED <<wallet, panel, reading>>
  BY DEF PayChainAnswered
<1> HIDE DEF h
<1>4. \A l \in Clicks : click'[l].at = "again" =>
        \/ click'[l].seen \in {Null, wallet.chain}
        \/ click[l].at = "again" /\ click'[l].seen = click[l].seen
  BY <1>2, <1>3 DEF WalletParts, WalletTyped
<1>5. NewsOfChain => NewsOfChain'
  BY <1>3 DEF NewsOfChain
<1>6. GrantsAreKept
  BY <1>2, <1>3 DEF WalletParts, WalletTyped, GrantsAreKept
<1> QED BY <1>3, <1>4, <1>5, <1>6, FreshBeside, ToldBeside

LEMMA CheckChainShows ==
  ASSUME WalletParts, Told, Fresh, NEW k \in Clicks, CheckChain(k)
  PROVE  Told' /\ Fresh'
<1> DEFINE go == [click[k] EXCEPT !.at = "prompt"]
           again == [click[k] EXCEPT !.at = "again", !.seen = Null]
           blurred == panel.blurred \/ Free(Readings, reading, Null) # Readings
<1>1. click[k] \in Click /\ panel \in Panel /\ UNCHANGED <<wallet, reading>>
  BY DEF WalletParts, WalletTyped, CheckChain
<1>2. go.at = "prompt" /\ again.seen = Null /\ again.at = "again"
  BY <1>1 DEF Click
<1>3. click' = [click EXCEPT ![k] = go] \/ click' = [click EXCEPT ![k] = again]
  BY DEF CheckChain, WalletParts, WalletTyped
<1>4. panel' = panel \/ panel' = [panel EXCEPT !.stage = "ready", !.blurred = blurred]
  BY DEF CheckChain
<1> HIDE DEF go, again
<1>5. \A l \in Clicks : click'[l].at = "again" =>
        \/ click'[l].seen \in {Null, wallet.chain}
        \/ click[l].at = "again" /\ click'[l].seen = click[l].seen
  BY <1>2, <1>3 DEF WalletParts, WalletTyped
<1>6. blurred \in BOOLEAN /\ (panel.blurred => blurred)
  OBVIOUS
<1> HIDE DEF blurred
<1>7. /\ panel'.account = panel.account /\ panel'.chain = panel.chain
      /\ panel'.balance = panel.balance /\ (panel.blurred => panel'.blurred)
      /\ panel'.unheard = panel.unheard
  BY <1>1, <1>4, <1>6 DEF Panel
<1>8. NewsOfChain => NewsOfChain'
  BY <1>1 DEF NewsOfChain
<1>9. GrantsAreKept
  BY <1>2, <1>3 DEF WalletParts, WalletTyped, GrantsAreKept
<1> QED BY <1>1, <1>5, <1>7, <1>8, <1>9, FreshBeside, ToldBeside

LEMMA ShowChainShows ==
  ASSUME WalletParts, Told, Fresh, NEW k \in Clicks, ShowChain(k)
  PROVE  Told' /\ Fresh'
<1>1. /\ click[k] \in Click /\ panel \in Panel /\ UNCHANGED <<wallet, reading>>
      /\ click[k].at = "again" /\ click[k].seen \in Chains
      /\ click' = [click EXCEPT ![k] = Resting]
  BY DEF WalletParts, WalletTyped, ShowChain, Click
<1>2. \A l \in Clicks : click'[l].at = "again" =>
        click[l].at = "again" /\ click'[l].seen = click[l].seen
  BY <1>1 DEF WalletParts, WalletTyped, Resting
<1>6. GrantsAreKept
  BY <1>1 DEF WalletParts, WalletTyped, Resting, GrantsAreKept
<1>3. NewsOfChain' = NewsOfChain /\ NothingRead' = NothingRead
  BY <1>1 DEF NewsOfChain, NothingRead
<1>4. CASE panel' = [panel EXCEPT !.blurred = TRUE]
  <2>1. /\ panel'.account = panel.account /\ panel'.chain = panel.chain
        /\ panel'.balance = panel.balance /\ panel'.blurred
        /\ panel'.unheard = panel.unheard
    BY <1>1, <1>4 DEF Panel
  <2> QED BY <1>1, <1>2, <1>3, <1>6, <2>1, FreshBeside, ToldBeside
<1>5. CASE panel' = [panel EXCEPT !.chain = click[k].seen]
  <2>1. /\ panel'.account = panel.account /\ panel'.chain = click[k].seen
        /\ panel'.balance = panel.balance /\ panel'.blurred = panel.blurred
        /\ panel'.unheard = panel.unheard
    BY <1>1, <1>5 DEF Panel
  <2>2. Fresh /\ panel.account # Null /\ ~panel.blurred /\ ~panel.unheard /\ ~NewsOfChain =>
          click[k].seen = wallet.chain
    BY <1>1, WalletAssumption DEF Fresh
  <2>3. Told'
    BY <1>1, <1>6, <2>1, ToldBeside
  <2>4. Fresh'
    BY <1>1, <1>2, <1>3, <2>1, <2>2 DEF Fresh
  <2> QED BY <2>3, <2>4
<1> QED BY <1>4, <1>5 DEF ShowChain

LEMMA ClickVerifyShows ==
  ASSUME WalletParts, Told, Fresh, ClickVerify
  PROVE  Told' /\ Fresh'
<1>1. /\ panel \in Panel /\ UNCHANGED <<click, reading>>
      /\ panel' = [panel EXCEPT !.verifying = TRUE]
      /\ wallet'.account = wallet.account /\ wallet'.chain = wallet.chain
      /\ wallet'.news = wallet.news
  <2> DEFINE moves == wallet.moves + 1
  <2>1. wallet \in WalletType /\ wallet' = [wallet EXCEPT !.moves = moves]
    BY DEF ClickVerify, WalletParts, WalletTyped
  <2> HIDE DEF moves
  <2> QED BY <2>1 DEF ClickVerify, WalletParts, WalletTyped, WalletType
<1>2. /\ panel'.account = panel.account /\ panel'.chain = panel.chain
      /\ panel'.balance = panel.balance /\ panel'.blurred = panel.blurred
      /\ panel'.unheard = panel.unheard
  BY <1>1 DEF Panel
<1>3. NewsOfChain => NewsOfChain'
  BY <1>1 DEF NewsOfChain
<1>4. GrantsAreKept
  BY <1>1 DEF GrantsAreKept
<1> QED BY <1>1, <1>2, <1>3, <1>4, FreshBeside, ToldBeside

LEMMA VerdictArrivesShows ==
  ASSUME WalletParts, Told, Fresh, NEW v \in Verdicts, VerdictArrives(v)
  PROVE  Told' /\ Fresh'
<1> DEFINE k == verdict[v]
           unlocked == panel.unlocked \/ \E u \in Verdicts \ {v} : verdict[u] # Null
           p == [panel EXCEPT !.verifying = FALSE, !.unlocked = unlocked]
<1>1. panel \in Panel /\ k \in Clicks \union {Pasted} /\ wallet' = wallet
  BY DEF WalletParts, WalletTyped, VerdictArrives
<1>2. unlocked \in BOOLEAN
  BY <1>1 DEF Panel
<1>3. /\ p \in Panel /\ p.account = panel.account /\ p.chain = panel.chain
      /\ p.balance = panel.balance /\ p.blurred = panel.blurred
      /\ p.unheard = panel.unheard
  BY <1>1, <1>2 DEF Panel
<1>4. NewsOfChain' = NewsOfChain
  BY <1>1 DEF NewsOfChain
<1>5. CASE k = Pasted
  <2>1. panel' = p /\ UNCHANGED <<click, reading>>
    BY <1>5 DEF VerdictArrives
  <2> HIDE DEF p, k
  <2>2. GrantsAreKept
    BY <2>1 DEF GrantsAreKept
  <2> QED BY <1>1, <1>3, <1>4, <2>1, <2>2, FreshBeside, ToldBeside
<1>6. CASE k # Pasted
  <2>1. k \in Clicks /\ click' = [click EXCEPT ![k] = Resting]
        /\ Refresh(click[k].account, Null, p)
    BY <1>1, <1>6 DEF VerdictArrives
  <2>2. click[k].account \in Payers
    BY <2>1 DEF WalletParts, WalletTyped, JudgesWait, Shape, Click
  <2>3. \A l \in Clicks : click'[l].at = "again" => click[l].at = "again"
    BY <2>1 DEF WalletParts, WalletTyped, Resting
  <2>6. GrantsAreKept
    BY <2>1 DEF WalletParts, WalletTyped, Resting, GrantsAreKept
  <2> HIDE DEF p, k
  <2>4. Fresh'
    BY <1>3, <2>1, <2>2, <2>3, FreshAfterRefresh DEF WalletParts
  <2>5. panel'.account = panel.account /\ panel'.unheard = panel.unheard
    BY <1>3, <2>1, <2>2, Refreshing DEF WalletParts
  <2> QED BY <1>1, <2>4, <2>5, <2>6, ToldBeside
<1> QED BY <1>5, <1>6

(* The account that the wallet grants is the one it has.                   *)
LEMMA ConnectedShows ==
  ASSUME WalletParts, Told, Fresh, NEW k \in Clicks, Connected(k)
  PROVE  Told' /\ Fresh'
<1> DEFINE p == [panel EXCEPT !.account = click[k].account]
<1>1. /\ panel \in Panel /\ click[k] \in Click /\ click[k].account \in Payers
      /\ click[k].at = "granted" /\ wallet' = wallet
  BY DEF Connected, WalletParts, WalletTyped, Click
<1>2. p \in Panel /\ p.account = click[k].account /\ p.unheard = panel.unheard
  BY <1>1 DEF Panel
<1>3. Refresh(click[k].account, k, p) /\ click' = [click EXCEPT ![k].at = "refresh"]
  BY DEF Connected
<1> HIDE DEF p
<1>4. \A l \in Clicks : click'[l].at = "again" => click[l].at = "again"
  BY <1>1, <1>3 DEF WalletParts, WalletTyped, Click
<1>5. Fresh'
  BY <1>1, <1>2, <1>3, <1>4, FreshAfterRefresh DEF WalletParts
<1>6. panel'.account = click[k].account /\ panel'.unheard = panel.unheard
  BY <1>1, <1>2, <1>3, Refreshing DEF WalletParts
<1>7. GrantsAreKept
  BY <1>1, <1>3 DEF WalletParts, WalletTyped, Click, GrantsAreKept
<1> QED BY <1>1, <1>5, <1>6, <1>7 DEF Told, OnlyNewsOfChain, GrantsAreKept

(* What was granted is what the wallet announced last, or the page is not  *)
(* connected, and no other handler was granted anything.                   *)
LEMMA GrantShows ==
  ASSUME WalletParts, Told, Fresh, NEW k \in Clicks, Grant(k)
  PROVE  Told' /\ Fresh'
<1> DEFINE h == [click[k] EXCEPT !.at = "granted", !.account = wallet.account]
           unheard == panel.unheard /\ (panel.account # Null \/ Granted # {})
<1>1. /\ panel \in Panel /\ click[k] \in Click /\ wallet' = wallet /\ reading' = reading
      /\ click' = [click EXCEPT ![k] = h] /\ panel' = [panel EXCEPT !.unheard = unheard]
  BY DEF Grant, WalletParts, WalletTyped
<1>2. h.at = "granted" /\ h.account = wallet.account
  BY <1>1 DEF Click
<1>3. unheard \in BOOLEAN
  BY <1>1 DEF Panel
<1> HIDE DEF h
<1>4. /\ panel'.account = panel.account /\ panel'.chain = panel.chain
      /\ panel'.balance = panel.balance /\ panel'.blurred = panel.blurred
      /\ panel'.unheard = unheard
  BY <1>1, <1>3 DEF Panel
<1>5. click'[k] = h /\ \A l \in Clicks : l # k => click'[l] = click[l]
  BY <1>1 DEF WalletParts, WalletTyped
<1>6. NewsOfChain' = NewsOfChain /\ OnlyNewsOfChain' = OnlyNewsOfChain
  BY <1>1 DEF NewsOfChain, OnlyNewsOfChain
<1>7. CASE panel.account # Null \/ Granted # {}
  <2>1. panel'.unheard = panel.unheard
    <3>1. panel.unheard \in BOOLEAN
      BY <1>1 DEF Panel
    <3>2. unheard = panel.unheard
      BY <1>7, <3>1
    <3> QED BY <1>4, <3>2
  <2>2. \A l \in Clicks : click'[l].at = "again" =>
          click[l].at = "again" /\ click'[l].seen = click[l].seen
    BY <1>2, <1>5
  <2>3. Fresh'
    BY <1>1, <1>4, <1>6, <2>1, <2>2, FreshBeside
  <2>4. Told'
    BY <1>1, <1>2, <1>4, <1>5, <1>6, <2>1 DEF Told
  <2> QED BY <2>3, <2>4
<1>8. CASE panel.account = Null /\ Granted = {}
  <2>1. \A l \in Clicks : click'[l].at = "granted" => l = k
    BY <1>5, <1>8 DEF Granted
  <2>2. Told'
    BY <1>1, <1>2, <1>4, <1>5, <1>6, <1>8, <2>1 DEF Told
  <2> QED BY <1>4, <1>8, <2>2 DEF Fresh
<1> QED BY <1>7, <1>8

LEMMA SwitchedShows ==
  ASSUME WalletParts, Told, Fresh, NEW k \in Clicks, Switched(k)
  PROVE  Told' /\ Fresh'
<1> DEFINE news == [news |-> "chain", account |-> Null]
           more == Append(wallet.news, news)
<1>1. panel \in Panel /\ wallet \in WalletType /\ click[k].account \in Payers
  BY DEF Switched, WalletParts, WalletTyped, Click
<1>2. Refresh(click[k].account, k, panel) /\ click' = [click EXCEPT ![k].at = "refresh"]
  BY DEF Switched
<1>3. \A l \in Clicks : click'[l].at = "again" => click[l].at = "again"
  BY <1>2 DEF WalletParts, WalletTyped, Click
<1>4. Fresh'
  BY <1>1, <1>2, <1>3, FreshAfterRefresh DEF WalletParts
<1>10. GrantsAreKept
  BY <1>2 DEF WalletParts, WalletTyped, Click, GrantsAreKept
<1>5. panel'.account = panel.account /\ panel'.unheard = panel.unheard
  BY <1>1, <1>2, Refreshing DEF WalletParts
<1>6. news \in Announcement /\ news.news = "chain"
  BY DEF Announcement
<1>7. wallet' = wallet \/ wallet' = [wallet EXCEPT !.chain = "required", !.news = more]
  BY DEF Switched
<1>8. CASE wallet' = wallet
  BY <1>4, <1>5, <1>8, <1>10, ToldBeside
<1>9. CASE wallet' = [wallet EXCEPT !.chain = "required", !.news = more]
  <2>1. wallet'.news = more /\ wallet'.account = wallet.account
    BY <1>1, <1>9 DEF WalletType
  <2> HIDE DEF news
  <2> QED BY <1>4, <1>5, <1>6, <1>10, <2>1, ToldWhenMoved DEF WalletParts
<1> QED BY <1>7, <1>8, <1>9

(* What the wallet announces is heard, and read anew.                      *)
LEMMA HearingShows ==
  ASSUME WalletParts, Told, Fresh, HearAccounts \/ HearDisconnect \/ HearChain \/ HearNothing
  PROVE  Told' /\ Fresh'
<1>1. /\ panel \in Panel /\ Head(wallet.news) \in Announcement
      /\ wallet.news # <<>> /\ Heard(wallet.news)
  BY HeardNews DEF HearAccounts, HearDisconnect, HearChain, HearNothing, WalletParts, WalletTyped
<1>2. CASE HearAccounts
  <2> DEFINE account == Head(wallet.news).account
             unheard == Granted # {}
             p == [panel EXCEPT !.account = account, !.unheard = unheard]
  <2>1. account \in Payers /\ Head(wallet.news).news = "accounts" /\ unheard \in BOOLEAN
    BY <1>1, <1>2 DEF HearAccounts, Announcement
  <2>2. Refresh(account, Null, p) /\ click' = click
    BY <1>2 DEF HearAccounts
  <2>3. p \in Panel /\ p.account = account /\ p.unheard = unheard
    BY <1>1, <2>1 DEF Panel
  <2> HIDE DEF account, p, unheard
  <2>4. Fresh' /\ panel'.account = account /\ panel'.unheard = unheard
    BY <2>1, <2>2, <2>3, FreshAfterRefresh, Refreshing DEF WalletParts
  <2>5. ~panel'.unheard => Granted = {}
    BY <2>4 DEF unheard
  <2>6. panel'.account = Head(wallet.news).account
    BY <2>4 DEF account
  <2> QED BY <1>1, <2>1, <2>2, <2>4, <2>5, <2>6, ToldWhenHeard DEF WalletParts
<1>3. CASE HearChain
  <2>1. panel.listens \in Payers /\ Head(wallet.news).news = "chain"
        /\ Refresh(panel.listens, Null, panel) /\ click' = click
    BY <1>1, <1>3 DEF HearChain, Panel
  <2>2. Fresh' /\ panel'.account = panel.account /\ panel'.unheard = panel.unheard
    BY <1>1, <2>1, FreshAfterRefresh, Refreshing DEF WalletParts
  <2> QED BY <1>1, <2>1, <2>2, ToldWhenHeard DEF WalletParts
<1>4. CASE HearDisconnect
  <2> DEFINE unlocked == panel.unlocked \/ Free(Clicks, click, Resting) # Clicks
             unheard == panel.unheard \/ Granted # {}
  <2>1. /\ panel' = [panel EXCEPT !.account = Null, !.chain = Null, !.balance = Null,
                                  !.stage = "idle", !.unlocked = unlocked, !.unheard = unheard]
        /\ click' = click
    BY <1>4 DEF HearDisconnect
  <2>2. unheard \in BOOLEAN /\ (~unheard => Granted = {})
    BY <1>1 DEF Panel
  <2> HIDE DEF unlocked, unheard
  <2>3. panel'.account = Null /\ panel'.unheard = unheard
    BY <1>1, <2>1, <2>2 DEF Panel
  <2>4. Told'
    BY <1>1, <2>1, <2>2, <2>3, ToldWhenHeard DEF WalletParts
  <2> QED BY <2>3, <2>4 DEF Fresh
<1>5. CASE HearNothing
  <2> DEFINE unheard == panel.unheard \/ panel.account # Null
                        \/ (Head(wallet.news).news = "accounts" /\ Granted # {})
  <2>1. click' = click /\ panel' = [panel EXCEPT !.unheard = unheard]
    BY <1>5 DEF HearNothing
  <2>2. /\ unheard \in BOOLEAN
        /\ ~unheard => /\ ~panel.unheard /\ panel.account = Null
                       /\ Granted = {} \/ Head(wallet.news).news = "chain"
    BY <1>1 DEF Panel, Announcement
  <2> HIDE DEF unheard
  <2>3. panel'.account = panel.account /\ panel'.unheard = unheard
    BY <1>1, <2>1, <2>2 DEF Panel
  <2>4. Told'
    BY <1>1, <2>1, <2>2, <2>3, ToldWhenHeard DEF WalletParts
  <2> QED BY <2>2, <2>3, <2>4 DEF Fresh
<1> QED BY <1>2, <1>3, <1>4, <1>5

(* The listeners are attached.                                             *)
LEMMA AttachShows ==
  ASSUME WalletParts, Told, Fresh, Attach
  PROVE  Told' /\ Fresh'
<1>1. UNCHANGED <<wallet, click, reading>> /\ panel' = [panel EXCEPT !.listens = panel.account]
      /\ panel \in Panel
  BY DEF Attach, WalletParts, WalletTyped
<1>2. /\ panel'.account = panel.account /\ panel'.chain = panel.chain
      /\ panel'.balance = panel.balance /\ panel'.blurred = panel.blurred
      /\ panel'.unheard = panel.unheard
  BY <1>1 DEF Panel
<1>3. (NewsOfChain => NewsOfChain') /\ GrantsAreKept
  BY <1>1 DEF NewsOfChain, GrantsAreKept
<1> QED BY <1>1, <1>2, <1>3, FreshBeside, ToldBeside

(* The wallet's own moves are announced.                                   *)
LEMMA Moved ==
  ASSUME WalletTyped, NEW w \in WalletType, NEW news \in Announcement, Move(w, news),
         w.news = wallet.news
  PROVE  /\ wallet'.account = w.account /\ wallet'.chain = w.chain
         /\ wallet'.news = Append(wallet.news, news) /\ UNCHANGED <<panel, reading>>
<1> DEFINE more == Append(w.news, news)
           moves == w.moves + 1
<1>1. wallet' = [w EXCEPT !.moves = moves, !.news = more] /\ UNCHANGED <<panel, reading>>
  BY DEF Move
<1>2. more = Append(wallet.news, news)
  OBVIOUS
<1> HIDE DEF more, moves
<1>3. wallet'.account = w.account /\ wallet'.chain = w.chain /\ wallet'.news = more
  BY <1>1 DEF WalletType
<1> QED BY <1>1, <1>2, <1>3

LEMMA MovingShows ==
  ASSUME WalletParts, Told, Fresh,
         \/ \E account \in Payers \union {Null} : MoveAccount(account)
         \/ \E chain \in Chains : MoveChain(chain)
  PROVE  Told' /\ Fresh'
<1>1. wallet \in WalletType /\ wallet.news \in Seq(Announcement) /\ WalletTyped
  BY DEF WalletParts, WalletTyped, WalletType
<1>2. ASSUME NEW account \in Payers \union {Null}, MoveAccount(account)
      PROVE  Told' /\ Fresh'
  <2> DEFINE news == [news |-> "accounts", account |-> account]
             more == Append(wallet.news, news)
             w == [wallet EXCEPT !.account = account]
  <2>1. news \in Announcement /\ news.news = "accounts" /\ news.account = account
    BY DEF Announcement
  <2>2. /\ w \in WalletType /\ w.account = account /\ w.chain = wallet.chain
        /\ w.news = wallet.news
    BY <1>1 DEF WalletType
  <2>3. Move(w, news) /\ click' = click
    BY <1>2 DEF MoveAccount
  <2> HIDE DEF news, w
  <2>4. /\ wallet'.news = more /\ wallet'.account = account /\ wallet'.chain = wallet.chain
        /\ UNCHANGED <<panel, reading>>
    BY <1>1, <2>1, <2>2, <2>3, Moved
  <2>9. GrantsAreKept
    BY <2>3 DEF GrantsAreKept
  <2>5. Told'
    BY <1>1, <2>1, <2>4, <2>9, ToldWhenMoved
  <2>6. \A i \in DOMAIN wallet.news : i \in DOMAIN more /\ more[i] = wallet.news[i]
    BY <1>1, <2>1
  <2> HIDE DEF more
  <2>7. NewsOfChain => NewsOfChain'
    BY <2>4, <2>6 DEF NewsOfChain
  <2> QED BY <2>3, <2>4, <2>5, <2>7, FreshBeside
<1>3. ASSUME NEW chain \in Chains, MoveChain(chain)
      PROVE  Told' /\ Fresh'
  <2> DEFINE news == [news |-> "chain", account |-> Null]
             more == Append(wallet.news, news)
             w == [wallet EXCEPT !.chain = chain]
  <2>1. news \in Announcement /\ news.news = "chain"
    BY DEF Announcement
  <2>2. w \in WalletType /\ w.account = wallet.account /\ w.news = wallet.news
    BY <1>1 DEF WalletType
  <2>3. Move(w, news)
    BY <1>3 DEF MoveChain
  <2> HIDE DEF news, w
  <2>4. /\ wallet'.news = more /\ wallet'.account = wallet.account
        /\ UNCHANGED <<panel, reading>>
    BY <1>1, <2>1, <2>2, <2>3, Moved
  <2>9. GrantsAreKept
    BY <1>3 DEF MoveChain, WalletParts, WalletTyped, Click, GrantsAreKept
  <2>5. Told'
    BY <1>1, <2>1, <2>4, <2>9, ToldWhenMoved
  <2>6. Len(wallet.news) + 1 \in DOMAIN more /\ more[Len(wallet.news) + 1] = news
    BY <1>1, <2>1
  <2> HIDE DEF more
  <2>7. NewsOfChain' /\ NothingRead' = NothingRead
    BY <2>1, <2>4, <2>6 DEF NewsOfChain, NothingRead
  <2>8. Fresh'
    BY <2>4, <2>7 DEF Fresh
  <2> QED BY <2>5, <2>8
<1> QED BY <1>2, <1>3

(* The answers to a refresh, one after the other.                          *)
LEMMA ChainAnsweredShows ==
  ASSUME WalletParts, Told, Fresh, NEW r \in Readings, ChainAnswered(r)
  PROVE  Told' /\ Fresh'
<1> DEFINE answered == [reading[r] EXCEPT !.seen = wallet.chain]
<1>1. /\ reading[r] \in Reading /\ reading[r] # Null /\ ~reading[r].chained
      /\ UNCHANGED <<wallet, panel, click>> /\ wallet.chain \in Chains
  BY DEF ChainAnswered, WalletParts, WalletTyped, WalletType
<1>2. /\ answered \in Reading /\ answered.account = reading[r].account
      /\ answered.seen = wallet.chain /\ ~answered.chained
  BY <1>1 DEF Reading
<1>3. reading' = [reading EXCEPT ![r] = answered]
  BY DEF ChainAnswered
<1> HIDE DEF answered
<1>4. reading'[r] = answered /\ \A s \in Readings : s # r => reading'[s] = reading[s]
  BY <1>3 DEF WalletParts, WalletTyped
<1>5. ~NothingRead' /\ NewsOfChain' = NewsOfChain
  BY <1>1, <1>2, <1>4, WalletAssumption DEF NothingRead, NewsOfChain
<1>6. Told'
  BY <1>1, ToldBeside DEF GrantsAreKept
<1>7. Fresh'
  BY <1>1, <1>2, <1>4, <1>5 DEF Fresh
<1> QED BY <1>6, <1>7

(* A reading ends, and was the only one.                                   *)
LEMMA EndShows ==
  ASSUME WalletParts, Told, Fresh, NEW r \in Readings, reading[r] # Null,
         reading' = [reading EXCEPT ![r] = Null], wallet' = wallet,
         click' = IF reading[r].for = Null THEN click
                  ELSE [click EXCEPT ![reading[r].for] = Resting],
         panel'.account = panel.account, panel'.unheard = panel.unheard,
         panel.blurred => panel'.blurred,
         \/ panel'.blurred
         \/ /\ panel'.balance \in {reading[r].account, Null}
            /\ ~reading[r].chained => reading[r].seen # Null /\ panel'.chain = reading[r].seen
            /\ reading[r].chained => panel'.chain = panel.chain
  PROVE  Told' /\ Fresh'
<1>1. /\ \A s \in Readings : reading'[s] # Null => s # r /\ reading'[s] = reading[s]
      /\ reading[r] \in Reading
  BY DEF WalletParts, WalletTyped
<1>2. \A k \in Clicks : click'[k].at = "again" => click'[k] = click[k]
  BY <1>1 DEF WalletParts, WalletTyped, Resting, Reading
<1>3. NewsOfChain' = NewsOfChain
  BY DEF NewsOfChain
<1>6. GrantsAreKept
  BY <1>1 DEF WalletParts, WalletTyped, Resting, Reading, GrantsAreKept
<1>4. Told'
  BY <1>6, ToldBeside
<1>5. ASSUME panel'.account # Null, ~panel'.blurred, ~panel'.unheard
      PROVE  /\ \A s \in Readings : reading'[s] = Null
             /\ panel'.balance \in {panel'.account, Null}
             /\ ~NewsOfChain =>
                  /\ panel'.chain = wallet.chain
                  /\ \A k \in Clicks : click'[k].at = "again" =>
                       click'[k].seen \in {Null, wallet.chain}
  <2>1. panel.account # Null /\ ~panel.blurred /\ ~panel.unheard
    BY <1>5
  <2>2. \A s \in Readings : reading'[s] = Null
    BY <1>1, <2>1 DEF Fresh
  <2>3. reading[r].account = panel.account
    BY <2>1 DEF Fresh
  <2>4. ~NewsOfChain => /\ reading[r].seen \in {Null, wallet.chain}
                        /\ reading[r].chained => panel.chain = wallet.chain
                        /\ \A k \in Clicks : click[k].at = "again" =>
                             click[k].seen \in {Null, wallet.chain}
    BY <2>1 DEF Fresh
  <2>5. reading[r].chained \in BOOLEAN
    BY <1>1 DEF Reading
  <2> QED BY <1>2, <1>5, <2>2, <2>3, <2>4, <2>5
<1> QED BY <1>3, <1>4, <1>5 DEF Fresh

LEMMA ReadShows ==
  ASSUME WalletParts, Told, Fresh, NEW r \in Readings,
         \/ ChainRead(r) \/ BalanceRead(r) \/ RefreshFails(r)
  PROVE  Told' /\ Fresh'
<1> DEFINE for == reading[r].for
<1>1. panel \in Panel /\ reading[r] \in Reading /\ reading[r] # Null
  BY DEF WalletParts, WalletTyped, ChainRead, BalanceRead, RefreshFails
<1>2. CASE ChainRead(r) /\ reading[r].seen = "required"
  <2> DEFINE answered == [reading[r] EXCEPT !.chained = TRUE]
  <2>1. /\ answered \in Reading /\ answered.account = reading[r].account
        /\ answered.seen = reading[r].seen
    BY <1>1 DEF Reading
  <2>2. reading' = [reading EXCEPT ![r] = answered] /\ UNCHANGED <<wallet, click>>
    BY <1>2 DEF ChainRead
  <2> HIDE DEF answered
  <2>3. reading'[r] = answered /\ \A s \in Readings : s # r => reading'[s] = reading[s]
    BY <2>2 DEF WalletParts, WalletTyped
  <2>4. panel' = [panel EXCEPT !.chain = reading[r].seen, !.balance = panel.balance,
                               !.stage = panel.stage]
    BY <1>2 DEF ChainRead
  <2>5. /\ panel'.account = panel.account /\ panel'.chain = reading[r].seen
        /\ panel'.balance = panel.balance /\ panel'.blurred = panel.blurred
        /\ panel'.unheard = panel.unheard
    BY <1>1, <2>4 DEF Panel
  <2>6. ~NothingRead' /\ NewsOfChain' = NewsOfChain
    BY <2>1, <2>2, <2>3, WalletAssumption DEF NothingRead, NewsOfChain
  <2>7. Told'
    BY <2>2, <2>5, ToldBeside DEF GrantsAreKept
  <2>8. panel.account # Null /\ ~panel.blurred /\ ~panel.unheard /\ ~NewsOfChain
          => reading[r].seen = wallet.chain
    BY <1>1, <1>2, WalletAssumption DEF Fresh, Chains
  <2>9. Fresh'
    BY <1>1, <2>1, <2>2, <2>3, <2>5, <2>6, <2>8 DEF Fresh
  <2> QED BY <2>7, <2>9
<1>3. CASE ChainRead(r) /\ reading[r].seen # "required"
  <2> DEFINE stage == IF for = Null THEN panel.stage ELSE "ready"
  <2>1. panel' = [panel EXCEPT !.chain = reading[r].seen, !.balance = Null, !.stage = stage]
    BY <1>3 DEF ChainRead
  <2> HIDE DEF stage
  <2>2. /\ panel'.account = panel.account /\ panel'.chain = reading[r].seen
        /\ panel'.balance = Null /\ panel'.blurred = panel.blurred
        /\ panel'.unheard = panel.unheard
    BY <1>1, <2>1 DEF Panel
  <2> QED BY <1>1, <1>3, <2>2, EndShows DEF ChainRead
<1>4. CASE BalanceRead(r)
  <2> DEFINE stage == IF for = Null THEN panel.stage ELSE "ready"
  <2>1. PICK balance \in {reading[r].account, Null} :
          panel' = [panel EXCEPT !.balance = balance, !.stage = stage]
    BY <1>4 DEF BalanceRead
  <2> HIDE DEF stage
  <2>2. /\ panel'.account = panel.account /\ panel'.chain = panel.chain
        /\ panel'.balance = balance /\ panel'.blurred = panel.blurred
        /\ panel'.unheard = panel.unheard
    BY <1>1, <2>1 DEF Panel
  <2>3. reading[r].chained
    BY <1>4 DEF BalanceRead
  <2> QED BY <1>1, <1>4, <2>2, <2>3, EndShows DEF BalanceRead
<1>5. CASE RefreshFails(r)
  <2> DEFINE stage == IF for = Null THEN panel.stage
                      ELSE IF click[for].op = "connect" THEN "idle" ELSE "ready"
  <2>1. panel' = [panel EXCEPT !.blurred = TRUE, !.stage = stage]
    BY <1>5 DEF RefreshFails
  <2> HIDE DEF stage
  <2>2. panel'.account = panel.account /\ panel'.blurred /\ panel'.unheard = panel.unheard
    BY <1>1, <2>1 DEF Panel
  <2> QED BY <1>1, <1>5, <2>2, EndShows DEF RefreshFails
<1> QED BY <1>2, <1>3, <1>4, <1>5

LEMMA WalletShows ==
  ASSUME WalletParts, Told, Fresh, WalletNext
  PROVE  Told' /\ Fresh'
BY ClicksShow, PaysShow, PayChainAnsweredShows, CheckChainShows, ShowChainShows,
   ClickVerifyShows, VerdictArrivesShows, ConnectedShows, SwitchedShows, HearingShows,
   MovingShows, GrantShows, AttachShows, ChainAnsweredShows, ReadShows
   DEF WalletNext

LEMMA ShownBegins == Init => ShownInv
<1> SUFFICES ASSUME Init, WalletInit, part = "wallet"
             PROVE  WalletParts /\ Told /\ Fresh
  BY DEF Init, ShownInv
<1>1. WalletParts
  BY WalletBegins DEF WalletInv
<1>2. wallet.news = <<>> /\ panel.account = Null
  BY DEF WalletInit
<1>3. \A k \in Clicks : click[k].at # "granted"
  BY DEF WalletInit, Resting
<1> QED BY <1>1, <1>2, <1>3 DEF Told, Fresh

(* A payer who switches account or network in the wallet is not shown      *)
(* stale details: once every announcement was heard and every reading has  *)
(* ended, the panel shows the wallet as it is, unless an announcement came *)
(* before the listeners of a new connection were attached (wallet-pay.tsx, *)
(* refresh and its listeners).                                             *)
THEOREM DetailsAreCurrent == Spec => []ShownDetailsAreCurrent
<1>1. ShownInv /\ [Next]_vars => ShownInv'
  <2> SUFFICES ASSUME ShownInv, [Next]_vars, part = "wallet"
               PROVE  ShownInv'
    BY DEF ShownInv, Next, vars
  <2>1. part' = part /\ (WalletNext \/ UNCHANGED walletVars)
    BY DEF Next, vars
  <2>2. CASE UNCHANGED walletVars
    <3>1. WalletParts'
      BY <2>1, <2>2 DEF walletVars, ShownInv, WalletParts, WalletTyped, Asked, ReadersWait,
                        JudgesWait, Locked, Paying
    <3>2. Told' /\ Fresh'
      BY <2>1, <2>2 DEF walletVars, ShownInv, Told, OnlyNewsOfChain, Fresh,
                           NewsOfChain, NothingRead
    <3> QED BY <3>1, <3>2 DEF ShownInv
  <2> QED BY <2>1, <2>2, WalletStep, WalletShows DEF ShownInv
<1>2. ShownInv => ShownDetailsAreCurrent
  <2> SUFFICES ASSUME Told, Fresh, panel.account # Null, wallet.news = <<>>,
                      \A r \in Readings : reading[r] = Null, ~panel.blurred,
                      ~panel.unheard
               PROVE  /\ panel.account = wallet.account /\ panel.chain = wallet.chain
                      /\ panel.balance \in {panel.account, Null}
    BY DEF ShownInv, ShownDetailsAreCurrent
  <2>1. \A i \in DOMAIN wallet.news : FALSE
    OBVIOUS
  <2> QED BY <2>1 DEF Told, OnlyNewsOfChain, Fresh, NewsOfChain, NothingRead
<1> QED BY <1>1, <1>2, ShownBegins, PTL DEF Spec

-----------------------------------------------------------------------------
(* The support pages.                                                      *)

Kind == {"none", "open", "create", "reply", "status", "patch", "queue", "elsewhere"}
Stage == {"idle", "count", "create", "find", "append", "mark", "update", "read",
          "answer", "failed", "listing"}

(* The records of Desk and DeskPages, with answers of any length.          *)
Request == [kind : Kind, at : Stage, ticket : Tickets \union {Null},
            typed : Tickets \union {Null}, status : Statuses \union {Null},
            together : BOOLEAN, views : Seq(View)]
Board == [list : Seq(View), filter : Statuses \union {Null},
          picked : Tickets \union {Null}, reply : Tickets \union {Null},
          busy : BOOLEAN, loading : BOOLEAN, strayed : BOOLEAN]

DeskTyped ==
  /\ tickets \in [Tickets -> Ticket \union {Null}]
  /\ recent \in Seq(Tickets) /\ Range(recent) = Filed
  /\ errand \in [Errands -> Request]
  /\ centre \in Centre
  /\ queue \in Board

(* What a request has found out by the stage it has reached, F the rows:   *)
(* its ticket exists, and its answer is about its ticket.                  *)
Known(e, F) ==
  /\ e.at \in {"find", "append", "mark", "update"} => e.ticket \in F
  /\ e.at = "read" /\ e.kind # "queue" => e.ticket \in F
  /\ e.at = "update" => e.status # Null
  /\ e.at \in {"count", "create"} => e.kind \in {"create", "elsewhere"}
  /\ e.at = "answer" /\ e.kind \in OwnKinds =>
       1 \in DOMAIN e.views /\ e.views[1].ticket = e.ticket
  /\ e.at = "answer" /\ e.kind = "patch" =>
       \E i \in DOMAIN e.views : e.views[i].ticket = e.ticket
  /\ \A i \in DOMAIN e.views : e.views[i].ticket \in F

RequestsKnow == \A n \in Errands : Known(errand[n], Filed)

(* A create that counted alone keeps its place until it is done.           *)
Unexcused == {t \in OpenTickets : ~tickets[t].excused}
Lone == {n \in Errands : errand[n].at = "create" /\ ~errand[n].together}
PlaceIsKept ==
  /\ Cardinality(Unexcused) <= MaxOpen
  /\ Lone # {} => Cardinality(Unexcused) < MaxOpen
  /\ \A n, m \in Lone : n = m

SpokenLast(row) ==
  ~row.moved => <<row.status, row.last>> \notin {<<"pending", "user">>, <<"open", "admin">>}
AllSpokenLast == \A t \in Filed : SpokenLast(tickets[t])

PagesKnow ==
  /\ centre.listed \subseteq Filed
  /\ centre.thread # Null => centre.thread.ticket \in Filed
  /\ \A i \in DOMAIN queue.list : queue.list[i].ticket \in Filed

(* While a draft is neither crossed nor strayed, every answer its page     *)
(* still waits for leaves the page on the draft's ticket r.                *)
Due(e) == e.at \notin {"idle", "listing"}
KeepsThread(e, r) ==
  Due(e) /\ e.kind \in OwnKinds =>
    e.kind = "create" \/ (e.kind \in {"reply", "status"} /\ e.ticket = r)
KeepsRow(e, r) ==
  Due(e) /\ e.kind \in {"patch", "queue"} => e.kind = "patch" /\ e.ticket = r

CentreDraft ==
  centre.reply # Null /\ ~centre.crossed =>
    /\ centre.thread # Null /\ centre.thread.ticket = centre.reply
    /\ \A n \in Errands : KeepsThread(errand[n], centre.reply)
QueueDraft ==
  queue.reply # Null /\ ~queue.strayed =>
    /\ queue.filter = Null /\ Selected # Null /\ Selected.ticket = queue.reply
    /\ \A n \in Errands : KeepsRow(errand[n], queue.reply)

DeskParts ==
  /\ DeskTyped /\ RequestsKnow
  /\ PlaceIsKept /\ AllSpokenLast
  /\ PagesKnow /\ CentreDraft /\ QueueDraft

DeskInv == part = "desk" => DeskParts

-----------------------------------------------------------------------------
(* A set of natural numbers that is not empty has a least element.         *)
LEMMA LeastNumber ==
  ASSUME NEW S \in SUBSET Nat, S # {}
  PROVE  \E n \in S : \A m \in S : n <= m
<1> DEFINE R == OpToRel(<, Nat)
<1>1. \E n \in S : \A m \in S : <<m, n>> \notin R
  <2>1. IsWellFoundedOn(R, Nat)
    BY NatLessThanWellFounded
  <2> HIDE DEF R
  <2> QED BY <2>1, WFMin
<1>2. \A n, m \in Nat : m < n => <<m, n>> \in R
  BY DEF OpToRel
<1> HIDE DEF R
<1>3. PICK n \in S : \A m \in S : <<m, n>> \notin R
  BY <1>1
<1>4. ASSUME NEW m \in S PROVE n <= m
  <2>1. n \in Nat /\ m \in Nat
    OBVIOUS
  <2>2. ~(m < n)
    BY <1>2, <1>3, <2>1
  <2> QED BY <2>1, <2>2
<1> QED BY <1>4

(* A selection can be written down, member by member.                      *)
LEMMA SelectionExists ==
  ASSUME NEW V, NEW s \in Seq(V), NEW S
  PROVE  \E f : f = [i \in 0..Len(s) |->
           IF i = 0 THEN <<>> ELSE IF s[i] \in S THEN Append(f[i - 1], s[i]) ELSE f[i - 1]]
<1> DEFINE Upto(f, n) ==
      f = [i \in 0..n |->
            IF i = 0 THEN <<>> ELSE IF s[i] \in S THEN Append(f[i - 1], s[i]) ELSE f[i - 1]]
    Written(n) == \E f : Upto(f, n)
    Missing == {n \in Nat : n <= Len(s) /\ ~Written(n)}
<1>1. Len(s) \in Nat
  OBVIOUS
<1>2. SUFFICES ASSUME Missing # {}
               PROVE  FALSE
  <2>1. SUFFICES Written(Len(s))
    OBVIOUS
  <2> HIDE DEF Written
  <2> QED BY <1>1
<1>3. PICK n \in Missing : \A m \in Missing : n <= m
  BY <1>2, LeastNumber
<1>4. n # 0
  <2> DEFINE g == [i \in 0..0 |-> <<>>]
  <2>1. Upto(g, 0)
    OBVIOUS
  <2> QED BY <2>1
<1>5. n - 1 \in Nat /\ n - 1 <= Len(s) /\ ~(n <= n - 1)
  BY <1>1, <1>4
<1>6. PICK f : Upto(f, n - 1)
  BY <1>3, <1>5
<1> DEFINE last == IF s[n] \in S THEN Append(f[n - 1], s[n]) ELSE f[n - 1]
           g == [i \in 0..n |-> IF i = n THEN last ELSE f[i]]
<1>7. \A i \in 0..n - 1 : f[i] = IF i = 0 THEN <<>>
                                 ELSE IF s[i] \in S THEN Append(f[i - 1], s[i]) ELSE f[i - 1]
  BY <1>6
<1>8. \A i \in 0..n : g[i] = IF i = 0 THEN <<>>
                             ELSE IF s[i] \in S THEN Append(g[i - 1], s[i]) ELSE g[i - 1]
  <2> SUFFICES ASSUME NEW i \in 0..n
               PROVE  g[i] = IF i = 0 THEN <<>>
                             ELSE IF s[i] \in S THEN Append(g[i - 1], s[i]) ELSE g[i - 1]
    OBVIOUS
  <2>1. i # 0 => g[i - 1] = f[i - 1]
    BY <1>5
  <2>2. CASE i = n
    BY <1>4, <2>1, <2>2
  <2>3. CASE i # n
    <3>1. i \in 0..n - 1 /\ g[i] = f[i]
      BY <2>3
    <3> QED BY <1>7, <2>1, <3>1
  <2> QED BY <2>2, <2>3
<1>9. Upto(g, n)
  <2>1. g = [i \in 0..n |-> g[i]]
    OBVIOUS
  <2> HIDE DEF g
  <2> QED BY <1>8, <2>1
<1> QED BY <1>3, <1>9

(* What a selection holds: the members of s that are in S.                 *)
LEMMA AmongMembers ==
  ASSUME NEW V, NEW s \in Seq(V), NEW S
  PROVE  Among(s, S) \in Seq(V) /\ Range(Among(s, S)) = Range(s) \intersect S
<1> DEFINE step(f) == [i \in 0..Len(s) |->
             IF i = 0 THEN <<>> ELSE IF s[i] \in S THEN Append(f[i - 1], s[i]) ELSE f[i - 1]]
           upTo == CHOOSE f : f = step(f)
           Right(i) == /\ upTo[i] \in Seq(V)
                       /\ \A v : (\E k \in DOMAIN upTo[i] : upTo[i][k] = v) <=>
                                 v \in S /\ \E j \in 1..i : s[j] = v
           Wrong == {i \in Nat : i <= Len(s) /\ ~Right(i)}
<1>1. Among(s, S) = upTo[Len(s)] /\ Len(s) \in Nat
  BY DEF Among
<1>2. upTo = step(upTo)
  <2>1. \E f : f = step(f)
    BY ZenonT(40), SelectionExists
  <2> QED BY <2>1
<1>3. \A i \in 0..Len(s) : upTo[i] = IF i = 0 THEN <<>>
          ELSE IF s[i] \in S THEN Append(upTo[i - 1], s[i]) ELSE upTo[i - 1]
  <2> HIDE DEF upTo
  <2> QED BY <1>2
<1> HIDE DEF upTo
<1>4. Wrong = {}
  <2> SUFFICES ASSUME Wrong # {}
               PROVE  FALSE
    OBVIOUS
  <2>1. PICK i \in Wrong : \A m \in Wrong : i <= m
    BY LeastNumber
  <2>2. i \in 0..Len(s)
    BY <1>1
  <2>3. i # 0
    <3>1. upTo[0] = <<>>
      BY <1>1, <1>3
    <3>2. Right(0)
      BY <3>1
    <3> QED BY <2>1, <3>2
  <2>4. i - 1 \in Nat /\ i - 1 <= Len(s) /\ ~(i <= i - 1) /\ i \in 1..Len(s)
    BY <1>1, <2>2, <2>3
  <2>5. Right(i - 1)
    BY <2>1, <2>4
  <2>6. \A j : j \in 1..i <=> j \in 1..(i - 1) \/ j = i
    BY <2>4
  <2>7. CASE s[i] \in S
    <3>0. upTo[i] = Append(upTo[i - 1], s[i])
      BY <1>3, <2>2, <2>3, <2>7, Zenon
    <3>1. upTo[i] = Append(upTo[i - 1], s[i]) /\ s[i] \in V
      BY <2>4, <3>0
    <3>2. upTo[i] \in Seq(V)
      <4> DEFINE q == upTo[i - 1]
      <4>1. q \in Seq(V) /\ upTo[i] = Append(q, s[i]) /\ s[i] \in V
        BY <2>5, <3>1
      <4> HIDE DEF q
      <4> QED BY <4>1
    <3>3. \A v : (\E k \in DOMAIN upTo[i] : upTo[i][k] = v) <=>
                 v = s[i] \/ \E k \in DOMAIN upTo[i - 1] : upTo[i - 1][k] = v
      <4> DEFINE q == upTo[i - 1]
      <4>1. q \in Seq(V) /\ upTo[i] = Append(q, s[i]) /\ s[i] \in V
        BY <2>5, <3>1
      <4> HIDE DEF q
      <4>2. /\ DOMAIN upTo[i] = 1..(Len(q) + 1) /\ DOMAIN q = 1..Len(q) /\ Len(q) \in Nat
            /\ upTo[i][Len(q) + 1] = s[i] /\ \A k \in 1..Len(q) : upTo[i][k] = q[k]
        BY <4>1
      <4>3. \A k : k \in 1..(Len(q) + 1) <=> k \in 1..Len(q) \/ k = Len(q) + 1
        BY <4>2
      <4> QED BY <4>2, <4>3 DEF q
    <3>4. Right(i)
      BY <2>5, <2>6, <2>7, <3>2, <3>3
    <3> QED BY <2>1, <3>4
  <2>8. CASE s[i] \notin S
    <3>1. upTo[i] = upTo[i - 1]
      BY <1>3, <2>2, <2>3, <2>8
    <3>2. Right(i)
      BY <2>5, <2>6, <2>8, <3>1
    <3> QED BY <2>1, <3>2
  <2> QED BY <2>7, <2>8
<1>5. Right(Len(s))
  <2> HIDE DEF Right
  <2> QED BY <1>1, <1>4
<1>6. \A v : v \in Range(s) <=> \E j \in 1..Len(s) : s[j] = v
  BY DEF Range
<1>7. \A v : v \in Range(Among(s, S)) <=> v \in S /\ v \in Range(s)
  BY <1>1, <1>5, <1>6 DEF Range
<1> QED BY <1>1, <1>5, <1>7

-----------------------------------------------------------------------------
(* Moving a ticket to the front keeps the others.                          *)
LEMMA FrontInOrder ==
  ASSUME DeskTyped, NEW t \in Tickets
  PROVE  ToFront(t) \in Seq(Tickets) /\ Range(ToFront(t)) = Filed \union {t}
<1> DEFINE a == Among(recent, Tickets \ {t})
<1>1. a \in Seq(Tickets) /\ Range(a) = Filed \intersect (Tickets \ {t})
  BY AmongMembers DEF DeskTyped
<1>2. Filed \subseteq Tickets
  BY DEF Filed
<1>3. ToFront(t) = <<t>> \o a
  BY DEF ToFront
<1> HIDE DEF a
<1> DEFINE f == <<t>> \o a
<1>4. /\ f \in Seq(Tickets) /\ DOMAIN f = 1..Len(a) + 1 /\ Len(a) \in Nat /\ f[1] = t
      /\ \A k \in 1..Len(a) : f[k + 1] = a[k]
      /\ DOMAIN a = 1..Len(a)
  BY <1>1
<1> HIDE DEF f
<1>5. \A v : (\E k \in DOMAIN f : f[k] = v) <=> v = t \/ \E k \in DOMAIN a : a[k] = v
  <2>1. \A k \in 2..Len(a) + 1 : k - 1 \in 1..Len(a) /\ (k - 1) + 1 = k
    BY <1>4
  <2>2. \A k \in 1..Len(a) : k + 1 \in 1..Len(a) + 1
    BY <1>4
  <2>3. \A k \in 1..Len(a) + 1 : k = 1 \/ k \in 2..Len(a) + 1
    BY <1>4
  <2>4. 1 \in 1..Len(a) + 1
    BY <1>4
  <2>5. ASSUME NEW k \in DOMAIN f PROVE f[k] = t \/ \E j \in DOMAIN a : a[j] = f[k]
    <3>1. CASE k = 1
      BY <1>4, <3>1
    <3>2. CASE k # 1
      <4>1. k - 1 \in 1..Len(a) /\ f[(k - 1) + 1] = a[k - 1] /\ (k - 1) + 1 = k
        BY <1>4, <2>1, <2>3, <3>2
      <4> QED BY <1>4, <4>1
    <3> QED BY <3>1, <3>2
  <2>6. ASSUME NEW j \in DOMAIN a PROVE \E k \in DOMAIN f : f[k] = a[j]
    BY <1>4, <2>2
  <2> QED BY <1>4, <2>4, <2>5, <2>6
<1>6. Range(f) = Range(a) \union {t}
  <2>1. \A v : v \in Range(f) <=> \E k \in DOMAIN f : f[k] = v
    BY DEF Range
  <2>2. \A v : v \in Range(a) <=> \E k \in DOMAIN a : a[k] = v
    BY DEF Range
  <2> QED BY <1>5, <2>1, <2>2
<1> QED BY <1>1, <1>2, <1>3, <1>4, <1>6 DEF f

(* The request that is vacant, and what an operation puts in its place.    *)
LEMMA Dispatched ==
  ASSUME DeskTyped, NEW what \in Kind, NEW where \in Stage, NEW locals \in Request,
         Dispatch(what, where, locals)
  PROVE  \E n \in Errands, r \in Request :
           /\ errand[n].at = "idle"
           /\ errand' = [errand EXCEPT ![n] = r]
           /\ r.kind = what /\ r.at = where
           /\ r.ticket = locals.ticket /\ r.status = locals.status /\ r.views = locals.views
<1> DEFINE r == [locals EXCEPT !.kind = what, !.at = where]
<1>1. /\ r \in Request /\ r.kind = what /\ r.at = where
      /\ r.ticket = locals.ticket /\ r.status = locals.status /\ r.views = locals.views
  BY DEF Request
<1>2. errand' = [errand EXCEPT ![VacantErrand] = r]
  BY DEF Dispatch
<1> HIDE DEF r
<1>3. VacantErrand \in Errands \ Out
  <2>1. \E n : n \in Errands \ Out
    BY DEF Dispatch, Out
  <2> QED BY <2>1 DEF VacantErrand
<1>4. errand[VacantErrand].at = "idle"
  BY <1>3 DEF Out
<1> QED BY <1>1, <1>2, <1>3, <1>4

(* Vacant is a request.                                                    *)
LEMMA VacantTyped ==
  /\ Vacant \in Request /\ Vacant.at = "idle" /\ Vacant.kind = "none" /\ Vacant.views = <<>>
  /\ Vacant.ticket = Null /\ Vacant.status = Null
  BY DEF Vacant, Request, Kind, Stage

(* A request goes on to another stage.                                     *)
LEMMA WentOn ==
  ASSUME DeskTyped, NEW n \in Errands, NEW where \in Stage, Onward(n, where)
  PROVE  \E r \in Request :
           /\ errand' = [errand EXCEPT ![n] = r]
           /\ r.at = where /\ r.kind = errand[n].kind /\ r.ticket = errand[n].ticket
           /\ r.status = errand[n].status /\ r.views = errand[n].views
<1> DEFINE e == errand[n]
           r == [e EXCEPT !.at = where]
<1>1. e \in Request
  BY DEF DeskTyped
<1>2. errand' = [errand EXCEPT ![n] = r]
  BY DEF Onward
<1> HIDE DEF e
<1>3. /\ r \in Request /\ r.at = where /\ r.kind = e.kind /\ r.ticket = e.ticket
      /\ r.status = e.status /\ r.views = e.views
  BY <1>1 DEF Request
<1> HIDE DEF r
<1> QED BY <1>2, <1>3 DEF e

(* The limit holds on while no ticket comes to count and no request comes  *)
(* to hold a place.                                                        *)
LEMMA UnexcusedIsFinite ==
  IsFiniteSet(Unexcused) /\ IsFiniteSet(OpenTickets) /\ Cardinality(Unexcused) \in Nat
  /\ Cardinality(OpenTickets) \in Nat /\ Cardinality(Unexcused) <= Cardinality(OpenTickets)
<1>1. Unexcused \subseteq OpenTickets /\ OpenTickets \subseteq Tickets
  BY DEF Unexcused, OpenTickets, Filed
<1>2. IsFiniteSet(OpenTickets)
  BY <1>1, FS_Subset, DeskAssumption
<1> QED BY <1>1, <1>2, FS_Subset, FS_CardinalityType

LEMMA PlaceStays ==
  ASSUME PlaceIsKept, Unexcused' \subseteq Unexcused, Lone' \subseteq Lone
  PROVE  PlaceIsKept'
<1>1. /\ IsFiniteSet(Unexcused') /\ Cardinality(Unexcused') <= Cardinality(Unexcused)
      /\ Cardinality(Unexcused') \in Nat /\ Cardinality(Unexcused) \in Nat
  BY UnexcusedIsFinite, FS_Subset, FS_CardinalityType
<1>2. Cardinality(Unexcused') <= MaxOpen
  BY <1>1, DeskAssumption DEF PlaceIsKept
<1>3. Lone' # {} => Cardinality(Unexcused') < MaxOpen
  BY <1>1, DeskAssumption DEF PlaceIsKept
<1> HIDE DEF Lone
<1>4. \A n, m \in Lone' : n = m
  BY DEF PlaceIsKept
<1> QED BY <1>2, <1>3, <1>4 DEF PlaceIsKept

(* A ticket is written over: what has to be true of its new row.           *)
LEMMA TicketWritten ==
  ASSUME DeskTyped, AllSpokenLast, NEW t \in Filed, NEW row \in Ticket,
         tickets' = [tickets EXCEPT ![t] = row],
         ~row.excused /\ row.status \notin CLOSED =>
           ~tickets[t].excused /\ tickets[t].status \notin CLOSED,
         SpokenLast(row)
  PROVE  /\ tickets' \in [Tickets -> Ticket \union {Null}]
         /\ Filed' = Filed /\ Unexcused' \subseteq Unexcused /\ AllSpokenLast'
<1>1. t \in Tickets /\ row # Null /\ tickets[t] # Null
  BY DeskAssumption DEF Filed
<1>2. tickets' \in [Tickets -> Ticket \union {Null}] /\ tickets'[t] = row
      /\ \A u \in Tickets : u # t => tickets'[u] = tickets[u]
  BY <1>1 DEF DeskTyped
<1>3. Filed' = Filed
  BY <1>1, <1>2 DEF Filed
<1>4. Unexcused' \subseteq Unexcused
  <2> SUFFICES ASSUME NEW u \in Unexcused' PROVE u \in Unexcused
    OBVIOUS
  <2>1. u \in Filed /\ u \in Tickets /\ tickets'[u].status \notin CLOSED /\ ~tickets'[u].excused
    BY <1>3 DEF Unexcused, OpenTickets, Filed
  <2> QED BY <1>2, <2>1 DEF Unexcused, OpenTickets
<1>5. AllSpokenLast'
  <2> SUFFICES ASSUME NEW u \in Filed' PROVE SpokenLast(tickets'[u])
    BY DEF AllSpokenLast, SpokenLast
  <2>1. u \in Filed /\ u \in Tickets
    BY <1>3 DEF Filed
  <2> QED BY <1>2, <2>1 DEF AllSpokenLast
<1> QED BY <1>2, <1>3, <1>4, <1>5

(* What a request may become in a step of the service.                     *)
Follows(e, r) ==
  \/ r.at = "idle"
  \/ /\ e.at \notin {"idle", "listing"} /\ r.kind = e.kind
     /\ r.ticket = e.ticket \/ e.kind \in {"create", "elsewhere"}

(* A step of the service for one request, which knows as much as it must:  *)
(* the pages still wait for nothing that leads their drafts astray.        *)
LEMMA Served ==
  ASSUME DeskParts, NEW n \in Errands, NEW r \in Request,
         errand' = [errand EXCEPT ![n] = r], Filed \subseteq Filed',
         Known(r, Filed'), Follows(errand[n], r), UNCHANGED deskPageVars
  PROVE  /\ errand' \in [Errands -> Request] /\ RequestsKnow'
         /\ PagesKnow' /\ CentreDraft' /\ QueueDraft'
<1>1. errand \in [Errands -> Request]
  BY DEF DeskParts, DeskTyped
<1>2. errand' \in [Errands -> Request] /\ errand'[n] = r
      /\ \A m \in Errands : m # n => errand'[m] = errand[m]
  BY <1>1
<1>3. centre' = centre /\ queue' = queue
  BY DEF deskPageVars
<1>4. ASSUME NEW e, Known(e, Filed) PROVE Known(e, Filed')
  BY <1>4 DEF Known
<1>5. RequestsKnow'
  <2> SUFFICES ASSUME NEW m \in Errands PROVE Known(errand'[m], Filed')
    BY DEF RequestsKnow, Known
  <2>1. Known(errand[m], Filed)
    BY DEF DeskParts, RequestsKnow
  <2> QED BY <1>2, <1>4, <2>1
<1>6. PagesKnow'
  BY <1>3 DEF DeskParts, PagesKnow
<1>7. CentreDraft'
  <2>1. \A x : KeepsThread(errand[n], x) => KeepsThread(r, x)
    BY DEF Follows, KeepsThread, Due, OwnKinds
  <2>2. \A m \in Errands : \A x : KeepsThread(errand[m], x) => KeepsThread(errand'[m], x)
    BY <1>2, <2>1
  <2>3. CentreDraft
    BY DEF DeskParts
  <2> QED BY <1>3, <2>2, <2>3 DEF CentreDraft, KeepsThread, Due
<1>8. QueueDraft'
  <2>1. \A x : KeepsRow(errand[n], x) => KeepsRow(r, x)
    BY DEF Follows, KeepsRow, Due
  <2>2. \A m \in Errands : \A x : KeepsRow(errand[m], x) => KeepsRow(errand'[m], x)
    BY <1>2, <2>1
  <2>3. QueueDraft
    BY DEF DeskParts
  <2>4. Selected' = Selected
    BY <1>3 DEF Selected, Visible, Among
  <2> QED BY <1>3, <2>2, <2>3, <2>4 DEF QueueDraft, KeepsRow, Due
<1> QED BY <1>2, <1>5, <1>6, <1>7, <1>8

(* A request that does not come to create leaves the places as they are.   *)
LEMMA LoneStays ==
  ASSUME errand \in [Errands -> Request], NEW n \in Errands, NEW r,
         errand' = [errand EXCEPT ![n] = r], r.at # "create"
  PROVE  Lone' \subseteq Lone
  BY DEF Lone

-----------------------------------------------------------------------------
(* Steps of the service.  First those that write no ticket.                *)
LEMMA ServedQuietly ==
  ASSUME DeskParts, NEW n \in Errands, NEW r \in Request,
         errand' = [errand EXCEPT ![n] = r], UNCHANGED <<tickets, recent>>,
         Known(r, Filed), Follows(errand[n], r), r.at # "create", UNCHANGED deskPageVars
  PROVE  DeskParts'
<1>1. Filed' = Filed /\ OpenTickets' = OpenTickets
  BY DEF Filed, OpenTickets
<1>2. Unexcused' = Unexcused
  BY <1>1 DEF Unexcused
<1>3. DeskTyped /\ PlaceIsKept /\ AllSpokenLast
  BY DEF DeskParts
<1>4. /\ errand' \in [Errands -> Request] /\ RequestsKnow'
      /\ PagesKnow' /\ CentreDraft' /\ QueueDraft'
  BY <1>1, Served
<1>5. PlaceIsKept'
  BY <1>2, <1>3, LoneStays, PlaceStays DEF DeskTyped
<1>6. AllSpokenLast'
  BY <1>1, <1>3 DEF AllSpokenLast, SpokenLast
<1>7. DeskTyped'
  BY <1>1, <1>3, <1>4 DEF DeskTyped, deskPageVars
<1> QED BY <1>4, <1>5, <1>6, <1>7 DEF DeskParts

(* And those that write over one.                                          *)
LEMMA ServedWriting ==
  ASSUME DeskParts, NEW n \in Errands, NEW r \in Request, NEW t \in Filed, NEW row \in Ticket,
         errand' = [errand EXCEPT ![n] = r], tickets' = [tickets EXCEPT ![t] = row],
         recent' = recent \/ recent' = ToFront(t),
         ~row.excused /\ row.status \notin CLOSED =>
           ~tickets[t].excused /\ tickets[t].status \notin CLOSED,
         SpokenLast(row),
         Known(r, Filed), Follows(errand[n], r), r.at # "create", UNCHANGED deskPageVars
  PROVE  DeskParts'
<1>1. DeskTyped /\ PlaceIsKept /\ AllSpokenLast
  BY DEF DeskParts
<1>2. /\ tickets' \in [Tickets -> Ticket \union {Null}]
      /\ Filed' = Filed /\ Unexcused' \subseteq Unexcused /\ AllSpokenLast'
  BY <1>1, TicketWritten
<1>3. /\ errand' \in [Errands -> Request] /\ RequestsKnow'
      /\ PagesKnow' /\ CentreDraft' /\ QueueDraft'
  BY <1>2, Served
<1>4. PlaceIsKept'
  BY <1>1, <1>2, LoneStays, PlaceStays DEF DeskTyped
<1>5. recent' \in Seq(Tickets) /\ Range(recent') = Filed'
  <2>1. t \in Tickets /\ Filed \union {t} = Filed
    BY DEF Filed
  <2>2. ToFront(t) \in Seq(Tickets) /\ Range(ToFront(t)) = Filed
    BY <1>1, <2>1, FrontInOrder
  <2> QED BY <1>1, <1>2, <2>2 DEF DeskTyped
<1>6. DeskTyped'
  BY <1>1, <1>2, <1>3, <1>5 DEF DeskTyped, deskPageVars
<1> QED BY <1>2, <1>3, <1>4, <1>6 DEF DeskParts

LEMMA CountOpenKeeps ==
  ASSUME DeskParts, NEW n \in Errands, CountOpen(n), UNCHANGED deskPageVars
  PROVE  DeskParts'
<1>1. DeskTyped /\ PlaceIsKept /\ AllSpokenLast /\ Known(errand[n], Filed)
  BY DEF DeskParts, RequestsKnow
<1>2. errand[n] \in Request /\ errand[n].at = "count"
      /\ errand \in [Errands -> Request] /\ UNCHANGED <<tickets, recent>>
  BY <1>1 DEF CountOpen, DeskTyped
<1>3. CASE Cardinality(OpenTickets) >= MaxOpen
  <2>1. Onward(n, "failed") /\ "failed" \in Stage
    BY <1>3 DEF CountOpen, Stage
  <2>2. PICK r \in Request :
           /\ errand' = [errand EXCEPT ![n] = r]
           /\ r.at = "failed" /\ r.kind = errand[n].kind /\ r.ticket = errand[n].ticket
           /\ r.status = errand[n].status /\ r.views = errand[n].views
    BY <1>1, <2>1, WentOn
  <2>3. Known(r, Filed) /\ Follows(errand[n], r)
    BY <1>1, <1>2, <2>2 DEF Known, Follows
  <2> QED BY <1>2, <2>2, <2>3, ServedQuietly
<1>4. CASE ~(Cardinality(OpenTickets) >= MaxOpen)
  <2> DEFINE e == errand[n]
             beside == \E o \in Errands : errand[o].at = "create"
             r == [e EXCEPT !.at = "create", !.together = beside]
  <2>1. errand' = [errand EXCEPT ![n] = r]
    BY <1>4 DEF CountOpen
  <2>2. beside \in BOOLEAN
    OBVIOUS
  <2> HIDE DEF e, beside
  <2>3. e \in Request
    BY <1>2 DEF e
  <2>4. /\ r \in Request /\ r.at = "create" /\ r.together = beside
        /\ r.kind = e.kind /\ r.ticket = e.ticket /\ r.views = e.views
    BY <2>2, <2>3 DEF Request, Stage
  <2> HIDE DEF r
  <2>5. Known(r, Filed) /\ Follows(e, r)
    BY <1>1, <1>2, <2>4 DEF Known, Follows, e
  <2>6. Filed' = Filed /\ OpenTickets' = OpenTickets
    BY <1>2 DEF Filed, OpenTickets
  <2>7. Unexcused' = Unexcused
    BY <1>2, <2>6 DEF Unexcused
  <2>8. /\ errand' \in [Errands -> Request] /\ RequestsKnow'
        /\ PagesKnow' /\ CentreDraft' /\ QueueDraft'
    BY <2>1, <2>4, <2>5, <2>6, Served DEF e
  <2>9. PlaceIsKept'
    <3>1. Cardinality(Unexcused') < MaxOpen
      <4>1. Cardinality(Unexcused) <= Cardinality(OpenTickets)
            /\ Cardinality(Unexcused) \in Nat /\ Cardinality(OpenTickets) \in Nat
        BY UnexcusedIsFinite
      <4> QED BY <1>4, <2>7, <4>1, DeskAssumption
    <3>2. errand'[n] = r /\ \A m \in Errands : m # n => errand'[m] = errand[m]
      BY <1>2, <2>1
    <3>3. CASE beside
      <4>1. Lone' \subseteq Lone
        BY <2>4, <3>2, <3>3 DEF Lone
      <4> QED BY <1>1, <2>7, <4>1, PlaceStays
    <3>4. CASE ~beside
      <4>1. \A m \in Lone' : m = n
        BY <3>2, <3>4 DEF Lone, beside
      <4>2. Cardinality(Unexcused') <= MaxOpen
        BY <1>1, <2>7 DEF PlaceIsKept
      <4> HIDE DEF Lone
      <4> QED BY <3>1, <4>1, <4>2 DEF PlaceIsKept
    <3> QED BY <3>3, <3>4
  <2>10. AllSpokenLast'
    BY <1>1, <1>2, <2>6 DEF AllSpokenLast, SpokenLast
  <2>11. DeskTyped'
    BY <1>1, <1>2, <2>6, <2>8 DEF DeskTyped, deskPageVars
  <2> QED BY <2>8, <2>9, <2>10, <2>11 DEF DeskParts
<1> QED BY <1>3, <1>4

LEMMA CreateTicketKeeps ==
  ASSUME DeskParts, NEW n \in Errands, CreateTicket(n), UNCHANGED deskPageVars
  PROVE  DeskParts'
<1> DEFINE e == errand[n]
           t == CHOOSE u \in Tickets \ Filed : TRUE
           row == [status |-> "open", last |-> "user",
                   excused |-> errand[n].together, moved |-> FALSE]
           r == [e EXCEPT !.at = "read", !.ticket = t]
<1>1. DeskTyped /\ PlaceIsKept /\ AllSpokenLast /\ Known(errand[n], Filed)
  BY DEF DeskParts, RequestsKnow
<1>2. /\ errand[n] \in Request /\ errand[n].at = "create"
      /\ errand \in [Errands -> Request] /\ Filed # Tickets
  BY <1>1 DEF CreateTicket, DeskTyped
<1>3. /\ tickets' = [tickets EXCEPT ![t] = row] /\ recent' = ToFront(t)
      /\ errand' = [errand EXCEPT ![n] = r]
  BY DEF CreateTicket
<1>4. t \in Tickets \ Filed
  <2>1. \E u : u \in Tickets \ Filed
    BY <1>2 DEF Filed
  <2> QED BY <2>1
<1> HIDE DEF t
<1>5. row \in Ticket /\ row.excused = errand[n].together /\ ~row.moved
      /\ row.status = "open" /\ row.last = "user"
  BY <1>2 DEF Ticket, Statuses, Request
<1> HIDE DEF row
<1>6. row # Null /\ tickets[t] = Null
  BY <1>4, <1>5, DeskAssumption DEF Filed
<1>7. e \in Request
  BY <1>2
<1> HIDE DEF e
<1>8. /\ r \in Request /\ r.at = "read" /\ r.ticket = t
      /\ r.kind = e.kind /\ r.views = e.views
  BY <1>4, <1>7 DEF Request, Stage
<1> HIDE DEF r
<1>9. tickets' \in [Tickets -> Ticket \union {Null}] /\ tickets'[t] = row
      /\ \A u \in Tickets : u # t => tickets'[u] = tickets[u]
  BY <1>1, <1>3, <1>4, <1>5 DEF DeskTyped
<1>10. Filed' = Filed \union {t}
  BY <1>4, <1>6, <1>9 DEF Filed
<1>11. Known(r, Filed')
  BY <1>1, <1>8, <1>10 DEF Known, e
<1>12. Follows(e, r)
  BY <1>1, <1>2, <1>8 DEF Known, Follows, e
<1>13. /\ errand' \in [Errands -> Request] /\ RequestsKnow'
       /\ PagesKnow' /\ CentreDraft' /\ QueueDraft'
  BY <1>3, <1>8, <1>10, <1>11, <1>12, Served DEF e
<1>14. \A u \in Unexcused' : u \in Unexcused \/ (u = t /\ ~errand[n].together)
  <2> SUFFICES ASSUME NEW u \in Unexcused', u # t PROVE u \in Unexcused
    BY <1>5, <1>9 DEF Unexcused
  <2>1. u \in Tickets /\ u \in Filed /\ tickets'[u] = tickets[u]
    BY <1>9, <1>10 DEF Unexcused, OpenTickets, Filed
  <2> QED BY <2>1 DEF Unexcused, OpenTickets
<1>15. Lone' \subseteq Lone /\ n \notin Lone'
  BY <1>2, <1>3, <1>8 DEF Lone
<1>16. PlaceIsKept'
  <2>1. CASE errand[n].together
    <3>1. Unexcused' \subseteq Unexcused
      BY <1>14, <2>1
    <3> QED BY <1>1, <1>15, <3>1, PlaceStays
  <2>2. CASE ~errand[n].together
    <3>1. n \in Lone
      BY <1>2, <2>2 DEF Lone
    <3>2. Lone' = {} /\ Cardinality(Unexcused) < MaxOpen
      <4>1. Lone # {} /\ \A m \in Lone : m = n
        BY <1>1, <3>1 DEF PlaceIsKept
      <4>2. Cardinality(Unexcused) < MaxOpen
        BY <1>1, <4>1 DEF PlaceIsKept
      <4> HIDE DEF Lone
      <4> QED BY <1>15, <4>1, <4>2
    <3>3. Unexcused' \subseteq Unexcused \union {t}
      BY <1>14
    <3>4. /\ IsFiniteSet(Unexcused) /\ IsFiniteSet(Unexcused \union {t})
          /\ Cardinality(Unexcused \union {t}) <= Cardinality(Unexcused) + 1
          /\ Cardinality(Unexcused) \in Nat /\ Cardinality(Unexcused \union {t}) \in Nat
      <4>1. IsFiniteSet(Unexcused) /\ Cardinality(Unexcused) \in Nat
        BY UnexcusedIsFinite
      <4>2. /\ IsFiniteSet(Unexcused \union {t})
            /\ Cardinality(Unexcused \union {t}) =
                 IF t \in Unexcused THEN Cardinality(Unexcused) ELSE Cardinality(Unexcused) + 1
        BY <4>1, FS_AddElement
      <4> QED BY <4>1, <4>2
    <3>5. Cardinality(Unexcused') <= Cardinality(Unexcused \union {t})
          /\ Cardinality(Unexcused') \in Nat
      BY <3>3, <3>4, FS_Subset, FS_CardinalityType
    <3>6. Cardinality(Unexcused') <= MaxOpen
      BY <3>2, <3>4, <3>5, DeskAssumption
    <3> HIDE DEF Lone
    <3> QED BY <3>2, <3>6 DEF PlaceIsKept
  <2> QED BY <2>1, <2>2
<1>17. AllSpokenLast'
  <2> SUFFICES ASSUME NEW u \in Filed' PROVE SpokenLast(tickets'[u])
    BY DEF AllSpokenLast, SpokenLast
  <2>1. CASE u = t
    BY <1>5, <1>9, <2>1 DEF SpokenLast
  <2>2. CASE u # t
    <3>1. u \in Filed /\ u \in Tickets
      BY <1>10, <2>2 DEF Filed
    <3> QED BY <1>1, <1>9, <2>2, <3>1 DEF AllSpokenLast
  <2> QED BY <2>1, <2>2
<1>18. recent' \in Seq(Tickets) /\ Range(recent') = Filed'
  BY <1>1, <1>3, <1>4, <1>10, FrontInOrder
<1>19. DeskTyped'
  BY <1>1, <1>9, <1>13, <1>18 DEF DeskTyped, deskPageVars
<1> QED BY <1>13, <1>16, <1>17, <1>19 DEF DeskParts

LEMMA EndElsewhereKeeps ==
  ASSUME DeskParts, NEW n \in Errands, EndElsewhere(n), UNCHANGED deskPageVars
  PROVE  DeskParts'
<1>1. Known(Vacant, Filed) /\ Follows(errand[n], Vacant) /\ Vacant \in Request
  BY VacantTyped DEF Known, Follows
<1>2. errand' = [errand EXCEPT ![n] = Vacant] /\ UNCHANGED <<tickets, recent>>
  BY DEF EndElsewhere
<1> QED BY <1>1, <1>2, ServedQuietly, VacantTyped

(* FindTicket and Lose, which only go on.                                  *)
LEMMA GoingOnKeeps ==
  ASSUME DeskParts, NEW n \in Errands, NEW where \in {"append", "failed"}, Onward(n, where),
         errand[n].at \notin {"idle", "listing"}, where = "append" => errand[n].at = "find",
         UNCHANGED <<tickets, recent>>, UNCHANGED deskPageVars
  PROVE  DeskParts'
<1>1. DeskTyped /\ Known(errand[n], Filed) /\ where \in Stage
  BY DEF DeskParts, RequestsKnow, Stage
<1>2. PICK r \in Request :
         /\ errand' = [errand EXCEPT ![n] = r]
         /\ r.at = where /\ r.kind = errand[n].kind /\ r.ticket = errand[n].ticket
         /\ r.status = errand[n].status /\ r.views = errand[n].views
  BY <1>1, WentOn
<1>3. Known(r, Filed) /\ Follows(errand[n], r) /\ r.at # "create"
  BY <1>1, <1>2 DEF Known, Follows
<1> QED BY <1>2, <1>3, ServedQuietly

(* What a request that goes on to the reading knows.                       *)
LEMMA ReadNext ==
  ASSUME DeskParts, NEW n \in Errands, Onward(n, "read"),
         errand[n].at \in {"append", "mark", "update"}
  PROVE  \E r \in Request :
           /\ errand' = [errand EXCEPT ![n] = r]
           /\ Known(r, Filed) /\ Follows(errand[n], r) /\ r.at # "create"
<1>1. DeskTyped /\ Known(errand[n], Filed) /\ "read" \in Stage
  BY DEF DeskParts, RequestsKnow, Stage
<1>2. PICK r \in Request :
         /\ errand' = [errand EXCEPT ![n] = r]
         /\ r.at = "read" /\ r.kind = errand[n].kind /\ r.ticket = errand[n].ticket
         /\ r.status = errand[n].status /\ r.views = errand[n].views
  BY <1>1, WentOn
<1>3. Known(r, Filed) /\ Follows(errand[n], r) /\ r.at # "create"
  BY <1>1, <1>2 DEF Known, Follows
<1> QED BY <1>2, <1>3

LEMMA PostMessageKeeps ==
  ASSUME DeskParts, NEW n \in Errands, PostMessage(n), UNCHANGED deskPageVars
  PROVE  DeskParts'
<1> DEFINE t == errand[n].ticket
           row == [status |-> "open", last |-> "user",
                   excused |-> tickets[t].excused \/ Reopens(t, "open"), moved |-> HalfDone(t)]
<1>1. /\ errand[n].at = "append" /\ tickets' = [tickets EXCEPT ![t] = row]
      /\ recent' = ToFront(t) /\ Onward(n, "read")
  BY DEF PostMessage
<1>2. t \in Filed
  BY <1>1 DEF DeskParts, RequestsKnow, Known
<1> HIDE DEF t
<1>3. tickets[t] \in Ticket
  BY <1>2 DEF DeskParts, DeskTyped, Filed
<1>4. /\ row \in Ticket /\ row.status = "open" /\ row.last = "user"
      /\ row.excused = (tickets[t].excused \/ Reopens(t, "open"))
  BY <1>3 DEF Ticket, Statuses, Reopens, HalfDone
<1> HIDE DEF row
<1>5. PICK r \in Request :
         /\ errand' = [errand EXCEPT ![n] = r]
         /\ Known(r, Filed) /\ Follows(errand[n], r) /\ r.at # "create"
  BY <1>1, ReadNext
<1>6. SpokenLast(row)
  BY <1>4 DEF SpokenLast
<1>7. ~row.excused => ~tickets[t].excused /\ tickets[t].status \notin CLOSED
  BY <1>4 DEF Reopens, CLOSED
<1> QED BY <1>1, <1>2, <1>4, <1>5, <1>6, <1>7, ServedWriting

LEMMA UpdateStatusKeeps ==
  ASSUME DeskParts, NEW n \in Errands, UpdateStatus(n), UNCHANGED deskPageVars
  PROVE  DeskParts'
<1> DEFINE t == errand[n].ticket
           status == errand[n].status
           old == tickets[t]
           row == [old EXCEPT !.status = status, !.moved = TRUE,
                              !.excused = old.excused \/ Reopens(t, status)]
<1>1. /\ errand[n].at = "update" /\ tickets' = [tickets EXCEPT ![t] = row]
      /\ recent' = ToFront(t) /\ Onward(n, "read")
  BY DEF UpdateStatus
<1>2. t \in Filed /\ status \in Statuses
  BY <1>1 DEF DeskParts, RequestsKnow, Known, DeskTyped, Request
<1> HIDE DEF t, status
<1>3. old \in Ticket
  BY <1>2 DEF DeskParts, DeskTyped, Filed
<1>4. Reopens(t, status) = (old.status \in CLOSED /\ status \notin CLOSED)
  BY DEF Reopens
<1> HIDE DEF old
<1>5. /\ row \in Ticket /\ row.status = status /\ row.moved
      /\ row.excused = (old.excused \/ Reopens(t, status))
  BY <1>2, <1>3, <1>4 DEF Ticket
<1> HIDE DEF row
<1>6. PICK r \in Request :
         /\ errand' = [errand EXCEPT ![n] = r]
         /\ Known(r, Filed) /\ Follows(errand[n], r) /\ r.at # "create"
  BY <1>1, ReadNext
<1>7. SpokenLast(row)
  BY <1>5 DEF SpokenLast
<1>8. ~row.excused /\ row.status \notin CLOSED => ~old.excused /\ old.status \notin CLOSED
  BY <1>4, <1>5
<1> QED BY <1>1, <1>2, <1>5, <1>6, <1>7, <1>8, ServedWriting DEF old

LEMMA MarkTicketKeeps ==
  ASSUME DeskParts, NEW n \in Errands, MarkTicket(n), UNCHANGED deskPageVars
  PROVE  DeskParts'
<1> DEFINE t == errand[n].ticket
           given == errand[n].status
           status == IF given = Null THEN "pending" ELSE given
           old == tickets[t]
           row == [old EXCEPT !.status = status, !.moved = given # Null \/ old.last = "user",
                              !.excused = old.excused \/ Reopens(t, status)]
<1>1. /\ errand[n].at = "mark" /\ tickets' = [tickets EXCEPT ![t] = row]
      /\ recent' = ToFront(t) /\ Onward(n, "read")
  BY DEF MarkTicket
<1>2. t \in Filed /\ status \in Statuses /\ (given = Null => status = "pending")
  BY <1>1 DEF DeskParts, RequestsKnow, Known, DeskTyped, Request, Statuses
<1> HIDE DEF t, given, status
<1>3. old \in Ticket
  BY <1>2 DEF DeskParts, DeskTyped, Filed
<1>4. Reopens(t, status) = (old.status \in CLOSED /\ status \notin CLOSED)
  BY DEF Reopens
<1> HIDE DEF old
<1>5. /\ row \in Ticket /\ row.status = status /\ row.last = old.last
      /\ row.moved = (given # Null \/ old.last = "user")
      /\ row.excused = (old.excused \/ Reopens(t, status))
  BY <1>2, <1>3, <1>4 DEF Ticket
<1> HIDE DEF row
<1>6. PICK r \in Request :
         /\ errand' = [errand EXCEPT ![n] = r]
         /\ Known(r, Filed) /\ Follows(errand[n], r) /\ r.at # "create"
  BY <1>1, ReadNext
<1>7. SpokenLast(row)
  BY <1>2, <1>5 DEF SpokenLast
<1>8. ~row.excused /\ row.status \notin CLOSED => ~old.excused /\ old.status \notin CLOSED
  BY <1>4, <1>5
<1> QED BY <1>1, <1>2, <1>5, <1>6, <1>7, <1>8, ServedWriting DEF old

LEMMA PostStaffMessageKeeps ==
  ASSUME DeskParts, NEW n \in Errands, PostStaffMessage(n), UNCHANGED deskPageVars
  PROVE  DeskParts'
<1> DEFINE t == errand[n].ticket
           old == tickets[t]
           row == [old EXCEPT !.last = "admin", !.moved = TRUE]
<1>1. /\ errand[n].at = "find" /\ Onward(n, "mark") /\ recent' = recent
      /\ IF errand[n].typed = Null THEN UNCHANGED tickets
         ELSE tickets' = [tickets EXCEPT ![t] = row]
  BY DEF PostStaffMessage
<1>2. t \in Filed /\ DeskTyped /\ Known(errand[n], Filed)
  BY <1>1 DEF DeskParts, RequestsKnow, Known
<1>3. PICK r \in Request :
         /\ errand' = [errand EXCEPT ![n] = r]
         /\ r.at = "mark" /\ r.kind = errand[n].kind /\ r.ticket = errand[n].ticket
         /\ r.status = errand[n].status /\ r.views = errand[n].views
  BY <1>1, <1>2, WentOn DEF Stage
<1>4. Known(r, Filed) /\ Follows(errand[n], r) /\ r.at # "create"
  BY <1>1, <1>2, <1>3 DEF Known, Follows
<1>5. CASE errand[n].typed = Null
  BY <1>1, <1>3, <1>4, <1>5, ServedQuietly
<1>6. CASE errand[n].typed # Null
  <2> HIDE DEF t
  <2>1. old \in Ticket
    BY <1>2 DEF DeskTyped, Filed
  <2> HIDE DEF old
  <2>2. /\ row \in Ticket /\ row.status = old.status /\ row.moved
        /\ row.excused = old.excused
    BY <2>1 DEF Ticket
  <2> HIDE DEF row
  <2>3. SpokenLast(row)
    BY <2>2 DEF SpokenLast
  <2> QED BY <1>1, <1>2, <1>3, <1>4, <1>6, <2>2, <2>3, ServedWriting DEF old
<1> QED BY <1>5, <1>6

(* What an answer about a row that exists looks like.                      *)
LEMMA ViewTyped ==
  ASSUME DeskTyped, NEW t \in Filed
  PROVE  ViewOf(t) \in View /\ ViewOf(t).ticket = t
<1>1. tickets[t] \in Ticket /\ t \in Tickets
  BY DEF DeskTyped, Filed
<1> QED BY <1>1 DEF ViewOf, View, Ticket

LEMMA ReadThreadKeeps ==
  ASSUME DeskParts, NEW n \in Errands, ReadThread(n), UNCHANGED deskPageVars
  PROVE  DeskParts'
<1> DEFINE e == errand[n]
           v == ViewOf(errand[n].ticket)
           r == [e EXCEPT !.at = "answer", !.views = <<v>>]
<1>1. /\ e.at = "read" /\ e.kind \notin {"patch", "queue"} /\ UNCHANGED <<tickets, recent>>
      /\ errand' = [errand EXCEPT ![n] = r]
  BY DEF ReadThread
<1>2. e \in Request /\ Known(e, Filed) /\ DeskTyped
  BY DEF DeskParts, RequestsKnow, DeskTyped
<1>3. e.ticket \in Filed
  BY <1>1, <1>2 DEF Known
<1>4. v \in View /\ v.ticket = e.ticket
  BY <1>2, <1>3, ViewTyped
<1> HIDE DEF e, v
<1>5. <<v>> \in Seq(View) /\ DOMAIN <<v>> = {1} /\ <<v>>[1] = v
  BY <1>4
<1>6. /\ r \in Request /\ r.at = "answer" /\ r.kind = e.kind /\ r.ticket = e.ticket
      /\ r.views = <<v>>
  BY <1>2, <1>5 DEF Request, Stage
<1> HIDE DEF r
<1>7. Known(r, Filed)
  BY <1>1, <1>3, <1>4, <1>5, <1>6 DEF Known
<1>8. Follows(e, r)
  BY <1>1, <1>6 DEF Follows
<1> QED BY <1>1, <1>6, <1>7, <1>8, ServedQuietly DEF e

LEMMA ReadQueueKeeps ==
  ASSUME DeskParts, NEW n \in Errands, ReadQueue(n), UNCHANGED deskPageVars
  PROVE  DeskParts'
<1> DEFINE e == errand[n]
           asked == {t \in Filed : errand[n].kind = "queue" /\ errand[n].status # Null =>
                                      tickets[t].status = errand[n].status}
           rows == Among(recent, asked)
           views == [i \in DOMAIN rows |-> ViewOf(rows[i])]
           r == [e EXCEPT !.at = "answer", !.views = views]
<1>1. /\ e.at = "read" /\ e.kind \in {"patch", "queue"} /\ UNCHANGED <<tickets, recent>>
      /\ errand' = [errand EXCEPT ![n] = r]
  BY DEF ReadQueue
<1>2. e \in Request /\ Known(e, Filed) /\ DeskTyped
  BY DEF DeskParts, RequestsKnow, DeskTyped
<1>3. asked \subseteq Filed /\ (e.kind = "patch" => asked = Filed)
  OBVIOUS
<1> HIDE DEF asked
<1>4. rows \in Seq(Tickets) /\ Range(rows) = Filed \intersect asked
  BY <1>2, AmongMembers DEF DeskTyped
<1> HIDE DEF rows
<1>5. \A i \in DOMAIN rows : rows[i] \in Filed
  BY <1>4 DEF Range
<1>6. \A i \in DOMAIN rows : ViewOf(rows[i]) \in View /\ ViewOf(rows[i]).ticket = rows[i]
  BY <1>2, <1>5, ViewTyped
<1>7. /\ views \in Seq(View) /\ DOMAIN views = DOMAIN rows
      /\ \A i \in DOMAIN views : views[i].ticket = rows[i]
  <2>1. DOMAIN rows = 1..Len(rows) /\ Len(rows) \in Nat
    BY <1>4
  <2>2. views \in [1..Len(rows) -> View]
    BY <1>6, <2>1
  <2> QED BY <1>6, <2>1, <2>2
<1> HIDE DEF views
<1>8. e.kind = "patch" => \E i \in DOMAIN views : views[i].ticket = e.ticket
  <2> SUFFICES ASSUME e.kind = "patch"
               PROVE  \E i \in DOMAIN views : views[i].ticket = e.ticket
    OBVIOUS
  <2>1. e.ticket \in Filed
    BY <1>1, <1>2 DEF Known
  <2>2. e.ticket \in Range(rows)
    BY <1>3, <1>4, <2>1
  <2>3. \E i \in DOMAIN rows : rows[i] = e.ticket
    BY <2>2 DEF Range
  <2> QED BY <1>7, <2>3
<1> HIDE DEF e
<1>9. /\ r \in Request /\ r.at = "answer" /\ r.kind = e.kind /\ r.ticket = e.ticket
      /\ r.views = views
  BY <1>2, <1>7 DEF Request, Stage
<1> HIDE DEF r
<1>10. \A i \in DOMAIN r.views : r.views[i].ticket \in Filed
  BY <1>5, <1>7, <1>9
<1>11. Known(r, Filed)
  BY <1>1, <1>8, <1>9, <1>10 DEF Known, OwnKinds
<1>12. Follows(e, r)
  BY <1>1, <1>9 DEF Follows
<1> QED BY <1>1, <1>9, <1>11, <1>12, ServedQuietly DEF e

-----------------------------------------------------------------------------
(* Steps of a page.  A request n becomes r: nothing changes in the service,*)
(* and the page that did not act keeps its draft where it was.             *)
LEMMA PageActed ==
  ASSUME DeskParts, NEW n \in Errands, NEW r \in Request,
         errand' = [errand EXCEPT ![n] = r], UNCHANGED <<tickets, recent>>,
         Known(r, Filed), r.at # "create", centre' \in Centre, queue' \in Board
  PROVE  /\ DeskTyped' /\ RequestsKnow' /\ PlaceIsKept' /\ AllSpokenLast'
         /\ Filed' = Filed
         /\ errand'[n] = r /\ \A m \in Errands : m # n => errand'[m] = errand[m]
<1>1. Filed' = Filed /\ OpenTickets' = OpenTickets
  BY DEF Filed, OpenTickets
<1>2. Unexcused' = Unexcused
  BY <1>1 DEF Unexcused
<1>3. DeskTyped /\ PlaceIsKept /\ AllSpokenLast /\ RequestsKnow
  BY DEF DeskParts
<1>4. /\ errand' \in [Errands -> Request]
      /\ errand'[n] = r /\ \A m \in Errands : m # n => errand'[m] = errand[m]
  BY <1>3 DEF DeskTyped
<1>5. RequestsKnow'
  <2> SUFFICES ASSUME NEW m \in Errands PROVE Known(errand'[m], Filed)
    BY <1>1 DEF RequestsKnow, Known
  <2> QED BY <1>3, <1>4 DEF RequestsKnow
<1>6. PlaceIsKept'
  BY <1>2, <1>3, LoneStays, PlaceStays DEF DeskTyped
<1>7. AllSpokenLast'
  BY <1>1, <1>3 DEF AllSpokenLast, SpokenLast
<1>8. DeskTyped'
  BY <1>1, <1>3, <1>4 DEF DeskTyped
<1> QED BY <1>1, <1>4, <1>5, <1>6, <1>7, <1>8

(* Nothing is asked of the service.                                        *)
LEMMA PageAlone ==
  ASSUME DeskParts, UNCHANGED deskVars, centre' \in Centre, queue' \in Board
  PROVE  /\ DeskTyped' /\ RequestsKnow' /\ PlaceIsKept' /\ AllSpokenLast'
         /\ Filed' = Filed /\ errand' = errand
<1>1. Filed' = Filed /\ OpenTickets' = OpenTickets /\ errand' = errand /\ recent' = recent
      /\ tickets' = tickets
  BY DEF Filed, OpenTickets, deskVars
<1>2. Unexcused' = Unexcused /\ Lone' = Lone
  BY <1>1 DEF Unexcused, Lone
<1>3. DeskTyped /\ PlaceIsKept /\ AllSpokenLast /\ RequestsKnow
  BY DEF DeskParts
<1>4. RequestsKnow'
  BY <1>1, <1>3 DEF RequestsKnow, Known
<1>5. PlaceIsKept'
  BY <1>2, <1>3 DEF PlaceIsKept
<1>6. AllSpokenLast'
  BY <1>1, <1>3 DEF AllSpokenLast, SpokenLast
<1>7. DeskTyped'
  BY <1>1, <1>3 DEF DeskTyped
<1> QED BY <1>1, <1>4, <1>5, <1>6, <1>7

(* The staff's page is as it was, and no request of its own is new.        *)
LEMMA QueueLeftAlone ==
  ASSUME DeskParts, queue' = queue,
         \A m \in Errands : \/ errand'[m] = errand[m]
                           \/ errand'[m].at = "idle"
                           \/ errand'[m].kind \in OwnKinds \union {"elsewhere"}
  PROVE  QueueDraft'
<1>1. Selected' = Selected
  BY DEF Selected, Visible, Among
<1>2. QueueDraft
  BY DEF DeskParts
<1>3. ASSUME NEW m \in Errands, NEW x, KeepsRow(errand[m], x) PROVE KeepsRow(errand'[m], x)
  BY <1>3 DEF KeepsRow, Due, OwnKinds
<1> QED BY <1>1, <1>2, <1>3 DEF QueueDraft, KeepsRow, Due

(* The support centre is as it was, and no request of its own is new.      *)
LEMMA CentreLeftAlone ==
  ASSUME DeskParts, centre' = centre,
         \A m \in Errands : \/ errand'[m] = errand[m]
                           \/ errand'[m].at = "idle"
                           \/ errand'[m].kind \in {"patch", "queue", "elsewhere"}
  PROVE  CentreDraft'
<1>2. CentreDraft
  BY DEF DeskParts
<1>3. ASSUME NEW m \in Errands, NEW x, KeepsThread(errand[m], x)
      PROVE  KeepsThread(errand'[m], x)
  BY <1>3 DEF KeepsThread, Due, OwnKinds
<1> QED BY <1>2, <1>3 DEF CentreDraft, KeepsThread, Due

(* The centre's draft where the request of one answer changed.             *)
LEMMA CentreSettled ==
  ASSUME DeskParts, NEW n \in Errands,
         \A m \in Errands : m # n => errand'[m] = errand[m],
         centre'.reply = centre.reply,
         ~centre'.crossed => ~centre.crossed,
         centre'.reply # Null /\ ~centre'.crossed =>
           /\ KeepsThread(errand'[n], centre.reply)
           /\ centre'.thread # Null /\ centre'.thread.ticket = centre.reply
  PROVE  CentreDraft'
<1>1. CentreDraft
  BY DEF DeskParts
<1> SUFFICES ASSUME centre'.reply # Null, ~centre'.crossed
             PROVE  /\ centre'.thread # Null /\ centre'.thread.ticket = centre'.reply
                    /\ \A m \in Errands : KeepsThread(errand'[m], centre'.reply)
  BY DEF CentreDraft, KeepsThread, Due
<1>2. \A m \in Errands : KeepsThread(errand[m], centre.reply)
  BY <1>1 DEF CentreDraft
<1>3. \A m \in Errands : KeepsThread(errand'[m], centre.reply)
  BY <1>2
<1> QED BY <1>3

LEMMA QueueSettled ==
  ASSUME DeskParts, NEW n \in Errands,
         \A m \in Errands : m # n => errand'[m] = errand[m],
         queue'.reply = queue.reply,
         ~queue'.strayed => ~queue.strayed,
         queue'.reply # Null /\ ~queue'.strayed =>
           /\ KeepsRow(errand'[n], queue.reply)
           /\ queue'.filter = Null /\ Selected' # Null /\ Selected'.ticket = queue.reply
  PROVE  QueueDraft'
<1>1. QueueDraft
  BY DEF DeskParts
<1> SUFFICES ASSUME queue'.reply # Null, ~queue'.strayed
             PROVE  /\ queue'.filter = Null /\ Selected' # Null
                    /\ Selected'.ticket = queue'.reply
                    /\ \A m \in Errands : KeepsRow(errand'[m], queue'.reply)
  BY DEF QueueDraft, KeepsRow, Due
<1>2. \A m \in Errands : KeepsRow(errand[m], queue.reply)
  BY <1>1 DEF QueueDraft
<1>3. \A m \in Errands : KeepsRow(errand'[m], queue.reply)
  BY <1>2
<1> QED BY <1>3

(* The row the staff's page has selected is one of its list.               *)
LEMMA VisibleTyped ==
  ASSUME DeskTyped
  PROVE  Visible \in Seq(View) /\ \A i \in DOMAIN Visible :
           \E j \in DOMAIN queue.list : queue.list[j] = Visible[i]
<1>1. queue.list \in Seq(View)
  BY DEF DeskTyped, Board
<1>2. CASE queue.filter = Null
  BY <1>1, <1>2 DEF Visible
<1>3. CASE queue.filter # Null
  <2> DEFINE S == [ticket : Tickets, status : {queue.filter}]
             a == Among(queue.list, S)
  <2>1. a \in Seq(View) /\ Range(a) = Range(queue.list) \intersect S
    BY <1>1, AmongMembers
  <2>2. Visible = a
    BY <1>3 DEF Visible
  <2> HIDE DEF a, S
  <2>3. ASSUME NEW i \in DOMAIN a PROVE \E j \in DOMAIN queue.list : queue.list[j] = a[i]
    <3>1. a[i] \in Range(a)
      BY DEF Range
    <3>2. a[i] \in Range(queue.list)
      BY <2>1, <3>1
    <3> QED BY <3>2 DEF Range
  <2> QED BY <2>1, <2>2, <2>3
<1> QED BY <1>2, <1>3

LEMMA SelectedTyped ==
  ASSUME DeskTyped, PagesKnow, Selected # Null
  PROVE  Selected \in View /\ Selected.ticket \in Filed
<1>1. \E i \in DOMAIN Visible : Selected = Visible[i]
  <2>1. CASE \E i \in DOMAIN Visible : Visible[i].ticket = queue.picked
    <3>1. (CHOOSE i \in DOMAIN Visible : Visible[i].ticket = queue.picked) \in DOMAIN Visible
      BY <2>1
    <3> QED BY <2>1, <3>1 DEF Selected
  <2>2. CASE ~ \E i \in DOMAIN Visible : Visible[i].ticket = queue.picked
    <3>1. Selected = Visible[1] /\ Visible # <<>>
      BY <2>2 DEF Selected
    <3>2. 1 \in DOMAIN Visible
      BY <3>1, VisibleTyped
    <3> QED BY <3>1, <3>2
  <2> QED BY <2>1, <2>2
<1>2. PICK i \in DOMAIN Visible : Selected = Visible[i]
  BY <1>1
<1>3. PICK j \in DOMAIN queue.list : queue.list[j] = Visible[i]
  BY VisibleTyped
<1>4. queue.list[j] \in View
  BY DEF DeskTyped, Board
<1> QED BY <1>2, <1>3, <1>4 DEF PagesKnow

(* The selection is that of the list, of the filter and of the pick.       *)
LEMMA SelectedStays ==
  ASSUME queue'.list = queue.list, queue'.filter = queue.filter, queue'.picked = queue.picked
  PROVE  Selected' = Selected
  BY DEF Selected, Visible, Among

LEMMA SelectedFound ==
  ASSUME queue'.filter = Null, queue'.list \in Seq(View),
         \E i \in DOMAIN queue'.list : queue'.list[i].ticket = queue'.picked
  PROVE  Selected' # Null /\ Selected'.ticket = queue'.picked
<1> DEFINE l == queue'.list
           i == CHOOSE j \in DOMAIN l : l[j].ticket = queue'.picked
<1>1. i \in DOMAIN l /\ l[i].ticket = queue'.picked
  OBVIOUS
<1>2. Selected' = l[i]
  BY DEF Selected, Visible
<1>3. l[i] \in View
  BY <1>1
<1> QED BY <1>1, <1>2, <1>3, DeskAssumption

-----------------------------------------------------------------------------
(* Steps of the support centre.                                            *)
LEMMA CreateElsewhereKeeps ==
  ASSUME DeskParts, CreateElsewhere, UNCHANGED deskPageVars
  PROVE  DeskParts'
<1>1. DeskTyped /\ centre' = centre /\ queue' = queue
  BY DEF DeskParts, deskPageVars
<1>2. PICK n \in Errands, r \in Request :
         /\ errand[n].at = "idle" /\ errand' = [errand EXCEPT ![n] = r]
         /\ r.kind = "elsewhere" /\ r.at = "count" /\ r.views = <<>>
  BY <1>1, Dispatched, VacantTyped DEF CreateElsewhere, Kind, Stage
<1>3. Known(r, Filed)
  BY <1>2 DEF Known
<1>4. /\ DeskTyped' /\ RequestsKnow' /\ PlaceIsKept' /\ AllSpokenLast' /\ Filed' = Filed
      /\ errand'[n] = r /\ \A m \in Errands : m # n => errand'[m] = errand[m]
  BY <1>1, <1>2, <1>3, PageActed DEF CreateElsewhere, DeskTyped
<1>5. \A m \in Errands : errand'[m] = errand[m] \/ errand'[m].kind = "elsewhere"
  BY <1>2, <1>4
<1>6. CentreDraft' /\ QueueDraft'
  BY <1>1, <1>5, CentreLeftAlone, QueueLeftAlone
<1>7. PagesKnow'
  BY <1>1, <1>4 DEF DeskParts, PagesKnow
<1> QED BY <1>4, <1>6, <1>7 DEF DeskParts

LEMMA OpenThreadKeeps ==
  ASSUME DeskParts, NEW t \in Tickets, OpenThread(t)
  PROVE  DeskParts'
<1>1. DeskTyped /\ PagesKnow /\ centre \in Centre /\ queue \in Board
  BY DEF DeskParts, DeskTyped
<1>2. PICK n \in Errands, r \in Request :
         /\ errand[n].at = "idle" /\ errand' = [errand EXCEPT ![n] = r]
         /\ r.kind = "open" /\ r.at = "read" /\ r.ticket = t /\ r.views = <<>>
  <2> DEFINE l == [Vacant EXCEPT !.ticket = t]
  <2>1. l \in Request /\ l.ticket = t /\ l.views = <<>>
    BY VacantTyped DEF Request
  <2>2. Dispatch("open", "read", l) /\ "open" \in Kind /\ "read" \in Stage
    BY DEF OpenThread, Kind, Stage
  <2> HIDE DEF l
  <2> QED BY <1>1, <2>1, <2>2, Dispatched
<1>3. t \in Filed
  BY <1>1 DEF OpenThread, PagesKnow
<1>4. Known(r, Filed)
  BY <1>2, <1>3 DEF Known
<1>5. /\ centre' \in Centre /\ centre'.reply = Null /\ queue' = queue
      /\ centre'.listed = centre.listed /\ centre'.thread = centre.thread
      /\ UNCHANGED <<tickets, recent>>
  BY <1>1 DEF OpenThread, Centre
<1>6. /\ DeskTyped' /\ RequestsKnow' /\ PlaceIsKept' /\ AllSpokenLast' /\ Filed' = Filed
      /\ errand'[n] = r /\ \A m \in Errands : m # n => errand'[m] = errand[m]
  BY <1>1, <1>2, <1>4, <1>5, PageActed
<1>7. \A m \in Errands : errand'[m] = errand[m] \/ errand'[m].kind \in OwnKinds
  BY <1>2, <1>6 DEF OwnKinds
<1>8. QueueDraft'
  BY <1>5, <1>7, QueueLeftAlone
<1>9. CentreDraft'
  BY <1>5 DEF CentreDraft
<1>10. PagesKnow'
  BY <1>1, <1>5, <1>6 DEF PagesKnow
<1> QED BY <1>6, <1>8, <1>9, <1>10 DEF DeskParts

LEMMA TypeReplyKeeps ==
  ASSUME DeskParts, TypeReply
  PROVE  DeskParts'
<1>1. /\ DeskTyped /\ PagesKnow /\ centre \in Centre /\ queue \in Board
      /\ centre.thread # Null /\ centre.thread \in View
  BY DEF DeskParts, DeskTyped, TypeReply, ReplyBox, ThreadVisible, Centre
<1>2. centre.thread.ticket \in Tickets
  BY <1>1 DEF View
<1> DEFINE crossed == Awaited(OwnKinds) # {}
<1>3. /\ centre' = [centre EXCEPT !.reply = centre.thread.ticket, !.crossed = crossed]
      /\ crossed \in BOOLEAN /\ UNCHANGED deskVars /\ queue' = queue
  BY DEF TypeReply
<1> HIDE DEF crossed
<1>4. /\ centre' \in Centre /\ centre'.reply = centre.thread.ticket
      /\ centre'.thread = centre.thread /\ centre'.listed = centre.listed
      /\ centre'.crossed = crossed
  BY <1>1, <1>2, <1>3 DEF Centre
<1>5. /\ DeskTyped' /\ RequestsKnow' /\ PlaceIsKept' /\ AllSpokenLast'
      /\ Filed' = Filed /\ errand' = errand
  BY <1>1, <1>3, <1>4, PageAlone
<1>6. ~crossed => \A m \in Errands : KeepsThread(errand[m], centre.thread.ticket)
  BY DEF crossed, Awaited, Out, KeepsThread, Due
<1>7. CentreDraft'
  BY <1>1, <1>4, <1>5, <1>6 DEF CentreDraft, KeepsThread, Due
<1>8. QueueDraft'
  BY <1>3, <1>5, QueueLeftAlone
<1>9. PagesKnow'
  BY <1>1, <1>3, <1>4, <1>5 DEF PagesKnow
<1> QED BY <1>5, <1>7, <1>8, <1>9 DEF DeskParts

(* SubmitReply, SetStatus and SubmitCreate: a request of the centre's own, *)
(* about its thread or about none.                                         *)
LEMMA SubmitKeeps ==
  ASSUME DeskParts, NEW n \in Errands, NEW r \in Request,
         errand[n].at = "idle", errand' = [errand EXCEPT ![n] = r],
         UNCHANGED <<tickets, recent, queue>>, centre' = [centre EXCEPT !.busy = TRUE],
         r.views = <<>>,
         \/ r.kind = "reply" /\ r.at = "find"
         \/ r.kind = "status" /\ r.at = "update" /\ r.status # Null
         \/ r.kind = "create" /\ r.at = "count",
         r.kind # "create" => centre.thread # Null /\ r.ticket = centre.thread.ticket
  PROVE  DeskParts'
<1>1. DeskTyped /\ PagesKnow /\ centre \in Centre /\ queue \in Board
  BY DEF DeskParts, DeskTyped
<1>2. Known(r, Filed)
  BY <1>1 DEF Known, PagesKnow
<1>3. /\ centre' \in Centre /\ centre'.reply = centre.reply /\ centre'.thread = centre.thread
      /\ centre'.listed = centre.listed /\ centre'.crossed = centre.crossed
  BY <1>1 DEF Centre
<1>4. /\ DeskTyped' /\ RequestsKnow' /\ PlaceIsKept' /\ AllSpokenLast' /\ Filed' = Filed
      /\ errand'[n] = r /\ \A m \in Errands : m # n => errand'[m] = errand[m]
  BY <1>1, <1>2, <1>3, PageActed
<1>5. \A m \in Errands : errand'[m] = errand[m] \/ errand'[m].kind \in OwnKinds
  BY <1>4 DEF OwnKinds
<1>6. QueueDraft'
  BY <1>5, QueueLeftAlone
<1>7. CentreDraft
  BY DEF DeskParts
<1>8. CentreDraft'
  <2>1. centre.reply # Null /\ ~centre.crossed =>
          /\ KeepsThread(r, centre.reply)
          /\ centre.thread # Null /\ centre.thread.ticket = centre.reply
    BY <1>7 DEF CentreDraft, KeepsThread, OwnKinds
  <2> QED BY <1>3, <1>4, <2>1, CentreSettled
<1>9. PagesKnow'
  BY <1>1, <1>3, <1>4 DEF PagesKnow
<1> QED BY <1>4, <1>6, <1>8, <1>9 DEF DeskParts

LEMMA SubmitReplyKeeps ==
  ASSUME DeskParts, SubmitReply
  PROVE  DeskParts'
<1> DEFINE t == centre.thread.ticket
           l == [Vacant EXCEPT !.ticket = t, !.typed = centre.reply]
<1>1. /\ DeskTyped /\ centre.thread # Null /\ centre.thread \in View
      /\ centre.reply \in Tickets \union {Null}
  BY DEF DeskParts, DeskTyped, SubmitReply, ReplyBox, ThreadVisible, Centre
<1>2. Dispatch("reply", "find", l) /\ "reply" \in Kind /\ "find" \in Stage
  BY DEF SubmitReply, Kind, Stage
<1>3. t \in Tickets
  BY <1>1 DEF View
<1> HIDE DEF t
<1>4. l \in Request /\ l.ticket = t /\ l.views = <<>>
  BY <1>1, <1>3, VacantTyped DEF Request
<1> HIDE DEF l
<1>5. PICK n \in Errands, r \in Request :
         /\ errand[n].at = "idle" /\ errand' = [errand EXCEPT ![n] = r]
         /\ r.kind = "reply" /\ r.at = "find" /\ r.ticket = t /\ r.views = <<>>
  BY <1>1, <1>2, <1>4, Dispatched
<1>6. UNCHANGED <<tickets, recent, queue>> /\ centre' = [centre EXCEPT !.busy = TRUE]
  BY DEF SubmitReply
<1> QED BY <1>1, <1>5, <1>6, SubmitKeeps DEF t

LEMMA SetStatusKeeps ==
  ASSUME DeskParts, SetStatus
  PROVE  DeskParts'
<1> DEFINE t == centre.thread.ticket
           status == IF centre.thread.status \in CLOSED THEN "open" ELSE "closed"
           l == [Vacant EXCEPT !.ticket = t, !.status = status]
<1>1. DeskTyped /\ centre.thread # Null /\ centre.thread \in View
  BY DEF DeskParts, DeskTyped, SetStatus, ThreadVisible, Centre
<1>2. Dispatch("status", "update", l) /\ "status" \in Kind /\ "update" \in Stage
  BY DEF SetStatus, Kind, Stage
<1>3. t \in Tickets /\ status \in Statuses
  BY <1>1 DEF View, Statuses
<1> HIDE DEF t, status
<1>4. l \in Request /\ l.ticket = t /\ l.views = <<>> /\ l.status = status
  BY <1>1, <1>3, VacantTyped DEF Request
<1> HIDE DEF l
<1>5. PICK n \in Errands, r \in Request :
         /\ errand[n].at = "idle" /\ errand' = [errand EXCEPT ![n] = r]
         /\ r.kind = "status" /\ r.at = "update" /\ r.ticket = t /\ r.views = <<>>
         /\ r.status = status
  BY <1>1, <1>2, <1>4, Dispatched
<1>6. UNCHANGED <<tickets, recent, queue>> /\ centre' = [centre EXCEPT !.busy = TRUE]
  BY DEF SetStatus
<1>7. status # Null
  BY <1>3, DeskAssumption
<1> QED BY <1>1, <1>5, <1>6, <1>7, SubmitKeeps DEF t

LEMMA SubmitCreateKeeps ==
  ASSUME DeskParts, SubmitCreate
  PROVE  DeskParts'
<1>1. DeskTyped
  BY DEF DeskParts
<1>2. PICK n \in Errands, r \in Request :
         /\ errand[n].at = "idle" /\ errand' = [errand EXCEPT ![n] = r]
         /\ r.kind = "create" /\ r.at = "count" /\ r.views = <<>>
  BY <1>1, Dispatched, VacantTyped DEF SubmitCreate, Kind, Stage
<1>3. UNCHANGED <<tickets, recent, queue>> /\ centre' = [centre EXCEPT !.busy = TRUE]
  BY DEF SubmitCreate
<1> QED BY <1>2, <1>3, SubmitKeeps

LEMMA ToggleDialogKeeps ==
  ASSUME DeskParts, ToggleDialog
  PROVE  DeskParts'
<1>1. DeskTyped /\ PagesKnow /\ centre \in Centre /\ queue \in Board /\ CentreDraft
  BY DEF DeskParts, DeskTyped
<1>2. UNCHANGED deskVars /\ queue' = queue
  BY DEF ToggleDialog
<1>3. /\ centre' \in Centre /\ centre'.reply = centre.reply /\ centre'.thread = centre.thread
      /\ centre'.listed = centre.listed /\ centre'.crossed = centre.crossed
  BY <1>1 DEF ToggleDialog, Centre
<1>4. /\ DeskTyped' /\ RequestsKnow' /\ PlaceIsKept' /\ AllSpokenLast'
      /\ Filed' = Filed /\ errand' = errand
  BY <1>1, <1>2, <1>3, PageAlone
<1>5. CentreDraft'
  BY <1>1, <1>3, <1>4 DEF CentreDraft, KeepsThread, Due
<1>6. QueueDraft'
  BY <1>2, <1>4, QueueLeftAlone
<1>7. PagesKnow'
  BY <1>1, <1>2, <1>3, <1>4 DEF PagesKnow
<1> QED BY <1>4, <1>5, <1>6, <1>7 DEF DeskParts

LEMMA CentreAnswerKeeps ==
  ASSUME DeskParts, NEW n \in Errands, CentreAnswer(n)
  PROVE  DeskParts'
<1> DEFINE e == errand[n]
           v == e.views[1]
           r == IF e.kind \in {"reply", "status"} THEN [e EXCEPT !.at = "listing"] ELSE Vacant
<1>1. /\ DeskTyped /\ PagesKnow /\ CentreDraft /\ centre \in Centre /\ queue \in Board
      /\ e \in Request /\ Known(e, Filed)
  BY DEF DeskParts, DeskTyped, RequestsKnow
<1>2. /\ e.kind \in OwnKinds /\ e.at = "answer" /\ errand' = [errand EXCEPT ![n] = r]
      /\ UNCHANGED <<tickets, recent>> /\ queue' = queue
      /\ centre' =
       CASE e.kind = "open"   -> [centre EXCEPT !.thread = v, !.loading = FALSE]
         [] e.kind = "create" -> [centre EXCEPT !.thread = v, !.listed = Filed, !.dialog = FALSE,
                                                !.busy = FALSE, !.crossed = TRUE]
         [] e.kind = "reply"  -> [centre EXCEPT !.thread = v, !.reply = Null]
         [] OTHER             -> [centre EXCEPT !.thread = v]
  BY DEF CentreAnswer
<1>3. v \in View /\ v.ticket = e.ticket /\ v.ticket \in Filed
  <2>1. 1 \in DOMAIN e.views /\ e.views[1].ticket = e.ticket
    BY <1>1, <1>2 DEF Known
  <2>2. e.views \in Seq(View)
    BY <1>1 DEF Request
  <2>3. e.views[1].ticket \in Filed
    BY <1>1, <2>1 DEF Known
  <2> QED BY <2>1, <2>2, <2>3
<1>4. v # Null
  BY <1>3, DeskAssumption
<1>5. KeepsThread(e, centre.reply) \/ centre.reply = Null \/ centre.crossed
  BY <1>1 DEF CentreDraft
<1> HIDE DEF e, v
<1>6. r \in Request /\ r.at # "create" /\ Known(r, Filed) /\ \A x : KeepsThread(r, x)
  <2>1. CASE e.kind \in {"reply", "status"}
    <3>1. r \in Request /\ r.at = "listing" /\ r.views = e.views
      BY <1>1, <2>1 DEF Request, Stage
    <3> HIDE DEF r
    <3> QED BY <1>1, <3>1 DEF Known, KeepsThread, Due
  <2>2. CASE e.kind \notin {"reply", "status"}
    BY <2>2, VacantTyped DEF Known, KeepsThread, Due
  <2> QED BY <2>1, <2>2
<1> HIDE DEF r
<1>7. Filed \subseteq Tickets
  BY DEF Filed
<1>8. /\ centre' \in Centre /\ centre'.thread = v
      /\ centre'.listed \in {centre.listed, Filed}
  BY <1>1, <1>2, <1>3, <1>7 DEF Centre, OwnKinds
<1>9. /\ e.kind = "create" => centre'.crossed
      /\ e.kind # "create" => centre'.crossed = centre.crossed
      /\ e.kind = "reply" => centre'.reply = Null
      /\ e.kind # "reply" => centre'.reply = centre.reply
  BY <1>1, <1>2 DEF Centre, OwnKinds
<1>10. /\ DeskTyped' /\ RequestsKnow' /\ PlaceIsKept' /\ AllSpokenLast' /\ Filed' = Filed
       /\ errand'[n] = r /\ \A m \in Errands : m # n => errand'[m] = errand[m]
  BY <1>1, <1>2, <1>6, <1>8, PageActed
<1>11. CentreDraft'
  <2>1. CASE e.kind = "reply"
    BY <1>9, <2>1 DEF CentreDraft
  <2>2. CASE e.kind = "create"
    BY <1>9, <2>2 DEF CentreDraft
  <2>3. CASE e.kind \notin {"reply", "create"}
    <3>1. centre.reply # Null /\ ~centre.crossed => v.ticket = centre.reply
      BY <1>2, <1>3, <1>5, <2>3 DEF KeepsThread, Due
    <3> QED BY <1>4, <1>6, <1>8, <1>9, <1>10, <2>3, <3>1, CentreSettled
  <2> QED BY <2>1, <2>2, <2>3
<1>12. QueueDraft'
  <2>1. r.at = "idle" \/ r.kind \in OwnKinds
    BY <1>1, <1>2, VacantTyped DEF r, Request, OwnKinds
  <2> QED BY <1>2, <1>10, <2>1, QueueLeftAlone
<1>13. PagesKnow'
  BY <1>1, <1>2, <1>3, <1>8, <1>10 DEF PagesKnow
<1> QED BY <1>10, <1>11, <1>12, <1>13 DEF DeskParts

LEMMA CentreListedKeeps ==
  ASSUME DeskParts, NEW n \in Errands, CentreListed(n)
  PROVE  DeskParts'
<1>1. DeskTyped /\ PagesKnow /\ CentreDraft /\ centre \in Centre /\ queue \in Board
  BY DEF DeskParts, DeskTyped
<1>2. /\ errand' = [errand EXCEPT ![n] = Vacant]
      /\ UNCHANGED <<tickets, recent>> /\ queue' = queue
  BY DEF CentreListed
<1>3. Filed \subseteq Tickets
  BY DEF Filed
<1>4. /\ centre' \in Centre /\ centre'.reply = centre.reply /\ centre'.thread = centre.thread
      /\ centre'.listed = Filed /\ centre'.crossed = centre.crossed
  BY <1>1, <1>3 DEF CentreListed, Centre
<1>5. Vacant \in Request /\ Vacant.at = "idle" /\ Known(Vacant, Filed)
      /\ \A x : KeepsThread(Vacant, x)
  BY VacantTyped DEF Known, KeepsThread, Due
<1>6. /\ DeskTyped' /\ RequestsKnow' /\ PlaceIsKept' /\ AllSpokenLast' /\ Filed' = Filed
      /\ errand'[n] = Vacant /\ \A m \in Errands : m # n => errand'[m] = errand[m]
  BY <1>1, <1>2, <1>4, <1>5, PageActed
<1>7. CentreDraft'
  BY <1>1, <1>4, <1>5, <1>6, CentreSettled DEF CentreDraft
<1>8. QueueDraft'
  BY <1>2, <1>5, <1>6, QueueLeftAlone
<1>9. PagesKnow'
  BY <1>1, <1>2, <1>4, <1>6 DEF PagesKnow
<1> QED BY <1>6, <1>7, <1>8, <1>9 DEF DeskParts

LEMMA CentreErrorKeeps ==
  ASSUME DeskParts, NEW n \in Errands, CentreError(n)
  PROVE  DeskParts'
<1>1. /\ DeskTyped /\ PagesKnow /\ CentreDraft /\ centre \in Centre /\ queue \in Board
      /\ errand[n].kind \in OwnKinds /\ errand[n].at = "failed"
  BY DEF DeskParts, DeskTyped, CentreError
<1>2. /\ errand' = [errand EXCEPT ![n] = Vacant]
      /\ UNCHANGED <<tickets, recent>> /\ queue' = queue
  BY DEF CentreError
<1>3. /\ centre' \in Centre /\ centre'.reply = centre.reply
      /\ centre'.listed = centre.listed /\ centre'.crossed = centre.crossed
      /\ centre'.thread \in {centre.thread, Null}
      /\ errand[n].kind # "open" => centre'.thread = centre.thread
  BY <1>1 DEF CentreError, Centre
<1>4. Vacant \in Request /\ Vacant.at = "idle" /\ Known(Vacant, Filed)
      /\ \A x : KeepsThread(Vacant, x)
  BY VacantTyped DEF Known, KeepsThread, Due
<1>5. /\ DeskTyped' /\ RequestsKnow' /\ PlaceIsKept' /\ AllSpokenLast' /\ Filed' = Filed
      /\ errand'[n] = Vacant /\ \A m \in Errands : m # n => errand'[m] = errand[m]
  BY <1>1, <1>2, <1>3, <1>4, PageActed
<1>6. CentreDraft'
  <2>1. centre.reply # Null /\ ~centre.crossed =>
          /\ centre.thread # Null /\ centre.thread.ticket = centre.reply
          /\ errand[n].kind # "open"
    BY <1>1 DEF CentreDraft, KeepsThread, Due
  <2> QED BY <1>3, <1>4, <1>5, <2>1, CentreSettled
<1>7. QueueDraft'
  BY <1>2, <1>4, <1>5, QueueLeftAlone
<1>8. PagesKnow'
  BY <1>1, <1>2, <1>3, <1>5 DEF PagesKnow
<1> QED BY <1>5, <1>6, <1>7, <1>8 DEF DeskParts

-----------------------------------------------------------------------------
(* Steps of the staff's page.                                              *)
LEMMA ChooseFilterKeeps ==
  ASSUME DeskParts, NEW status \in Chosen \union {Null}, ChooseFilter(status)
  PROVE  DeskParts'
<1> DEFINE l == [Vacant EXCEPT !.status = status]
<1>1. /\ DeskTyped /\ PagesKnow /\ centre \in Centre /\ queue \in Board
      /\ status \in Statuses \union {Null}
  BY DeskAssumption DEF DeskParts, DeskTyped
<1>2. /\ Dispatch("queue", "read", l) /\ "queue" \in Kind /\ "read" \in Stage
      /\ UNCHANGED <<tickets, recent>> /\ centre' = centre
  BY DEF ChooseFilter, Kind, Stage
<1>3. l \in Request /\ l.views = <<>>
  BY <1>1, VacantTyped DEF Request
<1> HIDE DEF l
<1>4. PICK n \in Errands, r \in Request :
         /\ errand[n].at = "idle" /\ errand' = [errand EXCEPT ![n] = r]
         /\ r.kind = "queue" /\ r.at = "read" /\ r.views = <<>>
  BY <1>1, <1>2, <1>3, Dispatched
<1>5. Known(r, Filed)
  BY <1>4 DEF Known
<1>6. queue' \in Board /\ queue'.strayed /\ queue'.list = queue.list
  BY <1>1 DEF ChooseFilter, Board
<1>7. /\ DeskTyped' /\ RequestsKnow' /\ PlaceIsKept' /\ AllSpokenLast' /\ Filed' = Filed
      /\ errand'[n] = r /\ \A m \in Errands : m # n => errand'[m] = errand[m]
  BY <1>1, <1>2, <1>4, <1>5, <1>6, PageActed
<1>8. CentreDraft'
  BY <1>2, <1>4, <1>7, CentreLeftAlone
<1>9. QueueDraft'
  BY <1>6 DEF QueueDraft
<1>10. PagesKnow'
  BY <1>1, <1>2, <1>6, <1>7 DEF PagesKnow
<1> QED BY <1>7, <1>8, <1>9, <1>10 DEF DeskParts

LEMMA PickTicketKeeps ==
  ASSUME DeskParts, NEW i \in Nat, PickTicket(i)
  PROVE  DeskParts'
<1>1. /\ DeskTyped /\ PagesKnow /\ centre \in Centre /\ queue \in Board
      /\ UNCHANGED deskVars /\ centre' = centre
  BY DEF DeskParts, DeskTyped, PickTicket
<1> DEFINE t == Visible[i].ticket
<1>2. i \in DOMAIN Visible /\ queue' = [queue EXCEPT !.picked = t, !.strayed = TRUE]
  BY DEF PickTicket
<1>3. t \in Tickets
  <2>1. Visible \in Seq(View)
    BY <1>1, VisibleTyped
  <2>2. Visible[i] \in View
    BY <1>2, <2>1
  <2> QED BY <2>2 DEF View
<1> HIDE DEF t
<1>4. queue' \in Board /\ queue'.strayed /\ queue'.list = queue.list
  BY <1>1, <1>2, <1>3 DEF Board
<1>5. /\ DeskTyped' /\ RequestsKnow' /\ PlaceIsKept' /\ AllSpokenLast'
      /\ Filed' = Filed /\ errand' = errand
  BY <1>1, <1>4, PageAlone
<1>6. CentreDraft'
  BY <1>1, <1>5, CentreLeftAlone
<1>7. QueueDraft'
  BY <1>4 DEF QueueDraft
<1>8. PagesKnow'
  BY <1>1, <1>4, <1>5 DEF PagesKnow
<1> QED BY <1>5, <1>6, <1>7, <1>8 DEF DeskParts

LEMMA TypeAnswerKeeps ==
  ASSUME DeskParts, TypeAnswer
  PROVE  DeskParts'
<1> DEFINE t == Selected.ticket
           strayed == queue.filter # Null \/ Awaited({"patch", "queue"}) # {}
<1>1. /\ DeskTyped /\ PagesKnow /\ centre \in Centre /\ queue \in Board
      /\ UNCHANGED deskVars /\ centre' = centre /\ Selected # Null
      /\ queue' = [queue EXCEPT !.reply = t, !.strayed = strayed]
  BY DEF DeskParts, DeskTyped, TypeAnswer
<1>2. t \in Tickets /\ strayed \in BOOLEAN
  BY <1>1, SelectedTyped DEF Filed
<1>3. ~strayed => queue.filter = Null /\ \A m \in Errands : KeepsRow(errand[m], t)
  BY DEF Awaited, Out, KeepsRow, Due
<1> HIDE DEF t, strayed
<1>4. /\ queue' \in Board /\ queue'.strayed = strayed /\ queue'.list = queue.list
      /\ queue'.reply = t /\ queue'.filter = queue.filter /\ queue'.picked = queue.picked
  BY <1>1, <1>2 DEF Board
<1>5. /\ DeskTyped' /\ RequestsKnow' /\ PlaceIsKept' /\ AllSpokenLast'
      /\ Filed' = Filed /\ errand' = errand
  BY <1>1, <1>4, PageAlone
<1>6. CentreDraft'
  BY <1>1, <1>5, CentreLeftAlone
<1>7. Selected' = Selected
  BY <1>4, SelectedStays
<1>8. QueueDraft'
  BY <1>1, <1>3, <1>4, <1>5, <1>7 DEF QueueDraft, KeepsRow, Due, t
<1>9. PagesKnow'
  BY <1>1, <1>4, <1>5 DEF PagesKnow
<1> QED BY <1>5, <1>6, <1>8, <1>9 DEF DeskParts

LEMMA PatchTicketKeeps ==
  ASSUME DeskParts, NEW status \in Chosen \union {Null}, NEW withReply \in BOOLEAN,
         PatchTicket(status, withReply)
  PROVE  DeskParts'
<1> DEFINE t == Selected.ticket
           typed == IF withReply THEN queue.reply ELSE Null
           l == [Vacant EXCEPT !.ticket = t, !.status = status, !.typed = typed]
<1>1. /\ DeskTyped /\ PagesKnow /\ QueueDraft /\ centre \in Centre /\ queue \in Board
      /\ status \in Statuses \union {Null} /\ Selected # Null
  BY DeskAssumption DEF DeskParts, DeskTyped, PatchTicket
<1>2. /\ Dispatch("patch", "find", l) /\ "patch" \in Kind /\ "find" \in Stage
      /\ UNCHANGED <<tickets, recent>> /\ centre' = centre
      /\ queue' = [queue EXCEPT !.busy = TRUE]
  BY DEF PatchTicket, Kind, Stage
<1>3. t \in Tickets /\ t \in Filed
  BY <1>1, SelectedTyped DEF Filed
<1>4. typed \in Tickets \union {Null}
  BY <1>1 DEF Board
<1> HIDE DEF t, typed
<1>5. l \in Request /\ l.ticket = t /\ l.views = <<>>
  BY <1>1, <1>3, <1>4, VacantTyped DEF Request
<1> HIDE DEF l
<1>6. PICK n \in Errands, r \in Request :
         /\ errand[n].at = "idle" /\ errand' = [errand EXCEPT ![n] = r]
         /\ r.kind = "patch" /\ r.at = "find" /\ r.ticket = t /\ r.views = <<>>
  BY <1>1, <1>2, <1>5, Dispatched
<1>7. Known(r, Filed)
  BY <1>3, <1>6 DEF Known
<1>8. /\ queue' \in Board /\ queue'.strayed = queue.strayed /\ queue'.list = queue.list
      /\ queue'.reply = queue.reply /\ queue'.filter = queue.filter
      /\ queue'.picked = queue.picked
  BY <1>1, <1>2 DEF Board
<1>9. /\ DeskTyped' /\ RequestsKnow' /\ PlaceIsKept' /\ AllSpokenLast' /\ Filed' = Filed
      /\ errand'[n] = r /\ \A m \in Errands : m # n => errand'[m] = errand[m]
  BY <1>1, <1>2, <1>6, <1>7, <1>8, PageActed
<1>10. CentreDraft'
  BY <1>2, <1>6, <1>9, CentreLeftAlone
<1>11. Selected' = Selected
  BY <1>8, SelectedStays
<1>12. QueueDraft'
  <2>1. queue.reply # Null /\ ~queue.strayed =>
          /\ KeepsRow(r, queue.reply)
          /\ queue.filter = Null /\ Selected.ticket = queue.reply
    BY <1>1, <1>6 DEF QueueDraft, KeepsRow, t
  <2> QED BY <1>1, <1>8, <1>9, <1>11, <2>1, QueueSettled
<1>13. PagesKnow'
  BY <1>1, <1>2, <1>8, <1>9 DEF PagesKnow
<1> QED BY <1>9, <1>10, <1>12, <1>13 DEF DeskParts

LEMMA QueueAnswerKeeps ==
  ASSUME DeskParts, NEW n \in Errands, QueueAnswer(n)
  PROVE  DeskParts'
<1> DEFINE e == errand[n]
<1>1. /\ DeskTyped /\ PagesKnow /\ QueueDraft /\ centre \in Centre /\ queue \in Board
      /\ e \in Request /\ Known(e, Filed)
  BY DEF DeskParts, DeskTyped, RequestsKnow
<1>2. /\ e.kind \in {"patch", "queue"} /\ e.at = "answer"
      /\ errand' = [errand EXCEPT ![n] = Vacant]
      /\ UNCHANGED <<tickets, recent>> /\ centre' = centre
      /\ queue' = IF e.kind = "queue" THEN [queue EXCEPT !.list = e.views, !.loading = FALSE]
              ELSE [queue EXCEPT !.list = e.views, !.picked = e.ticket, !.busy = FALSE,
                                 !.reply = IF e.typed = Null THEN queue.reply ELSE Null]
  BY <1>1 DEF QueueAnswer, Board
<1>3. queue.reply # Null /\ ~queue.strayed =>
        queue.filter = Null /\ e.kind = "patch" /\ e.ticket = queue.reply
  BY <1>1, <1>2 DEF QueueDraft, KeepsRow, Due
<1> HIDE DEF e
<1>4. /\ queue' \in Board /\ queue'.list = e.views
      /\ queue'.filter = queue.filter /\ queue'.strayed = queue.strayed
      /\ e.kind = "patch" => queue'.picked = e.ticket
      /\ queue'.reply \in {queue.reply, Null}
  BY <1>1, <1>2 DEF Board, Request
<1>5. Vacant \in Request /\ Vacant.at = "idle" /\ Known(Vacant, Filed)
      /\ \A x : KeepsRow(Vacant, x)
  BY VacantTyped DEF Known, KeepsRow, Due
<1>6. /\ DeskTyped' /\ RequestsKnow' /\ PlaceIsKept' /\ AllSpokenLast' /\ Filed' = Filed
      /\ errand'[n] = Vacant /\ \A m \in Errands : m # n => errand'[m] = errand[m]
  BY <1>1, <1>2, <1>4, <1>5, PageActed
<1>7. CentreDraft'
  BY <1>2, <1>5, <1>6, CentreLeftAlone
<1>8. QueueDraft'
  <2>1. CASE queue'.reply = Null
    BY <2>1 DEF QueueDraft
  <2>2. CASE queue'.reply = queue.reply /\ queue'.reply # Null
    <3>1. ~queue.strayed => Selected' # Null /\ Selected'.ticket = queue.reply
      <4> SUFFICES ASSUME ~queue.strayed
                   PROVE  Selected' # Null /\ Selected'.ticket = queue.reply
        OBVIOUS
      <4>1. queue.filter = Null /\ e.kind = "patch" /\ e.ticket = queue.reply
        BY <1>3, <2>2
      <4>2. \E i \in DOMAIN e.views : e.views[i].ticket = e.ticket
        BY <1>1, <1>2, <4>1 DEF Known
      <4>3. queue'.list \in Seq(View)
        BY <1>4 DEF Board
      <4>4. \E i \in DOMAIN queue'.list : queue'.list[i].ticket = queue'.picked
        BY <1>4, <4>1, <4>2
      <4>5. Selected' # Null /\ Selected'.ticket = queue'.picked
        BY <1>4, <4>1, <4>3, <4>4, SelectedFound
      <4> QED BY <1>4, <4>1, <4>5
    <3> QED BY <1>3, <1>4, <1>5, <1>6, <2>2, <3>1, QueueSettled
  <2> QED BY <1>4, <2>1, <2>2
<1>9. PagesKnow'
  BY <1>1, <1>2, <1>4, <1>6 DEF PagesKnow, Known
<1> QED BY <1>6, <1>7, <1>8, <1>9 DEF DeskParts

LEMMA QueueErrorKeeps ==
  ASSUME DeskParts, NEW n \in Errands, QueueError(n)
  PROVE  DeskParts'
<1>1. /\ DeskTyped /\ PagesKnow /\ QueueDraft /\ centre \in Centre /\ queue \in Board
  BY DEF DeskParts, DeskTyped
<1>2. /\ errand' = [errand EXCEPT ![n] = Vacant]
      /\ UNCHANGED <<tickets, recent>> /\ centre' = centre
  BY DEF QueueError
<1>3. /\ queue' \in Board /\ queue'.strayed = queue.strayed /\ queue'.list = queue.list
      /\ queue'.reply = queue.reply /\ queue'.filter = queue.filter
      /\ queue'.picked = queue.picked
  BY <1>1 DEF QueueError, Board
<1>4. Vacant \in Request /\ Vacant.at = "idle" /\ Known(Vacant, Filed)
      /\ \A x : KeepsRow(Vacant, x)
  BY VacantTyped DEF Known, KeepsRow, Due
<1>5. /\ DeskTyped' /\ RequestsKnow' /\ PlaceIsKept' /\ AllSpokenLast' /\ Filed' = Filed
      /\ errand'[n] = Vacant /\ \A m \in Errands : m # n => errand'[m] = errand[m]
  BY <1>1, <1>2, <1>3, <1>4, PageActed
<1>6. CentreDraft'
  BY <1>2, <1>4, <1>5, CentreLeftAlone
<1>7. Selected' = Selected
  BY <1>3, SelectedStays
<1>8. QueueDraft'
  <2>1. queue.reply # Null /\ ~queue.strayed =>
          queue.filter = Null /\ Selected # Null /\ Selected.ticket = queue.reply
    BY <1>1 DEF QueueDraft
  <2> QED BY <1>3, <1>4, <1>5, <1>7, <2>1, QueueSettled
<1>9. PagesKnow'
  BY <1>1, <1>2, <1>3, <1>5 DEF PagesKnow
<1> QED BY <1>5, <1>6, <1>8, <1>9 DEF DeskParts

-----------------------------------------------------------------------------
LEMMA DeskBegins ==
  ASSUME DeskPagesInit
  PROVE  DeskParts
<1>1. PICK d \in Days : tickets = d.tickets /\ recent = d.recent
  BY DEF DeskPagesInit, DeskInit
<1> DEFINE filed == {t \in Tickets : d.tickets[t] # Null}
<1>2. filed = Filed
  BY <1>1 DEF Filed
<1>3. /\ tickets \in [Tickets -> Ticket \union {Null}]
      /\ recent \in Seq(Tickets) /\ Range(recent) = Filed
      /\ Cardinality({t \in filed : d.tickets[t].status \notin CLOSED}) <= MaxOpen
      /\ \A t \in Filed : <<tickets[t].status, tickets[t].last>>
                             \notin {<<"pending", "user">>, <<"open", "admin">>}
  BY <1>1, <1>2, DaysAssumption
<1>4. errand = [n \in Errands |-> Vacant]
  BY DEF DeskPagesInit, DeskInit
<1>5. \A i \in DOMAIN recent : recent[i] \in Filed /\ ViewOf(recent[i]) \in View
                              /\ ViewOf(recent[i]).ticket = recent[i]
  <2> SUFFICES ASSUME NEW i \in DOMAIN recent
               PROVE  recent[i] \in Filed /\ ViewOf(recent[i]) \in View
                      /\ ViewOf(recent[i]).ticket = recent[i]
    OBVIOUS
  <2>1. recent[i] \in Filed
    BY <1>3 DEF Range
  <2>2. tickets[recent[i]] \in Ticket /\ recent[i] \in Tickets
    BY <1>3, <2>1 DEF Filed
  <2> QED BY <2>1, <2>2 DEF ViewOf, View, Ticket
<1> DEFINE rows == [i \in DOMAIN recent |-> ViewOf(recent[i])]
           first == IF recent = <<>> THEN Null ELSE recent[1]
<1>6. rows \in Seq(View) /\ \A i \in DOMAIN rows : rows[i].ticket \in Filed
  <2>1. DOMAIN recent = 1..Len(recent) /\ Len(recent) \in Nat
    BY <1>3
  <2>2. rows \in [1..Len(recent) -> View]
    BY <1>5, <2>1
  <2> QED BY <1>5, <2>1, <2>2
<1>7. first \in Tickets \union {Null}
  <2>1. recent # <<>> => recent[1] \in Tickets
    BY <1>3
  <2> QED BY <2>1
<1>8. /\ queue = [list |-> rows, filter |-> Null, picked |-> first, reply |-> Null,
                   busy |-> FALSE, loading |-> FALSE, strayed |-> FALSE]
      /\ centre = [listed |-> Filed, thread |-> Null, failed |-> FALSE, loading |-> FALSE,
                    reply |-> Null, busy |-> FALSE, dialog |-> FALSE, crossed |-> FALSE]
  BY DEF DeskPagesInit
<1> HIDE DEF rows, first
<1>9. queue \in Board /\ queue.list = rows /\ queue.reply = Null
  BY <1>6, <1>7, <1>8 DEF Board
<1>10. centre \in Centre /\ centre.listed = Filed /\ centre.thread = Null
       /\ centre.reply = Null
  BY <1>8 DEF Centre, Filed
<1>11. DeskTyped
  BY <1>3, <1>4, <1>9, <1>10, VacantTyped DEF DeskTyped
<1>12. RequestsKnow
  BY <1>4, VacantTyped DEF RequestsKnow, Known
<1>13. Lone = {}
  BY <1>4, VacantTyped DEF Lone
<1>14. Cardinality(OpenTickets) <= MaxOpen
  <2>1. OpenTickets = {t \in filed : d.tickets[t].status \notin CLOSED}
    BY <1>1, <1>2 DEF OpenTickets
  <2> QED BY <1>3, <2>1
<1>15. Cardinality(Unexcused) <= MaxOpen
  BY <1>14, UnexcusedIsFinite, DeskAssumption
<1>16. PlaceIsKept
  BY <1>13, <1>15 DEF PlaceIsKept
<1>17. AllSpokenLast
  BY <1>3 DEF AllSpokenLast, SpokenLast
<1>18. PagesKnow
  BY <1>6, <1>9, <1>10 DEF PagesKnow
<1> QED BY <1>9, <1>10, <1>11, <1>12, <1>16, <1>17, <1>18 DEF DeskParts, CentreDraft, QueueDraft

LEMMA DeskKeeps ==
  ASSUME DeskParts, DeskPagesNext
  PROVE  DeskParts'
<1>1. CASE DeskNext /\ UNCHANGED deskPageVars
  <2>1. CASE CreateElsewhere
    BY <1>1, <2>1, CreateElsewhereKeeps
  <2>2. ASSUME NEW n \in Errands,
               \/ CountOpen(n) \/ CreateTicket(n) \/ EndElsewhere(n)
               \/ (errand[n].kind # "patch" /\ FindTicket(n))
               \/ PostMessage(n) \/ UpdateStatus(n) \/ ReadThread(n)
               \/ PostStaffMessage(n) \/ MarkTicket(n) \/ ReadQueue(n) \/ Lose(n)
        PROVE  DeskParts'
    <3>1. CASE CountOpen(n)
      BY <1>1, <3>1, CountOpenKeeps
    <3>2. CASE CreateTicket(n)
      BY <1>1, <3>2, CreateTicketKeeps
    <3>3. CASE EndElsewhere(n)
      BY <1>1, <3>3, EndElsewhereKeeps
    <3>4. CASE FindTicket(n)
      <4> DEFINE where == IF tickets[errand[n].ticket].status \in CLOSED
                          THEN "failed" ELSE "append"
      <4>1. where \in {"append", "failed"}
        OBVIOUS
      <4>2. /\ errand[n].at = "find" /\ Onward(n, where)
            /\ UNCHANGED <<tickets, recent>>
        BY <3>4 DEF FindTicket
      <4> HIDE DEF where
      <4> QED BY <1>1, <4>1, <4>2, GoingOnKeeps
    <3>5. CASE PostMessage(n)
      BY <1>1, <3>5, PostMessageKeeps
    <3>6. CASE UpdateStatus(n)
      BY <1>1, <3>6, UpdateStatusKeeps
    <3>7. CASE ReadThread(n)
      BY <1>1, <3>7, ReadThreadKeeps
    <3>8. CASE PostStaffMessage(n)
      BY <1>1, <3>8, PostStaffMessageKeeps
    <3>9. CASE MarkTicket(n)
      BY <1>1, <3>9, MarkTicketKeeps
    <3>10. CASE ReadQueue(n)
      BY <1>1, <3>10, ReadQueueKeeps
    <3>11. CASE Lose(n)
      <4>1. /\ errand[n].at \notin {"idle", "listing"} /\ Onward(n, "failed")
            /\ UNCHANGED <<tickets, recent>>
        BY <3>11 DEF Lose
      <4> QED BY <1>1, <4>1, GoingOnKeeps
    <3> QED BY <2>2, <3>1, <3>2, <3>3, <3>4, <3>5, <3>6, <3>7, <3>8, <3>9, <3>10, <3>11
  <2> QED BY <1>1, <2>1, <2>2 DEF DeskNext
<1>2. ASSUME NEW t \in Tickets, OpenThread(t) PROVE DeskParts'
  BY <1>2, OpenThreadKeeps
<1>3. CASE TypeReply
  BY <1>3, TypeReplyKeeps
<1>4. CASE SubmitReply
  BY <1>4, SubmitReplyKeeps
<1>5. CASE SetStatus
  BY <1>5, SetStatusKeeps
<1>6. CASE ToggleDialog
  BY <1>6, ToggleDialogKeeps
<1>7. CASE SubmitCreate
  BY <1>7, SubmitCreateKeeps
<1>8. ASSUME NEW status \in Chosen \union {Null}, ChooseFilter(status) PROVE DeskParts'
  BY <1>8, ChooseFilterKeeps
<1>9. ASSUME NEW status \in Chosen \union {Null}, NEW withReply \in BOOLEAN,
             PatchTicket(status, withReply)
      PROVE  DeskParts'
  BY <1>9, PatchTicketKeeps
<1>10. ASSUME NEW i \in 1..Cardinality(Tickets), PickTicket(i) PROVE DeskParts'
  <2>1. Cardinality(Tickets) \in Nat
    BY DeskAssumption, FS_CardinalityType
  <2>2. i \in Nat
    BY <2>1
  <2> QED BY <1>10, <2>2, PickTicketKeeps
<1>11. CASE TypeAnswer
  BY <1>11, TypeAnswerKeeps
<1>12. ASSUME NEW n \in Errands,
              \/ CentreAnswer(n) \/ CentreListed(n) \/ CentreError(n)
              \/ QueueAnswer(n) \/ QueueError(n)
       PROVE  DeskParts'
  BY <1>12, CentreAnswerKeeps, CentreListedKeeps, CentreErrorKeeps,
     QueueAnswerKeeps, QueueErrorKeeps
<1> QED BY <1>1, <1>2, <1>3, <1>4, <1>5, <1>6, <1>7, <1>8, <1>9, <1>10, <1>11, <1>12
        DEF DeskPagesNext

(* The invariant of the support pages holds in every state.                *)
THEOREM DeskInvariance == Spec => []DeskInv
<1>1. Init => DeskInv
  BY DeskBegins DEF Init, DeskInv
<1>2. DeskInv /\ [Next]_vars => DeskInv'
  <2> SUFFICES ASSUME DeskInv, [Next]_vars, part' = "desk"
               PROVE  DeskParts'
    BY DEF DeskInv
  <2>1. CASE part = "desk" /\ DeskPagesNext
    BY <2>1, DeskKeeps DEF DeskInv
  <2>2. CASE part = "desk" /\ UNCHANGED <<deskVars, deskPageVars>>
    <3>1. DeskParts
      BY <2>2 DEF DeskInv
    <3>2. centre' \in Centre /\ queue' \in Board /\ UNCHANGED deskVars
          /\ centre' = centre /\ queue' = queue
      BY <2>2, <3>1 DEF DeskParts, DeskTyped, deskPageVars
    <3>3. /\ DeskTyped' /\ RequestsKnow' /\ PlaceIsKept' /\ AllSpokenLast'
          /\ Filed' = Filed /\ errand' = errand
      BY <3>1, <3>2, PageAlone
    <3>4. CentreDraft' /\ QueueDraft'
      BY <3>1, <3>2, <3>3, CentreLeftAlone, QueueLeftAlone
    <3>5. PagesKnow'
      BY <3>1, <3>2, <3>3 DEF DeskParts, PagesKnow
    <3> QED BY <3>3, <3>4, <3>5 DEF DeskParts
  <2>3. part = "desk"
    BY DEF Next, vars
  <2> QED BY <2>1, <2>2, <2>3 DEF Next, vars
<1> QED BY <1>1, <1>2, PTL DEF Spec

(* Tickets are counted and sorted as their requests left them: the limit   *)
(* on open tickets is passed only by creates that counted side by side and *)
(* by tickets opened again, and the queue names who spoke last unless a    *)
(* status was set by hand or a message came amid a reply of the staff.     *)
THEOREM TicketsAreCounted == Spec => []TicketsAreAccountedFor
<1>1. DeskInv => TicketsAreAccountedFor
  <2> SUFFICES ASSUME DeskInv, part = "desk" PROVE TicketsAreAccountedFor
    BY DEF TicketsAreAccountedFor, OpenCapIsBounded, QueueKnowsWhoSpokeLast
  <2>1. Unexcused = {t \in OpenTickets : ~tickets[t].excused}
    BY DEF Unexcused
  <2>2. PlaceIsKept /\ AllSpokenLast
    BY DEF DeskInv, DeskParts
  <2>3. OpenCapIsBounded
    BY <2>1, <2>2 DEF PlaceIsKept, OpenCapIsBounded
  <2>4. QueueKnowsWhoSpokeLast
    BY <2>2 DEF AllSpokenLast, SpokenLast, QueueKnowsWhoSpokeLast
  <2> QED BY <2>3, <2>4 DEF TicketsAreAccountedFor
<1> QED BY <1>1, DeskInvariance, PTL

(* What is typed under one ticket, by the user or by the staff, is on its  *)
(* way to another only where an answer was still due when it was begun, or *)
(* the thread was replaced or the selection moved by hand since.           *)
THEOREM DraftsStay == Spec => []DraftsStayWithTheirThread
<1>1. DeskInv => DraftsStayWithTheirThread
  BY DEF DeskInv, DeskParts, CentreDraft, QueueDraft, DraftsStayWithTheirThread
<1> QED BY <1>1, DeskInvariance, PTL
=============================================================================
