------------------------------ MODULE OfferCard ------------------------------
(***************************************************************************)
(* The QRIS card of the subscription page (unlimited-offer.tsx): the       *)
(* checkout, the poll loop over the pending order, and the toast of its    *)
(* activation.  The server is what startUnlimitedCheckout and              *)
(* getPaymentForUser promise (Billing has their insides): a checkout reads *)
(* the open order before it answers, and a paid order is applied.          *)
(***************************************************************************)
EXTENDS Integers, FiniteSets, Absent

CONSTANTS
  Orders,      \* bound: orders ever created
  Reads,       \* bound: polls under way at once
  MaxPolls     \* the ceiling on the loop, 150 in the code

VARIABLES
  order,       \* order[o]: the row's status, or Null
  late,        \* the orders whose expiresAt has passed
  card,        \* the state of the component
  read,        \* read[r]: a poll under way, or Null
  checkout     \* the checkout under way, or Null

offerVars == <<order, late, card, read, checkout>>

OrderStatuses == {"pending", "paid", "failed"}
Payment == [order : Orders, status : OrderStatuses]

(* toasts and resumed are history: the activations announced, and whether  *)
(* a checkout answered with an order the page had announced.               *)
Card == [payment   : Payment \union {Null},
         busy      : BOOLEAN,
         announced : BOOLEAN,
         ticks     : 0..MaxPolls,
         receipt   : BOOLEAN,                 \* rendered as already paid
         toasts    : [Orders -> 0..3],
         resumed   : BOOLEAN]

Poll == [order : Orders, answer : OrderStatuses \union {Null}]
Checkout == [at : {"sent", "charge", "answer", "refused"}, payment : Payment \union {Null}]

PendingOf(payment) ==
  IF payment # Null /\ payment.status = "pending" THEN payment.order ELSE Null
PendingOrder == PendingOf(card.payment)
Expired == card.payment # Null /\ card.payment.order \in late
ShowQr == PendingOrder # Null /\ ~Expired
Applied == {o \in Orders : order[o] = "paid"}

ASSUME OfferAssumption == Null \notin Orders /\ MaxPolls \in Nat

-----------------------------------------------------------------------------
(* The page.                                                               *)

(* settle: the effect over the pending order is torn down when it is       *)
(* another one, and takes its polls with it.                               *)
Settle(payment, announced) ==
  LET tell == payment.status = "paid" /\ ~announced IN
  [card EXCEPT !.payment = payment,
               !.announced = announced \/ tell,
               !.toasts = IF tell THEN [card.toasts EXCEPT ![payment.order] = @ + 1] ELSE @]

(* Fault: the polls of an effect that was torn down are heeded.            *)
TornDownNever(payment) == read

TornDown(payment) ==
  IF PendingOf(payment) = PendingOrder THEN read ELSE [r \in Reads |-> Null]

PollTick(r) ==
  /\ PendingOrder # Null /\ read[r] = Null /\ card.ticks < MaxPolls
  /\ card' = [card EXCEPT !.ticks = @ + 1]
  /\ read' = [read EXCEPT ![r] = [order |-> PendingOrder, answer |-> Null]]
  /\ UNCHANGED <<order, late, checkout>>

(* A failed read is dropped: the next tick retries.                        *)
ReadFails(r) ==
  /\ read[r] # Null
  /\ read' = [read EXCEPT ![r] = Null]
  /\ UNCHANGED <<order, late, card, checkout>>

ReadAnswers(r) ==
  /\ read[r] # Null /\ read[r].answer # Null
  /\ LET payment == [order |-> read[r].order, status |-> read[r].answer] IN
       /\ card' = Settle(payment, card.announced)
       /\ read' = [TornDown(payment) EXCEPT ![r] = Null]
  /\ UNCHANGED <<order, late, checkout>>

StartCheckout ==
  /\ ~card.busy /\ ~ShowQr /\ ~card.receipt
  /\ checkout' = [at |-> "sent", payment |-> Null]
  /\ card' = [card EXCEPT !.busy = TRUE]
  /\ UNCHANGED <<order, late, read>>

CheckoutAnswers ==
  /\ checkout # Null /\ checkout.at = "answer"
  /\ card' = [Settle(checkout.payment, FALSE) EXCEPT
                !.ticks = 0, !.busy = FALSE,
                !.resumed = @ \/ card.toasts[checkout.payment.order] > 0]
  /\ read' = TornDown(checkout.payment)
  /\ checkout' = Null
  /\ UNCHANGED <<order, late>>

CheckoutFails ==
  /\ checkout # Null /\ checkout.at = "refused"
  /\ card' = [card EXCEPT !.busy = FALSE]
  /\ checkout' = Null
  /\ UNCHANGED <<order, late, read>>

(* router.refresh: the server tree says the account has paid.              *)
RouterRefresh ==
  /\ \E o \in Orders : card.toasts[o] > 0
  /\ Applied # {} /\ ~card.receipt
  /\ card' = [card EXCEPT !.receipt = TRUE]
  /\ UNCHANGED <<order, late, read, checkout>>

-----------------------------------------------------------------------------
(* The server.                                                             *)

(* startUnlimitedCheckout refuses an account that is unlimited, resumes an *)
(* open order (whose window may have passed), or creates one.              *)
ReadOpenOrder ==
  /\ checkout # Null /\ checkout.at = "sent"
  /\ \/ /\ Applied # {}
        /\ checkout' = [checkout EXCEPT !.at = "refused"]
     \/ /\ Applied = {}
        /\ \E o \in Orders \ late :
             /\ order[o] = "pending"
             /\ checkout' = [at |-> "answer", payment |-> [order |-> o, status |-> "pending"]]
     \/ /\ Applied = {}
        /\ checkout' = [checkout EXCEPT !.at = "charge"]
  /\ UNCHANGED <<order, late, card, read>>

CreateOrder ==
  /\ checkout # Null /\ checkout.at = "charge"
  /\ \E o \in Orders :
       /\ order[o] = Null
       /\ \/ /\ order' = [order EXCEPT ![o] = "pending"]
             /\ checkout' = [at |-> "answer", payment |-> [order |-> o, status |-> "pending"]]
          \/ /\ order' = [order EXCEPT ![o] = "failed"]
             /\ checkout' = [checkout EXCEPT !.at = "refused"]
  /\ UNCHANGED <<late, card, read>>

(* The answer is lost, with the order in place or not.                     *)
LoseCheckout ==
  /\ checkout # Null /\ checkout.at = "answer"
  /\ checkout' = [checkout EXCEPT !.at = "refused"]
  /\ UNCHANGED <<order, late, card, read>>

ServeRead(r) ==
  /\ read[r] # Null /\ read[r].answer = Null
  /\ read' = [read EXCEPT ![r].answer = order[read[r].order]]
  /\ UNCHANGED <<order, late, card, checkout>>

(* The provider's callback, or the reconciliation of a read.               *)
SettleOrder(o) ==
  /\ order[o] = "pending"
  /\ \E status \in {"paid", "failed"} : order' = [order EXCEPT ![o] = status]
  /\ UNCHANGED <<late, card, read, checkout>>

Lapse(o) ==
  /\ order[o] # Null /\ o \notin late
  /\ late' = late \union {o}
  /\ UNCHANGED <<order, card, read, checkout>>

(* offer.latestPayment: nothing, or the latest order.                      *)
OfferInit ==
  /\ \E latest \in {Null} \union Orders, status \in {"pending", "failed"} :
       /\ order = [o \in Orders |-> IF o = latest THEN status ELSE Null]
       /\ card = [payment |-> IF latest = Null THEN Null
                              ELSE [order |-> latest, status |-> status],
                  busy |-> FALSE, announced |-> FALSE, ticks |-> 0, receipt |-> FALSE,
                  toasts |-> [o \in Orders |-> 0], resumed |-> FALSE]
  /\ late = {}
  /\ read = [r \in Reads |-> Null]
  /\ checkout = Null

OfferNext ==
  \/ \E r \in Reads : PollTick(r) \/ ReadFails(r) \/ ReadAnswers(r) \/ ServeRead(r)
  \/ StartCheckout \/ CheckoutAnswers \/ CheckoutFails \/ RouterRefresh
  \/ ReadOpenOrder \/ CreateOrder \/ LoseCheckout
  \/ \E o \in Orders : SettleOrder(o) \/ Lapse(o)
=============================================================================
