------------------------------ MODULE FiatRail ------------------------------
(***************************************************************************)
(* The QRIS rail of src/src/server/services/payment-service.ts: the        *)
(* checkout that opens an order at the payment provider, the provider's    *)
(* signed callbacks, the reconcile poll, and applyVerifiedPayment, the     *)
(* gate both of them go through.                                           *)
(*                                                                         *)
(* Three parties interleave.  Requests (checkout, callback, poll) run on   *)
(* the application and suspend at every database or network call.  The     *)
(* provider settles the charge on its own, and each change of a charge is  *)
(* announced by a callback.  Callbacks are kept in a set that never        *)
(* shrinks: one can be delivered late, twice, after a newer one, or never. *)
(***************************************************************************)
EXTENDS Subscriptions

CONSTANTS
  Orders,        \* order ids (merchant_ref); newOrderId never repeats one
  Price,         \* UNLIMITED_PRICE_IDR
  Quotes         \* {TRUE}, or BOOLEAN: the provider may quote another amount

VARIABLES
  orders,        \* orders[o]: the fiat payments row of order o, or Null
  charges,       \* charges[o]: the charge at the provider for order o
  callbacks,     \* the events the provider has announced
  job            \* job[r]: the order and the event request r is working on

fiatVars == <<orders, charges, callbacks, job>>

FiatReasons == {"none", "provider_create_failed", "provider_amount_mismatch",
                "amount_mismatch", "reference_mismatch", "provider_status"}

(* `bound': the reference and the QR of the charge are stored.  `fresh':   *)
(* inside the reuse window and before the provider's expiry.      *)
Order == [owner   : Accounts,
          status  : PaymentStatuses,
          bound   : BOOLEAN,
          fresh   : BOOLEAN,
          reason  : FiatReasons,
          applied : BOOLEAN]

(* The provider's own status of a charge; `exact' is false when it quoted  *)
(* or collected another amount than the order asked for.                   *)
Charge == [status : {"none", "sent", "refused", "unpaid", "paid", "expired", "failed",
                     "refund"},
           exact  : BOOLEAN]

(* A verified callback.  The provider's reference is unique to its charge, *)
(* so the order id stands for it.                                          *)
Event == [order : Orders, status : PaymentStatuses, exact : BOOLEAN]

Job == [order : Orders \union {Null}, event : Event \union {Null},
        reason : FiatReasons]

NoJob == [order |-> Null, event |-> Null, reason |-> "none"]

ASSUME FiatAssumption ==
  /\ Null \notin Orders /\ Null \notin Order /\ Null \notin Event
  /\ Price \in Nat \ {0}
  /\ Quotes \subseteq BOOLEAN

-----------------------------------------------------------------------------
(* Helpers.                                                                *)

NewOrder(a) == [owner |-> a, status |-> "pending", bound |-> FALSE,
                fresh |-> TRUE, reason |-> "none", applied |-> FALSE]

(* What startUnlimitedCheckout may hand out again instead of a new order.  *)
Reusable(a) ==
  {o \in Orders : /\ orders[o] # Null
                  /\ orders[o].owner = a
                  /\ orders[o].status = "pending"
                  /\ orders[o].bound /\ orders[o].fresh}

(* Faults: the provider's UNPAID is passed on as it is; what is not paid   *)
(* counts as failed.                                                       *)
ReportedRaw(status) == status

ReportedFailed(status) == IF status = "unpaid" THEN "failed" ELSE status

(* normaliseStatus of the provider's status.                               *)
Reported(status) == IF status = "unpaid" THEN "pending" ELSE status

EventOf(o) == [order |-> o, status |-> Reported(charges[o].status),
               exact |-> charges[o].exact]

(* The row and the event in the form evaluateCallback takes them.          *)
Snapshot(o) ==
  IF orders[o] = Null THEN Null
  ELSE [provider  |-> "tripay",
        reference |-> IF orders[o].bound THEN o ELSE Null,
        amount    |-> Price,
        status    |-> orders[o].status]

CallbackOf(event) ==
  [reference |-> event.order,
   status    |-> event.status,
   amountIdr |-> IF event.exact THEN Price ELSE Price - 1]

SetJob(r, o, event, reason) ==
  job' = [job EXCEPT ![r] = [order |-> o, event |-> event, reason |-> reason]]

EndJob(r) == Finish(r) /\ job' = [job EXCEPT ![r] = NoJob]

-----------------------------------------------------------------------------
(* startUnlimitedCheckout.  ensureSubscription has returned the row.      *)

CheckoutBegin(r, a) ==
  /\ EnsureRead(r, a, "checkout")
  /\ UNCHANGED fiatVars

(* Refuse a paid account, resume an open order, or go on to a new one.     *)
CheckoutLookup(r) ==
  /\ req[r].at = "ensured" /\ req[r].op = "checkout"
  /\ IF req[r].paid \/ Reusable(req[r].who) # {}
       THEN Finish(r)
       ELSE Goto(r, "new")
  /\ UNCHANGED <<subs, fiatVars>>

(* payment.create, and the create request sent to the provider.            *)
CheckoutCreate(r, o) ==
  /\ req[r].at = "new"
  /\ orders[o] = Null
  /\ orders' = [orders EXCEPT ![o] = NewOrder(req[r].who)]
  /\ charges' = [charges EXCEPT ![o].status = "sent"]
  /\ SetJob(r, o, Null, "none")
  /\ Goto(r, "charge")
  /\ UNCHANGED <<subs, callbacks>>

(* The provider answered and the charge is bound to the order, unless it   *)
(* was quoted at another amount.  Both writes are by `where: { id }'.      *)
CheckoutBind(r) ==
  LET o == job[r].order IN
  /\ req[r].at = "charge"
  /\ charges[o].status \notin {"sent", "refused"}
  /\ orders' = [orders EXCEPT ![o] =
       IF charges[o].exact
         THEN [@ EXCEPT !.bound = TRUE]
         ELSE [@ EXCEPT !.status = "failed", !.reason = "provider_amount_mismatch"]]
  /\ EndJob(r)
  /\ UNCHANGED <<subs, charges, callbacks>>

(* createCharge threw: refused, unreadable, or no answer within 20 s.  The *)
(* provider may have opened the charge all the same.                       *)
CheckoutFail(r) ==
  LET o == job[r].order IN
  /\ req[r].at = "charge"
  /\ orders' = [orders EXCEPT ![o] = [@ EXCEPT !.status = "failed",
                                            !.reason = "provider_create_failed"]]
  /\ EndJob(r)
  /\ UNCHANGED <<subs, charges, callbacks>>

-----------------------------------------------------------------------------
(* The provider and time.                                                  *)

ProviderOpens(o, exact) ==
  /\ charges[o].status = "sent"
  /\ charges' = [charges EXCEPT ![o] = [status |-> "unpaid", exact |-> exact]]
  /\ callbacks' = callbacks \union
       {[order |-> o, status |-> "pending", exact |-> exact]}
  /\ UNCHANGED <<subs, req, orders, job>>

ProviderRefuses(o) ==
  /\ charges[o].status = "sent"
  /\ charges' = [charges EXCEPT ![o].status = "refused"]
  /\ UNCHANGED <<subs, req, orders, callbacks, job>>

(* An unpaid charge is paid, lapses or fails; a paid one may be refunded.  *)
ProviderSettles(o, status) ==
  /\ \/ charges[o].status = "unpaid" /\ status \in {"paid", "expired", "failed"}
     \/ charges[o].status = "paid" /\ status = "refund"
  /\ charges' = [charges EXCEPT ![o].status = status]
  /\ callbacks' = callbacks \union
       {[order |-> o, status |-> status, exact |-> charges[o].exact]}
  /\ UNCHANGED <<subs, req, orders, job>>

OrderAges(o) ==
  /\ orders[o] # Null /\ orders[o].fresh
  /\ orders' = [orders EXCEPT ![o].fresh = FALSE]
  /\ UNCHANGED <<subs, req, charges, callbacks, job>>

-----------------------------------------------------------------------------
(* applyVerifiedPayment, first half: read the row and decide.  The event   *)
(* comes from the webhook, or from getPaymentForUser asking the provider   *)
(* about a pending order whose reference is known.  An event is only ever  *)
(* older than the charge, so reading the row in the step that brings the   *)
(* event loses no interleaving: a later read is a later delivery.          *)

ApplyVerified(r, event) ==
  LET o       == event.order
      before  == Snapshot(o)
      verdict == EvaluateCallback(before, CallbackOf(event), "tripay")
  IN CASE verdict.action = "activate" ->
            Goto(r, "activate") /\ SetJob(r, o, event, "none")
       [] verdict.action = "mark_failed" ->
            Goto(r, "mark") /\ SetJob(r, o, event, "none")
       [] verdict.action = "reject" /\ before # Null /\ before.status = "pending" ->
            Goto(r, "stamp") /\ SetJob(r, o, event, verdict.reason)
       [] OTHER -> EndJob(r)

CallbackArrives(r, event) ==
  /\ req[r].at = "idle"
  /\ ApplyVerified(r, event)
  /\ UNCHANGED <<subs, orders, charges, callbacks>>

PollBegin(r, o) ==
  /\ req[r].at = "idle"
  /\ orders[o] # Null /\ orders[o].status = "pending" /\ orders[o].bound
  /\ Goto(r, "poll")
  /\ SetJob(r, o, Null, "none")
  /\ UNCHANGED <<subs, orders, charges, callbacks>>

PollAnswer(r) ==
  LET o == job[r].order IN
  /\ req[r].at = "poll"
  /\ IF Reported(charges[o].status) = "pending"
       THEN EndJob(r)
       ELSE ApplyVerified(r, EventOf(o))
  /\ UNCHANGED <<subs, orders, charges, callbacks>>

-----------------------------------------------------------------------------
(* applyVerifiedPayment, second half: the write.                           *)

(* The rejected branch's update is by `where: { id }' alone.               *)
ApplyReject(r) ==
  LET o == job[r].order IN
  /\ req[r].at = "stamp"
  /\ orders' = [orders EXCEPT ![o].reason = job[r].reason]
  /\ EndJob(r)
  /\ UNCHANGED <<subs, charges, callbacks>>

ApplyFailure(r) ==
  LET o == job[r].order IN
  /\ req[r].at = "mark"
  /\ orders' = IF orders[o].status = "pending"
                 THEN [orders EXCEPT ![o] = [@ EXCEPT !.status = job[r].event.status,
                                                   !.reason = "provider_status"]]
                 ELSE orders
  /\ EndJob(r)
  /\ UNCHANGED <<subs, charges, callbacks>>

(* Fault: the claiming update is by `where: { id }' alone.                 *)
ApplyActivateUnguarded(r) ==
  LET o == job[r].order IN
  /\ req[r].at = "activate"
  /\ orders' = [orders EXCEPT ![o] = [@ EXCEPT !.status = "paid", !.applied = TRUE]]
  /\ GrantUnlimited(orders[o].owner)
  /\ EndJob(r)
  /\ UNCHANGED <<charges, callbacks>>

(* One transaction: claim the row while it is pending, grant, mark applied.*)
ApplyActivate(r) ==
  LET o == job[r].order IN
  /\ req[r].at = "activate"
  /\ IF orders[o].status = "pending"
       THEN /\ orders' = [orders EXCEPT ![o] =
                 [@ EXCEPT !.status = "paid", !.bound = TRUE,
                           !.reason = "none", !.applied = TRUE]]
            /\ GrantUnlimited(orders[o].owner)
       ELSE UNCHANGED <<orders, subs>>
  /\ EndJob(r)
  /\ UNCHANGED <<charges, callbacks>>

-----------------------------------------------------------------------------
FiatInit ==
  /\ orders    = [o \in Orders |-> Null]
  /\ charges   = [o \in Orders |-> [status |-> "none", exact |-> TRUE]]
  /\ callbacks = {}
  /\ job       = [r \in Requests |-> NoJob]

CheckoutNext ==
  \/ \E r \in Requests, a \in Accounts : CheckoutBegin(r, a)
  \/ \E r \in Requests, o \in Orders : CheckoutCreate(r, o)
  \/ \E r \in Requests : CheckoutLookup(r) \/ CheckoutBind(r) \/ CheckoutFail(r)

ProviderNext ==
  \E o \in Orders :
    \/ \E exact \in Quotes : ProviderOpens(o, exact)
    \/ ProviderRefuses(o)
    \/ \E status \in PaymentStatuses : ProviderSettles(o, status)
    \/ OrderAges(o)

ApplyNext ==
  \/ \E r \in Requests, event \in callbacks : CallbackArrives(r, event)
  \/ \E r \in Requests, o \in Orders : PollBegin(r, o)
  \/ \E r \in Requests : \/ PollAnswer(r) \/ ApplyReject(r)
                         \/ ApplyFailure(r) \/ ApplyActivate(r)

FiatNext == CheckoutNext \/ ProviderNext \/ ApplyNext

-----------------------------------------------------------------------------
FiatTypeOK ==
  /\ orders    \in [Orders -> Order \union {Null}]
  /\ charges   \in [Orders -> Charge]
  /\ callbacks \subseteq Event
  /\ job       \in [Requests -> Job]
=============================================================================
