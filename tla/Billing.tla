------------------------------- MODULE Billing ------------------------------
(***************************************************************************)
(* The whole path from money to access: the subscription table, the fiat   *)
(* rail and the on-chain rail, running concurrently over one pool of       *)
(* requests.  This module adds no behaviour of its own; it interleaves the *)
(* steps of its three parts and states what they must achieve together.    *)
(***************************************************************************)
EXTENDS FiatRail, CryptoRail

vars == <<subs, req, orders, charges, callbacks, job, claims, chain, proof>>

ASSUME BillingAssumption == Orders \intersect Hashes = {}

(* A request slot that dies takes its locals with it, never a row.         *)
LoseRequest(r) ==
  /\ Lose(r)
  /\ job' = [job EXCEPT ![r] = NoJob]
  /\ proof' = [proof EXCEPT ![r] = NoProof]
  /\ UNCHANGED <<orders, charges, callbacks, claims, chain>>

Init == SubInit /\ FiatInit /\ CryptoInit

Next ==
  \/ SubNext /\ UNCHANGED <<fiatVars, cryptoVars>>
  \/ FiatNext /\ UNCHANGED cryptoVars
  \/ CryptoNext /\ UNCHANGED fiatVars
  \/ \E r \in Requests : LoseRequest(r)

Spec == Init /\ [][Next]_vars

-----------------------------------------------------------------------------
(* Every row and every suspended request has the shape the code gives it.  *)
TypeOK == SubTypeOK /\ FiatTypeOK /\ CryptoTypeOK

(* Payments whose appliedAt is set, of either rail.                        *)
Unlimited(a) == subs[a] # Null /\ subs[a].unlimited
AppliedOrder(o) == orders[o] # Null /\ orders[o].applied
AppliedHash(h) == claims[h] # Null /\ claims[h].applied

(* "Exactly one write path": an account is permanently unlimited exactly   *)
(* when some payment of its own has been applied, whatever rollovers,      *)
(* debits and operator edits ran in between (plans.ts, accounting.ts).     *)
UnlimitedIffApplied ==
  \A a \in Accounts :
    Unlimited(a) <=> \/ \E o \in Orders : AppliedOrder(o) /\ orders[o].owner = a
                     \/ \E h \in Hashes : AppliedHash(h) /\ claims[h].owner = a

(* A fiat order grants access only if the provider really collected the    *)
(* order's amount, however late, repeated or overtaken the callback that   *)
(* said so was (evaluateCallback's amount and status tests).               *)
FiatGrantIsBacked ==
  \A o \in Orders :
    AppliedOrder(o) => charges[o].exact /\ charges[o].status \in {"paid", "refund"}

(* A hash grants access only if its transaction is final and moved the     *)
(* full amount to the recipient, whatever the node said before.            *)
CryptoGrantIsBacked ==
  \A h \in Hashes :
    AppliedHash(h) => chain[h].stage = "final" /\ chain[h].effect = "good"

(* A payment that was closed without being paid never grants access later: *)
(* a late or replayed verdict finds the row settled (the conditional       *)
(* UPDATE of the two activation transactions).                             *)
ClosedPaymentNeverGrants ==
  [][/\ \A o \in Orders :
          orders[o] # Null /\ orders[o].status # "pending" =>
            orders'[o].applied = orders[o].applied
     /\ \A h \in Hashes :
          claims[h] # Null /\ claims[h].status # "pending" =>
            claims'[h].applied = claims[h].applied]_vars

(* A transaction hash belongs to whoever claimed it first, for good: two   *)
(* accounts racing for one hash never both own it (payments.txHash UNIQUE, *)
(* claimTxHash).                                                           *)
HashKeepsItsOwner ==
  [][\A h \in Hashes :
       claims[h] # Null => claims'[h] # Null /\ claims'[h].owner = claims[h].owner]_vars

(* A claim is closed for good on the final state of its transaction: it    *)
(* did not pay us in full, or it is too old.  Whatever a lagging node      *)
(* answers on the way, `not found', a mempool entry or too few             *)
(* confirmations never burns a payment (crypto/rules.ts, `wait').  Two     *)
(* reasons are not covered: `reverted', which the code tests before it     *)
(* counts confirmations, and `rpc_chain_mismatch', which a node of another *)
(* chain brings about at any stage (see PaymentIsNotBurnt).                *)
ClaimClosesOnFinalTruth ==
  [][\A h \in Hashes :
       /\ claims[h] # Null /\ claims[h].status = "pending"
       /\ claims'[h].status = "failed"
       /\ claims'[h].reason \notin {"reverted", "rpc_chain_mismatch"}
       => chain[h].stage = "final" /\ (chain[h].effect # "good" \/ chain[h].old)]_vars

(* The refinement: an entitled account is an unlimited row, and a payment  *)
(* is spent once it is applied.                                            *)
Evidence == Orders \union Hashes

Spent == [e \in Evidence |->
  IF e \in Orders THEN IF AppliedOrder(e) THEN orders[e].owner ELSE Null
  ELSE IF AppliedHash(e) THEN claims[e].owner ELSE Null]

Promise == INSTANCE Entitlement
             WITH entitled <- {a \in Accounts : Unlimited(a)}, spent <- Spent

(* Billing implements Entitlement: every step either grants one account    *)
(* access for one unspent payment or changes nothing the promise sees.     *)
GrantsOncePerPayment == Promise!Spec

-----------------------------------------------------------------------------
(* Liveness.  The provider repeats a callback until it is answered with a  *)
(* 200 and the order page polls, so a settled order is offered to the gate *)
(* again and again; strong fairness says that not every attempt is cut     *)
(* short by a lost request or a busy server.  Every network await has a    *)
(* timeout, so a request that gets nowhere ends and frees its slot.        *)

Offer(r, o) == \E event \in callbacks : event.order = o /\ event.status = "paid"
                                          /\ CallbackArrives(r, event)

Fairness ==
  \A r \in Requests :
    /\ WF_vars(LoseRequest(r))
    /\ \A o \in Orders : SF_vars(Offer(r, o) /\ UNCHANGED cryptoVars)
    /\ SF_vars(ApplyActivate(r) /\ UNCHANGED cryptoVars)

FairSpec == Spec /\ Fairness

(* An open order the provider has collected in full is eventually applied, *)
(* unless the money is refunded first: callbacks that are lost, repeated,  *)
(* overtaken or processed by a request that dies delay access and never    *)
(* deny it (webhook route, getPaymentForUser).                             *)
PaidOrderIsApplied ==
  \A o \in Orders :
    (/\ orders[o] # Null /\ orders[o].status = "pending" /\ orders[o].bound
     /\ charges[o] = [status |-> "paid", exact |-> TRUE])
    ~> (AppliedOrder(o) \/ charges[o].status = "refund")

-----------------------------------------------------------------------------
(* What comments of the code say, and what two requests of one account, or *)
(* one node of several, can make of it: each refuted by a run of its own.  *)

(* "An already-settled order is never rewritten" (rules.ts): neither the   *)
(* status nor the reason of a settled order changes.                       *)
SettledOrderNeverRewritten ==
  [][\A o \in Orders :
       orders[o] # Null /\ orders[o].status # "pending" =>
         /\ orders'[o].status = orders[o].status
         /\ orders'[o].reason = orders[o].reason]_vars

(* "A lagging or load-balanced RPC endpoint must not be able to            *)
(* permanently burn a real payment" (crypto/rules.ts): while a transaction *)
(* stands confirmed in our favour, its claim was not closed for another    *)
(* reason than its age.                                                    *)
PaymentIsNotBurnt ==
  \A h \in Hashes :
    /\ claims[h] # Null /\ claims[h].status = "failed" /\ claims[h].reason # "too_old"
    => ~(chain[h].stage = "final" /\ chain[h].effect = "good")
=============================================================================
