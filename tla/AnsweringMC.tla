----------------------------- MODULE AnsweringMC -----------------------------
(***************************************************************************)
(* What must eventually happen: a payment one account has made is applied  *)
(* (Billing with the fiat rail alone), a call it has placed is answered    *)
(* (Gateway, among all that interferes with a call), and an instance comes *)
(* to route by the rows that operators wrote last (Registry, whose loads   *)
(* and pools are checked here too).  A behaviour is about one of the       *)
(* three; the others stand still.                                          *)
(***************************************************************************)
EXTENDS Registry, TLC

CONSTANTS base, paid, spare, request, a1, o1, r1, r2

VARIABLES part,
          account, enabled, ready, logs, call,
          subs, req, orders, charges, callbacks, job, claims, chain, proof

Bill == INSTANCE Billing WITH
  Accounts <- {a1},
  Requests <- {r1, r2},
  Orders   <- {o1},
  Hashes   <- {},
  Patches  <- {},
  MaxUsed  <- 1,
  Price    <- 2,
  Quotes   <- BOOLEAN,
  Effects  <- {"good"}

(* The catalogue of GatewayMC.                                             *)
Upstream == INSTANCE Gateway WITH
  Calls        <- {request},
  Models       <- {base, paid, spare},
  Fallbacks    <- (base :> <<paid, base, spare, spare>>) @@ (paid :> <<>>) @@ (spare :> <<>>),
  MinPlan      <- (base :> "free") @@ (paid :> "unlimited") @@ (spare :> "free"),
  MaxFallbacks <- 3,
  Allocation   <- 1,
  Requested    <- {base},
  Edited       <- {base, spare},
  Rekeyed      <- {spare}

moneyVars == <<subs, req, orders, charges, callbacks, job, claims, chain, proof>>
gatewayVars == <<account, enabled, ready, logs, call>>

AnsweringInit ==
  /\ part \in {"payment", "call", "routes"}
  /\ Init /\ Upstream!Init /\ Bill!Init

AnsweringNext ==
  \/ part = "payment" /\ Bill!Next /\ UNCHANGED <<part, gatewayVars, vars>>
  \/ part = "call" /\ Upstream!Next /\ UNCHANGED <<part, moneyVars, vars>>
  \/ part = "routes" /\ Next /\ UNCHANGED <<part, moneyVars, gatewayVars>>

(* The fairness of each part.                                              *)
AnsweringSpec ==
  /\ AnsweringInit /\ [][AnsweringNext]_<<part, vars, moneyVars, gatewayVars>>
  /\ Fairness
  /\ Bill!Fairness
  /\ WF_gatewayVars(part = "call" /\ Upstream!Step(request)
                      /\ UNCHANGED <<part, moneyVars, vars>>)

(* A paid order is applied, whatever callbacks and requests are lost       *)
(* (Billing).                                                              *)
PaidOrderIsApplied == Bill!PaidOrderIsApplied

(* Every call is answered, through any number of failing links, whatever   *)
(* operators, payments and its own client do meanwhile (Gateway).          *)
CallIsAnswered == Upstream!CallIsAnswered
=============================================================================
