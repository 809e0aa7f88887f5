--------------------------- MODULE TransactionLife ---------------------------
(***************************************************************************)
(* evaluateCryptoTransaction along the life of one transaction, read again *)
(* and again through nodes that need not agree.  The transaction gets its  *)
(* final effect at some moment, or never.  Until then, and for nodes that  *)
(* lag after it, branches of the chain may include it with any effect, but *)
(* none is MinConfirmations blocks deep; a node may not know it, hold it   *)
(* in its mempool, be unable to read the block's time, or serve another    *)
(* chain altogether, where the code stops before it interprets anything.   *)
(***************************************************************************)
EXTENDS PaymentRules

CONSTANTS
  MinConfirmations, Required, MaxAge,   \* the expectation
  MaxNow                                \* bound on the clock

VARIABLES
  signed,        \* the chain id in the transaction, or Null if it has none
  final,         \* its effect on the chain we expect, once that is final
  observed,      \* what verifyTransaction returned last
  now,           \* the clock
  rulings          \* history: how the readings so far settled a claim

transactionVars == <<signed, final, observed, now, rulings>>

ASSUME TransactionAssumption ==
  MinConfirmations \in Nat /\ Required \in Nat /\ MaxAge \in Nat /\ MaxNow \in Nat

Expected == [chainId |-> 1, minConfirmations |-> MinConfirmations,
             required |-> Required, maxAgeMs |-> MaxAge]

Unseen == [chainId |-> 1, found |-> FALSE, txChainId |-> Null, mined |-> FALSE,
           succeeded |-> FALSE, confirmations |-> 0, minedAt |-> Null,
           received |-> 0, otherAssetReceived |-> FALSE]

Elsewhere == [Unseen EXCEPT !.chainId = 2]

Pooled == [Unseen EXCEPT !.found = TRUE, !.txChainId = signed]

(* What an inclusion may have done, and how deep a node may see it.  Two   *)
(* counts on either side of the boundary stand for all.                    *)
Effects == [succeeded : BOOLEAN, received : 0 .. Required, other : BOOLEAN]
Shallow == {c \in {MinConfirmations - 2, MinConfirmations - 1} : c > 0}
Deep == {MinConfirmations, MinConfirmations + 1}

Included(effect, confirmations, minedAt) ==
  [Pooled EXCEPT !.mined = TRUE, !.succeeded = effect.succeeded,
                 !.received = effect.received, !.otherAssetReceived = effect.other,
                 !.confirmations = confirmations, !.minedAt = minedAt]

Decision == EvaluateCryptoTransaction(observed, Expected, now)

(* Where a reading places the transaction.                                 *)
Place(seen) ==
  IF seen.chainId # 1 THEN "elsewhere"
  ELSE IF ~seen.mined THEN "outside"
  ELSE IF seen.confirmations < MinConfirmations THEN "branch"
  ELSE IF seen.minedAt = Null THEN "undated" ELSE "dated"

TransactionInit ==
  /\ signed \in {Null, 1, 2}
  /\ final = Null
  /\ observed = Unseen
  /\ now = 0
  /\ rulings = {}

(* Only a transaction that is not signed for another chain is included.    *)
Finalise ==
  /\ final = Null /\ signed # 2
  /\ \E effect \in Effects : final' = [effect |-> effect, minedAt |-> now]
  /\ UNCHANGED <<signed, observed, now, rulings>>

Answers(seen) ==
  /\ observed' = seen
  /\ LET decision == EvaluateCryptoTransaction(seen, Expected, now) IN
       rulings' = IF decision.action = "wait" THEN rulings
                ELSE rulings \union {[reason |-> decision.reason, place |-> Place(seen)]}
  /\ UNCHANGED <<signed, final, now>>

ReadOutside == Answers(Elsewhere) \/ Answers(Unseen) \/ Answers(Pooled)

ReadBranch ==
  /\ signed # 2
  /\ \E effect \in Effects, c \in Shallow : Answers(Included(effect, c, 0))

ReadFinal ==
  /\ final # Null
  /\ \E c \in Deep, t \in {Null, final.minedAt} :
       Answers(Included(final.effect, c, t))

Age ==
  /\ now < MaxNow
  /\ now' = now + 1
  /\ UNCHANGED <<signed, final, observed, rulings>>

TransactionNext == Finalise \/ ReadOutside \/ ReadBranch \/ ReadFinal \/ Age

=============================================================================
