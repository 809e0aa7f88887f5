---------------------------- MODULE PaymentRules ----------------------------
(***************************************************************************)
(* The two pure decision functions every payment passes through:           *)
(* evaluateCallback (src/src/lib/payments/rules.ts) for the fiat rail and  *)
(* evaluateCryptoTransaction (src/src/lib/payments/crypto/rules.ts) for    *)
(* the on-chain rail.  Each is a list of early returns and is written here *)
(* as one: the order of the tests decides which reason wins.               *)
(*                                                                         *)
(* Amounts are natural numbers of the unit the rail counts in, times are   *)
(* natural numbers of milliseconds, and `Null' is an absent value.         *)
(***************************************************************************)
EXTENDS Integers, Absent

PaymentStatuses == {"pending", "paid", "failed", "expired", "refund"}

-----------------------------------------------------------------------------
(* Fiat callbacks.                                                         *)

(* What a callback (or an equivalent status read) makes the service do.    *)
CallbackActions == {"activate", "mark_failed", "ignore", "reject"}

Verdict(action, reason) == [action |-> action, reason |-> reason]

(* Fault a run must notice: the amount is not compared.                    *)
EvaluateCallbackAnyAmount(payment, event, providerId) ==
  IF payment = Null \/ payment.provider # providerId
    THEN Verdict("reject", "unknown_order")
  ELSE IF payment.status # "pending" \/ event.status = "pending"
    THEN Verdict("ignore", "already_settled")
  ELSE IF event.status # "paid"
    THEN Verdict("mark_failed", "provider_status")
  ELSE Verdict("activate", "paid")

EvaluateCallback(payment, event, providerId) ==
  IF payment = Null
    THEN Verdict("reject", "unknown_order")
  ELSE IF payment.provider # providerId
    THEN Verdict("reject", "provider_mismatch")
  ELSE IF payment.reference # Null /\ payment.reference # event.reference
    THEN Verdict("reject", "reference_mismatch")
  ELSE IF payment.status # "pending"
    THEN Verdict("ignore", "already_settled")
  ELSE IF event.status = "pending"
    THEN Verdict("ignore", "not_settled_yet")
  ELSE IF event.status # "paid"
    THEN Verdict("mark_failed", "provider_status")
  ELSE IF event.amountIdr # payment.amount
    THEN Verdict("reject", "amount_mismatch")
  ELSE Verdict("activate", "paid")

IsTerminalFailure(status) == status \in {"failed", "expired", "refund"}

-----------------------------------------------------------------------------
(* On-chain transactions.                                                  *)

CryptoActions == {"activate", "wait", "reject"}

(* CRYPTO_MESSAGES: the whole vocabulary a payer can be shown.             *)
CryptoMessages ==
  {"unverifiable", "wrongNetwork", "wrongRecipient", "wrongAsset",
   "insufficient", "alreadyUsed", "notConfirmed", "tooOld", "confirmed"}

CryptoVerdict(action, reason, message) ==
  [action |-> action, reason |-> reason, message |-> message]

TooOld(observed, expected, now) ==
  /\ expected.maxAgeMs > 0
  /\ observed.minedAt # Null
  /\ now - observed.minedAt > expected.maxAgeMs

(* Faults: confirmations are not required; the receipt is judged before    *)
(* the transaction is known to be mined; confirmations are compared with = *)
EvaluateCryptoUnconfirmed(observed, expected, now) ==
  IF ~observed.mined
    THEN CryptoVerdict("wait", "unmined", "notConfirmed")
  ELSE IF ~observed.succeeded
    THEN CryptoVerdict("reject", "reverted", "unverifiable")
  ELSE IF observed.received < expected.required
    THEN CryptoVerdict("reject", "insufficient_amount", "insufficient")
  ELSE CryptoVerdict("activate", "paid", "confirmed")

EvaluateCryptoHastily(observed, expected, now) ==
  IF observed.chainId # expected.chainId
    THEN CryptoVerdict("reject", "rpc_chain_mismatch", "unverifiable")
  ELSE IF ~observed.found
    THEN CryptoVerdict("wait", "not_found", "unverifiable")
  ELSE IF ~observed.succeeded
    THEN CryptoVerdict("reject", "reverted", "unverifiable")
  ELSE IF observed.confirmations < expected.minConfirmations
    THEN CryptoVerdict("wait", "unconfirmed", "notConfirmed")
  ELSE IF observed.received < expected.required
    THEN CryptoVerdict("reject", "insufficient_amount", "insufficient")
  ELSE CryptoVerdict("activate", "paid", "confirmed")

EvaluateCryptoExactly(observed, expected, now) ==
  IF ~observed.mined
    THEN CryptoVerdict("wait", "unmined", "notConfirmed")
  ELSE IF ~observed.succeeded
    THEN CryptoVerdict("reject", "reverted", "unverifiable")
  ELSE IF observed.confirmations # expected.minConfirmations
    THEN CryptoVerdict("wait", "unconfirmed", "notConfirmed")
  ELSE IF observed.received < expected.required
    THEN CryptoVerdict("reject", "insufficient_amount", "insufficient")
  ELSE CryptoVerdict("activate", "paid", "confirmed")

EvaluateCryptoTransaction(observed, expected, now) ==
  IF observed.chainId # expected.chainId
    THEN CryptoVerdict("reject", "rpc_chain_mismatch", "unverifiable")
  ELSE IF ~observed.found
    THEN CryptoVerdict("wait", "not_found", "unverifiable")
  ELSE IF observed.txChainId # Null /\ observed.txChainId # expected.chainId
    THEN CryptoVerdict("reject", "wrong_network", "wrongNetwork")
  ELSE IF ~observed.mined
    THEN CryptoVerdict("wait", "unmined", "notConfirmed")
  ELSE IF ~observed.succeeded
    THEN CryptoVerdict("reject", "reverted", "unverifiable")
  ELSE IF observed.confirmations < expected.minConfirmations
    THEN CryptoVerdict("wait", "unconfirmed", "notConfirmed")
  ELSE IF observed.received = 0
    THEN IF observed.otherAssetReceived
           THEN CryptoVerdict("reject", "wrong_asset", "wrongAsset")
           ELSE CryptoVerdict("reject", "wrong_recipient", "wrongRecipient")
  ELSE IF observed.received < expected.required
    THEN CryptoVerdict("reject", "insufficient_amount", "insufficient")
  ELSE IF TooOld(observed, expected, now)
    THEN CryptoVerdict("reject", "too_old", "tooOld")
  ELSE CryptoVerdict("activate", "paid", "confirmed")

(* Fault: a reason added to the verdicts and forgotten here.               *)
TerminalCryptoReasonsStale ==
  {"wrong_network", "reverted", "wrong_asset", "wrong_recipient",
   "insufficient_amount", "rpc_chain_mismatch"}

(* The reasons that close a row for good.                                  *)
TerminalCryptoReasons ==
  {"wrong_network", "reverted", "wrong_asset", "wrong_recipient",
   "insufficient_amount", "too_old", "rpc_chain_mismatch"}

IsTerminalCryptoReason(reason) == reason \in TerminalCryptoReasons

(* Fault: the tooOld message is never looked up.                           *)
CryptoMessageForReasonShort(reason) ==
  CASE reason = "wrong_network"              -> "wrongNetwork"
    [] reason = "wrong_recipient"            -> "wrongRecipient"
    [] reason = "wrong_asset"                -> "wrongAsset"
    [] reason = "insufficient_amount"        -> "insufficient"
    [] reason \in {"unmined", "unconfirmed"} -> "notConfirmed"
    [] OTHER                                 -> "unverifiable"

(* The message a payer is shown when a stored reason is all that is left.  *)
CryptoMessageForReason(reason) ==
  CASE reason = "wrong_network"              -> "wrongNetwork"
    [] reason = "wrong_recipient"            -> "wrongRecipient"
    [] reason = "wrong_asset"                -> "wrongAsset"
    [] reason = "insufficient_amount"        -> "insufficient"
    [] reason = "too_old"                    -> "tooOld"
    [] reason \in {"unmined", "unconfirmed"} -> "notConfirmed"
    [] reason = "tx_claimed_by_other"        -> "alreadyUsed"
    [] OTHER                                 -> "unverifiable"
=============================================================================
