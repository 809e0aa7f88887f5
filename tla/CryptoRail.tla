----------------------------- MODULE CryptoRail -----------------------------
(***************************************************************************)
(* The on-chain rail of src/src/server/services/crypto-payment-service.ts: *)
(* a payer pastes a transaction hash, the service claims the hash in a     *)
(* UNIQUE column, reads the chain through an RPC node, decides with        *)
(* evaluateCryptoTransaction, and writes the outcome.                      *)
(*                                                                         *)
(* Each of those is a step of its own, so two submissions of one hash, by  *)
(* one payer or by two, interleave everywhere.  The chain moves on its own *)
(* as well: a transaction is mined, may be dropped again by a shallow      *)
(* reorganisation while it is short of the required confirmations, becomes *)
(* final, and grows old.  A node may lag behind it.                        *)
(***************************************************************************)
EXTENDS Subscriptions

CONSTANTS
  Hashes,        \* normalised transaction hashes
  Effects        \* what a mined transaction may turn out to do

VARIABLES
  claims,        \* claims[h]: the payments row whose txHash is h, or Null
  chain,         \* chain[h]: what the chain itself holds about h
  proof          \* proof[r]: the hash and the reason request r works with

cryptoVars == <<claims, chain, proof>>

CryptoReasons ==
  {"none", "provider_unavailable", "not_found", "unmined", "unconfirmed", "paid"}
    \union TerminalCryptoReasons

Claim == [owner   : Accounts,
          status  : {"pending", "paid", "failed"},
          reason  : CryptoReasons,
          applied : BOOLEAN]

(* What the transaction does once it is executed: move enough of the asset *)
(* to us, revert, move too little, move another asset, or pay someone else.*)
AllEffects == {"good", "reverted", "short", "other_asset", "elsewhere"}

(* "mined" is short of minConfirmations, "final" has them.                 *)
Tx == [stage : {"absent", "pending", "mined", "final"},
       effect : AllEffects, old : BOOLEAN]

Proof == [hash : Hashes \union {Null}, reason : CryptoReasons]

NoProof == [hash |-> Null, reason |-> "none"]

(* The server's expectation, in small units that keep its comparisons.     *)
Expectation == [chainId |-> 1, minConfirmations |-> 2, required |-> 2, maxAgeMs |-> 5]

Now == 10

ASSUME CryptoAssumption ==
  /\ Null \notin Hashes /\ Null \notin Claim
  /\ Effects \subseteq AllEffects

-----------------------------------------------------------------------------
(* verifyTransaction: what a node can answer about hash h.  It may know    *)
(* less than the chain does, or serve another chain, or answer eth_chainId *)
(* with something that reads as 0; the block header, and with it the age,  *)
(* may be unreadable.                                                      *)

NotFound == [chainId |-> 1, found |-> FALSE, txChainId |-> Null, mined |-> FALSE,
             succeeded |-> FALSE, confirmations |-> 0, minedAt |-> Null,
             received |-> 0, otherAssetReceived |-> FALSE]

OtherChain == [NotFound EXCEPT !.chainId = 2]

InMempool == [NotFound EXCEPT !.found = TRUE, !.txChainId = 1]

Mined(effect, confirmations, minedAt) ==
  [InMempool EXCEPT
     !.mined = TRUE,
     !.succeeded = effect # "reverted",
     !.confirmations = confirmations,
     !.minedAt = minedAt,
     !.received = CASE effect = "good" -> 2 [] effect = "short" -> 1 [] OTHER -> 0,
     !.otherAssetReceived = effect = "other_asset"]

MinedAt(tx) == IF tx.old THEN 0 ELSE 9

Observations(h) ==
  LET tx == chain[h] IN
  {NotFound, OtherChain}
    \union (IF tx.stage = "absent" THEN {} ELSE {InMempool})
    \union (IF tx.stage \in {"mined", "final"}
              THEN {Mined(tx.effect, 1, MinedAt(tx))} ELSE {})
    \union (IF tx.stage = "final"
              THEN {Mined(tx.effect, 2, t) : t \in {MinedAt(tx), Null}} ELSE {})

-----------------------------------------------------------------------------
(* Helpers.                                                                *)

NewClaim(a) == [owner |-> a, status |-> "pending", reason |-> "none",
                applied |-> FALSE]

EndProof(r) == Finish(r) /\ proof' = [proof EXCEPT ![r] = NoProof]

(* resolveExisting: only one's own pending row is verified again.          *)
ResolveExisting(r, h) ==
  IF claims[h].owner = req[r].who /\ claims[h].status = "pending"
    THEN /\ Goto(r, "verify")
         /\ proof' = [proof EXCEPT ![r].hash = h]
    ELSE EndProof(r)

-----------------------------------------------------------------------------
(* submitTransactionHash up to the claim.                                  *)

SubmitBegin(r, a) ==
  /\ EnsureRead(r, a, "submit")
  /\ UNCHANGED cryptoVars

(* Refuse a paid account, then look the pasted hash up.                    *)
SubmitLookup(r, h) ==
  /\ req[r].at = "ensured" /\ req[r].op = "submit"
  /\ IF req[r].paid
       THEN EndProof(r)
     ELSE IF claims[h] = Null
       THEN /\ Goto(r, "claim")
            /\ proof' = [proof EXCEPT ![r].hash = h]
     ELSE ResolveExisting(r, h)
  /\ UNCHANGED <<subs, claims, chain>>

(* Fault: an upsert in place of the create, so the second claim wins.      *)
SubmitClaimUpsert(r) ==
  /\ req[r].at = "claim"
  /\ claims' = [claims EXCEPT ![proof[r].hash] = NewClaim(req[r].who)]
  /\ Goto(r, "verify")
  /\ UNCHANGED <<subs, chain, proof>>

(* payment.create: the UNIQUE index decides between two claims.            *)
SubmitClaim(r) ==
  LET h == proof[r].hash IN
  /\ req[r].at = "claim"
  /\ IF claims[h] = Null
       THEN /\ claims' = [claims EXCEPT ![h] = NewClaim(req[r].who)]
            /\ Goto(r, "verify")
       ELSE /\ Goto(r, "reread")
            /\ UNCHANGED claims
  /\ UNCHANGED <<subs, chain, proof>>

SubmitReread(r) ==
  /\ req[r].at = "reread"
  /\ ResolveExisting(r, proof[r].hash)
  /\ UNCHANGED <<subs, claims, chain>>

-----------------------------------------------------------------------------
(* The chain is read and the verdict written.                              *)

VerifyObserve(r) ==
  LET h == proof[r].hash IN
  /\ req[r].at = "verify"
  /\ \E seen \in Observations(h) :
       LET verdict == EvaluateCryptoTransaction(seen, Expectation, Now) IN
       /\ Goto(r, CASE verdict.action = "activate" -> "grant"
                    [] verdict.action = "reject"   -> "refuse"
                    [] OTHER                       -> "wait")
       /\ proof' = [proof EXCEPT ![r].reason = verdict.reason]
  /\ UNCHANGED <<subs, claims, chain>>

VerifyUnavailable(r) ==
  /\ req[r].at = "verify"
  /\ Goto(r, "unavailable")
  /\ proof' = [proof EXCEPT ![r].reason = "provider_unavailable"]
  /\ UNCHANGED <<subs, claims, chain>>

(* Both updates are by `where: { id }' alone.                              *)
StillPending(r) ==
  /\ req[r].at \in {"wait", "unavailable"}
  /\ claims' = [claims EXCEPT ![proof[r].hash].reason = proof[r].reason]
  /\ EndProof(r)
  /\ UNCHANGED <<subs, chain>>

Refuse(r) ==
  LET h == proof[r].hash
      status == IF IsTerminalCryptoReason(proof[r].reason) THEN "failed" ELSE "pending"
  IN /\ req[r].at = "refuse"
     /\ claims' = IF claims[h].status = "pending"
                    THEN [claims EXCEPT ![h] = [@ EXCEPT !.status = status,
                                                   !.reason = proof[r].reason]]
                    ELSE claims
     /\ EndProof(r)
     /\ UNCHANGED <<subs, chain>>

(* Fault: the grant runs whether or not the row could be claimed.          *)
ActivateAnyway(r) ==
  LET h == proof[r].hash IN
  /\ req[r].at = "grant"
  /\ claims' = IF claims[h].status = "pending"
                 THEN [claims EXCEPT ![h] = [@ EXCEPT !.status = "paid", !.applied = TRUE]]
                 ELSE claims
  /\ GrantUnlimited(req[r].who)
  /\ EndProof(r)
  /\ UNCHANGED chain

(* One transaction: claim the row while it is pending, grant, mark applied.*)
Activate(r) ==
  LET h == proof[r].hash IN
  /\ req[r].at = "grant"
  /\ IF claims[h].status = "pending"
       THEN /\ claims' = [claims EXCEPT ![h] =
                 [@ EXCEPT !.status = "paid", !.reason = "none", !.applied = TRUE]]
            /\ GrantUnlimited(req[r].who)
       ELSE UNCHANGED <<claims, subs>>
  /\ EndProof(r)
  /\ UNCHANGED chain

-----------------------------------------------------------------------------
(* The chain.                                                              *)

Broadcast(h) ==
  /\ chain[h].stage = "absent"
  /\ chain' = [chain EXCEPT ![h].stage = "pending"]
  /\ UNCHANGED <<subs, req, claims, proof>>

Mine(h, effect) ==
  /\ chain[h].stage = "pending"
  /\ chain' = [chain EXCEPT ![h] = [@ EXCEPT !.stage = "mined", !.effect = effect]]
  /\ UNCHANGED <<subs, req, claims, proof>>

Reorganise(h) ==
  /\ chain[h].stage = "mined"
  /\ chain' = [chain EXCEPT ![h].stage = "pending"]
  /\ UNCHANGED <<subs, req, claims, proof>>

Finalise(h) ==
  /\ chain[h].stage = "mined"
  /\ chain' = [chain EXCEPT ![h].stage = "final"]
  /\ UNCHANGED <<subs, req, claims, proof>>

GrowOld(h) ==
  /\ chain[h].stage = "final" /\ ~chain[h].old
  /\ chain' = [chain EXCEPT ![h].old = TRUE]
  /\ UNCHANGED <<subs, req, claims, proof>>

-----------------------------------------------------------------------------
CryptoInit ==
  /\ claims = [h \in Hashes |-> Null]
  /\ chain  = [h \in Hashes |-> [stage |-> "absent", effect |-> "good", old |-> FALSE]]
  /\ proof  = [r \in Requests |-> NoProof]

SubmitNext ==
  \/ \E r \in Requests, a \in Accounts : SubmitBegin(r, a)
  \/ \E r \in Requests, h \in Hashes : SubmitLookup(r, h)
  \/ \E r \in Requests : \/ SubmitClaim(r) \/ SubmitReread(r) \/ VerifyObserve(r)
                         \/ VerifyUnavailable(r) \/ StillPending(r)
                         \/ Refuse(r) \/ Activate(r)

ChainNext ==
  \E h \in Hashes :
    \/ Broadcast(h) \/ Reorganise(h) \/ Finalise(h) \/ GrowOld(h)
    \/ \E effect \in Effects : Mine(h, effect)

CryptoNext == SubmitNext \/ ChainNext

-----------------------------------------------------------------------------
CryptoTypeOK ==
  /\ claims \in [Hashes -> Claim \union {Null}]
  /\ chain  \in [Hashes -> Tx]
  /\ proof  \in [Requests -> Proof]
=============================================================================
