--------------------------- MODULE Billing_proofs ---------------------------
(***************************************************************************)
(* The inductive invariant of Billing and what follows from it, for every  *)
(* number of accounts, requests, orders and hashes.                        *)
(*                                                                         *)
(* The argument.  A suspended request holds locals it read earlier: an     *)
(* account, an order, an event, a hash.  ReqShape says what those locals   *)
(* still entitle it to, and every clause of it is stable: it speaks of     *)
(* rows that are never deleted, of owners that never change, of charges    *)
(* that stay collected and of transactions that stay final.  So a step of  *)
(* one request cannot disturb the clause of another (lemma OthersKeep),    *)
(* and the proof of an action only has to look at the request that moves   *)
(* and at the rows it writes.                                              *)
(***************************************************************************)
EXTENDS Billing, TLAPS

FiatSteps == {"charge", "poll", "stamp", "mark", "activate"}
ClaimedSteps == {"verify", "unavailable", "wait", "refuse", "grant"}
HashSteps == ClaimedSteps \union {"claim", "reread"}
AccountSteps == {"create", "roll", "ensured", "edit", "new"} \union HashSteps

(* The provider has opened the charge of order o; it holds its full amount,*)
(* or held it until it was refunded; the transfer of hash h is final and   *)
(* complete.  All three last.                                              *)
Opened(o) == charges[o].status \notin {"none", "sent", "refused"}
Collected(o) == charges[o].exact /\ charges[o].status \in {"paid", "refund"}
Delivered(h) == chain[h].stage = "final" /\ chain[h].effect = "good"

(* What the locals of a suspended request still stand for.                 *)
ReqShape(q) ==
  /\ req[q].at \in AccountSteps => req[q].who # Null
  /\ req[q].at \in {"roll", "edit"} => subs[req[q].who] # Null
  /\ req[q].at \in FiatSteps => job[q].order # Null /\ orders[job[q].order] # Null
  /\ req[q].at = "poll" => Opened(job[q].order)
  /\ req[q].at \in {"mark", "activate"} => job[q].event # Null
  /\ req[q].at = "mark" => job[q].event.status # "pending"
  /\ req[q].at = "activate" => Collected(job[q].order)
  /\ req[q].at \in HashSteps => proof[q].hash # Null
  /\ req[q].at \in ClaimedSteps \union {"reread"} => claims[proof[q].hash] # Null
  /\ req[q].at \in ClaimedSteps => claims[proof[q].hash].owner = req[q].who
  /\ req[q].at = "grant" => Delivered(proof[q].hash)

(* An order and its charge exist together, a bound order has an open       *)
(* charge, and an event reports what the charge really was.                *)
ChargeShape ==
  /\ \A o \in Orders : orders[o] = Null <=> charges[o].status = "none"
  /\ \A o \in Orders : orders[o] # Null /\ orders[o].bound => Opened(o)
  /\ \A e \in callbacks :
       /\ Opened(e.order)
       /\ e.exact = charges[e.order].exact
       /\ e.status = "paid" => charges[e.order].status \in {"paid", "refund"}

(* An applied payment is settled, and stands on real money.                *)
AppliedShape ==
  /\ \A o \in Orders : AppliedOrder(o) => orders[o].status # "pending" /\ Collected(o)
  /\ \A h \in Hashes : AppliedHash(h) => claims[h].status # "pending" /\ Delivered(h)

IInv ==
  /\ TypeOK
  /\ \A q \in Requests : ReqShape(q)
  /\ ChargeShape
  /\ AppliedShape
  /\ UnlimitedIffApplied

-----------------------------------------------------------------------------
(* What every step keeps of the rows, and what every step but a grant      *)
(* keeps of the access they record.                                        *)
RowsKeep ==
  /\ \A a \in Accounts : subs[a] # Null => subs'[a] # Null
  /\ \A o \in Orders : orders[o] # Null =>
       /\ orders'[o] # Null /\ orders'[o].owner = orders[o].owner
       /\ orders[o].status # "pending" =>
            orders'[o].status # "pending" /\ orders'[o].applied = orders[o].applied
  /\ \A h \in Hashes : claims[h] # Null =>
       /\ claims'[h] # Null /\ claims'[h].owner = claims[h].owner
       /\ claims[h].status # "pending" =>
            claims'[h].status # "pending" /\ claims'[h].applied = claims[h].applied
  /\ \A o \in Orders : (Opened(o) => Opened(o)') /\ (Collected(o) => Collected(o)')
  /\ \A h \in Hashes : Delivered(h) => Delivered(h)'

AccessKept ==
  /\ \A a \in Accounts : Unlimited(a)' <=> Unlimited(a)
  /\ \A o \in Orders : AppliedOrder(o)' <=> AppliedOrder(o)
  /\ \A h \in Hashes : AppliedHash(h)' <=> AppliedHash(h)

(* Only request r moves.                                                   *)
OnlyMoves(r) ==
  \A q \in Requests \ {r} : req'[q] = req[q] /\ job'[q] = job[q] /\ proof'[q] = proof[q]

-----------------------------------------------------------------------------
(* The stability argument: what the locals of a request stand for outlives *)
(* the steps of everybody else.                                            *)
LEMMA OthersKeep ==
  ASSUME TypeOK, RowsKeep, NEW q \in Requests, ReqShape(q),
         req'[q] = req[q], job'[q] = job[q], proof'[q] = proof[q]
  PROVE  ReqShape(q)'
<1>1. /\ req[q].who \in Accounts \union {Null}
      /\ job[q].order \in Orders \union {Null}
      /\ proof[q].hash \in Hashes \union {Null}
  <2>1. req[q] \in Request /\ job[q] \in Job /\ proof[q] \in Proof
    BY DEF TypeOK, SubTypeOK, FiatTypeOK, CryptoTypeOK
  <2> QED BY <2>1 DEF Request, Job, Proof
<1>2. (/\ req[q].at \in AccountSteps => req[q].who # Null
       /\ req[q].at \in {"roll", "edit"} => subs[req[q].who] # Null)'
  BY <1>1 DEF ReqShape, RowsKeep, AccountSteps
<1>3. (/\ req[q].at \in FiatSteps => job[q].order # Null /\ orders[job[q].order] # Null
       /\ req[q].at = "poll" => Opened(job[q].order)
       /\ req[q].at \in {"mark", "activate"} => job[q].event # Null
       /\ req[q].at = "mark" => job[q].event.status # "pending"
       /\ req[q].at = "activate" => Collected(job[q].order))'
  <2>1. req[q].at \in {"poll", "activate"} => job[q].order \in Orders
    BY <1>1 DEF ReqShape, FiatSteps
  <2>2. req[q].at = "activate" => Collected(job[q].order)'
    BY <2>1 DEF ReqShape, RowsKeep, Collected
  <2>3. req[q].at = "poll" => Opened(job[q].order)'
    BY <2>1 DEF ReqShape, RowsKeep, Opened
  <2> QED BY <1>1, <2>2, <2>3 DEF ReqShape, RowsKeep
<1>4. (/\ req[q].at \in HashSteps => proof[q].hash # Null
       /\ req[q].at \in ClaimedSteps \union {"reread"} => claims[proof[q].hash] # Null
       /\ req[q].at \in ClaimedSteps => claims[proof[q].hash].owner = req[q].who
       /\ req[q].at = "grant" => Delivered(proof[q].hash))'
  <2>1. req[q].at \in ClaimedSteps \union {"reread"} => proof[q].hash \in Hashes
    BY <1>1 DEF ReqShape, HashSteps
  <2>2. req[q].at = "grant" => Delivered(proof[q].hash)'
    BY <2>1 DEF ReqShape, RowsKeep, Delivered, ClaimedSteps
  <2> QED BY <2>1, <2>2 DEF ReqShape, RowsKeep
<1> QED BY <1>2, <1>3, <1>4 DEF ReqShape

(* A request that has ended holds nothing.                                 *)
LEMMA IdleShape ==
  ASSUME NEW r \in Requests, req'[r].at = "idle" PROVE ReqShape(r)'
BY DEF ReqShape, AccountSteps, FiatSteps, ClaimedSteps, HashSteps

(* Applied payments stay settled, backed and matched by access as long as  *)
(* the step grants nothing.                                                *)
LEMMA AccessKeeps ==
  ASSUME RowsKeep, AccessKept, AppliedShape, UnlimitedIffApplied
  PROVE  AppliedShape' /\ UnlimitedIffApplied'
<1>1. \A o \in Orders : AppliedOrder(o) => orders'[o].owner = orders[o].owner
  BY DEF RowsKeep, AppliedOrder
<1>2. \A h \in Hashes : AppliedHash(h) => claims'[h].owner = claims[h].owner
  BY DEF RowsKeep, AppliedHash
<1>3. UnlimitedIffApplied'
  BY <1>1, <1>2 DEF UnlimitedIffApplied, AccessKept
<1>4. AppliedShape'
  BY DEF AppliedShape, AccessKept, RowsKeep, AppliedOrder, AppliedHash
<1> QED BY <1>3, <1>4

(* A step that leaves the rows of a rail alone keeps what they record.     *)
LEMMA FiatRowsKeep ==
  ASSUME UNCHANGED <<orders, charges>>
  PROVE  /\ \A o \in Orders : orders[o] # Null =>
              /\ orders'[o] # Null /\ orders'[o].owner = orders[o].owner
              /\ orders[o].status # "pending" =>
                   orders'[o].status # "pending" /\ orders'[o].applied = orders[o].applied
         /\ \A o \in Orders : (Opened(o) => Opened(o)') /\ (Collected(o) => Collected(o)')
         /\ \A o \in Orders : AppliedOrder(o)' <=> AppliedOrder(o)
BY DEF Opened, Collected, AppliedOrder

LEMMA CryptoRowsKeep ==
  ASSUME UNCHANGED <<claims, chain>>
  PROVE  /\ \A h \in Hashes : claims[h] # Null =>
              /\ claims'[h] # Null /\ claims'[h].owner = claims[h].owner
              /\ claims[h].status # "pending" =>
                   claims'[h].status # "pending" /\ claims'[h].applied = claims[h].applied
         /\ \A h \in Hashes : Delivered(h) => Delivered(h)'
         /\ \A h \in Hashes : AppliedHash(h)' <=> AppliedHash(h)
BY DEF Delivered, AppliedHash

LEMMA SubRowsKeep ==
  ASSUME UNCHANGED subs
  PROVE  /\ \A a \in Accounts : subs[a] # Null => subs'[a] # Null
         /\ \A a \in Accounts : Unlimited(a)' <=> Unlimited(a)
BY DEF Unlimited

LEMMA AllRowsKeep ==
  ASSUME UNCHANGED <<subs, orders, charges, claims, chain>>
  PROVE  RowsKeep /\ AccessKept
BY SubRowsKeep, FiatRowsKeep, CryptoRowsKeep DEF RowsKeep, AccessKept

LEMMA ChargesKeep ==
  ASSUME ChargeShape, UNCHANGED <<orders, charges, callbacks>>
  PROVE  ChargeShape'
BY DEF ChargeShape, Opened

(* A request works with an account, an order or a hash wherever it needs   *)
(* one.                                                                    *)
LEMMA LocalsTyped ==
  ASSUME TypeOK, NEW r \in Requests, ReqShape(r)
  PROVE  /\ req[r].at \in AccountSteps => req[r].who \in Accounts
         /\ req[r].at \in FiatSteps => job[r].order \in Orders
         /\ req[r].at \in {"mark", "activate"} => job[r].event \in Event
         /\ req[r].at \in HashSteps => proof[r].hash \in Hashes
<1>1. req[r] \in Request /\ job[r] \in Job /\ proof[r] \in Proof
  BY DEF TypeOK, SubTypeOK, FiatTypeOK, CryptoTypeOK
<1>2. /\ req[r].who \in Accounts \union {Null}
      /\ job[r].order \in Orders \union {Null}
      /\ job[r].event \in Event \union {Null}
      /\ proof[r].hash \in Hashes \union {Null}
  BY <1>1 DEF Request, Job, Proof
<1> QED BY <1>2 DEF ReqShape

-----------------------------------------------------------------------------
(* The moves of a request.                                                 *)
LEMMA GotoMoves ==
  ASSUME req \in [Requests -> Request], NEW r \in Requests, NEW l \in Locations,
         Goto(r, l)
  PROVE  /\ req' \in [Requests -> Request]
         /\ req'[r].at = l /\ req'[r].who = req[r].who
         /\ \A q \in Requests \ {r} : req'[q] = req[q]
<1>1. req[r] \in Request
  OBVIOUS
<1>2. [req[r] EXCEPT !.at = l] \in Request
  BY <1>1 DEF Request
<1>3. req' = [req EXCEPT ![r] = [req[r] EXCEPT !.at = l]]
  BY DEF Goto
<1> QED BY <1>1, <1>2, <1>3 DEF Request

LEMMA FinishMoves ==
  ASSUME req \in [Requests -> Request], NEW r \in Requests, Finish(r)
  PROVE  /\ req' \in [Requests -> Request]
         /\ req'[r].at = "idle"
         /\ \A q \in Requests \ {r} : req'[q] = req[q]
<1>1. Idle \in Request
  BY DEF Idle, Request, Locations, Operations
<1>2. Idle.at = "idle"
  BY DEF Idle
<1> QED BY <1>1, <1>2 DEF Finish

LEMMA SetJobMoves ==
  ASSUME job \in [Requests -> Job], NEW r \in Requests, NEW o \in Orders \union {Null},
         NEW event \in Event \union {Null}, NEW reason \in FiatReasons,
         SetJob(r, o, event, reason)
  PROVE  /\ job' \in [Requests -> Job]
         /\ job'[r].order = o /\ job'[r].event = event /\ job'[r].reason = reason
         /\ \A q \in Requests \ {r} : job'[q] = job[q]
<1>1. [order |-> o, event |-> event, reason |-> reason] \in Job
  BY DEF Job
<1> QED BY <1>1 DEF SetJob

LEMMA EndJobMoves ==
  ASSUME TypeOK, NEW r \in Requests, EndJob(r)
  PROVE  /\ req' \in [Requests -> Request] /\ job' \in [Requests -> Job]
         /\ req'[r].at = "idle"
         /\ \A q \in Requests \ {r} : req'[q] = req[q] /\ job'[q] = job[q]
<1>1. NoJob \in Job
  BY DEF NoJob, Job, FiatReasons
<1>2. job \in [Requests -> Job] /\ req \in [Requests -> Request]
  BY DEF TypeOK, FiatTypeOK, SubTypeOK
<1> QED BY <1>1, <1>2, FinishMoves DEF EndJob

LEMMA EndProofMoves ==
  ASSUME TypeOK, NEW r \in Requests, EndProof(r)
  PROVE  /\ req' \in [Requests -> Request] /\ proof' \in [Requests -> Proof]
         /\ req'[r].at = "idle"
         /\ \A q \in Requests \ {r} : req'[q] = req[q] /\ proof'[q] = proof[q]
<1>1. NoProof \in Proof
  BY DEF NoProof, Proof, CryptoReasons
<1>2. proof \in [Requests -> Proof] /\ req \in [Requests -> Request]
  BY DEF TypeOK, CryptoTypeOK, SubTypeOK
<1> QED BY <1>1, <1>2, FinishMoves DEF EndProof

-----------------------------------------------------------------------------
(* What the proof of an action has to establish: the invariant again, rows *)
(* kept, and access kept unless the step is a grant of the promise.        *)
GrantStep == \E a \in Accounts, e \in Evidence : Promise!Grant(a, e)

Outcome == IInv' /\ RowsKeep /\ (AccessKept \/ GrantStep)

LEMMA QuietOutcome ==
  ASSUME IInv, NEW r \in Requests, OnlyMoves(r), ReqShape(r)',
         TypeOK', RowsKeep, AccessKept, ChargeShape'
  PROVE  Outcome
<1>1. \A q \in Requests : ReqShape(q)'
  BY OthersKeep DEF IInv, OnlyMoves
<1>2. AppliedShape' /\ UnlimitedIffApplied'
  BY AccessKeeps DEF IInv
<1> QED BY <1>1, <1>2 DEF Outcome, IInv

(* The same for the steps of the world outside, which move no request.     *)
LEMMA OutsideOutcome ==
  ASSUME IInv, UNCHANGED <<req, job, proof>>,
         TypeOK', RowsKeep, AccessKept, ChargeShape'
  PROVE  Outcome
<1>1. \A q \in Requests : ReqShape(q)'
  BY OthersKeep DEF IInv
<1>2. AppliedShape' /\ UnlimitedIffApplied'
  BY AccessKeeps DEF IInv
<1> QED BY <1>1, <1>2 DEF Outcome, IInv

-----------------------------------------------------------------------------
(* The subscription table.                                                 *)
LEMMA RowTypes ==
  /\ Null \notin Row /\ Null \notin Accounts
  /\ FreeRow \in Row
  /\ \A row \in Row \union {Null} : GrantedRow(row) \in Row
<1>1. Null \notin Row /\ Null \notin Accounts /\ 0 \in 0 .. MaxUsed
  BY SubscriptionAssumption DEF SubscriptionAssumption
<1>2. FreeRow \in Row
  BY <1>1 DEF FreeRow, Row, Plans, SubStatuses
<1>3. ASSUME NEW row \in Row \union {Null} PROVE GrantedRow(row) \in Row
  BY <1>1 DEF GrantedRow, Row, Plans, SubStatuses
<1> QED BY <1>1, <1>2, <1>3

LEMMA EnsureReadMoves ==
  ASSUME TypeOK, NEW r \in Requests, NEW a \in Accounts, NEW op \in Operations,
         EnsureRead(r, a, op)
  PROVE  /\ SubTypeOK'
         /\ UNCHANGED subs
         /\ req'[r].who = a
         /\ req'[r].at \in {"create", "roll", "ensured"}
         /\ req'[r].at = "roll" => subs'[a] # Null
         /\ \A q \in Requests \ {r} : req'[q] = req[q]
<1> DEFINE row == subs[a]
           next == IF row = Null THEN "create"
                   ELSE IF ~row.unlimited /\ row.due THEN "roll"
                   ELSE "ensured"
           new == [at |-> next, op |-> op, who |-> a, paid |-> row # Null /\ row.unlimited]
<1>1. subs \in [Accounts -> Row \union {Null}] /\ req \in [Requests -> Request]
  BY DEF TypeOK, SubTypeOK
<1>2. next \in {"create", "roll", "ensured"} /\ (next = "roll" => row # Null)
  OBVIOUS
<1>3. (row # Null /\ row.unlimited) \in BOOLEAN
  BY <1>1, RowTypes DEF Row
<1>4. new \in Request
  BY <1>2, <1>3 DEF Request, Locations
<1>5. req' = [req EXCEPT ![r] = new] /\ UNCHANGED subs
  BY DEF EnsureRead
<1>6. req'[r] = new
  BY <1>1, <1>5
<1>7. req' \in [Requests -> Request] /\ \A q \in Requests \ {r} : req'[q] = req[q]
  BY <1>1, <1>4, <1>5
<1> QED BY <1>1, <1>2, <1>5, <1>6, <1>7 DEF SubTypeOK

LEMMA EnsureReadOutcome ==
  ASSUME IInv, NEW r \in Requests, NEW a \in Accounts, NEW op \in Operations,
         EnsureRead(r, a, op), UNCHANGED <<fiatVars, cryptoVars>>
  PROVE  Outcome
<1>1. TypeOK /\ ChargeShape
  BY DEF IInv
<1>2. TypeOK'
  BY <1>1, EnsureReadMoves DEF TypeOK, FiatTypeOK, CryptoTypeOK, fiatVars, cryptoVars
<1>3. RowsKeep /\ AccessKept
  BY <1>1, EnsureReadMoves, AllRowsKeep DEF fiatVars, cryptoVars
<1>4. OnlyMoves(r)
  BY <1>1, EnsureReadMoves DEF OnlyMoves, fiatVars, cryptoVars
<1>5. ReqShape(r)'
  BY <1>1, EnsureReadMoves, RowTypes
     DEF ReqShape, AccountSteps, FiatSteps, HashSteps, ClaimedSteps
<1>6. ChargeShape'
  BY <1>1, ChargesKeep DEF fiatVars
<1> QED BY <1>2, <1>3, <1>4, <1>5, <1>6, QuietOutcome

(* A write of one subscription row that leaves its `unlimited' alone.      *)
LEMMA RowWriteKeeps ==
  ASSUME TypeOK, NEW a \in Accounts, NEW row \in Row,
         subs' = [subs EXCEPT ![a] = row],
         row.unlimited = Unlimited(a),
         UNCHANGED <<orders, charges, claims, chain>>
  PROVE  RowsKeep /\ AccessKept /\ subs' \in [Accounts -> Row \union {Null}]
<1>1. subs \in [Accounts -> Row \union {Null}]
  BY DEF TypeOK, SubTypeOK
<1>2. \A b \in Accounts : subs'[b] = IF b = a THEN row ELSE subs[b]
  BY <1>1
<1>3. row # Null
  BY RowTypes
<1>4. \A b \in Accounts : subs[b] # Null => subs'[b] # Null
  BY <1>2, <1>3
<1>5. \A b \in Accounts : Unlimited(b)' <=> Unlimited(b)
  BY <1>2, <1>3 DEF Unlimited
<1>6. subs' \in [Accounts -> Row \union {Null}]
  BY <1>1
<1> QED BY <1>4, <1>5, <1>6, FiatRowsKeep, CryptoRowsKeep DEF RowsKeep, AccessKept

LEMMA EnsureCreateOutcome ==
  ASSUME IInv, NEW r \in Requests, EnsureCreate(r), UNCHANGED <<fiatVars, cryptoVars>>
  PROVE  Outcome
<1>1. TypeOK /\ ChargeShape /\ ReqShape(r)
  BY DEF IInv
<1>2. req \in [Requests -> Request] /\ subs \in [Accounts -> Row \union {Null}]
  BY <1>1 DEF TypeOK, SubTypeOK
<1>3. req[r].who \in Accounts
  BY <1>1, LocalsTyped DEF AccountSteps, EnsureCreate
<1>4. /\ req' \in [Requests -> Request]
      /\ req'[r].at \in {"ensured", "idle"}
      /\ req'[r].at = "ensured" => req'[r].who = req[r].who
      /\ \A q \in Requests \ {r} : req'[q] = req[q]
  <2>1. CASE Goto(r, "ensured")
    BY <1>2, <2>1, GotoMoves DEF Locations
  <2>2. CASE Finish(r)
    BY <1>2, <2>2, FinishMoves
  <2> QED BY <2>1, <2>2 DEF EnsureCreate
<1>5. RowsKeep /\ AccessKept /\ subs' \in [Accounts -> Row \union {Null}]
  <2>1. CASE subs[req[r].who] = Null
    <3>1. subs' = [subs EXCEPT ![req[r].who] = FreeRow]
      BY <2>1 DEF EnsureCreate
    <3>2. FreeRow.unlimited = Unlimited(req[r].who)
      BY <2>1 DEF FreeRow, Unlimited
    <3> QED BY <1>1, <1>3, <3>1, <3>2, RowTypes, RowWriteKeeps DEF fiatVars, cryptoVars
  <2>2. CASE subs[req[r].who] # Null
    <3>1. UNCHANGED subs
      BY <2>2 DEF EnsureCreate
    <3> QED BY <1>2, <3>1, AllRowsKeep DEF fiatVars, cryptoVars
  <2> QED BY <2>1, <2>2
<1>6. TypeOK'
  BY <1>1, <1>4, <1>5 DEF TypeOK, SubTypeOK, FiatTypeOK, CryptoTypeOK, fiatVars, cryptoVars
<1>7. OnlyMoves(r)
  BY <1>4 DEF OnlyMoves, fiatVars, cryptoVars
<1>8. ReqShape(r)'
  BY <1>3, <1>4, RowTypes DEF ReqShape, AccountSteps, FiatSteps, HashSteps, ClaimedSteps
<1>9. ChargeShape'
  BY <1>1, ChargesKeep DEF fiatVars
<1> QED BY <1>5, <1>6, <1>7, <1>8, <1>9, QuietOutcome

LEMMA EnsureRollOutcome ==
  ASSUME IInv, NEW r \in Requests, EnsureRoll(r), UNCHANGED <<fiatVars, cryptoVars>>
  PROVE  Outcome
<1> DEFINE a == req[r].who
           row == [subs[a] EXCEPT !.used = 0, !.due = FALSE]
           new == [req[r] EXCEPT !.at = "ensured", !.paid = subs[a].unlimited]
<1>1. TypeOK /\ ChargeShape /\ ReqShape(r) /\ req[r].at = "roll"
  BY DEF IInv, EnsureRoll
<1>2. req \in [Requests -> Request] /\ subs \in [Accounts -> Row \union {Null}]
  BY <1>1 DEF TypeOK, SubTypeOK
<1>3. a \in Accounts
  BY <1>1, LocalsTyped DEF AccountSteps
<1>4. subs[a] \in Row
  BY <1>1, <1>2, <1>3 DEF ReqShape
<1>5. row \in Row /\ row.unlimited = Unlimited(a)
  <2>1. 0 \in 0 .. MaxUsed
    BY SubscriptionAssumption DEF SubscriptionAssumption
  <2>2. row \in Row /\ row.unlimited = subs[a].unlimited /\ subs[a].unlimited \in BOOLEAN
    BY <1>4, <2>1 DEF Row
  <2> QED BY <1>4, <2>2, RowTypes DEF Unlimited
<1>6. subs' = [subs EXCEPT ![a] = row] /\ req' = [req EXCEPT ![r] = new]
  BY DEF EnsureRoll
<1>7. RowsKeep /\ AccessKept /\ subs' \in [Accounts -> Row \union {Null}]
  BY <1>1, <1>3, <1>5, <1>6, RowWriteKeeps DEF fiatVars, cryptoVars
<1>8. new \in Request /\ new.at = "ensured" /\ new.who = a
  <2>1. req[r] \in Request /\ subs[a].unlimited \in BOOLEAN
    BY <1>2, <1>4 DEF Row
  <2> QED BY <2>1 DEF Request, Locations
<1>9. /\ req' \in [Requests -> Request]
      /\ req'[r].at = "ensured" /\ req'[r].who = a
      /\ \A q \in Requests \ {r} : req'[q] = req[q]
  BY <1>2, <1>6, <1>8
<1>10. TypeOK'
  BY <1>1, <1>7, <1>9 DEF TypeOK, SubTypeOK, FiatTypeOK, CryptoTypeOK, fiatVars, cryptoVars
<1>11. OnlyMoves(r)
  BY <1>9 DEF OnlyMoves, fiatVars, cryptoVars
<1>12. ReqShape(r)'
  BY <1>3, <1>9, RowTypes DEF ReqShape, AccountSteps, FiatSteps, HashSteps, ClaimedSteps
<1>13. ChargeShape'
  BY <1>1, ChargesKeep DEF fiatVars
<1> QED BY <1>7, <1>10, <1>11, <1>12, <1>13, QuietOutcome

(* A request that ends without writing a row.                              *)
LEMMA EndingOutcome ==
  ASSUME IInv, NEW r \in Requests, req' \in [Requests -> Request],
         job' \in [Requests -> Job], proof' \in [Requests -> Proof],
         req'[r].at = "idle", OnlyMoves(r),
         UNCHANGED <<subs, orders, charges, callbacks, claims, chain>>
  PROVE  Outcome
<1>1. TypeOK'
  BY DEF IInv, TypeOK, SubTypeOK, FiatTypeOK, CryptoTypeOK
<1>2. RowsKeep /\ AccessKept
  BY AllRowsKeep
<1>3. ChargeShape'
  BY ChargesKeep DEF IInv
<1> QED BY <1>1, <1>2, <1>3, IdleShape, QuietOutcome

LEMMA TouchDoneOutcome ==
  ASSUME IInv, NEW r \in Requests, TouchDone(r), UNCHANGED <<fiatVars, cryptoVars>>
  PROVE  Outcome
<1>1. req \in [Requests -> Request] /\ job \in [Requests -> Job] /\ proof \in [Requests -> Proof]
  BY DEF IInv, TypeOK, SubTypeOK, FiatTypeOK, CryptoTypeOK
<1>2. /\ req' \in [Requests -> Request] /\ req'[r].at = "idle"
      /\ \A q \in Requests \ {r} : req'[q] = req[q]
  BY <1>1, FinishMoves DEF TouchDone
<1>3. OnlyMoves(r)
  BY <1>2 DEF OnlyMoves, fiatVars, cryptoVars
<1> QED BY <1>1, <1>2, <1>3, EndingOutcome DEF TouchDone, fiatVars, cryptoVars

LEMMA LoseRequestOutcome ==
  ASSUME IInv, NEW r \in Requests, LoseRequest(r)
  PROVE  Outcome
<1>1. req \in [Requests -> Request] /\ job \in [Requests -> Job] /\ proof \in [Requests -> Proof]
  BY DEF IInv, TypeOK, SubTypeOK, FiatTypeOK, CryptoTypeOK
<1>2. /\ req' \in [Requests -> Request] /\ req'[r].at = "idle"
      /\ \A q \in Requests \ {r} : req'[q] = req[q]
  BY <1>1, FinishMoves DEF LoseRequest, Lose
<1>3. NoJob \in Job /\ NoProof \in Proof
  BY DEF NoJob, Job, FiatReasons, NoProof, Proof, CryptoReasons
<1>4. job' \in [Requests -> Job] /\ proof' \in [Requests -> Proof] /\ OnlyMoves(r)
  BY <1>1, <1>2, <1>3 DEF LoseRequest, OnlyMoves
<1> QED BY <1>1, <1>2, <1>4, EndingOutcome DEF LoseRequest, Lose

LEMMA EditReadOutcome ==
  ASSUME IInv, NEW r \in Requests, NEW a \in Accounts, EditRead(r, a),
         UNCHANGED <<fiatVars, cryptoVars>>
  PROVE  Outcome
<1> DEFINE new == [Idle EXCEPT !.at = "edit", !.who = a]
<1>1. TypeOK /\ ChargeShape /\ req \in [Requests -> Request]
  BY DEF IInv, TypeOK, SubTypeOK
<1>2. new \in Request /\ new.at = "edit" /\ new.who = a
  BY DEF Idle, Request, Locations, Operations
<1>3. req' = [req EXCEPT ![r] = new]
  BY DEF EditRead
<1>4. /\ req' \in [Requests -> Request] /\ req'[r].at = "edit" /\ req'[r].who = a
      /\ \A q \in Requests \ {r} : req'[q] = req[q]
  BY <1>1, <1>2, <1>3
<1>5. TypeOK'
  BY <1>1, <1>4 DEF EditRead, TypeOK, SubTypeOK, FiatTypeOK, CryptoTypeOK, fiatVars, cryptoVars
<1>6. RowsKeep /\ AccessKept
  BY AllRowsKeep DEF EditRead, fiatVars, cryptoVars
<1>7. OnlyMoves(r)
  BY <1>4 DEF OnlyMoves, fiatVars, cryptoVars
<1>8. ReqShape(r)'
  BY <1>4, RowTypes DEF EditRead, ReqShape, AccountSteps, FiatSteps, HashSteps, ClaimedSteps
<1>9. ChargeShape'
  BY <1>1, ChargesKeep DEF fiatVars
<1> QED BY <1>5, <1>6, <1>7, <1>8, <1>9, QuietOutcome

LEMMA EditWriteOutcome ==
  ASSUME IInv, NEW r \in Requests, NEW patch \in Patches, EditWrite(r, patch),
         UNCHANGED <<fiatVars, cryptoVars>>
  PROVE  Outcome
<1> DEFINE a == req[r].who
<1>1. TypeOK /\ ChargeShape /\ ReqShape(r) /\ req[r].at = "edit"
  BY DEF IInv, EditWrite
<1>2. req \in [Requests -> Request] /\ subs \in [Accounts -> Row \union {Null}]
  BY <1>1 DEF TypeOK, SubTypeOK
<1>3. a \in Accounts
  BY <1>1, LocalsTyped DEF AccountSteps
<1>4. subs[a] \in Row
  BY <1>1, <1>2, <1>3 DEF ReqShape
<1>5. patch \in Patch /\ 0 \in 0 .. MaxUsed
  BY SubscriptionAssumption DEF SubscriptionAssumption
<1>6. Patched(subs[a], patch) \in Row
  BY <1>4, <1>5 DEF Patched, Patch, Row, Assignable
<1>7. Patched(subs[a], patch).unlimited = Unlimited(a)
  BY <1>4, RowTypes DEF Patched, Row, Unlimited
<1>8. subs' = [subs EXCEPT ![a] = Patched(subs[a], patch)]
  BY DEF EditWrite
<1>9. RowsKeep /\ AccessKept /\ subs' \in [Accounts -> Row \union {Null}]
  BY <1>1, <1>3, <1>6, <1>7, <1>8, RowWriteKeeps DEF fiatVars, cryptoVars
<1>10. /\ req' \in [Requests -> Request] /\ req'[r].at = "idle"
       /\ \A q \in Requests \ {r} : req'[q] = req[q]
  BY <1>2, FinishMoves DEF EditWrite
<1>11. TypeOK'
  BY <1>1, <1>9, <1>10 DEF TypeOK, SubTypeOK, FiatTypeOK, CryptoTypeOK, fiatVars, cryptoVars
<1>12. OnlyMoves(r)
  BY <1>10 DEF OnlyMoves, fiatVars, cryptoVars
<1>13. ChargeShape'
  BY <1>1, ChargesKeep DEF fiatVars
<1> QED BY <1>9, <1>10, <1>11, <1>12, <1>13, IdleShape, QuietOutcome

(* The debit and the passing of a renewal date: a row is written in place. *)
LEMMA InPlaceOutcome ==
  ASSUME IInv, NEW a \in Accounts, NEW row \in Row, subs' = [subs EXCEPT ![a] = row],
         row.unlimited = Unlimited(a), UNCHANGED <<req, fiatVars, cryptoVars>>
  PROVE  Outcome
<1>1. TypeOK /\ ChargeShape
  BY DEF IInv
<1>2. RowsKeep /\ AccessKept /\ subs' \in [Accounts -> Row \union {Null}]
  BY <1>1, RowWriteKeeps DEF fiatVars, cryptoVars
<1>3. TypeOK'
  BY <1>1, <1>2 DEF TypeOK, SubTypeOK, FiatTypeOK, CryptoTypeOK, fiatVars, cryptoVars
<1>4. ChargeShape'
  BY <1>1, ChargesKeep DEF fiatVars
<1> QED BY <1>2, <1>3, <1>4, OutsideOutcome DEF fiatVars, cryptoVars

LEMMA DebitOutcome ==
  ASSUME IInv, NEW a \in Accounts, Debit(a), UNCHANGED <<fiatVars, cryptoVars>>
  PROVE  Outcome
<1> DEFINE row == [subs[a] EXCEPT !.used = @ + 1]
<1>1. subs[a] \in Row /\ subs[a].used < MaxUsed
  BY DEF IInv, TypeOK, SubTypeOK, Debit
<1>2. row \in Row
  BY <1>1, SubscriptionAssumption DEF Row, SubscriptionAssumption
<1>3. row.unlimited = Unlimited(a)
  BY <1>1, RowTypes DEF Row, Unlimited
<1> QED BY <1>2, <1>3, InPlaceOutcome DEF Debit

LEMMA RenewalPassesOutcome ==
  ASSUME IInv, NEW a \in Accounts, RenewalPasses(a), UNCHANGED <<fiatVars, cryptoVars>>
  PROVE  Outcome
<1> DEFINE row == [subs[a] EXCEPT !.due = TRUE]
<1>1. subs[a] \in Row
  BY DEF IInv, TypeOK, SubTypeOK, RenewalPasses
<1>2. row \in Row /\ row.unlimited = Unlimited(a)
  BY <1>1, RowTypes DEF Row, Unlimited
<1> QED BY <1>2, InPlaceOutcome DEF RenewalPasses

LEMMA SubNextOutcome ==
  ASSUME IInv, SubNext, UNCHANGED <<fiatVars, cryptoVars>> PROVE Outcome
<1>1. "touch" \in Operations
  BY DEF Operations
<1> QED
  BY <1>1, EnsureReadOutcome, EnsureCreateOutcome, EnsureRollOutcome, TouchDoneOutcome,
     EditReadOutcome, EditWriteOutcome, DebitOutcome, RenewalPassesOutcome
     DEF SubNext

-----------------------------------------------------------------------------
(* The fiat rail.                                                          *)
LEMMA OrderTypes ==
  /\ Null \notin Order /\ Null \notin Orders /\ Null \notin Event
  /\ \A a \in Accounts : NewOrder(a) \in Order
BY FiatAssumption DEF FiatAssumption, NewOrder, Order, PaymentStatuses, FiatReasons

(* A write of one existing order that settles nothing and applies nothing. *)
LEMMA OrderWriteKeeps ==
  ASSUME TypeOK, ChargeShape, NEW o \in Orders, NEW row \in Order, orders[o] # Null,
         orders' = [orders EXCEPT ![o] = row],
         row.owner = orders[o].owner, row.applied = orders[o].applied,
         orders[o].status # "pending" => row.status # "pending",
         row.bound => Opened(o),
         UNCHANGED <<subs, charges, callbacks, claims, chain>>
  PROVE  RowsKeep /\ AccessKept /\ ChargeShape' /\ orders' \in [Orders -> Order \union {Null}]
<1>1. orders \in [Orders -> Order \union {Null}]
  BY DEF TypeOK, FiatTypeOK
<1>2. \A p \in Orders : orders'[p] = IF p = o THEN row ELSE orders[p]
  BY <1>1
<1>3. row # Null
  BY OrderTypes
<1>4. \A p \in Orders : AppliedOrder(p)' <=> AppliedOrder(p)
  BY <1>2, <1>3 DEF AppliedOrder
<1>5. \A p \in Orders : (Opened(p) => Opened(p)') /\ (Collected(p) => Collected(p)')
  BY DEF Opened, Collected
<1>6. \A p \in Orders : orders[p] # Null =>
        /\ orders'[p] # Null /\ orders'[p].owner = orders[p].owner
        /\ orders[p].status # "pending" =>
             orders'[p].status # "pending" /\ orders'[p].applied = orders[p].applied
  BY <1>2, <1>3
<1>7. ChargeShape'
  BY <1>2, <1>3 DEF ChargeShape, Opened
<1>8. orders' \in [Orders -> Order \union {Null}]
  BY <1>1
<1> QED BY <1>4, <1>5, <1>6, <1>7, <1>8, SubRowsKeep, CryptoRowsKeep
        DEF RowsKeep, AccessKept

(* The shape of a request that has just moved.                             *)
LEMMA MovedShape ==
  ASSUME NEW r \in Requests,
         \/ req'[r].at = "idle"
         \/ req'[r].at = "poll" /\ Opened(job[r].order)'
         \/ req'[r].at \in {"new", "ensured"} /\ req'[r].who # Null
         \/ req'[r].at \in {"charge", "stamp"},
         req'[r].at \in FiatSteps => job'[r].order # Null /\ orders'[job'[r].order] # Null
  PROVE  ReqShape(r)'
BY DEF ReqShape, AccountSteps, FiatSteps, HashSteps, ClaimedSteps

LEMMA CheckoutLookupOutcome ==
  ASSUME IInv, NEW r \in Requests, CheckoutLookup(r), UNCHANGED cryptoVars
  PROVE  Outcome
<1>1. TypeOK /\ ChargeShape /\ ReqShape(r) /\ req \in [Requests -> Request]
  BY DEF IInv, TypeOK, SubTypeOK
<1>2. req[r].who # Null
  BY <1>1 DEF CheckoutLookup, ReqShape, AccountSteps
<1>3. /\ req' \in [Requests -> Request]
      /\ \/ req'[r].at = "idle"
         \/ req'[r].at = "new" /\ req'[r].who = req[r].who
      /\ \A q \in Requests \ {r} : req'[q] = req[q]
  <2>1. CASE Goto(r, "new")
    BY <1>1, <2>1, GotoMoves DEF Locations
  <2>2. CASE Finish(r)
    <3>1. req'[r].at = "idle" /\ req' \in [Requests -> Request]
      BY <1>1, <2>2, FinishMoves
    <3>2. \A q \in Requests \ {r} : req'[q] = req[q]
      BY <1>1, <2>2, FinishMoves
    <3> QED BY <3>1, <3>2
  <2> QED BY <2>1, <2>2 DEF CheckoutLookup
<1>4. TypeOK'
  BY <1>1, <1>3 DEF CheckoutLookup, TypeOK, SubTypeOK, FiatTypeOK, CryptoTypeOK, fiatVars, cryptoVars
<1>5. RowsKeep /\ AccessKept /\ ChargeShape'
  BY <1>1, AllRowsKeep, ChargesKeep DEF CheckoutLookup, fiatVars, cryptoVars
<1>6. OnlyMoves(r)
  BY <1>3 DEF CheckoutLookup, OnlyMoves, fiatVars, cryptoVars
<1>7. ReqShape(r)'
  BY <1>2, <1>3, MovedShape DEF FiatSteps
<1> QED BY <1>4, <1>5, <1>6, <1>7, QuietOutcome

LEMMA CheckoutCreateOutcome ==
  ASSUME IInv, NEW r \in Requests, NEW o \in Orders, CheckoutCreate(r, o), UNCHANGED cryptoVars
  PROVE  Outcome
<1> DEFINE row == NewOrder(req[r].who)
<1>1. /\ TypeOK /\ ChargeShape /\ ReqShape(r)
      /\ req \in [Requests -> Request] /\ job \in [Requests -> Job]
      /\ orders \in [Orders -> Order \union {Null}] /\ charges \in [Orders -> Charge]
      /\ callbacks \subseteq Event
  BY DEF IInv, TypeOK, SubTypeOK, FiatTypeOK
<1>2. /\ orders[o] = Null
      /\ orders' = [orders EXCEPT ![o] = row]
      /\ charges' = [charges EXCEPT ![o] = [charges[o] EXCEPT !.status = "sent"]]
      /\ SetJob(r, o, Null, "none") /\ Goto(r, "charge")
      /\ UNCHANGED <<subs, callbacks, claims, chain, proof>>
  BY DEF CheckoutCreate, cryptoVars
<1>3. row \in Order /\ row # Null /\ row.applied = FALSE
  <2>1. req[r].who \in Accounts
    BY <1>1, LocalsTyped DEF AccountSteps, CheckoutCreate
  <2> QED BY <2>1, OrderTypes DEF NewOrder
<1>4. \A p \in Orders : orders'[p] = IF p = o THEN row ELSE orders[p]
  BY <1>1, <1>2
<1>5. [charges[o] EXCEPT !.status = "sent"] \in Charge
  BY <1>1 DEF Charge
<1>6. \A p \in Orders : p # o => charges'[p] = charges[p]
  BY <1>1, <1>2
<1>7. charges[o].status = "none"
  BY <1>1, <1>2 DEF ChargeShape
<1>8. \A p \in Orders : (Opened(p) => Opened(p)') /\ (Collected(p) => Collected(p)')
  BY <1>6, <1>7 DEF Opened, Collected
<1>9. \A p \in Orders : AppliedOrder(p)' <=> AppliedOrder(p)
  BY <1>2, <1>3, <1>4 DEF AppliedOrder
<1>10. RowsKeep /\ AccessKept
  BY <1>2, <1>4, <1>8, <1>9, SubRowsKeep, CryptoRowsKeep DEF RowsKeep, AccessKept
<1>11. ChargeShape'
  <2>1. \A e \in callbacks : e.order \in Orders /\ e.order # o
    BY <1>1, <1>7 DEF ChargeShape, Event, Opened
  <2>2. charges'[o].status = "sent" /\ row.bound = FALSE
    BY <1>1, <1>2 DEF Charge, NewOrder
  <2>3. \A p \in Orders : /\ orders'[p] = Null <=> charges'[p].status = "none"
                          /\ orders'[p] # Null /\ orders'[p].bound => Opened(p)'
    BY <1>1, <1>3, <1>4, <1>6, <2>2 DEF ChargeShape, Opened
  <2>4. \A e \in callbacks' :
          /\ Opened(e.order)' /\ e.exact = charges'[e.order].exact
          /\ e.status = "paid" => charges'[e.order].status \in {"paid", "refund"}
    BY <1>1, <1>2, <1>6, <2>1 DEF ChargeShape, Opened
  <2> QED BY <2>3, <2>4 DEF ChargeShape
<1>12. /\ job' \in [Requests -> Job] /\ job'[r].order = o
       /\ \A q \in Requests \ {r} : job'[q] = job[q]
  BY <1>1, <1>2, SetJobMoves DEF FiatReasons
<1>13. /\ req' \in [Requests -> Request] /\ req'[r].at = "charge"
       /\ \A q \in Requests \ {r} : req'[q] = req[q]
  BY <1>1, <1>2, GotoMoves DEF Locations
<1>14. TypeOK'
  <2>1. orders' \in [Orders -> Order \union {Null}] /\ charges' \in [Orders -> Charge]
    BY <1>1, <1>2, <1>3, <1>5
  <2> QED BY <1>1, <1>2, <1>12, <1>13, <2>1 DEF TypeOK, SubTypeOK, FiatTypeOK, CryptoTypeOK
<1>15. OnlyMoves(r)
  BY <1>2, <1>12, <1>13 DEF OnlyMoves
<1>16. ReqShape(r)'
  BY <1>3, <1>4, <1>12, <1>13, OrderTypes, MovedShape
<1> QED BY <1>10, <1>11, <1>14, <1>15, <1>16, QuietOutcome

(* A request that writes one order and ends.                               *)
LEMMA OrderEndOutcome ==
  ASSUME IInv, NEW r \in Requests, req[r].at \in FiatSteps, NEW row \in Order,
         orders' = [orders EXCEPT ![job[r].order] = row],
         row.owner = orders[job[r].order].owner,
         row.applied = orders[job[r].order].applied,
         orders[job[r].order].status # "pending" => row.status # "pending",
         row.bound => Opened(job[r].order),
         EndJob(r), UNCHANGED <<subs, charges, callbacks, cryptoVars>>
  PROVE  Outcome
<1>1. TypeOK /\ ChargeShape /\ ReqShape(r)
  BY DEF IInv
<1>2. job[r].order \in Orders /\ orders[job[r].order] # Null
  BY <1>1, LocalsTyped DEF ReqShape
<1>3. RowsKeep /\ AccessKept /\ ChargeShape' /\ orders' \in [Orders -> Order \union {Null}]
  BY <1>1, <1>2, OrderWriteKeeps DEF cryptoVars
<1>4. /\ req' \in [Requests -> Request] /\ job' \in [Requests -> Job]
      /\ req'[r].at = "idle"
      /\ \A q \in Requests \ {r} : req'[q] = req[q] /\ job'[q] = job[q]
  BY <1>1, EndJobMoves
<1>5. TypeOK'
  BY <1>1, <1>3, <1>4 DEF TypeOK, SubTypeOK, FiatTypeOK, CryptoTypeOK, cryptoVars
<1>6. OnlyMoves(r)
  BY <1>4 DEF OnlyMoves, cryptoVars
<1> QED BY <1>3, <1>4, <1>5, <1>6, IdleShape, QuietOutcome

(* The order a request works with is a row.                                *)
LEMMA JobRow ==
  ASSUME IInv, NEW r \in Requests, req[r].at \in FiatSteps
  PROVE  /\ job[r].order \in Orders /\ orders[job[r].order] \in Order
         /\ orders[job[r].order].bound => Opened(job[r].order)
         /\ charges[job[r].order].status # "none"
<1>1. /\ TypeOK /\ ReqShape(r) /\ ChargeShape
      /\ orders \in [Orders -> Order \union {Null}]
  BY DEF IInv, TypeOK, FiatTypeOK
<1>2. job[r].order \in Orders /\ orders[job[r].order] # Null
  BY <1>1, LocalsTyped DEF ReqShape
<1> QED BY <1>1, <1>2 DEF ChargeShape

LEMMA CheckoutBindOutcome ==
  ASSUME IInv, NEW r \in Requests, CheckoutBind(r), UNCHANGED cryptoVars
  PROVE  Outcome
<1> DEFINE o == job[r].order
           row == IF charges[o].exact
                    THEN [orders[o] EXCEPT !.bound = TRUE]
                    ELSE [orders[o] EXCEPT !.status = "failed",
                                           !.reason = "provider_amount_mismatch"]
<1>1. req[r].at \in FiatSteps
  BY DEF CheckoutBind, FiatSteps
<1>2. orders[o] \in Order /\ (orders[o].bound => Opened(o)) /\ Opened(o)
  BY <1>1, JobRow DEF CheckoutBind, Opened
<1>3. /\ row \in Order /\ row.owner = orders[o].owner /\ row.applied = orders[o].applied
      /\ orders[o].status # "pending" => row.status # "pending"
  BY <1>2 DEF Order, PaymentStatuses, FiatReasons
<1>4. orders' = [orders EXCEPT ![o] = row] /\ (row.bound => Opened(o))
  BY <1>2 DEF CheckoutBind
<1> QED BY <1>1, <1>3, <1>4, OrderEndOutcome DEF CheckoutBind

LEMMA CheckoutFailOutcome ==
  ASSUME IInv, NEW r \in Requests, CheckoutFail(r), UNCHANGED cryptoVars
  PROVE  Outcome
<1> DEFINE o == job[r].order
           row == [orders[o] EXCEPT !.status = "failed", !.reason = "provider_create_failed"]
<1>1. req[r].at \in FiatSteps
  BY DEF CheckoutFail, FiatSteps
<1>2. orders[o] \in Order /\ (orders[o].bound => Opened(o))
  BY <1>1, JobRow
<1>3. /\ row \in Order /\ row.owner = orders[o].owner /\ row.applied = orders[o].applied
      /\ orders[o].status # "pending" => row.status # "pending"
  BY <1>2 DEF Order, PaymentStatuses, FiatReasons
<1>4. orders' = [orders EXCEPT ![o] = row] /\ (row.bound => Opened(o))
  BY <1>2 DEF CheckoutFail, Order
<1> QED BY <1>1, <1>3, <1>4, OrderEndOutcome DEF CheckoutFail

LEMMA ApplyRejectOutcome ==
  ASSUME IInv, NEW r \in Requests, ApplyReject(r), UNCHANGED cryptoVars
  PROVE  Outcome
<1> DEFINE o == job[r].order
           row == [orders[o] EXCEPT !.reason = job[r].reason]
<1>1. req[r].at \in FiatSteps
  BY DEF ApplyReject, FiatSteps
<1>2. orders[o] \in Order /\ (orders[o].bound => Opened(o)) /\ job[r].reason \in FiatReasons
  BY <1>1, JobRow DEF IInv, TypeOK, FiatTypeOK, Job
<1>3. /\ row \in Order /\ row.owner = orders[o].owner /\ row.applied = orders[o].applied
      /\ orders[o].status # "pending" => row.status # "pending"
  BY <1>2 DEF Order
<1>4. orders' = [orders EXCEPT ![o] = row] /\ (row.bound => Opened(o))
  BY <1>2 DEF ApplyReject, Order
<1> QED BY <1>1, <1>3, <1>4, OrderEndOutcome DEF ApplyReject

LEMMA ApplyFailureOutcome ==
  ASSUME IInv, NEW r \in Requests, ApplyFailure(r), UNCHANGED cryptoVars
  PROVE  Outcome
<1> DEFINE o == job[r].order
           row == IF orders[o].status = "pending"
                    THEN [orders[o] EXCEPT !.status = job[r].event.status,
                                           !.reason = "provider_status"]
                    ELSE orders[o]
<1>1. req[r].at = "mark" /\ req[r].at \in FiatSteps
  BY DEF ApplyFailure, FiatSteps
<1>2. /\ orders[o] \in Order /\ (orders[o].bound => Opened(o))
      /\ o \in Orders /\ orders \in [Orders -> Order \union {Null}]
  BY <1>1, JobRow DEF IInv, TypeOK, FiatTypeOK
<1>3. job[r].event.status \in PaymentStatuses /\ job[r].event.status # "pending"
  <2>1. TypeOK /\ ReqShape(r)
    BY DEF IInv
  <2>2. job[r].event \in Event
    BY <1>1, <2>1, LocalsTyped
  <2> QED BY <1>1, <2>1, <2>2 DEF ReqShape, Event
<1>4. /\ row \in Order /\ row.owner = orders[o].owner /\ row.applied = orders[o].applied
      /\ orders[o].status # "pending" => row.status # "pending"
  BY <1>2, <1>3 DEF Order, FiatReasons
<1>5. orders' = [orders EXCEPT ![o] = row] /\ (row.bound => Opened(o))
  BY <1>2 DEF ApplyFailure, Order
<1> QED BY <1>1, <1>4, <1>5, OrderEndOutcome DEF ApplyFailure

(* A charge that moves on at the provider.                                 *)
LEMMA ChargeWriteKeeps ==
  ASSUME TypeOK, ChargeShape, NEW o \in Orders, NEW c \in Charge, NEW e \in Event,
         charges' = [charges EXCEPT ![o] = c],
         callbacks' = callbacks \/ callbacks' = callbacks \union {e},
         charges[o].status # "none",
         c.status # "none",
         Collected(o) => c.exact /\ c.status \in {"paid", "refund"},
         \/ charges[o].status = "sent"
         \/ /\ charges[o].status \in {"unpaid", "paid"} /\ c.exact = charges[o].exact
            /\ c.status \notin {"sent", "refused"}
            /\ charges[o].status = "paid" => c.status = "refund",
         callbacks' # callbacks =>
           /\ e.order = o /\ e.exact = c.exact /\ c.status \notin {"sent", "refused"}
           /\ e.status = "paid" => c.status \in {"paid", "refund"},
         UNCHANGED <<subs, orders, claims, chain>>
  PROVE  /\ RowsKeep /\ AccessKept /\ ChargeShape'
         /\ charges' \in [Orders -> Charge] /\ callbacks' \subseteq Event
<1>1. charges \in [Orders -> Charge] /\ callbacks \subseteq Event
  BY DEF TypeOK, FiatTypeOK
<1>2. \A p \in Orders : charges'[p] = IF p = o THEN c ELSE charges[p]
  BY <1>1
<1>3. \A p \in Orders : (Opened(p) => Opened(p)') /\ (Collected(p) => Collected(p)')
  BY <1>2 DEF Opened, Collected
<1>4. \A p \in Orders : AppliedOrder(p)' <=> AppliedOrder(p)
  BY DEF AppliedOrder
<1>5. RowsKeep /\ AccessKept
  BY <1>3, <1>4, SubRowsKeep, CryptoRowsKeep DEF RowsKeep, AccessKept
<1>6. ASSUME NEW f \in callbacks'
      PROVE  /\ Opened(f.order)'
             /\ f.exact = charges'[f.order].exact
             /\ f.status = "paid" => charges'[f.order].status \in {"paid", "refund"}
  <2>1. CASE f \in callbacks
    <3>1. f.order \in Orders
      BY <1>1, <2>1 DEF Event
    <3> QED BY <1>2, <2>1, <3>1 DEF ChargeShape, Opened
  <2>2. CASE f \notin callbacks
    <3>1. f = e /\ callbacks' # callbacks
      BY <1>6, <2>2
    <3> QED BY <1>2, <3>1 DEF Opened
  <2> QED BY <2>1, <2>2
<1>7. ChargeShape'
  BY <1>2, <1>3, <1>6 DEF ChargeShape
<1>8. charges' \in [Orders -> Charge] /\ callbacks' \subseteq Event
  BY <1>1
<1> QED BY <1>5, <1>7, <1>8

LEMMA ProviderOutcome ==
  ASSUME IInv, NEW o \in Orders, UNCHANGED <<subs, req, orders, job, cryptoVars>>,
         RowsKeep, AccessKept, ChargeShape',
         charges' \in [Orders -> Charge], callbacks' \subseteq Event
  PROVE  Outcome
<1>1. TypeOK'
  BY DEF IInv, TypeOK, SubTypeOK, FiatTypeOK, CryptoTypeOK, cryptoVars
<1> QED BY <1>1, OutsideOutcome DEF cryptoVars

LEMMA ProviderOpensOutcome ==
  ASSUME IInv, NEW o \in Orders, NEW exact \in Quotes, ProviderOpens(o, exact),
         UNCHANGED cryptoVars
  PROVE  Outcome
<1> DEFINE c == [status |-> "unpaid", exact |-> exact]
           e == [order |-> o, status |-> "pending", exact |-> exact]
<1>1. c \in Charge /\ e \in Event
  BY FiatAssumption DEF FiatAssumption, Charge, Event, PaymentStatuses
<1>2. charges[o].status = "sent" /\ TypeOK /\ ChargeShape
  BY DEF ProviderOpens, IInv
<1>3. ~Collected(o)
  BY <1>2 DEF Collected
<1>4. charges' = [charges EXCEPT ![o] = c] /\ callbacks' = callbacks \union {e}
  BY DEF ProviderOpens
<1>5. /\ RowsKeep /\ AccessKept /\ ChargeShape'
      /\ charges' \in [Orders -> Charge] /\ callbacks' \subseteq Event
  BY <1>1, <1>2, <1>3, <1>4, ChargeWriteKeeps DEF ProviderOpens, cryptoVars
<1> QED BY <1>5, ProviderOutcome DEF ProviderOpens

LEMMA ProviderRefusesOutcome ==
  ASSUME IInv, NEW o \in Orders, ProviderRefuses(o), UNCHANGED cryptoVars
  PROVE  Outcome
<1> DEFINE c == [charges[o] EXCEPT !.status = "refused"]
           e == [order |-> o, status |-> "pending", exact |-> TRUE]
<1>1. charges[o] \in Charge
  BY DEF IInv, TypeOK, FiatTypeOK
<1>2. c \in Charge /\ e \in Event /\ c.status = "refused"
  BY <1>1 DEF Charge, Event, PaymentStatuses
<1>3. charges[o].status = "sent" /\ TypeOK /\ ChargeShape
  BY DEF ProviderRefuses, IInv
<1>4. ~Collected(o)
  BY <1>3 DEF Collected
<1>5. charges' = [charges EXCEPT ![o] = c] /\ callbacks' = callbacks
  BY DEF ProviderRefuses
<1>6. /\ RowsKeep /\ AccessKept /\ ChargeShape'
      /\ charges' \in [Orders -> Charge] /\ callbacks' \subseteq Event
  BY <1>2, <1>3, <1>4, <1>5, ChargeWriteKeeps DEF ProviderRefuses, cryptoVars
<1> QED BY <1>6, ProviderOutcome DEF ProviderRefuses

LEMMA ProviderSettlesOutcome ==
  ASSUME IInv, NEW o \in Orders, NEW status \in PaymentStatuses, ProviderSettles(o, status),
         UNCHANGED cryptoVars
  PROVE  Outcome
<1> DEFINE c == [charges[o] EXCEPT !.status = status]
           e == [order |-> o, status |-> status, exact |-> charges[o].exact]
<1>1. charges[o] \in Charge /\ TypeOK /\ ChargeShape
  BY DEF IInv, TypeOK, FiatTypeOK
<1>2. \/ charges[o].status = "unpaid" /\ status \in {"paid", "expired", "failed"}
      \/ charges[o].status = "paid" /\ status = "refund"
  BY DEF ProviderSettles
<1>3. c \in Charge /\ e \in Event /\ c.status = status /\ c.exact = charges[o].exact
  BY <1>1, <1>2 DEF Charge, Event
<1>4. Collected(o) => c.exact /\ c.status \in {"paid", "refund"}
  BY <1>2, <1>3 DEF Collected
<1>5. charges' = [charges EXCEPT ![o] = c] /\ callbacks' = callbacks \union {e}
  BY DEF ProviderSettles
<1>6. UNCHANGED <<subs, orders, claims, chain>>
  BY DEF ProviderSettles, cryptoVars
<1>7. /\ RowsKeep /\ AccessKept /\ ChargeShape'
      /\ charges' \in [Orders -> Charge] /\ callbacks' \subseteq Event
  <2>1. charges[o].status # "none" /\ c.status # "none"
    BY <1>2, <1>3
  <2>2. \/ charges[o].status = "sent"
        \/ /\ charges[o].status \in {"unpaid", "paid"} /\ c.exact = charges[o].exact
           /\ c.status \notin {"sent", "refused"}
           /\ charges[o].status = "paid" => c.status = "refund"
    BY <1>2, <1>3
  <2>3. /\ e.order = o /\ e.exact = c.exact /\ c.status \notin {"sent", "refused"}
        /\ e.status = "paid" => c.status \in {"paid", "refund"}
    BY <1>2, <1>3
  <2> QED BY <1>1, <1>3, <1>4, <1>5, <1>6, <2>1, <2>2, <2>3, ChargeWriteKeeps
<1> QED BY <1>7, ProviderOutcome DEF ProviderSettles

LEMMA OrderAgesOutcome ==
  ASSUME IInv, NEW o \in Orders, OrderAges(o), UNCHANGED cryptoVars
  PROVE  Outcome
<1> DEFINE row == [orders[o] EXCEPT !.fresh = FALSE]
<1>1. orders[o] \in Order /\ TypeOK /\ ChargeShape /\ orders[o] # Null
  BY DEF IInv, TypeOK, FiatTypeOK, OrderAges
<1>2. /\ row \in Order /\ row.owner = orders[o].owner /\ row.applied = orders[o].applied
      /\ orders[o].status # "pending" => row.status # "pending"
  BY <1>1 DEF Order
<1>3. orders' = [orders EXCEPT ![o] = row] /\ (row.bound => Opened(o))
  BY <1>1 DEF OrderAges, Order, ChargeShape
<1>4. RowsKeep /\ AccessKept /\ ChargeShape' /\ orders' \in [Orders -> Order \union {Null}]
  BY <1>1, <1>2, <1>3, OrderWriteKeeps DEF OrderAges, cryptoVars
<1>5. TypeOK'
  BY <1>1, <1>4 DEF OrderAges, TypeOK, SubTypeOK, FiatTypeOK, CryptoTypeOK, cryptoVars
<1> QED BY <1>4, <1>5, OutsideOutcome DEF OrderAges, cryptoVars

(* What a verdict on an event implies about the row and the event.         *)
LEMMA VerdictFacts ==
  ASSUME NEW event \in Event
  PROVE  LET verdict == EvaluateCallback(Snapshot(event.order), CallbackOf(event), "tripay")
         IN  /\ verdict.action = "activate" =>
                  orders[event.order] # Null /\ event.status = "paid" /\ event.exact
             /\ verdict.action = "mark_failed" =>
                  orders[event.order] # Null /\ event.status # "pending"
             /\ verdict.action = "reject" /\ Snapshot(event.order) # Null =>
                  orders[event.order] # Null /\ verdict.reason \in FiatReasons
<1> DEFINE before == Snapshot(event.order)
           call == CallbackOf(event)
           verdict == EvaluateCallback(before, call, "tripay")
<1>1. Price # Price - 1
  BY FiatAssumption DEF FiatAssumption
<1>2. before # Null => orders[event.order] # Null
                       /\ before.provider = "tripay" /\ before.amount = Price
  BY DEF Snapshot
<1>3. call.status = event.status /\ (call.amountIdr = Price => event.exact)
  BY <1>1 DEF CallbackOf, Event
<1>4. verdict.action = "activate" =>
        before # Null /\ call.status = "paid" /\ call.amountIdr = before.amount
  BY DEF EvaluateCallback, Verdict
<1>5. verdict.action = "mark_failed" => before # Null /\ call.status # "pending"
  BY DEF EvaluateCallback, Verdict
<1>6. verdict.action = "reject" /\ before # Null /\ before.provider = "tripay"
        => verdict.reason \in {"reference_mismatch", "amount_mismatch"}
  BY DEF EvaluateCallback, Verdict
<1> QED BY <1>2, <1>3, <1>4, <1>5, <1>6 DEF FiatReasons

(* A request that takes an event through the gate.  The event speaks of a  *)
(* charge of this order, and truthfully.                                   *)
LEMMA ApplyVerifiedOutcome ==
  ASSUME IInv, NEW r \in Requests, NEW event \in Event, ApplyVerified(r, event),
         event.exact = charges[event.order].exact,
         event.status = "paid" => charges[event.order].status \in {"paid", "refund"},
         UNCHANGED <<subs, orders, charges, callbacks, cryptoVars>>
  PROVE  Outcome
<1> DEFINE o == event.order
           before == Snapshot(o)
           verdict == EvaluateCallback(before, CallbackOf(event), "tripay")
<1>1. /\ TypeOK /\ ChargeShape /\ o \in Orders
      /\ req \in [Requests -> Request] /\ job \in [Requests -> Job]
  BY DEF IInv, TypeOK, SubTypeOK, FiatTypeOK, Event
<1>2. UNCHANGED <<orders, charges, claims, chain, proof, subs, callbacks>>
  BY DEF cryptoVars
<1>3. o # Null /\ event # Null
  BY <1>1, OrderTypes
<1> DEFINE Moved == /\ req' \in [Requests -> Request] /\ job' \in [Requests -> Job]
                    /\ \A q \in Requests \ {r} : req'[q] = req[q] /\ job'[q] = job[q]
                    /\ ReqShape(r)'
<1>4. ASSUME verdict.action = "activate" PROVE Moved
  <2>1. Goto(r, "activate") /\ SetJob(r, o, event, "none")
    BY <1>4 DEF ApplyVerified
  <2>2. /\ req' \in [Requests -> Request] /\ req'[r].at = "activate"
        /\ \A q \in Requests \ {r} : req'[q] = req[q]
    BY <1>1, <2>1, GotoMoves DEF Locations
  <2>3. /\ job' \in [Requests -> Job] /\ job'[r].order = o /\ job'[r].event = event
        /\ \A q \in Requests \ {r} : job'[q] = job[q]
    BY <1>1, <2>1, SetJobMoves DEF FiatReasons
  <2>4. orders[o] # Null /\ Collected(o)
    BY <1>4, VerdictFacts DEF Collected
  <2>5. Collected(job[r].order)'
    BY <1>2, <2>3, <2>4 DEF Collected
  <2>6. ReqShape(r)'
    BY <1>2, <1>3, <2>2, <2>3, <2>4, <2>5
       DEF ReqShape, AccountSteps, FiatSteps, HashSteps, ClaimedSteps
  <2> QED BY <2>2, <2>3, <2>6
<1>5. ASSUME verdict.action = "mark_failed" PROVE Moved
  <2>1. Goto(r, "mark") /\ SetJob(r, o, event, "none")
    BY <1>5 DEF ApplyVerified
  <2>2. /\ req' \in [Requests -> Request] /\ req'[r].at = "mark"
        /\ \A q \in Requests \ {r} : req'[q] = req[q]
    BY <1>1, <2>1, GotoMoves DEF Locations
  <2>3. /\ job' \in [Requests -> Job] /\ job'[r].order = o /\ job'[r].event = event
        /\ \A q \in Requests \ {r} : job'[q] = job[q]
    BY <1>1, <2>1, SetJobMoves DEF FiatReasons
  <2>4. orders[o] # Null /\ event.status # "pending"
    BY <1>5, VerdictFacts
  <2>5. ReqShape(r)'
    BY <1>2, <1>3, <2>2, <2>3, <2>4
       DEF ReqShape, AccountSteps, FiatSteps, HashSteps, ClaimedSteps
  <2> QED BY <2>2, <2>3, <2>5
<1>6. ASSUME verdict.action = "reject" /\ before # Null /\ before.status = "pending" PROVE Moved
  <2>1. Goto(r, "stamp") /\ SetJob(r, o, event, verdict.reason)
    BY <1>6 DEF ApplyVerified
  <2>2. /\ req' \in [Requests -> Request] /\ req'[r].at = "stamp"
        /\ \A q \in Requests \ {r} : req'[q] = req[q]
    BY <1>1, <2>1, GotoMoves DEF Locations
  <2>3. orders[o] # Null /\ verdict.reason \in FiatReasons
    BY <1>6, VerdictFacts
  <2>4. /\ job' \in [Requests -> Job] /\ job'[r].order = o
        /\ \A q \in Requests \ {r} : job'[q] = job[q]
    BY <1>1, <2>1, <2>3, SetJobMoves
  <2>5. ReqShape(r)'
    BY <1>2, <1>3, <2>2, <2>3, <2>4, MovedShape
  <2> QED BY <2>2, <2>4, <2>5
<1>7. ASSUME EndJob(r) PROVE Moved
  <2>1. /\ req' \in [Requests -> Request] /\ job' \in [Requests -> Job]
        /\ req'[r].at = "idle"
        /\ \A q \in Requests \ {r} : req'[q] = req[q] /\ job'[q] = job[q]
    BY <1>1, <1>7, EndJobMoves
  <2> QED BY <2>1, IdleShape
<1>8. Moved
  BY <1>4, <1>5, <1>6, <1>7 DEF ApplyVerified
<1>9. TypeOK' /\ OnlyMoves(r)
  BY <1>1, <1>2, <1>8 DEF TypeOK, SubTypeOK, FiatTypeOK, CryptoTypeOK, OnlyMoves
<1>10. RowsKeep /\ AccessKept /\ ChargeShape'
  BY <1>1, <1>2, AllRowsKeep, ChargesKeep
<1> QED BY <1>8, <1>9, <1>10, QuietOutcome

LEMMA CallbackArrivesOutcome ==
  ASSUME IInv, NEW r \in Requests, NEW event \in callbacks, CallbackArrives(r, event),
         UNCHANGED cryptoVars
  PROVE  Outcome
<1>1. event \in Event /\ ChargeShape
  BY DEF IInv, TypeOK, FiatTypeOK
<1>2. /\ event.exact = charges[event.order].exact
      /\ event.status = "paid" => charges[event.order].status \in {"paid", "refund"}
  BY <1>1 DEF ChargeShape
<1> QED BY <1>1, <1>2, ApplyVerifiedOutcome DEF CallbackArrives

LEMMA PollBeginOutcome ==
  ASSUME IInv, NEW r \in Requests, NEW o \in Orders, PollBegin(r, o), UNCHANGED cryptoVars
  PROVE  Outcome
<1>1. TypeOK /\ ChargeShape /\ req \in [Requests -> Request] /\ job \in [Requests -> Job]
  BY DEF IInv, TypeOK, SubTypeOK, FiatTypeOK
<1>2. /\ req' \in [Requests -> Request] /\ req'[r].at = "poll"
      /\ \A q \in Requests \ {r} : req'[q] = req[q]
  BY <1>1, GotoMoves DEF Locations, PollBegin
<1>3. /\ job' \in [Requests -> Job] /\ job'[r].order = o
      /\ \A q \in Requests \ {r} : job'[q] = job[q]
  BY <1>1, SetJobMoves DEF PollBegin, FiatReasons
<1>4. TypeOK' /\ OnlyMoves(r)
  BY <1>1, <1>2, <1>3 DEF PollBegin, TypeOK, SubTypeOK, FiatTypeOK, CryptoTypeOK, OnlyMoves, cryptoVars
<1>5. RowsKeep /\ AccessKept /\ ChargeShape'
  BY <1>1, AllRowsKeep, ChargesKeep DEF PollBegin, cryptoVars
<1>6. ReqShape(r)'
  <2>1. orders[o] # Null /\ Opened(o)
    BY <1>1 DEF PollBegin, ChargeShape
  <2>2. Opened(job[r].order)' /\ orders'[o] # Null
    BY <1>3, <2>1 DEF PollBegin, Opened
  <2> QED BY <1>2, <1>3, <2>2, OrderTypes, MovedShape
<1> QED BY <1>4, <1>5, <1>6, QuietOutcome

LEMMA PollAnswerOutcome ==
  ASSUME IInv, NEW r \in Requests, PollAnswer(r), UNCHANGED cryptoVars
  PROVE  Outcome
<1> DEFINE o == job[r].order
<1>1. /\ TypeOK /\ ChargeShape /\ ReqShape(r) /\ req[r].at = "poll" /\ o \in Orders
      /\ proof \in [Requests -> Proof] /\ charges[o] \in Charge /\ Opened(o)
  <2>1. req[r].at = "poll" /\ "poll" \in FiatSteps
    BY DEF PollAnswer, FiatSteps
  <2> QED BY <2>1, JobRow DEF IInv, TypeOK, FiatTypeOK, CryptoTypeOK, ReqShape
<1>2. CASE Reported(charges[o].status) = "pending"
  <2>1. EndJob(r)
    BY <1>2 DEF PollAnswer
  <2>2. /\ req' \in [Requests -> Request] /\ job' \in [Requests -> Job]
        /\ req'[r].at = "idle"
        /\ \A q \in Requests \ {r} : req'[q] = req[q] /\ job'[q] = job[q]
    BY <1>1, <2>1, EndJobMoves
  <2>3. UNCHANGED <<subs, orders, charges, callbacks, claims, chain, proof>>
    BY DEF PollAnswer, cryptoVars
  <2>4. OnlyMoves(r) /\ proof' \in [Requests -> Proof]
    BY <1>1, <2>2, <2>3 DEF OnlyMoves
  <2> QED BY <2>2, <2>3, <2>4, EndingOutcome
<1>3. CASE Reported(charges[o].status) # "pending"
  <2>1. EventOf(o).order = o /\ EventOf(o).exact = charges[o].exact
        /\ (EventOf(o).status = "paid" => charges[o].status = "paid")
    BY DEF EventOf, Reported
  <2>2. ApplyVerified(r, EventOf(o))
    BY <1>3 DEF PollAnswer
  <2>3. EventOf(o) \in Event
    BY <1>1 DEF Opened, EventOf, Reported, Charge, Event, PaymentStatuses
  <2> QED BY <2>1, <2>2, <2>3, ApplyVerifiedOutcome DEF PollAnswer
<1> QED BY <1>2, <1>3

-----------------------------------------------------------------------------
(* Grants.                                                                 *)
LEMMA GrantUnlimitedKeeps ==
  ASSUME TypeOK, NEW a \in Accounts, GrantUnlimited(a)
  PROVE  /\ subs' \in [Accounts -> Row \union {Null}]
         /\ \A b \in Accounts : subs[b] # Null => subs'[b] # Null
         /\ \A b \in Accounts : Unlimited(b)' <=> b = a \/ Unlimited(b)
<1>1. subs \in [Accounts -> Row \union {Null}]
  BY DEF TypeOK, SubTypeOK
<1>2. GrantedRow(subs[a]) \in Row /\ GrantedRow(subs[a]).unlimited = TRUE
  BY <1>1, RowTypes DEF GrantedRow
<1>3. \A b \in Accounts : subs'[b] = IF b = a THEN GrantedRow(subs[a]) ELSE subs[b]
  BY <1>1 DEF GrantUnlimited
<1>4. subs' \in [Accounts -> Row \union {Null}]
  BY <1>1, <1>2 DEF GrantUnlimited
<1> QED BY <1>2, <1>3, <1>4, RowTypes DEF Unlimited

(* A step that spends one unspent payment for the account it entitles is a *)
(* Grant of the promise.                                                   *)
LEMMA GrantRefines ==
  ASSUME NEW a \in Accounts, NEW e \in Evidence, Spent[e] = Null,
         \A x \in Evidence : Spent'[x] = IF x = e THEN a ELSE Spent[x],
         \A b \in Accounts : Unlimited(b)' <=> b = a \/ Unlimited(b)
  PROVE  GrantStep
<1>1. Spent' = [Spent EXCEPT ![e] = a]
  <2>1. Spent = [x \in Evidence |-> Spent[x]]
    BY DEF Spent
  <2>2. Spent' = [x \in Evidence |-> Spent'[x]]
    BY DEF Spent, Evidence
  <2>3. Spent' = [x \in Evidence |-> IF x = e THEN a ELSE Spent[x]]
    BY <2>2
  <2> QED BY <2>1, <2>3
<1>2. {b \in Accounts : Unlimited(b)}' = {b \in Accounts : Unlimited(b)} \union {a}
  OBVIOUS
<1>3. Promise!Grant(a, e)
  BY <1>1, <1>2 DEF Promise!Grant
<1> QED BY <1>3 DEF GrantStep

LEMMA SpentIs ==
  /\ \A o \in Orders : Spent[o] = IF AppliedOrder(o) THEN orders[o].owner ELSE Null
  /\ \A h \in Hashes : Spent[h] = IF AppliedHash(h) THEN claims[h].owner ELSE Null
BY BillingAssumption DEF BillingAssumption, Spent, Evidence

LEMMA SpentIsNext ==
  /\ \A o \in Orders : Spent'[o] = IF AppliedOrder(o)' THEN orders'[o].owner ELSE Null
  /\ \A h \in Hashes : Spent'[h] = IF AppliedHash(h)' THEN claims'[h].owner ELSE Null
BY BillingAssumption DEF BillingAssumption, Spent, Evidence, AppliedOrder, AppliedHash

LEMMA ApplyActivateOutcome ==
  ASSUME IInv, NEW r \in Requests, ApplyActivate(r), UNCHANGED cryptoVars
  PROVE  Outcome
<1> DEFINE o == job[r].order
           a == orders[o].owner
           row == [orders[o] EXCEPT !.status = "paid", !.bound = TRUE,
                                    !.reason = "none", !.applied = TRUE]
<1>1. /\ TypeOK /\ ReqShape(r) /\ ChargeShape /\ AppliedShape /\ UnlimitedIffApplied
      /\ orders \in [Orders -> Order \union {Null}]
      /\ proof \in [Requests -> Proof]
  BY DEF IInv, TypeOK, FiatTypeOK, CryptoTypeOK
<1>2. req[r].at = "activate" /\ req[r].at \in FiatSteps
  BY DEF ApplyActivate, FiatSteps
<1>3. o \in Orders /\ orders[o] \in Order /\ orders[o] # Null
  BY <1>2, JobRow, OrderTypes
<1>4. Collected(o) /\ Opened(o)
  BY <1>1, <1>2 DEF ReqShape, Collected, Opened
<1>5. /\ req' \in [Requests -> Request] /\ job' \in [Requests -> Job]
      /\ req'[r].at = "idle"
      /\ \A q \in Requests \ {r} : req'[q] = req[q] /\ job'[q] = job[q]
  BY <1>1, EndJobMoves DEF ApplyActivate
<1>6. UNCHANGED <<charges, callbacks, claims, chain, proof>>
  BY DEF ApplyActivate, cryptoVars
<1>7. OnlyMoves(r)
  BY <1>5, <1>6 DEF OnlyMoves
<1>8. CASE orders[o].status # "pending"
  <2>1. UNCHANGED <<orders, subs>>
    BY <1>8 DEF ApplyActivate
  <2> QED BY <1>1, <1>5, <1>6, <1>7, <2>1, EndingOutcome
<1>9. CASE orders[o].status = "pending"
  <2>1. orders' = [orders EXCEPT ![o] = row] /\ GrantUnlimited(a)
    BY <1>9 DEF ApplyActivate
  <2>2. row \in Order /\ row # Null /\ row.owner = a /\ row.status = "paid" /\ row.applied = TRUE
    BY <1>3, OrderTypes DEF Order, PaymentStatuses, FiatReasons
  <2>3. \A p \in Orders : orders'[p] = IF p = o THEN row ELSE orders[p]
    BY <1>1, <2>1
  <2>4. a \in Accounts /\ ~AppliedOrder(o)
    BY <1>1, <1>3, <1>9 DEF Order, AppliedShape
  <2>5. /\ subs' \in [Accounts -> Row \union {Null}]
        /\ \A b \in Accounts : subs[b] # Null => subs'[b] # Null
        /\ \A b \in Accounts : Unlimited(b)' <=> b = a \/ Unlimited(b)
    BY <1>1, <2>1, <2>4, GrantUnlimitedKeeps
  <2>6. \A p \in Orders : AppliedOrder(p)' <=> p = o \/ AppliedOrder(p)
    BY <2>2, <2>3 DEF AppliedOrder
  <2>7. /\ \A h \in Hashes : AppliedHash(h)' <=> AppliedHash(h)
        /\ \A h \in Hashes : Delivered(h) => Delivered(h)'
        /\ \A p \in Orders : (Opened(p) => Opened(p)') /\ (Collected(p) => Collected(p)')
    BY <1>6 DEF AppliedHash, Delivered, Opened, Collected
  <2>8. RowsKeep
    <3>1. \A p \in Orders : orders[p] # Null =>
            /\ orders'[p] # Null /\ orders'[p].owner = orders[p].owner
            /\ orders[p].status # "pending" =>
                 orders'[p].status # "pending" /\ orders'[p].applied = orders[p].applied
      BY <1>9, <2>2, <2>3
    <3> QED BY <1>6, <2>5, <2>7, <3>1, CryptoRowsKeep DEF RowsKeep
  <2>9. ChargeShape'
    <3>1. \A p \in Orders : /\ orders'[p] = Null <=> charges'[p].status = "none"
                            /\ orders'[p] # Null /\ orders'[p].bound => Opened(p)'
      BY <1>1, <1>3, <1>4, <1>6, <2>2, <2>3, <2>7 DEF ChargeShape
    <3> QED BY <1>1, <1>6, <3>1 DEF ChargeShape, Opened
  <2>10. AppliedShape'
    <3>1. \A p \in Orders : AppliedOrder(p)' => orders'[p].status # "pending" /\ Collected(p)'
      BY <1>1, <1>4, <2>2, <2>3, <2>6, <2>7 DEF AppliedShape
    <3>2. \A h \in Hashes : AppliedHash(h)' => claims'[h].status # "pending" /\ Delivered(h)'
      BY <1>1, <1>6, <2>7 DEF AppliedShape
    <3> QED BY <3>1, <3>2 DEF AppliedShape
  <2>11. UnlimitedIffApplied'
    <3>1. \A p \in Orders : AppliedOrder(p)' =>
            orders'[p].owner = IF p = o THEN a ELSE orders[p].owner
      BY <2>2, <2>3
    <3>2. \A h \in Hashes : claims'[h] = claims[h]
      BY <1>6
    <3>3. ASSUME NEW b \in Accounts
          PROVE  Unlimited(b)' <=>
                   \/ \E p \in Orders : AppliedOrder(p)' /\ orders'[p].owner = b
                   \/ \E h \in Hashes : AppliedHash(h)' /\ claims'[h].owner = b
      <4>1. (\E p \in Orders : AppliedOrder(p)' /\ orders'[p].owner = b)
              <=> b = a \/ \E p \in Orders : AppliedOrder(p) /\ orders[p].owner = b
        BY <1>3, <2>4, <2>6, <3>1
      <4>2. (\E h \in Hashes : AppliedHash(h)' /\ claims'[h].owner = b)
              <=> \E h \in Hashes : AppliedHash(h) /\ claims[h].owner = b
        BY <2>7, <3>2
      <4> QED BY <1>1, <2>5, <4>1, <4>2 DEF UnlimitedIffApplied
    <3> QED BY <3>3 DEF UnlimitedIffApplied
  <2>12. TypeOK'
    <3>1. orders' \in [Orders -> Order \union {Null}]
      BY <1>1, <2>1, <2>2
    <3> QED BY <1>1, <1>5, <1>6, <2>5, <3>1 DEF TypeOK, SubTypeOK, FiatTypeOK, CryptoTypeOK
  <2>13. \A q \in Requests : ReqShape(q)'
    BY <1>5, <1>7, <2>8, OthersKeep, IdleShape DEF IInv, OnlyMoves
  <2>14. GrantStep
    <3>1. o \in Evidence /\ Spent[o] = Null
      BY <1>3, <2>4, SpentIs DEF Evidence
    <3>2. \A x \in Orders : Spent'[x] = IF x = o THEN a ELSE Spent[x]
      <4>1. Spent'[o] = a
        BY <1>3, <2>2, <2>3, <2>6, SpentIsNext
      <4>2. ASSUME NEW x \in Orders, x # o PROVE Spent'[x] = Spent[x]
        <5>1. orders'[x] = orders[x] /\ (AppliedOrder(x)' <=> AppliedOrder(x))
          BY <2>3, <2>6, <4>2
        <5> QED BY <5>1, SpentIs, SpentIsNext
      <4> QED BY <4>1, <4>2
    <3>3. \A x \in Hashes : x # o /\ Spent'[x] = Spent[x]
      BY <1>3, <1>6, <2>7, SpentIs, SpentIsNext, BillingAssumption DEF BillingAssumption
    <3> QED BY <2>4, <2>5, <3>1, <3>2, <3>3, GrantRefines DEF Evidence
  <2> QED BY <2>8, <2>9, <2>10, <2>11, <2>12, <2>13, <2>14 DEF Outcome, IInv
<1> QED BY <1>8, <1>9

LEMMA FiatNextOutcome ==
  ASSUME IInv, FiatNext, UNCHANGED cryptoVars PROVE Outcome
<1>1. CASE CheckoutNext
  <2>1. ASSUME NEW r \in Requests, NEW a \in Accounts, CheckoutBegin(r, a) PROVE Outcome
    <3>1. "checkout" \in Operations
      BY DEF Operations
    <3> QED BY <2>1, <3>1, EnsureReadOutcome DEF CheckoutBegin
  <2> QED BY <1>1, <2>1, CheckoutLookupOutcome, CheckoutCreateOutcome, CheckoutBindOutcome,
             CheckoutFailOutcome DEF CheckoutNext
<1>2. CASE ProviderNext
  BY <1>2, ProviderOpensOutcome, ProviderRefusesOutcome, ProviderSettlesOutcome,
     OrderAgesOutcome DEF ProviderNext
<1>3. CASE ApplyNext
  BY <1>3, CallbackArrivesOutcome, PollBeginOutcome, PollAnswerOutcome, ApplyRejectOutcome,
     ApplyFailureOutcome, ApplyActivateOutcome DEF ApplyNext
<1> QED BY <1>1, <1>2, <1>3 DEF FiatNext

-----------------------------------------------------------------------------
(* The on-chain rail.                                                      *)
LEMMA ClaimTypes ==
  /\ Null \notin Claim /\ Null \notin Hashes
  /\ \A a \in Accounts : NewClaim(a) \in Claim
BY CryptoAssumption DEF CryptoAssumption, NewClaim, Claim, CryptoReasons

(* A write of one claim that settles nothing and applies nothing.          *)
LEMMA ClaimWriteKeeps ==
  ASSUME TypeOK, NEW h \in Hashes, NEW row \in Claim,
         claims' = [claims EXCEPT ![h] = row],
         claims[h] = Null => row.applied = FALSE,
         claims[h] # Null =>
           /\ row.owner = claims[h].owner /\ row.applied = claims[h].applied
           /\ claims[h].status # "pending" => row.status # "pending",
         UNCHANGED <<subs, orders, charges, chain>>
  PROVE  RowsKeep /\ AccessKept /\ claims' \in [Hashes -> Claim \union {Null}]
<1>1. claims \in [Hashes -> Claim \union {Null}]
  BY DEF TypeOK, CryptoTypeOK
<1>2. \A k \in Hashes : claims'[k] = IF k = h THEN row ELSE claims[k]
  BY <1>1
<1>3. row # Null /\ row.applied \in BOOLEAN
  BY ClaimTypes DEF Claim
<1>4. \A k \in Hashes : AppliedHash(k)' <=> AppliedHash(k)
  BY <1>2, <1>3 DEF AppliedHash
<1>5. \A k \in Hashes : Delivered(k) => Delivered(k)'
  BY DEF Delivered
<1>6. \A k \in Hashes : claims[k] # Null =>
        /\ claims'[k] # Null /\ claims'[k].owner = claims[k].owner
        /\ claims[k].status # "pending" =>
             claims'[k].status # "pending" /\ claims'[k].applied = claims[k].applied
  BY <1>2, <1>3
<1>7. claims' \in [Hashes -> Claim \union {Null}]
  BY <1>1
<1> QED BY <1>4, <1>5, <1>6, <1>7, SubRowsKeep, FiatRowsKeep DEF RowsKeep, AccessKept

(* Every step of a submission moves its request alone.                     *)
LEMMA SubmitStep ==
  ASSUME IInv, NEW r \in Requests, RowsKeep, AccessKept, ReqShape(r)',
         req' \in [Requests -> Request], proof' \in [Requests -> Proof],
         claims' \in [Hashes -> Claim \union {Null}],
         \A q \in Requests \ {r} : req'[q] = req[q] /\ proof'[q] = proof[q],
         UNCHANGED <<subs, chain, fiatVars>>
  PROVE  Outcome
<1>1. TypeOK'
  BY DEF IInv, TypeOK, SubTypeOK, FiatTypeOK, CryptoTypeOK, fiatVars
<1>2. OnlyMoves(r)
  BY DEF OnlyMoves, fiatVars
<1>3. ChargeShape'
  BY ChargesKeep DEF IInv, fiatVars
<1> QED BY <1>1, <1>2, <1>3, QuietOutcome

LEMMA SetHashMoves ==
  ASSUME TypeOK, NEW r \in Requests, NEW h \in Hashes,
         proof' = [proof EXCEPT ![r].hash = h]
  PROVE  /\ proof' \in [Requests -> Proof] /\ proof'[r].hash = h
         /\ \A q \in Requests \ {r} : proof'[q] = proof[q]
<1>1. proof \in [Requests -> Proof]
  BY DEF TypeOK, CryptoTypeOK
<1>2. [proof[r] EXCEPT !.hash = h] \in Proof /\ [proof[r] EXCEPT !.hash = h].hash = h
  BY <1>1 DEF Proof
<1>3. proof' = [proof EXCEPT ![r] = [proof[r] EXCEPT !.hash = h]]
  OBVIOUS
<1> QED BY <1>1, <1>2, <1>3

LEMMA SetReasonMoves ==
  ASSUME TypeOK, NEW r \in Requests, NEW reason \in CryptoReasons,
         proof' = [proof EXCEPT ![r].reason = reason]
  PROVE  /\ proof' \in [Requests -> Proof] /\ proof'[r].hash = proof[r].hash
         /\ \A q \in Requests \ {r} : proof'[q] = proof[q]
<1>1. proof \in [Requests -> Proof]
  BY DEF TypeOK, CryptoTypeOK
<1>2. /\ [proof[r] EXCEPT !.reason = reason] \in Proof
      /\ [proof[r] EXCEPT !.reason = reason].hash = proof[r].hash
  BY <1>1 DEF Proof
<1>3. proof' = [proof EXCEPT ![r] = [proof[r] EXCEPT !.reason = reason]]
  OBVIOUS
<1> QED BY <1>1, <1>2, <1>3

(* A row found for the hash is the caller's own pending one, or the end.   *)
LEMMA ResolveExistingMoves ==
  ASSUME TypeOK, NEW r \in Requests, NEW h \in Hashes, req[r].who # Null,
         claims[h] # Null, ResolveExisting(r, h), UNCHANGED <<claims>>
  PROVE  /\ req' \in [Requests -> Request] /\ proof' \in [Requests -> Proof]
         /\ \A q \in Requests \ {r} : req'[q] = req[q] /\ proof'[q] = proof[q]
         /\ ReqShape(r)'
<1>1. req \in [Requests -> Request]
  BY DEF TypeOK, SubTypeOK
<1>2. CASE claims[h].owner = req[r].who /\ claims[h].status = "pending"
  <2>1. Goto(r, "verify") /\ proof' = [proof EXCEPT ![r].hash = h]
    BY <1>2 DEF ResolveExisting
  <2>2. /\ req' \in [Requests -> Request] /\ req'[r].at = "verify" /\ req'[r].who = req[r].who
        /\ \A q \in Requests \ {r} : req'[q] = req[q]
    BY <1>1, <2>1, GotoMoves DEF Locations
  <2>3. /\ proof' \in [Requests -> Proof] /\ proof'[r].hash = h
        /\ \A q \in Requests \ {r} : proof'[q] = proof[q]
    BY <2>1, SetHashMoves
  <2>4. ReqShape(r)'
    BY <1>2, <2>2, <2>3, ClaimTypes DEF ReqShape, AccountSteps, FiatSteps, HashSteps, ClaimedSteps
  <2> QED BY <2>2, <2>3, <2>4
<1>3. CASE EndProof(r)
  BY <1>3, EndProofMoves, IdleShape
<1> QED BY <1>2, <1>3 DEF ResolveExisting

LEMMA SubmitLookupOutcome ==
  ASSUME IInv, NEW r \in Requests, NEW h \in Hashes, SubmitLookup(r, h), UNCHANGED fiatVars
  PROVE  Outcome
<1>1. /\ TypeOK /\ ReqShape(r) /\ req \in [Requests -> Request]
      /\ claims \in [Hashes -> Claim \union {Null}]
  BY DEF IInv, TypeOK, SubTypeOK, CryptoTypeOK
<1>2. UNCHANGED <<subs, claims, chain, fiatVars>>
  BY DEF SubmitLookup
<1>3. RowsKeep /\ AccessKept
  BY <1>2, AllRowsKeep DEF fiatVars
<1>4. req[r].who # Null
  BY <1>1 DEF SubmitLookup, ReqShape, AccountSteps
<1> DEFINE Moved == /\ req' \in [Requests -> Request] /\ proof' \in [Requests -> Proof]
                    /\ \A q \in Requests \ {r} : req'[q] = req[q] /\ proof'[q] = proof[q]
                    /\ ReqShape(r)'
<1>5. ASSUME EndProof(r) PROVE Moved
  BY <1>1, <1>5, EndProofMoves, IdleShape
<1>6. ASSUME Goto(r, "claim"), proof' = [proof EXCEPT ![r].hash = h] PROVE Moved
  <2>1. /\ req' \in [Requests -> Request] /\ req'[r].at = "claim" /\ req'[r].who = req[r].who
        /\ \A q \in Requests \ {r} : req'[q] = req[q]
    BY <1>1, <1>6, GotoMoves DEF Locations
  <2>2. /\ proof' \in [Requests -> Proof] /\ proof'[r].hash = h
        /\ \A q \in Requests \ {r} : proof'[q] = proof[q]
    BY <1>1, <1>6, SetHashMoves
  <2>3. ReqShape(r)'
    BY <1>4, <2>1, <2>2, ClaimTypes DEF ReqShape, AccountSteps, FiatSteps, HashSteps, ClaimedSteps
  <2> QED BY <2>1, <2>2, <2>3
<1>7. ASSUME claims[h] # Null, ResolveExisting(r, h) PROVE Moved
  BY <1>1, <1>2, <1>4, <1>7, ResolveExistingMoves
<1>8. Moved
  BY <1>5, <1>6, <1>7 DEF SubmitLookup
<1> QED BY <1>1, <1>2, <1>3, <1>8, SubmitStep

LEMMA SubmitClaimOutcome ==
  ASSUME IInv, NEW r \in Requests, SubmitClaim(r), UNCHANGED fiatVars
  PROVE  Outcome
<1> DEFINE h == proof[r].hash
           row == NewClaim(req[r].who)
<1>1. /\ TypeOK /\ ReqShape(r) /\ req \in [Requests -> Request] /\ req[r].at = "claim"
      /\ claims \in [Hashes -> Claim \union {Null}] /\ proof \in [Requests -> Proof]
  BY DEF IInv, TypeOK, SubTypeOK, CryptoTypeOK, SubmitClaim
<1>2. h \in Hashes /\ req[r].who \in Accounts
  BY <1>1, LocalsTyped DEF AccountSteps, HashSteps
<1>3. row \in Claim /\ row.owner = req[r].who /\ row.applied = FALSE /\ row # Null
  BY <1>2, ClaimTypes DEF NewClaim
<1>4. UNCHANGED <<subs, chain, proof, fiatVars>> /\ UNCHANGED <<orders, charges>>
  BY DEF SubmitClaim, fiatVars
<1>5. h # Null /\ req[r].who # Null
  BY <1>2, ClaimTypes, RowTypes
<1>6. CASE claims[h] = Null
  <2>1. claims' = [claims EXCEPT ![h] = row] /\ Goto(r, "verify")
    BY <1>6 DEF SubmitClaim
  <2>2. RowsKeep /\ AccessKept /\ claims' \in [Hashes -> Claim \union {Null}]
    BY <1>1, <1>2, <1>3, <1>4, <1>6, <2>1, ClaimWriteKeeps
  <2>3. /\ req' \in [Requests -> Request] /\ req'[r].at = "verify" /\ req'[r].who = req[r].who
        /\ \A q \in Requests \ {r} : req'[q] = req[q]
    BY <1>1, <2>1, GotoMoves DEF Locations
  <2>4. claims'[h] = row /\ proof'[r].hash = h
    BY <1>1, <1>2, <1>4, <2>1
  <2>5. ReqShape(r)'
    BY <1>3, <1>5, <2>3, <2>4 DEF ReqShape, AccountSteps, FiatSteps, HashSteps, ClaimedSteps
  <2> QED BY <1>1, <1>4, <2>2, <2>3, <2>5, SubmitStep
<1>7. CASE claims[h] # Null
  <2>1. UNCHANGED claims /\ Goto(r, "reread")
    BY <1>7 DEF SubmitClaim
  <2>2. RowsKeep /\ AccessKept
    BY <1>4, <2>1, AllRowsKeep
  <2>3. /\ req' \in [Requests -> Request] /\ req'[r].at = "reread" /\ req'[r].who = req[r].who
        /\ \A q \in Requests \ {r} : req'[q] = req[q]
    BY <1>1, <2>1, GotoMoves DEF Locations
  <2>4. ReqShape(r)'
    BY <1>4, <1>5, <1>7, <2>1, <2>3 DEF ReqShape, AccountSteps, FiatSteps, HashSteps, ClaimedSteps
  <2> QED BY <1>1, <1>4, <2>1, <2>2, <2>3, <2>4, SubmitStep
<1> QED BY <1>6, <1>7

LEMMA SubmitRereadOutcome ==
  ASSUME IInv, NEW r \in Requests, SubmitReread(r), UNCHANGED fiatVars
  PROVE  Outcome
<1>1. TypeOK /\ ReqShape(r) /\ req[r].at = "reread" /\ claims \in [Hashes -> Claim \union {Null}]
  BY DEF IInv, TypeOK, CryptoTypeOK, SubmitReread
<1>2. proof[r].hash \in Hashes /\ req[r].who # Null /\ claims[proof[r].hash] # Null
  BY <1>1, LocalsTyped DEF ReqShape, AccountSteps, HashSteps
<1>3. UNCHANGED <<subs, claims, chain, fiatVars>> /\ ResolveExisting(r, proof[r].hash)
  BY DEF SubmitReread
<1>4. /\ req' \in [Requests -> Request] /\ proof' \in [Requests -> Proof]
      /\ \A q \in Requests \ {r} : req'[q] = req[q] /\ proof'[q] = proof[q]
      /\ ReqShape(r)'
  BY <1>1, <1>2, <1>3, ResolveExistingMoves
<1>5. RowsKeep /\ AccessKept
  BY <1>3, AllRowsKeep DEF fiatVars
<1> QED BY <1>1, <1>3, <1>4, <1>5, SubmitStep

(* A node's answer activates only if the transfer is final and complete.   *)
LEMMA ObservationFacts ==
  ASSUME NEW h \in Hashes, NEW seen \in Observations(h)
  PROVE  LET verdict == EvaluateCryptoTransaction(seen, Expectation, Now)
         IN  /\ verdict.reason \in CryptoReasons
             /\ verdict.action = "activate" => Delivered(h)
<1> DEFINE verdict == EvaluateCryptoTransaction(seen, Expectation, Now)
<1>1. verdict.reason \in CryptoReasons
  BY DEF EvaluateCryptoTransaction, CryptoVerdict, CryptoReasons, TerminalCryptoReasons
<1>2. verdict.action = "activate" =>
        /\ seen.found /\ seen.mined
        /\ ~(seen.confirmations < 2) /\ ~(seen.received < 2)
  BY DEF EvaluateCryptoTransaction, CryptoVerdict, Expectation
<1>3. ~NotFound.found /\ ~OtherChain.found /\ ~InMempool.mined
  BY DEF NotFound, OtherChain, InMempool
<1>4. ASSUME NEW effect, NEW n \in {1, 2}, NEW t
      PROVE  /\ Mined(effect, n, t).confirmations = n
             /\ ~(Mined(effect, n, t).received < 2) => effect = "good"
  <2>1. Mined(effect, n, t).confirmations = n
    BY DEF Mined, InMempool, NotFound
  <2>2. effect = "short" => Mined(effect, n, t).received = 1
    BY DEF Mined, InMempool, NotFound
  <2>3. effect # "good" /\ effect # "short" => Mined(effect, n, t).received = 0
    BY DEF Mined, InMempool, NotFound
  <2> QED BY <2>1, <2>2, <2>3
<1>5. \/ seen \in {NotFound, OtherChain, InMempool}
      \/ seen = Mined(chain[h].effect, 1, MinedAt(chain[h]))
      \/ chain[h].stage = "final" /\ \E t : seen = Mined(chain[h].effect, 2, t)
  BY DEF Observations
<1>6. ASSUME verdict.action = "activate" PROVE Delivered(h)
  <2>1. seen # Mined(chain[h].effect, 1, MinedAt(chain[h]))
    <3>1. Mined(chain[h].effect, 1, MinedAt(chain[h])).confirmations = 1
      BY <1>4
    <3>2. ~(seen.confirmations < 2) /\ 1 < 2
      BY <1>2, <1>6
    <3> QED BY <3>1, <3>2
  <2>2. seen \notin {NotFound, OtherChain, InMempool}
    BY <1>2, <1>3, <1>6
  <2>3. chain[h].stage = "final" /\ \E t : seen = Mined(chain[h].effect, 2, t)
    BY <1>5, <2>1, <2>2
  <2>4. chain[h].effect = "good"
    BY <1>2, <1>4, <1>6, <2>3
  <2> QED BY <2>3, <2>4 DEF Delivered
<1> QED BY <1>1, <1>6

LEMMA VerifyObserveOutcome ==
  ASSUME IInv, NEW r \in Requests, VerifyObserve(r), UNCHANGED fiatVars
  PROVE  Outcome
<1> DEFINE h == proof[r].hash
<1>1. /\ TypeOK /\ ReqShape(r) /\ req \in [Requests -> Request] /\ req[r].at = "verify"
      /\ claims \in [Hashes -> Claim \union {Null}]
  BY DEF IInv, TypeOK, SubTypeOK, CryptoTypeOK, VerifyObserve
<1>2. /\ h \in Hashes /\ h # Null /\ req[r].who # Null
      /\ claims[h] # Null /\ claims[h].owner = req[r].who
  BY <1>1, LocalsTyped DEF ReqShape, AccountSteps, HashSteps, ClaimedSteps
<1>3. UNCHANGED <<subs, claims, chain, fiatVars>>
  BY DEF VerifyObserve
<1>4. PICK seen \in Observations(h) :
        LET verdict == EvaluateCryptoTransaction(seen, Expectation, Now) IN
        /\ Goto(r, CASE verdict.action = "activate" -> "grant"
                     [] verdict.action = "reject"   -> "refuse"
                     [] OTHER                       -> "wait")
        /\ proof' = [proof EXCEPT ![r].reason = verdict.reason]
  BY DEF VerifyObserve
<1> DEFINE verdict == EvaluateCryptoTransaction(seen, Expectation, Now)
           next == CASE verdict.action = "activate" -> "grant"
                     [] verdict.action = "reject"   -> "refuse"
                     [] OTHER                       -> "wait"
<1>5. verdict.reason \in CryptoReasons /\ (verdict.action = "activate" => Delivered(h))
  BY <1>2, ObservationFacts
<1>6. next \in {"grant", "refuse", "wait"} /\ (next = "grant" => Delivered(h))
  BY <1>5
<1>7. /\ req' \in [Requests -> Request] /\ req'[r].at = next /\ req'[r].who = req[r].who
      /\ \A q \in Requests \ {r} : req'[q] = req[q]
  <2>1. next \in Locations /\ Goto(r, next)
    BY <1>4, <1>6 DEF Locations
  <2> HIDE DEF next
  <2> QED BY <1>1, <2>1, GotoMoves
<1>8. /\ proof' \in [Requests -> Proof] /\ proof'[r].hash = h
      /\ \A q \in Requests \ {r} : proof'[q] = proof[q]
  BY <1>1, <1>4, <1>5, SetReasonMoves
<1>9. ReqShape(r)'
  <2> HIDE DEF next
  <2>1. next = "grant" => Delivered(proof[r].hash)'
    BY <1>3, <1>6, <1>8 DEF Delivered
  <2> QED BY <1>2, <1>3, <1>6, <1>7, <1>8, <2>1
          DEF ReqShape, AccountSteps, FiatSteps, HashSteps, ClaimedSteps
<1>10. RowsKeep /\ AccessKept
  BY <1>3, AllRowsKeep DEF fiatVars
<1> QED BY <1>1, <1>3, <1>7, <1>8, <1>9, <1>10, SubmitStep

LEMMA VerifyUnavailableOutcome ==
  ASSUME IInv, NEW r \in Requests, VerifyUnavailable(r), UNCHANGED fiatVars
  PROVE  Outcome
<1> DEFINE h == proof[r].hash
<1>1. /\ TypeOK /\ ReqShape(r) /\ req \in [Requests -> Request] /\ req[r].at = "verify"
      /\ claims \in [Hashes -> Claim \union {Null}]
  BY DEF IInv, TypeOK, SubTypeOK, CryptoTypeOK, VerifyUnavailable
<1>2. /\ h # Null /\ req[r].who # Null
      /\ claims[h] # Null /\ claims[h].owner = req[r].who
  BY <1>1 DEF ReqShape, AccountSteps, HashSteps, ClaimedSteps
<1>3. UNCHANGED <<subs, claims, chain, fiatVars>>
  BY DEF VerifyUnavailable
<1>4. /\ req' \in [Requests -> Request] /\ req'[r].at = "unavailable"
      /\ req'[r].who = req[r].who
      /\ \A q \in Requests \ {r} : req'[q] = req[q]
  BY <1>1, GotoMoves DEF VerifyUnavailable, Locations
<1>5. "provider_unavailable" \in CryptoReasons
  BY DEF CryptoReasons
<1>6. /\ proof' \in [Requests -> Proof] /\ proof'[r].hash = h
      /\ \A q \in Requests \ {r} : proof'[q] = proof[q]
  BY <1>1, <1>5, SetReasonMoves DEF VerifyUnavailable
<1>7. ReqShape(r)'
  BY <1>2, <1>3, <1>4, <1>6 DEF ReqShape, AccountSteps, FiatSteps, HashSteps, ClaimedSteps
<1>8. RowsKeep /\ AccessKept
  BY <1>3, AllRowsKeep DEF fiatVars
<1> QED BY <1>1, <1>3, <1>4, <1>6, <1>7, <1>8, SubmitStep

(* A submission that writes its claim and ends.                            *)
LEMMA ClaimEndOutcome ==
  ASSUME IInv, NEW r \in Requests, req[r].at \in ClaimedSteps, NEW row \in Claim,
         claims' = [claims EXCEPT ![proof[r].hash] = row],
         row.owner = claims[proof[r].hash].owner,
         row.applied = claims[proof[r].hash].applied,
         claims[proof[r].hash].status # "pending" => row.status # "pending",
         EndProof(r), UNCHANGED <<subs, chain, fiatVars>>
  PROVE  Outcome
<1>1. TypeOK /\ ReqShape(r)
  BY DEF IInv
<1>2. proof[r].hash \in Hashes /\ claims[proof[r].hash] # Null
  BY <1>1, LocalsTyped DEF ReqShape, HashSteps
<1>3. RowsKeep /\ AccessKept /\ claims' \in [Hashes -> Claim \union {Null}]
  BY <1>1, <1>2, ClaimWriteKeeps DEF fiatVars
<1>4. /\ req' \in [Requests -> Request] /\ proof' \in [Requests -> Proof]
      /\ req'[r].at = "idle"
      /\ \A q \in Requests \ {r} : req'[q] = req[q] /\ proof'[q] = proof[q]
  BY <1>1, EndProofMoves
<1> QED BY <1>3, <1>4, IdleShape, SubmitStep

LEMMA ProofRow ==
  ASSUME IInv, NEW r \in Requests, req[r].at \in ClaimedSteps
  PROVE  /\ proof[r].hash \in Hashes /\ claims[proof[r].hash] \in Claim
         /\ claims[proof[r].hash].owner = req[r].who
         /\ proof[r].reason \in CryptoReasons
<1>1. /\ TypeOK /\ ReqShape(r) /\ claims \in [Hashes -> Claim \union {Null}]
      /\ proof[r] \in Proof
  BY DEF IInv, TypeOK, CryptoTypeOK
<1>2. proof[r].hash \in Hashes /\ claims[proof[r].hash] # Null
  BY <1>1, LocalsTyped DEF ReqShape, HashSteps
<1>3. claims[proof[r].hash].owner = req[r].who
  BY <1>1 DEF ReqShape
<1>4. proof[r].reason \in CryptoReasons
  BY <1>1 DEF Proof
<1>5. claims[proof[r].hash] \in Claim
  BY <1>1, <1>2
<1> QED BY <1>2, <1>3, <1>4, <1>5

LEMMA StillPendingOutcome ==
  ASSUME IInv, NEW r \in Requests, StillPending(r), UNCHANGED fiatVars
  PROVE  Outcome
<1> DEFINE h == proof[r].hash
           row == [claims[h] EXCEPT !.reason = proof[r].reason]
<1>1. req[r].at \in ClaimedSteps
  BY DEF StillPending, ClaimedSteps
<1>2. h \in Hashes /\ claims[h] \in Claim /\ proof[r].reason \in CryptoReasons
  BY <1>1, ProofRow
<1>3. /\ row \in Claim /\ row.owner = claims[h].owner /\ row.applied = claims[h].applied
      /\ claims[h].status # "pending" => row.status # "pending"
  BY <1>2 DEF Claim
<1>4. claims' = [claims EXCEPT ![h] = row]
  BY DEF StillPending
<1> QED BY <1>1, <1>3, <1>4, ClaimEndOutcome DEF StillPending

LEMMA RefuseOutcome ==
  ASSUME IInv, NEW r \in Requests, Refuse(r), UNCHANGED fiatVars
  PROVE  Outcome
<1> DEFINE h == proof[r].hash
           status == IF IsTerminalCryptoReason(proof[r].reason) THEN "failed" ELSE "pending"
           row == IF claims[h].status = "pending"
                    THEN [claims[h] EXCEPT !.status = status, !.reason = proof[r].reason]
                    ELSE claims[h]
<1>1. req[r].at \in ClaimedSteps
  BY DEF Refuse, ClaimedSteps
<1>2. /\ h \in Hashes /\ claims[h] \in Claim /\ proof[r].reason \in CryptoReasons
      /\ claims \in [Hashes -> Claim \union {Null}]
  BY <1>1, ProofRow DEF IInv, TypeOK, CryptoTypeOK
<1>3. status \in {"pending", "failed"}
  OBVIOUS
<1>4. /\ row \in Claim /\ row.owner = claims[h].owner /\ row.applied = claims[h].applied
      /\ claims[h].status # "pending" => row.status # "pending"
  <2> HIDE DEF status
  <2> QED BY <1>2, <1>3 DEF Claim
<1>5. claims' = [claims EXCEPT ![h] = row]
  BY <1>2 DEF Refuse
<1> QED BY <1>1, <1>4, <1>5, ClaimEndOutcome DEF Refuse

LEMMA ActivateOutcome ==
  ASSUME IInv, NEW r \in Requests, Activate(r), UNCHANGED fiatVars
  PROVE  Outcome
<1> DEFINE h == proof[r].hash
           a == req[r].who
           row == [claims[h] EXCEPT !.status = "paid", !.reason = "none", !.applied = TRUE]
<1>1. /\ TypeOK /\ ReqShape(r) /\ ChargeShape /\ AppliedShape /\ UnlimitedIffApplied
      /\ claims \in [Hashes -> Claim \union {Null}] /\ job \in [Requests -> Job]
  BY DEF IInv, TypeOK, FiatTypeOK, CryptoTypeOK
<1>2. req[r].at = "grant" /\ req[r].at \in ClaimedSteps
  BY DEF Activate, ClaimedSteps
<1>3. h \in Hashes /\ claims[h] \in Claim /\ claims[h] # Null /\ claims[h].owner = a
  BY <1>2, ProofRow, ClaimTypes
<1>4. Delivered(h)
  BY <1>1, <1>2 DEF ReqShape
<1>5. /\ req' \in [Requests -> Request] /\ proof' \in [Requests -> Proof]
      /\ req'[r].at = "idle"
      /\ \A q \in Requests \ {r} : req'[q] = req[q] /\ proof'[q] = proof[q]
  BY <1>1, EndProofMoves DEF Activate
<1>6. UNCHANGED <<orders, charges, callbacks, job, chain>>
  BY DEF Activate, fiatVars
<1>7. OnlyMoves(r)
  BY <1>5, <1>6 DEF OnlyMoves
<1>8. CASE claims[h].status # "pending"
  <2>1. UNCHANGED <<claims, subs>>
    BY <1>8 DEF Activate
  <2> QED BY <1>1, <1>5, <1>6, <1>7, <2>1, EndingOutcome
<1>9. CASE claims[h].status = "pending"
  <2>1. claims' = [claims EXCEPT ![h] = row] /\ GrantUnlimited(a)
    BY <1>9 DEF Activate
  <2>2. row \in Claim /\ row # Null /\ row.owner = a /\ row.status = "paid" /\ row.applied = TRUE
    BY <1>3, ClaimTypes DEF Claim, CryptoReasons
  <2>3. \A k \in Hashes : claims'[k] = IF k = h THEN row ELSE claims[k]
    BY <1>1, <2>1
  <2>4. a \in Accounts /\ ~AppliedHash(h)
    BY <1>1, <1>3, <1>9 DEF Claim, AppliedShape
  <2>5. /\ subs' \in [Accounts -> Row \union {Null}]
        /\ \A b \in Accounts : subs[b] # Null => subs'[b] # Null
        /\ \A b \in Accounts : Unlimited(b)' <=> b = a \/ Unlimited(b)
    BY <1>1, <2>1, <2>4, GrantUnlimitedKeeps
  <2>6. \A k \in Hashes : AppliedHash(k)' <=> k = h \/ AppliedHash(k)
    BY <2>2, <2>3 DEF AppliedHash
  <2>7. /\ \A o \in Orders : AppliedOrder(o)' <=> AppliedOrder(o)
        /\ \A k \in Hashes : Delivered(k) => Delivered(k)'
        /\ \A o \in Orders : Collected(o) => Collected(o)'
    BY <1>6 DEF AppliedOrder, Delivered, Collected
  <2>8. RowsKeep
    <3>1. \A k \in Hashes : claims[k] # Null =>
            /\ claims'[k] # Null /\ claims'[k].owner = claims[k].owner
            /\ claims[k].status # "pending" =>
                 claims'[k].status # "pending" /\ claims'[k].applied = claims[k].applied
      BY <1>3, <1>9, <2>2, <2>3
    <3> QED BY <1>6, <2>5, <2>7, <3>1, FiatRowsKeep DEF RowsKeep
  <2>9. ChargeShape'
    BY <1>1, <1>6, ChargesKeep
  <2>10. AppliedShape'
    <3>1. \A k \in Hashes : AppliedHash(k)' => claims'[k].status # "pending" /\ Delivered(k)'
      BY <1>1, <1>4, <2>2, <2>3, <2>6, <2>7 DEF AppliedShape
    <3>2. \A o \in Orders : AppliedOrder(o)' => orders'[o].status # "pending" /\ Collected(o)'
      BY <1>1, <1>6, <2>7 DEF AppliedShape
    <3> QED BY <3>1, <3>2 DEF AppliedShape
  <2>11. UnlimitedIffApplied'
    <3>1. \A k \in Hashes : AppliedHash(k)' =>
            claims'[k].owner = IF k = h THEN a ELSE claims[k].owner
      BY <2>2, <2>3
    <3>2. \A o \in Orders : orders'[o] = orders[o]
      BY <1>6
    <3>3. ASSUME NEW b \in Accounts
          PROVE  Unlimited(b)' <=>
                   \/ \E o \in Orders : AppliedOrder(o)' /\ orders'[o].owner = b
                   \/ \E k \in Hashes : AppliedHash(k)' /\ claims'[k].owner = b
      <4>1. (\E k \in Hashes : AppliedHash(k)' /\ claims'[k].owner = b)
              <=> b = a \/ \E k \in Hashes : AppliedHash(k) /\ claims[k].owner = b
        BY <1>3, <2>4, <2>6, <3>1
      <4>2. (\E o \in Orders : AppliedOrder(o)' /\ orders'[o].owner = b)
              <=> \E o \in Orders : AppliedOrder(o) /\ orders[o].owner = b
        BY <2>7, <3>2
      <4> QED BY <1>1, <2>5, <4>1, <4>2 DEF UnlimitedIffApplied
    <3> QED BY <3>3 DEF UnlimitedIffApplied
  <2>12. TypeOK'
    <3>1. claims' \in [Hashes -> Claim \union {Null}]
      BY <1>1, <2>1, <2>2
    <3> QED BY <1>1, <1>5, <1>6, <2>5, <3>1 DEF TypeOK, SubTypeOK, FiatTypeOK, CryptoTypeOK
  <2>13. \A q \in Requests : ReqShape(q)'
    BY <1>5, <1>7, <2>8, OthersKeep, IdleShape DEF IInv, OnlyMoves
  <2>14. GrantStep
    <3>1. h \in Evidence /\ Spent[h] = Null
      BY <1>3, <2>4, SpentIs DEF Evidence
    <3>2. \A x \in Hashes : Spent'[x] = IF x = h THEN a ELSE Spent[x]
      <4>1. Spent'[h] = a
        BY <1>3, <2>2, <2>3, <2>6, SpentIsNext
      <4>2. ASSUME NEW x \in Hashes, x # h PROVE Spent'[x] = Spent[x]
        <5>1. claims'[x] = claims[x] /\ (AppliedHash(x)' <=> AppliedHash(x))
          BY <2>3, <2>6, <4>2
        <5> QED BY <5>1, SpentIs, SpentIsNext
      <4> QED BY <4>1, <4>2
    <3>3. \A x \in Orders : x # h /\ Spent'[x] = Spent[x]
      BY <1>3, <1>6, <2>7, SpentIs, SpentIsNext, BillingAssumption DEF BillingAssumption
    <3> QED BY <2>4, <2>5, <3>1, <3>2, <3>3, GrantRefines DEF Evidence
  <2> QED BY <2>8, <2>9, <2>10, <2>11, <2>12, <2>13, <2>14 DEF Outcome, IInv
<1> QED BY <1>8, <1>9

(* The chain moves on by itself: a final transaction stays final.          *)
LEMMA ChainStep ==
  ASSUME IInv, NEW h \in Hashes, NEW tx \in Tx, chain[h].stage # "final" \/ tx = [chain[h] EXCEPT !.old = TRUE],
         chain' = [chain EXCEPT ![h] = tx],
         UNCHANGED <<subs, req, claims, proof, fiatVars>>
  PROVE  Outcome
<1>1. TypeOK /\ ChargeShape /\ chain \in [Hashes -> Tx]
  BY DEF IInv, TypeOK, CryptoTypeOK
<1>2. \A k \in Hashes : chain'[k] = IF k = h THEN tx ELSE chain[k]
  BY <1>1
<1>3. chain[h].stage = "final" => tx.stage = "final" /\ tx.effect = chain[h].effect
  BY <1>1 DEF Tx
<1>4. \A k \in Hashes : Delivered(k) => Delivered(k)'
  BY <1>2, <1>3 DEF Delivered
<1>5. \A k \in Hashes : AppliedHash(k)' <=> AppliedHash(k)
  BY DEF AppliedHash
<1>6. RowsKeep /\ AccessKept
  BY <1>4, <1>5, SubRowsKeep, FiatRowsKeep DEF RowsKeep, AccessKept, fiatVars
<1>7. TypeOK'
  BY <1>1 DEF TypeOK, SubTypeOK, FiatTypeOK, CryptoTypeOK, fiatVars
<1>8. ChargeShape'
  BY <1>1, ChargesKeep DEF fiatVars
<1> QED BY <1>6, <1>7, <1>8, OutsideOutcome DEF fiatVars

LEMMA ChainNextOutcome ==
  ASSUME IInv, ChainNext, UNCHANGED fiatVars
  PROVE  Outcome
<1>1. PICK h \in Hashes : \/ Broadcast(h) \/ Reorganise(h) \/ Finalise(h) \/ GrowOld(h)
                          \/ \E effect \in Effects : Mine(h, effect)
  BY DEF ChainNext
<1>2. chain[h] \in Tx
  BY DEF IInv, TypeOK, CryptoTypeOK
<1>3. CASE Broadcast(h)
  <2>1. [chain[h] EXCEPT !.stage = "pending"] \in Tx
    BY <1>2 DEF Tx
  <2> QED BY <1>3, <2>1, ChainStep DEF Broadcast
<1>4. CASE Reorganise(h)
  <2>1. [chain[h] EXCEPT !.stage = "pending"] \in Tx
    BY <1>2 DEF Tx
  <2> QED BY <1>4, <2>1, ChainStep DEF Reorganise
<1>5. CASE Finalise(h)
  <2>1. [chain[h] EXCEPT !.stage = "final"] \in Tx
    BY <1>2 DEF Tx
  <2> QED BY <1>5, <2>1, ChainStep DEF Finalise
<1>6. CASE GrowOld(h)
  <2>1. [chain[h] EXCEPT !.old = TRUE] \in Tx
    BY <1>2 DEF Tx
  <2> QED BY <1>6, <2>1, ChainStep DEF GrowOld
<1>7. ASSUME NEW effect \in Effects, Mine(h, effect) PROVE Outcome
  <2>1. effect \in AllEffects
    BY CryptoAssumption DEF CryptoAssumption
  <2>2. [chain[h] EXCEPT !.stage = "mined", !.effect = effect] \in Tx
    BY <1>2, <2>1 DEF Tx
  <2> QED BY <1>7, <2>2, ChainStep DEF Mine
<1> QED BY <1>1, <1>3, <1>4, <1>5, <1>6, <1>7

LEMMA CryptoNextOutcome ==
  ASSUME IInv, CryptoNext, UNCHANGED fiatVars
  PROVE  Outcome
<1>1. ASSUME NEW r \in Requests, NEW a \in Accounts, SubmitBegin(r, a) PROVE Outcome
  <2>1. "submit" \in Operations
    BY DEF Operations
  <2> QED BY <1>1, <2>1, EnsureReadOutcome DEF SubmitBegin
<1>2. CASE SubmitNext
  BY <1>1, <1>2, SubmitLookupOutcome, SubmitClaimOutcome, SubmitRereadOutcome,
     VerifyObserveOutcome, VerifyUnavailableOutcome, StillPendingOutcome, RefuseOutcome,
     ActivateOutcome DEF SubmitNext
<1> QED BY <1>2, ChainNextOutcome DEF CryptoNext

-----------------------------------------------------------------------------
(* The invariant holds at the start, and every step has the outcome.       *)
LEMMA InitHolds == Init => IInv
<1> SUFFICES ASSUME Init PROVE IInv
  OBVIOUS
<1>1. /\ subs = [a \in Accounts |-> Null]
      /\ req = [r \in Requests |-> Idle]
      /\ orders = [o \in Orders |-> Null]
      /\ charges = [o \in Orders |-> [status |-> "none", exact |-> TRUE]]
      /\ callbacks = {}
      /\ job = [r \in Requests |-> NoJob]
      /\ claims = [h \in Hashes |-> Null]
      /\ chain = [h \in Hashes |-> [stage |-> "absent", effect |-> "good", old |-> FALSE]]
      /\ proof = [r \in Requests |-> NoProof]
  BY DEF Init, SubInit, FiatInit, CryptoInit
<1>2. SubTypeOK
  <2>1. Idle \in Request
    BY DEF Idle, Request, Locations, Operations
  <2> QED BY <1>1, <2>1 DEF SubTypeOK
<1>3. FiatTypeOK
  <2>1. NoJob \in Job /\ [status |-> "none", exact |-> TRUE] \in Charge
    BY DEF NoJob, Job, FiatReasons, Charge
  <2> QED BY <1>1, <2>1 DEF FiatTypeOK
<1>4. CryptoTypeOK
  <2>1. /\ NoProof \in Proof
        /\ [stage |-> "absent", effect |-> "good", old |-> FALSE] \in Tx
    BY DEF NoProof, Proof, CryptoReasons, Tx, AllEffects
  <2> QED BY <1>1, <2>1 DEF CryptoTypeOK
<1>5. \A q \in Requests : ReqShape(q)
  BY <1>1 DEF Idle, ReqShape, AccountSteps, FiatSteps, HashSteps, ClaimedSteps
<1>6. ChargeShape
  BY <1>1 DEF ChargeShape, Opened
<1>7. AppliedShape /\ UnlimitedIffApplied
  BY <1>1 DEF AppliedShape, UnlimitedIffApplied, AppliedOrder, AppliedHash, Unlimited
<1> QED BY <1>2, <1>3, <1>4, <1>5, <1>6, <1>7 DEF IInv, TypeOK

LEMMA StepOutcome == IInv /\ [Next]_vars => Outcome
<1> SUFFICES ASSUME IInv, [Next]_vars PROVE Outcome
  OBVIOUS
<1>1. CASE SubNext /\ UNCHANGED <<fiatVars, cryptoVars>>
  BY <1>1, SubNextOutcome
<1>2. CASE FiatNext /\ UNCHANGED cryptoVars
  BY <1>2, FiatNextOutcome
<1>3. CASE CryptoNext /\ UNCHANGED fiatVars
  BY <1>3, CryptoNextOutcome
<1>4. ASSUME NEW r \in Requests, LoseRequest(r) PROVE Outcome
  BY <1>4, LoseRequestOutcome
<1>5. CASE UNCHANGED vars
  <2>1. UNCHANGED <<subs, req, orders, charges, callbacks, job, claims, chain, proof>>
    BY <1>5 DEF vars
  <2>2. RowsKeep /\ AccessKept
    BY <2>1, AllRowsKeep
  <2>3. TypeOK' /\ ChargeShape'
    BY <2>1, ChargesKeep DEF IInv, TypeOK, SubTypeOK, FiatTypeOK, CryptoTypeOK
  <2> QED BY <2>1, <2>2, <2>3, OutsideOutcome
<1> QED BY <1>1, <1>2, <1>3, <1>4, <1>5 DEF Next

LEMMA Invariance == Spec => []IInv
<1>1. IInv /\ [Next]_vars => IInv'
  BY StepOutcome DEF Outcome
<1> QED BY InitHolds, <1>1, PTL DEF Spec

-----------------------------------------------------------------------------
(* Type correctness: every row, event and suspended request keeps the      *)
(* shape the code gives it.                                                *)
THEOREM TypeCorrect == Spec => []TypeOK
<1>1. IInv => TypeOK
  BY DEF IInv
<1> QED BY Invariance, <1>1, PTL

(* The write paths of `unlimited' agree with the payments: an account has  *)
(* permanent access exactly when a payment of its own has been applied.    *)
THEOREM AccessIsPaidFor == Spec => []UnlimitedIffApplied
<1>1. IInv => UnlimitedIffApplied
  BY DEF IInv
<1> QED BY Invariance, <1>1, PTL

(* Access through an order stands on the full amount at the provider.      *)
THEOREM FiatGrantsAreBacked == Spec => []FiatGrantIsBacked
<1>1. IInv => FiatGrantIsBacked
  BY DEF IInv, AppliedShape, FiatGrantIsBacked, Collected
<1> QED BY Invariance, <1>1, PTL

(* Access through a hash stands on a final transfer of the full amount.    *)
THEOREM CryptoGrantsAreBacked == Spec => []CryptoGrantIsBacked
<1>1. IInv => CryptoGrantIsBacked
  BY DEF IInv, AppliedShape, CryptoGrantIsBacked, Delivered
<1> QED BY Invariance, <1>1, PTL

(* A hash never changes hands, whoever else submits it.                    *)
THEOREM HashOwnership == Spec => HashKeepsItsOwner
<1>1. IInv /\ [Next]_vars =>
        [\A h \in Hashes :
           claims[h] # Null => claims'[h] # Null /\ claims'[h].owner = claims[h].owner]_vars
  BY StepOutcome DEF Outcome, RowsKeep
<1> QED BY Invariance, <1>1, PTL DEF Spec, HashKeepsItsOwner

(* A payment closed without being paid never grants access afterwards.     *)
THEOREM ClosedStaysClosed == Spec => ClosedPaymentNeverGrants
<1>1. IInv /\ [Next]_vars =>
        [/\ \A o \in Orders :
              orders[o] # Null /\ orders[o].status # "pending" =>
                orders'[o].applied = orders[o].applied
         /\ \A h \in Hashes :
              claims[h] # Null /\ claims[h].status # "pending" =>
                claims'[h].applied = claims[h].applied]_vars
  BY StepOutcome DEF Outcome, RowsKeep
<1> QED BY Invariance, <1>1, PTL DEF Spec, ClosedPaymentNeverGrants

(* Billing implements Entitlement: its initial states are initial states   *)
(* of the promise, and a step is a grant or leaves the promise unchanged.  *)
THEOREM Refinement == Spec => GrantsOncePerPayment
<1>1. Init => Promise!Init
  <2> SUFFICES ASSUME Init PROVE Promise!Init
    OBVIOUS
  <2>1. \A a \in Accounts : ~Unlimited(a)
    BY DEF Init, SubInit, Unlimited
  <2>2. \A o \in Orders : ~AppliedOrder(o)
    BY DEF Init, FiatInit, AppliedOrder
  <2>3. \A h \in Hashes : ~AppliedHash(h)
    BY DEF Init, CryptoInit, AppliedHash
  <2>4. Spent = [e \in Evidence |-> Null]
    BY <2>2, <2>3 DEF Spent, Evidence
  <2> QED BY <2>1, <2>4 DEF Promise!Init
<1>2. IInv /\ [Next]_vars =>
        [Promise!Next]_<<{a \in Accounts : Unlimited(a)}, Spent>>
  <2> SUFFICES ASSUME IInv, [Next]_vars
      PROVE [Promise!Next]_<<{a \in Accounts : Unlimited(a)}, Spent>>
    OBVIOUS
  <2>1. RowsKeep /\ (AccessKept \/ GrantStep)
    BY StepOutcome DEF Outcome
  <2>2. CASE AccessKept
    <3>1. {a \in Accounts : Unlimited(a)}' = {a \in Accounts : Unlimited(a)}
      BY <2>2 DEF AccessKept
    <3>2. \A e \in Evidence : Spent'[e] = Spent[e]
      <4>1. \A o \in Orders : AppliedOrder(o) => orders'[o].owner = orders[o].owner
        BY <2>1 DEF RowsKeep, AppliedOrder
      <4>2. \A h \in Hashes : AppliedHash(h) => claims'[h].owner = claims[h].owner
        BY <2>1 DEF RowsKeep, AppliedHash
      <4>3. \A o \in Orders : Spent'[o] = Spent[o]
        BY <2>2, <4>1, SpentIs, SpentIsNext DEF AccessKept
      <4>4. \A h \in Hashes : Spent'[h] = Spent[h]
        BY <2>2, <4>2, SpentIs, SpentIsNext DEF AccessKept
      <4> QED BY <4>3, <4>4 DEF Evidence
    <3>3. Spent' = Spent
      <4>1. Spent = [x \in Evidence |-> Spent[x]]
        BY DEF Spent
      <4>2. Spent' = [x \in Evidence |-> Spent'[x]]
        BY DEF Spent, Evidence
      <4> QED BY <3>2, <4>1, <4>2
    <3> QED BY <3>1, <3>3
  <2>3. CASE GrantStep
    BY <2>3 DEF GrantStep, Promise!Next
  <2> QED BY <2>1, <2>2, <2>3
<1> QED BY <1>1, <1>2, Invariance, PTL DEF Spec, GrantsOncePerPayment, Promise!Spec
-----------------------------------------------------------------------------
(* When a claim is closed.  A request that is about to refuse remembers    *)
(* why, and the reason outlives whatever the chain does until the refusal  *)
(* is written: a final transaction stays final, with its effect, and only  *)
(* grows older.                                                            *)
Provisional == {"reverted", "rpc_chain_mismatch"}

Refuted(h) == chain[h].stage = "final" /\ (chain[h].effect # "good" \/ chain[h].old)

RefusalsAreFounded ==
  \A q \in Requests : req[q].at = "refuse" =>
    proof[q].reason \in Provisional \/ Refuted(proof[q].hash)

(* A verdict that refuses saw a revert, or the final truth.                *)
LEMMA RefusalFacts ==
  ASSUME NEW h \in Hashes, chain[h] \in Tx, NEW seen \in Observations(h),
         EvaluateCryptoTransaction(seen, Expectation, Now).action = "reject"
  PROVE  \/ EvaluateCryptoTransaction(seen, Expectation, Now).reason \in Provisional
         \/ Refuted(h)
<1> DEFINE verdict == EvaluateCryptoTransaction(seen, Expectation, Now)
           tx == chain[h]
<1> SUFFICES ASSUME verdict.reason \notin Provisional PROVE Refuted(h)
  OBVIOUS
<1>1. NotFound.chainId = 1 /\ InMempool.chainId = 1 /\ OtherChain.chainId # 1
      /\ ~NotFound.found /\ InMempool.txChainId = 1 /\ ~InMempool.mined
  BY DEF NotFound, InMempool, OtherChain
<1>2. ASSUME NEW effect, NEW n, NEW t
      PROVE  /\ Mined(effect, n, t).chainId = 1 /\ Mined(effect, n, t).txChainId = 1
             /\ Mined(effect, n, t).confirmations = n /\ Mined(effect, n, t).minedAt = t
             /\ effect = "good" => Mined(effect, n, t).received = 2
  BY DEF Mined, InMempool, NotFound
<1>3. seen # OtherChain
  BY <1>1 DEF EvaluateCryptoTransaction, CryptoVerdict, Expectation, Provisional
<1>4. /\ seen.chainId = 1 /\ (seen.found => seen.txChainId = 1)
      /\ \/ seen = NotFound \/ seen = InMempool
         \/ seen = Mined(tx.effect, 1, MinedAt(tx))
         \/ tx.stage = "final" /\ \E t \in {MinedAt(tx), Null} : seen = Mined(tx.effect, 2, t)
  <2>1. \/ seen = NotFound \/ seen = InMempool
        \/ seen = Mined(tx.effect, 1, MinedAt(tx))
        \/ tx.stage = "final" /\ \E t \in {MinedAt(tx), Null} : seen = Mined(tx.effect, 2, t)
    BY <1>3 DEF Observations
  <2> QED BY <1>1, <1>2, <2>1
<1>5. /\ seen.found /\ seen.mined /\ ~(seen.confirmations < 2)
      /\ seen.received < 2 \/ seen.received = 0 \/ TooOld(seen, Expectation, Now)
  BY <1>4 DEF EvaluateCryptoTransaction, CryptoVerdict, Expectation, Provisional
<1>6. tx.stage = "final" /\ \E t \in {MinedAt(tx), Null} : seen = Mined(tx.effect, 2, t)
  <2>1. seen # NotFound /\ seen # InMempool
    BY <1>1, <1>5
  <2>2. Mined(tx.effect, 1, MinedAt(tx)).confirmations = 1 /\ 1 < 2
    BY <1>2
  <2> QED BY <1>4, <1>5, <2>1, <2>2
<1>7. CASE TooOld(seen, Expectation, Now)
  <2>1. PICK t \in {MinedAt(tx), Null} : seen = Mined(tx.effect, 2, t)
    BY <1>6
  <2>2. seen.minedAt = t
    BY <1>2, <2>1
  <2>3. t = MinedAt(tx) /\ Now - t > Expectation.maxAgeMs
    BY <1>7, <2>2 DEF TooOld
  <2>4. tx.old
    BY <2>3 DEF MinedAt, Now, Expectation
  <2> QED BY <1>6, <2>4 DEF Refuted
<1>8. CASE seen.received < 2 \/ seen.received = 0
  <2>1. tx.effect # "good"
    BY <1>2, <1>6, <1>8
  <2> QED BY <1>6, <2>1 DEF Refuted
<1> QED BY <1>5, <1>7, <1>8

(* What every other step does to the requests that are about to refuse:    *)
(* it makes none.                                                          *)
NoNewRefusal ==
  \A q \in Requests : req'[q].at = "refuse" => req[q].at = "refuse" /\ proof'[q] = proof[q]

LEMMA Elsewhere ==
  ASSUME TypeOK, NEW r \in Requests, NEW x, x.at # "refuse",
         req' = [req EXCEPT ![r] = x], \A q \in Requests \ {r} : proof'[q] = proof[q]
  PROVE  NoNewRefusal
<1>1. req \in [Requests -> Request]
  BY DEF TypeOK, SubTypeOK
<1> QED BY <1>1 DEF NoNewRefusal

LEMMA GoesElsewhere ==
  ASSUME TypeOK, NEW r \in Requests, NEW at, at # "refuse", Goto(r, at),
         \A q \in Requests \ {r} : proof'[q] = proof[q]
  PROVE  NoNewRefusal
<1>1. req[r] \in Request
  BY DEF TypeOK, SubTypeOK
<1> DEFINE x == [req[r] EXCEPT !.at = at]
<1>2. x.at # "refuse"
  BY <1>1 DEF Request
<1>3. req' = [req EXCEPT ![r] = x]
  BY DEF Goto
<1> HIDE DEF x
<1> QED BY <1>2, <1>3, Elsewhere

LEMMA FinishesElsewhere ==
  ASSUME TypeOK, NEW r \in Requests, Finish(r), \A q \in Requests \ {r} : proof'[q] = proof[q]
  PROVE  NoNewRefusal
<1>1. Idle.at # "refuse"
  BY DEF Idle
<1> QED BY <1>1, Elsewhere DEF Finish

LEMMA StaysElsewhere ==
  ASSUME UNCHANGED <<req, proof>>
  PROVE  NoNewRefusal
BY DEF NoNewRefusal

LEMMA EnsuresElsewhere ==
  ASSUME TypeOK, NEW r \in Requests, NEW a, NEW op, EnsureRead(r, a, op), UNCHANGED proof
  PROVE  NoNewRefusal
<1> DEFINE row == subs[a]
           next == IF row = Null THEN "create"
                   ELSE IF ~row.unlimited /\ row.due THEN "roll" ELSE "ensured"
           x == [at |-> next, op |-> op, who |-> a, paid |-> row # Null /\ row.unlimited]
<1>1. x.at # "refuse"
  OBVIOUS
<1>2. req' = [req EXCEPT ![r] = x]
  BY DEF EnsureRead
<1> HIDE DEF x
<1> QED BY <1>1, <1>2, Elsewhere

LEMMA RowsRefuseNothing ==
  ASSUME IInv, SubNext, UNCHANGED proof
  PROVE  NoNewRefusal
<1>1. TypeOK
  BY DEF IInv
<1>2. ASSUME NEW r \in Requests, NEW a \in Accounts, EnsureRead(r, a, "touch") \/ EditRead(r, a)
      PROVE  NoNewRefusal
  <2>1. CASE EditRead(r, a)
    <3>1. [Idle EXCEPT !.at = "edit", !.who = a].at # "refuse"
      BY DEF Idle
    <3> QED BY <1>1, <2>1, <3>1, Elsewhere DEF EditRead
  <2> QED BY <1>1, <1>2, <2>1, EnsuresElsewhere
<1>3. ASSUME NEW r \in Requests, EnsureCreate(r) \/ EnsureRoll(r) \/ TouchDone(r)
      PROVE  NoNewRefusal
  <2>1. CASE EnsureRoll(r)
    <3> DEFINE x == [req[r] EXCEPT !.at = "ensured", !.paid = subs[req[r].who].unlimited]
    <3>1. req[r] \in Request
      BY <1>1 DEF TypeOK, SubTypeOK
    <3>2. x.at # "refuse"
      BY <3>1 DEF Request
    <3>3. req' = [req EXCEPT ![r] = x]
      BY <2>1 DEF EnsureRoll
    <3> HIDE DEF x
    <3> QED BY <1>1, <3>2, <3>3, Elsewhere
  <2>2. Goto(r, "ensured") \/ Finish(r) \/ EnsureRoll(r)
    BY <1>3 DEF EnsureCreate, TouchDone
  <2> QED BY <1>1, <2>1, <2>2, GoesElsewhere, FinishesElsewhere
<1>4. ASSUME NEW r \in Requests, NEW patch \in Patches, EditWrite(r, patch)
      PROVE  NoNewRefusal
  BY <1>1, <1>4, FinishesElsewhere DEF EditWrite
<1>5. ASSUME NEW a \in Accounts, Debit(a) \/ RenewalPasses(a)
      PROVE  NoNewRefusal
  BY <1>5, StaysElsewhere DEF Debit, RenewalPasses
<1> QED BY <1>2, <1>3, <1>4, <1>5 DEF SubNext

LEMMA FiatRefusesNothing ==
  ASSUME IInv, FiatNext, UNCHANGED proof
  PROVE  NoNewRefusal
<1>1. TypeOK
  BY DEF IInv
<1>2. ASSUME NEW r \in Requests, NEW event, ApplyVerified(r, event)
      PROVE  NoNewRefusal
  <2>1. Goto(r, "activate") \/ Goto(r, "mark") \/ Goto(r, "stamp") \/ Finish(r)
    BY <1>2 DEF ApplyVerified, EndJob
  <2> QED BY <1>1, <2>1, GoesElsewhere, FinishesElsewhere
<1>3. CASE CheckoutNext
  <2>1. ASSUME NEW r \in Requests, NEW a \in Accounts, CheckoutBegin(r, a)
        PROVE  NoNewRefusal
    BY <1>1, <2>1, EnsuresElsewhere DEF CheckoutBegin
  <2>2. ASSUME NEW r \in Requests, NEW o \in Orders, CheckoutCreate(r, o)
        PROVE  NoNewRefusal
    BY <1>1, <2>2, GoesElsewhere DEF CheckoutCreate
  <2>3. ASSUME NEW r \in Requests, CheckoutLookup(r) \/ CheckoutBind(r) \/ CheckoutFail(r)
        PROVE  NoNewRefusal
    <3>1. Finish(r) \/ Goto(r, "new")
      BY <2>3 DEF CheckoutLookup, CheckoutBind, CheckoutFail, EndJob
    <3> QED BY <1>1, <3>1, GoesElsewhere, FinishesElsewhere
  <2> QED BY <1>3, <2>1, <2>2, <2>3 DEF CheckoutNext
<1>4. CASE ProviderNext
  BY <1>4, StaysElsewhere
     DEF ProviderNext, ProviderOpens, ProviderRefuses, ProviderSettles, OrderAges
<1>5. CASE ApplyNext
  <2>1. ASSUME NEW r \in Requests, NEW event \in callbacks, CallbackArrives(r, event)
        PROVE  NoNewRefusal
    BY <1>2, <2>1 DEF CallbackArrives
  <2>2. ASSUME NEW r \in Requests, NEW o \in Orders, PollBegin(r, o)
        PROVE  NoNewRefusal
    BY <1>1, <2>2, GoesElsewhere DEF PollBegin
  <2>3. ASSUME NEW r \in Requests,
               PollAnswer(r) \/ ApplyReject(r) \/ ApplyFailure(r) \/ ApplyActivate(r)
        PROVE  NoNewRefusal
    <3>1. Finish(r) \/ ApplyVerified(r, EventOf(job[r].order))
      BY <2>3 DEF PollAnswer, ApplyReject, ApplyFailure, ApplyActivate, EndJob
    <3> QED BY <1>1, <1>2, <3>1, FinishesElsewhere
  <2> QED BY <1>5, <2>1, <2>2, <2>3 DEF ApplyNext
<1> QED BY <1>3, <1>4, <1>5 DEF FiatNext

(* The steps of a submission: only the verdict leads to a refusal.         *)
LEMMA OthersRefuseNothing ==
  ASSUME IInv, NEW r \in Requests,
         \/ \E a \in Accounts : SubmitBegin(r, a)
         \/ \E h \in Hashes : SubmitLookup(r, h)
         \/ SubmitClaim(r) \/ SubmitReread(r) \/ VerifyUnavailable(r)
         \/ StillPending(r) \/ Refuse(r) \/ Activate(r)
  PROVE  NoNewRefusal
<1>1. TypeOK /\ proof \in [Requests -> Proof]
  BY DEF IInv, TypeOK, CryptoTypeOK
<1>2. CASE \E a \in Accounts : SubmitBegin(r, a)
  BY <1>1, <1>2, EnsuresElsewhere DEF SubmitBegin, cryptoVars
<1>3. CASE ~\E a \in Accounts : SubmitBegin(r, a)
  <2>1. \A q \in Requests \ {r} : proof'[q] = proof[q]
    BY <1>1, <1>3 DEF SubmitLookup, SubmitClaim, SubmitReread, VerifyUnavailable, StillPending,
                      Refuse, Activate, ResolveExisting, EndProof
  <2>2. \/ Finish(r) \/ Goto(r, "claim") \/ Goto(r, "verify") \/ Goto(r, "reread")
        \/ Goto(r, "unavailable")
    BY <1>3 DEF SubmitLookup, SubmitClaim, SubmitReread, VerifyUnavailable, StillPending,
                Refuse, Activate, ResolveExisting, EndProof
  <2> QED BY <1>1, <2>1, <2>2, GoesElsewhere, FinishesElsewhere
<1> QED BY <1>2, <1>3

LEMMA ChainKeepsRefuted ==
  ASSUME IInv, [Next]_vars, NEW h \in Hashes, Refuted(h)
  PROVE  Refuted(h)'
<1>1. chain \in [Hashes -> Tx] /\ chain[h] \in Tx /\ chain[h].stage = "final"
  BY DEF IInv, TypeOK, CryptoTypeOK, Refuted
<1>2. CASE UNCHANGED chain
  BY <1>2 DEF Refuted
<1>3. CASE ChainNext
  <2>1. PICK k \in Hashes : \/ Broadcast(k) \/ Reorganise(k) \/ Finalise(k) \/ GrowOld(k)
                            \/ \E effect \in Effects : Mine(k, effect)
    BY <1>3 DEF ChainNext
  <2>2. CASE k # h
    BY <1>1, <2>1, <2>2 DEF Broadcast, Reorganise, Finalise, GrowOld, Mine, Refuted
  <2>3. CASE k = h
    <3>1. GrowOld(h)
      BY <1>1, <2>1, <2>3 DEF Broadcast, Reorganise, Finalise, Mine
    <3>2. chain'[h].stage = "final" /\ chain'[h].old
      BY <1>1, <3>1 DEF GrowOld, Tx
    <3> QED BY <3>2 DEF Refuted
  <2> QED BY <2>2, <2>3
<1>4. UNCHANGED chain \/ ChainNext
  <2>1. SubmitNext => UNCHANGED chain
    BY DEF SubmitNext, SubmitBegin, SubmitLookup, SubmitClaim, SubmitReread, VerifyObserve,
           VerifyUnavailable, StillPending, Refuse, Activate, cryptoVars
  <2> QED BY <2>1 DEF Next, CryptoNext, LoseRequest, cryptoVars, vars
<1> QED BY <1>2, <1>3, <1>4

LEMMA FoundedStep ==
  ASSUME IInv, RefusalsAreFounded, [Next]_vars
  PROVE  RefusalsAreFounded'
<1>1. TypeOK /\ req \in [Requests -> Request] /\ proof \in [Requests -> Proof]
      /\ chain \in [Hashes -> Tx]
  BY DEF IInv, TypeOK, SubTypeOK, CryptoTypeOK
<1>2. ASSUME NEW q \in Requests, req[q].at = "refuse" PROVE proof[q].hash \in Hashes
  <2>1. ReqShape(q)
    BY DEF IInv
  <2> QED BY <1>1, <1>2, <2>1, LocalsTyped DEF HashSteps, ClaimedSteps
<1>3. CASE NoNewRefusal
  <2> SUFFICES ASSUME NEW q \in Requests, req'[q].at = "refuse"
               PROVE  proof'[q].reason \in Provisional \/ Refuted(proof[q].hash)'
    BY DEF RefusalsAreFounded
  <2>1. req[q].at = "refuse" /\ proof'[q] = proof[q]
    BY <1>3 DEF NoNewRefusal
  <2>2. CASE proof[q].reason \in Provisional
    BY <2>1, <2>2
  <2>3. CASE Refuted(proof[q].hash)
    <3> DEFINE h == proof[q].hash
    <3>1. h \in Hashes /\ proof'[q].hash = h
      BY <1>2, <2>1
    <3>2. Refuted(h) => chain'[h].stage = "final" /\ (chain'[h].effect # "good" \/ chain'[h].old)
      BY <3>1, ChainKeepsRefuted DEF Refuted
    <3> QED BY <2>3, <3>1, <3>2 DEF Refuted
  <2> QED BY <2>1, <2>2, <2>3 DEF RefusalsAreFounded
<1>4. ASSUME NEW r \in Requests, VerifyObserve(r) PROVE RefusalsAreFounded'
  <2> DEFINE h == proof[r].hash
  <2>1. req[r].at = "verify" /\ UNCHANGED chain
    BY <1>4 DEF VerifyObserve
  <2>2. h \in Hashes
    BY <1>1, <2>1, LocalsTyped DEF IInv, HashSteps, ClaimedSteps
  <2>3. PICK seen \in Observations(h) :
          LET verdict == EvaluateCryptoTransaction(seen, Expectation, Now) IN
          /\ Goto(r, CASE verdict.action = "activate" -> "grant"
                       [] verdict.action = "reject"   -> "refuse"
                       [] OTHER                       -> "wait")
          /\ proof' = [proof EXCEPT ![r].reason = verdict.reason]
    BY <1>4 DEF VerifyObserve
  <2> DEFINE verdict == EvaluateCryptoTransaction(seen, Expectation, Now)
             next == CASE verdict.action = "activate" -> "grant"
                       [] verdict.action = "reject"   -> "refuse"
                       [] OTHER                       -> "wait"
  <2>4. \A q \in Requests \ {r} : proof'[q] = proof[q]
    BY <1>1, <2>3
  <2>5. CASE next # "refuse"
    <3>1. Goto(r, next)
      BY <2>3
    <3> HIDE DEF next
    <3>2. NoNewRefusal
      BY <1>1, <2>4, <2>5, <3>1, GoesElsewhere
    <3> QED BY <1>3, <3>2
  <2>6. CASE next = "refuse"
    <3>1. verdict.action = "reject"
      BY <2>6
    <3>2. verdict.reason \in Provisional \/ Refuted(h)
      BY <1>1, <2>2, <3>1, RefusalFacts
    <3>3. proof'[r].reason = verdict.reason /\ proof'[r].hash = h
      <4> HIDE DEF verdict
      <4> QED BY <1>1, <2>3 DEF verdict, Proof
    <3>4. proof'[r].reason \in Provisional \/ Refuted(proof[r].hash)'
      BY <2>1, <3>2, <3>3 DEF Refuted
    <3>5. \A q \in Requests \ {r} : req'[q] = req[q]
      BY <1>1, <2>3 DEF Goto
    <3>6. ASSUME NEW q \in Requests \ {r}, req'[q].at = "refuse"
          PROVE  proof'[q].reason \in Provisional \/ Refuted(proof[q].hash)'
      BY <2>1, <2>4, <3>5, <3>6 DEF RefusalsAreFounded, Refuted
    <3> QED BY <3>4, <3>6 DEF RefusalsAreFounded
  <2> QED BY <2>5, <2>6
<1>5. CASE SubNext /\ UNCHANGED cryptoVars
  BY <1>3, <1>5, RowsRefuseNothing DEF cryptoVars
<1>6. CASE FiatNext /\ UNCHANGED cryptoVars
  BY <1>3, <1>6, FiatRefusesNothing DEF cryptoVars
<1>7. CASE CryptoNext
  <2>1. ChainNext => UNCHANGED <<req, proof>>
    BY DEF ChainNext, Broadcast, Reorganise, Finalise, GrowOld, Mine
  <2> QED BY <1>3, <1>4, <1>7, <2>1, StaysElsewhere, OthersRefuseNothing
          DEF CryptoNext, SubmitNext
<1>8. ASSUME NEW r \in Requests, LoseRequest(r) PROVE RefusalsAreFounded'
  <2>1. Finish(r) /\ \A q \in Requests \ {r} : proof'[q] = proof[q]
    BY <1>1, <1>8 DEF LoseRequest, Lose
  <2> QED BY <1>1, <1>3, <2>1, FinishesElsewhere
<1>9. CASE UNCHANGED vars
  BY <1>3, <1>9, StaysElsewhere DEF vars
<1> QED BY <1>5, <1>6, <1>7, <1>8, <1>9 DEF Next

(* A pending claim is failed by a refusal only, for the reason it carries. *)
LEMMA OnlyRefusalsClose ==
  ASSUME IInv, [Next]_vars, NEW h \in Hashes, claims[h] # Null,
         claims[h].status = "pending", claims'[h].status = "failed"
  PROVE  \E r \in Requests : /\ req[r].at = "refuse" /\ proof[r].hash = h
                             /\ claims'[h].reason = proof[r].reason
<1>1. claims \in [Hashes -> Claim \union {Null}] /\ claims[h] \in Claim
  BY DEF IInv, TypeOK, CryptoTypeOK
<1>2. ~UNCHANGED claims
  OBVIOUS
<1>3. PICK r \in Requests : SubmitClaim(r) \/ StillPending(r) \/ Refuse(r) \/ Activate(r)
  <2>1. ChainNext => UNCHANGED claims
    BY DEF ChainNext, Broadcast, Reorganise, Finalise, GrowOld, Mine
  <2>2. SubmitNext => \E r \in Requests : SubmitClaim(r) \/ StillPending(r) \/ Refuse(r)
                                          \/ Activate(r)
    BY <1>2 DEF SubmitNext, SubmitBegin, SubmitLookup, SubmitReread, VerifyObserve,
                VerifyUnavailable, cryptoVars
  <2> QED BY <1>2, <2>1, <2>2 DEF Next, CryptoNext, LoseRequest, cryptoVars, vars
<1> DEFINE k == proof[r].hash
<1>4. ~SubmitClaim(r)
  BY <1>1 DEF SubmitClaim
<1>5. ~StillPending(r)
  <2>1. StillPending(r) => claims'[h].status = claims[h].status
    BY <1>1 DEF StillPending, Claim
  <2> QED BY <2>1
<1>6. ~Activate(r)
  <2>1. Activate(r) => claims'[h].status \in {claims[h].status, "paid"}
    BY <1>1 DEF Activate, Claim
  <2> QED BY <2>1
<1>7. Refuse(r)
  BY <1>3, <1>4, <1>5, <1>6
<1>8. k = h /\ req[r].at = "refuse"
  BY <1>1, <1>2, <1>7 DEF Refuse
<1>9. claims'[h].reason = proof[r].reason
  BY <1>1, <1>7, <1>8 DEF Refuse, Claim
<1> QED BY <1>8, <1>9

(* A claim is closed on the final state of its transaction, or on a revert *)
(* or by a node of another chain: whatever lagging nodes answer and however*)
(* far the chain reorganises in between, no payment that would have counted*)
(* is burnt for another reason.                                            *)
THEOREM ClaimsCloseOnTruth == Spec => ClaimClosesOnFinalTruth
<1>1. Init => RefusalsAreFounded
  BY DEF Init, SubInit, Idle, RefusalsAreFounded
<1>2. IInv /\ RefusalsAreFounded /\ [Next]_vars => RefusalsAreFounded'
  BY FoundedStep
<1>3. IInv /\ RefusalsAreFounded /\ [Next]_vars =>
        [\A h \in Hashes :
           /\ claims[h] # Null /\ claims[h].status = "pending"
           /\ claims'[h].status = "failed"
           /\ claims'[h].reason \notin {"reverted", "rpc_chain_mismatch"}
           => chain[h].stage = "final" /\ (chain[h].effect # "good" \/ chain[h].old)]_vars
  BY OnlyRefusalsClose DEF RefusalsAreFounded, Refuted, Provisional
<1> QED BY <1>1, <1>2, <1>3, Invariance, PTL DEF Spec, ClaimClosesOnFinalTruth
=============================================================================
