------------------------------ MODULE RateLimit -----------------------------
(***************************************************************************)
(* The fixed windows that limit gateway traffic (rate-limit.ts): one per   *)
(* API key, and one per account over all its keys, which only the calls    *)
(* its key lets through reach.  A window begins with a call; a sweep       *)
(* forgets those that are over.  A call is one step: nothing is awaited.   *)
(***************************************************************************)
EXTENDS Integers, FiniteSets, Absent

CONSTANTS
  Keys,      \* the keys of one account
  Window,    \* windowMs, in ticks; sweeps are as far apart
  Limits,    \* limitPerMinute of the plans the account can come to have
  MaxNow     \* bound on time

VARIABLES
  buckets,   \* the store: buckets[b] = the window of key b, or of the account
  now,
  lastSweep,
  limit,     \* of the plan that authentication read last
  passed,    \* history, passed[t][k]: the calls of k its key let through at t
  admitted   \* history, admitted[t]: of these, the calls the account let through

limitVars == <<buckets, now, lastSweep, limit, passed, admitted>>

Account == "user"

Bucket == [count : Nat, resetAt : Nat]

Over(bucket) == bucket = Null \/ bucket.resetAt <= now

SweepDue == now - lastSweep > Window

(* Fault: the sweep clears the store.                                      *)
SweptClear == [b \in DOMAIN buckets |-> IF SweepDue THEN Null ELSE buckets[b]]

Swept == [b \in DOMAIN buckets |->
            IF SweepDue /\ Over(buckets[b]) THEN Null ELSE buckets[b]]

(* MemoryStore.hit, but for its sweep.                                     *)
Hit(store, b) ==
  [store EXCEPT ![b] =
     IF Over(store[b]) THEN [count |-> 1, resetAt |-> now + Window]
                       ELSE [store[b] EXCEPT !.count = store[b].count + 1]]

(* Fault: the count is compared before this call was added to it.          *)
AllowsOneMore(store, b, n) == store[b].count - 1 <= n

Allows(store, b, n) == store[b].count <= n

(* Bound: calls beyond the first one that the window of key k refuses only *)
(* add to its count.                                                       *)
Explored(k) == ~Over(buckets[k]) => buckets[k].count <= limit

(* Fault: the account's window counts what its key refuses, too.           *)
CallBoth(k) ==
  LET perKey == Hit(Swept, k)
      perUser == Hit(perKey, Account)
      passes == Allows(perKey, k, limit)
      enters == passes /\ Allows(perUser, Account, 2 * limit)
  IN /\ Explored(k)
     /\ buckets' = perUser
     /\ lastSweep' = IF SweepDue THEN now ELSE lastSweep
     /\ passed' = [passed EXCEPT ![now][k] = IF passes THEN @ + 1 ELSE @]
     /\ admitted' = [admitted EXCEPT ![now] = IF enters THEN @ + 1 ELSE @]
     /\ UNCHANGED <<now, limit>>

(* gatewayRateLimit.                                                       *)
Call(k) ==
  LET perKey == Hit(Swept, k)
      passes == Allows(perKey, k, limit)
      perUser == IF passes THEN Hit(perKey, Account) ELSE perKey
      enters == passes /\ Allows(perUser, Account, 2 * limit)
  IN /\ Explored(k)
     /\ buckets' = perUser
     /\ lastSweep' = IF SweepDue THEN now ELSE lastSweep
     /\ passed' = [passed EXCEPT ![now][k] = IF passes THEN @ + 1 ELSE @]
     /\ admitted' = [admitted EXCEPT ![now] = IF enters THEN @ + 1 ELSE @]
     /\ UNCHANGED <<now, limit>>

(* The plan of the account has a higher limit from now on.                 *)
Upgrade ==
  /\ limit' \in {n \in Limits : n > limit}
  /\ UNCHANGED <<buckets, now, lastSweep, passed, admitted>>

Tick ==
  /\ now < MaxNow
  /\ now' = now + 1
  /\ UNCHANGED <<buckets, lastSweep, limit, passed, admitted>>

LimitInit ==
  /\ buckets = [b \in Keys \union {Account} |-> Null]
  /\ now = 0 /\ lastSweep = 0
  /\ limit \in Limits
  /\ passed = [t \in 0 .. MaxNow |-> [k \in Keys |-> 0]]
  /\ admitted = [t \in 0 .. MaxNow |-> 0]

LimitNext == (\E k \in Keys : Call(k)) \/ Upgrade \/ Tick

-----------------------------------------------------------------------------
(* The calls a history counts, each with its number at its time.           *)
Made(history) == UNION {{t} \X (1 .. history[t]) : t \in DOMAIN history}

Total(history) == Cardinality(Made(history))

Lately == {t \in 0 .. now : t > now - Window}

(* A burst can straddle the boundary of two windows, but the first of them *)
(* began with a call of its own: no interval as long as a window sees more *)
(* than twice the limit less one, of a key or of the account.              *)
BurstsAreBounded ==
  /\ \A k \in Keys : Total([t \in Lately |-> passed[t][k]]) <= 2 * limit - 1
  /\ Total([t \in Lately |-> admitted[t]]) <= 2 * (2 * limit) - 1

(* What one key is refused costs the other keys of the account nothing:    *)
(* the account's window counts exactly what the keys let through.          *)
RefusalsAreFree ==
  ~Over(buckets[Account]) =>
    buckets[Account].count =
      Total([w \in {t \in 0 .. now : t >= buckets[Account].resetAt - Window} \X Keys
               |-> passed[w[1]][w[2]]])

(* Throughput is what the plan says, up to one boundary of two windows.    *)
RateIsBounded == BurstsAreBounded /\ RefusalsAreFree
=============================================================================
