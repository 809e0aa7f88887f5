----------------------------- MODULE Path_proofs -----------------------------
(***************************************************************************)
(* The parts of a call's path: pools of any size rotate fairly, whatever   *)
(* the cooldown; limits hold for any keys, window and limits; frames       *)
(* follow the dialect whatever an upstream says.                           *)
(*                                                                         *)
(* The pool.  `next' always finds an entry: the first free one it looks    *)
(* at, or, when all are parked, the one whose cooldown ends first, which   *)
(* exists because cooldowns are natural numbers.  No cooldown ends later   *)
(* than one that begins now, so a request that comes back to the entry it  *)
(* has just failed through found all of them parked until then.  As long   *)
(* as nothing has failed the first entry looked at is always free, and the *)
(* cursor marks how far the present round has come: the entries before it  *)
(* have been used once more than the others.                               *)
(*                                                                         *)
(* The limiter.  A window's count bounds what it let through, a window     *)
(* that is over counts no more, and the one before the present window let  *)
(* through one call at its very start and so at most the limit less one    *)
(* after it.  An interval as long as a window meets at most these two, and *)
(* of the earlier one not its start.  The account's count is exactly what  *)
(* the keys let through since its window began.                            *)
(*                                                                         *)
(* The wire.  What a client was sent is always the opening, some deltas    *)
(* and, once the handler is at its end, one of the two ways to end; each   *)
(* dialect's rule is then a fact about such sequences.                     *)
(*                                                                         *)
(* The metering.  A body is made of fours, so what the buffer holds is the *)
(* start of one event, less than four units, and all events before it have *)
(* been heard.  A read adds units to that start: what it hears is what a   *)
(* reader of the whole body hears between the same two events, because     *)
(* hearing goes event by event and the text, the reported usage and the    *)
(* meter after an event depend on those before it only.  So at every end   *)
(* of the body the adapter has the counts of that reader, whatever the     *)
(* reads were.  The deltas heard but not sent are those in the queue, and  *)
(* a stream that ends well has an empty queue; counting the delta frames   *)
(* of opening, deltas and ending gives the rest.                           *)
(***************************************************************************)
EXTENDS GatewayMC, SequenceTheorems, FiniteSetTheorems, FunctionTheorems, WellFoundedInduction,
        TLAPS

Free == \A e \in Pool!Entries : cooldownUntil[e] = 0

(* How often e was used in the present round.                              *)
Round(e) == IF e <= cursor THEN 1 ELSE 0

PoolTyped ==
  /\ cursor \in 0 .. Proxies - 1
  /\ cooldownUntil \in [Pool!Entries -> Nat]
  /\ now \in Nat /\ closed \in BOOLEAN
  /\ fetch \in [Fetches -> Pool!Fetch]
  /\ uses \in [Pool!Entries -> Nat]

PoolInv ==
  /\ PoolTyped
  /\ \A e \in Pool!Entries : cooldownUntil[e] <= now + Cooldown
  /\ \A f \in Fetches : fetch[f].at = "idle" => fetch[f].tried = <<>>
  /\ \A f \in Fetches : fetch[f].at = "sent" => fetch[f].via \in Pool!Entries
  /\ Free => \A e, d \in Pool!Entries : uses[e] + Round(d) = uses[d] + Round(e)

-----------------------------------------------------------------------------
(* A set of natural numbers that is not empty has a least element.         *)
LEMMA LeastNumber ==
  ASSUME NEW S \in SUBSET Nat, S # {}
  PROVE  \E n \in S : \A m \in S : n <= m
<1> DEFINE R == OpToRel(<, Nat)
<1>1. \E n \in S : \A m \in S : <<m, n>> \notin R
  <2>1. IsWellFoundedOn(R, Nat)
    BY NatLessThanWellFounded
  <2> HIDE DEF R
  <2> QED BY <2>1, WFMin
<1>2. \A n, m \in Nat : m < n => <<m, n>> \in R
  BY DEF OpToRel
<1> HIDE DEF R
<1>3. PICK n \in S : \A m \in S : <<m, n>> \notin R
  BY <1>1
<1>4. ASSUME NEW m \in S PROVE n <= m
  <2>1. n \in Nat /\ m \in Nat
    OBVIOUS
  <2>2. ~(m < n)
    BY <1>2, <1>3, <2>1
  <2> QED BY <2>1, <2>2
<1> QED BY <1>4

(* Arithmetic of the ring.                                                 *)
LEMMA Ring ==
  ASSUME NEW n \in Nat \ {0}
  PROVE  /\ \A a \in Nat : a % n \in 0 .. n - 1
         /\ \A a \in 0 .. n - 1 : a % n = a
         /\ n % n = 0
<1>1. ASSUME NEW a \in Nat PROVE a % n \in 0 .. n - 1
  OBVIOUS
<1>2. ASSUME NEW a \in 0 .. n - 1 PROVE a % n = a
  OBVIOUS
<1>3. n % n = 0
  OBVIOUS
<1> QED BY <1>1, <1>2, <1>3

LEMMA PoolFacts ==
  /\ Proxies \in Nat \ {0} /\ Cooldown \in Nat \ {0}
  /\ Pool!Entries = 1 .. Proxies /\ Null \notin Pool!Entries
BY PoolAssumption DEF PoolAssumption, Pool!Entries

-----------------------------------------------------------------------------
(* next(): what it looks at, what it chooses and where it stops.           *)
LEMMA ScannedIsAnEntry ==
  ASSUME PoolTyped, NEW i \in Pool!Entries
  PROVE  Pool!Scanned(i) \in Pool!Entries
<1>1. cursor + i - 1 \in Nat
  BY PoolFacts DEF PoolTyped
<1>2. (cursor + i - 1) % Proxies \in 0 .. Proxies - 1
  BY <1>1, PoolFacts, Ring
<1> QED BY <1>2, PoolFacts DEF Pool!Scanned

LEMMA LookedIsReady ==
  ASSUME NEW cools, Pool!Ready(cools) # {}
  PROVE  /\ Pool!Looked(cools) \in Pool!Ready(cools)
         /\ \A j \in Pool!Ready(cools) : Pool!Looked(cools) <= j
<1>1. Pool!Ready(cools) \in SUBSET Nat
  BY PoolFacts DEF Pool!Ready
<1>2. \E i \in Pool!Ready(cools) : \A j \in Pool!Ready(cools) : i <= j
  BY <1>1, LeastNumber
<1> QED BY <1>2 DEF Pool!Looked

LEMMA LeastRecentEndsFirst ==
  ASSUME NEW cools \in [Pool!Entries -> Nat]
  PROVE  /\ Pool!LeastRecent(cools) \in Pool!Entries
         /\ \A d \in Pool!Entries : cools[Pool!LeastRecent(cools)] <= cools[d]
<1> DEFINE S == {cools[e] : e \in Pool!Entries}
<1>1. PICK n \in S : \A m \in S : n <= m
  <2>1. S \in SUBSET Nat
    OBVIOUS
  <2>2. 1 \in Pool!Entries
    BY PoolFacts
  <2>3. S # {}
    BY <2>2
  <2> HIDE DEF S
  <2> QED BY <2>1, <2>3, LeastNumber
<1> DEFINE T == {e \in Pool!Entries : cools[e] = n}
<1>2. PICK e \in T : \A d \in T : e <= d
  <2>1. T \in SUBSET Nat
    BY PoolFacts
  <2>2. T # {}
    BY <1>1
  <2> HIDE DEF T
  <2> QED BY <2>1, <2>2, LeastNumber
<1>3. e \in Pool!Entries /\ cools[e] = n /\ n \in Nat
  BY <1>2
<1>4. ASSUME NEW d \in Pool!Entries
      PROVE  cools[e] < cools[d] \/ (cools[e] = cools[d] /\ e <= d)
  <2>1. n <= cools[d] /\ cools[d] \in Nat
    BY <1>1
  <2>2. cools[d] = n => e <= d
    BY <1>2
  <2> QED BY <1>3, <2>1, <2>2
<1>5. \E x \in Pool!Entries : \A d \in Pool!Entries :
        cools[x] < cools[d] \/ (cools[x] = cools[d] /\ x <= d)
  BY <1>3, <1>4
<1> DEFINE x == Pool!LeastRecent(cools)
<1>6. /\ x \in Pool!Entries
      /\ \A d \in Pool!Entries : cools[x] < cools[d] \/ (cools[x] = cools[d] /\ x <= d)
  BY <1>5 DEF Pool!LeastRecent
<1> HIDE DEF x
<1>7. \A d \in Pool!Entries : cools[x] \in Nat /\ cools[d] \in Nat
  BY <1>6
<1>8. \A d \in Pool!Entries : cools[x] <= cools[d]
  BY <1>6, <1>7
<1> QED BY <1>6, <1>8 DEF x

LEMMA ChosenPassesOver ==
  ASSUME PoolTyped, NEW cools \in [Pool!Entries -> Nat]
  PROVE  /\ Pool!Chosen(cools) \in Pool!Entries
         /\ \/ cools[Pool!Chosen(cools)] <= now
            \/ \A d \in Pool!Entries : cools[Pool!Chosen(cools)] <= cools[d]
<1>1. CASE Pool!Ready(cools) = {}
  BY <1>1, LeastRecentEndsFirst DEF Pool!Chosen
<1>2. CASE Pool!Ready(cools) # {}
  <2>1. Pool!Looked(cools) \in Pool!Ready(cools)
    BY <1>2, LookedIsReady
  <2>2. /\ Pool!Looked(cools) \in Pool!Entries
        /\ cools[Pool!Scanned(Pool!Looked(cools))] <= now
    BY <2>1 DEF Pool!Ready
  <2> QED BY <1>2, <2>2, ScannedIsAnEntry DEF Pool!Chosen
<1> QED BY <1>1, <1>2

LEMMA AdvancedIsOnTheRing ==
  ASSUME PoolTyped, NEW cools
  PROVE  Pool!Advanced(cools) \in 0 .. Proxies - 1
<1>1. Pool!Looked(cools) \in Nat
  <2>1. CASE Pool!Ready(cools) = {}
    BY <2>1, PoolFacts DEF Pool!Looked
  <2>2. CASE Pool!Ready(cools) # {}
    <3>1. Pool!Looked(cools) \in Pool!Entries
      BY <2>2, LookedIsReady DEF Pool!Ready
    <3> QED BY <3>1, PoolFacts
  <2> QED BY <2>1, <2>2
<1>2. cursor + Pool!Looked(cools) \in Nat
  BY <1>1 DEF PoolTyped
<1> QED BY <1>2, PoolFacts, Ring DEF Pool!Advanced

(* While nothing is parked the next entry in turn is taken.                *)
LEMMA FreeTurn ==
  ASSUME PoolTyped, Free
  PROVE  /\ Pool!Chosen(cooldownUntil) = cursor + 1
         /\ Pool!Advanced(cooldownUntil) = IF cursor + 1 = Proxies THEN 0 ELSE cursor + 1
<1> DEFINE cools == cooldownUntil
<1>1. cursor \in 0 .. Proxies - 1 /\ now \in Nat /\ 1 \in Pool!Entries
  BY PoolFacts DEF PoolTyped
<1>2. Pool!Scanned(1) = cursor + 1
  <2>1. cursor + 1 - 1 = cursor
    BY <1>1
  <2>2. cursor % Proxies = cursor
    <3>1. Proxies \in Nat \ {0}
      BY PoolFacts
    <3> QED BY <1>1, <3>1, Ring
  <2> QED BY <2>1, <2>2 DEF Pool!Scanned
<1>3. 1 \in Pool!Ready(cools)
  <2>1. Pool!Scanned(1) \in Pool!Entries
    BY <1>1, ScannedIsAnEntry
  <2> QED BY <1>1, <2>1 DEF Pool!Ready, Free
<1>4. Pool!Looked(cools) = 1
  <2>1. /\ Pool!Looked(cools) \in Pool!Ready(cools)
        /\ \A j \in Pool!Ready(cools) : Pool!Looked(cools) <= j
    BY <1>3, LookedIsReady
  <2>2. Pool!Looked(cools) <= 1 /\ Pool!Looked(cools) \in 1 .. Proxies
    BY <1>3, <2>1, PoolFacts DEF Pool!Ready
  <2> QED BY <2>2, PoolFacts
<1>5. Pool!Chosen(cools) = cursor + 1
  BY <1>2, <1>3, <1>4 DEF Pool!Chosen
<1>6. (cursor + 1) % Proxies = IF cursor + 1 = Proxies THEN 0 ELSE cursor + 1
  <2>1. cursor + 1 # Proxies => cursor + 1 \in 0 .. Proxies - 1
    BY <1>1, PoolFacts
  <2>2. cursor + 1 # Proxies => (cursor + 1) % Proxies = cursor + 1
    BY <2>1, PoolFacts, Ring
  <2>3. Proxies % Proxies = 0
    BY PoolFacts, Ring
  <2> QED BY <2>2, <2>3
<1> QED BY <1>4, <1>5, <1>6 DEF Pool!Advanced

-----------------------------------------------------------------------------
(* fetchThroughPool.                                                       *)
LEMMA SendGoes ==
  ASSUME PoolInv, NEW f \in Fetches, NEW cools \in [Pool!Entries -> Nat], Pool!Send(f, cools)
  PROVE  /\ cursor' \in 0 .. Proxies - 1 /\ uses' \in [Pool!Entries -> Nat]
         /\ fetch' \in [Fetches -> Pool!Fetch]
         /\ fetch'[f].at = "sent" /\ fetch'[f].via = Pool!Chosen(cools)
         /\ fetch'[f].via \in Pool!Entries
         /\ Len(fetch'[f].tried) = Len(fetch[f].tried) + 1
         /\ \A g \in Fetches \ {f} : fetch'[g] = fetch[g]
<1> DEFINE e == Pool!Chosen(cools)
           tried == Append(fetch[f].tried, e)
           new == [fetch[f] EXCEPT !.at = "sent", !.via = e, !.tried = tried,
                                   !.refused = closed]
<1>1. e \in Pool!Entries /\ fetch[f] \in Pool!Fetch /\ fetch \in [Fetches -> Pool!Fetch]
      /\ uses \in [Pool!Entries -> Nat] /\ closed \in BOOLEAN
  BY ChosenPassesOver DEF PoolInv, PoolTyped
<1>2. cursor' \in 0 .. Proxies - 1
  BY AdvancedIsOnTheRing DEF PoolInv, Pool!Send
<1>3. uses' \in [Pool!Entries -> Nat]
  <2>1. uses' = [uses EXCEPT ![e] = uses[e] + 1]
    BY DEF Pool!Send
  <2> HIDE DEF e
  <2> QED BY <1>1, <2>1
<1>4. tried \in Seq(Pool!Entries) /\ Len(tried) = Len(fetch[f].tried) + 1
  <2>1. fetch[f].tried \in Seq(Pool!Entries)
    BY <1>1 DEF Pool!Fetch
  <2> HIDE DEF e
  <2> QED BY <1>1, <2>1
<1>5. fetch' = [fetch EXCEPT ![f] = new]
  BY DEF Pool!Send
<1> HIDE DEF e, tried
<1>6. /\ new \in Pool!Fetch /\ new.at = "sent" /\ new.via = e /\ new.tried = tried
  BY <1>1, <1>4 DEF Pool!Fetch
<1> HIDE DEF new
<1>7. fetch' \in [Fetches -> Pool!Fetch] /\ fetch'[f] = new
      /\ \A g \in Fetches \ {f} : fetch'[g] = fetch[g]
  BY <1>1, <1>5, <1>6
<1> QED BY <1>1, <1>2, <1>3, <1>4, <1>6, <1>7 DEF e

(* Steps that rewrite a request and send nothing.                          *)
LEMMA RestKeeps ==
  ASSUME PoolInv, NEW f \in Fetches, NEW new \in Pool!Fetch,
         fetch' = [fetch EXCEPT ![f] = new],
         new.at = "idle" => new.tried = <<>>,
         new.at = "sent" => new.via \in Pool!Entries,
         now' \in Nat, now <= now', closed' \in BOOLEAN, UNCHANGED <<cursor, uses>>,
         cooldownUntil' \in [Pool!Entries -> Nat],
         \A e \in Pool!Entries : cooldownUntil'[e] <= now' + Cooldown,
         Free' => Free
  PROVE  PoolInv'
<1>1. fetch' \in [Fetches -> Pool!Fetch]
      /\ \A g \in Fetches : fetch'[g] = IF g = f THEN new ELSE fetch[g]
  BY DEF PoolInv, PoolTyped
<1>2. PoolTyped'
  BY <1>1 DEF PoolInv, PoolTyped
<1>3. (\A g \in Fetches : fetch[g].at = "idle" => fetch[g].tried = <<>>)'
  BY <1>1 DEF PoolInv
<1>4. (\A g \in Fetches : fetch[g].at = "sent" => fetch[g].via \in Pool!Entries)'
  BY <1>1 DEF PoolInv
<1>5. (Free => \A e, d \in Pool!Entries : uses[e] + Round(d) = uses[d] + Round(e))'
  BY DEF PoolInv, Round
<1> QED BY <1>2, <1>3, <1>4, <1>5 DEF PoolInv

LEMMA StartKeeps ==
  ASSUME PoolInv, NEW f \in Fetches, Pool!Start(f)
  PROVE  PoolInv'
<1>1. /\ cooldownUntil \in [Pool!Entries -> Nat] /\ Pool!Send(f, cooldownUntil)
      /\ UNCHANGED <<cooldownUntil, now, closed>> /\ PoolTyped
  BY DEF PoolInv, PoolTyped, Pool!Start
<1>2. /\ cursor' \in 0 .. Proxies - 1 /\ uses' \in [Pool!Entries -> Nat]
      /\ fetch' \in [Fetches -> Pool!Fetch]
      /\ fetch'[f].at = "sent" /\ fetch'[f].via \in Pool!Entries
      /\ \A g \in Fetches \ {f} : fetch'[g] = fetch[g]
  BY <1>1, SendGoes
<1>3. PoolTyped'
  BY <1>1, <1>2 DEF PoolTyped
<1>4. /\ \A e \in Pool!Entries : cooldownUntil'[e] <= now' + Cooldown
      /\ \A g \in Fetches : fetch'[g].at = "idle" => fetch'[g].tried = <<>>
      /\ \A g \in Fetches : fetch'[g].at = "sent" => fetch'[g].via \in Pool!Entries
  BY <1>1, <1>2 DEF PoolInv
<1>5. ASSUME Free', NEW e \in Pool!Entries, NEW d \in Pool!Entries
      PROVE  (uses[e] + Round(d) = uses[d] + Round(e))'
  <2>1. Free
    BY <1>1, <1>5 DEF Free
  <2>2. /\ uses' = [uses EXCEPT ![cursor + 1] = uses[cursor + 1] + 1]
        /\ cursor' = IF cursor + 1 = Proxies THEN 0 ELSE cursor + 1
    BY <1>1, <2>1, FreeTurn DEF Pool!Send
  <2>3. /\ cursor \in 0 .. Proxies - 1 /\ uses \in [Pool!Entries -> Nat]
        /\ Pool!Entries = 1 .. Proxies /\ Proxies \in Nat \ {0}
    BY <1>1, PoolFacts DEF PoolTyped
  <2>4. uses[e] + Round(d) = uses[d] + Round(e)
    BY <2>1 DEF PoolInv
  <2>5. \A x \in Pool!Entries : uses'[x] = IF x = cursor + 1 THEN uses[x] + 1 ELSE uses[x]
    BY <2>2, <2>3
  <2>6. \A x \in Pool!Entries : uses[x] \in Nat /\ x \in 1 .. Proxies
    BY <2>3
  <2>7. \A x \in Pool!Entries :
          (IF x <= cursor' THEN 1 ELSE 0)
            = (IF x <= cursor + 1 THEN 1 ELSE 0) - (IF cursor + 1 = Proxies THEN 1 ELSE 0)
    BY <2>2, <2>3, <2>6
  <2>8. uses'[e] + (IF d <= cursor' THEN 1 ELSE 0) = uses'[d] + (IF e <= cursor' THEN 1 ELSE 0)
    BY <2>3, <2>4, <2>5, <2>6, <2>7 DEF Round
  <2> QED BY <2>8 DEF Round
<1> QED BY <1>3, <1>4, <1>5 DEF PoolInv

(* A failure parks the entry, and nothing is free of failures any more.    *)
LEMMA Penalty ==
  ASSUME PoolInv, NEW f \in Fetches, Pool!TransportFails(f)
  PROVE  /\ fetch[f].via \in Pool!Entries
         /\ cooldownUntil' = Pool!Penalised(fetch[f].via)
         /\ cooldownUntil' \in [Pool!Entries -> Nat]
         /\ cooldownUntil'[fetch[f].via] = now + Cooldown
         /\ \A e \in Pool!Entries : cooldownUntil'[e] <= now + Cooldown
         /\ ~Free'
<1>1. /\ fetch[f].via \in Pool!Entries /\ cooldownUntil \in [Pool!Entries -> Nat] /\ now \in Nat
      /\ cooldownUntil' = [cooldownUntil EXCEPT ![fetch[f].via] = now + Cooldown]
  BY DEF PoolInv, PoolTyped, Pool!TransportFails, Pool!Penalised
<1>2. cooldownUntil' \in [Pool!Entries -> Nat] /\ cooldownUntil'[fetch[f].via] = now + Cooldown
  BY <1>1, PoolFacts
<1>3. \A e \in Pool!Entries : cooldownUntil'[e] <= now + Cooldown
  <2> SUFFICES ASSUME NEW e \in Pool!Entries PROVE cooldownUntil'[e] <= now + Cooldown
    OBVIOUS
  <2>1. cooldownUntil[e] <= now + Cooldown
    BY DEF PoolInv
  <2>2. cooldownUntil'[e] = IF e = fetch[f].via THEN now + Cooldown ELSE cooldownUntil[e]
    BY <1>1
  <2> QED BY <1>1, <2>1, <2>2, PoolFacts
<1>4. ~Free'
  BY <1>1, <1>2, PoolFacts DEF Free
<1> QED BY <1>1, <1>2, <1>3, <1>4 DEF Pool!TransportFails

LEMMA FinishKeeps ==
  ASSUME PoolInv, NEW f \in Fetches, NEW result \in {"response", "error"},
         Pool!Finish(f, result), UNCHANGED <<now, closed>>,
         cooldownUntil' \in [Pool!Entries -> Nat],
         \A e \in Pool!Entries : cooldownUntil'[e] <= now + Cooldown,
         Free' => Free
  PROVE  PoolInv'
<1> DEFINE new == [fetch[f] EXCEPT !.at = "done", !.result = result]
<1>1. fetch[f] \in Pool!Fetch /\ now \in Nat /\ closed \in BOOLEAN
  BY DEF PoolInv, PoolTyped
<1>2. new \in Pool!Fetch /\ new.at = "done"
  BY <1>1 DEF Pool!Fetch
<1>3. fetch' = [fetch EXCEPT ![f] = new] /\ UNCHANGED <<cursor, uses>>
  BY DEF Pool!Finish
<1> HIDE DEF new
<1>4. /\ now' \in Nat /\ now <= now' /\ closed' \in BOOLEAN /\ UNCHANGED <<cursor, uses>>
      /\ \A e \in Pool!Entries : cooldownUntil'[e] <= now' + Cooldown
      /\ (new.at = "idle" => new.tried = <<>>) /\ (new.at = "sent" => new.via \in Pool!Entries)
  BY <1>1, <1>2, <1>3
<1> QED BY <1>2, <1>3, <1>4, RestKeeps

LEMMA TransportFailsKeeps ==
  ASSUME PoolInv, NEW f \in Fetches, Pool!TransportFails(f)
  PROVE  PoolInv'
<1>1. UNCHANGED <<now, closed>>
  BY DEF Pool!TransportFails
<1>2. /\ cooldownUntil' \in [Pool!Entries -> Nat] /\ ~Free'
      /\ \A e \in Pool!Entries : cooldownUntil'[e] <= now + Cooldown
      /\ cooldownUntil' = Pool!Penalised(fetch[f].via)
  BY Penalty
<1>3. CASE Pool!Finish(f, "error")
  BY <1>1, <1>2, <1>3, FinishKeeps
<1>4. CASE Pool!Send(f, Pool!Penalised(fetch[f].via))
  <2>1. /\ cursor' \in 0 .. Proxies - 1 /\ uses' \in [Pool!Entries -> Nat]
        /\ fetch' \in [Fetches -> Pool!Fetch]
        /\ fetch'[f].at = "sent" /\ fetch'[f].via \in Pool!Entries
        /\ \A g \in Fetches \ {f} : fetch'[g] = fetch[g]
    BY <1>2, <1>4, SendGoes
  <2>2. PoolTyped'
    BY <1>1, <1>2, <2>1 DEF PoolInv, PoolTyped
  <2>3. /\ \A e \in Pool!Entries : cooldownUntil'[e] <= now' + Cooldown
        /\ \A g \in Fetches : fetch'[g].at = "idle" => fetch'[g].tried = <<>>
        /\ \A g \in Fetches : fetch'[g].at = "sent" => fetch'[g].via \in Pool!Entries
    BY <1>1, <1>2, <2>1 DEF PoolInv
  <2> QED BY <1>2, <2>2, <2>3 DEF PoolInv
<1> QED BY <1>3, <1>4 DEF Pool!TransportFails

LEMMA PoolStep ==
  ASSUME PoolInv, Pool!PoolNext
  PROVE  PoolInv'
<1>1. /\ fetch \in [Fetches -> Pool!Fetch] /\ now \in Nat /\ closed \in BOOLEAN
      /\ cooldownUntil \in [Pool!Entries -> Nat]
      /\ \A e \in Pool!Entries : cooldownUntil[e] <= now + Cooldown
  BY DEF PoolInv, PoolTyped
<1>2. UNCHANGED cooldownUntil => (Free' => Free)
  BY DEF Free
<1>3. ASSUME NEW f \in Fetches, Pool!Respond(f) \/ Pool!Aborted(f) PROVE PoolInv'
  <2>1. /\ Pool!Finish(f, "response") \/ Pool!Finish(f, "error")
        /\ UNCHANGED <<cooldownUntil, now, closed>>
    BY <1>3 DEF Pool!Respond, Pool!Aborted
  <2>2. cooldownUntil' \in [Pool!Entries -> Nat]
        /\ \A e \in Pool!Entries : cooldownUntil'[e] <= now + Cooldown
    BY <1>1, <2>1
  <2> QED BY <1>2, <2>1, <2>2, FinishKeeps
<1>4. ASSUME NEW f \in Fetches, NEW signal \in {"timeout", "abort"}, Pool!Fire(f, signal)
      PROVE  PoolInv'
  <2> DEFINE new == [fetch[f] EXCEPT !.signal = signal]
  <2>1. fetch[f] \in Pool!Fetch /\ fetch[f].at = "sent" /\ fetch[f].via \in Pool!Entries
    BY <1>1, <1>4 DEF PoolInv, Pool!Fire
  <2>2. new \in Pool!Fetch /\ new.at = "sent" /\ new.via \in Pool!Entries
    BY <2>1 DEF Pool!Fetch
  <2>3. /\ fetch' = [fetch EXCEPT ![f] = new]
        /\ UNCHANGED <<cursor, cooldownUntil, now, closed, uses>>
    BY <1>4 DEF Pool!Fire
  <2> HIDE DEF new
  <2>4. /\ now' \in Nat /\ now <= now' /\ closed' \in BOOLEAN /\ UNCHANGED <<cursor, uses>>
        /\ cooldownUntil' \in [Pool!Entries -> Nat]
        /\ \A e \in Pool!Entries : cooldownUntil'[e] <= now' + Cooldown
        /\ (new.at = "idle" => new.tried = <<>>) /\ (Free' => Free)
    BY <1>1, <1>2, <2>2, <2>3
  <2> QED BY <2>2, <2>3, <2>4, RestKeeps
<1>5. ASSUME NEW f \in Fetches, Pool!Reuse(f) PROVE PoolInv'
  <2>1. Pool!NewFetch \in Pool!Fetch /\ Pool!NewFetch.at = "idle" /\ Pool!NewFetch.tried = <<>>
    BY DEF Pool!NewFetch, Pool!Fetch
  <2>2. /\ fetch' = [fetch EXCEPT ![f] = Pool!NewFetch]
        /\ UNCHANGED <<cursor, cooldownUntil, now, closed, uses>>
    BY <1>5 DEF Pool!Reuse
  <2>3. /\ now' \in Nat /\ now <= now' /\ closed' \in BOOLEAN /\ UNCHANGED <<cursor, uses>>
        /\ cooldownUntil' \in [Pool!Entries -> Nat]
        /\ \A e \in Pool!Entries : cooldownUntil'[e] <= now' + Cooldown
        /\ Pool!NewFetch.at # "sent" /\ (Free' => Free)
    BY <1>1, <1>2, <2>1, <2>2
  <2> QED BY <2>1, <2>2, <2>3, RestKeeps
<1>6. CASE Pool!Close
  BY <1>6 DEF Pool!Close, PoolInv, PoolTyped, Free, Round
<1>7. CASE Pool!Tick
  <2>1. now' = now + 1 /\ UNCHANGED <<cursor, cooldownUntil, closed, fetch, uses>>
    BY <1>7 DEF Pool!Tick
  <2>2. now' \in Nat /\ \A e \in Pool!Entries : cooldownUntil'[e] <= now' + Cooldown
    <3>1. \A e \in Pool!Entries : cooldownUntil[e] \in Nat
      BY <1>1
    <3> QED BY <1>1, <2>1, <3>1, PoolFacts
  <2>3. PoolTyped'
    BY <2>1, <2>2 DEF PoolInv, PoolTyped
  <2> QED BY <2>1, <2>2, <2>3 DEF PoolInv, Free, Round
<1> QED BY <1>3, <1>4, <1>5, <1>6, <1>7, StartKeeps, TransportFailsKeeps DEF Pool!PoolNext

LEMMA PoolBegins ==
  ASSUME Pool!PoolInit
  PROVE  PoolInv
<1>1. /\ cursor = 0 /\ cooldownUntil = [e \in Pool!Entries |-> 0] /\ now = 0 /\ closed = FALSE
      /\ fetch = [f \in Fetches |-> Pool!NewFetch] /\ uses = [e \in Pool!Entries |-> 0]
  BY DEF Pool!PoolInit
<1>2. Pool!NewFetch \in Pool!Fetch /\ Pool!NewFetch.at = "idle" /\ Pool!NewFetch.tried = <<>>
  BY DEF Pool!NewFetch, Pool!Fetch
<1>0. Proxies \in Nat \ {0}
  BY PoolFacts
<1>3. PoolTyped
  <2>1. cursor \in 0 .. Proxies - 1
    BY <1>1, <1>0
  <2>2. cooldownUntil \in [Pool!Entries -> Nat] /\ uses \in [Pool!Entries -> Nat]
    BY <1>1
  <2>3. fetch \in [Fetches -> Pool!Fetch]
    BY <1>1, <1>2
  <2>4. now \in Nat /\ closed \in BOOLEAN
    BY <1>1
  <2> QED BY <2>1, <2>2, <2>3, <2>4 DEF PoolTyped
<1>4. \A e \in Pool!Entries : Round(e) = 0
  BY <1>1, PoolFacts DEF Round
<1> QED BY <1>1, <1>2, <1>3, <1>4, PoolFacts DEF PoolInv

(* The state of the pool is well typed, a request that is out is out       *)
(* through an entry, and rounds are complete as long as nothing failed.    *)
THEOREM PoolInvariance == PathSpec => []PoolInv
<1>1. PathInit => PoolInv
  BY PoolBegins DEF PathInit
<1>2. PoolInv /\ [PathNext]_<<part, vars, lineVars, poolVars, limitVars>> => PoolInv'
  <2> SUFFICES ASSUME PoolInv, [PathNext]_<<part, vars, lineVars, poolVars, limitVars>>
               PROVE  PoolInv'
    OBVIOUS
  <2>1. CASE Pool!PoolNext
    BY <2>1, PoolStep
  <2>2. CASE UNCHANGED poolVars
    BY <2>2 DEF poolVars, PoolInv, PoolTyped, Free, Round
  <2> QED BY <2>1, <2>2 DEF PathNext
<1> QED BY <1>1, <1>2, PTL DEF PathSpec

-----------------------------------------------------------------------------
LEMMA SpreadFollows == PoolInv => Pool!LoadIsSpread
<1> SUFFICES ASSUME PoolInv, Free, NEW e \in Pool!Entries, NEW d \in Pool!Entries
             PROVE  uses[e] <= uses[d] + 1
  BY DEF Pool!LoadIsSpread, Free
<1>1. uses[e] + Round(d) = uses[d] + Round(e) /\ uses[e] \in Nat /\ uses[d] \in Nat
  BY DEF PoolInv, PoolTyped
<1>2. Round(d) \in {0, 1} /\ Round(e) \in {0, 1}
  BY DEF Round
<1> HIDE DEF Free
<1> QED BY <1>1, <1>2

LEMMA GoesFairly ==
  ASSUME PoolInv, Pool!PoolNext, NEW f \in Fetches, Pool!Goes(f)
  PROVE  Pool!PassesOverParked(f) /\ Pool!MovesOn(f)
<1>1. Pool!Start(f) \/ Pool!TransportFails(f)
  <2>1. ASSUME NEW g \in Fetches, g # f, Pool!Start(g) \/ Pool!TransportFails(g)
        PROVE  FALSE
    <3>1. fetch'[f] = fetch[f]
      BY <2>1 DEF PoolInv, PoolTyped, Pool!Start, Pool!TransportFails, Pool!Send, Pool!Finish
    <3> QED BY <3>1 DEF Pool!Goes
  <2>2. ASSUME NEW g \in Fetches, Pool!Respond(g) \/ Pool!Aborted(g) PROVE FALSE
    <3>1. PICK result : fetch' = [fetch EXCEPT ![g] = [fetch[g] EXCEPT !.at = "done", !.result = result]]
      BY <2>2 DEF Pool!Respond, Pool!Aborted, Pool!Finish
    <3>2. fetch \in [Fetches -> Pool!Fetch] /\ fetch[f] \in Pool!Fetch
      BY DEF PoolInv, PoolTyped
    <3>3. fetch'[f].tried = fetch[f].tried
      BY <3>1, <3>2 DEF Pool!Fetch
    <3> QED BY <3>3 DEF Pool!Goes
  <2>3. ASSUME NEW g \in Fetches, NEW signal, Pool!Fire(g, signal) PROVE FALSE
    <3>1. fetch' = [fetch EXCEPT ![g] = [fetch[g] EXCEPT !.signal = signal]]
      BY <2>3 DEF Pool!Fire
    <3>2. fetch \in [Fetches -> Pool!Fetch] /\ fetch[f] \in Pool!Fetch
      BY DEF PoolInv, PoolTyped
    <3>3. fetch'[f].tried = fetch[f].tried
      BY <3>1, <3>2 DEF Pool!Fetch
    <3> QED BY <3>3 DEF Pool!Goes
  <2>4. ASSUME NEW g \in Fetches, Pool!Reuse(g) PROVE FALSE
    <3>1. fetch'[f].tried = fetch[f].tried \/ fetch'[f].tried = <<>>
      BY <2>4 DEF PoolInv, PoolTyped, Pool!Reuse, Pool!NewFetch
    <3> QED BY <3>1 DEF Pool!Goes
  <2>5. ~Pool!Close /\ ~Pool!Tick
    BY DEF Pool!Close, Pool!Tick, Pool!Goes
  <2> QED BY <2>1, <2>2, <2>3, <2>4, <2>5 DEF Pool!PoolNext
<1>2. now \in Nat /\ PoolTyped /\ fetch \in [Fetches -> Pool!Fetch]
      /\ cooldownUntil \in [Pool!Entries -> Nat]
  BY DEF PoolInv, PoolTyped
<1>3. ASSUME NEW cools \in [Pool!Entries -> Nat], cooldownUntil' = cools, Pool!Send(f, cools)
      PROVE  /\ fetch'[f].via \in Pool!Entries
             /\ \/ cools[fetch'[f].via] <= now
                \/ \A e \in Pool!Entries : cools[fetch'[f].via] <= cools[e]
  BY <1>2, <1>3, SendGoes, ChosenPassesOver
<1>4. PICK cools \in [Pool!Entries -> Nat] : cooldownUntil' = cools /\ Pool!Send(f, cools)
  <2>1. CASE Pool!Start(f)
    BY <1>2, <2>1 DEF Pool!Start
  <2>2. CASE Pool!TransportFails(f)
    <3>1. cooldownUntil' = Pool!Penalised(fetch[f].via)
          /\ cooldownUntil' \in [Pool!Entries -> Nat]
      BY <2>2, Penalty
    <3>2. ~Pool!Finish(f, "error")
      <4>1. Pool!Finish(f, "error") => fetch'[f].tried = fetch[f].tried
        BY <1>2 DEF Pool!Finish, Pool!Fetch
      <4> QED BY <4>1 DEF Pool!Goes
    <3>3. Pool!Send(f, Pool!Penalised(fetch[f].via))
      BY <2>2, <3>2 DEF Pool!TransportFails
    <3> QED BY <3>1, <3>3
  <2> QED BY <1>1, <2>1, <2>2
<1>5. /\ fetch'[f].via \in Pool!Entries
      /\ \/ cooldownUntil'[fetch'[f].via] <= now
         \/ \A e \in Pool!Entries : cooldownUntil'[fetch'[f].via] <= cooldownUntil'[e]
      /\ Len(fetch'[f].tried) = Len(fetch[f].tried) + 1
      /\ \A e \in Pool!Entries : cooldownUntil'[e] \in Nat
  BY <1>3, <1>4, SendGoes
<1>6. Pool!PassesOverParked(f)
  BY <1>2, <1>5 DEF Pool!PassesOverParked, Pool!Parked
<1>7. CASE Pool!Start(f)
  <2>1. Len(fetch[f].tried) = 0
    BY <1>7 DEF PoolInv, Pool!Start
  <2>2. Len(fetch'[f].tried) = 1
    BY <1>5, <2>1
  <2> QED BY <1>6, <2>2 DEF Pool!MovesOn
<1>8. CASE Pool!TransportFails(f)
  <2> DEFINE via == fetch[f].via
  <2>1. /\ via \in Pool!Entries /\ cooldownUntil'[via] = now + Cooldown
        /\ \A e \in Pool!Entries : cooldownUntil'[e] <= now + Cooldown
    BY <1>8, Penalty
  <2>2. Len(fetch'[f].tried) <= 2
    <3>1. fetch[f].tried \in Seq(Pool!Entries)
      BY <1>2 DEF Pool!Fetch
    <3>2. Len(fetch[f].tried) \in Nat
      BY <3>1
    <3>3. ~Pool!Finish(f, "error")
      <4>1. Pool!Finish(f, "error") => fetch'[f].tried = fetch[f].tried
        BY <1>2 DEF Pool!Finish, Pool!Fetch
      <4> QED BY <4>1 DEF Pool!Goes
    <3>4. Len(fetch[f].tried) < Pool!Attempts
      BY <1>8, <3>3 DEF Pool!TransportFails
    <3>5. Pool!Attempts <= 2 /\ Pool!Attempts \in Nat
      BY PoolFacts DEF Pool!Attempts, Pool!Min2
    <3> QED BY <1>5, <3>2, <3>4, <3>5
  <2>3. ASSUME fetch'[f].via = via, NEW e \in Pool!Entries
        PROVE  cooldownUntil'[e] = now + Cooldown
    <3>1. ~(cooldownUntil'[via] <= now)
      BY <1>2, <2>1, PoolFacts
    <3>2. cooldownUntil'[via] <= cooldownUntil'[e]
      BY <1>5, <2>3, <3>1
    <3>3. cooldownUntil'[e] \in Nat /\ cooldownUntil'[e] <= now + Cooldown
      BY <1>5, <2>1
    <3>4. now + Cooldown <= cooldownUntil'[e]
      BY <2>1, <3>2
    <3>5. now + Cooldown \in Nat
      BY <1>2, PoolFacts
    <3> QED BY <3>3, <3>4, <3>5
  <2> QED BY <1>6, <2>2, <2>3 DEF Pool!MovesOn
<1> QED BY <1>1, <1>7, <1>8

(* However many requests interleave in a pool of any size: parked entries  *)
(* are passed over while one is free, a retry leaves through another entry *)
(* unless all have failed at once, and load is spread until one fails.     *)
THEOREM RotatesFairly == PathSpec => RotationIsFair
<1>1. PoolInv /\ PoolInv' /\ [PathNext]_<<part, vars, lineVars, poolVars, limitVars>> =>
        [/\ Pool!LoadIsSpread'
         /\ \A f \in Fetches : Pool!Goes(f) => Pool!PassesOverParked(f) /\ Pool!MovesOn(f)
        ]_(Pool!poolVars)
  <2> SUFFICES ASSUME PoolInv, PoolInv', PathNext, ~UNCHANGED Pool!poolVars
               PROVE  /\ Pool!LoadIsSpread'
                      /\ \A f \in Fetches :
                           Pool!Goes(f) => Pool!PassesOverParked(f) /\ Pool!MovesOn(f)
    BY DEF poolVars, Pool!poolVars
  <2>1. Pool!PoolNext
    BY DEF PathNext, poolVars, Pool!poolVars
  <2>2. Pool!LoadIsSpread'
    BY SpreadFollows, PTL
  <2> QED BY <2>1, <2>2, GoesFairly
<1> QED BY <1>1, PoolInvariance, PTL DEF PathSpec, RotationIsFair, Pool!RotationIsFair

-----------------------------------------------------------------------------
(* The limiter.  h[t] calls were let through at time t; they are counted   *)
(* as a set, each with its number.                                         *)

Marks(h, T) == UNION {{t} \X (1 .. h[t]) : t \in T}

Sum(h, T) == Cardinality(Marks(h, T))

Times(first, last) == {t \in 0 .. Minutes : first <= t /\ t <= last}

Open(bucket, time) == bucket # Null /\ bucket.resetAt > time

(* The calls that the windows of one bucket have let through: the present  *)
(* or last window has a start and at most n calls of which one was made at *)
(* its start, and the window before it has at most n - 1 after its start.  *)
Kept(h, bucket, n, time) ==
  /\ \A t \in 0 .. Minutes : t > time \/ (t = time /\ ~Open(bucket, time)) => h[t] = 0
  /\ \E start, before \in Int :
       /\ before + Window <= start /\ start <= time
       /\ Open(bucket, time) => /\ start = bucket.resetAt - Window
                                /\ Sum(h, Times(start, time)) <= bucket.count
       /\ ~Open(bucket, time) => start + Window <= time
       /\ Sum(h, Times(start, time)) <= n
       /\ Sum(h, Times(before + 1, start - 1)) <= n - 1
       /\ Open(bucket, time) \/ (\E t \in Times(start, time) : h[t] > 0) =>
            start \in 0 .. Minutes /\ h[start] > 0

(* Of one key, and of all keys.                                            *)
Record(k) == [t \in 0 .. Minutes |-> passed[t][k]]

Ledger == [w \in (0 .. Minutes) \X Keys |-> passed[w[1]][w[2]]]

LimitTyped ==
  /\ minute \in 0 .. Minutes /\ limit \in Limits
  /\ buckets \in [Keys \union {Limiter!Account} -> Limiter!Bucket \union {Null}]
  /\ passed \in [0 .. Minutes -> [Keys -> Nat]] /\ admitted \in [0 .. Minutes -> Nat]

LimitInv ==
  /\ LimitTyped
  /\ \A k \in Keys : Kept(Record(k), buckets[k], limit, minute)
  /\ Kept(admitted, buckets[Limiter!Account], 2 * limit, minute)
  /\ Open(buckets[Limiter!Account], minute) =>
       buckets[Limiter!Account].count =
         Sum(Ledger, Times(buckets[Limiter!Account].resetAt - Window, minute) \X Keys)
  /\ ~Open(buckets[Limiter!Account], minute) => \A k \in Keys : passed[minute][k] = 0

-----------------------------------------------------------------------------
(* Counting.                                                               *)
LEMMA MarksAreFinite ==
  ASSUME NEW D, NEW h \in [D -> Nat], NEW T \in SUBSET D, IsFiniteSet(T)
  PROVE  IsFiniteSet(Marks(h, T)) /\ Sum(h, T) \in Nat
<1> DEFINE F == {{t} \X (1 .. h[t]) : t \in T}
<1>1. IsFiniteSet(F)
  <2> DEFINE f == [t \in T |-> {t} \X (1 .. h[t])]
  <2>1. f \in Surjection(T, F)
    BY DEF Surjection
  <2> HIDE DEF f, F
  <2> QED BY <2>1, FS_Surjection
<1>2. \A X \in F : IsFiniteSet(X)
  <2> SUFFICES ASSUME NEW t \in T PROVE IsFiniteSet({t} \X (1 .. h[t]))
    OBVIOUS
  <2>1. IsFiniteSet({t})
    BY FS_Singleton
  <2>2. h[t] \in Int
    OBVIOUS
  <2>3. IsFiniteSet(1 .. h[t])
    BY <2>2, FS_Interval
  <2> QED BY <2>1, <2>3, FS_Product
<1>3. IsFiniteSet(UNION F)
  <2> HIDE DEF F
  <2> QED BY <1>1, <1>2, FS_UNION
<1>4. IsFiniteSet(Marks(h, T))
  BY <1>3 DEF Marks
<1> QED BY <1>4, FS_CardinalityType DEF Sum

LEMMA AreMarks ==
  ASSUME NEW h, NEW T, NEW x
  PROVE  x \in Marks(h, T) <=> \E t \in T : \E i \in 1 .. h[t] : x = <<t, i>>
BY DEF Marks

LEMMA SameMarks ==
  ASSUME NEW g, NEW h, NEW S, NEW T,
         \A t \in S : t \in T \/ (g[t] = 0), \A t \in T : t \in S \/ h[t] = 0,
         \A t \in S \intersect T : g[t] = h[t]
  PROVE  Sum(g, S) = Sum(h, T)
<1>1. ASSUME NEW x PROVE x \in Marks(g, S) <=> x \in Marks(h, T)
  <2>1. ASSUME NEW t \in S, NEW i \in 1 .. g[t], x = <<t, i>> PROVE t \in T /\ i \in 1 .. h[t]
    BY <2>1
  <2>2. ASSUME NEW t \in T, NEW i \in 1 .. h[t], x = <<t, i>> PROVE t \in S /\ i \in 1 .. g[t]
    BY <2>2
  <2> QED BY <2>1, <2>2, AreMarks
<1>2. Marks(g, S) = Marks(h, T)
  BY <1>1
<1> QED BY <1>2 DEF Sum

LEMMA NoMarks ==
  ASSUME NEW h, NEW T, \A t \in T : h[t] = 0
  PROVE  Sum(h, T) = 0
<1>1. Sum(h, T) = Sum(h, {})
  BY SameMarks
<1>2. Marks(h, {}) = {}
  BY DEF Marks
<1> QED BY <1>1, <1>2, FS_EmptySet DEF Sum

LEMMA FewerMarks ==
  ASSUME NEW D, NEW h \in [D -> Nat], NEW S \in SUBSET D, NEW T \in SUBSET D, IsFiniteSet(T),
         \A t \in S : t \in T \/ h[t] = 0
  PROVE  Sum(h, S) <= Sum(h, T)
<1>1. IsFiniteSet(Marks(h, T))
  BY MarksAreFinite
<1>2. Marks(h, S) \subseteq Marks(h, T)
  <2> SUFFICES ASSUME NEW x \in Marks(h, S) PROVE x \in Marks(h, T)
    OBVIOUS
  <2>1. PICK t \in S : \E i \in 1 .. h[t] : x = <<t, i>>
    BY AreMarks
  <2>2. t \in T
    BY <2>1
  <2> QED BY <2>1, <2>2, AreMarks
<1> QED BY <1>1, <1>2, FS_Subset DEF Sum

LEMMA JoinedMarks ==
  ASSUME NEW D, NEW h \in [D -> Nat], NEW S \in SUBSET D, NEW T \in SUBSET D,
         IsFiniteSet(S), IsFiniteSet(T)
  PROVE  Sum(h, S \union T) <= Sum(h, S) + Sum(h, T)
<1>1. /\ IsFiniteSet(Marks(h, S)) /\ IsFiniteSet(Marks(h, T))
      /\ Sum(h, S) \in Nat /\ Sum(h, T) \in Nat
  BY MarksAreFinite
<1>2. Marks(h, S \union T) = Marks(h, S) \union Marks(h, T)
  BY DEF Marks
<1> DEFINE A == Marks(h, S)
<1> DEFINE B == Marks(h, T)
<1>3. Cardinality(A \union B) = Cardinality(A) + Cardinality(B) - Cardinality(A \intersect B)
  BY <1>1, FS_Union
<1>4. Cardinality(A \intersect B) \in Nat
  BY <1>1, FS_Intersection, FS_CardinalityType
<1> HIDE DEF A, B
<1>5. Sum(h, S \union T) = Cardinality(A \union B) /\ Sum(h, S) = Cardinality(A)
      /\ Sum(h, T) = Cardinality(B)
  BY <1>2 DEF Sum, A, B
<1> QED BY <1>1, <1>3, <1>4, <1>5

(* One call more.                                                          *)
LEMMA OneMark ==
  ASSUME NEW D, NEW h \in [D -> Nat], NEW g \in [D -> Nat], NEW T \in SUBSET D, IsFiniteSet(T),
         NEW d \in T, g[d] = h[d] + 1, \A t \in D \ {d} : g[t] = h[t]
  PROVE  Sum(g, T) = Sum(h, T) + 1
<1> DEFINE m == <<d, h[d] + 1>>
<1>1. IsFiniteSet(Marks(h, T)) /\ Sum(h, T) \in Nat
  BY MarksAreFinite
<1>2. Marks(g, T) = Marks(h, T) \union {m}
  <2> SUFFICES ASSUME NEW x PROVE x \in Marks(g, T) <=> x \in Marks(h, T) \/ x = m
    OBVIOUS
  <2>1. ASSUME NEW t \in T, NEW i \in 1 .. g[t], x = <<t, i>>
        PROVE  x \in Marks(h, T) \/ x = m
    <3>1. CASE i \in 1 .. h[t]
      BY <2>1, <3>1, AreMarks
    <3>2. CASE i \notin 1 .. h[t]
      <4>1. t = d
        BY <3>2
      <4>2. i = h[d] + 1
        BY <3>2, <4>1
      <4> QED BY <2>1, <4>1, <4>2
    <3> QED BY <3>1, <3>2
  <2>2. ASSUME NEW t \in T, NEW i \in 1 .. h[t], x = <<t, i>>
        PROVE  x \in Marks(g, T)
    <3>1. i \in 1 .. g[t]
      <4>1. CASE t = d
        BY <4>1
      <4>2. CASE t # d
        BY <4>2
      <4> QED BY <4>1, <4>2
    <3> QED BY <2>2, <3>1, AreMarks
  <2>3. m \in Marks(g, T)
    <3>1. h[d] + 1 \in 1 .. g[d]
      OBVIOUS
    <3> QED BY <3>1, AreMarks
  <2> QED BY <2>1, <2>2, <2>3, AreMarks
<1>3. m \notin Marks(h, T)
  <2>1. ASSUME NEW t \in T, NEW i \in 1 .. h[t], m = <<t, i>> PROVE FALSE
    <3>1. t = d /\ i = h[d] + 1
      BY <2>1
    <3> QED BY <3>1
  <2> QED BY <2>1, AreMarks
<1> HIDE DEF m
<1>4. Cardinality(Marks(h, T) \union {m}) = Cardinality(Marks(h, T)) + 1
  BY <1>1, <1>3, FS_AddElement
<1> QED BY <1>2, <1>4 DEF Sum

(* All but those of one time.                                              *)
LEMMA MarksBut ==
  ASSUME NEW D, NEW h \in [D -> Nat], NEW T \in SUBSET D, IsFiniteSet(T), NEW d \in T, h[d] > 0
  PROVE  Sum(h, T \ {d}) <= Sum(h, T) - 1
<1> DEFINE g == [h EXCEPT ![d] = h[d] - 1]
<1>1. g \in [D -> Nat] /\ h[d] = g[d] + 1 /\ \A t \in D \ {d} : h[t] = g[t]
  OBVIOUS
<1> HIDE DEF g
<1>2. Sum(h, T) = Sum(g, T) + 1
  BY <1>1, OneMark
<1>3. Sum(g, T \ {d}) = Sum(h, T \ {d})
  BY <1>1, SameMarks
<1>4. Sum(g, T \ {d}) <= Sum(g, T)
  BY <1>1, FewerMarks
<1>5. Sum(g, T) \in Nat /\ Sum(g, T \ {d}) \in Nat
  <2>1. IsFiniteSet(T \ {d})
    BY FS_Difference
  <2> QED BY <1>1, <2>1, MarksAreFinite
<1> QED BY <1>2, <1>3, <1>4, <1>5

-----------------------------------------------------------------------------
(* What becomes of the windows of one bucket.                              *)
LEMMA LimitFacts ==
  /\ Window \in Nat \ {0} /\ Minutes \in Nat /\ IsFiniteSet(Keys)
  /\ Null \notin Limiter!Bucket /\ Limiter!Account \notin Keys
  /\ Limits \subseteq Nat \ {0}
BY LimitAssumption DEF LimitAssumption

Counts == [0 .. Minutes -> Nat]

Buckets == Limiter!Bucket \union {Null}

LEMMA TimesAreFew ==
  \A first, last : Times(first, last) \in SUBSET (0 .. Minutes) /\ IsFiniteSet(Times(first, last))
<1> SUFFICES ASSUME NEW first, NEW last
             PROVE  Times(first, last) \in SUBSET (0 .. Minutes) /\ IsFiniteSet(Times(first, last))
  OBVIOUS
<1>1. Times(first, last) \in SUBSET (0 .. Minutes)
  BY DEF Times
<1>2. IsFiniteSet(0 .. Minutes)
  BY LimitFacts, FS_Interval
<1> QED BY <1>1, <1>2, FS_Subset

LEMMA CountsAdd ==
  ASSUME NEW h \in Counts, NEW a, NEW b, NEW c, NEW d
  PROVE  /\ Sum(h, Times(a, b)) \in Nat
         /\ (\A t \in Times(a, b) : t \in Times(c, d) \/ h[t] = 0) =>
              Sum(h, Times(a, b)) <= Sum(h, Times(c, d))
         /\ Sum(h, Times(a, b) \union Times(c, d)) <= Sum(h, Times(a, b)) + Sum(h, Times(c, d))
BY TimesAreFew, MarksAreFinite, FewerMarks, JoinedMarks DEF Counts

LEMMA OneCallMore ==
  ASSUME NEW h \in Counts, NEW g \in Counts, NEW a, NEW b, NEW time \in Times(a, b),
         g[time] = h[time] + 1, \A t \in 0 .. Minutes : t # time => g[t] = h[t]
  PROVE  Sum(g, Times(a, b)) = Sum(h, Times(a, b)) + 1
<1> DEFINE D == 0 .. Minutes
<1> DEFINE T == Times(a, b)
<1>1. h \in [D -> Nat] /\ g \in [D -> Nat] /\ T \in SUBSET D /\ IsFiniteSet(T) /\ time \in T
  BY TimesAreFew DEF Counts
<1>2. \A t \in D \ {time} : g[t] = h[t]
  OBVIOUS
<1> HIDE DEF D, T
<1>3. Sum(g, T) = Sum(h, T) + 1
  BY <1>1, <1>2, OneMark
<1> QED BY <1>3 DEF T

LEMMA TickKeeps ==
  ASSUME NEW h \in Counts, NEW b \in Buckets, NEW n \in Nat,
         NEW time \in 0 .. Minutes, time < Minutes, Kept(h, b, n, time)
  PROVE  Kept(h, b, n, time + 1)
<1>1. PICK start \in Int, before \in Int :
       /\ before + Window <= start /\ start <= time
       /\ Open(b, time) => /\ start = b.resetAt - Window
                           /\ Sum(h, Times(start, time)) <= b.count
       /\ ~Open(b, time) => start + Window <= time
       /\ Sum(h, Times(start, time)) <= n
       /\ Sum(h, Times(before + 1, start - 1)) <= n - 1
       /\ Open(b, time) \/ (\E t \in Times(start, time) : h[t] > 0) =>
            start \in 0 .. Minutes /\ h[start] > 0
  BY DEF Kept
<1>2. \A t \in 0 .. Minutes : t > time => h[t] = 0
  BY DEF Kept
<1>3. time \in Nat /\ Window \in Nat
  BY LimitFacts
<1>4. \A t \in Times(start, time + 1) : t \in Times(start, time) \/ h[t] = 0
  BY <1>2, <1>3 DEF Times
<1>5. Sum(h, Times(start, time + 1)) <= Sum(h, Times(start, time))
  BY <1>4, CountsAdd
<1>6. /\ Sum(h, Times(start, time + 1)) \in Nat /\ Sum(h, Times(start, time)) \in Nat
  BY CountsAdd
<1>7. b # Null => b.resetAt \in Nat /\ b.count \in Nat
  BY DEF Buckets, Limiter!Bucket
<1>8. Open(b, time + 1) => Open(b, time)
  BY <1>3, <1>7 DEF Open
<1>9. ~Open(b, time + 1) => start + Window <= time + 1
  BY <1>1, <1>3, <1>7 DEF Open
<1>10. /\ Open(b, time + 1) => /\ start = b.resetAt - Window
                               /\ Sum(h, Times(start, time + 1)) <= b.count
       /\ Sum(h, Times(start, time + 1)) <= n
  <2>1. Open(b, time) => b.count \in Nat
    BY <1>7 DEF Open
  <2> QED BY <1>1, <1>5, <1>6, <1>8, <2>1
<1>11. Open(b, time + 1) \/ (\E t \in Times(start, time + 1) : h[t] > 0) =>
         start \in 0 .. Minutes /\ h[start] > 0
  <2>1. ASSUME NEW t \in Times(start, time + 1), h[t] > 0 PROVE t \in Times(start, time)
    BY <1>4, <2>1
  <2> QED BY <1>1, <1>8, <2>1
<1>12. before + Window <= start /\ start <= time + 1
  BY <1>1, <1>3
<1>13. \A t \in 0 .. Minutes : t > time + 1 \/ (t = time + 1 /\ ~Open(b, time + 1)) => h[t] = 0
  BY <1>2, <1>3
<1> QED BY <1>1, <1>9, <1>10, <1>11, <1>12, <1>13 DEF Kept

LEMMA SweepKeeps ==
  ASSUME NEW h, NEW b, NEW c, NEW n, NEW time,
         c = b \/ (c = Null /\ ~Open(b, time)), Kept(h, b, n, time)
  PROVE  Kept(h, c, n, time) /\ (Open(c, time) <=> Open(b, time))
<1>1. CASE c = b
  BY <1>1
<1>2. CASE c = Null /\ ~Open(b, time)
  <2>1. ~Open(c, time)
    BY <1>2 DEF Open
  <2> QED BY <1>2, <2>1 DEF Kept
<1> QED BY <1>1, <1>2

LEMMA UpgradeKeeps ==
  ASSUME NEW h \in Counts, NEW b, NEW n \in Nat, NEW m \in Nat, n <= m, NEW time, Kept(h, b, n, time)
  PROVE  Kept(h, b, m, time)
<1>1. PICK start \in Int, before \in Int :
       /\ before + Window <= start /\ start <= time
       /\ Open(b, time) => /\ start = b.resetAt - Window
                           /\ Sum(h, Times(start, time)) <= b.count
       /\ ~Open(b, time) => start + Window <= time
       /\ Sum(h, Times(start, time)) <= n
       /\ Sum(h, Times(before + 1, start - 1)) <= n - 1
       /\ Open(b, time) \/ (\E t \in Times(start, time) : h[t] > 0) =>
            start \in 0 .. Minutes /\ h[start] > 0
  BY DEF Kept
<1>2. Sum(h, Times(start, time)) \in Nat /\ Sum(h, Times(before + 1, start - 1)) \in Nat
  BY CountsAdd
<1>3. Sum(h, Times(start, time)) <= m /\ Sum(h, Times(before + 1, start - 1)) <= m - 1
  BY <1>1, <1>2
<1>4. \A t \in 0 .. Minutes : t > time \/ (t = time /\ ~Open(b, time)) => h[t] = 0
  BY DEF Kept
<1> QED BY <1>1, <1>3, <1>4 DEF Kept

(* hit: a call that begins a window, or is one more in it.                 *)
LEMMA BeginKeeps ==
  ASSUME NEW h \in Counts, NEW g \in Counts, NEW b \in Buckets, NEW c, NEW n \in Nat \ {0},
         NEW time \in 0 .. Minutes, Kept(h, b, n, time), ~Open(b, time),
         c.count = 1, c.resetAt = time + Window, c # Null,
         g[time] = h[time] + 1, \A t \in 0 .. Minutes : t # time => g[t] = h[t]
  PROVE  Kept(g, c, n, time)
<1>1. PICK start \in Int :
       /\ start + Window <= time
       /\ Sum(h, Times(start, time)) <= n
       /\ Open(b, time) \/ (\E t \in Times(start, time) : h[t] > 0) =>
            start \in 0 .. Minutes /\ h[start] > 0
  BY DEF Kept
<1>2. \A t \in 0 .. Minutes : t >= time => h[t] = 0
  BY DEF Kept
<1>3. time \in Nat /\ Window \in Nat \ {0} /\ start < time
  BY <1>1, LimitFacts
<1>4. Open(c, time)
  BY <1>3 DEF Open
<1>5. Sum(g, Times(time, time)) = 1
  <2>1. Sum(g, Times(time, time)) = Sum(h, Times(time, time)) + 1
    <3>1. time \in Times(time, time)
      BY DEF Times
    <3> QED BY <3>1, OneCallMore
  <2>2. \A t \in Times(time, time) : h[t] = 0
    BY <1>2 DEF Times
  <2>3. Sum(h, Times(time, time)) = 0
    BY <2>2, NoMarks
  <2> QED BY <2>1, <2>3
<1>6. Sum(g, Times(start + 1, time - 1)) <= n - 1
  <2>1. Sum(g, Times(start + 1, time - 1)) = Sum(h, Times(start + 1, time - 1))
    <3>1. \A t \in Times(start + 1, time - 1) : g[t] = h[t]
      BY <1>3 DEF Times
    <3> QED BY <3>1, SameMarks
  <2>2. Sum(h, Times(start + 1, time - 1)) <= n - 1
    <3>1. CASE \E t \in Times(start, time) : h[t] > 0
      <4>1. start \in 0 .. Minutes /\ h[start] > 0 /\ start \in Times(start, time)
        BY <1>1, <1>3, <3>1 DEF Times
      <4>2. Sum(h, Times(start, time) \ {start}) <= Sum(h, Times(start, time)) - 1
        BY <4>1, TimesAreFew, MarksBut DEF Counts
      <4>3. Times(start + 1, time - 1) \subseteq Times(start, time) \ {start}
        BY <1>3 DEF Times
      <4>4. IsFiniteSet(Times(start, time) \ {start})
            /\ Times(start, time) \ {start} \in SUBSET (0 .. Minutes)
        BY TimesAreFew, FS_Difference
      <4>5. Sum(h, Times(start + 1, time - 1)) <= Sum(h, Times(start, time) \ {start})
        BY <4>3, <4>4, TimesAreFew, FewerMarks DEF Counts
      <4>6. /\ Sum(h, Times(start, time) \ {start}) \in Nat
            /\ Sum(h, Times(start + 1, time - 1)) \in Nat /\ Sum(h, Times(start, time)) \in Nat
        BY <4>4, CountsAdd, MarksAreFinite DEF Counts
      <4> QED BY <1>1, <4>2, <4>5, <4>6
    <3>2. CASE ~\E t \in Times(start, time) : h[t] > 0
      <4>1. \A t \in Times(start + 1, time - 1) : h[t] = 0
        <5> SUFFICES ASSUME NEW t \in Times(start + 1, time - 1) PROVE h[t] = 0
          OBVIOUS
        <5>1. t \in Times(start, time) /\ t \in 0 .. Minutes
          BY <1>3 DEF Times
        <5>2. h[t] \in Nat /\ ~(h[t] > 0)
          BY <3>2, <5>1 DEF Counts
        <5> QED BY <5>2
      <4>2. Sum(h, Times(start + 1, time - 1)) = 0
        BY <4>1, NoMarks
      <4> QED BY <4>2
    <3> QED BY <3>1, <3>2
  <2> QED BY <2>1, <2>2
<1>7. g[time] > 0
  BY DEF Counts
<1>8. \A t \in 0 .. Minutes : t > time \/ (t = time /\ ~Open(c, time)) => g[t] = 0
  BY <1>2, <1>3, <1>4
<1>9. /\ start + Window <= time /\ time <= time /\ time = c.resetAt - Window
      /\ Sum(g, Times(time, time)) <= c.count /\ Sum(g, Times(time, time)) <= n
  BY <1>1, <1>3, <1>5
<1>10. time \in Int /\ start \in Int
  BY <1>3
<1> QED BY <1>4, <1>6, <1>7, <1>8, <1>9, <1>10 DEF Kept

LEMMA AddKeeps ==
  ASSUME NEW h \in Counts, NEW g \in Counts, NEW b \in Buckets, NEW c, NEW n \in Nat \ {0},
         NEW time \in 0 .. Minutes, Kept(h, b, n, time), Open(b, time),
         c.count = b.count + 1, c.resetAt = b.resetAt, c # Null,
         \A t \in 0 .. Minutes : t # time => g[t] = h[t],
         g[time] = IF c.count <= n THEN h[time] + 1 ELSE h[time]
  PROVE  Kept(g, c, n, time)
<1>1. PICK start \in Int, before \in Int :
       /\ before + Window <= start /\ start <= time
       /\ start = b.resetAt - Window
       /\ Sum(h, Times(start, time)) <= b.count
       /\ Sum(h, Times(start, time)) <= n
       /\ Sum(h, Times(before + 1, start - 1)) <= n - 1
       /\ Open(b, time) \/ (\E t \in Times(start, time) : h[t] > 0) =>
            start \in 0 .. Minutes /\ h[start] > 0
  BY DEF Kept
<1>2. b.resetAt \in Nat /\ b.count \in Nat /\ time \in Nat /\ Window \in Nat \ {0}
  BY LimitFacts DEF Buckets, Limiter!Bucket, Open
<1>3. Open(c, time)
  BY DEF Open
<1>4. Sum(g, Times(before + 1, start - 1)) = Sum(h, Times(before + 1, start - 1))
  <2>1. \A t \in Times(before + 1, start - 1) : g[t] = h[t]
    BY <1>1, <1>2 DEF Times
  <2> QED BY <2>1, SameMarks
<1>5. \A t \in 0 .. Minutes : t > time => g[t] = 0
  BY DEF Kept
<1>6. CASE c.count <= n
  <2>1. Sum(g, Times(start, time)) = Sum(h, Times(start, time)) + 1
    <3>1. time \in Times(start, time)
      BY <1>1 DEF Times
    <3> QED BY <1>6, <3>1, OneCallMore
  <2>2. Sum(h, Times(start, time)) \in Nat
    BY CountsAdd
  <2>3. Sum(g, Times(start, time)) <= c.count /\ Sum(g, Times(start, time)) <= n
    BY <1>1, <1>2, <1>6, <2>1, <2>2
  <2>4. start \in 0 .. Minutes /\ g[start] > 0
    <3>1. CASE start = time
      BY <1>6, <3>1 DEF Counts
    <3>2. CASE start # time
      BY <1>1, <3>2
    <3> QED BY <3>1, <3>2
  <2> QED BY <1>1, <1>3, <1>4, <1>5, <2>3, <2>4 DEF Kept
<1>7. CASE ~(c.count <= n)
  <2>1. \A t \in 0 .. Minutes : g[t] = h[t]
    BY <1>7
  <2>2. Sum(g, Times(start, time)) = Sum(h, Times(start, time))
    <3>1. \A t \in Times(start, time) : g[t] = h[t]
      BY <2>1 DEF Times
    <3> QED BY <3>1, SameMarks
  <2>3. Sum(h, Times(start, time)) \in Nat
    BY CountsAdd
  <2>4. Sum(g, Times(start, time)) <= c.count
    BY <1>1, <1>2, <2>2, <2>3
  <2>5. start \in 0 .. Minutes /\ g[start] > 0
    BY <1>1, <2>1 DEF Times
  <2> QED BY <1>1, <1>3, <1>4, <1>5, <2>2, <2>4, <2>5 DEF Kept
<1> QED BY <1>6, <1>7

Struck(b) ==
  IF Open(b, minute) THEN [count |-> b.count + 1, resetAt |-> b.resetAt]
                     ELSE [count |-> 1, resetAt |-> minute + Window]

LEMMA StruckIsOpen ==
  ASSUME LimitTyped, NEW b \in Buckets
  PROVE  /\ Struck(b) \in Limiter!Bucket /\ Open(Struck(b), minute)
         /\ Limiter!Over(b) <=> ~Open(b, minute)
         /\ Open(b, minute) => Struck(b).count = b.count + 1 /\ Struck(b).resetAt = b.resetAt
         /\ ~Open(b, minute) => Struck(b).count = 1 /\ Struck(b).resetAt = minute + Window
<1>1. minute \in Nat /\ Window \in Nat \ {0} /\ Null \notin Limiter!Bucket
  BY LimitFacts DEF LimitTyped
<1>2. b # Null => b \in Limiter!Bucket /\ b.count \in Nat /\ b.resetAt \in Nat
  BY DEF Buckets, Limiter!Bucket
<1>3. CASE Open(b, minute)
  BY <1>1, <1>2, <1>3 DEF Struck, Open, Limiter!Over, Limiter!Bucket
<1>4. CASE ~Open(b, minute)
  BY <1>1, <1>2, <1>4 DEF Struck, Open, Limiter!Over, Limiter!Bucket
<1> QED BY <1>3, <1>4

LEMMA StrikeKeeps ==
  ASSUME LimitTyped, NEW h \in Counts, NEW g \in Counts, NEW b \in Buckets, NEW n \in Nat \ {0},
         Kept(h, b, n, minute), \A t \in 0 .. Minutes : t # minute => g[t] = h[t],
         g[minute] = IF Struck(b).count <= n THEN h[minute] + 1 ELSE h[minute]
  PROVE  Kept(g, Struck(b), n, minute)
<1>1. minute \in 0 .. Minutes /\ Struck(b) # Null
  BY StruckIsOpen, LimitFacts DEF LimitTyped
<1>2. CASE Open(b, minute)
  <2>1. Struck(b).count = b.count + 1 /\ Struck(b).resetAt = b.resetAt
    BY <1>2, StruckIsOpen
  <2> QED BY <1>1, <1>2, <2>1, AddKeeps
<1>3. CASE ~Open(b, minute)
  <2>1. Struck(b).count = 1 /\ Struck(b).resetAt = minute + Window
    BY <1>3, StruckIsOpen
  <2>2. g[minute] = h[minute] + 1
    BY <2>1
  <2> QED BY <1>1, <1>3, <2>1, <2>2, BeginKeeps
<1> QED BY <1>2, <1>3

(* The limiter's step, bucket by bucket.                                   *)
Cleared(b) == IF Limiter!SweepDue /\ Limiter!Over(buckets[b]) THEN Null ELSE buckets[b]

LEMMA ClearedKeeps ==
  ASSUME LimitTyped, NEW b \in Keys \union {Limiter!Account}
  PROVE  /\ buckets[b] \in Buckets /\ Cleared(b) \in Buckets
         /\ Open(Cleared(b), minute) <=> Open(buckets[b], minute)
         /\ Open(buckets[b], minute) => Cleared(b) = buckets[b]
         /\ \A h, n : Kept(h, buckets[b], n, minute) => Kept(h, Cleared(b), n, minute)
<1>1. buckets[b] \in Buckets /\ Null \in Buckets
  BY DEF LimitTyped, Buckets
<1>2. Limiter!Over(buckets[b]) <=> ~Open(buckets[b], minute)
  BY <1>1, StruckIsOpen
<1>3. Cleared(b) = buckets[b] \/ (Cleared(b) = Null /\ ~Open(buckets[b], minute))
  BY <1>2 DEF Cleared
<1>4. ~Open(Null, minute)
  BY DEF Open
<1>5. \A h, n : Kept(h, buckets[b], n, minute) => Kept(h, Cleared(b), n, minute)
  BY <1>3, SweepKeeps
<1> QED BY <1>1, <1>3, <1>4, <1>5

LEMMA CallInBuckets ==
  ASSUME LimitTyped, NEW k \in Keys, Limiter!Call(k)
  PROVE  LET user    == Limiter!Account
             passes  == Struck(Cleared(k)).count <= limit
             enters  == passes /\ Struck(Cleared(user)).count <= 2 * limit
         IN  /\ minute' = minute /\ limit' = limit
             /\ buckets' \in [Keys \union {user} -> Buckets]
             /\ buckets'[k] = Struck(Cleared(k))
             /\ \A j \in Keys \ {k} : buckets'[j] = Cleared(j)
             /\ buckets'[user] = IF passes THEN Struck(Cleared(user)) ELSE Cleared(user)
             /\ passed' = [passed EXCEPT ![minute][k] = IF passes THEN @ + 1 ELSE @]
             /\ admitted' = [admitted EXCEPT ![minute] = IF enters THEN @ + 1 ELSE @]
<1> DEFINE user == Limiter!Account
<1> DEFINE all == Keys \union {user}
<1> DEFINE swept == Limiter!Swept
<1> DEFINE perKey == Limiter!Hit(swept, k)
<1> DEFINE perUser == IF perKey[k].count <= limit THEN Limiter!Hit(perKey, user) ELSE perKey
<1>1. swept = [b \in all |-> Cleared(b)]
  BY DEF LimitTyped, Limiter!Swept, Cleared
<1>2. \A b \in all : Cleared(b) \in Buckets
  BY ClearedKeeps
<1>3. ASSUME NEW store \in [all -> Buckets], NEW b \in all
      PROVE  Limiter!Hit(store, b) = [store EXCEPT ![b] = Struck(store[b])]
  <2> DEFINE c == store[b]
  <2> DEFINE n == [count |-> 1, resetAt |-> minute + Window]
  <2>1. c \in Buckets
    OBVIOUS
  <2>2. Limiter!Over(c) <=> ~Open(c, minute)
    BY <2>1, StruckIsOpen
  <2>3. Open(c, minute) => [c EXCEPT !.count = c.count + 1] = [count |-> c.count + 1, resetAt |-> c.resetAt]
    BY <2>1 DEF Open, Buckets, Limiter!Bucket
  <2>4. (IF Limiter!Over(c) THEN n ELSE [c EXCEPT !.count = c.count + 1]) = Struck(c)
    BY <2>2, <2>3 DEF Struck
  <2>5. Limiter!Hit(store, b) =
          [store EXCEPT ![b] = IF Limiter!Over(c) THEN n ELSE [c EXCEPT !.count = c.count + 1]]
    BY DEF Limiter!Hit
  <2> QED BY <2>4, <2>5
<1>4. k \in all /\ user \in all /\ k # user
  BY LimitFacts
<1>5. swept \in [all -> Buckets]
  BY <1>1, <1>2
<1>6. perKey = [swept EXCEPT ![k] = Struck(Cleared(k))]
  BY <1>1, <1>3, <1>4, <1>5
<1>7. \A b \in Buckets : Struck(b) \in Buckets
  BY StruckIsOpen DEF Buckets
<1>8. perKey \in [all -> Buckets] /\ perKey[k] = Struck(Cleared(k)) /\ perKey[user] = Cleared(user)
      /\ \A j \in Keys \ {k} : perKey[j] = Cleared(j)
  <2>1. \A b \in all : swept[b] = Cleared(b)
    BY <1>1
  <2>2. Struck(Cleared(k)) \in Buckets /\ Keys \subseteq all
    BY <1>2, <1>4, <1>7
  <2> HIDE DEF perKey, swept, all
  <2> QED BY <1>4, <1>5, <1>6, <2>1, <2>2
<1>9. Limiter!Hit(perKey, user) = [perKey EXCEPT ![user] = Struck(Cleared(user))]
  BY <1>3, <1>4, <1>8
<1> DEFINE passes == Struck(Cleared(k)).count <= limit
<1>10. /\ perUser \in [all -> Buckets] /\ perUser[k] = Struck(Cleared(k))
       /\ \A j \in Keys \ {k} : perUser[j] = Cleared(j)
       /\ perUser[user] = IF passes THEN Struck(Cleared(user)) ELSE Cleared(user)
  BY <1>2, <1>4, <1>7, <1>8, <1>9, LimitFacts
<1>11. /\ minute' = minute /\ limit' = limit /\ buckets' = perUser
       /\ passed' = [passed EXCEPT ![minute][k] = IF perKey[k].count <= limit THEN @ + 1 ELSE @]
       /\ admitted' = [admitted EXCEPT ![minute] =
            IF perKey[k].count <= limit /\ perUser[user].count <= 2 * limit THEN @ + 1 ELSE @]
  BY DEF Limiter!Call, Limiter!Allows
<1> HIDE DEF perUser, perKey, swept, all, user
<1>12. passes => perUser[user].count = Struck(Cleared(user)).count
  BY <1>10
<1> QED BY <1>8, <1>10, <1>11, <1>12 DEF all, user

LEMMA LimitStarts == PathInit => LimitInv
<1> SUFFICES ASSUME PathInit PROVE LimitInv
  OBVIOUS
<1> DEFINE user == Limiter!Account
<1>1. /\ buckets = [b \in Keys \union {user} |-> Null]
      /\ minute = 0 /\ limit \in Limits
      /\ passed = [t \in 0 .. Minutes |-> [k \in Keys |-> 0]]
      /\ admitted = [t \in 0 .. Minutes |-> 0]
  BY DEF PathInit, Limiter!LimitInit
<1>2. Minutes \in Nat /\ Window \in Nat \ {0} /\ limit \in Nat \ {0}
  BY <1>1, LimitFacts
<1>3. LimitTyped
  BY <1>1, <1>2 DEF LimitTyped
<1>4. \A time : ~Open(Null, time)
  BY DEF Open
<1> DEFINE h == [t \in 0 .. Minutes |-> 0]
<1>5. ASSUME NEW n \in Nat \ {0} PROVE Kept(h, Null, n, 0)
  <2>1. ASSUME NEW T \in SUBSET (0 .. Minutes) PROVE Sum(h, T) = 0
    <3>1. \A t \in T : h[t] = 0
      OBVIOUS
    <3> HIDE DEF h
    <3> QED BY <3>1, NoMarks
  <2>2. \A a, b : Sum(h, Times(a, b)) = 0
    BY <2>1, TimesAreFew
  <2>3. \A a, b : \A t \in Times(a, b) : ~(h[t] > 0)
    BY TimesAreFew
  <2>4. \A t \in 0 .. Minutes : h[t] = 0
    OBVIOUS
  <2> HIDE DEF h
  <2> DEFINE start == 0 - Window
  <2> DEFINE before == 0 - Window - Window
  <2>5. start \in Int /\ before \in Int /\ before + Window <= start /\ start <= 0 /\ start + Window <= 0
    BY <1>2
  <2>6. 0 <= n - 1 /\ 0 <= n
    OBVIOUS
  <2> HIDE DEF start, before
  <2>7. \A t \in 0 .. Minutes : t > 0 \/ (t = 0 /\ ~Open(Null, 0)) => h[t] = 0
    BY <2>4
  <2> QED BY <1>4, <2>2, <2>3, <2>5, <2>6, <2>7 DEF Kept
<1>6. ASSUME NEW k \in Keys PROVE Record(k) = h /\ buckets[k] = Null
  BY <1>1, <1>6 DEF Record
<1>7. admitted = h /\ buckets[user] = Null
  BY <1>1
<1>8. 2 * limit \in Nat \ {0} /\ \A k \in Keys : passed[minute][k] = 0
  BY <1>1, <1>2
<1> HIDE DEF h
<1>9. \A k \in Keys : Kept(Record(k), buckets[k], limit, minute)
  BY <1>1, <1>2, <1>5, <1>6
<1>10. Kept(admitted, buckets[user], 2 * limit, minute)
  BY <1>1, <1>5, <1>7, <1>8
<1> QED BY <1>3, <1>4, <1>7, <1>8, <1>9, <1>10 DEF LimitInv

LEMMA RecordsCount ==
  ASSUME LimitTyped
  PROVE  /\ \A k \in Keys : Record(k) \in Counts /\ \A t \in 0 .. Minutes : Record(k)[t] = passed[t][k]
         /\ Ledger \in [(0 .. Minutes) \X Keys -> Nat]
         /\ \A t \in 0 .. Minutes, k \in Keys : Ledger[<<t, k>>] = passed[t][k]
         /\ limit \in Nat \ {0} /\ 2 * limit \in Nat \ {0} /\ minute \in Nat
         /\ admitted \in Counts
<1>1. \A t \in 0 .. Minutes, k \in Keys : passed[t][k] \in Nat
  BY DEF LimitTyped
<1>2. limit \in Nat \ {0} /\ minute \in Nat /\ admitted \in Counts
  BY LimitFacts DEF LimitTyped, Counts
<1> QED BY <1>1, <1>2 DEF Record, Ledger, Counts

LEMMA TimesOfKeys ==
  ASSUME NEW a, NEW b
  PROVE  Times(a, b) \X Keys \in SUBSET ((0 .. Minutes) \X Keys) /\ IsFiniteSet(Times(a, b) \X Keys)
BY TimesAreFew, LimitFacts, FS_Product

LEMMA LimitCalls ==
  ASSUME LimitInv, NEW k \in Keys, Limiter!Call(k) PROVE LimitInv'
<1> DEFINE user == Limiter!Account
<1> DEFINE passes == Struck(Cleared(k)).count <= limit
<1> DEFINE enters == passes /\ Struck(Cleared(user)).count <= 2 * limit
<1>1. LimitTyped
  BY DEF LimitInv
<1>2. /\ minute' = minute /\ limit' = limit
      /\ buckets' \in [Keys \union {user} -> Buckets]
      /\ buckets'[k] = Struck(Cleared(k))
      /\ \A j \in Keys \ {k} : buckets'[j] = Cleared(j)
      /\ buckets'[user] = IF passes THEN Struck(Cleared(user)) ELSE Cleared(user)
      /\ passed' = [passed EXCEPT ![minute][k] = IF passes THEN passed[minute][k] + 1 ELSE passed[minute][k]]
      /\ admitted' = [admitted EXCEPT ![minute] = IF enters THEN admitted[minute] + 1 ELSE admitted[minute]]
  BY <1>1, CallInBuckets
<1>3. minute \in 0 .. Minutes /\ limit \in Limits
      /\ passed \in [0 .. Minutes -> [Keys -> Nat]] /\ admitted \in [0 .. Minutes -> Nat]
  BY <1>1 DEF LimitTyped
<1> HIDE DEF passes, enters
<1>4. passed' \in [0 .. Minutes -> [Keys -> Nat]] /\ admitted' \in [0 .. Minutes -> Nat]
  BY <1>2, <1>3
<1>5. LimitTyped'
  BY <1>2, <1>3, <1>4 DEF LimitTyped, Buckets
<1>6. /\ \A t \in 0 .. Minutes, j \in Keys : t # minute \/ j # k => passed'[t][j] = passed[t][j]
      /\ passed'[minute][k] = IF passes THEN passed[minute][k] + 1 ELSE passed[minute][k]
      /\ \A t \in 0 .. Minutes : t # minute => admitted'[t] = admitted[t]
      /\ admitted'[minute] = IF enters THEN admitted[minute] + 1 ELSE admitted[minute]
  BY <1>2, <1>3
<1>7. \A j \in Keys : Record(j)' \in Counts /\ \A t \in 0 .. Minutes : Record(j)'[t] = passed'[t][j]
  BY <1>4 DEF Record, Counts
<1>8. /\ \A j \in Keys : Record(j) \in Counts /\ \A t \in 0 .. Minutes : Record(j)[t] = passed[t][j]
      /\ limit \in Nat \ {0} /\ 2 * limit \in Nat \ {0} /\ admitted \in Counts
  BY <1>1, RecordsCount
<1>9. admitted' \in Counts
  BY <1>4 DEF Counts
<1>10. Kept(Record(k)', buckets'[k], limit', minute')
  <2> DEFINE h == Record(k)
  <2> DEFINE g == [t \in 0 .. Minutes |-> passed'[t][k]]
  <2> DEFINE b == Cleared(k)
  <2>1. h \in Counts /\ g \in Counts /\ Record(k)' = g
    BY <1>7, <1>8 DEF Record
  <2>2. b \in Buckets /\ Kept(h, b, limit, minute)
    BY <1>1, ClearedKeeps DEF LimitInv
  <2>3. /\ \A t \in 0 .. Minutes : t # minute => g[t] = h[t]
        /\ g[minute] = IF Struck(b).count <= limit THEN h[minute] + 1 ELSE h[minute]
    BY <1>3, <1>6, <1>8 DEF passes
  <2> HIDE DEF h, g, b
  <2>4. Kept(g, Struck(b), limit, minute)
    BY <1>1, <1>8, <2>1, <2>2, <2>3, StrikeKeeps
  <2> QED BY <1>2, <2>1, <2>4 DEF b
<1>11. ASSUME NEW j \in Keys \ {k} PROVE Kept(Record(j)', buckets'[j], limit', minute')
  <2>1. \A t \in 0 .. Minutes : passed'[t][j] = passed[t][j]
    BY <1>6
  <2>2. Record(j)' = Record(j)
    BY <2>1 DEF Record
  <2>3. Kept(Record(j), Cleared(j), limit, minute)
    BY <1>1, ClearedKeeps DEF LimitInv
  <2> QED BY <1>2, <2>2, <2>3
<1>12. Kept(admitted', buckets'[user], 2 * limit', minute')
  <2> DEFINE b == Cleared(user)
  <2>1. b \in Buckets /\ Kept(admitted, b, 2 * limit, minute)
    BY <1>1, ClearedKeeps DEF LimitInv
  <2>2. CASE passes
    <3>1. enters <=> Struck(b).count <= 2 * limit
      BY <2>2 DEF enters
    <3>2. Kept(admitted', Struck(b), 2 * limit, minute)
      BY <1>1, <1>6, <1>8, <1>9, <2>1, <3>1, StrikeKeeps
    <3> QED BY <1>2, <2>2, <3>2
  <2>3. CASE ~passes
    <3>1. ~enters
      BY <2>3 DEF enters
    <3>2. admitted' = admitted
      BY <1>2, <1>3, <3>1
    <3> QED BY <1>2, <2>1, <2>3, <3>2
  <2> QED BY <2>2, <2>3
<1>13. /\ Open(buckets'[user], minute) =>
            buckets'[user].count = Sum(Ledger', Times(buckets'[user].resetAt - Window, minute) \X Keys)
       /\ ~Open(buckets'[user], minute) => \A j \in Keys : passed'[minute][j] = 0
  <2> DEFINE a == buckets[user]
  <2> DEFINE b == Cleared(user)
  <2> DEFINE h == Ledger
  <2> DEFINE g == [w \in (0 .. Minutes) \X Keys |-> passed'[w[1]][w[2]]]
  <2> DEFINE d == <<minute, k>>
  <2> DEFINE all == (0 .. Minutes) \X Keys
  <2>1. /\ Open(a, minute) => a.count = Sum(h, Times(a.resetAt - Window, minute) \X Keys)
        /\ ~Open(a, minute) => \A j \in Keys : passed[minute][j] = 0
    BY DEF LimitInv
  <2>2. /\ a \in Buckets /\ b \in Buckets /\ (Open(b, minute) <=> Open(a, minute))
        /\ Open(a, minute) => b = a
    BY <1>1, ClearedKeeps
  <2>3. g = Ledger' /\ g \in [all -> Nat] /\ h \in [all -> Nat]
    BY <1>1, <1>4, RecordsCount DEF Ledger
  <2>4. /\ d \in all /\ \A w \in all \ {d} : g[w] = h[w]
        /\ passes => g[d] = h[d] + 1
    <3>1. d \in all
      BY <1>3
    <3>2. passes => g[d] = h[d] + 1
      BY <1>3, <1>6 DEF Ledger
    <3>3. ASSUME NEW t \in 0 .. Minutes, NEW j \in Keys, <<t, j>> # d PROVE g[<<t, j>>] = h[<<t, j>>]
      BY <1>6, <3>3 DEF Ledger
    <3>4. ASSUME NEW w \in all \ {d} PROVE g[w] = h[w]
      <4>1. w = <<w[1], w[2]>> /\ w[1] \in 0 .. Minutes /\ w[2] \in Keys
        OBVIOUS
      <4> HIDE DEF g, h, d
      <4>2. g[<<w[1], w[2]>>] = h[<<w[1], w[2]>>]
        BY <3>3, <4>1
      <4> QED BY <4>1, <4>2
    <3> QED BY <3>1, <3>2, <3>4
  <2>5. CASE passes /\ Open(a, minute)
    <3> DEFINE T == Times(a.resetAt - Window, minute) \X Keys
    <3>1. buckets'[user] = Struck(a) /\ Struck(a).count = a.count + 1 /\ Struck(a).resetAt = a.resetAt
      BY <1>1, <1>2, <2>2, <2>5, StruckIsOpen
    <3>2. a.resetAt - Window <= minute
      BY <2>5 DEF LimitInv, Kept
    <3>3. d \in T /\ T \in SUBSET all /\ IsFiniteSet(T)
      <4>1. minute \in Times(a.resetAt - Window, minute)
        BY <1>3, <3>2 DEF Times
      <4>2. d \in T
        BY <4>1
      <4> QED BY <4>2, TimesOfKeys
    <3> HIDE DEF T, all, d, g, h
    <3>4. Sum(g, T) = Sum(h, T) + 1
      BY <2>3, <2>4, <2>5, <3>3, OneMark
    <3>5. Sum(g, T) = buckets'[user].count /\ Open(buckets'[user], minute)
      BY <1>1, <2>1, <2>2, <2>5, <3>1, <3>4, StruckIsOpen DEF T
    <3> QED BY <2>3, <3>1, <3>5 DEF T
  <2>6. CASE passes /\ ~Open(a, minute)
    <3> DEFINE T == Times(minute, minute) \X Keys
    <3>1. buckets'[user] = Struck(b) /\ Struck(b).count = 1 /\ Struck(b).resetAt = minute + Window
          /\ Open(Struck(b), minute)
      <4>1. buckets'[user] = Struck(b) /\ ~Open(b, minute) /\ b \in Buckets
        BY <1>2, <2>2, <2>6
      <4> HIDE DEF b, user
      <4>2. Struck(b).count = 1 /\ Struck(b).resetAt = minute + Window
        BY <1>1, <4>1, StruckIsOpen
      <4>3. Open(Struck(b), minute)
        BY <1>1, <4>1, StruckIsOpen
      <4> QED BY <4>1, <4>2, <4>3
    <3>2. Struck(b).resetAt - Window = minute
      BY <1>3, <3>1, LimitFacts
    <3>3. d \in T /\ T \in SUBSET all /\ IsFiniteSet(T)
      BY <1>3, TimesOfKeys DEF Times
    <3>4. \A w \in T : h[w] = 0
      BY <1>3, <2>1, <2>6 DEF Times, Ledger
    <3> HIDE DEF T, all, d, g, h
    <3>5. Sum(g, T) = Sum(h, T) + 1
      BY <2>3, <2>4, <2>6, <3>3, OneMark
    <3>6. Sum(h, T) = 0
      BY <3>4, NoMarks
    <3> QED BY <2>3, <3>1, <3>2, <3>5, <3>6 DEF T
  <2>7. CASE ~passes
    <3>1. passed' = passed
      BY <1>2, <1>3, <2>7
    <3>2. buckets'[user] = b
      BY <1>2, <2>7
    <3>3. Ledger' = Ledger
      BY <3>1 DEF Ledger
    <3> HIDE DEF a, b, user, h
    <3>4. /\ Open(b, minute) => b.count = Sum(h, Times(b.resetAt - Window, minute) \X Keys)
          /\ ~Open(b, minute) => \A j \in Keys : passed[minute][j] = 0
      <4>1. CASE Open(a, minute)
        <5>1. b = a
          BY <2>2, <4>1
        <5> QED BY <2>1, <4>1, <5>1
      <4>2. CASE ~Open(a, minute)
        BY <2>1, <2>2, <4>2
      <4> QED BY <4>1, <4>2
    <3> QED BY <3>1, <3>2, <3>3, <3>4 DEF h
  <2> QED BY <2>5, <2>6, <2>7
<1>14. \A j \in Keys : Kept(Record(j)', buckets'[j], limit', minute')
  BY <1>10, <1>11
<1> QED BY <1>2, <1>5, <1>12, <1>13, <1>14 DEF LimitInv

LEMMA DoubledIsMore ==
  ASSUME NEW i \in Nat, NEW j \in Nat, j > i
  PROVE  2 * i \in Nat /\ 2 * j \in Nat /\ i <= j /\ 2 * i <= 2 * j
OBVIOUS

LEMMA LimitRises ==
  ASSUME LimitInv, Limiter!Upgrade PROVE LimitInv'
<1>1. /\ limit' \in Limits /\ limit' > limit /\ buckets' = buckets /\ minute' = minute
      /\ passed' = passed /\ admitted' = admitted
  BY DEF Limiter!Upgrade
<1>2. limit \in Nat /\ limit' \in Nat /\ 2 * limit \in Nat /\ 2 * limit' \in Nat
      /\ limit <= limit' /\ 2 * limit <= 2 * limit'
  <2>1. limit \in Nat /\ limit' \in Nat
    BY <1>1, LimitFacts DEF LimitInv, LimitTyped
  <2> QED BY <1>1, <2>1, DoubledIsMore
<1>3. \A k \in Keys : Record(k)' = Record(k)
  BY <1>1 DEF Record
<1>4. Ledger' = Ledger
  BY <1>1 DEF Ledger
<1>5. \A k \in Keys : Record(k) \in Counts
  BY RecordsCount DEF LimitInv
<1>6. ASSUME NEW k \in Keys PROVE Kept(Record(k)', buckets'[k], limit', minute')
  BY <1>1, <1>2, <1>3, <1>5, UpgradeKeeps DEF LimitInv
<1>7. Kept(admitted', buckets'[Limiter!Account], 2 * limit', minute')
  BY <1>1, <1>2, UpgradeKeeps, RecordsCount DEF LimitInv
<1>8. LimitTyped'
  BY <1>1 DEF LimitInv, LimitTyped
<1> QED BY <1>1, <1>4, <1>6, <1>7, <1>8 DEF LimitInv

LEMMA LimitTicks ==
  ASSUME LimitInv, Limiter!Tick PROVE LimitInv'
<1> DEFINE a == buckets[Limiter!Account]
<1>1. /\ minute < Minutes /\ minute' = minute + 1 /\ buckets' = buckets /\ limit' = limit
      /\ passed' = passed /\ admitted' = admitted
  BY DEF Limiter!Tick
<1>2. LimitTyped /\ minute \in 0 .. Minutes /\ minute + 1 \in 0 .. Minutes
  BY <1>1, LimitFacts DEF LimitInv, LimitTyped
<1>3. LimitTyped'
  BY <1>1, <1>2 DEF LimitTyped
<1>4. /\ \A k \in Keys : Record(k) \in Counts /\ \A t \in 0 .. Minutes : Record(k)[t] = passed[t][k]
      /\ limit \in Nat /\ 2 * limit \in Nat /\ admitted \in Counts
      /\ Ledger \in [(0 .. Minutes) \X Keys -> Nat]
      /\ \A t \in 0 .. Minutes, k \in Keys : Ledger[<<t, k>>] = passed[t][k]
  BY <1>2, RecordsCount
<1>5. \A b \in Keys \union {Limiter!Account} : buckets[b] \in Buckets
  BY <1>2, ClearedKeeps
<1>6. ASSUME NEW k \in Keys PROVE Kept(Record(k)', buckets'[k], limit', minute')
  <2>1. Record(k)' = Record(k)
    BY <1>1 DEF Record
  <2>2. Kept(Record(k), buckets[k], limit, minute + 1)
    BY <1>1, <1>2, <1>4, <1>5, TickKeeps DEF LimitInv
  <2> QED BY <1>1, <2>1, <2>2
<1>7. Kept(admitted', buckets'[Limiter!Account], 2 * limit', minute')
  <2>1. Kept(admitted, buckets[Limiter!Account], 2 * limit, minute + 1)
    BY <1>1, <1>2, <1>4, <1>5, TickKeeps DEF LimitInv
  <2> QED BY <1>1, <2>1
<1>8. \A k \in Keys : passed[minute + 1][k] = 0
  <2> SUFFICES ASSUME NEW k \in Keys PROVE passed[minute + 1][k] = 0
    OBVIOUS
  <2>1. minute + 1 > minute
    BY <1>2
  <2>2. Record(k)[minute + 1] = 0
    BY <1>2, <2>1 DEF LimitInv, Kept
  <2> QED BY <1>2, <1>4, <2>2
<1>9. Open(a, minute + 1) =>
        a.count = Sum(Ledger, Times(a.resetAt - Window, minute + 1) \X Keys)
  <2> SUFFICES ASSUME Open(a, minute + 1)
               PROVE  a.count = Sum(Ledger, Times(a.resetAt - Window, minute + 1) \X Keys)
    OBVIOUS
  <2>1. Open(a, minute)
    BY <1>2, <1>5 DEF Open, Buckets, Limiter!Bucket
  <2> DEFINE S == Times(a.resetAt - Window, minute) \X Keys
  <2> DEFINE T == Times(a.resetAt - Window, minute + 1) \X Keys
  <2>2. a.count = Sum(Ledger, S)
    BY <2>1 DEF LimitInv
  <2>3. \A w \in T : w \in S \/ Ledger[w] = 0
    <3> SUFFICES ASSUME NEW t \in Times(a.resetAt - Window, minute + 1), NEW k \in Keys
                 PROVE  <<t, k>> \in S \/ Ledger[<<t, k>>] = 0
      OBVIOUS
    <3>1. t \in Times(a.resetAt - Window, minute) \/ t = minute + 1
      BY <1>2 DEF Times
    <3>2. t = minute + 1 => Ledger[<<t, k>>] = 0
      BY <1>2, <1>4, <1>8
    <3> QED BY <3>1, <3>2
  <2>4. \A w \in S : w \in T
    BY <1>2 DEF Times
  <2> HIDE DEF S, T
  <2>5. Sum(Ledger, S) = Sum(Ledger, T)
    BY <2>3, <2>4, SameMarks
  <2> QED BY <2>2, <2>5 DEF T
<1>10. Ledger' = Ledger
  BY <1>1 DEF Ledger
<1>11. \A k \in Keys : Kept(Record(k)', buckets'[k], limit', minute')
  BY <1>6
<1> QED BY <1>1, <1>3, <1>7, <1>8, <1>9, <1>10, <1>11 DEF LimitInv

LEMMA LimitInvariance == PathSpec => []LimitInv
<1>1. LimitInv /\ [PathNext]_<<part, vars, lineVars, poolVars, limitVars>> => LimitInv'
  <2> SUFFICES ASSUME LimitInv, [PathNext]_<<part, vars, lineVars, poolVars, limitVars>>
               PROVE  LimitInv'
    OBVIOUS
  <2>1. CASE Limiter!LimitNext
    BY <2>1, LimitCalls, LimitRises, LimitTicks DEF Limiter!LimitNext
  <2>2. CASE UNCHANGED limitVars
    <3>1. buckets' = buckets /\ minute' = minute /\ limit' = limit /\ passed' = passed /\ admitted' = admitted
      BY <2>2 DEF limitVars
    <3>2. Ledger' = Ledger /\ \A k \in Keys : Record(k)' = Record(k)
      BY <3>1 DEF Ledger, Record
    <3> QED BY <3>1, <3>2 DEF LimitInv, LimitTyped
  <2> QED BY <2>1, <2>2 DEF PathNext
<1> QED BY <1>1, LimitStarts, PTL DEF PathSpec

(* Any interval as long as a window is covered by the present window and   *)
(* what came after the start of the one before it.                         *)
LEMMA BurstIsBounded ==
  ASSUME NEW h \in Counts, NEW b, NEW n \in Nat \ {0}, NEW time \in 0 .. Minutes, Kept(h, b, n, time)
  PROVE  Sum(h, Times(time - Window + 1, time)) <= 2 * n - 1
<1>1. PICK start \in Int, before \in Int :
       /\ before + Window <= start /\ start <= time
       /\ Sum(h, Times(start, time)) <= n
       /\ Sum(h, Times(before + 1, start - 1)) <= n - 1
  BY DEF Kept
<1> DEFINE S == Times(before + 1, start - 1)
<1> DEFINE T == Times(start, time)
<1> DEFINE L == Times(time - Window + 1, time)
<1>2. L \subseteq S \union T
  BY <1>1, LimitFacts DEF Times
<1>3. /\ Sum(h, S \union T) <= Sum(h, S) + Sum(h, T)
      /\ Sum(h, S) \in Nat /\ Sum(h, T) \in Nat /\ Sum(h, L) \in Nat
  BY CountsAdd
<1>4. IsFiniteSet(S \union T) /\ S \union T \in SUBSET (0 .. Minutes) /\ L \in SUBSET (0 .. Minutes)
  BY TimesAreFew, FS_Union
<1>5. Sum(h, L) <= Sum(h, S \union T) /\ Sum(h, S \union T) \in Nat
  BY <1>2, <1>4, FewerMarks, MarksAreFinite DEF Counts
<1>6. Sum(h, S) <= n - 1 /\ Sum(h, T) <= n
  BY <1>1
<1> HIDE DEF S, T, L
<1>7. Sum(h, L) <= 2 * n - 1
  BY <1>3, <1>5, <1>6
<1> QED BY <1>7 DEF L

LEMMA TotalIsSum ==
  ASSUME NEW f, NEW h, NEW T, DOMAIN f = T, \A t \in T : f[t] = h[t]
  PROVE  Limiter!Total(f) = Sum(h, T)
<1> DEFINE F(t) == {t} \X (1 .. f[t])
<1> DEFINE H(t) == {t} \X (1 .. h[t])
<1>1. Limiter!Made(f) = UNION {F(t) : t \in T} /\ Marks(h, T) = UNION {H(t) : t \in T}
  BY DEF Limiter!Made, Marks
<1>2. \A t \in T : F(t) = H(t)
  OBVIOUS
<1>3. Limiter!Made(f) = Marks(h, T)
  <2> HIDE DEF F, H
  <2>1. ASSUME NEW x PROVE x \in UNION {F(t) : t \in T} <=> x \in UNION {H(t) : t \in T}
    BY <1>2
  <2> QED BY <1>1, <2>1
<1>4. Sum(h, T) = Cardinality(Marks(h, T))
  BY DEF Sum
<1>5. Limiter!Total(f) = Cardinality(Limiter!Made(f))
  <2>1. ASSUME NEW S PROVE Limiter!Cardinality(S) = Cardinality(S)
    BY DEF Limiter!Cardinality, Cardinality
  <2> QED BY <2>1 DEF Limiter!Total
<1> HIDE DEF F, H
<1> QED BY <1>3, <1>4, <1>5

LEMMA RateFollows == LimitInv => RateIsBounded
<1> SUFFICES ASSUME LimitInv PROVE RateIsBounded
  OBVIOUS
<1> DEFINE a == buckets[Limiter!Account]
<1>1. LimitTyped /\ minute \in 0 .. Minutes
  BY DEF LimitInv, LimitTyped
<1>2. Limiter!Lately = Times(minute - Window + 1, minute)
  BY <1>1, LimitFacts DEF Limiter!Lately, Times
<1>3. ASSUME NEW k \in Keys
      PROVE  Limiter!Total([t \in Limiter!Lately |-> passed[t][k]]) <= 2 * limit - 1
  <2>1. Sum(Record(k), Limiter!Lately) <= 2 * limit - 1
    BY <1>1, <1>2, RecordsCount, BurstIsBounded DEF LimitInv
  <2>2. \A t \in Limiter!Lately : Record(k)[t] = passed[t][k]
    BY <1>1, <1>2, RecordsCount, TimesAreFew
  <2> DEFINE f == [t \in Limiter!Lately |-> passed[t][k]]
  <2>3. DOMAIN f = Limiter!Lately /\ \A t \in Limiter!Lately : f[t] = Record(k)[t]
    BY <2>2
  <2> HIDE DEF f
  <2>4. Limiter!Total(f) = Sum(Record(k), Limiter!Lately)
    BY <2>3, TotalIsSum
  <2> QED BY <2>1, <2>4 DEF f
<1>4. Limiter!Total([t \in Limiter!Lately |-> admitted[t]]) <= 2 * (2 * limit) - 1
  <2>1. Sum(admitted, Limiter!Lately) <= 2 * (2 * limit) - 1
    BY <1>1, <1>2, RecordsCount, BurstIsBounded DEF LimitInv
  <2> DEFINE f == [t \in Limiter!Lately |-> admitted[t]]
  <2>2. DOMAIN f = Limiter!Lately /\ \A t \in Limiter!Lately : f[t] = admitted[t]
    OBVIOUS
  <2> HIDE DEF f
  <2>3. Limiter!Total(f) = Sum(admitted, Limiter!Lately)
    BY <2>2, TotalIsSum
  <2> QED BY <2>1, <2>3 DEF f
<1>5. Limiter!RefusalsAreFree
  <2> SUFFICES ASSUME ~Limiter!Over(a)
               PROVE  a.count = Limiter!Total([w \in {t \in 0 .. minute : t >= a.resetAt - Window} \X Keys
                                               |-> passed[w[1]][w[2]]])
    BY DEF Limiter!RefusalsAreFree
  <2> DEFINE T == Times(a.resetAt - Window, minute)
  <2> DEFINE U == {t \in 0 .. minute : t >= a.resetAt - Window}
  <2>1. a \in Buckets /\ Open(a, minute)
    BY <1>1, ClearedKeeps, StruckIsOpen
  <2>2. a.count = Sum(Ledger, T \X Keys)
    BY <2>1 DEF LimitInv
  <2>3. U = T
    <3>1. a.resetAt \in Nat
      BY <2>1 DEF Open, Buckets, Limiter!Bucket
    <3> QED BY <1>1, <3>1, LimitFacts DEF Times
  <2>4. \A w \in T \X Keys : Ledger[w] = passed[w[1]][w[2]]
    BY TimesOfKeys DEF Ledger
  <2> HIDE DEF T, U
  <2> DEFINE f == [w \in U \X Keys |-> passed[w[1]][w[2]]]
  <2>5. DOMAIN f = T \X Keys /\ \A w \in T \X Keys : f[w] = Ledger[w]
    BY <2>3, <2>4
  <2> HIDE DEF f
  <2>6. Limiter!Total(f) = Sum(Ledger, T \X Keys)
    BY <2>5, TotalIsSum
  <2> QED BY <2>2, <2>6 DEF f, U
<1> QED BY <1>3, <1>4, <1>5 DEF RateIsBounded, Limiter!RateIsBounded, Limiter!BurstsAreBounded

(* Throughput is what the plan says, for any number of keys, any limits    *)
(* and any length of the window: no interval as long as a window sees more *)
(* than twice the limit less one, and what one key is refused costs the    *)
(* others nothing.                                                         *)
THEOREM RateHolds == PathSpec => []RateIsBounded
BY LimitInvariance, RateFollows, PTL

-----------------------------------------------------------------------------
(* The wire.  What a client has been sent is the opening, deltas, and once *)
(* the handler is at its end one of the two ways to end.                   *)

Deltaic(n) == [i \in 1 .. n |-> Line!DeltaFrame]

Running == \E n \in Nat : frames = Line!Opening \o Deltaic(n)

ToldBy(tail) == \E n \in Nat : frames = Line!Opening \o (Deltaic(n) \o tail)

StreamInv ==
  /\ route.at \in {"calling", "opening", "advancing", "refused", "streaming", "broken",
                  "ending", "closed"}
  /\ route.at \in {"calling", "opening", "advancing", "refused"} => frames = <<>> /\ row = Null
  /\ route.at = "streaming" => Running /\ row = Null
  /\ route.at = "broken" => (Running \/ (route.gone /\ frames = <<>>)) /\ row = Null
  /\ route.at \in {"ending", "closed"} =>
       \/ route.gone /\ route.failed /\ (frames = <<>> \/ Running)
       \/ ~route.failed /\ ToldBy(Line!Ending)
       \/ route.failed /\ ToldBy(Line!Apology)
  /\ route.failed => route.at \in {"ending", "closed"}
  /\ row # Null => /\ route.at = "closed"
                   /\ row.usage = route.usage /\ row.billed = ~route.failed

WholeInv ==
  /\ ~route.failed
  /\ route.at \in {"calling", "advancing", "refused", "closed"}
  /\ route.at # "closed" => frames = <<>> /\ row = Null
  /\ row # Null =>
       \E kind \in {"answer", "estimated"} : frames = <<[kind |-> kind, usage |-> row.usage]>>

Handler(r) ==
  r \in [at : {r.at}, error : {r.error}, usage : {r.usage}, finish : {r.finish},
         ended : {r.ended}, gone : {r.gone}, failed : {r.failed}]

WireInv ==
  /\ Handler(route) /\ route.failed \in BOOLEAN
  /\ setup.streamed => StreamInv
  /\ ~setup.streamed => WholeInv

(* The frames a client may be sent.                                        *)
Kinds ==
  {"role", "message_start", "content_block_start", "delta", "content_block_delta",
   "content_block_stop", "usage", "DONE", "message_stop", "error",
   Line!StopReason(route.finish)}

Vocabulary == [kind : Kinds, usage : {Null, route.usage}]

LEMMA FramesAreWords ==
  /\ \A kind \in Kinds : Line!Frame(kind) \in Vocabulary /\ Line!UsageFrame(kind) \in Vocabulary
  /\ Line!DeltaFrame \in Vocabulary
  /\ \A kind \in {"DONE", "message_stop", "error"} : Line!Frame(kind) # Line!DeltaFrame
<1>1. \A kind \in Kinds : Line!Frame(kind) \in Vocabulary /\ Line!UsageFrame(kind) \in Vocabulary
  BY DEF Line!Frame, Line!UsageFrame, Vocabulary
<1>2. \A kind, other : Line!Frame(kind) = Line!Frame(other) => kind = other
  BY DEF Line!Frame
<1>3. Line!DeltaFrame = Line!Frame("delta") \/ Line!DeltaFrame = Line!Frame("content_block_delta")
  BY DEF Line!DeltaFrame
<1>4. \A kind \in {"DONE", "message_stop", "error"} : Line!Frame(kind) # Line!DeltaFrame
  BY <1>2, <1>3
<1>5. "delta" \in Kinds /\ "content_block_delta" \in Kinds
  BY DEF Kinds
<1> QED BY <1>1, <1>3, <1>4, <1>5

(* Both ways to end close with a frame that is no delta.                   *)
LEMMA EndsAreEnds ==
  ASSUME NEW tail \in {Line!Ending, Line!Apology}
  PROVE  /\ tail \in Seq(Vocabulary)
         /\ tail # <<>>
         /\ tail[Len(tail)] # Line!DeltaFrame
<1> DEFINE V == Vocabulary
<1> DEFINE d == Line!DeltaFrame
<1> DEFINE w(kind) == Line!Frame(kind)
<1> DEFINE stop == w(Line!StopReason(route.finish))
<1> DEFINE count == Line!UsageFrame("usage")
<1> DEFINE stopCount == Line!UsageFrame(Line!StopReason(route.finish))
<1> DEFINE error == w("error")
<1> DEFINE done == w("DONE")
<1> DEFINE block == w("content_block_stop")
<1> DEFINE over == w("message_stop")
<1>1. /\ stop \in V /\ count \in V /\ stopCount \in V /\ error \in V /\ done \in V
      /\ block \in V /\ over \in V
      /\ error # d /\ done # d /\ over # d
  BY FramesAreWords DEF Kinds
<1>2. \/ tail = <<stop, count, done>> \/ tail = <<stop, done>> \/ tail = <<block, stopCount, over>>
      \/ tail = <<error, done>> \/ tail = <<error>>
  BY DEF Line!Ending, Line!Apology
<1> SUFFICES tail \in Seq(V) /\ tail # <<>> /\ tail[Len(tail)] # d
  OBVIOUS
<1> HIDE DEF V, d, stop, count, stopCount, error, done, block, over
<1>3. CASE tail = <<stop, count, done>>
  BY <1>1, <1>3
<1>4. CASE tail = <<stop, done>>
  BY <1>1, <1>4
<1>5. CASE tail = <<block, stopCount, over>>
  BY <1>1, <1>5
<1>6. CASE tail = <<error, done>>
  BY <1>1, <1>6
<1>7. CASE tail = <<error>>
  BY <1>1, <1>7
<1> QED BY <1>2, <1>3, <1>4, <1>5, <1>6, <1>7

LEMMA Beginnings ==
  /\ Line!DeltaFrame \in Vocabulary
  /\ Line!Opening \in Seq(Vocabulary) /\ Line!Opening # <<>>
  /\ \A n \in Nat : Deltaic(n) \in Seq(Vocabulary) /\ Len(Deltaic(n)) = n
<1> DEFINE V == Vocabulary
<1> DEFINE role == Line!Frame("role")
<1> DEFINE message == Line!Frame("message_start")
<1> DEFINE block == Line!Frame("content_block_start")
<1> DEFINE d == Line!DeltaFrame
<1>1. d \in V /\ role \in V /\ message \in V /\ block \in V
  BY FramesAreWords DEF Kinds
<1>2. Line!Opening = <<role>> \/ Line!Opening = <<message, block>>
  BY DEF Line!Opening
<1>3. \A n \in Nat : Deltaic(n) = [i \in 1 .. n |-> d]
  BY DEF Deltaic
<1> HIDE DEF V, role, message, block, d
<1>4. Line!Opening \in Seq(V) /\ Line!Opening # <<>>
  <2>1. CASE Line!Opening = <<role>>
    BY <1>1, <2>1
  <2>2. CASE Line!Opening = <<message, block>>
    BY <1>1, <2>2
  <2> QED BY <1>2, <2>1, <2>2
<1>5. ASSUME NEW n \in Nat PROVE Deltaic(n) \in Seq(V) /\ Len(Deltaic(n)) = n
  BY <1>1, <1>3
<1> QED BY <1>1, <1>4, <1>5 DEF V, d

(* A delta more, and an ending.                                            *)
LEMMA OneMoreDelta ==
  ASSUME NEW n \in Nat
  PROVE  (Line!Opening \o Deltaic(n)) \o <<Line!DeltaFrame>> = Line!Opening \o Deltaic(n + 1)
<1> DEFINE d == Line!DeltaFrame
<1> DEFINE V == Vocabulary
<1>1. d \in V /\ Line!Opening \in Seq(V) /\ Deltaic(n) \in Seq(V) /\ <<d>> \in Seq(V)
  BY Beginnings
<1>2. Deltaic(n) \o <<d>> = Deltaic(n + 1)
  <2> HIDE DEF V
  <2>1. Deltaic(n) = [i \in 1 .. n |-> d] /\ Deltaic(n + 1) = [i \in 1 .. n + 1 |-> d]
    BY DEF Deltaic
  <2> HIDE DEF d
  <2>2. Len(Deltaic(n)) = n /\ Len(<<d>>) = 1 /\ Len(Deltaic(n + 1)) = n + 1
    BY Beginnings
  <2>3. Deltaic(n + 1) \in Seq(V) /\ Deltaic(n) \o <<d>> \in Seq(V) /\ Len(Deltaic(n) \o <<d>>) = n + 1
    BY <1>1, <2>2, Beginnings, ConcatProperties DEF V
  <2>4. ASSUME NEW i \in 1 .. n + 1 PROVE (Deltaic(n) \o <<d>>)[i] = Deltaic(n + 1)[i]
    <3>1. (Deltaic(n) \o <<d>>)[i] = IF i <= n THEN Deltaic(n)[i] ELSE <<d>>[i - n]
      BY <1>1, <2>2, ConcatProperties
    <3>2. CASE i <= n
      BY <2>1, <3>1, <3>2
    <3>3. CASE i = n + 1
      BY <2>1, <3>1, <3>3
    <3>4. i <= n \/ i = n + 1
      OBVIOUS
    <3> QED BY <3>2, <3>3, <3>4
  <2> QED BY <2>2, <2>3, <2>4, SeqEqual
<1> DEFINE o == Line!Opening
<1> HIDE DEF d, V, o
<1>3. (o \o Deltaic(n)) \o <<d>> = o \o (Deltaic(n) \o <<d>>)
  BY <1>1, ConcatAssociative DEF o
<1> QED BY <1>2, <1>3 DEF o, d

LEMMA NoDeltaYet ==
  /\ <<>> \o Line!Opening = Line!Opening \o Deltaic(0)
<1>1. Deltaic(0) = <<>>
  BY DEF Deltaic
<1> QED BY <1>1, Beginnings, ConcatEmptySeq

(* The words mean the same before and after a step.                        *)
LEMMA WordsStay ==
  ASSUME setup' = setup
  PROVE  /\ Line!Opening' = Line!Opening /\ Line!DeltaFrame' = Line!DeltaFrame
         /\ Line!Apology' = Line!Apology
         /\ route'.finish = route.finish /\ route'.usage = route.usage => Line!Ending' = Line!Ending
<1>1. Line!Opening' = Line!Opening /\ Line!DeltaFrame' = Line!DeltaFrame /\ Line!Apology' = Line!Apology
  BY DEF Line!Opening, Line!DeltaFrame, Line!Apology, Line!Frame
<1>3. ASSUME route'.finish = route.finish, route'.usage = route.usage PROVE Line!Ending' = Line!Ending
  BY <1>3 DEF Line!Ending, Line!Frame, Line!UsageFrame, Line!StopReason
<1> QED BY <1>1, <1>3

LEMMA StandingStill ==
  ASSUME setup' = setup, frames' = frames
  PROVE  /\ Running' <=> Running
         /\ ToldBy(Line!Apology)' <=> ToldBy(Line!Apology)
         /\ route'.finish = route.finish /\ route'.usage = route.usage =>
              (ToldBy(Line!Ending)' <=> ToldBy(Line!Ending))
BY WordsStay DEF Running, ToldBy, Deltaic

(* The handler's locals, after an assignment.                              *)
LEMMA HandlerGoes ==
  ASSUME NEW r, Handler(r), NEW x
  PROVE  LET s == [r EXCEPT !.at = x]
         IN  /\ Handler(s) /\ s.at = x /\ s.gone = r.gone /\ s.failed = r.failed
             /\ s.usage = r.usage /\ s.finish = r.finish
BY DEF Handler

LEMMA HandlerFails ==
  ASSUME NEW r, Handler(r), NEW x
  PROVE  LET s == [r EXCEPT !.at = x, !.failed = TRUE]
         IN  /\ Handler(s) /\ s.at = x /\ s.gone = r.gone /\ s.failed = TRUE
             /\ s.usage = r.usage /\ s.finish = r.finish
BY DEF Handler

LEMMA HandlerNotes ==
  ASSUME NEW r, Handler(r), NEW x, NEW s,
         \/ s = [r EXCEPT !.usage = x] \/ s = [r EXCEPT !.finish = x]
         \/ s = [r EXCEPT !.ended = TRUE]
  PROVE  Handler(s) /\ s.at = r.at /\ s.gone = r.gone /\ s.failed = r.failed
BY DEF Handler

LEMMA HandlerIsLeft ==
  ASSUME NEW r, Handler(r)
  PROVE  LET s == [r EXCEPT !.gone = TRUE]
         IN  Handler(s) /\ s.at = r.at /\ s.gone = TRUE /\ s.failed = r.failed
BY DEF Handler

-----------------------------------------------------------------------------
LEMMA WireStarts == Line!WireInit => WireInv
<1> SUFFICES ASSUME Line!WireInit PROVE WireInv
  OBVIOUS
<1> DEFINE r == [at |-> "calling", error |-> Null, usage |-> Line!Usage(0, 0), finish |-> "stop",
                 ended |-> FALSE, gone |-> FALSE, failed |-> FALSE]
<1>1. route = r /\ frames = <<>> /\ row = Null
  BY DEF Line!WireInit
<1>2. r.at = "calling" /\ r.failed = FALSE /\ Handler(r)
  BY DEF Handler
<1> HIDE DEF r
<1> QED BY <1>1, <1>2 DEF WireInv, StreamInv, WholeInv

(* The steps before the response, and those that only read.                *)
LEMMA BeforeTheResponse ==
  ASSUME WireInv, setup' = setup, frames' = frames, row' = row, row = Null,
         Handler(route'), route'.failed = route.failed,
         \/ /\ route.at \in {"calling", "opening"}
            /\ route'.at \in {"opening", "advancing", "refused"}
            /\ route'.at = "opening" => setup.streamed
         \/ /\ route.at \in {"opening", "streaming"} /\ setup.streamed
            /\ route'.at = route.at
         \/ route.at = "streaming" /\ route'.at = "broken" /\ setup.streamed
  PROVE  WireInv'
<1>1. CASE setup.streamed
  BY <1>1, StandingStill DEF WireInv, StreamInv
<1>2. CASE ~setup.streamed
  <2>1. WholeInv /\ route.at \in {"calling", "advancing", "refused", "closed"}
    BY <1>2 DEF WireInv, WholeInv
  <2>2. route.at = "calling" /\ route'.at \in {"advancing", "refused"}
    BY <1>2, <2>1
  <2>3. frames' = <<>> /\ row' = Null
    BY <2>1, <2>2 DEF WholeInv
  <2>4. WholeInv'
    BY <2>1, <2>2, <2>3 DEF WholeInv
  <2>5. ~setup'.streamed /\ route'.failed \in BOOLEAN
    BY <1>2 DEF WireInv
  <2> QED BY <2>4, <2>5 DEF WireInv
<1> QED BY <1>1, <1>2

LEMMA NoRowYet ==
  ASSUME WireInv, route.at # "closed"
  PROVE  row = Null /\ (route.failed => route.at = "ending")
                   /\ (~setup.streamed => frames = <<>>)
                   /\ (route.at \notin {"calling", "advancing", "refused"} => setup.streamed)
<1>1. CASE setup.streamed
  BY <1>1 DEF WireInv, StreamInv
<1>2. CASE ~setup.streamed
  BY <1>2 DEF WireInv, WholeInv
<1> QED BY <1>1, <1>2

LEMMA WireReads ==
  ASSUME WireInv,
         \/ Line!Opens \/ Line!BodyEnds \/ Line!BodyBreaks \/ Line!ClientGoes
         \/ \E error : Line!Refused(error)
         \/ \E n \in 1 .. Len(coming) : Line!Read(n)
  PROVE  WireInv'
<1> USE DEF WireInv
<1>1. CASE Line!Opens
  BY <1>1, BeforeTheResponse, NoRowYet, HandlerGoes DEF Line!Opens, Line!Goto
<1>2. CASE Line!BodyEnds
  <2>1. route' = [route EXCEPT !.ended = TRUE]
    BY <1>2 DEF Line!BodyEnds
  <2>2. Handler(route') /\ route'.at = route.at /\ route'.failed = route.failed
    BY <2>1, HandlerNotes
  <2>3. route.at \in {"opening", "streaming"} /\ setup' = setup /\ frames' = frames /\ row' = row
    BY <1>2 DEF Line!BodyEnds, Line!Reading
  <2> QED BY <2>2, <2>3, BeforeTheResponse, NoRowYet
<1>3. CASE Line!BodyBreaks
  <2>1. setup' = setup /\ frames' = frames /\ row' = row /\ route.at \in {"opening", "streaming"}
    BY <1>3 DEF Line!BodyBreaks, Line!Reading
  <2>2. CASE route.at = "opening"
    <3>1. route' = [route EXCEPT !.at = "refused", !.error = Line!Unclassified]
      BY <1>3, <2>2 DEF Line!BodyBreaks
    <3>2. Handler(route') /\ route'.at = "refused" /\ route'.failed = route.failed
      BY <3>1 DEF Handler
    <3> QED BY <2>1, <2>2, <3>2, BeforeTheResponse, NoRowYet
  <2>3. CASE route.at # "opening"
    <3>1. route' = [route EXCEPT !.at = "broken"]
      BY <1>3, <2>3 DEF Line!BodyBreaks
    <3>2. Handler(route') /\ route'.at = "broken" /\ route'.failed = route.failed
      BY <3>1, HandlerGoes
    <3> QED BY <2>1, <2>3, <3>2, BeforeTheResponse, NoRowYet
  <2> QED BY <2>2, <2>3
<1>4. CASE Line!ClientGoes
  <2>1. Handler(route') /\ route'.at = route.at /\ route'.failed = route.failed
    BY <1>4, HandlerIsLeft DEF Line!ClientGoes
  <2> QED BY <1>4, <2>1, BeforeTheResponse, NoRowYet DEF Line!ClientGoes
<1>5. ASSUME NEW error, Line!Refused(error) PROVE WireInv'
  <2> DEFINE at == IF Line!IsFallbackWorthy(error) THEN "advancing" ELSE "refused"
  <2>1. route' = [route EXCEPT !.at = at, !.error = error] /\ at \in {"advancing", "refused"}
    BY <1>5 DEF Line!Refused
  <2> HIDE DEF at
  <2>2. Handler(route') /\ route'.at = at /\ route'.failed = route.failed
    BY <2>1 DEF Handler
  <2> QED BY <1>5, <2>1, <2>2, BeforeTheResponse, NoRowYet DEF Line!Refused
<1>6. ASSUME NEW n \in 1 .. Len(coming), Line!Read(n) PROVE WireInv'
  <2>1. setup' = setup /\ route' = route /\ frames' = frames /\ row' = row
        /\ route.at \in {"opening", "streaming"}
    BY <1>6 DEF Line!Read, Line!Reading
  <2> QED BY <2>1, BeforeTheResponse, NoRowYet
<1> QED BY <1>1, <1>2, <1>3, <1>4, <1>5, <1>6

(* Begin, Consume and EndStream.                                           *)
LEMMA WirePassesOn ==
  ASSUME WireInv, Line!Begin \/ Line!Consume \/ Line!EndStream
  PROVE  WireInv'
<1>1. setup' = setup /\ row' = row /\ route.at \in {"opening", "streaming"} /\ Handler(route)
  BY DEF WireInv, Line!Begin, Line!Consume, Line!EndStream
<1>2. setup.streamed /\ row = Null /\ route.failed = FALSE /\ StreamInv
  BY <1>1, NoRowYet DEF WireInv
<1>3. CASE route' = [route EXCEPT !.at = "broken"] /\ frames' = frames /\ route.gone
  <2>1. Handler(route') /\ route'.at = "broken" /\ route'.failed = FALSE /\ route'.gone = route.gone
    BY <1>1, <1>2, <1>3, HandlerGoes
  <2>2. Running' <=> Running
    BY <1>1, <1>3, StandingStill
  <2> QED BY <1>1, <1>2, <1>3, <2>1, <2>2 DEF WireInv, StreamInv
<1>4. CASE Line!Begin /\ ~route.gone
  <2>1. frames' = frames \o Line!Opening /\ route' = [route EXCEPT !.at = "streaming"]
        /\ route.at = "opening"
    BY <1>4 DEF Line!Begin, Line!Send, Line!Goto
  <2>2. Handler(route') /\ route'.at = "streaming" /\ route'.failed = FALSE
    BY <1>1, <1>2, <2>1, HandlerGoes
  <2>3. frames' = Line!Opening \o Deltaic(0)
    BY <1>2, <2>1, NoDeltaYet DEF StreamInv
  <2>4. Running'
    BY <1>1, <2>3, WordsStay DEF Running, Deltaic
  <2> QED BY <1>1, <1>2, <2>2, <2>4 DEF WireInv, StreamInv
<1>5. CASE Line!Consume /\ ~route.gone /\ Head(queue) = "text"
  <2>1. frames' = frames \o <<Line!DeltaFrame>> /\ route' = [route EXCEPT !.at = "streaming"]
        /\ route.at = "streaming"
    BY <1>5 DEF Line!Consume, Line!Send, Line!Goto
  <2>2. Handler(route') /\ route'.at = "streaming" /\ route'.failed = FALSE
    BY <1>1, <1>2, <2>1, HandlerGoes
  <2>3. PICK n \in Nat : frames = Line!Opening \o Deltaic(n)
    BY <1>2, <2>1 DEF StreamInv, Running
  <2>4. frames' = Line!Opening \o Deltaic(n + 1)
    BY <2>1, <2>3, OneMoreDelta
  <2>5. Running'
    <3>1. n + 1 \in Nat
      OBVIOUS
    <3> QED BY <1>1, <2>4, <3>1, WordsStay DEF Running, Deltaic
  <2> QED BY <1>1, <1>2, <2>2, <2>5 DEF WireInv, StreamInv
<1>6. CASE Line!Consume /\ Head(queue) # "text"
  <2>1. /\ frames' = frames /\ route.at = "streaming"
        /\ \/ route' = [route EXCEPT !.usage = Line!MeteredUsage(heard)]
           \/ route' = [route EXCEPT !.finish = Head(queue)]
    BY <1>6 DEF Line!Consume
  <2>2. Handler(route') /\ route'.at = "streaming" /\ route'.failed = FALSE
    <3>1. CASE route' = [route EXCEPT !.usage = Line!MeteredUsage(heard)]
      BY <1>1, <1>2, <2>1, <3>1, HandlerNotes
    <3>2. CASE route' = [route EXCEPT !.finish = Head(queue)]
      BY <1>1, <1>2, <2>1, <3>2, HandlerNotes
    <3> QED BY <2>1, <3>1, <3>2
  <2> QED BY <1>1, <1>2, <2>1, <2>2, BeforeTheResponse
<1>7. CASE Line!EndStream /\ ~route.gone
  <2>1. frames' = frames \o Line!Ending /\ route' = [route EXCEPT !.at = "ending"]
        /\ route.at = "streaming"
    BY <1>7 DEF Line!EndStream, Line!Send, Line!Goto
  <2>2. Handler(route') /\ route'.at = "ending" /\ route'.failed = FALSE
        /\ route'.usage = route.usage /\ route'.finish = route.finish
    BY <1>1, <1>2, <2>1, HandlerGoes
  <2>3. PICK n \in Nat : frames = Line!Opening \o Deltaic(n)
    BY <1>2, <2>1 DEF StreamInv, Running
  <2>4. frames' = Line!Opening \o (Deltaic(n) \o Line!Ending)
    <3> DEFINE V == Vocabulary
    <3> DEFINE o == Line!Opening
    <3> DEFINE u == Deltaic(n)
    <3> DEFINE e == Line!Ending
    <3>1. o \in Seq(V) /\ u \in Seq(V) /\ e \in Seq(V)
      BY Beginnings, EndsAreEnds
    <3>2. frames' = (o \o u) \o e
      BY <2>1, <2>3
    <3> HIDE DEF V, o, u, e
    <3>3. (o \o u) \o e = o \o (u \o e)
      BY <3>1, ConcatAssociative, SMTT(30)
    <3> QED BY <3>2, <3>3 DEF o, u, e
  <2>5. ToldBy(Line!Ending)'
    BY <1>1, <2>2, <2>4, WordsStay DEF ToldBy, Deltaic
  <2> QED BY <1>1, <1>2, <2>2, <2>5 DEF WireInv, StreamInv
<1>8. CASE (Line!Begin \/ (Line!Consume /\ Head(queue) = "text") \/ Line!EndStream) /\ route.gone
  BY <1>3, <1>8 DEF Line!Begin, Line!Consume, Line!EndStream, Line!Send, Line!Goto
<1> QED BY <1>4, <1>5, <1>6, <1>7, <1>8

(* Apologize, Account and AnswerWhole.                                     *)
LEMMA WireCloses ==
  ASSUME WireInv,
         \/ Line!Apologize \/ Line!Account
         \/ \E text \in 0 .. 1, kind \in {"full", "zero", "total", "prompt", "none"} :
              Line!AnswerWhole(text, kind)
  PROVE  WireInv'
<1>1. CASE Line!Apologize
  <2>1. /\ route.at = "broken" /\ setup' = setup /\ row' = row
        /\ route' = [route EXCEPT !.at = "ending", !.failed = TRUE]
        /\ frames' = IF route.gone THEN frames ELSE frames \o Line!Apology
    BY <1>1 DEF Line!Apologize
  <2>2. setup.streamed /\ row = Null /\ StreamInv /\ Handler(route)
    BY <2>1, NoRowYet DEF WireInv
  <2>3. Handler(route') /\ route'.at = "ending" /\ route'.failed = TRUE /\ route'.gone = route.gone
    BY <2>1, <2>2 DEF Handler
  <2>4. CASE route.gone
    <3>1. frames' = frames /\ (Running' <=> Running)
      BY <2>1, <2>4, StandingStill
    <3> QED BY <2>1, <2>2, <2>3, <2>4, <3>1 DEF WireInv, StreamInv
  <2>5. CASE ~route.gone
    <3>1. PICK n \in Nat : frames = Line!Opening \o Deltaic(n)
      BY <2>1, <2>2, <2>5 DEF StreamInv, Running
    <3>2. frames' = Line!Opening \o (Deltaic(n) \o Line!Apology)
      <4> DEFINE V == Vocabulary
      <4> DEFINE o == Line!Opening
      <4> DEFINE e == Line!Apology
      <4>1. o \in Seq(V) /\ Deltaic(n) \in Seq(V) /\ e \in Seq(V)
        BY Beginnings, EndsAreEnds
      <4> HIDE DEF V, o, e
      <4>2. (o \o Deltaic(n)) \o e = o \o (Deltaic(n) \o e)
        BY <4>1, ConcatAssociative
      <4> QED BY <2>1, <2>5, <3>1, <4>2 DEF o, e
    <3>3. ToldBy(Line!Apology)'
      BY <2>1, <3>2, WordsStay DEF ToldBy, Deltaic
    <3> QED BY <2>1, <2>2, <2>3, <3>3 DEF WireInv, StreamInv
  <2> QED BY <2>4, <2>5
<1>2. CASE Line!Account
  <2> DEFINE written == [status |-> IF route.failed THEN "error" ELSE "success",
                         usage |-> route.usage, billed |-> ~route.failed]
  <2>1. /\ route.at = "ending" /\ setup' = setup /\ frames' = frames /\ row' = written
        /\ route' = [route EXCEPT !.at = "closed"]
    BY <1>2 DEF Line!Account, Line!Goto
  <2>2. written.usage = route.usage /\ written.billed = ~route.failed
    OBVIOUS
  <2> HIDE DEF written
  <2>3. setup.streamed /\ StreamInv /\ Handler(route) /\ route.failed \in BOOLEAN
    BY <2>1, NoRowYet DEF WireInv
  <2>4. /\ Handler(route') /\ route'.at = "closed" /\ route'.failed = route.failed
        /\ route'.gone = route.gone /\ route'.usage = route.usage /\ route'.finish = route.finish
    BY <2>1, <2>3, HandlerGoes
  <2>5. /\ Running' <=> Running
        /\ ToldBy(Line!Apology)' <=> ToldBy(Line!Apology)
        /\ ToldBy(Line!Ending)' <=> ToldBy(Line!Ending)
    BY <2>1, <2>4, StandingStill
  <2>6. \/ route'.gone /\ route'.failed /\ (frames' = <<>> \/ Running')
        \/ ~route'.failed /\ ToldBy(Line!Ending)'
        \/ route'.failed /\ ToldBy(Line!Apology)'
    BY <2>1, <2>3, <2>4, <2>5 DEF StreamInv
  <2>7. row'.usage = route'.usage /\ row'.billed = ~route'.failed
    BY <2>1, <2>2, <2>4
  <2>8. StreamInv'
    BY <2>4, <2>6, <2>7 DEF StreamInv
  <2> QED BY <2>1, <2>3, <2>4, <2>8 DEF WireInv
<1>3. ASSUME NEW text \in 0 .. 1, NEW kind \in {"full", "zero", "total", "prompt", "none"},
             Line!AnswerWhole(text, kind)
      PROVE  WireInv'
  <2> DEFINE whole == IF setup.adapter = "openai" THEN Line!WholeOpenAi(text, kind)
                                                  ELSE Line!WholeAnthropic(text, kind)
  <2> DEFINE written == [status |-> "success", usage |-> whole[1], billed |-> TRUE]
  <2> DEFINE word == IF whole[2] /\ setup.dialect = "openai" THEN "estimated" ELSE "answer"
  <2>1. /\ route.at = "calling" /\ ~setup.streamed /\ setup' = setup /\ row' = written
        /\ frames' = <<[kind |-> word, usage |-> whole[1]]>>
        /\ route' = [route EXCEPT !.at = "closed"]
    BY <1>3 DEF Line!AnswerWhole, Line!Goto
  <2>2. written.usage = whole[1] /\ word \in {"answer", "estimated"}
    OBVIOUS
  <2> HIDE DEF written, word, whole
  <2>3. Handler(route) /\ ~route.failed
    BY <2>1 DEF WireInv, WholeInv
  <2>4. Handler(route') /\ route'.at = "closed" /\ route'.failed = route.failed
    BY <2>1, <2>3, HandlerGoes
  <2>5. frames' = <<[kind |-> word, usage |-> row'.usage]>>
    BY <2>1, <2>2
  <2>6. WholeInv'
    BY <2>2, <2>3, <2>4, <2>5 DEF WholeInv
  <2> QED BY <2>1, <2>3, <2>4, <2>6 DEF WireInv
<1> QED BY <1>1, <1>2, <1>3

LEMMA WireKeeps ==
  ASSUME WireInv, Line!WireNext PROVE WireInv'
<1>1. ASSUME NEW status \in Line!Statuses,
             Line!Refused(IF setup.adapter = "openai" THEN Line!RaiseForStatus(status)
                                                      ELSE Line!RaiseInPost(status))
      PROVE  \E error : Line!Refused(error)
  BY <1>1
<1>2. ASSUME NEW name, Line!Refused(Line!Unreachable(name)) PROVE \E error : Line!Refused(error)
  BY <1>2
<1> QED BY <1>1, <1>2, WireReads, WirePassesOn, WireCloses DEF Line!WireNext

LEMMA WireInvariance == PathSpec => []WireInv
<1>1. PathInit => WireInv
  BY WireStarts DEF PathInit
<1>2. WireInv /\ [PathNext]_<<part, vars, lineVars, poolVars, limitVars>> => WireInv'
  <2> SUFFICES ASSUME WireInv, [PathNext]_<<part, vars, lineVars, poolVars, limitVars>> PROVE WireInv'
    OBVIOUS
  <2>1. CASE Line!WireNext
    BY <2>1, WireKeeps
  <2>2. CASE UNCHANGED lineVars
    <3>1. setup' = setup /\ route' = route /\ frames' = frames /\ row' = row
      BY <2>2 DEF lineVars
    <3>2. /\ Running' <=> Running
          /\ ToldBy(Line!Apology)' <=> ToldBy(Line!Apology)
          /\ ToldBy(Line!Ending)' <=> ToldBy(Line!Ending)
      BY <3>1, StandingStill
    <3>3. CASE setup.streamed
      BY <3>1, <3>2, <3>3 DEF WireInv, StreamInv
    <3>4. CASE ~setup.streamed
      BY <3>1, <3>4 DEF WireInv, WholeInv
    <3> QED BY <3>3, <3>4
  <2> QED BY <2>1, <2>2 DEF PathNext
<1> QED BY <1>1, <1>2, PTL DEF PathSpec

(* What follows the opening.                                               *)
LEMMA AfterTheOpening ==
  ASSUME NEW V, NEW o \in Seq(V), NEW t \in Seq(V)
  PROVE  SubSeq(o \o t, Len(o) + 1, Len(o \o t)) = t /\ Line!IsPrefix(o, o \o t)
<1> DEFINE f == o \o t
<1>1. /\ f \in Seq(V) /\ Len(f) = Len(o) + Len(t) /\ Len(o) \in Nat /\ Len(t) \in Nat
      /\ \A i \in 1 .. Len(o) + Len(t) : f[i] = IF i <= Len(o) THEN o[i] ELSE t[i - Len(o)]
      /\ \A i \in 1 .. Len(f) : f[i] \in V
  BY ConcatProperties, LenProperties, ElementOfSeq
<1> SUFFICES SubSeq(f, Len(o) + 1, Len(f)) = t /\ Line!IsPrefix(o, f)
  OBVIOUS
<1> HIDE DEF f
<1> DEFINE m == Len(o) + 1
<1> DEFINE b == SubSeq(f, m, Len(f))
<1>2. /\ b \in Seq(V) /\ Len(b) = Len(t) /\ \A i \in 1 .. Len(t) : b[i] = f[m + i - 1]
  <2>1. m \in Int /\ Len(f) \in Int /\ \A i \in m .. Len(f) : f[i] \in V
    BY <1>1
  <2>2. /\ b \in Seq(V) /\ Len(b) = IF m <= Len(f) THEN Len(f) - m + 1 ELSE 0
        /\ \A i \in 1 .. Len(f) - m + 1 : b[i] = f[m + i - 1]
    BY <2>1, SubSeqProperties
  <2>3. Len(f) - m + 1 = Len(t) /\ (Len(t) = 0 \/ m <= Len(f))
    BY <1>1
  <2>4. Len(b) = Len(t)
    BY <1>1, <2>2, <2>3
  <2>5. \A i \in 1 .. Len(t) : b[i] = f[m + i - 1]
    BY <2>2, <2>3
  <2> QED BY <2>2, <2>4, <2>5
<1>3. \A i \in 1 .. Len(t) : b[i] = t[i]
  BY <1>1, <1>2
<1>4. b = t
  <2> HIDE DEF b
  <2>1. Len(b) = Len(t) /\ \A i \in 1 .. Len(b) : b[i] = t[i]
    BY <1>2, <1>3
  <2> QED BY <1>2, <2>1, SeqEqual
<1>5. SubSeq(f, 1, Len(o)) = SubSeq(o, 1, Len(o))
  <2>1. \A i \in 1 .. Len(o) : f[i] \in V /\ o[i] \in V /\ f[i] = o[i]
    BY <1>1, ElementOfSeq
  <2> DEFINE p == SubSeq(f, 1, Len(o))
  <2> DEFINE q == SubSeq(o, 1, Len(o))
  <2>2. /\ p \in Seq(V) /\ q \in Seq(V) /\ Len(p) = Len(q)
        /\ \A i \in 1 .. Len(o) - 1 + 1 : p[i] = f[1 + i - 1] /\ q[i] = o[1 + i - 1]
        /\ Len(p) = IF 1 <= Len(o) THEN Len(o) - 1 + 1 ELSE 0
    BY <1>1, <2>1, SubSeqProperties
  <2> HIDE DEF p, q
  <2>3. Len(p) = Len(o)
    BY <1>1, <2>2
  <2>4. \A i \in 1 .. Len(p) : p[i] = q[i]
    BY <1>1, <2>1, <2>2, <2>3
  <2>5. p = q
    BY <2>2, <2>4, SeqEqual
  <2> QED BY <2>5 DEF p, q
<1>6. Line!IsPrefix(o, f)
  BY <1>1, <1>5 DEF Line!IsPrefix
<1> QED BY <1>1, <1>4, <1>6

(* An end cannot be mistaken for one more delta.                           *)
LEMMA EndsAreSeen ==
  ASSUME NEW n \in Nat, NEW tail \in {Line!Ending, Line!Apology}, NEW t, t = Deltaic(n) \o tail
  PROVE  /\ t \in Seq(Vocabulary) /\ Len(t) - Len(tail) = n
         /\ t # Deltaic(Len(t))
<1> DEFINE V == Vocabulary
<1> DEFINE d == Line!DeltaFrame
<1> DEFINE u == Deltaic(n)
<1>1. /\ u \in Seq(V) /\ Len(u) = n
      /\ tail \in Seq(V) /\ tail # <<>> /\ tail[Len(tail)] # d
  BY Beginnings, EndsAreEnds
<1>2. t = u \o tail
  OBVIOUS
<1>3. \A m : Deltaic(m) = [i \in 1 .. m |-> d]
  BY DEF Deltaic
<1> SUFFICES t \in Seq(V) /\ Len(t) - Len(tail) = n /\ t # Deltaic(Len(t))
  OBVIOUS
<1> HIDE DEF V, d, u
<1>4. /\ t \in Seq(V) /\ Len(t) = n + Len(tail) /\ Len(tail) \in Nat \ {0}
      /\ \A i \in 1 .. n + Len(tail) : t[i] = IF i <= n THEN u[i] ELSE tail[i - n]
  <2>1. u \in Seq(V) /\ tail \in Seq(V)
    BY <1>1
  <2>2. u \o tail \in Seq(V)
    BY <2>1, ConcatProperties
  <2>3. Len(u \o tail) = Len(u) + Len(tail)
    BY <2>1, ConcatProperties
  <2>4. \A i \in 1 .. Len(u) + Len(tail) : (u \o tail)[i] = IF i <= Len(u) THEN u[i] ELSE tail[i - Len(u)]
    BY <2>1, ConcatProperties
  <2>5. /\ t \in Seq(V) /\ Len(t) = Len(u) + Len(tail)
        /\ \A i \in 1 .. Len(u) + Len(tail) : t[i] = IF i <= Len(u) THEN u[i] ELSE tail[i - Len(u)]
    BY <1>2, <2>2, <2>3, <2>4
  <2>6. Len(tail) \in Nat \ {0}
    BY <1>1, EmptySeq
  <2> QED BY <1>1, <2>5, <2>6
<1>5. t[Len(t)] = tail[Len(tail)]
  <2>1. Len(t) \in 1 .. n + Len(tail) /\ ~(Len(t) <= n) /\ Len(t) - n = Len(tail)
    BY <1>4
  <2> QED BY <1>4, <2>1
<1>6. ASSUME t = Deltaic(Len(t)) PROVE FALSE
  <2>1. Len(t) \in 1 .. Len(t)
    BY <1>4
  <2>2. t[Len(t)] = d
    BY <1>3, <1>6, <2>1
  <2> QED BY <1>1, <1>5, <2>2
<1>7. Len(t) - Len(tail) = n
  BY <1>4
<1> QED BY <1>4, <1>6, <1>7

LEMMA DialectFollows == WireInv => Line!FramesFollowTheDialect
<1> SUFFICES ASSUME WireInv, frames # <<>>, setup.streamed
             PROVE  LET body == SubSeq(frames, Len(Line!Opening) + 1, Len(frames))
                    IN /\ Line!IsPrefix(Line!Opening, frames)
                       /\ \/ body = Deltaic(Len(body))
                          \/ \E tail \in {Line!Ending, Line!Apology} :
                               /\ body = Deltaic(Len(body) - Len(tail)) \o tail
                               /\ route.at \in {"ending", "closed"}
                       /\ route.at = "closed" /\ ~route.gone => body # Deltaic(Len(body))
  BY DEF Line!FramesFollowTheDialect, Deltaic
<1> DEFINE body == SubSeq(frames, Len(Line!Opening) + 1, Len(frames))
<1>1. \/ Running /\ (route.at = "closed" => route.gone)
      \/ /\ route.at \in {"ending", "closed"}
         /\ \E tail \in {Line!Ending, Line!Apology} : ToldBy(tail)
  BY DEF WireInv, StreamInv
<1>2. CASE Running /\ (route.at = "closed" => route.gone)
  <2>1. PICK n \in Nat : frames = Line!Opening \o Deltaic(n)
    BY <1>2 DEF Running
  <2>2. body = Deltaic(n) /\ Line!IsPrefix(Line!Opening, frames)
    <3> DEFINE V == Vocabulary
    <3> DEFINE o == Line!Opening
    <3> DEFINE t == Deltaic(n)
    <3>1. o \in Seq(V) /\ t \in Seq(V)
      BY Beginnings
    <3>2. frames = o \o t
      BY <2>1
    <3> HIDE DEF V, o, t
    <3>3. SubSeq(o \o t, Len(o) + 1, Len(o \o t)) = t /\ Line!IsPrefix(o, o \o t)
      BY <3>1, AfterTheOpening
    <3>4. SubSeq(frames, Len(o) + 1, Len(frames)) = t /\ Line!IsPrefix(o, frames)
      BY <3>2, <3>3
    <3> QED BY <3>4 DEF o, t
  <2>3. Len(Deltaic(n)) = n
    BY Beginnings
  <2> QED BY <1>2, <2>2, <2>3
<1>3. ASSUME route.at \in {"ending", "closed"}, NEW tail \in {Line!Ending, Line!Apology}, ToldBy(tail)
      PROVE  /\ Line!IsPrefix(Line!Opening, frames)
             /\ body = Deltaic(Len(body) - Len(tail)) \o tail
             /\ body # Deltaic(Len(body))
  <2>1. PICK n \in Nat : frames = Line!Opening \o (Deltaic(n) \o tail)
    BY <1>3 DEF ToldBy
  <2> DEFINE t == Deltaic(n) \o tail
  <2>2. t \in Seq(Vocabulary) /\ Len(t) - Len(tail) = n /\ t # Deltaic(Len(t))
    BY EndsAreSeen
  <2>3. body = t /\ Line!IsPrefix(Line!Opening, frames)
    <3> DEFINE V == Vocabulary
    <3> DEFINE o == Line!Opening
    <3>1. o \in Seq(V) /\ t \in Seq(V)
      BY <2>2, Beginnings
    <3>2. frames = o \o t
      BY <2>1
    <3> HIDE DEF V, o, t
    <3>3. SubSeq(o \o t, Len(o) + 1, Len(o \o t)) = t /\ Line!IsPrefix(o, o \o t)
      BY <3>1, AfterTheOpening
    <3>4. SubSeq(frames, Len(o) + 1, Len(frames)) = t /\ Line!IsPrefix(o, frames)
      BY <3>2, <3>3
    <3> QED BY <3>4 DEF o
  <2> HIDE DEF body
  <2> QED BY <2>2, <2>3
<1> QED BY <1>1, <1>2, <1>3

(* Whatever an upstream sends, wherever its reads end and whenever the     *)
(* client leaves, what a client has read is a prefix of a well-formed      *)
(* stream of its dialect, with one end and nothing after it.               *)
THEOREM DialectIsFollowed == PathSpec => []FramesFollowTheDialect
<1>1. WireInv => FramesFollowTheDialect
  BY DialectFollows DEF FramesFollowTheDialect
<1> QED BY <1>1, WireInvariance, PTL

LEMMA BilledIsToldAt == WireInv => Line!ToldIsBilled
<1> SUFFICES ASSUME WireInv, row # Null PROVE Line!ToldIsBilled
  BY DEF Line!ToldIsBilled
<1>1. CASE ~setup.streamed
  <2>1. PICK kind \in {"answer", "estimated"} : frames = <<[kind |-> kind, usage |-> row.usage]>>
    BY <1>1 DEF WireInv, WholeInv
  <2> DEFINE f == [kind |-> kind, usage |-> row.usage]
  <2>2. f.usage = row.usage /\ frames = <<f>>
    BY <2>1
  <2> HIDE DEF f
  <2>3. \A i \in DOMAIN frames : frames[i] = f
    BY <2>2
  <2> QED BY <1>1, <2>2, <2>3 DEF Line!ToldIsBilled
<1>2. CASE setup.streamed /\ route.failed
  BY <1>2 DEF WireInv, StreamInv, Line!ToldIsBilled
<1>3. CASE setup.streamed /\ ~route.failed
  <2>1. row.usage = route.usage /\ ToldBy(Line!Ending)
    BY <1>3 DEF WireInv, StreamInv
  <2>2. PICK n \in Nat : frames = Line!Opening \o (Deltaic(n) \o Line!Ending)
    BY <2>1 DEF ToldBy
  <2> DEFINE V == Vocabulary
  <2> DEFINE o == Line!Opening
  <2> DEFINE u == Deltaic(n)
  <2> DEFINE e == Line!Ending
  <2>3. o \in Seq(V) /\ u \in Seq(V) /\ e \in Seq(V)
    BY Beginnings, EndsAreEnds
  <2>4. frames = o \o (u \o e)
    BY <2>2
  <2>5. \A v \in V : v.usage \in {Null, route.usage}
    BY DEF Vocabulary
  <2> HIDE DEF V, o, u, e
  <2>6. frames = (o \o u) \o e /\ o \o u \in Seq(V)
    <3>1. (o \o u) \o e = o \o (u \o e)
      BY <2>3, ConcatAssociative
    <3>2. o \o u \in Seq(V)
      BY <2>3, ConcatProperties
    <3> QED BY <2>4, <3>1, <3>2
  <2> DEFINE p == o \o u
  <2>7. p \in Seq(V) /\ frames = p \o e
    BY <2>6
  <2> HIDE DEF p
  <2>8. /\ p \o e \in Seq(V) /\ Len(p \o e) = Len(p) + Len(e)
        /\ SubSeq(p \o e, Len(p) + 1, Len(p \o e)) = e
        /\ Len(p) \in Nat /\ Len(e) \in Nat
    <3>1. p \in Seq(V) /\ e \in Seq(V)
      BY <2>3, <2>7
    <3>2. p \o e \in Seq(V) /\ Len(p \o e) = Len(p) + Len(e)
      BY <3>1, ConcatProperties
    <3>3. SubSeq(p \o e, Len(p) + 1, Len(p \o e)) = e
      BY <3>1, AfterTheOpening
    <3>4. Len(p) \in Nat /\ Len(e) \in Nat
      BY <3>1, LenProperties
    <3> QED BY <3>2, <3>3, <3>4
  <2>9. frames \in Seq(V) /\ SubSeq(frames, Len(frames) - Len(e) + 1, Len(frames)) = e
    <3>1. Len(frames) = Len(p) + Len(e)
      BY <2>7, <2>8
    <3>2. Len(frames) - Len(e) = Len(p)
      BY <2>8, <3>1
    <3> QED BY <2>7, <2>8, <3>2
  <2>10. \A i \in DOMAIN frames : frames[i].usage \in {Null, row.usage}
    BY <2>1, <2>5, <2>9, LenProperties, ElementOfSeq
  <2> QED BY <2>9, <2>10 DEF Line!ToldIsBilled, e
<1> QED BY <1>1, <1>2, <1>3

-----------------------------------------------------------------------------
(* The text of an answer, and its pieces.                                  *)

Body == Line!Text(setup.script, setup.cut)

Size == 4 * Len(setup.script) - (IF setup.cut /\ setup.script # <<>> THEN 2 ELSE 0)

(* m units of the body, after the first e.                                 *)
Slice(e, m) == [i \in 1 .. m |-> Body[e + i]]

(* The same, after the first c events.                                     *)
Piece(c, m) == Slice(4 * c, m)

ScriptTyped == setup.script \in Seq(STRING) /\ setup.cut \in BOOLEAN

Pieces == Int \X {"head", "tail", "newline"}

LEMMA BodyIs ==
  ASSUME ScriptTyped
  PROVE  /\ Size \in Nat /\ Body \in Seq(Pieces) /\ Len(Body) = Size
         /\ \A j \in Nat :
              /\ 4 * j + 1 <= Size => Body[4 * j + 1] = <<j + 1, "head">>
              /\ 4 * j + 2 <= Size => Body[4 * j + 2] = <<j + 1, "tail">>
              /\ 4 * j + 3 <= Size => Body[4 * j + 3] = Line!Newline
              /\ 4 * j + 4 <= Size => Body[4 * j + 4] = Line!Newline
<1>1. Size \in Nat
  <2>1. Len(setup.script) \in Nat /\ (setup.script # <<>> => Len(setup.script) > 0)
    BY EmptySeq DEF ScriptTyped
  <2> QED BY <2>1 DEF Size
<1> DEFINE U(k) == CASE k % 4 = 1 -> <<k \div 4 + 1, "head">>
                     [] k % 4 = 2 -> <<k \div 4 + 1, "tail">>
                     [] OTHER     -> Line!Newline
<1>2. Body = [k \in 1 .. Size |-> U(k)]
  BY DEF Body, Line!Text, Size
<1>3. ASSUME NEW k \in Nat PROVE U(k) \in Pieces
  <2> DEFINE v == k \div 4 + 1
  <2>1. v \in Int
    OBVIOUS
  <2>2. <<v, "head">> \in Pieces /\ <<v, "tail">> \in Pieces /\ Line!Newline \in Pieces
    <3> HIDE DEF v
    <3> QED BY <2>1 DEF Line!Newline, Pieces
  <2>3. U(k) = <<v, "head">> \/ U(k) = <<v, "tail">> \/ U(k) = Line!Newline
    <3>1. U(k) = IF k % 4 = 1 THEN <<v, "head">> ELSE IF k % 4 = 2 THEN <<v, "tail">> ELSE Line!Newline
      <4>1. CASE k % 4 = 1
        BY <4>1
      <4>2. CASE k % 4 = 2
        BY <4>2
      <4>3. CASE k % 4 # 1 /\ k % 4 # 2
        BY <4>3
      <4> QED BY <4>1, <4>2, <4>3
    <3> QED BY <3>1
  <2> HIDE DEF U
  <2> QED BY <2>2, <2>3
<1>4. ASSUME NEW j \in Nat
      PROVE  /\ U(4 * j + 1) = <<j + 1, "head">> /\ U(4 * j + 2) = <<j + 1, "tail">>
             /\ U(4 * j + 3) = Line!Newline /\ U(4 * j + 4) = Line!Newline
  <2>1. /\ (4 * j + 1) % 4 = 1 /\ (4 * j + 2) % 4 = 2 /\ (4 * j + 3) % 4 = 3 /\ (4 * j + 4) % 4 = 0
        /\ (4 * j + 1) \div 4 = j /\ (4 * j + 2) \div 4 = j
    OBVIOUS
  <2> QED BY <2>1
<1> HIDE DEF U
<1>5. Body \in Seq(Pieces) /\ Len(Body) = Size
  BY <1>1, <1>2, <1>3
<1>6. ASSUME NEW j \in Nat
      PROVE  /\ 4 * j + 1 <= Size => Body[4 * j + 1] = <<j + 1, "head">>
             /\ 4 * j + 2 <= Size => Body[4 * j + 2] = <<j + 1, "tail">>
             /\ 4 * j + 3 <= Size => Body[4 * j + 3] = Line!Newline
             /\ 4 * j + 4 <= Size => Body[4 * j + 4] = Line!Newline
  BY <1>1, <1>2, <1>4
<1> QED BY <1>1, <1>5, <1>6

LEMMA SliceIs ==
  ASSUME ScriptTyped, NEW e \in Nat, NEW m \in Nat, e + m <= Size
  PROVE  /\ Slice(e, m) \in Seq(Pieces) /\ Len(Slice(e, m)) = m
         /\ \A i \in 1 .. m : Slice(e, m)[i] = Body[e + i]
<1> DEFINE V == Pieces
<1>1. \A i \in 1 .. m : e + i \in 1 .. Size
  BY BodyIs
<1>2. \A i \in 1 .. m : Body[e + i] \in V
  BY <1>1, BodyIs, ElementOfSeq
<1> HIDE DEF V
<1>3. Slice(e, m) \in Seq(V) /\ Len(Slice(e, m)) = m
  BY <1>2 DEF Slice
<1> QED BY <1>3 DEF V, Slice

(* What is buffered and what is read.                                      *)
Joined(s, c, n) == s \o SubSeq(c, 1, n)

LEMMA SlicesJoin ==
  ASSUME ScriptTyped, NEW e \in Nat, NEW m \in Nat, NEW k \in Nat, NEW n \in 1 .. k,
         NEW f, f = e + m, f + k <= Size, NEW l, l = m + n
  PROVE  Joined(Slice(e, m), Slice(f, k), n) = Slice(e, l)
<1> DEFINE V == Pieces
<1> DEFINE s == Slice(e, m)
<1> DEFINE c == Slice(f, k)
<1> DEFINE p == SubSeq(c, 1, n)
<1>1. Size \in Nat /\ e \in Nat /\ m \in Nat /\ k \in Nat /\ n \in 1 .. k /\ f + k <= Size /\ f \in Nat
  BY BodyIs
<1>2. ASSUME NEW a \in Nat, NEW b \in Nat, a + b <= Size
      PROVE  /\ Slice(a, b) \in Seq(V) /\ Len(Slice(a, b)) = b
             /\ \A i \in 1 .. b : Slice(a, b)[i] = Body[a + i]
  BY <1>2, SliceIs
<1> HIDE DEF V
<1>3. s \in Seq(V) /\ Len(s) = m /\ \A i \in 1 .. m : s[i] = Body[e + i]
  <2>1. e + m <= Size
    BY <1>1
  <2> QED BY <1>2, <2>1
<1>4. c \in Seq(V) /\ Len(c) = k /\ \A i \in 1 .. k : c[i] = Body[f + i]
  <2> QED BY <1>1, <1>2
<1>5. f = e + m
  OBVIOUS
<1> HIDE DEF c, s
<1>6. p \in Seq(V) /\ Len(p) = n /\ \A i \in 1 .. n : p[i] = Body[f + i]
  <2>1. \A i \in 1 .. n : c[i] \in V
    BY <1>4, ElementOfSeq
  <2>2. /\ p \in Seq(V) /\ Len(p) = IF 1 <= n THEN n - 1 + 1 ELSE 0
        /\ \A i \in 1 .. n - 1 + 1 : p[i] = c[1 + i - 1]
    BY <2>1, SubSeqProperties
  <2> HIDE DEF p
  <2> QED BY <1>4, <2>2
<1> HIDE DEF p
<1>7. s \o p = Slice(e, m + n)
  <2> DEFINE j == s \o p
  <2> DEFINE w == Slice(e, m + n)
  <2>1. /\ j \in Seq(V) /\ Len(j) = m + n
        /\ \A i \in 1 .. m + n : j[i] = IF i <= m THEN s[i] ELSE p[i - m]
    <3>1. s \in Seq(V) /\ p \in Seq(V) /\ Len(s) = m /\ Len(p) = n
      BY <1>3, <1>6
    <3>2. /\ j \in Seq(V) /\ Len(j) = Len(s) + Len(p)
          /\ \A i \in 1 .. Len(s) + Len(p) : j[i] = IF i <= Len(s) THEN s[i] ELSE p[i - Len(s)]
      BY <3>1, ConcatProperties
    <3> QED BY <3>1, <3>2
  <2>2. /\ w \in Seq(V) /\ Len(w) = m + n /\ \A i \in 1 .. m + n : w[i] = Body[e + i]
    <3>1. m + n \in Nat /\ e + (m + n) <= Size
      BY <1>1, <1>5
    <3> QED BY <1>2, <3>1
  <2> HIDE DEF j, w
  <2>3. ASSUME NEW i \in 1 .. m + n PROVE j[i] = w[i]
    <3>1. CASE i <= m
      <4>1. i \in 1 .. m
        BY <3>1
      <4> QED BY <1>3, <2>1, <2>2, <3>1, <4>1
    <3>2. CASE ~(i <= m)
      <4>1. i - m \in 1 .. n /\ f + (i - m) = e + i
        BY <1>1, <1>5, <3>2
      <4>2. p[i - m] = Body[e + i]
        BY <1>6, <4>1
      <4>3. j[i] = p[i - m]
        BY <2>1, <3>2
      <4> QED BY <2>2, <4>2, <4>3
    <3> QED BY <3>1, <3>2
  <2>4. j = w
    BY <2>1, <2>2, <2>3, SeqEqual
  <2> QED BY <2>4 DEF j, w
<1> QED BY <1>7 DEF s, p, c, Joined

LEMMA SliceIsCut ==
  ASSUME ScriptTyped, NEW f \in Nat, NEW k \in Nat, f + k <= Size, NEW a \in 1 .. k + 1
  PROVE  SubSeq(Slice(f, k), a, k) = Slice(f + a - 1, k - a + 1)
<1> DEFINE V == Pieces
<1> DEFINE c == Slice(f, k)
<1> DEFINE q == SubSeq(c, a, k)
<1> DEFINE g == f + a - 1
<1> DEFINE l == k - a + 1
<1> DEFINE w == Slice(g, l)
<1>1. g \in Nat /\ l \in Nat /\ g + l <= Size /\ Size \in Nat
  BY BodyIs
<1> HIDE DEF V
<1>2. c \in Seq(V) /\ Len(c) = k /\ \A i \in 1 .. k : c[i] = Body[f + i]
  BY SliceIs DEF V
<1>3. w \in Seq(V) /\ Len(w) = l /\ \A i \in 1 .. l : w[i] = Body[g + i]
  <2> HIDE DEF g, l
  <2> QED BY <1>1, SliceIs DEF V
<1> HIDE DEF c, w
<1>4. /\ q \in Seq(V) /\ Len(q) = IF a <= k THEN k - a + 1 ELSE 0
      /\ \A i \in 1 .. k - a + 1 : q[i] = c[a + i - 1]
  <2>1. \A i \in a .. k : c[i] \in V
    BY <1>2, ElementOfSeq
  <2> QED BY <2>1, SubSeqProperties
<1> HIDE DEF q
<1>5. Len(q) = l
  BY <1>4
<1>6. ASSUME NEW i \in 1 .. l PROVE q[i] = w[i]
  <2>1. a + i - 1 \in 1 .. k /\ f + (a + i - 1) = g + i
    OBVIOUS
  <2>2. q[i] = c[a + i - 1]
    BY <1>4
  <2>3. c[a + i - 1] = Body[g + i]
    BY <1>2, <2>1
  <2> QED BY <1>3, <2>2, <2>3
<1>7. q = w
  <2> HIDE DEF l
  <2> QED BY <1>3, <1>4, <1>5, <1>6, SeqEqual
<1> QED BY <1>7 DEF q, c, w

(* A number by fours.                                                      *)
LEMMA ByFours ==
  ASSUME NEW i \in Nat
  PROVE  \E j \in Nat : \E r \in 0 .. 3 : i = 4 * j + r
<1>1. i \div 4 \in Nat /\ i % 4 \in 0 .. 3 /\ i = 4 * (i \div 4) + (i % 4)
  OBVIOUS
<1> QED BY <1>1

(* A slice that begins with an event consists of events: its separators    *)
(* are where one would cut it by fours.                                    *)
LEMMA SeparatorsAre ==
  ASSUME ScriptTyped, NEW c \in Nat, NEW m \in Nat, 4 * c + m <= Size, NEW t, t = Piece(c, m)
  PROVE  /\ t \in Seq(Pieces) /\ Len(t) = m
         /\ \A i : i \in Line!Separators(t) <=> \E j \in Nat : i = 4 * j + 3 /\ i + 1 <= m
         /\ Line!Events(t) = Line!Separators(t)
         /\ \A j \in Nat : 4 * j + 4 <= m => t[4 * j + 2][1] = c + j + 1
<1> DEFINE head(j) == <<c + j + 1, "head">>
<1> DEFINE tail(j) == <<c + j + 1, "tail">>
<1> DEFINE newline == Line!Newline
<1>1. t \in Seq(Pieces) /\ Len(t) = m /\ Size \in Nat /\ \A i \in 1 .. m : t[i] = Body[4 * c + i]
  <2> DEFINE e == 4 * c
  <2>1. e \in Nat /\ e + m <= Size /\ t = Slice(e, m)
    BY DEF Piece
  <2> HIDE DEF e
  <2>2. /\ Slice(e, m) \in Seq(Pieces) /\ Len(Slice(e, m)) = m
        /\ \A i \in 1 .. m : Slice(e, m)[i] = Body[e + i]
    BY <2>1, SliceIs
  <2> QED BY <2>1, <2>2, BodyIs DEF e
<1>2. ASSUME NEW j \in Nat
      PROVE  /\ 4 * j + 1 <= m => t[4 * j + 1] = head(j)
             /\ 4 * j + 2 <= m => t[4 * j + 2] = tail(j)
             /\ 4 * j + 3 <= m => t[4 * j + 3] = newline
             /\ 4 * j + 4 <= m => t[4 * j + 4] = newline
  <2> DEFINE k == c + j
  <2>1. k \in Nat /\ 4 * c + (4 * j + 1) = 4 * k + 1 /\ 4 * c + (4 * j + 2) = 4 * k + 2
        /\ 4 * c + (4 * j + 3) = 4 * k + 3 /\ 4 * c + (4 * j + 4) = 4 * k + 4
    OBVIOUS
  <2>2. /\ 4 * k + 1 <= Size => Body[4 * k + 1] = <<k + 1, "head">>
        /\ 4 * k + 2 <= Size => Body[4 * k + 2] = <<k + 1, "tail">>
        /\ 4 * k + 3 <= Size => Body[4 * k + 3] = Line!Newline
        /\ 4 * k + 4 <= Size => Body[4 * k + 4] = Line!Newline
    <3> HIDE DEF k
    <3> QED BY <2>1, BodyIs
  <2>3. head(j) = <<k + 1, "head">> /\ tail(j) = <<k + 1, "tail">>
    OBVIOUS
  <2> HIDE DEF head, tail, newline, k
  <2>4. ASSUME 4 * j + 1 <= m PROVE t[4 * j + 1] = head(j)
    <3>1. 4 * j + 1 \in 1 .. m /\ 4 * k + 1 <= Size
      BY <1>1, <2>1, <2>4
    <3>2. t[4 * j + 1] = Body[4 * c + (4 * j + 1)]
      BY <1>1, <3>1
    <3>3. t[4 * j + 1] = Body[4 * k + 1]
      BY <2>1, <3>2
    <3> QED BY <2>2, <2>3, <3>1, <3>3 DEF newline
  <2>5. ASSUME 4 * j + 2 <= m PROVE t[4 * j + 2] = tail(j)
    <3>1. 4 * j + 2 \in 1 .. m /\ 4 * k + 2 <= Size
      BY <1>1, <2>1, <2>5
    <3>2. t[4 * j + 2] = Body[4 * c + (4 * j + 2)]
      BY <1>1, <3>1
    <3>3. t[4 * j + 2] = Body[4 * k + 2]
      BY <2>1, <3>2
    <3> QED BY <2>2, <2>3, <3>1, <3>3 DEF newline
  <2>6. ASSUME 4 * j + 3 <= m PROVE t[4 * j + 3] = newline
    <3>1. 4 * j + 3 \in 1 .. m /\ 4 * k + 3 <= Size
      BY <1>1, <2>1, <2>6
    <3>2. t[4 * j + 3] = Body[4 * c + (4 * j + 3)]
      BY <1>1, <3>1
    <3>3. t[4 * j + 3] = Body[4 * k + 3]
      BY <2>1, <3>2
    <3> QED BY <2>2, <2>3, <3>1, <3>3 DEF newline
  <2>7. ASSUME 4 * j + 4 <= m PROVE t[4 * j + 4] = newline
    <3>1. 4 * j + 4 \in 1 .. m /\ 4 * k + 4 <= Size
      BY <1>1, <2>1, <2>7
    <3>2. t[4 * j + 4] = Body[4 * c + (4 * j + 4)]
      BY <1>1, <3>1
    <3>3. t[4 * j + 4] = Body[4 * k + 4]
      BY <2>1, <3>2
    <3> QED BY <2>2, <2>3, <3>1, <3>3 DEF newline
  <2> QED BY <2>4, <2>5, <2>6, <2>7
<1>3. /\ \A j : head(j)[1] = c + j + 1 /\ head(j)[2] = "head" /\ head(j) # newline
      /\ \A j : tail(j)[1] = c + j + 1 /\ tail(j) = <<head(j)[1], "tail">> /\ tail(j) # newline
  BY DEF Line!Newline
<1> HIDE DEF head, tail, newline
<1>4. \A i : i \in Line!Separators(t) <=> i \in 1 .. m - 1 /\ t[i] = newline /\ t[i + 1] = newline
  BY <1>1 DEF Line!Separators, newline
<1>5. ASSUME NEW i \in Line!Separators(t) PROVE \E j \in Nat : i = 4 * j + 3 /\ i + 1 <= m
  <2>1. i \in Nat /\ i + 1 <= m /\ t[i] = newline /\ t[i + 1] = newline /\ i >= 1
    BY <1>4
  <2>2. PICK j \in Nat, r \in 0 .. 3 : i = 4 * j + r
    BY <2>1, ByFours
  <2>3. CASE r = 0
    <3>1. i + 1 = 4 * j + 1 /\ 4 * j + 1 <= m
      BY <2>1, <2>2, <2>3
    <3>2. t[4 * j + 1] = head(j)
      BY <1>2, <3>1
    <3> QED BY <1>3, <2>1, <3>1, <3>2
  <2>4. CASE r = 1
    <3>1. i = 4 * j + 1 /\ 4 * j + 1 <= m
      BY <2>1, <2>2, <2>4
    <3>2. t[4 * j + 1] = head(j)
      BY <1>2, <3>1
    <3> QED BY <1>3, <2>1, <3>1, <3>2
  <2>5. CASE r = 2
    <3>1. i = 4 * j + 2 /\ 4 * j + 2 <= m
      BY <2>1, <2>2, <2>5
    <3>2. t[4 * j + 2] = tail(j)
      BY <1>2, <3>1
    <3> QED BY <1>3, <2>1, <3>1, <3>2
  <2>6. CASE r = 3
    BY <2>1, <2>2, <2>6
  <2> QED BY <2>3, <2>4, <2>5, <2>6
<1>6. ASSUME NEW j \in Nat, NEW i, i = 4 * j + 3, i + 1 <= m
      PROVE  i \in Line!Separators(t) /\ i \in Line!Events(t)
  <2>1. 4 * j + 1 <= m /\ 4 * j + 2 <= m /\ 4 * j + 3 <= m /\ 4 * j + 4 <= m /\ i + 1 = 4 * j + 4
        /\ i - 2 = 4 * j + 1 /\ i - 1 = 4 * j + 2 /\ i >= 3 /\ i \in 1 .. m - 1
    BY <1>6
  <2>2. t[i - 2] = head(j) /\ t[i - 1] = tail(j) /\ t[i] = newline /\ t[i + 1] = newline
    BY <1>2, <1>6, <2>1
  <2>3. i \in Line!Separators(t)
    BY <1>4, <2>1, <2>2
  <2> QED BY <1>3, <2>1, <2>2, <2>3 DEF Line!Events
<1>7. Line!Events(t) = Line!Separators(t)
  <2>1. Line!Events(t) \subseteq Line!Separators(t)
    BY DEF Line!Events
  <2> QED BY <1>5, <1>6, <2>1
<1>8. \A j \in Nat : 4 * j + 4 <= m => t[4 * j + 2][1] = c + j + 1
  <2>1. ASSUME NEW j \in Nat, 4 * j + 4 <= m PROVE t[4 * j + 2][1] = c + j + 1
    <3>1. 4 * j + 2 <= m
      BY <2>1
    <3>2. t[4 * j + 2] = tail(j)
      BY <1>2, <3>1
    <3> QED BY <1>3, <3>2
  <2> QED BY <2>1
<1> QED BY <1>1, <1>5, <1>6, <1>7, <1>8

(* Hearing is what its recursion says.                                     *)
LEMMA HearingIs ==
  ASSUME NEW h, NEW t, Len(t) \in Nat, NEW after, after = Line!Hearing(h, t)
  PROVE  /\ after[0] = h
         /\ \A i \in 1 .. Len(t) :
              after[i] = IF i \in Line!Events(t) THEN Line!Hear(after[i - 1], setup.script[t[i - 1][1]])
                                                 ELSE after[i - 1]
<1> DEFINE Move(v, i) == IF i \in Line!Events(t) THEN Line!Hear(v, setup.script[t[i - 1][1]]) ELSE v
<1> DEFINE Goes(g, n) == g = [i \in 0 .. n |-> IF i = 0 THEN h ELSE Move(g[i - 1], i)]
<1> HIDE DEF Move
<1>1. \A n \in Nat : \E g : Goes(g, n)
  <2> DEFINE Stuck == {n \in Nat : ~ \E g : Goes(g, n)}
  <2>1. SUFFICES ASSUME Stuck # {} PROVE FALSE
    OBVIOUS
  <2>2. PICK n \in Stuck : \A k \in Stuck : n <= k
    <3>1. Stuck \in SUBSET Nat
      OBVIOUS
    <3> HIDE DEF Stuck
    <3> QED BY <2>1, <3>1, LeastNumber
  <2>3. CASE n = 0
    <3>1. Goes([i \in 0 .. 0 |-> h], 0)
      OBVIOUS
    <3> QED BY <2>2, <2>3, <3>1
  <2>4. CASE n # 0
    <3>1. n - 1 \in Nat /\ n - 1 \notin Stuck
      <4>1. Stuck \in SUBSET Nat
        OBVIOUS
      <4> HIDE DEF Stuck
      <4>2. n \in Nat
        BY <2>2, <4>1
      <4>3. n - 1 \in Nat /\ ~(n <= n - 1)
        BY <2>4, <4>2
      <4> QED BY <2>2, <4>3
    <3>2. PICK g : Goes(g, n - 1)
      BY <3>1
    <3> DEFINE f == [i \in 0 .. n |-> IF i = n THEN Move(g[n - 1], n) ELSE g[i]]
    <3>3. ASSUME NEW i \in 0 .. n PROVE f[i] = IF i = 0 THEN h ELSE Move(f[i - 1], i)
      <4>1. CASE i = 0
        BY <2>2, <2>4, <3>1, <3>2, <4>1
      <4>2. CASE i = n
        <5>1. f[n] = Move(g[n - 1], n) /\ f[n - 1] = g[n - 1]
          BY <2>2, <2>4, <3>1
        <5> QED BY <2>4, <4>2, <5>1
      <4>3. CASE i # 0 /\ i # n
        <5>1. i \in 0 .. n - 1 /\ i - 1 \in 0 .. n - 1
          BY <2>2, <4>3
        <5>2. g[i] = Move(g[i - 1], i)
          BY <3>2, <4>3, <5>1
        <5>3. f[i] = g[i] /\ f[i - 1] = g[i - 1]
          BY <2>2, <4>3, <5>1
        <5> QED BY <4>3, <5>2, <5>3
      <4> QED BY <4>1, <4>2, <4>3
    <3>4. Goes(f, n)
      <4>1. f = [i \in 0 .. n |-> f[i]]
        OBVIOUS
      <4> HIDE DEF f
      <4> QED BY <3>3, <4>1
    <3> QED BY <2>2, <3>4
  <2> QED BY <2>3, <2>4
<1>2. Goes(after, Len(t))
  <2>1. PICK g : Goes(g, Len(t))
    BY <1>1
  <2>2. after = CHOOSE a : Goes(a, Len(t))
    BY DEF Line!Hearing, Move
  <2> HIDE DEF Goes
  <2> QED BY <2>1, <2>2
<1>3. ASSUME NEW i \in 1 .. Len(t) PROVE after[i] = Move(after[i - 1], i)
  BY <1>2
<1>4. after[0] = h
  BY <1>2
<1> QED BY <1>3, <1>4 DEF Move

(* m units make j events and r units more.                                 *)
Cut(m, j, r) == j \in Nat /\ r \in 0 .. 3 /\ m = 4 * j + r

(* What is left of a slice after its last separator.                       *)
LEMMA UnfinishedIs ==
  ASSUME ScriptTyped, NEW c \in Nat, NEW m \in Nat, 4 * c + m <= Size, NEW t, t = Piece(c, m),
         NEW j, NEW r, Cut(m, j, r)
  PROVE  Line!Unfinished(t) = Piece(c + j, r)
<1> USE DEF Cut
<1>1. /\ Len(t) = m
      /\ \A i : i \in Line!Separators(t) <=> \E k \in Nat : i = 4 * k + 3 /\ i + 1 <= m
  BY SeparatorsAre
<1>2. CASE j = 0
  <2>1. Line!Separators(t) = {}
    BY <1>1, <1>2
  <2>2. c + j = c /\ m = r
    BY <1>2
  <2> QED BY <2>1, <2>2 DEF Line!Unfinished
<1>3. CASE j # 0
  <2> DEFINE last == 4 * j - 1
  <2>1. last \in Line!Separators(t)
    <3>1. j - 1 \in Nat /\ last = 4 * (j - 1) + 3 /\ last + 1 <= m
      BY <1>3
    <3> QED BY <1>1, <3>1
  <2>2. \A i \in Line!Separators(t) : i \in Nat /\ i <= last
    <3>1. ASSUME NEW i \in Line!Separators(t) PROVE i \in Nat /\ i <= last
      <4>1. PICK k \in Nat : i = 4 * k + 3 /\ i + 1 <= m
        BY <1>1
      <4> QED BY <4>1
    <3> QED BY <3>1
  <2> DEFINE found == CHOOSE i \in Line!Separators(t) : \A k \in Line!Separators(t) : k <= i
  <2>3. found = last
    <3> HIDE DEF last
    <3>1. found \in Line!Separators(t) /\ \A k \in Line!Separators(t) : k <= found
      BY <2>1, <2>2
    <3> HIDE DEF found
    <3>2. found <= last /\ last <= found /\ found \in Nat /\ last \in Nat
      BY <2>1, <2>2, <3>1
    <3> QED BY <3>2
  <2>4. Line!Unfinished(t) = SubSeq(t, 2 + found, Len(t))
    BY <2>1 DEF Line!Unfinished
  <2> HIDE DEF found
  <2>5. Line!Unfinished(t) = SubSeq(t, 4 * j + 1, m)
    <3>1. 2 + found = 4 * j + 1
      BY <2>3
    <3> QED BY <1>1, <2>4, <3>1
  <2> DEFINE e == 4 * c
  <2> DEFINE a == 4 * j + 1
  <2> DEFINE g == 4 * (c + j)
  <2>6. /\ e \in Nat /\ a \in 1 .. m + 1 /\ e + m <= Size /\ r = m - a + 1
        /\ g \in Nat /\ g = e + a - 1
    OBVIOUS
  <2>7. t = Slice(e, m) /\ Line!Unfinished(t) = SubSeq(t, a, m)
    BY <2>5 DEF Piece
  <2> HIDE DEF e, a, g
  <2>8. SubSeq(Slice(e, m), a, m) = Slice(e + a - 1, m - a + 1)
    BY <2>6, SliceIsCut
  <2> QED BY <2>6, <2>7, <2>8 DEF Piece, g
<1> QED BY <1>2, <1>3

-----------------------------------------------------------------------------
(* What the adapter has heard.                                             *)

Said == {"text", "stop", "length", "tool_calls"}

Published == {Line!UpstreamUsage(kind) : kind \in {"full", "zero", "total", "prompt", "none"}}

(* The deltas among chunks.                                                *)
Texts(chunks) == Cardinality({i \in DOMAIN chunks : chunks[i] = "text"})

Locals(h) ==
  /\ h \in [text : {h.text}, reported : {h.reported}, chunks : {h.chunks}, meter : {h.meter}]
  /\ h.text \in Nat /\ h.reported \in Published /\ h.chunks \in Seq(Said)

(* h and g count alike.                                                    *)
Alike(h, g) == h.text = g.text /\ h.reported = g.reported /\ h.meter = g.meter

LEMMA TextsAre ==
  ASSUME NEW S, NEW q \in Seq(S)
  PROVE  /\ Texts(q) \in Nat
         /\ \A w \in S : Texts(Append(q, w)) = Texts(q) + (IF w = "text" THEN 1 ELSE 0)
         /\ q # <<>> => Texts(q) = Texts(Tail(q)) + (IF Head(q) = "text" THEN 1 ELSE 0)
<1> DEFINE At(s) == {i \in DOMAIN s : s[i] = "text"}
<1>1. ASSUME NEW s \in Seq(S) PROVE At(s) \subseteq 1 .. Len(s) /\ IsFiniteSet(At(s)) /\ Texts(s) \in Nat
  <2>1. At(s) \subseteq 1 .. Len(s) /\ Len(s) \in Nat
    BY LenProperties
  <2>2. IsFiniteSet(1 .. Len(s))
    BY <2>1, FS_Interval
  <2>3. IsFiniteSet(At(s))
    BY <2>1, <2>2, FS_Subset
  <2>4. Cardinality(At(s)) \in Nat
    BY <2>3, FS_CardinalityType
  <2> QED BY <2>1, <2>3, <2>4 DEF Texts
<1>2. ASSUME NEW w \in S PROVE Texts(Append(q, w)) = Texts(q) + (IF w = "text" THEN 1 ELSE 0)
  <2> DEFINE a == Append(q, w)
  <2> DEFINE n == Len(q) + 1
  <2>1. a \in Seq(S) /\ Len(a) = n /\ a[n] = w /\ \A i \in 1 .. Len(q) : a[i] = q[i]
    BY AppendProperties
  <2>2. Len(q) \in Nat /\ DOMAIN q = 1 .. Len(q) /\ DOMAIN a = 1 .. n
    BY <2>1, LenProperties
  <2> HIDE DEF a
  <2>3. At(a) = IF w = "text" THEN At(q) \union {n} ELSE At(q)
    BY <2>1, <2>2
  <2>4. n \notin At(q)
    BY <2>2
  <2>5. Cardinality(At(q) \union {n}) = Cardinality(At(q)) + 1
    BY <1>1, <2>4, FS_AddElement
  <2>6. Texts(a) = Cardinality(At(a)) /\ Texts(q) = Cardinality(At(q)) /\ Texts(q) \in Nat
    BY <1>1 DEF Texts
  <2> HIDE DEF At
  <2> QED BY <2>3, <2>5, <2>6 DEF a
<1>3. ASSUME q # <<>> PROVE Texts(q) = Texts(Tail(q)) + (IF Head(q) = "text" THEN 1 ELSE 0)
  <2> DEFINE b == Tail(q)
  <2>1. /\ b \in Seq(S) /\ Len(b) = Len(q) - 1 /\ \A i \in 1 .. Len(b) : b[i] = q[i + 1]
        /\ Head(q) = q[1]
    BY <1>3, HeadTailProperties
  <2>2. Len(q) \in Nat \ {0} /\ DOMAIN q = 1 .. Len(q) /\ DOMAIN b = 1 .. Len(q) - 1
    BY <1>3, <2>1, LenProperties, EmptySeq
  <2> HIDE DEF b
  <2> DEFINE later == {i \in At(q) : i # 1}
  <2> DEFINE f == [i \in At(b) |-> i + 1]
  <2>3. f \in Bijection(At(b), later)
    <3>1. \A i \in At(b) : i \in 1 .. Len(q) - 1 /\ q[i + 1] = "text"
      BY <2>1, <2>2
    <3>2. \A i \in At(b) : f[i] \in later
      BY <2>2, <3>1
    <3>3. \A i, k \in At(b) : f[i] = f[k] => i = k
      BY <3>1
    <3>4. ASSUME NEW k \in later PROVE \E i \in At(b) : f[i] = k
      <4>1. k \in 1 .. Len(q) /\ k # 1 /\ q[k] = "text"
        BY <2>2
      <4>2. k - 1 \in 1 .. Len(q) - 1 /\ k - 1 + 1 = k
        BY <2>2, <4>1
      <4>3. b[k - 1] = "text"
        BY <2>1, <4>1, <4>2
      <4>4. k - 1 \in At(b)
        BY <2>2, <4>2, <4>3
      <4>5. f[k - 1] = k
        BY <4>2, <4>4
      <4> QED BY <4>4, <4>5
    <3>5. f \in [At(b) -> later]
      BY <3>2
    <3> HIDE DEF f, later, At
    <3> QED BY <3>3, <3>4, <3>5, Fun_IsBij
  <2>4. Cardinality(later) = Cardinality(At(b)) /\ IsFiniteSet(later)
    <3>1. ExistsBijection(At(b), later)
      BY <2>3 DEF ExistsBijection
    <3> QED BY <1>1, <2>1, <3>1, FS_Bijection
  <2>5. At(q) = IF Head(q) = "text" THEN later \union {1} ELSE later
    BY <2>1, <2>2
  <2>6. 1 \notin later
    OBVIOUS
  <2> DEFINE one == 1
  <2>7. one \notin later /\ At(q) = IF Head(q) = "text" THEN later \union {one} ELSE later
    BY <2>5, <2>6
  <2> HIDE DEF one
  <2>8. Cardinality(later \union {one}) = Cardinality(later) + 1
    BY <2>4, <2>7, FS_AddElement
  <2>9. /\ Texts(q) = Cardinality(At(q)) /\ Texts(b) = Cardinality(At(b)) /\ Texts(b) \in Nat
    BY <1>1, <2>1 DEF Texts
  <2> HIDE DEF At, later
  <2> QED BY <2>4, <2>7, <2>8, <2>9 DEF b
<1>4. Texts(q) \in Nat
  BY <1>1
<1> QED BY <1>2, <1>3, <1>4

(* The words of an event, and what it does to each local.                  *)
Blocks == {"full", "zero", "total", "prompt"}
Stops == {"stop", "length", "tool_calls"}
Finals == {"stop", "length", "zero"}

Metered(meter, kind) ==
  IF kind = "start" THEN [seen |-> TRUE, input |-> 8, output |-> 1]
  ELSE IF kind \in Finals THEN [seen |-> TRUE, input |-> meter.input,
                                output |-> IF kind = "zero" THEN 0 ELSE 9]
  ELSE meter

Shape(h) == h \in [text : {h.text}, reported : {h.reported}, chunks : {h.chunks}, meter : {h.meter}]

LEMMA YieldIs ==
  ASSUME NEW h, Shape(h), NEW w, NEW r, r = Line!Yield(h, w)
  PROVE  /\ Shape(r) /\ r.text = h.text /\ r.reported = h.reported /\ r.meter = h.meter
         /\ r.chunks = Append(h.chunks, w)
<1>1. r = [h EXCEPT !.chunks = Append(h.chunks, w)]
  BY DEF Line!Yield, Shape
<1> DEFINE a == Append(h.chunks, w)
<1> HIDE DEF a
<1>2. r = [h EXCEPT !.chunks = a]
  BY <1>1 DEF a
<1> QED BY <1>2 DEF Shape, a

LEMMA OpenAiHears ==
  ASSUME NEW h, Shape(h), NEW k, NEW r, r = Line!HearOpenAi(h, k)
  PROVE  /\ Shape(r) /\ r.meter = h.meter
         /\ r.text = IF k = "text" THEN h.text + 1 ELSE h.text
         /\ r.reported = IF k \in Blocks THEN Line!UpstreamUsage(k) ELSE h.reported
         /\ r.chunks = IF k = "text" THEN Append(h.chunks, "text")
                       ELSE IF k \in Stops THEN Append(h.chunks, k) ELSE h.chunks
<1>1. CASE k = "text"
  <2> DEFINE p == [h EXCEPT !.text = h.text + 1]
  <2>1. r = Line!Yield(p, "text")
    BY <1>1 DEF Line!HearOpenAi, Shape
  <2>2. /\ Shape(p) /\ p.text = h.text + 1 /\ p.reported = h.reported /\ p.meter = h.meter
        /\ p.chunks = h.chunks
    BY DEF Shape
  <2> HIDE DEF p
  <2>3. /\ Shape(r) /\ r.text = p.text /\ r.reported = p.reported /\ r.meter = p.meter
        /\ r.chunks = Append(p.chunks, "text")
    BY <2>1, <2>2, YieldIs
  <2> QED BY <1>1, <2>2, <2>3 DEF Blocks, Stops
<1>2. CASE k \in Stops
  <2>1. r = Line!Yield(h, k)
    BY <1>2 DEF Line!HearOpenAi, Stops
  <2>2. /\ Shape(r) /\ r.text = h.text /\ r.reported = h.reported /\ r.meter = h.meter
        /\ r.chunks = Append(h.chunks, k)
    BY <2>1, YieldIs
  <2> QED BY <1>2, <2>2 DEF Blocks, Stops
<1>3. CASE k \in Blocks
  <2> DEFINE u == Line!UpstreamUsage(k)
  <2>1. r = [h EXCEPT !.reported = u]
    BY <1>3 DEF Line!HearOpenAi, Blocks
  <2> HIDE DEF u
  <2>2. /\ Shape(r) /\ r.text = h.text /\ r.reported = u /\ r.meter = h.meter /\ r.chunks = h.chunks
    BY <2>1 DEF Shape
  <2> QED BY <1>3, <2>2 DEF Blocks, Stops, u
<1>4. CASE k # "text" /\ k \notin Stops /\ k \notin Blocks
  <2>1. r = h
    BY <1>4 DEF Line!HearOpenAi, Blocks, Stops
  <2> QED BY <1>4, <2>1
<1> QED BY <1>1, <1>2, <1>3, <1>4

LEMMA AnthropicHears ==
  ASSUME NEW h, Shape(h), NEW k, NEW r, r = Line!HearAnthropic(h, k)
  PROVE  /\ Shape(r) /\ r.reported = h.reported
         /\ r.meter = Metered(h.meter, k)
         /\ r.text = IF k = "text" THEN h.text + 1 ELSE h.text
         /\ r.chunks = IF k = "text" THEN Append(h.chunks, "text")
                       ELSE IF k = "length" THEN Append(h.chunks, "length")
                       ELSE IF k \in {"stop", "zero"} THEN Append(h.chunks, "stop") ELSE h.chunks
<1>1. CASE k = "text"
  <2> DEFINE p == [h EXCEPT !.text = h.text + 1]
  <2>1. r = Line!Yield(p, "text")
    BY <1>1 DEF Line!HearAnthropic, Shape
  <2>2. /\ Shape(p) /\ p.text = h.text + 1 /\ p.reported = h.reported /\ p.meter = h.meter
        /\ p.chunks = h.chunks
    BY DEF Shape
  <2> HIDE DEF p
  <2>3. /\ Shape(r) /\ r.text = p.text /\ r.reported = p.reported /\ r.meter = p.meter
        /\ r.chunks = Append(p.chunks, "text")
    BY <2>1, <2>2, YieldIs
  <2>4. Metered(h.meter, k) = h.meter
    BY <1>1 DEF Metered, Finals
  <2> QED BY <1>1, <2>2, <2>3, <2>4
<1>2. CASE k \in Finals
  <2> DEFINE u == Metered(h.meter, k)
  <2> DEFINE p == [h EXCEPT !.meter = u]
  <2> DEFINE w == IF k = "length" THEN "length" ELSE "stop"
  <2>1. r = Line!Yield(p, w)
    <3>1. u = [seen |-> TRUE, input |-> h.meter.input, output |-> IF k = "zero" THEN 0 ELSE 9]
      BY <1>2 DEF Metered, Finals
    <3> HIDE DEF u
    <3> QED BY <1>2, <3>1 DEF Line!HearAnthropic, Finals
  <2> HIDE DEF u
  <2>2. /\ Shape(p) /\ p.text = h.text /\ p.reported = h.reported /\ p.meter = u
        /\ p.chunks = h.chunks
    BY DEF Shape
  <2> HIDE DEF p
  <2>3. /\ Shape(r) /\ r.text = p.text /\ r.reported = p.reported /\ r.meter = p.meter
        /\ r.chunks = Append(p.chunks, w)
    BY <2>1, <2>2, YieldIs
  <2> QED BY <1>2, <2>2, <2>3 DEF u, Finals
<1>3. CASE k = "start"
  <2> DEFINE u == Metered(h.meter, k)
  <2>1. r = [h EXCEPT !.meter = u]
    BY <1>3 DEF Line!HearAnthropic, Metered
  <2> HIDE DEF u
  <2>2. /\ Shape(r) /\ r.text = h.text /\ r.reported = h.reported /\ r.meter = u /\ r.chunks = h.chunks
    BY <2>1 DEF Shape
  <2> QED BY <1>3, <2>2 DEF u
<1>4. CASE k # "text" /\ k \notin Finals /\ k # "start"
  <2>1. r = h
    BY <1>4 DEF Line!HearAnthropic, Finals
  <2>2. Metered(h.meter, k) = h.meter
    BY <1>4 DEF Metered
  <2> QED BY <1>4, <2>1, <2>2 DEF Finals
<1> QED BY <1>1, <1>2, <1>3, <1>4

(* An event keeps the locals typed, does the same to locals that count     *)
(* alike, and yields a chunk of text for each delta it adds.               *)
LEMMA HearIs ==
  ASSUME NEW h, Locals(h), NEW g, Locals(g), Alike(h, g), NEW k,
         NEW r, r = Line!Hear(h, k), NEW s, s = Line!Hear(g, k)
  PROVE  /\ Locals(r) /\ Alike(r, s)
         /\ r.text - Texts(r.chunks) = h.text - Texts(h.chunks)
<1>1. Shape(h) /\ Shape(g) /\ h.text \in Nat /\ h.reported \in Published /\ h.chunks \in Seq(Said)
  BY DEF Locals, Shape
<1>2. /\ Shape(r) /\ r.text = (IF k = "text" THEN h.text + 1 ELSE h.text)
      /\ r.reported \in {h.reported} \union Published
      /\ \/ k = "text" /\ r.chunks = Append(h.chunks, "text")
         \/ k # "text" /\ r.chunks = h.chunks
         \/ k # "text" /\ \E w \in Stops : r.chunks = Append(h.chunks, w)
      /\ Alike(r, s)
  <2>1. CASE setup.adapter = "openai"
    <3>1. r = Line!HearOpenAi(h, k) /\ s = Line!HearOpenAi(g, k)
      BY <2>1 DEF Line!Hear
    <3>2. k \in Blocks => Line!UpstreamUsage(k) \in Published
      BY DEF Blocks, Published
    <3>3. "text" \notin Stops
      BY DEF Stops
    <3>4. /\ Shape(r) /\ r.meter = h.meter
          /\ r.text = IF k = "text" THEN h.text + 1 ELSE h.text
          /\ r.reported = IF k \in Blocks THEN Line!UpstreamUsage(k) ELSE h.reported
          /\ r.chunks = IF k = "text" THEN Append(h.chunks, "text")
                        ELSE IF k \in Stops THEN Append(h.chunks, k) ELSE h.chunks
      BY <1>1, <3>1, OpenAiHears
    <3>5. /\ s.meter = g.meter
          /\ s.text = IF k = "text" THEN g.text + 1 ELSE g.text
          /\ s.reported = IF k \in Blocks THEN Line!UpstreamUsage(k) ELSE g.reported
      BY <1>1, <3>1, OpenAiHears
    <3> QED BY <3>2, <3>3, <3>4, <3>5 DEF Alike
  <2>2. CASE setup.adapter # "openai"
    <3>1. r = Line!HearAnthropic(h, k) /\ s = Line!HearAnthropic(g, k)
      BY <2>2 DEF Line!Hear
    <3>3. "length" \in Stops /\ "stop" \in Stops
      BY DEF Stops
    <3>4. /\ Shape(r) /\ r.reported = h.reported
          /\ r.meter = Metered(h.meter, k)
          /\ r.text = IF k = "text" THEN h.text + 1 ELSE h.text
          /\ r.chunks = IF k = "text" THEN Append(h.chunks, "text")
                        ELSE IF k = "length" THEN Append(h.chunks, "length")
                        ELSE IF k \in {"stop", "zero"} THEN Append(h.chunks, "stop") ELSE h.chunks
      BY <1>1, <3>1, AnthropicHears
    <3>5. /\ s.reported = g.reported
          /\ s.meter = Metered(g.meter, k)
          /\ s.text = IF k = "text" THEN g.text + 1 ELSE g.text
      BY <1>1, <3>1, AnthropicHears
    <3> QED BY <3>3, <3>4, <3>5 DEF Alike
  <2> QED BY <2>1, <2>2
<1>3. Texts(h.chunks) \in Nat /\ \A w \in Said : Texts(Append(h.chunks, w)) = Texts(h.chunks) + (IF w = "text" THEN 1 ELSE 0)
  <2> DEFINE q == h.chunks
  <2> DEFINE S == Said
  <2>1. q \in Seq(S)
    BY <1>1
  <2> HIDE DEF q, S
  <2>2. Texts(q) \in Nat /\ \A w \in S : Texts(Append(q, w)) = Texts(q) + (IF w = "text" THEN 1 ELSE 0)
    BY <2>1, TextsAre
  <2> QED BY <2>2 DEF q, S
<1>4. "text" \in Said /\ \A w \in Stops : w \in Said /\ w # "text"
  BY DEF Said, Stops
<1>5. \A w \in Said : Append(h.chunks, w) \in Seq(Said)
  BY <1>1, AppendProperties
<1>6. r.text \in Nat /\ r.reported \in Published /\ r.chunks \in Seq(Said)
  <2>1. r.text \in Nat /\ r.reported \in Published
    BY <1>1, <1>2
  <2>2. \/ r.chunks = Append(h.chunks, "text") \/ r.chunks = h.chunks
        \/ \E w \in Stops : r.chunks = Append(h.chunks, w)
    BY <1>2
  <2>3. CASE r.chunks = Append(h.chunks, "text")
    BY <1>4, <1>5, <2>1, <2>3
  <2>4. CASE r.chunks = h.chunks
    BY <1>1, <2>1, <2>4
  <2>5. CASE \E w \in Stops : r.chunks = Append(h.chunks, w)
    <3>1. PICK w \in Stops : r.chunks = Append(h.chunks, w)
      BY <2>5
    <3> QED BY <1>4, <1>5, <2>1, <3>1
  <2> QED BY <2>1, <2>2, <2>3, <2>4, <2>5
<1>7. r.text - Texts(r.chunks) = h.text - Texts(h.chunks)
  <2> DEFINE n == Texts(h.chunks)
  <2>1. n \in Nat /\ h.text \in Nat
    BY <1>1, <1>3
  <2>2. CASE k = "text" /\ r.chunks = Append(h.chunks, "text")
    <3>1. Texts(r.chunks) = n + 1
      BY <1>3, <1>4, <2>2
    <3>2. r.text = h.text + 1
      BY <1>2, <2>2
    <3> HIDE DEF n
    <3> QED BY <2>1, <3>1, <3>2 DEF n
  <2>3. CASE k # "text" /\ r.chunks = h.chunks
    BY <1>2, <2>3
  <2>4. CASE k # "text" /\ \E w \in Stops : r.chunks = Append(h.chunks, w)
    <3>1. PICK w \in Stops : r.chunks = Append(h.chunks, w)
      BY <2>4
    <3>2. w \in Said /\ w # "text"
      BY <1>4
    <3>3. Texts(r.chunks) = n + 0
      BY <1>3, <3>1, <3>2
    <3>4. r.text = h.text
      BY <1>2, <2>4
    <3> HIDE DEF n
    <3> QED BY <2>1, <3>3, <3>4 DEF n
  <2> QED BY <1>2, <2>2, <2>3, <2>4
<1>8. Locals(r)
  BY <1>2, <1>6 DEF Shape, Locals
<1> QED BY <1>2, <1>7, <1>8

(* What has been heard of the body after its first i units, by a reader    *)
(* who has it all at once.                                                 *)
Told == Line!Hearing(Line!Fresh, Body)

LEMMA FreshIs == Locals(Line!Fresh) /\ Line!Fresh.text = 0 /\ Line!Fresh.chunks = <<>>
<1>1. Line!Fresh = [text |-> 0, reported |-> Line!NoUsage, chunks |-> <<>>,
                    meter |-> [seen |-> FALSE, input |-> 0, output |-> 0]]
  BY DEF Line!Fresh
<1>2. Line!NoUsage \in Published
  <2>1. Line!UpstreamUsage("none") = Line!NoUsage
    BY DEF Line!UpstreamUsage
  <2> QED BY <2>1 DEF Published
<1> DEFINE u == Line!NoUsage
<1> DEFINE m == [seen |-> FALSE, input |-> 0, output |-> 0]
<1> DEFINE q == <<>>
<1>3. q \in Seq(Said)
  OBVIOUS
<1> HIDE DEF u, m, q
<1>4. Line!Fresh = [text |-> 0, reported |-> u, chunks |-> q, meter |-> m]
  BY <1>1 DEF u, m, q
<1>5. u \in Published
  BY <1>2 DEF u
<1>6. Locals(Line!Fresh) /\ Line!Fresh.text = 0 /\ Line!Fresh.chunks = q
  BY <1>3, <1>4, <1>5 DEF Locals
<1> QED BY <1>6 DEF q

LEMMA AllAlike == \A h : Alike(h, h)
BY DEF Alike

(* Hearing a piece, event by event.                                        *)
LEMMA PieceIsHeard ==
  ASSUME ScriptTyped, NEW c \in Nat, NEW m \in Nat, 4 * c + m <= Size, NEW t, t = Piece(c, m),
         NEW h, NEW a, a = Line!Hearing(h, t)
  PROVE  /\ a[0] = h
         /\ \A j \in Nat : 4 * j + 4 <= m => a[4 * (j + 1)] = Line!Hear(a[4 * j], setup.script[c + j + 1])
         /\ \A j \in Nat, r \in 0 .. 3 : 4 * j + r <= m /\ (r = 3 => 4 * j + 3 = m) => a[4 * j + r] = a[4 * j]
<1>1. /\ Len(t) = m
      /\ \A i : i \in Line!Separators(t) <=> \E j \in Nat : i = 4 * j + 3 /\ i + 1 <= m
      /\ Line!Events(t) = Line!Separators(t)
      /\ \A j \in Nat : 4 * j + 4 <= m => t[4 * j + 2][1] = c + j + 1
  BY SeparatorsAre
<1>2. /\ a[0] = h
      /\ \A i \in 1 .. m :
           a[i] = IF i \in Line!Events(t) THEN Line!Hear(a[i - 1], setup.script[t[i - 1][1]]) ELSE a[i - 1]
  <2>1. Len(t) \in Nat
    BY <1>1
  <2>2. /\ a[0] = h
        /\ \A i \in 1 .. Len(t) :
             a[i] = IF i \in Line!Events(t) THEN Line!Hear(a[i - 1], setup.script[t[i - 1][1]]) ELSE a[i - 1]
    BY <2>1, HearingIs
  <2> QED BY <1>1, <2>2
<1>3. \A i \in Line!Events(t) : \E j \in Nat : i = 4 * j + 3 /\ i + 1 <= m
  BY <1>1
<1>4. ASSUME NEW j \in Nat, NEW r \in 0 .. 3, 4 * j + r <= m, r = 3 => 4 * j + 3 = m
      PROVE  a[4 * j + r] = a[4 * j]
  <2>1. ASSUME NEW q \in 1 .. 3, 4 * j + q <= m, q = 3 => 4 * j + 3 = m
        PROVE  a[4 * j + q] = a[4 * j + q - 1]
    <3> DEFINE i == 4 * j + q
    <3>1. i \in 1 .. m
      BY <2>1
    <3>2. i \notin Line!Events(t)
      <4>1. SUFFICES ASSUME NEW k \in Nat, i = 4 * k + 3, i + 1 <= m PROVE FALSE
        BY <1>3
      <4> QED BY <2>1, <4>1
    <3> HIDE DEF i
    <3>3. a[i] = a[i - 1]
      BY <1>2, <3>1, <3>2
    <3> QED BY <3>3 DEF i
  <2>2. CASE r = 0
    BY <2>2
  <2>3. CASE r = 1
    <3>1. a[4 * j + 1] = a[4 * j + 1 - 1] /\ 4 * j + 1 - 1 = 4 * j
      BY <1>4, <2>1, <2>3
    <3> QED BY <2>3, <3>1
  <2>4. CASE r >= 2
    <3>1. a[4 * j + 1] = a[4 * j + 1 - 1] /\ a[4 * j + 2] = a[4 * j + 2 - 1]
          /\ 4 * j + 1 - 1 = 4 * j /\ 4 * j + 2 - 1 = 4 * j + 1
      BY <1>4, <2>1, <2>4
    <3>2. a[4 * j + 2] = a[4 * j]
      BY <3>1
    <3>3. CASE r = 2
      BY <3>2, <3>3
    <3>4. CASE r = 3
      <4>1. a[4 * j + 3] = a[4 * j + 3 - 1] /\ 4 * j + 3 - 1 = 4 * j + 2
        BY <1>4, <2>1, <3>4
      <4> QED BY <3>2, <3>4, <4>1
    <3> QED BY <2>4, <3>3, <3>4
  <2> QED BY <2>2, <2>3, <2>4
<1>5. ASSUME NEW j \in Nat, 4 * j + 4 <= m
      PROVE  a[4 * (j + 1)] = Line!Hear(a[4 * j], setup.script[c + j + 1])
  <2> DEFINE i == 4 * j + 3
  <2>1. i \in Line!Events(t) /\ i \in 1 .. m /\ i - 1 = 4 * j + 2
    BY <1>1, <1>5
  <2>2. a[i] = Line!Hear(a[i - 1], setup.script[t[i - 1][1]])
    <3> HIDE DEF i
    <3> QED BY <1>2, <2>1
  <2>3. a[4 * j + 2] = a[4 * j]
    <3> DEFINE r == 2
    <3>1. r \in 0 .. 3 /\ 4 * j + r <= m /\ (r = 3 => 4 * j + 3 = m)
      BY <1>5
    <3> HIDE DEF r
    <3>2. a[4 * j + r] = a[4 * j]
      BY <1>4, <3>1
    <3> QED BY <3>2 DEF r
  <2>4. t[4 * j + 2][1] = c + j + 1
    BY <1>1, <1>5
  <2>5. a[i + 1] = a[i]
    <3> DEFINE k == i + 1
    <3>1. k \in 1 .. m /\ k - 1 = i
      BY <1>5
    <3>2. k \notin Line!Events(t)
      <4>1. SUFFICES ASSUME NEW n \in Nat, k = 4 * n + 3, k + 1 <= m PROVE FALSE
        BY <1>3
      <4> QED BY <4>1
    <3> HIDE DEF k
    <3>3. a[k] = a[k - 1]
      BY <1>2, <3>1, <3>2
    <3> QED BY <3>1, <3>3 DEF k
  <2>6. i + 1 = 4 * (j + 1)
    OBVIOUS
  <2>7. a[i] = Line!Hear(a[4 * j], setup.script[c + j + 1])
    BY <2>1, <2>2, <2>3, <2>4
  <2> QED BY <2>5, <2>6, <2>7
<1> QED BY <1>2, <1>4, <1>5

LEMMA ToldIs ==
  ASSUME ScriptTyped
  PROVE  /\ Told[0] = Line!Fresh
         /\ \A j \in Nat : 4 * j + 4 <= Size =>
              Told[4 * (j + 1)] = Line!Hear(Told[4 * j], setup.script[j + 1])
         /\ \A j \in Nat, r \in 0 .. 3 : 4 * j + r = Size => Told[4 * j + r] = Told[4 * j]
<1>1. Size \in Nat /\ Body \in Seq(Pieces) /\ Len(Body) = Size
  BY BodyIs
<1> DEFINE z == 0
<1>2. z \in Nat /\ 4 * z + Size <= Size
  BY <1>1
<1>3. Body = Piece(z, Size)
  <2> DEFINE w == Slice(z, Size)
  <2>1. z \in Nat /\ z + Size <= Size /\ \A i \in 1 .. Size : z + i = i
    BY <1>1
  <2>2. 4 * z = z
    OBVIOUS
  <2> HIDE DEF z
  <2>3. w \in Seq(Pieces) /\ Len(w) = Size /\ \A i \in 1 .. Size : w[i] = Body[z + i]
    BY <1>1, <2>1, SliceIs
  <2> HIDE DEF w
  <2>4. \A i \in 1 .. Size : w[i] = Body[i]
    BY <2>1, <2>3
  <2>5. w = Body
    BY <1>1, <2>3, <2>4, SeqEqual
  <2> QED BY <2>2, <2>5 DEF w, Piece
<1>4. \A j \in Nat : z + j + 1 = j + 1
  OBVIOUS
<1> HIDE DEF z
<1>5. /\ Told[0] = Line!Fresh
      /\ \A j \in Nat : 4 * j + 4 <= Size =>
           Told[4 * (j + 1)] = Line!Hear(Told[4 * j], setup.script[z + j + 1])
      /\ \A j \in Nat, r \in 0 .. 3 : 4 * j + r <= Size /\ (r = 3 => 4 * j + 3 = Size)
                                        => Told[4 * j + r] = Told[4 * j]
  BY <1>1, <1>2, <1>3, PieceIsHeard DEF Told
<1>6. ASSUME NEW j \in Nat, NEW r \in 0 .. 3, 4 * j + r = Size PROVE Told[4 * j + r] = Told[4 * j]
  <2>1. 4 * j + r <= Size /\ (r = 3 => 4 * j + 3 = Size)
    BY <1>1, <1>6
  <2> QED BY <1>5, <2>1
<1>7. ASSUME NEW j \in Nat, 4 * j + 4 <= Size
      PROVE  Told[4 * (j + 1)] = Line!Hear(Told[4 * j], setup.script[j + 1])
  BY <1>4, <1>5, <1>7
<1> QED BY <1>5, <1>6, <1>7

(* told knows what a reader of the whole body has heard after each event.  *)
Follows(told) ==
  /\ told[0] = Line!Fresh
  /\ \A j \in Nat : 4 * j + 4 <= Size =>
       told[4 * (j + 1)] = Line!Hear(told[4 * j], setup.script[j + 1])

LEMMA ToldAreLocals ==
  ASSUME ScriptTyped, NEW told, Follows(told)
  PROVE  \A j \in Nat : 4 * j <= Size => Locals(told[4 * j])
<1> DEFINE Wrong == {j \in Nat : 4 * j <= Size /\ ~Locals(told[4 * j])}
<1>1. SUFFICES ASSUME Wrong # {} PROVE FALSE
  OBVIOUS
<1>2. PICK n \in Wrong : \A k \in Wrong : n <= k
  <2>1. Wrong \in SUBSET Nat
    OBVIOUS
  <2> HIDE DEF Wrong
  <2> QED BY <1>1, <2>1, LeastNumber
<1>3. CASE n = 0
  BY <1>2, <1>3, FreshIs DEF Follows
<1>4. CASE n # 0
  <2> DEFINE k == n - 1
  <2> DEFINE e == setup.script[k + 1]
  <2>1. k \in Nat /\ 4 * k + 4 <= Size /\ 4 * k <= Size /\ k + 1 = n /\ Size \in Nat
    BY <1>2, <1>4, BodyIs
  <2>2. k \notin Wrong
    BY <1>2, <2>1
  <2> DEFINE h == told[4 * k]
  <2>3. Locals(h)
    BY <2>1, <2>2
  <2>4. told[4 * (k + 1)] = Line!Hear(h, e)
    <3> HIDE DEF k
    <3> QED BY <2>1 DEF Follows
  <2> DEFINE r == Line!Hear(h, e)
  <2>5. Locals(r)
    <3> HIDE DEF h, e
    <3> QED BY <2>3, HearIs, AllAlike
  <2> QED BY <1>2, <2>1, <2>4, <2>5
<1> QED BY <1>3, <1>4

(* Whoever has counted what a reader of the whole body would have counted  *)
(* up to a piece has counted that after it, too.                           *)
LEMMA PieceAddsUp ==
  ASSUME ScriptTyped, NEW c \in Nat, NEW m \in Nat, 4 * c + m <= Size, NEW t, t = Piece(c, m),
         NEW h, Locals(h), NEW told, Follows(told), Alike(h, told[4 * c]),
         NEW a, a = Line!Hearing(h, t),
         NEW j, NEW r, Cut(m, j, r)
  PROVE  /\ Locals(a[m]) /\ Alike(a[m], told[4 * (c + j)])
         /\ a[m].text - Texts(a[m].chunks) = h.text - Texts(h.chunks)
<1>0. j \in Nat /\ r \in 0 .. 3 /\ m = 4 * j + r
  BY DEF Cut
<1> DEFINE Even(g) == g.text - Texts(g.chunks) = h.text - Texts(h.chunks)
<1> DEFINE Good(n) == Locals(a[4 * n]) /\ Alike(a[4 * n], told[4 * (c + n)]) /\ Even(a[4 * n])
<1> DEFINE Wrong == {n \in Nat : 4 * n <= m /\ ~Good(n)}
<1>1. /\ a[0] = h
      /\ \A k \in Nat : 4 * k + 4 <= m => a[4 * (k + 1)] = Line!Hear(a[4 * k], setup.script[c + k + 1])
      /\ \A k \in Nat, q \in 0 .. 3 : 4 * k + q <= m /\ (q = 3 => 4 * k + 3 = m) => a[4 * k + q] = a[4 * k]
  BY PieceIsHeard
<1>2. Wrong = {}
  <2>1. SUFFICES ASSUME Wrong # {} PROVE FALSE
    OBVIOUS
  <2>2. PICK n \in Wrong : \A k \in Wrong : n <= k
    <3>1. Wrong \in SUBSET Nat
      OBVIOUS
    <3> HIDE DEF Wrong
    <3> QED BY <2>1, <3>1, LeastNumber
  <2>3. n \in Nat /\ 4 * n <= m /\ ~Good(n)
    BY <2>2
  <2>4. CASE n = 0
    <3>1. 4 * n = 0 /\ c + n = c
      BY <2>4
    <3>2. a[4 * n] = h /\ told[4 * (c + n)] = told[4 * c]
      BY <1>1, <3>1
    <3>3. Good(n)
      BY <3>2
    <3> QED BY <2>3, <3>3
  <2>5. CASE n # 0
    <3> DEFINE k == n - 1
    <3> DEFINE d == c + k
    <3> DEFINE e == setup.script[d + 1]
    <3>1. /\ k \in Nat /\ 4 * k + 4 <= m /\ k + 1 = n /\ Size \in Nat /\ d \in Nat
          /\ 4 * d + 4 <= Size /\ 4 * d <= Size /\ d + 1 = c + n
      <4>1. Size \in Nat
        BY BodyIs
      <4>2. n \in Nat /\ n # 0 /\ 4 * n <= m
        BY <2>3, <2>5
      <4> HIDE DEF Good
      <4> QED BY <4>1, <4>2
    <3>2. k \notin Wrong
      BY <2>2, <3>1
    <3>3. Good(k)
      BY <3>1, <3>2
    <3> HIDE DEF Good, Wrong
    <3> DEFINE u == a[4 * k]
    <3> DEFINE v == told[4 * d]
    <3>4. a[4 * n] = Line!Hear(u, e)
      <4>1. a[4 * (k + 1)] = Line!Hear(a[4 * k], setup.script[c + k + 1])
        BY <1>1, <3>1
      <4> QED BY <3>1, <4>1
    <3>5. told[4 * (c + n)] = Line!Hear(v, e)
      <4>1. told[4 * (d + 1)] = Line!Hear(told[4 * d], setup.script[d + 1])
        BY <3>1 DEF Follows
      <4> QED BY <3>1, <4>1
    <3>6. Locals(u) /\ Alike(u, v) /\ Even(u)
      BY <3>3 DEF Good
    <3>7. Locals(v)
      BY <3>1, ToldAreLocals
    <3> DEFINE p == Line!Hear(u, e)
    <3> DEFINE q == Line!Hear(v, e)
    <3>8. Locals(p) /\ Alike(p, q) /\ p.text - Texts(p.chunks) = u.text - Texts(u.chunks)
      <4> HIDE DEF u, v, e
      <4> QED BY <3>6, <3>7, HearIs
    <3>9. Even(p)
      BY <3>6, <3>8
    <3>10. a[4 * n] = p /\ told[4 * (c + n)] = q
      BY <3>4, <3>5
    <3> HIDE DEF p, q, Even
    <3>11. Good(n)
      BY <3>8, <3>9, <3>10 DEF Good
    <3> QED BY <2>3, <3>11
  <2> QED BY <2>4, <2>5
<1>3. Good(j)
  <2>1. 4 * j <= m
    BY <1>0
  <2>2. j \notin Wrong
    <3> HIDE DEF Wrong
    <3> QED BY <1>2
  <2> HIDE DEF Good
  <2> QED BY <1>0, <2>1, <2>2
<1>4. a[m] = a[4 * j]
  <2>1. 4 * j + r <= m /\ (r = 3 => 4 * j + 3 = m)
    BY <1>0
  <2>2. a[4 * j + r] = a[4 * j]
    BY <1>0, <1>1, <2>1
  <2> QED BY <1>0, <2>2
<1> QED BY <1>3, <1>4

-----------------------------------------------------------------------------
(* The call: what its route has passed on and what it will.                *)

Chunks == Said \union {"usage"}

(* The buffer holds less than an event, and all before it was heard.       *)
HeardSoFar ==
  /\ Locals(heard) /\ heard.chunks = <<>>
  /\ \E c \in Nat, r \in 0 .. 3 :
       /\ 4 * c + r <= Size
       /\ buffer = Piece(c, r) /\ coming = Slice(4 * c + r, Size - (4 * c + r))
       /\ \A told : Follows(told) => Alike(heard, told[4 * c])

(* Every delta heard was sent or waits in the queue.                       *)
Passing == \E n \in Nat : frames = Line!Opening \o Deltaic(n) /\ n + Texts(queue) = heard.text

Passed == \E n \in Nat : frames = Line!Opening \o (Deltaic(n) \o Line!Ending) /\ n = heard.text

StreamMeter ==
  /\ HeardSoFar
  /\ queue \in Seq(Chunks)
  /\ route.finish \in Stops
  /\ route.ended => /\ coming = <<>>
                    /\ \/ queue = <<"usage">>
                       \/ queue = <<>> /\ route.usage = Line!MeteredUsage(heard)
  /\ route.at = "calling" => queue = <<>> /\ heard.text = 0 /\ ~route.ended
  /\ route.at = "opening" => heard.text = Texts(queue)
  /\ route.at = "streaming" => Passing
  /\ route.at \in {"ending", "closed"} /\ ~route.failed => route.ended /\ queue = <<>> /\ Passed

(* No answer with text is metered with zero output.                        *)
WholeMeter ==
  setup.adapter = "openai" /\ row # Null /\ heard.text > 0 => row.usage.output > 0

MeterInv ==
  /\ ScriptTyped
  /\ setup.streamed => StreamMeter
  /\ ~setup.streamed => WholeMeter

-----------------------------------------------------------------------------
LEMMA BodyStays ==
  ASSUME setup' = setup
  PROVE  /\ Body' = Body /\ Size' = Size /\ (ScriptTyped' <=> ScriptTyped)
         /\ \A e, m : Slice(e, m)' = Slice(e, m) /\ Piece(e, m)' = Piece(e, m)
         /\ \A told : Follows(told)' <=> Follows(told)
<1>1. Body' = Body /\ Size' = Size /\ (ScriptTyped' <=> ScriptTyped)
  BY DEF Body, Size, ScriptTyped
<1>2. \A e, m : Slice(e, m)' = Slice(e, m) /\ Piece(e, m)' = Piece(e, m)
  BY <1>1 DEF Slice, Piece
<1>3. \A h, k : Line!Hear(h, k)' = Line!Hear(h, k)
  BY DEF Line!Hear
<1>4. \A told : Follows(told)' <=> Follows(told)
  BY <1>1, <1>3 DEF Follows
<1> QED BY <1>1, <1>2, <1>4

LEMMA HeardStays ==
  ASSUME HeardSoFar, setup' = setup, coming' = coming, buffer' = buffer, heard' = heard
  PROVE  HeardSoFar' /\ Line!MeteredUsage(heard)' = Line!MeteredUsage(heard)
<1>1. HeardSoFar'
  <2>1. PICK c \in Nat, r \in 0 .. 3 :
          /\ 4 * c + r <= Size
          /\ buffer = Piece(c, r) /\ coming = Slice(4 * c + r, Size - (4 * c + r))
          /\ \A told : Follows(told) => Alike(heard, told[4 * c])
    BY DEF HeardSoFar
  <2> DEFINE e == 4 * c + r
  <2>2. /\ e <= Size' /\ buffer' = Piece(c, r)' /\ coming' = Slice(e, Size - e)'
        /\ \A told : Follows(told)' => Alike(heard, told[4 * c])
    <3>1. coming' = Slice(e, Size - e)'
      BY <2>1, BodyStays DEF Slice
    <3> QED BY <2>1, <3>1, BodyStays
  <2>4. Locals(heard') /\ heard'.chunks = <<>>
    BY DEF HeardSoFar
  <2> QED BY <2>2, <2>4 DEF HeardSoFar
<1>2. Line!MeteredUsage(heard)' = Line!MeteredUsage(heard)
  BY DEF Line!MeteredUsage
<1> QED BY <1>1, <1>2

LEMMA HeardAfterRead ==
  ASSUME ScriptTyped, HeardSoFar, NEW n \in 1 .. Len(coming), Line!Read(n)
  PROVE  /\ HeardSoFar' /\ queue' \in Seq(Said)
         /\ heard'.text = heard.text + Texts(queue')
<1>1. PICK c \in Nat, r \in 0 .. 3 :
        /\ 4 * c + r <= Size
        /\ buffer = Piece(c, r) /\ coming = Slice(4 * c + r, Size - (4 * c + r))
        /\ \A told : Follows(told) => Alike(heard, told[4 * c])
  BY DEF HeardSoFar
<1> DEFINE e == 4 * c
<1> DEFINE f == e + r
<1> DEFINE k == Size - f
<1> DEFINE m == r + n
<1>2. Size \in Nat /\ f \in Nat /\ k \in Nat /\ f + k = Size /\ e \in Nat
  BY <1>1, BodyIs
<1>3. Len(coming) = k /\ coming = Slice(f, k) /\ buffer = Slice(e, r)
  <2>1. coming = Slice(f, k) /\ buffer = Slice(e, r)
    BY <1>1 DEF Piece
  <2>2. f + k <= Size
    BY <1>2
  <2> HIDE DEF f, k
  <2>3. Len(Slice(f, k)) = k
    BY <1>2, <2>2, SliceIs
  <2> QED BY <2>1, <2>3
<1>4. n \in 1 .. k /\ m \in Nat /\ e + m <= Size
  BY <1>2, <1>3
<1> DEFINE text == buffer \o SubSeq(coming, 1, n)
<1>5. text = Piece(c, m)
  <2>1. f = e + r /\ f + k <= Size /\ r \in Nat /\ m = r + n
    BY <1>2
  <2> HIDE DEF f, k, e, m
  <2>2. Joined(Slice(e, r), Slice(f, k), n) = Slice(e, m)
    BY <1>2, <1>4, <2>1, SlicesJoin
  <2> QED BY <1>3, <2>2 DEF Joined, Piece, e
<1>6. PICK j \in Nat, q \in 0 .. 3 : m = 4 * j + q
  BY <1>4, ByFours
<1>7. coming' = Slice(4 * (c + j) + q, Size - (4 * (c + j) + q))
  <2> DEFINE a == n + 1
  <2> DEFINE g == 4 * (c + j) + q
  <2> DEFINE l == Size - g
  <2>1. a \in 1 .. k + 1 /\ g \in Nat /\ g = f + a - 1 /\ l \in Nat /\ l = k - a + 1 /\ f + k <= Size
    BY <1>2, <1>4, <1>6
  <2>2. coming' = SubSeq(Slice(f, k), a, k)
    BY <1>3 DEF Line!Read
  <2>3. f \in Nat /\ k \in Nat
    BY <1>2
  <2> HIDE DEF f, k, a, g, l
  <2>4. SubSeq(Slice(f, k), a, k) = Slice(f + a - 1, k - a + 1)
    BY <2>1, <2>3, SliceIsCut
  <2>5. coming' = Slice(g, l)
    BY <2>1, <2>2, <2>4
  <2> QED BY <2>5 DEF g, l
<1> DEFINE all == Line!Hearing(heard, text)
<1> DEFINE after == all[m]
<1>8. setup' = setup /\ Line!Absorb(text, Line!Unfinished(text))
  BY DEF Line!Read
<1>9. Len(text) = m /\ Line!Unfinished(text) = Piece(c + j, q)
  <2>1. 4 * c + m <= Size
    BY <1>4
  <2>2. Cut(m, j, q)
    BY <1>6 DEF Cut
  <2> HIDE DEF text, m
  <2>3. Len(text) = m
    BY <1>4, <1>5, <2>1, SeparatorsAre
  <2>4. Line!Unfinished(text) = Piece(c + j, q)
    BY <1>4, <1>5, <2>1, <2>2, UnfinishedIs
  <2> QED BY <2>3, <2>4
<1>10. buffer' = Piece(c + j, q) /\ queue' = after.chunks /\ heard' = [after EXCEPT !.chunks = <<>>]
  BY <1>8, <1>9 DEF Line!Absorb
<1>11. ASSUME NEW told, Follows(told)
       PROVE  /\ Locals(after) /\ Alike(after, told[4 * (c + j)])
              /\ after.text - Texts(after.chunks) = heard.text - Texts(heard.chunks)
  <2>1. Alike(heard, told[4 * c]) /\ Locals(heard) /\ 4 * c + m <= Size
    BY <1>1, <1>4, <1>11 DEF HeardSoFar
  <2>2. Cut(m, j, q)
    BY <1>6 DEF Cut
  <2>3. m \in Nat /\ text = Piece(c, m)
    BY <1>4, <1>5
  <2>4. all = Line!Hearing(heard, text)
    OBVIOUS
  <2> HIDE DEF text, m, all
  <2> QED BY <1>11, <2>1, <2>2, <2>3, <2>4, PieceAddsUp
<1>12. Follows(Told)
  BY ToldIs DEF Follows
<1> HIDE DEF after, text
<1>13. /\ Locals(after) /\ after.text - Texts(after.chunks) = heard.text - Texts(heard.chunks)
  BY <1>11, <1>12
<1>14. /\ heard'.text = after.text /\ heard'.reported = after.reported /\ heard'.meter = after.meter
       /\ heard'.chunks = <<>> /\ Locals(heard')
  <2> DEFINE nil == <<>>
  <2>1. nil \in Seq(Said) /\ heard' = [after EXCEPT !.chunks = nil]
    BY <1>10
  <2> HIDE DEF nil
  <2>2. /\ heard'.text = after.text /\ heard'.reported = after.reported /\ heard'.meter = after.meter
        /\ heard'.chunks = nil /\ Locals(heard')
    BY <1>13, <2>1 DEF Locals
  <2> QED BY <2>2 DEF nil
<1>15. HeardSoFar'
  <2> DEFINE d == c + j
  <2>1. d \in Nat /\ 4 * d + q <= Size
    BY <1>4, <1>6
  <2>2. buffer' = Piece(d, q)' /\ coming' = Slice(4 * d + q, Size - (4 * d + q))'
    <3> DEFINE g == 4 * d + q
    <3>1. coming' = Slice(g, Size - g)'
      BY <1>7, <1>8, BodyStays DEF Slice
    <3> QED BY <1>8, <1>10, <3>1, BodyStays
  <2>3. ASSUME NEW told, Follows(told)' PROVE Alike(heard', told[4 * d])
    <3>1. Follows(told)
      BY <1>8, <2>3, BodyStays
    <3>2. Alike(after, told[4 * d])
      BY <1>11, <3>1
    <3> QED BY <1>14, <3>2 DEF Alike
  <2>4. Size' = Size
    BY <1>8, BodyStays
  <2> HIDE DEF d
  <2> QED BY <1>14, <2>1, <2>2, <2>3, <2>4 DEF HeardSoFar
<1>16. queue' \in Seq(Said) /\ heard'.text = heard.text + Texts(queue')
  <2>1. Texts(<<>>) = 0
    <3>1. {i \in DOMAIN <<>> : <<>>[i] = "text"} = {}
      OBVIOUS
    <3> QED BY <3>1, FS_EmptySet DEF Texts
  <2>2. heard.chunks = <<>> /\ heard.text \in Nat
    BY DEF HeardSoFar, Locals
  <2>3. after.text \in Nat /\ queue' \in Seq(Said)
    BY <1>10, <1>13 DEF Locals
  <2>4. Texts(queue') \in Nat
    BY <2>3, TextsAre
  <2> QED BY <1>10, <1>13, <1>14, <2>1, <2>2, <2>3, <2>4
<1> QED BY <1>15, <1>16

(* A handler's locals, after each assignment of the code.                  *)
LEMMA LocalsAfter ==
  ASSUME NEW r, Handler(r)
  PROVE  /\ \A v : LET s == [r EXCEPT !.at = v]
                   IN  s.at = v /\ s.ended = r.ended /\ s.usage = r.usage /\ s.finish = r.finish
                       /\ s.failed = r.failed
         /\ \A v, w : LET s == [r EXCEPT !.at = v, !.error = w]
                      IN  s.at = v /\ s.ended = r.ended /\ s.usage = r.usage /\ s.finish = r.finish
                          /\ s.failed = r.failed
         /\ \A v, w : LET s == [r EXCEPT !.at = v, !.failed = w]
                      IN  s.at = v /\ s.ended = r.ended /\ s.usage = r.usage /\ s.finish = r.finish
                          /\ s.failed = w
         /\ \A v : LET s == [r EXCEPT !.usage = v]
                   IN  s.at = r.at /\ s.ended = r.ended /\ s.usage = v /\ s.finish = r.finish
                       /\ s.failed = r.failed
         /\ \A v : LET s == [r EXCEPT !.finish = v]
                   IN  s.at = r.at /\ s.ended = r.ended /\ s.usage = r.usage /\ s.finish = v
                       /\ s.failed = r.failed
         /\ \A v : LET s == [r EXCEPT !.ended = v]
                   IN  s.at = r.at /\ s.ended = v /\ s.usage = r.usage /\ s.finish = r.finish
                       /\ s.failed = r.failed
         /\ \A v : LET s == [r EXCEPT !.gone = v]
                   IN  s.at = r.at /\ s.ended = r.ended /\ s.usage = r.usage /\ s.finish = r.finish
                       /\ s.failed = r.failed
BY DEF Handler

LEMMA FewTexts ==
  /\ Texts(<<>>) = 0 /\ Texts(<<"usage">>) = 0
  /\ <<>> \in Seq(Chunks) /\ <<"usage">> \in Seq(Chunks)
<1>1. {i \in DOMAIN <<>> : <<>>[i] = "text"} = {}
  OBVIOUS
<1> DEFINE u == <<"usage">>
<1>2. DOMAIN u = 1 .. 1 /\ u[1] = "usage" /\ u \in Seq(Chunks)
  BY DEF Chunks
<1> HIDE DEF u
<1>3. {i \in DOMAIN u : u[i] = "text"} = {}
  BY <1>2
<1>4. Texts(<<>>) = 0 /\ Texts(u) = 0
  BY <1>1, <1>3, FS_EmptySet DEF Texts
<1> QED BY <1>2, <1>4 DEF u

(* A step that neither reads nor speaks, of a stream.                      *)
LEMMA SilentStep ==
  ASSUME MeterInv, setup.streamed, UNCHANGED <<setup, coming, buffer, heard, queue, frames>>,
         route'.ended = route.ended, route'.usage = route.usage, route'.finish = route.finish,
         route'.failed = route.failed \/ route'.failed = TRUE,
         \/ route'.at = route.at
         \/ route'.at \in {"advancing", "refused", "broken"}
         \/ route.at = "calling" /\ route'.at = "opening"
         \/ /\ route'.at \in {"ending", "closed"}
            /\ \/ route'.failed = TRUE
               \/ route.at \in {"ending", "closed"} /\ route'.failed = route.failed
  PROVE  MeterInv'
<1>1. ScriptTyped /\ StreamMeter
  BY DEF MeterInv
<1>2. HeardSoFar' /\ Line!MeteredUsage(heard)' = Line!MeteredUsage(heard) /\ ScriptTyped'
  BY <1>1, HeardStays, BodyStays DEF StreamMeter
<1>3. (Passing' <=> Passing) /\ (Passed' <=> Passed)
  BY WordsStay DEF Passing, Passed, Deltaic, Texts
<1>4. route'.at = "opening" => heard'.text = Texts(queue)'
  BY <1>1, FewTexts DEF StreamMeter, Texts
<1>5. StreamMeter'
  BY <1>1, <1>2, <1>3, <1>4 DEF StreamMeter
<1> QED BY <1>2, <1>5 DEF MeterInv

LEMMA SilentSteps ==
  ASSUME MeterInv, WireInv, setup.streamed,
         \/ Line!Opens \/ Line!BodyBreaks \/ Line!ClientGoes \/ Line!Account
         \/ \E error : Line!Refused(error)
         \/ Line!Begin /\ route.gone
         \/ Line!EndStream /\ route.gone
         \/ Line!Apologize /\ route.gone
  PROVE  MeterInv'
<1>1. Handler(route)
  BY DEF WireInv
<1>2. CASE Line!Opens
  <2>1. route' = [route EXCEPT !.at = "opening"] /\ route.at = "calling"
    BY <1>2 DEF Line!Opens, Line!Goto
  <2> QED BY <1>1, <1>2, <2>1, LocalsAfter, SilentStep DEF Line!Opens
<1>3. CASE Line!BodyBreaks
  <2>1. \/ route' = [route EXCEPT !.at = "refused", !.error = Line!Unclassified]
        \/ route' = [route EXCEPT !.at = "broken"]
    BY <1>3 DEF Line!BodyBreaks
  <2> QED BY <1>1, <1>3, <2>1, LocalsAfter, SilentStep DEF Line!BodyBreaks
<1>4. CASE Line!ClientGoes
  <2>1. route' = [route EXCEPT !.gone = TRUE]
    BY <1>4 DEF Line!ClientGoes
  <2> QED BY <1>1, <1>4, <2>1, LocalsAfter, SilentStep DEF Line!ClientGoes
<1>5. CASE Line!Account
  <2>1. route' = [route EXCEPT !.at = "closed"] /\ route.at = "ending"
    BY <1>5 DEF Line!Account, Line!Goto
  <2> QED BY <1>1, <1>5, <2>1, LocalsAfter, SilentStep DEF Line!Account
<1>6. ASSUME NEW error, Line!Refused(error) PROVE MeterInv'
  <2> DEFINE at == IF Line!IsFallbackWorthy(error) THEN "advancing" ELSE "refused"
  <2>1. route' = [route EXCEPT !.at = at, !.error = error] /\ at \in {"advancing", "refused"}
    BY <1>6 DEF Line!Refused
  <2> HIDE DEF at
  <2>2. /\ route'.at = at /\ route'.ended = route.ended /\ route'.usage = route.usage
        /\ route'.finish = route.finish /\ route'.failed = route.failed
    BY <1>1, <2>1, LocalsAfter
  <2>3. UNCHANGED <<setup, coming, buffer, heard, queue, frames>>
    BY <1>6 DEF Line!Refused
  <2> QED BY <2>1, <2>2, <2>3, SilentStep
<1>7. CASE Line!Begin /\ route.gone
  <2>1. route' = [route EXCEPT !.at = "broken"] /\ frames' = frames
    BY <1>7 DEF Line!Begin, Line!Send, Line!Goto
  <2> QED BY <1>1, <1>7, <2>1, LocalsAfter, SilentStep DEF Line!Begin
<1>8. CASE Line!EndStream /\ route.gone
  <2>1. route' = [route EXCEPT !.at = "broken"] /\ frames' = frames
    BY <1>8 DEF Line!EndStream, Line!Send, Line!Goto
  <2>2. /\ route'.at = "broken" /\ route'.ended = route.ended /\ route'.usage = route.usage
        /\ route'.finish = route.finish /\ route'.failed = route.failed
    BY <1>1, <2>1, LocalsAfter
  <2>3. UNCHANGED <<setup, coming, buffer, heard, queue, frames>>
    BY <1>8, <2>1 DEF Line!EndStream
  <2> QED BY <2>2, <2>3, SilentStep
<1>9. CASE Line!Apologize /\ route.gone
  <2> DEFINE yes == TRUE
  <2>1. route' = [route EXCEPT !.at = "ending", !.failed = yes] /\ frames' = frames
    BY <1>9 DEF Line!Apologize
  <2> HIDE DEF yes
  <2>2. /\ route'.at = "ending" /\ route'.ended = route.ended /\ route'.usage = route.usage
        /\ route'.finish = route.finish /\ route'.failed = yes
    BY <1>1, <2>1, LocalsAfter
  <2>3. UNCHANGED <<setup, coming, buffer, heard, queue, frames>>
    BY <1>9, <2>1 DEF Line!Apologize
  <2> QED BY <2>2, <2>3, SilentStep DEF yes
<1> QED BY <1>2, <1>3, <1>4, <1>5, <1>6, <1>7, <1>8, <1>9

LEMMA StreamReads ==
  ASSUME MeterInv, WireInv, setup.streamed, NEW n \in 1 .. Len(coming), Line!Read(n)
  PROVE  MeterInv'
<1>1. ScriptTyped /\ StreamMeter
  BY DEF MeterInv
<1>2. /\ setup' = setup /\ route' = route /\ frames' = frames /\ queue = <<>> /\ ~route.ended
      /\ route.at \in {"opening", "streaming"}
  BY DEF Line!Read, Line!Reading
<1>3. HeardSoFar' /\ queue' \in Seq(Said) /\ heard'.text = heard.text + Texts(queue')
  BY <1>1, HeardAfterRead DEF StreamMeter
<1>4. queue' \in Seq(Chunks)
  <2> DEFINE q == queue'
  <2>1. q \in Seq(Said) /\ Said \subseteq Chunks
    BY <1>3 DEF Chunks
  <2> HIDE DEF q
  <2>2. q \in Seq(Chunks)
    BY <2>1
  <2> QED BY <2>2 DEF q
<1>5. Texts(queue') \in Nat /\ Texts(queue) = 0 /\ heard.text \in Nat
  <2>1. Texts(queue') \in Nat
    BY <1>3, TextsAre
  <2> QED BY <1>1, <1>2, <2>1, FewTexts DEF StreamMeter, HeardSoFar, Locals
<1>6. route'.at = "opening" => heard'.text = Texts(queue')
  BY <1>1, <1>2, <1>3, <1>5 DEF StreamMeter
<1>7. route'.at = "streaming" => Passing'
  <2>1. SUFFICES ASSUME route.at = "streaming" PROVE Passing'
    BY <1>2
  <2>2. PICK k \in Nat : frames = Line!Opening \o Deltaic(k) /\ k + Texts(queue) = heard.text
    BY <1>1, <2>1 DEF StreamMeter, Passing
  <2>3. frames' = (Line!Opening \o Deltaic(k))'
    BY <1>2, <2>2, WordsStay DEF Deltaic
  <2>4. k + Texts(queue') = heard'.text
    BY <1>3, <1>5, <2>2
  <2> QED BY <2>3, <2>4 DEF Passing, Texts
<1>8. StreamMeter'
  BY <1>1, <1>2, <1>3, <1>4, <1>6, <1>7 DEF StreamMeter, Texts
<1> QED BY <1>1, <1>2, <1>8, BodyStays DEF MeterInv

LEMMA StreamsEnd ==
  ASSUME MeterInv, WireInv, setup.streamed, Line!BodyEnds
  PROVE  MeterInv'
<1>1. ScriptTyped /\ StreamMeter /\ Handler(route)
  BY DEF MeterInv, WireInv
<1>2. /\ UNCHANGED <<setup, coming, buffer, heard, frames>> /\ queue = <<>> /\ coming = <<>>
      /\ queue' = <<"usage">> /\ route.at \in {"opening", "streaming"} /\ ~route.ended
  BY DEF Line!BodyEnds, Line!Reading
<1>3. /\ route'.at = route.at /\ route'.usage = route.usage /\ route'.finish = route.finish
      /\ route'.failed = route.failed
  <2>1. route' = [route EXCEPT !.ended = TRUE]
    BY DEF Line!BodyEnds
  <2> QED BY <1>1, <2>1, LocalsAfter
<1>4. HeardSoFar' /\ ScriptTyped'
  <2>1. HeardSoFar /\ setup' = setup /\ coming' = coming /\ buffer' = buffer /\ heard' = heard
    BY <1>1, <1>2 DEF StreamMeter
  <2>2. ScriptTyped'
    BY <1>1, <2>1, BodyStays
  <2> QED BY <2>1, <2>2, HeardStays
<1>5. Texts(queue') = Texts(queue) /\ queue' \in Seq(Chunks)
  BY <1>2, FewTexts
<1>6. Passing' <=> Passing
  BY <1>2, <1>5, WordsStay DEF Passing, Deltaic, Texts
<1>7. StreamMeter'
  BY <1>1, <1>2, <1>3, <1>4, <1>5, <1>6 DEF StreamMeter, Texts
<1> QED BY <1>2, <1>4, <1>7 DEF MeterInv

LEMMA StreamsBegin ==
  ASSUME MeterInv, WireInv, setup.streamed, Line!Begin, ~route.gone
  PROVE  MeterInv'
<1>1. ScriptTyped /\ StreamMeter /\ Handler(route) /\ StreamInv
  BY DEF MeterInv, WireInv
<1>2. /\ UNCHANGED <<setup, coming, buffer, heard, queue>> /\ route.at = "opening"
      /\ frames' = frames \o Line!Opening /\ route' = [route EXCEPT !.at = "streaming"]
  BY DEF Line!Begin, Line!Send, Line!Goto
<1>3. /\ route'.at = "streaming" /\ route'.ended = route.ended /\ route'.usage = route.usage
      /\ route'.finish = route.finish /\ route'.failed = route.failed
  BY <1>1, <1>2, LocalsAfter
<1>4. HeardSoFar' /\ ScriptTyped' /\ Line!MeteredUsage(heard)' = Line!MeteredUsage(heard)
  <2>1. HeardSoFar /\ setup' = setup /\ coming' = coming /\ buffer' = buffer /\ heard' = heard
    BY <1>1, <1>2 DEF StreamMeter
  <2>2. ScriptTyped'
    BY <1>1, <2>1, BodyStays
  <2> QED BY <2>1, <2>2, HeardStays
<1>5. frames' = (Line!Opening \o Deltaic(0))'
  BY <1>1, <1>2, NoDeltaYet, WordsStay DEF StreamInv, Deltaic
<1>6. Passing'
  <2> DEFINE z == 0
  <2>1. heard.text = Texts(queue) /\ heard.text \in Nat
    BY <1>1, <1>2 DEF StreamMeter, HeardSoFar, Locals
  <2>2. z \in Nat /\ z + Texts(queue) = heard.text
    BY <2>1
  <2>3. frames' = (Line!Opening \o Deltaic(z))'
    BY <1>5
  <2> HIDE DEF z
  <2> QED BY <1>2, <2>2, <2>3 DEF Passing, Texts
<1>7. StreamMeter'
  BY <1>1, <1>2, <1>3, <1>4, <1>6 DEF StreamMeter
<1> QED BY <1>2, <1>4, <1>7 DEF MeterInv

(* What is taken from the queue.                                           *)
LEMMA OneIsTaken ==
  ASSUME StreamMeter, queue # <<>>
  PROVE  /\ Tail(queue) \in Seq(Chunks) /\ Head(queue) \in Chunks
         /\ Texts(queue) = Texts(Tail(queue)) + (IF Head(queue) = "text" THEN 1 ELSE 0)
         /\ Texts(Tail(queue)) \in Nat
         /\ route.ended => Head(queue) = "usage" /\ Tail(queue) = <<>>
<1>1. queue \in Seq(Chunks)
  BY DEF StreamMeter
<1>2. Tail(queue) \in Seq(Chunks) /\ Head(queue) \in Chunks
  BY <1>1, HeadTailProperties
<1>3. Texts(queue) = Texts(Tail(queue)) + (IF Head(queue) = "text" THEN 1 ELSE 0)
  BY <1>1, TextsAre
<1>4. Texts(Tail(queue)) \in Nat
  BY <1>2, TextsAre
<1>5. ASSUME route.ended PROVE Head(queue) = "usage" /\ Tail(queue) = <<>>
  <2> DEFINE u == "usage"
  <2>1. queue = <<u>>
    BY <1>5 DEF StreamMeter
  <2> HIDE DEF u
  <2>2. Head(queue) = u /\ Tail(queue) = <<>>
    BY <2>1
  <2> QED BY <2>2 DEF u
<1> QED BY <1>2, <1>3, <1>4, <1>5

LEMMA StreamsPassOn ==
  ASSUME MeterInv, WireInv, setup.streamed, Line!Consume
  PROVE  MeterInv'
<1>1. ScriptTyped /\ StreamMeter /\ Handler(route) /\ StreamInv
  BY DEF MeterInv, WireInv
<1>2. /\ UNCHANGED <<setup, coming, buffer, heard>> /\ route.at = "streaming" /\ queue # <<>>
      /\ queue' = Tail(queue)
  BY DEF Line!Consume
<1>3. HeardSoFar' /\ ScriptTyped' /\ Line!MeteredUsage(heard)' = Line!MeteredUsage(heard)
  <2>1. HeardSoFar /\ setup' = setup /\ coming' = coming /\ buffer' = buffer /\ heard' = heard
    BY <1>1, <1>2 DEF StreamMeter
  <2>2. ScriptTyped'
    BY <1>1, <2>1, BodyStays
  <2> QED BY <2>1, <2>2, HeardStays
<1>4. /\ queue' \in Seq(Chunks) /\ Texts(queue') \in Nat /\ Head(queue) \in Chunks
      /\ Texts(queue) = Texts(queue') + (IF Head(queue) = "text" THEN 1 ELSE 0)
      /\ route.ended => Head(queue) = "usage" /\ queue' = <<>>
  BY <1>1, <1>2, OneIsTaken
<1>5. PICK k \in Nat : frames = Line!Opening \o Deltaic(k) /\ k + Texts(queue) = heard.text
  BY <1>1, <1>2 DEF StreamMeter, Passing
<1>6. route.finish \in Stops /\ ~route.failed
  BY <1>1, <1>2 DEF StreamMeter, StreamInv
<1>7. CASE Head(queue) = "text" /\ route.gone
  <2>1. route' = [route EXCEPT !.at = "broken"] /\ frames' = frames
    BY <1>7 DEF Line!Consume, Line!Send, Line!Goto
  <2>2. /\ route'.at = "broken" /\ route'.ended = route.ended /\ route'.usage = route.usage
        /\ route'.finish = route.finish
    BY <1>1, <2>1, LocalsAfter
  <2>3. StreamMeter'
    BY <1>3, <1>4, <1>6, <1>7, <2>2 DEF StreamMeter
  <2> QED BY <1>2, <1>3, <2>3 DEF MeterInv
<1>8. CASE Head(queue) = "text" /\ ~route.gone
  <2>1. route' = [route EXCEPT !.at = "streaming"] /\ frames' = frames \o <<Line!DeltaFrame>>
    BY <1>8 DEF Line!Consume, Line!Send, Line!Goto
  <2>2. /\ route'.at = "streaming" /\ route'.ended = route.ended /\ route'.usage = route.usage
        /\ route'.finish = route.finish
    BY <1>1, <2>1, LocalsAfter
  <2>3. Passing'
    <3> DEFINE j == k + 1
    <3>1. frames' = (Line!Opening \o Deltaic(j))'
      BY <1>2, <1>5, <2>1, OneMoreDelta, WordsStay DEF Deltaic
    <3>2. j \in Nat /\ j + Texts(queue') = heard'.text
      BY <1>2, <1>4, <1>5, <1>8
    <3> HIDE DEF j
    <3> QED BY <3>1, <3>2 DEF Passing, Texts
  <2>4. StreamMeter'
    BY <1>3, <1>4, <1>6, <1>8, <2>2, <2>3 DEF StreamMeter
  <2> QED BY <1>2, <1>3, <2>4 DEF MeterInv
<1>9. ASSUME frames' = frames, Head(queue) # "text" PROVE Passing'
  <2>1. frames' = (Line!Opening \o Deltaic(k))'
    BY <1>2, <1>5, <1>9, WordsStay DEF Deltaic
  <2>2. k + Texts(queue') = heard'.text
    BY <1>2, <1>4, <1>5, <1>9
  <2> QED BY <2>1, <2>2 DEF Passing, Texts
<1>10. CASE Head(queue) = "usage"
  <2>1. route' = [route EXCEPT !.usage = Line!MeteredUsage(heard)] /\ frames' = frames
    BY <1>10 DEF Line!Consume
  <2>2. /\ route'.at = "streaming" /\ route'.ended = route.ended
        /\ route'.usage = Line!MeteredUsage(heard) /\ route'.finish = route.finish
    BY <1>1, <1>2, <2>1, LocalsAfter
  <2>3. Passing'
    BY <1>9, <1>10, <2>1
  <2>4. StreamMeter'
    <3>1. route'.ended => coming' = <<>>
      BY <1>1, <1>2, <2>2 DEF StreamMeter
    <3>2. route'.ended => queue' = <<>> /\ route'.usage = Line!MeteredUsage(heard)'
      BY <1>3, <1>4, <2>2
    <3> QED BY <1>3, <1>4, <1>6, <2>2, <2>3, <3>1, <3>2 DEF StreamMeter
  <2> QED BY <1>2, <1>3, <2>4 DEF MeterInv
<1>11. CASE Head(queue) \notin {"text", "usage"}
  <2>1. route' = [route EXCEPT !.finish = Head(queue)] /\ frames' = frames
    BY <1>11 DEF Line!Consume
  <2>2. /\ route'.at = "streaming" /\ route'.ended = route.ended /\ route'.finish = Head(queue)
    BY <1>1, <1>2, <2>1, LocalsAfter
  <2>3. Passing'
    BY <1>9, <1>11, <2>1
  <2>4. Head(queue) \in Stops
    BY <1>4, <1>11 DEF Chunks, Said, Stops
  <2>5. StreamMeter'
    BY <1>3, <1>4, <1>11, <2>2, <2>3, <2>4 DEF StreamMeter
  <2> QED BY <1>2, <1>3, <2>5 DEF MeterInv
<1> QED BY <1>7, <1>8, <1>10, <1>11

LEMMA StreamsClose ==
  ASSUME MeterInv, WireInv, setup.streamed, Line!EndStream, ~route.gone
  PROVE  MeterInv'
<1>1. ScriptTyped /\ StreamMeter /\ Handler(route) /\ StreamInv
  BY DEF MeterInv, WireInv
<1>2. /\ UNCHANGED <<setup, coming, buffer, heard, queue>> /\ route.at = "streaming"
      /\ route.ended /\ queue = <<>>
      /\ frames' = frames \o Line!Ending /\ route' = [route EXCEPT !.at = "ending"]
  BY DEF Line!EndStream, Line!Send, Line!Goto
<1>3. /\ route'.at = "ending" /\ route'.ended = route.ended /\ route'.usage = route.usage
      /\ route'.finish = route.finish /\ route'.failed = route.failed
  <2>1. Handler(route) /\ route' = [route EXCEPT !.at = "ending"]
    BY <1>1, <1>2
  <2> QED BY <2>1, LocalsAfter
<1>4. HeardSoFar' /\ ScriptTyped' /\ Line!MeteredUsage(heard)' = Line!MeteredUsage(heard)
  <2>1. HeardSoFar /\ setup' = setup /\ coming' = coming /\ buffer' = buffer /\ heard' = heard
    BY <1>1, <1>2 DEF StreamMeter
  <2>2. ScriptTyped'
    BY <1>1, <2>1, BodyStays
  <2> QED BY <2>1, <2>2, HeardStays
<1>5. PICK n \in Nat : frames = Line!Opening \o Deltaic(n) /\ n + Texts(queue) = heard.text
  BY <1>1, <1>2 DEF StreamMeter, Passing
<1>6. frames' = Line!Opening \o (Deltaic(n) \o Line!Ending)
  <2> DEFINE V == Vocabulary
  <2> DEFINE o == Line!Opening
  <2> DEFINE e == Line!Ending
  <2>1. o \in Seq(V) /\ Deltaic(n) \in Seq(V) /\ e \in Seq(V)
    BY Beginnings, EndsAreEnds
  <2> HIDE DEF V, o, e
  <2>2. (o \o Deltaic(n)) \o e = o \o (Deltaic(n) \o e)
    BY <2>1, ConcatAssociative
  <2> QED BY <1>2, <1>5, <2>2 DEF o, e
<1>7. Passed'
  <2>1. frames' = (Line!Opening \o (Deltaic(n) \o Line!Ending))'
    BY <1>2, <1>3, <1>6, WordsStay DEF Deltaic
  <2>2. n = heard'.text
    BY <1>2, <1>5, FewTexts
  <2> QED BY <2>1, <2>2 DEF Passed
<1>8. StreamMeter'
  BY <1>1, <1>2, <1>3, <1>4, <1>7 DEF StreamMeter
<1> QED BY <1>2, <1>4, <1>8 DEF MeterInv

LEMMA StreamsFail ==
  ASSUME MeterInv, WireInv, setup.streamed, Line!Apologize
  PROVE  MeterInv'
<1>1. ScriptTyped /\ StreamMeter /\ Handler(route)
  BY DEF MeterInv, WireInv
<1> DEFINE yes == TRUE
<1>2. /\ UNCHANGED <<setup, coming, buffer, heard, queue>>
      /\ route' = [route EXCEPT !.at = "ending", !.failed = yes]
  BY DEF Line!Apologize
<1> HIDE DEF yes
<1>3. /\ route'.at = "ending" /\ route'.ended = route.ended /\ route'.usage = route.usage
      /\ route'.finish = route.finish /\ route'.failed = yes
  <2>1. Handler(route) /\ route' = [route EXCEPT !.at = "ending", !.failed = yes]
    BY <1>1, <1>2
  <2> QED BY <2>1, LocalsAfter
<1>4. HeardSoFar' /\ ScriptTyped' /\ Line!MeteredUsage(heard)' = Line!MeteredUsage(heard)
  <2>1. HeardSoFar /\ setup' = setup /\ coming' = coming /\ buffer' = buffer /\ heard' = heard
    BY <1>1, <1>2 DEF StreamMeter
  <2>2. ScriptTyped'
    BY <1>1, <2>1, BodyStays
  <2> QED BY <2>1, <2>2, HeardStays
<1>5. StreamMeter'
  BY <1>1, <1>2, <1>3, <1>4 DEF StreamMeter, yes
<1> QED BY <1>2, <1>4, <1>5 DEF MeterInv

-----------------------------------------------------------------------------
(* Text is never metered with zero output by reconcileUsage.               *)
LEMMA TextCounts ==
  ASSUME NEW u \in Published, NEW t \in Nat, t > 0
  PROVE  Line!ReconcileUsage(u, t).output > 0
<1>1. Null \notin Nat
  BY LineAssumption
<1> DEFINE prompt == IF u.prompt # Null THEN u.prompt ELSE 0
<1> DEFINE claimed == IF u.completion # Null THEN u.completion
                      ELSE IF u.total # Null THEN u.total - prompt ELSE Null
<1>2. Line!ReconcileUsage(u, t).output = IF claimed = Null \/ (claimed = 0 /\ t > 0) THEN t ELSE claimed
  BY DEF Line!ReconcileUsage, Line!Usage
<1>3. claimed = Null \/ claimed \in {0, 9, 17}
  <2>1. PICK kind \in {"full", "zero", "total", "prompt", "none"} : u = Line!UpstreamUsage(kind)
    BY DEF Published
  <2>2. Line!NoUsage.prompt = Null /\ Line!NoUsage.completion = Null /\ Line!NoUsage.total = Null
        /\ Line!NoUsage = [prompt |-> Null, completion |-> Null, total |-> Null]
    BY DEF Line!NoUsage
  <2>3. \/ u.completion = 9 \/ u.completion = 0
        \/ u.completion = Null /\ u.prompt = Null /\ u.total = 17
        \/ u.completion = Null /\ u.total = Null
    BY <2>1, <2>2 DEF Line!UpstreamUsage
  <2> QED BY <1>1, <2>3
<1> HIDE DEF claimed
<1> QED BY <1>1, <1>2, <1>3

LEMMA WholeIsMetered ==
  ASSUME MeterInv, WireInv, NEW text \in 0 .. 1,
         NEW kind \in {"full", "zero", "total", "prompt", "none"}, Line!AnswerWhole(text, kind)
  PROVE  MeterInv'
<1> DEFINE whole == IF setup.adapter = "openai" THEN Line!WholeOpenAi(text, kind)
                                                ELSE Line!WholeAnthropic(text, kind)
<1> DEFINE written == [status |-> "success", usage |-> whole[1], billed |-> TRUE]
<1> DEFINE u == Line!UpstreamUsage(kind)
<1>1. /\ ~setup.streamed /\ setup' = setup /\ row' = written
      /\ heard' = [Line!Fresh EXCEPT !.text = text, !.reported = u]
  BY DEF Line!AnswerWhole
<1>2. u \in Published
  BY DEF Published
<1>3. heard'.text = text
  <2>1. Locals(Line!Fresh)
    BY FreshIs
  <2> HIDE DEF u
  <2> QED BY <1>1, <2>1 DEF Locals
<1>4. setup.adapter = "openai" => row'.usage = Line!ReconcileUsage(u, text)
  <2>1. row'.usage = whole[1]
    <3> HIDE DEF whole
    <3> QED BY <1>1
  <2> QED BY <2>1 DEF Line!WholeOpenAi
<1> HIDE DEF u, whole, written
<1>5. WholeMeter'
  <2>1. text \in Nat
    OBVIOUS
  <2> QED BY <1>1, <1>2, <1>3, <1>4, <2>1, TextCounts DEF WholeMeter
<1>6. ScriptTyped'
  BY <1>1, BodyStays DEF MeterInv
<1> QED BY <1>1, <1>5, <1>6 DEF MeterInv

LEMMA MeterStarts == Line!WireInit => MeterInv
<1> SUFFICES ASSUME Line!WireInit PROVE MeterInv
  OBVIOUS
<1> DEFINE r == [at |-> "calling", error |-> Null, usage |-> Line!Usage(0, 0), finish |-> "stop",
                 ended |-> FALSE, gone |-> FALSE, failed |-> FALSE]
<1>1. /\ setup \in Line!Setups /\ setup.script \in Scripts[setup.adapter]
      /\ coming = Body /\ buffer = <<>> /\ heard = Line!Fresh /\ queue = <<>>
      /\ route = r /\ row = Null
  BY DEF Line!WireInit, Body
<1>2. r.at = "calling" /\ r.finish = "stop" /\ ~r.ended
  OBVIOUS
<1> HIDE DEF r
<1>3. ScriptTyped
  <2>1. setup.adapter \in Line!Adapters /\ setup.cut \in BOOLEAN
    BY <1>1 DEF Line!Setups
  <2> QED BY <1>1, <2>1, LineAssumption DEF ScriptTyped
<1>4. HeardSoFar
  <2> DEFINE z == 0
  <2>1. z \in Nat /\ 4 * z = z /\ z + z = z /\ z \in 0 .. 3
    OBVIOUS
  <2>2. Size \in Nat /\ Len(Body) = Size /\ Body \in Seq(Pieces)
    BY <1>3, BodyIs
  <2>3. z <= Size /\ Size - z = Size
    BY <2>2
  <2>4. Body = Slice(z, Size)
    <3> DEFINE w == Slice(z, Size)
    <3>1. z + Size <= Size /\ \A i \in 1 .. Size : z + i = i
      BY <2>2
    <3> HIDE DEF z
    <3>2. w \in Seq(Pieces) /\ Len(w) = Size /\ \A i \in 1 .. Size : w[i] = Body[z + i]
      BY <1>3, <2>1, <2>2, <3>1, SliceIs
    <3> HIDE DEF w
    <3>3. \A i \in 1 .. Size : w[i] = Body[i]
      BY <3>1, <3>2
    <3>4. w = Body
      BY <2>2, <3>2, <3>3, SeqEqual
    <3> QED BY <3>4 DEF w
  <2>5. buffer = Piece(z, z)
    BY <1>1 DEF Piece, Slice
  <2>6. Locals(heard) /\ heard.chunks = <<>>
    BY <1>1, FreshIs
  <2>7. \A told : Follows(told) => Alike(heard, told[z])
    BY <1>1, AllAlike DEF Follows
  <2> HIDE DEF z
  <2>8. 4 * z + z = z /\ 4 * z = z
    BY <2>1
  <2>9. /\ 4 * z + z <= Size
        /\ buffer = Piece(z, z) /\ coming = Slice(4 * z + z, Size - (4 * z + z))
        /\ \A told : Follows(told) => Alike(heard, told[4 * z])
    BY <1>1, <2>3, <2>4, <2>5, <2>7, <2>8
  <2> QED BY <2>1, <2>6, <2>9 DEF HeardSoFar
<1>5. StreamMeter
  <2>1. "stop" \in Stops
    BY DEF Stops
  <2> QED BY <1>1, <1>2, <1>4, <2>1, FewTexts, FreshIs DEF StreamMeter
<1>6. WholeMeter
  BY <1>1 DEF WholeMeter
<1> QED BY <1>3, <1>5, <1>6 DEF MeterInv

LEMMA MeterKeeps ==
  ASSUME MeterInv, WireInv, Line!WireNext PROVE MeterInv'
<1>1. CASE \E text \in 0 .. 1, kind \in {"full", "zero", "total", "prompt", "none"} :
             Line!AnswerWhole(text, kind)
  BY <1>1, WholeIsMetered
<1>2. CASE (\E error : Line!Refused(error)) /\ ~setup.streamed
  <2>1. UNCHANGED <<setup, heard, row>>
    BY <1>2 DEF Line!Refused
  <2>2. WholeMeter
    BY <1>2 DEF MeterInv
  <2> QED BY <1>2, <2>1, <2>2, BodyStays DEF MeterInv, WholeMeter
<1>3. CASE \/ Line!Opens \/ Line!BodyEnds \/ Line!BodyBreaks \/ Line!Begin \/ Line!Consume
           \/ Line!EndStream \/ Line!Apologize \/ Line!Account \/ Line!ClientGoes
           \/ \E n \in 1 .. Len(coming) : Line!Read(n)
           \/ (\E error : Line!Refused(error)) /\ setup.streamed
  <2>1. setup.streamed
    <3>1. \/ setup.streamed
          \/ route.at \in {"opening", "streaming", "broken", "ending"}
      BY <1>3 DEF Line!Opens, Line!BodyEnds, Line!BodyBreaks, Line!Begin, Line!Consume,
                  Line!EndStream, Line!Apologize, Line!Account, Line!ClientGoes, Line!Read,
                  Line!Reading
    <3> QED BY <3>1, NoRowYet
  <2>2. CASE \E n \in 1 .. Len(coming) : Line!Read(n)
    BY <2>1, <2>2, StreamReads
  <2>3. CASE Line!BodyEnds
    BY <2>1, <2>3, StreamsEnd
  <2>4. CASE Line!Begin /\ ~route.gone
    BY <2>1, <2>4, StreamsBegin
  <2>5. CASE Line!Consume
    BY <2>1, <2>5, StreamsPassOn
  <2>6. CASE Line!EndStream /\ ~route.gone
    BY <2>1, <2>6, StreamsClose
  <2>7. CASE Line!Apologize
    BY <2>1, <2>7, StreamsFail
  <2>8. CASE \/ Line!Opens \/ Line!BodyBreaks \/ Line!ClientGoes \/ Line!Account
             \/ \E error : Line!Refused(error)
             \/ Line!Begin /\ route.gone
             \/ Line!EndStream /\ route.gone
    BY <2>1, <2>8, SilentSteps
  <2> QED BY <1>3, <2>2, <2>3, <2>4, <2>5, <2>6, <2>7, <2>8
<1>4. ASSUME NEW status \in Line!Statuses,
             Line!Refused(IF setup.adapter = "openai" THEN Line!RaiseForStatus(status)
                                                      ELSE Line!RaiseInPost(status))
      PROVE  \E error : Line!Refused(error)
  BY <1>4
<1>5. ASSUME NEW name, Line!Refused(Line!Unreachable(name)) PROVE \E error : Line!Refused(error)
  BY <1>5
<1> QED BY <1>1, <1>2, <1>3, <1>4, <1>5 DEF Line!WireNext

(* What was heard so far is what one reader of the whole body would have   *)
(* heard, and every delta of it was sent or waits to be.                   *)
THEOREM MeterInvariance == PathSpec => []MeterInv
<1>1. PathInit => MeterInv
  BY MeterStarts DEF PathInit
<1>2. MeterInv /\ WireInv /\ [PathNext]_<<part, vars, lineVars, poolVars, limitVars>> => MeterInv'
  <2> SUFFICES ASSUME MeterInv, WireInv, [PathNext]_<<part, vars, lineVars, poolVars, limitVars>>
               PROVE  MeterInv'
    OBVIOUS
  <2>1. CASE Line!WireNext
    BY <2>1, MeterKeeps
  <2>2. CASE UNCHANGED lineVars
    <3>1. /\ setup' = setup /\ coming' = coming /\ buffer' = buffer /\ heard' = heard
          /\ queue' = queue /\ route' = route /\ frames' = frames /\ row' = row
      BY <2>2 DEF lineVars
    <3>2. CASE setup.streamed
      BY <3>1, <3>2, SilentStep
    <3>3. CASE ~setup.streamed
      <4>1. ScriptTyped'
        BY <3>1, BodyStays DEF MeterInv
      <4>2. WholeMeter'
        BY <3>1, <3>3 DEF MeterInv, WholeMeter
      <4> QED BY <3>1, <3>3, <4>1, <4>2 DEF MeterInv
    <3> QED BY <3>2, <3>3
  <2> QED BY <2>1, <2>2 DEF PathNext
<1> QED BY <1>1, <1>2, WireInvariance, PTL DEF PathSpec

-----------------------------------------------------------------------------
(* A stream is closed with its row written.                                *)
Written == setup.streamed /\ route.at = "closed" => row.usage = route.usage

LEMMA WrittenKeeps ==
  ASSUME WireInv, Written, Line!WireNext PROVE Written'
<1>1. Handler(route)
  BY DEF WireInv
<1>2. CASE Line!Account
  <2> DEFINE written == [status |-> IF route.failed THEN "error" ELSE "success",
                         usage |-> route.usage, billed |-> ~route.failed]
  <2>1. row' = written /\ route' = [route EXCEPT !.at = "closed"]
    BY <1>2 DEF Line!Account, Line!Goto
  <2>2. written.usage = route.usage
    OBVIOUS
  <2> HIDE DEF written
  <2>3. route'.usage = route.usage
    BY <1>1, <2>1, LocalsAfter
  <2> QED BY <2>1, <2>2, <2>3 DEF Written
<1>3. CASE \E text \in 0 .. 1, kind \in {"full", "zero", "total", "prompt", "none"} :
             Line!AnswerWhole(text, kind)
  BY <1>3 DEF Line!AnswerWhole, Written
<1>4. CASE \/ \E v \in {"opening", "streaming", "broken", "ending"} : route' = [route EXCEPT !.at = v]
           \/ \E v \in {"advancing", "refused"} : \E w : route' = [route EXCEPT !.at = v, !.error = w]
           \/ route' = [route EXCEPT !.at = "ending", !.failed = TRUE]
  <2>1. route'.at # "closed"
    <3>1. CASE \E v \in {"opening", "streaming", "broken", "ending"} : route' = [route EXCEPT !.at = v]
      BY <1>1, <3>1, LocalsAfter
    <3>2. CASE \E v \in {"advancing", "refused"} : \E w : route' = [route EXCEPT !.at = v, !.error = w]
      BY <1>1, <3>2, LocalsAfter
    <3>3. CASE route' = [route EXCEPT !.at = "ending", !.failed = TRUE]
      <4> DEFINE yes == TRUE
      <4>1. route' = [route EXCEPT !.at = "ending", !.failed = yes]
        BY <3>3
      <4> HIDE DEF yes
      <4> QED BY <1>1, <4>1, LocalsAfter
    <3> QED BY <1>4, <3>1, <3>2, <3>3
  <2> QED BY <2>1 DEF Written
<1>5. CASE /\ route.at \in {"opening", "streaming"}
           /\ \/ route' = route
              \/ \E v : route' = [route EXCEPT !.ended = v]
              \/ \E v : route' = [route EXCEPT !.gone = v]
              \/ \E v : route' = [route EXCEPT !.usage = v]
              \/ \E v : route' = [route EXCEPT !.finish = v]
  <2>1. route'.at = route.at
    <3>1. CASE \E v : route' = [route EXCEPT !.ended = v]
      BY <1>1, <3>1, LocalsAfter
    <3>2. CASE \E v : route' = [route EXCEPT !.gone = v]
      BY <1>1, <3>2, LocalsAfter
    <3>3. CASE \E v : route' = [route EXCEPT !.usage = v]
      BY <1>1, <3>3, LocalsAfter
    <3>4. CASE \E v : route' = [route EXCEPT !.finish = v]
      BY <1>1, <3>4, LocalsAfter
    <3> QED BY <1>5, <3>1, <3>2, <3>3, <3>4
  <2> QED BY <1>5, <2>1 DEF Written
<1>6. CASE Line!Opens
  <2>1. route' = [route EXCEPT !.at = "opening"]
    BY <1>6 DEF Line!Opens, Line!Goto
  <2> QED BY <1>4, <2>1
<1>7. ASSUME NEW error, Line!Refused(error) PROVE Written'
  <2> DEFINE v == IF Line!IsFallbackWorthy(error) THEN "advancing" ELSE "refused"
  <2>1. route' = [route EXCEPT !.at = v, !.error = error] /\ v \in {"advancing", "refused"}
    BY <1>7 DEF Line!Refused
  <2> HIDE DEF v
  <2> QED BY <1>4, <2>1
<1>8. CASE (\E n \in 1 .. Len(coming) : Line!Read(n)) \/ Line!BodyEnds \/ Line!ClientGoes
  <2>1. /\ route.at \in {"opening", "streaming"}
        /\ \/ route' = route \/ route' = [route EXCEPT !.ended = TRUE]
           \/ route' = [route EXCEPT !.gone = TRUE]
    BY <1>8 DEF Line!Read, Line!Reading, Line!BodyEnds, Line!ClientGoes
  <2> QED BY <1>5, <2>1
<1>9. CASE Line!BodyBreaks
  <2>1. \/ route' = [route EXCEPT !.at = "refused", !.error = Line!Unclassified]
        \/ route' = [route EXCEPT !.at = "broken"]
    BY <1>9 DEF Line!BodyBreaks
  <2> QED BY <1>4, <2>1
<1>10. CASE Line!Begin \/ Line!EndStream \/ Line!Consume
  <2>1. CASE Line!Begin
    BY <1>4, <2>1 DEF Line!Begin, Line!Send, Line!Goto
  <2>2. CASE Line!EndStream
    BY <1>4, <2>2 DEF Line!EndStream, Line!Send, Line!Goto
  <2>3. CASE Line!Consume /\ Head(queue) = "text"
    BY <1>4, <2>3 DEF Line!Consume, Line!Send, Line!Goto
  <2>4. CASE Line!Consume /\ Head(queue) # "text"
    <3>1. /\ route.at = "streaming"
          /\ \/ route' = [route EXCEPT !.usage = Line!MeteredUsage(heard)]
             \/ route' = [route EXCEPT !.finish = Head(queue)]
      BY <2>4 DEF Line!Consume
    <3> QED BY <1>5, <3>1
  <2> QED BY <1>10, <2>1, <2>2, <2>3, <2>4
<1>11. CASE Line!Apologize
  BY <1>4, <1>11 DEF Line!Apologize
<1>12. ASSUME NEW status \in Line!Statuses,
             Line!Refused(IF setup.adapter = "openai" THEN Line!RaiseForStatus(status)
                                                      ELSE Line!RaiseInPost(status))
       PROVE  \E error : Line!Refused(error)
  BY <1>12
<1>13. ASSUME NEW name, Line!Refused(Line!Unreachable(name)) PROVE \E error : Line!Refused(error)
  BY <1>13
<1> QED BY <1>2, <1>3, <1>6, <1>7, <1>8, <1>9, <1>10, <1>11, <1>12, <1>13 DEF Line!WireNext

LEMMA WrittenInvariance == PathSpec => []Written
<1>1. PathInit => Written
  <2> SUFFICES ASSUME PathInit PROVE Written
    OBVIOUS
  <2>1. route.at = "calling"
    BY DEF PathInit, Line!WireInit
  <2> QED BY <2>1 DEF Written
<1>2. Written /\ WireInv /\ [PathNext]_<<part, vars, lineVars, poolVars, limitVars>> => Written'
  <2> SUFFICES ASSUME Written, WireInv, [PathNext]_<<part, vars, lineVars, poolVars, limitVars>>
               PROVE  Written'
    OBVIOUS
  <2>1. CASE Line!WireNext
    BY <2>1, WrittenKeeps
  <2>2. CASE UNCHANGED lineVars
    BY <2>2 DEF lineVars, Written
  <2> QED BY <2>1, <2>2 DEF PathNext
<1> QED BY <1>1, <1>2, WireInvariance, PTL DEF PathSpec

(* Neither the opening nor the ending of a stream holds a delta.           *)
LEMMA NoDeltaElsewhere ==
  ASSUME route.finish \in Stops
  PROVE  /\ \A i \in 1 .. Len(Line!Opening) : Line!Opening[i] # Line!DeltaFrame
         /\ \A i \in 1 .. Len(Line!Ending) : Line!Ending[i] # Line!DeltaFrame
<1> DEFINE d == Line!DeltaFrame
<1> DEFINE w(kind) == Line!Frame(kind)
<1> DEFINE c(kind) == Line!UsageFrame(kind)
<1> DEFINE reason == Line!StopReason(route.finish)
<1>1. reason \notin {"delta", "content_block_delta"}
  BY DEF Line!StopReason, Stops
<1>2. /\ \A kind : w(kind).kind = kind /\ c(kind).kind = kind
      /\ d.kind \in {"delta", "content_block_delta"}
  BY DEF Line!Frame, Line!UsageFrame, Line!DeltaFrame
<1>3. /\ Line!Opening = <<w("role")>> \/ Line!Opening = <<w("message_start"), w("content_block_start")>>
      /\ \/ Line!Ending = <<w(reason), c("usage"), w("DONE")>> \/ Line!Ending = <<w(reason), w("DONE")>>
         \/ Line!Ending = <<w("content_block_stop"), c(reason), w("message_stop")>>
  BY DEF Line!Opening, Line!Ending
<1>4. /\ w("role") # d /\ w("message_start") # d /\ w("content_block_start") # d /\ w("DONE") # d
      /\ w(reason) # d /\ c(reason) # d /\ c("usage") # d /\ w("content_block_stop") # d
      /\ w("message_stop") # d
  <2> HIDE DEF d, w, c, reason
  <2> QED BY <1>1, <1>2
<1> HIDE DEF d, w, c, reason
<1>5. \A i \in 1 .. Len(Line!Opening) : Line!Opening[i] # d
  <2>1. CASE Line!Opening = <<w("role")>>
    BY <1>4, <2>1
  <2>2. CASE Line!Opening = <<w("message_start"), w("content_block_start")>>
    BY <1>4, <2>2
  <2> QED BY <1>3, <2>1, <2>2
<1>6. \A i \in 1 .. Len(Line!Ending) : Line!Ending[i] # d
  <2>1. CASE Line!Ending = <<w(reason), c("usage"), w("DONE")>>
    BY <1>4, <2>1
  <2>2. CASE Line!Ending = <<w(reason), w("DONE")>>
    BY <1>4, <2>2
  <2>3. CASE Line!Ending = <<w("content_block_stop"), c(reason), w("message_stop")>>
    BY <1>4, <2>3
  <2> QED BY <1>3, <2>1, <2>2, <2>3
<1> QED BY <1>5, <1>6 DEF d

LEMMA DeltasAre ==
  ASSUME route.finish \in Stops, NEW n \in Nat,
         frames = Line!Opening \o (Deltaic(n) \o Line!Ending)
  PROVE  Line!Deltas = n
<1> DEFINE V == Vocabulary
<1> DEFINE o == Line!Opening
<1> DEFINE e == Line!Ending
<1> DEFINE u == Deltaic(n)
<1> DEFINE d == Line!DeltaFrame
<1>1. /\ o \in Seq(V) /\ u \in Seq(V) /\ e \in Seq(V) /\ Len(u) = n
      /\ \A i \in 1 .. n : u[i] = d
      /\ \A i \in 1 .. Len(o) : o[i] # d
      /\ \A i \in 1 .. Len(e) : e[i] # d
      /\ frames = o \o (u \o e)
  <2>1. o \in Seq(V) /\ u \in Seq(V) /\ e \in Seq(V) /\ Len(u) = n
    BY Beginnings, EndsAreEnds
  <2>2. \A i \in 1 .. n : u[i] = d
    BY DEF Deltaic
  <2>3. (\A i \in 1 .. Len(o) : o[i] # d) /\ (\A i \in 1 .. Len(e) : e[i] # d)
    BY NoDeltaElsewhere
  <2> QED BY <2>1, <2>2, <2>3
<1> HIDE DEF V, o, e, u, d
<1> DEFINE a == Len(o)
<1> DEFINE b == Len(e)
<1>2. a \in Nat /\ b \in Nat
  BY <1>1, LenProperties
<1> DEFINE t == u \o e
<1>3. t \in Seq(V) /\ Len(t) = n + b /\ \A i \in 1 .. n + b : t[i] = IF i <= n THEN u[i] ELSE e[i - n]
  BY <1>1, ConcatProperties
<1> HIDE DEF t
<1>4. /\ frames \in Seq(V) /\ Len(frames) = a + (n + b)
      /\ \A i \in 1 .. a + (n + b) : frames[i] = IF i <= a THEN o[i] ELSE t[i - a]
  <2>1. frames = o \o t
    BY <1>1 DEF t
  <2> DEFINE f == o \o t
  <2>2. f \in Seq(V) /\ Len(f) = Len(o) + Len(t)
        /\ \A i \in 1 .. Len(o) + Len(t) : f[i] = IF i <= Len(o) THEN o[i] ELSE t[i - Len(o)]
    <3>1. o \in Seq(V) /\ t \in Seq(V)
      BY <1>1, <1>3
    <3> QED BY <3>1, ConcatProperties, Zenon
  <2>3. frames = f
    BY <2>1
  <2> HIDE DEF f
  <2>4. Len(o) + Len(t) = a + (n + b)
    BY <1>3
  <2> QED BY <2>2, <2>3, <2>4
<1> HIDE DEF a, b
<1>5. ASSUME NEW i \in 1 .. a + (n + b) PROVE frames[i] = d <=> i \in a + 1 .. a + n
  <2>1. CASE i <= a
    <3>1. frames[i] = o[i]
      BY <1>4, <1>5, <2>1
    <3>2. i \in 1 .. a
      <4>1. i \in Int /\ i >= 1
        BY <1>2, <1>5
      <4> QED BY <1>2, <2>1, <4>1
    <3>3. o[i] # d
      <4>1. i \in 1 .. Len(o)
        BY <3>2 DEF a
      <4> QED BY <1>1, <4>1
    <3>4. i \notin a + 1 .. a + n
      BY <1>2, <2>1
    <3> QED BY <3>1, <3>3, <3>4
  <2>2. CASE i \in a + 1 .. a + n
    <3> DEFINE k == i - a
    <3>1. k \in 1 .. n /\ k \in 1 .. n + b /\ frames[i] = t[k]
      BY <1>2, <1>4, <2>2
    <3> HIDE DEF k
    <3>2. t[k] = d
      BY <1>1, <1>3, <3>1
    <3> QED BY <2>2, <3>1, <3>2
  <2>3. CASE i > a + n
    <3> DEFINE k == i - a
    <3> DEFINE j == i - a - n
    <3>1. k \in 1 .. n + b /\ ~(k <= n) /\ j \in 1 .. b /\ k - n = j /\ frames[i] = t[k]
          /\ i \notin a + 1 .. a + n
      BY <1>2, <1>4, <2>3
    <3> HIDE DEF k, j
    <3>2. t[k] = e[j] /\ j \in 1 .. Len(e)
      BY <1>3, <3>1 DEF b
    <3> QED BY <1>1, <3>1, <3>2
  <2>4. i <= a \/ i \in a + 1 .. a + n \/ i > a + n
    <3>1. i \in Int /\ i >= 1 /\ a \in Int /\ n \in Int
      BY <1>2, <1>5
    <3> QED BY <3>1
  <2> QED BY <2>1, <2>2, <2>3, <2>4
<1>6. {i \in DOMAIN frames : frames[i] = d} = a + 1 .. a + n
  <2>1. DOMAIN frames = 1 .. a + (n + b)
    BY <1>4, LenProperties
  <2>2. a + 1 .. a + n \subseteq 1 .. a + (n + b)
    BY <1>2
  <2> QED BY <1>5, <2>1, <2>2
<1>7. Cardinality(a + 1 .. a + n) = n
  <2> DEFINE p == a + 1
  <2> DEFINE q == a + n
  <2>1. p \in Int /\ q \in Int /\ (p > q => n = 0) /\ q - p + 1 = n
    BY <1>2
  <2> HIDE DEF p, q
  <2>2. Cardinality(p .. q) = IF p > q THEN 0 ELSE q - p + 1
    BY <2>1, FS_Interval
  <2>3. Cardinality(p .. q) = n
    BY <2>1, <2>2
  <2> QED BY <2>3 DEF p, q
<1>8. Line!Deltas = Cardinality({i \in DOMAIN frames : frames[i] = d})
  BY DEF Line!Deltas, Line!Cardinality, Cardinality, d
<1> QED BY <1>6, <1>7, <1>8

-----------------------------------------------------------------------------
(* A reader of the whole body has heard what was heard of it.              *)
LEMMA HeardIsReference ==
  ASSUME ScriptTyped, HeardSoFar, coming = <<>>
  PROVE  Alike(heard, Line!Reference)
<1>1. PICK c \in Nat, r \in 0 .. 3 :
        /\ 4 * c + r <= Size
        /\ buffer = Piece(c, r) /\ coming = Slice(4 * c + r, Size - (4 * c + r))
        /\ \A told : Follows(told) => Alike(heard, told[4 * c])
  BY DEF HeardSoFar
<1> DEFINE f == 4 * c + r
<1> DEFINE k == Size - f
<1>2. Size \in Nat /\ Len(Body) = Size /\ f \in Nat /\ k \in Nat /\ f + k <= Size
  BY <1>1, BodyIs
<1>3. k = 0
  <2>1. coming = Slice(f, k)
    BY <1>1
  <2> HIDE DEF f, k
  <2>2. Len(Slice(f, k)) = k
    BY <1>2, SliceIs
  <2> QED BY <2>1, <2>2
<1>4. 4 * c + r = Size
  BY <1>2, <1>3
<1>5. Told[4 * c + r] = Told[4 * c] /\ Follows(Told)
  BY <1>4, ToldIs DEF Follows
<1>6. Alike(heard, Told[4 * c])
  BY <1>1, <1>5
<1>7. Line!Reference = Told[Size]
  BY <1>2 DEF Line!Reference, Told, Body
<1> QED BY <1>4, <1>5, <1>6, <1>7

LEMMA ReadsFollow == MeterInv /\ WireInv /\ Written => Line!ReadsDoNotMatter
<1> SUFFICES ASSUME MeterInv, Written, Line!Ended
             PROVE  Line!Deltas = Line!Reference.text
                    /\ row.usage = Line!MeteredUsage(Line!Reference)
  BY DEF Line!ReadsDoNotMatter
<1>1. /\ ScriptTyped /\ HeardSoFar /\ coming = <<>> /\ Passed /\ route.finish \in Stops
      /\ route.usage = Line!MeteredUsage(heard) /\ row.usage = route.usage
  <2>1. route.at = "closed" /\ setup.streamed /\ ~route.failed
    BY DEF Line!Ended
  <2>2. ScriptTyped /\ StreamMeter
    BY <2>1 DEF MeterInv
  <2>3. route.ended /\ queue = <<>> /\ Passed
    BY <2>1, <2>2 DEF StreamMeter
  <2>4. queue # <<"usage">>
    BY <2>3
  <2> QED BY <2>1, <2>2, <2>3, <2>4 DEF StreamMeter, Written
<1>2. Alike(heard, Line!Reference)
  BY <1>1, HeardIsReference
<1>3. Line!MeteredUsage(heard) = Line!MeteredUsage(Line!Reference)
  BY <1>2 DEF Line!MeteredUsage, Alike
<1>4. Line!Deltas = heard.text
  <2>1. PICK n \in Nat : frames = Line!Opening \o (Deltaic(n) \o Line!Ending) /\ n = heard.text
    BY <1>1 DEF Passed
  <2> QED BY <1>1, <2>1, DeltasAre
<1> QED BY <1>1, <1>2, <1>3, <1>4 DEF Alike

LEMMA TextFollows == MeterInv /\ WireInv => Line!TextIsMetered
<1> SUFFICES ASSUME MeterInv, WireInv, row # Null, row.billed, setup.adapter = "openai", heard.text > 0
             PROVE  row.usage.output > 0
  BY DEF Line!TextIsMetered
<1>1. CASE ~setup.streamed
  BY <1>1 DEF MeterInv, WholeMeter
<1>2. CASE setup.streamed
  <2>1. route.at = "closed" /\ row.usage = route.usage /\ ~route.failed
    BY <1>2 DEF WireInv, StreamInv
  <2>2. StreamMeter
    BY <1>2 DEF MeterInv
  <2>3. route.ended /\ queue = <<>> /\ HeardSoFar
    BY <2>1, <2>2 DEF StreamMeter
  <2>4. queue # <<"usage">>
    BY <2>3
  <2>5. route.usage = Line!ReconcileUsage(heard.reported, heard.text)
    BY <2>2, <2>3, <2>4 DEF StreamMeter, Line!MeteredUsage
  <2>6. heard.reported \in Published /\ heard.text \in Nat
    BY <2>3 DEF HeardSoFar, Locals
  <2> QED BY <2>1, <2>5, <2>6, TextCounts
<1> QED BY <1>1, <1>2

(* What the usage row bills is what the upstream sent, wherever its reads  *)
(* end, text is never metered with zero output, and the caller reads the   *)
(* counts that are billed and is not billed for a stream that broke.       *)
THEOREM AnswersAreMetered == PathSpec => []MeteringIsHonest
<1>1. MeterInv /\ WireInv /\ Written => MeteringIsHonest
  BY ReadsFollow, TextFollows, BilledIsToldAt DEF MeteringIsHonest, Line!MeteringIsHonest
<1> QED BY <1>1, MeterInvariance, WireInvariance, WrittenInvariance, PTL
=============================================================================
