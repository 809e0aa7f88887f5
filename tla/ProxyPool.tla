------------------------------ MODULE ProxyPool -----------------------------
(***************************************************************************)
(* One provider's proxies and the requests that go out through them        *)
(* (src/src/lib/providers/proxy.ts): round-robin selection, a cooldown     *)
(* after a transport failure, one retry, and the pool's close when its     *)
(* list was edited.  One event loop: from one await to the next is a step. *)
(***************************************************************************)
EXTENDS Integers, FiniteSets, Sequences, Absent

CONSTANTS
  Size,      \* the pool's entries are 1 .. Size, in the order of the list
  Fetches,   \* concurrent requests
  Cooldown,  \* COOLDOWN_MS, in ticks
  MaxNow     \* bound on time

VARIABLES
  cursor,         \* entries before the one to be looked at next
  cooldownUntil,  \* cooldownUntil[e]
  now,
  closed,         \* close() has been called: agents take no new request
  fetch,          \* fetch[f]: one fetchThroughPool
  uses            \* uses[e]: requests sent through e since the pool was made

poolVars == <<cursor, cooldownUntil, now, closed, fetch, uses>>

Entries == 1 .. Size

Fetch == [at : {"idle", "sent", "done"}, via : Entries \union {Null},
          tried : Seq(Entries), signal : {"live", "timeout", "abort"},
          refused : BOOLEAN, result : {Null, "response", "error"}]

NewFetch == [at |-> "idle", via |-> Null, tried |-> <<>>, signal |-> "live",
             refused |-> FALSE, result |-> Null]

Min2(a, b) == IF a < b THEN a ELSE b
Attempts == Min2(2, Size)

-----------------------------------------------------------------------------
(* next(), given the cooldowns.                                            *)

(* The entry looked at i-th, from the cursor on.                           *)
Scanned(i) == ((cursor + i - 1) % Size) + 1

Ready(cools) == {i \in Entries : cools[Scanned(i)] <= now}

(* Fault: the first of the list stands in when all are parked.             *)
FirstOfAll(cools) == 1

(* All are parked: the one with the earliest end, the first in the list.   *)
LeastRecent(cools) ==
  CHOOSE e \in Entries : \A d \in Entries :
    cools[e] < cools[d] \/ (cools[e] = cools[d] /\ e <= d)

Looked(cools) ==
  IF Ready(cools) = {} THEN Size ELSE CHOOSE i \in Ready(cools) : \A j \in Ready(cools) : i <= j

Chosen(cools) == IF Ready(cools) = {} THEN LeastRecent(cools) ELSE Scanned(Looked(cools))

(* Fault: the cursor stays where a ready entry was found.                  *)
AdvancedNot(cools) == (cursor + Looked(cools) - 1) % Size

(* The cursor has passed every entry it looked at.                         *)
Advanced(cools) == (cursor + Looked(cools)) % Size

-----------------------------------------------------------------------------
(* fetchThroughPool.                                                       *)

Send(f, cools) ==
  /\ cursor' = Advanced(cools)
  /\ uses' = [uses EXCEPT ![Chosen(cools)] = @ + 1]
  /\ fetch' = [fetch EXCEPT ![f] = [fetch[f] EXCEPT
                 !.at = "sent", !.via = Chosen(cools),
                 !.tried = Append(fetch[f].tried, Chosen(cools)), !.refused = closed]]

Finish(f, result) ==
  /\ fetch' = [fetch EXCEPT ![f] = [fetch[f] EXCEPT !.at = "done", !.result = result]]
  /\ UNCHANGED <<cursor, uses>>

Start(f) ==
  /\ fetch[f].at = "idle"
  /\ Send(f, cooldownUntil)
  /\ UNCHANGED <<cooldownUntil, now, closed>>

(* Any HTTP response, a 429 included, is handed to the adapter.            *)
Respond(f) ==
  /\ fetch[f].at = "sent" /\ fetch[f].signal = "live" /\ ~fetch[f].refused
  /\ Finish(f, "response")
  /\ UNCHANGED <<cooldownUntil, now, closed>>

(* Fault: a failed entry is not parked.                                    *)
PenalisedNot(e) == cooldownUntil

Penalised(e) == [cooldownUntil EXCEPT ![e] = now + Cooldown]

(* The fetch rejects with an error not named AbortError: the connection    *)
(* failed, the agent is closed, or AbortSignal.timeout fired, whose error  *)
(* is a TimeoutError.  The entry is parked and the next is tried in the    *)
(* same turn, with the same signal.                                        *)
TransportFails(f) ==
  /\ fetch[f].at = "sent" /\ fetch[f].signal # "abort"
  /\ cooldownUntil' = Penalised(fetch[f].via)
  /\ IF Len(fetch[f].tried) < Attempts THEN Send(f, Penalised(fetch[f].via))
                                       ELSE Finish(f, "error")
  /\ UNCHANGED <<now, closed>>

(* AbortError: rethrown, and nobody is blamed.                             *)
Aborted(f) ==
  /\ fetch[f].at = "sent" /\ fetch[f].signal = "abort"
  /\ Finish(f, "error")
  /\ UNCHANGED <<cooldownUntil, now, closed>>

(* The caller's signal: its own timeout, or its client left.               *)
Fire(f, signal) ==
  /\ fetch[f].at = "sent" /\ fetch[f].signal = "live"
  /\ fetch' = [fetch EXCEPT ![f] = [fetch[f] EXCEPT !.signal = signal]]
  /\ UNCHANGED <<cursor, cooldownUntil, now, closed, uses>>

(* The list was edited: retireUnusedPools or poolFor closes this pool.     *)
(* Requests on their way are finished by the agents, later ones refused.   *)
Close ==
  /\ ~closed
  /\ closed' = TRUE
  /\ UNCHANGED <<cursor, cooldownUntil, now, fetch, uses>>

Tick ==
  /\ now < MaxNow
  /\ now' = now + 1
  /\ UNCHANGED <<cursor, cooldownUntil, closed, fetch, uses>>

(* A finished request's slot is taken by a later one.                      *)
Reuse(f) ==
  /\ fetch[f].at = "done"
  /\ \A e \in Entries : uses[e] < 2
  /\ fetch' = [fetch EXCEPT ![f] = NewFetch]
  /\ UNCHANGED <<cursor, cooldownUntil, now, closed, uses>>

-----------------------------------------------------------------------------
PoolInit ==
  /\ cursor = 0 /\ cooldownUntil = [e \in Entries |-> 0]
  /\ now = 0 /\ closed = FALSE
  /\ fetch = [f \in Fetches |-> NewFetch]
  /\ uses = [e \in Entries |-> 0]

PoolNext ==
  \/ \E f \in Fetches :
       \/ Start(f) \/ Respond(f) \/ TransportFails(f) \/ Aborted(f) \/ Reuse(f)
       \/ \E signal \in {"timeout", "abort"} : Fire(f, signal)
  \/ Close \/ Tick

-----------------------------------------------------------------------------
Goes(f) == fetch'[f].tried # fetch[f].tried /\ fetch'[f].tried # <<>>
Parked(e) == cooldownUntil'[e] > now

(* However the requests interleave, none is sent through a parked entry    *)
(* while another is free, and when all are parked it is sent all the same, *)
(* through one that failed least recently: "a stale cooldown must not turn *)
(* `all proxies had a blip' into `this provider is unreachable'".          *)
PassesOverParked(f) ==
  Parked(fetch'[f].via) =>
    \A e \in Entries : cooldownUntil'[e] >= cooldownUntil'[fetch'[f].via]

(* "Retrying the next proxy once": the second attempt of a request leaves  *)
(* through another entry than the one that just failed, unless all others  *)
(* have failed in the same instant, and there is no third attempt.         *)
MovesOn(f) ==
  Len(fetch'[f].tried) > 1 =>
    /\ Len(fetch'[f].tried) <= 2
    /\ fetch'[f].via = fetch[f].via =>
         \A e \in Entries : cooldownUntil'[e] = now + Cooldown

(* "Spreads that traffic": as long as no proxy has failed, the requests    *)
(* sent through any two of them differ by at most one, whoever sent them.  *)
LoadIsSpread ==
  (\A e \in Entries : cooldownUntil[e] = 0) =>
    \A e, d \in Entries : uses[e] <= uses[d] + 1

(* What rotation promises, of every request that is sent.                  *)
RotationIsFair ==
  [][/\ LoadIsSpread'
     /\ \A f \in Fetches : Goes(f) => PassesOverParked(f) /\ MovesOn(f)]_poolVars

-----------------------------------------------------------------------------
(* What a comment of the code says, refuted by a run.                      *)

(* "An abort is the caller's timeout or disconnect, not the proxy's fault  *)
(* - rotating would burn a second proxy on a request that is already over."*)
OverIsNotRepeated ==
  [][\A f \in Fetches : Goes(f) => fetch'[f].signal = "live"]_poolVars
=============================================================================
