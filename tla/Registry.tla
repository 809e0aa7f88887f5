------------------------------ MODULE Registry ------------------------------
(***************************************************************************)
(* The provider registry of one instance (src/src/lib/providers/registry   *)
(* .ts): a snapshot of provider_configs cached for CACHE_TTL_MS, a load    *)
(* shared by the requests that miss it, and the proxy pools that outlive   *)
(* snapshots.  Operators write rows through this instance, which drops the *)
(* cache afterwards, or through another one, which does not.               *)
(*                                                                         *)
(* The instance is one event loop: a step ends where the code awaits.      *)
(* What follows a load's reply, up to the two promise reactions that store *)
(* the snapshot and clear inFlight, is one step.                           *)
(***************************************************************************)
EXTENDS Integers, FiniteSets, Sequences

CONSTANTS
  Null,
  Builtins,   \* ids compiled in; their rows only annotate
  Customs,    \* ids that exist only as rows
  Ciphers,    \* sealed proxy lists that open and are not empty
  Calls,      \* concurrent resolutions
  MaxWrites,  \* bound on the writes of operators
  Loads       \* bound: 1 .. n, the reads that can be in flight

VARIABLES
  history,    \* history[v]: the rows after v - 1 writes; the last is the table
  pending,    \* versions written here whose invalidation has not run
  snapshot,   \* the cached snapshot, or Null
  inFlight,   \* the load new requests join, or Null
  loads,      \* loads[l]: the findMany in flight, and the version it read
  live,       \* livePools
  open,       \* the pools whose sockets are open
  calls       \* calls[c]: one currentSnapshot in progress, or its result

vars == <<history, pending, snapshot, inFlight, loads, live, open, calls>>

Providers == Builtins \union Customs

Row == [enabled : BOOLEAN, proxyCipher : Ciphers \union {Null}]

(* The switch of a builtin's row is not looked at: one value stands for it.*)
RowsOf(p) == {row \in Row : p \in Builtins => row.enabled}

Pools == Providers \X {1, 2}

Snapshot == [version : Nat, routes : SUBSET Providers,
             pools : [Providers -> Pools \union {Null}], expired : BOOLEAN]

Load == [at : {"idle", "reading", "read"}, version : Nat, ok : BOOLEAN]

CallState == [at : {"idle", "waiting", "resolved"}, load : Loads \union {Null}, version : Nat]

ASSUME RegistryAssumption ==
  /\ Builtins \intersect Customs = {}
  /\ MaxWrites \in Nat /\ Loads \subseteq Nat
  /\ Null \notin Ciphers /\ Null \notin Loads /\ Null \notin Pools

Version == Len(history)

Idle == [at |-> "idle", version |-> 0, ok |-> TRUE]

NoCall == [at |-> "idle", load |-> Null, version |-> 0]

-----------------------------------------------------------------------------
(* Requests: currentSnapshot.                                              *)

(* Resolution c, begun now, is answered from version v.                    *)
Answer(v) == [NoCall EXCEPT !.at = "resolved", !.version = v]

(* Fault: the age of the snapshot is not looked at.                        *)
HitAnyAge(c) ==
  /\ calls[c].at = "idle"
  /\ snapshot # Null
  /\ calls' = [calls EXCEPT ![c] = Answer(snapshot.version)]
  /\ UNCHANGED <<history, pending, snapshot, inFlight, loads, live, open>>

Hit(c) ==
  /\ calls[c].at = "idle"
  /\ snapshot # Null /\ ~snapshot.expired
  /\ calls' = [calls EXCEPT ![c] = Answer(snapshot.version)]
  /\ UNCHANGED <<history, pending, snapshot, inFlight, loads, live, open>>

Misses == ~(snapshot # Null /\ ~snapshot.expired)

Waiting(l) == [NoCall EXCEPT !.at = "waiting", !.load = l]

Join(c) ==
  /\ calls[c].at = "idle" /\ Misses
  /\ inFlight # Null
  /\ calls' = [calls EXCEPT ![c] = Waiting(inFlight)]
  /\ UNCHANGED <<history, pending, snapshot, inFlight, loads, live, open>>

(* Fault: every request that misses reads the table itself.                *)
StartLoadEach(c, l) ==
  /\ calls[c].at = "idle" /\ Misses
  /\ loads[l].at = "idle"
  /\ inFlight' = l
  /\ loads' = [loads EXCEPT ![l] = [Idle EXCEPT !.at = "reading"]]
  /\ calls' = [calls EXCEPT ![c] = Waiting(l)]
  /\ UNCHANGED <<history, pending, snapshot, live, open>>

StartLoad(c, l) ==
  /\ calls[c].at = "idle" /\ Misses
  /\ inFlight = Null
  /\ loads[l].at = "idle" /\ \A k \in Loads : k < l => loads[k].at # "idle"
  /\ inFlight' = l
  /\ loads' = [loads EXCEPT ![l] = [Idle EXCEPT !.at = "reading"]]
  /\ calls' = [calls EXCEPT ![c] = Waiting(l)]
  /\ UNCHANGED <<history, pending, snapshot, live, open>>

(* The request goes on with the provider it got.                           *)
Release(c) ==
  /\ calls[c].at = "resolved"
  /\ calls' = [calls EXCEPT ![c] = NoCall]
  /\ UNCHANGED <<history, pending, snapshot, inFlight, loads, live, open>>

-----------------------------------------------------------------------------
(* loadSnapshot.                                                           *)

(* The database executes findMany; the reply is still on its way.          *)
ReadRows(l) ==
  /\ loads[l].at = "reading"
  /\ \E ok \in BOOLEAN :
       loads' = [loads EXCEPT ![l] = [at |-> "read", version |-> Version, ok |-> ok]]
  /\ UNCHANGED <<history, pending, snapshot, inFlight, live, open, calls>>

(* The rows load l came back with; a read that failed is caught and leaves *)
(* an empty list.                                                          *)
Returned(l, p) ==
  IF loads[l].ok THEN history[loads[l].version][p]
                 ELSE [enabled |-> FALSE, proxyCipher |-> Null]

(* The proxy list whose pool p is to have: none for a disabled custom row. *)
WantedCipher(l, p) ==
  IF p \in Customs /\ ~Returned(l, p).enabled THEN Null ELSE Returned(l, p).proxyCipher

Unchanged(l, p) == live[p] # Null /\ live[p].cipher = WantedCipher(l, p)

(* poolFor and retireUnusedPools: keep the agents of an unchanged list,    *)
(* build those of a new one.                                               *)
LivePools(l) ==
  [p \in Providers |->
     IF Unchanged(l, p) THEN live[p]
     ELSE IF WantedCipher(l, p) = Null THEN Null
     ELSE [cipher |-> WantedCipher(l, p),
           pool |-> CHOOSE pool \in {p} \X {1, 2} : pool \notin open]]

(* Fault: a pool whose list was emptied is forgotten without a close.      *)
OpenPoolsLeaky(l) ==
  LET replaced == {p \in Providers : live[p] # Null /\ LivePools(l)[p] # Null
                                       /\ ~Unchanged(l, p)}
      made == {p \in Providers : LivePools(l)[p] # Null}
  IN (open \ {live[p].pool : p \in replaced}) \union {LivePools(l)[p].pool : p \in made}

OpenPools(l) ==
  LET closed == {p \in Providers : live[p] # Null /\ ~Unchanged(l, p)}
      made == {p \in Providers : LivePools(l)[p] # Null}
  IN (open \ {live[p].pool : p \in closed}) \union {LivePools(l)[p].pool : p \in made}

(* Fault: the snapshot keeps the pools of the one it replaces.             *)
ComposedOldPools(l) ==
  [version |-> loads[l].version,
   routes  |-> Builtins \union {p \in Customs : Returned(l, p).enabled},
   pools   |-> IF snapshot = Null THEN [p \in Providers |-> Null] ELSE snapshot.pools,
   expired |-> FALSE]

(* Builtins are always routed, whatever a row of the same id says.         *)
Composed(l) ==
  [version |-> loads[l].version,
   routes  |-> Builtins \union {p \in Customs : Returned(l, p).enabled},
   pools   |-> [p \in Providers |->
                  IF LivePools(l)[p] = Null THEN Null ELSE LivePools(l)[p].pool],
   expired |-> FALSE]

(* The reply arrives: pools, snapshot, then inFlight, which is cleared     *)
(* whichever load it holds by now.  All who wait for l get its snapshot.   *)
FinishLoad(l) ==
  /\ loads[l].at = "read"
  /\ snapshot' = Composed(l)
  /\ live' = LivePools(l) /\ open' = OpenPools(l)
  /\ inFlight' = Null
  /\ loads' = [loads EXCEPT ![l] = Idle]
  /\ calls' = [c \in Calls |->
       IF calls[c].at = "waiting" /\ calls[c].load = l
         THEN [calls[c] EXCEPT !.at = "resolved", !.load = Null, !.version = loads[l].version]
         ELSE calls[c]]
  /\ UNCHANGED <<history, pending>>

(* CACHE_TTL_MS have passed since the snapshot was composed.               *)
Expire ==
  /\ snapshot # Null /\ ~snapshot.expired
  /\ snapshot' = [snapshot EXCEPT !.expired = TRUE]
  /\ UNCHANGED <<history, pending, inFlight, loads, live, open, calls>>

-----------------------------------------------------------------------------
(* Operators: create, update, delete (a row that is gone is disabled and   *)
(* without a list) or new proxies.                                         *)

Table(p, row) == Append(history, [history[Version] EXCEPT ![p] = row])

WriteRow(p, row) ==
  /\ Version <= MaxWrites
  /\ history' = Table(p, row)
  /\ pending' = pending \union {Version + 1}
  /\ UNCHANGED <<snapshot, inFlight, loads, live, open, calls>>

(* The write returns, and invalidateProviderCache runs.                    *)
Invalidate(v) ==
  /\ v \in pending
  /\ pending' = pending \ {v}
  /\ snapshot' = Null /\ inFlight' = Null
  /\ UNCHANGED <<history, loads, live, open, calls>>

WriteElsewhere(p, row) ==
  /\ Version <= MaxWrites
  /\ history' = Table(p, row)
  /\ UNCHANGED <<pending, snapshot, inFlight, loads, live, open, calls>>

-----------------------------------------------------------------------------
Init ==
  /\ history = <<[p \in Providers |-> [enabled |-> TRUE, proxyCipher |-> Null]]>>
  /\ pending = {}
  /\ snapshot = Null /\ inFlight = Null
  /\ loads = [l \in Loads |-> Idle]
  /\ live = [p \in Providers |-> Null] /\ open = {}
  /\ calls = [c \in Calls |-> NoCall]

Next ==
  \/ \E c \in Calls : Hit(c) \/ Join(c) \/ (\E l \in Loads : StartLoad(c, l)) \/ Release(c)
  \/ \E l \in Loads : ReadRows(l) \/ FinishLoad(l)
  \/ Expire
  \/ \E p \in Providers : \E row \in RowsOf(p) : WriteRow(p, row) \/ WriteElsewhere(p, row)
  \/ \E v \in 1 .. MaxWrites + 1 : Invalidate(v)

(* Time passes, a query is answered, and a handler runs on after its await.*)
Fairness ==
  /\ WF_vars(Expire)
  /\ \A l \in Loads : WF_vars(ReadRows(l)) /\ WF_vars(FinishLoad(l))
  /\ \A v \in 1 .. MaxWrites + 1 : WF_vars(Invalidate(v))

Spec == Init /\ [][Next]_vars

FairSpec == Spec /\ Fairness

-----------------------------------------------------------------------------
TypeOK ==
  /\ history \in Seq([Providers -> Row]) /\ Len(history) \in 1 .. MaxWrites + 1
  /\ pending \subseteq 1 .. MaxWrites + 1
  /\ snapshot \in Snapshot \union {Null}
  /\ inFlight \in Loads \union {Null}
  /\ loads \in [Loads -> Load]
  /\ live \in [Providers -> [cipher : Ciphers, pool : Pools] \union {Null}]
  /\ open \subseteq Pools
  /\ calls \in [Calls -> CallState]

(* However loads overtake one another, the cached snapshot only hands out  *)
(* pools that are live: a load never closes a pool that the snapshot of a  *)
(* later or an earlier one still uses (poolFor, retireUnusedPools).        *)
SnapshotPoolsAreLive ==
  snapshot # Null =>
    \A p \in Providers :
      snapshot.pools[p] = (IF live[p] = Null THEN Null ELSE live[p].pool)

(* No socket is lost: every open pool is the one livePools holds for its   *)
(* provider, so some later load can close it.                              *)
NoPoolLeaks == open = {live[p].pool : p \in {q \in Providers : live[q] # Null}}

(* A cached snapshot hands out open pools only, and no pool is forgotten   *)
(* while its sockets are open, however loads overtake one another and      *)
(* operators write.                                                        *)
PoolsMatchTheSnapshot == SnapshotPoolsAreLive /\ NoPoolLeaks

(* "Concurrent gateway requests share one database read instead of         *)
(* stampeding it": an invalidation, and the finally of an overtaken load,  *)
(* can each let one more read begin, and yet reads in flight never         *)
(* outnumber the writes by more than one.                                  *)
NoStampede ==
  Cardinality({l \in Loads : loads[l].at # "idle"}) <= 1 + (Version - 1)

(* Other instances, and this one after a stale load, converge: once the    *)
(* writes stop, from some point on every resolution reads current rows.    *)
Converges ==
  <>[][\A c \in Calls :
         calls[c].at # "resolved" /\ calls'[c].at = "resolved" =>
           calls'[c].version = Version]_vars

=============================================================================
