--------------------------- MODULE Registry_proofs ---------------------------
(***************************************************************************)
(* Theorems about the provider registry, for every number of providers,    *)
(* proxy lists, resolutions, loads and writes.                             *)
(*                                                                         *)
(* The pools need one strengthening: a provider's live pool is one of its  *)
(* own two, so one of the two is closed whenever a new one is to be built. *)
(* The shared read needs a budget: a read in flight, an invalidation still *)
(* to come and the right to begin a read when none is joined each take one *)
(* of the versions the table has had.                                      *)
(***************************************************************************)
EXTENDS Registry, FiniteSetTheorems, TLAPS

(* What a load has read is a version the table has had.                    *)
ReadsOfThePast ==
  \A l \in Loads : loads[l].at = "read" => loads[l].version \in 1 .. Version

PoolsOfTheirOwn ==
  \A p \in Providers : live[p] # Null => live[p].pool \in {p} \X {1, 2}

Reading == {l \in Loads : loads[l].at # "idle"}

MayBegin == IF inFlight = Null THEN 1 ELSE 0

ReadBudget ==
  /\ IsFiniteSet(Reading)
  /\ Cardinality(Reading) + Cardinality(pending) + MayBegin <= Version

PoolInv == TypeOK /\ ReadsOfThePast /\ PoolsOfTheirOwn /\ NoPoolLeaks

-----------------------------------------------------------------------------
(* A closed pool is at hand for whichever provider needs a new one.        *)
LEMMA ClosedPoolAtHand ==
  ASSUME PoolInv, NEW p \in Providers
  PROVE  \E pool \in {p} \X {1, 2} : pool \notin open
<1>1. \A q \in Providers : live[q] # Null => live[q].pool[1] = q
  BY DEF PoolInv, PoolsOfTheirOwn
<1>2. CASE <<p, 1>> \notin open
  BY <1>2
<1>3. CASE <<p, 1>> \in open
  <2>1. PICK q \in Providers : live[q] # Null /\ <<p, 1>> = live[q].pool
    BY <1>3 DEF PoolInv, NoPoolLeaks
  <2>2. q = p
    BY <1>1, <2>1
  <2>3. <<p, 2>> \notin open
    <3>1. SUFFICES ASSUME <<p, 2>> \in open PROVE FALSE
      OBVIOUS
    <3>2. PICK r \in Providers : live[r] # Null /\ <<p, 2>> = live[r].pool
      BY <3>1 DEF PoolInv, NoPoolLeaks
    <3>3. r = p
      BY <1>1, <3>2
    <3> QED BY <2>1, <2>2, <3>2, <3>3
  <2> QED BY <2>3
<1> QED BY <1>2, <1>3

(* What a finished load makes of livePools is well typed, and each new     *)
(* pool is one of its provider's own.                                      *)
LEMMA LivePoolsTyped ==
  ASSUME PoolInv, NEW l \in Loads, loads[l].at = "read"
  PROVE  /\ LivePools(l) \in [Providers -> [cipher : Ciphers, pool : Pools] \union {Null}]
         /\ \A p \in Providers : LivePools(l)[p] # Null => LivePools(l)[p].pool \in {p} \X {1, 2}
<1> SUFFICES ASSUME NEW p \in Providers
             PROVE  /\ LivePools(l)[p] \in [cipher : Ciphers, pool : Pools] \union {Null}
                    /\ LivePools(l)[p] # Null => LivePools(l)[p].pool \in {p} \X {1, 2}
  BY DEF LivePools
<1>1. CASE Unchanged(l, p)
  BY <1>1 DEF LivePools, PoolInv, TypeOK, PoolsOfTheirOwn
<1>2. CASE ~Unchanged(l, p) /\ WantedCipher(l, p) = Null
  BY <1>2 DEF LivePools
<1>3. CASE ~Unchanged(l, p) /\ WantedCipher(l, p) # Null
  <2> DEFINE fresh == CHOOSE pool \in {p} \X {1, 2} : pool \notin open
  <2>1. fresh \in {p} \X {1, 2}
    BY ClosedPoolAtHand
  <2>2. fresh \in Pools
    BY <2>1 DEF Pools
  <2>3. Returned(l, p).proxyCipher \in Ciphers \union {Null}
    <3>1. CASE loads[l].ok
      <4>1. loads[l].version \in 1 .. Len(history)
        BY DEF PoolInv, ReadsOfThePast, Version
      <4>2. history[loads[l].version] \in [Providers -> Row]
        BY <4>1 DEF PoolInv, TypeOK
      <4> QED BY <3>1, <4>2 DEF Returned, Row
    <3>2. CASE ~loads[l].ok
      BY <3>2 DEF Returned
    <3> QED BY <3>1, <3>2
  <2>4. WantedCipher(l, p) \in Ciphers
    BY <1>3, <2>3 DEF WantedCipher
  <2>5. LivePools(l)[p] = [cipher |-> WantedCipher(l, p), pool |-> fresh]
    BY <1>3 DEF LivePools
  <2> QED BY <2>1, <2>2, <2>4, <2>5
<1> QED BY <1>1, <1>2, <1>3

(* Replaced pools are closed and the new ones opened: what is open is what *)
(* livePools holds.                                                        *)
LEMMA OpenIsLive ==
  ASSUME PoolInv, NEW l \in Loads
  PROVE  OpenPools(l) = {LivePools(l)[p].pool : p \in {q \in Providers : LivePools(l)[q] # Null}}
<1> DEFINE closed == {p \in Providers : live[p] # Null /\ ~Unchanged(l, p)}
           made == {p \in Providers : LivePools(l)[p] # Null}
<1>1. SUFFICES ASSUME NEW pool \in open, pool \notin {live[p].pool : p \in closed}
               PROVE  \E p \in made : pool = LivePools(l)[p].pool
  BY DEF OpenPools
<1>2. PICK p \in Providers : live[p] # Null /\ pool = live[p].pool
  BY <1>1 DEF PoolInv, NoPoolLeaks
<1>3. Unchanged(l, p)
  BY <1>1, <1>2
<1>4. LivePools(l)[p] = live[p]
  BY <1>3 DEF LivePools
<1> QED BY <1>2, <1>4

-----------------------------------------------------------------------------
LEMMA PoolInvInit == Init => PoolInv
<1> SUFFICES ASSUME Init PROVE PoolInv
  OBVIOUS
<1>1. TypeOK
  <2> DEFINE rows == [p \in Providers |-> [enabled |-> TRUE, proxyCipher |-> Null]]
             Table0 == [Providers -> Row]
  <2>1. rows \in Table0
    BY DEF Row
  <2>2. history = <<rows>>
    BY DEF Init
  <2>3. history \in Seq(Table0) /\ Len(history) = 1
    <3> HIDE DEF rows, Table0
    <3> QED BY <2>1, <2>2
  <2>4. Len(history) \in 1 .. MaxWrites + 1
    BY <2>3, RegistryAssumption
  <2>5. loads \in [Loads -> Load] /\ calls \in [Calls -> CallState]
    BY DEF Init, Idle, NoCall, Load, CallState
  <2> QED BY <2>3, <2>4, <2>5 DEF Init, TypeOK
<1>2. ReadsOfThePast
  BY DEF Init, ReadsOfThePast, Idle
<1>3. PoolsOfTheirOwn /\ NoPoolLeaks
  BY DEF Init, PoolsOfTheirOwn, NoPoolLeaks
<1> QED BY <1>1, <1>2, <1>3 DEF PoolInv

(* Each step preserves the types, what was read, and the pools.            *)
LEMMA PoolInvStep == PoolInv /\ [Next]_vars => PoolInv'
<1> SUFFICES ASSUME PoolInv, [Next]_vars PROVE PoolInv'
  OBVIOUS
<1> USE RegistryAssumption
<1>1. ASSUME NEW c \in Calls, Hit(c) PROVE PoolInv'
  <2>1. snapshot.version \in Nat
    BY <1>1 DEF Hit, PoolInv, TypeOK, Snapshot
  <2>2. Answer(snapshot.version) \in CallState
    BY <2>1 DEF Answer, NoCall, CallState
  <2> QED BY <1>1, <2>2 DEF Hit, PoolInv, TypeOK, ReadsOfThePast, Version, PoolsOfTheirOwn, NoPoolLeaks
<1>2. ASSUME NEW c \in Calls, Join(c) PROVE PoolInv'
  <2>1. Waiting(inFlight) \in CallState
    BY DEF PoolInv, TypeOK, Waiting, NoCall, CallState
  <2> QED BY <1>2, <2>1 DEF Join, PoolInv, TypeOK, ReadsOfThePast, Version, PoolsOfTheirOwn, NoPoolLeaks
<1>3. ASSUME NEW c \in Calls, NEW l \in Loads, StartLoad(c, l) PROVE PoolInv'
  <2>1. Waiting(l) \in CallState
    BY DEF Waiting, NoCall, CallState
  <2>2. [Idle EXCEPT !.at = "reading"] \in Load
    BY DEF Idle, Load
  <2>3. TypeOK'
    BY <1>3, <2>1, <2>2 DEF StartLoad, PoolInv, TypeOK
  <2>4. ReadsOfThePast'
    BY <1>3 DEF StartLoad, PoolInv, TypeOK, ReadsOfThePast, Version, Idle
  <2> QED BY <1>3, <2>3, <2>4 DEF StartLoad, PoolInv, PoolsOfTheirOwn, NoPoolLeaks
<1>4. ASSUME NEW c \in Calls, Release(c) PROVE PoolInv'
  <2>1. NoCall \in CallState
    BY DEF NoCall, CallState
  <2> QED BY <1>4, <2>1 DEF Release, PoolInv, TypeOK, ReadsOfThePast, Version, PoolsOfTheirOwn, NoPoolLeaks
<1>5. ASSUME NEW l \in Loads, ReadRows(l) PROVE PoolInv'
  <2>1. PICK ok \in BOOLEAN :
          loads' = [loads EXCEPT ![l] = [at |-> "read", version |-> Version, ok |-> ok]]
    BY <1>5 DEF ReadRows
  <2>2. Version \in 1 .. Len(history) /\ Version \in Nat
    BY DEF PoolInv, TypeOK, Version
  <2>3. TypeOK'
    BY <1>5, <2>1, <2>2 DEF ReadRows, PoolInv, TypeOK, Load
  <2>4. ReadsOfThePast'
    BY <1>5, <2>1, <2>2 DEF ReadRows, PoolInv, TypeOK, ReadsOfThePast, Version
  <2> QED BY <1>5, <2>3, <2>4 DEF ReadRows, PoolInv, PoolsOfTheirOwn, NoPoolLeaks
<1>6. ASSUME NEW l \in Loads, FinishLoad(l) PROVE PoolInv'
  <2>0. live' = LivePools(l) /\ open' = OpenPools(l)
    BY <1>6 DEF FinishLoad
  <2>1. /\ LivePools(l) \in [Providers -> [cipher : Ciphers, pool : Pools] \union {Null}]
        /\ \A p \in Providers : LivePools(l)[p] # Null => LivePools(l)[p].pool \in {p} \X {1, 2}
    BY <1>6, LivePoolsTyped DEF FinishLoad
  <2>2. OpenPools(l) = {LivePools(l)[p].pool : p \in {q \in Providers : LivePools(l)[q] # Null}}
    BY OpenIsLive
  <2>3. loads[l].version \in Nat
    BY DEF PoolInv, TypeOK, Load
  <2>4. Composed(l) \in Snapshot
    <3>1. [p \in Providers |-> IF LivePools(l)[p] = Null THEN Null ELSE LivePools(l)[p].pool]
             \in [Providers -> Pools \union {Null}]
      BY <2>1
    <3>2. Builtins \union {p \in Customs : Returned(l, p).enabled} \in SUBSET Providers
      BY DEF Providers
    <3> QED BY <2>3, <3>1, <3>2 DEF Composed, Snapshot
  <2>5. calls' \in [Calls -> CallState]
    BY <1>6, <2>3 DEF FinishLoad, PoolInv, TypeOK, CallState
  <2>6. open' \subseteq Pools
    BY <2>0, <2>1, <2>2 DEF Pools
  <2>7. TypeOK'
    BY <1>6, <2>1, <2>4, <2>5, <2>6 DEF FinishLoad, PoolInv, TypeOK, Idle, Load
  <2>8. ReadsOfThePast'
    BY <1>6 DEF FinishLoad, PoolInv, TypeOK, ReadsOfThePast, Version, Idle
  <2>9. PoolsOfTheirOwn' /\ NoPoolLeaks'
    BY <2>0, <2>1, <2>2 DEF PoolsOfTheirOwn, NoPoolLeaks
  <2> QED BY <2>7, <2>8, <2>9 DEF PoolInv
<1>7. CASE Expire
  <2>1. snapshot \in Snapshot
    BY <1>7 DEF Expire, PoolInv, TypeOK
  <2>2. snapshot' \in Snapshot
    BY <1>7, <2>1 DEF Expire, Snapshot
  <2> QED BY <1>7, <2>2 DEF Expire, PoolInv, TypeOK, ReadsOfThePast, Version, PoolsOfTheirOwn, NoPoolLeaks
<1>8. ASSUME NEW p \in Providers, NEW row \in RowsOf(p), WriteRow(p, row) \/ WriteElsewhere(p, row)
      PROVE  PoolInv'
  <2>1. /\ history' = Append(history, [history[Version] EXCEPT ![p] = row])
        /\ Version <= MaxWrites
        /\ UNCHANGED <<snapshot, inFlight, loads, live, open, calls>>
        /\ pending' \subseteq pending \union {Version + 1}
    BY <1>8 DEF WriteRow, WriteElsewhere, Table
  <2>2. history[Version] \in [Providers -> Row] /\ row \in Row
    BY DEF PoolInv, TypeOK, Version, RowsOf
  <2>3. [history[Version] EXCEPT ![p] = row] \in [Providers -> Row]
    BY <2>2
  <2>4. history' \in Seq([Providers -> Row]) /\ Len(history') = Len(history) + 1
    BY <2>1, <2>3 DEF PoolInv, TypeOK
  <2>5. Len(history) \in Nat /\ Len(history) >= 1 /\ Len(history) <= MaxWrites
    BY <2>1 DEF PoolInv, TypeOK, Version
  <2>6. TypeOK'
    BY <2>1, <2>4, <2>5 DEF PoolInv, TypeOK, Version
  <2>7. ReadsOfThePast'
    BY <2>1, <2>4, <2>5 DEF PoolInv, ReadsOfThePast, Version
  <2> QED BY <2>1, <2>6, <2>7 DEF PoolInv, PoolsOfTheirOwn, NoPoolLeaks
<1>9. ASSUME NEW v \in 1 .. MaxWrites + 1, Invalidate(v) PROVE PoolInv'
  BY <1>9 DEF Invalidate, PoolInv, TypeOK, ReadsOfThePast, Version, PoolsOfTheirOwn, NoPoolLeaks
<1>10. CASE UNCHANGED vars
  BY <1>10 DEF vars, PoolInv, TypeOK, ReadsOfThePast, Version, PoolsOfTheirOwn, NoPoolLeaks
<1> QED BY <1>1, <1>2, <1>3, <1>4, <1>5, <1>6, <1>7, <1>8, <1>9, <1>10 DEF Next

(* The types, what loads have read, and the pools, in every reachable      *)
(* state.                                                                  *)
THEOREM PoolsAreKept == Spec => []PoolInv
BY PoolInvInit, PoolInvStep, PTL DEF Spec

(* The state of the registry is well typed in every reachable state.       *)
THEOREM TypeCorrect == Spec => []TypeOK
<1>1. PoolInv => TypeOK
  BY DEF PoolInv
<1> QED BY <1>1, PoolsAreKept, PTL

(* However loads overtake one another and operators write, no pool is left *)
(* open that a later load cannot close.                                    *)
THEOREM SocketsAreKept == Spec => []NoPoolLeaks
<1>1. PoolInv => NoPoolLeaks
  BY DEF PoolInv
<1> QED BY <1>1, PoolsAreKept, PTL

(* A cached snapshot hands out the pools that livePools holds, and so,     *)
(* with SocketsAreKept, open ones.                                         *)
THEOREM SnapshotsAreLive == Spec => []SnapshotPoolsAreLive
<1>1. Init => SnapshotPoolsAreLive
  BY DEF Init, SnapshotPoolsAreLive
<1>2. SnapshotPoolsAreLive /\ [Next]_vars => SnapshotPoolsAreLive'
  <2> SUFFICES ASSUME SnapshotPoolsAreLive, [Next]_vars PROVE SnapshotPoolsAreLive'
    OBVIOUS
  <2>1. ASSUME NEW l \in Loads, FinishLoad(l) PROVE SnapshotPoolsAreLive'
    BY <2>1 DEF FinishLoad, Composed, SnapshotPoolsAreLive
  <2>2. CASE Expire
    <3>1. snapshot'.pools = snapshot.pools /\ snapshot # Null /\ live' = live
      BY <2>2 DEF Expire
    <3> QED BY <3>1 DEF SnapshotPoolsAreLive
  <2>3. ASSUME NEW v \in 1 .. MaxWrites + 1, Invalidate(v) PROVE SnapshotPoolsAreLive'
    BY <2>3 DEF Invalidate, SnapshotPoolsAreLive
  <2>4. CASE UNCHANGED <<snapshot, live>>
    BY <2>4 DEF SnapshotPoolsAreLive
  <2> QED
    BY <2>1, <2>2, <2>3, <2>4
       DEF Next, vars, Hit, Join, StartLoad, Release, ReadRows, WriteRow, WriteElsewhere
<1> QED BY <1>1, <1>2, PTL DEF Spec

(* Together: a cached snapshot hands out open pools, and no open pool is   *)
(* out of reach.                                                           *)
THEOREM PoolsMatch == Spec => []PoolsMatchTheSnapshot
<1>1. SnapshotPoolsAreLive /\ NoPoolLeaks => PoolsMatchTheSnapshot
  BY DEF PoolsMatchTheSnapshot
<1> QED BY <1>1, SnapshotsAreLive, SocketsAreKept, PTL

-----------------------------------------------------------------------------
LEMMA PendingIsFinite ==
  ASSUME TypeOK
  PROVE  IsFiniteSet(pending) /\ Cardinality(pending) \in Nat
<1>1. IsFiniteSet(1 .. MaxWrites + 1)
  BY FS_Interval, RegistryAssumption
<1>2. IsFiniteSet(pending)
  BY <1>1, FS_Subset DEF TypeOK
<1> QED BY <1>2, FS_CardinalityType

LEMMA BudgetInit == Init => ReadBudget
<1> SUFFICES ASSUME Init PROVE ReadBudget
  OBVIOUS
<1>1. Reading = {} /\ pending = {}
  BY DEF Init, Reading, Idle
<1>2. MayBegin = 1
  BY DEF Init, MayBegin
<1>3. Version = 1
  <2> DEFINE rows == [p \in Providers |-> [enabled |-> TRUE, proxyCipher |-> Null]]
  <2>1. history = <<rows>>
    BY DEF Init
  <2> HIDE DEF rows
  <2> QED BY <2>1 DEF Version
<1> QED BY <1>1, <1>2, <1>3, FS_EmptySet DEF ReadBudget

(* Beginning a read spends the right to begin one; a read that ends, and   *)
(* an invalidation that runs, leave at most that right in their place; a   *)
(* write pays for its own invalidation.                                    *)
LEMMA BudgetStep ==
  ASSUME TypeOK, TypeOK', ReadBudget, [Next]_vars
  PROVE  ReadBudget'
<1> DEFINE n == Cardinality(Reading)
           m == Cardinality(pending)
<1>0. /\ IsFiniteSet(Reading) /\ n \in Nat /\ IsFiniteSet(pending) /\ m \in Nat
      /\ MayBegin \in {0, 1} /\ Version \in Nat
      /\ n + m + MayBegin <= Version
  BY PendingIsFinite, FS_CardinalityType DEF ReadBudget, MayBegin, Version, TypeOK
<1>1. ASSUME NEW c \in Calls, NEW l \in Loads, StartLoad(c, l) PROVE ReadBudget'
  <2>1. Reading' = Reading \union {l} /\ l \notin Reading
    BY <1>1 DEF StartLoad, Reading, Idle, TypeOK
  <2>2. IsFiniteSet(Reading') /\ Cardinality(Reading') = n + 1
    BY <1>0, <2>1, FS_AddElement
  <2>3. MayBegin = 1 /\ MayBegin' = 0
    BY <1>1, RegistryAssumption DEF StartLoad, MayBegin
  <2>4. pending' = pending /\ Version' = Version
    BY <1>1 DEF StartLoad, Version
  <2> QED BY <1>0, <2>2, <2>3, <2>4 DEF ReadBudget
<1>2. ASSUME NEW l \in Loads, ReadRows(l) PROVE ReadBudget'
  <2>1. Reading' = Reading
    BY <1>2 DEF ReadRows, Reading, TypeOK
  <2>2. pending' = pending /\ Version' = Version /\ MayBegin' = MayBegin
    BY <1>2 DEF ReadRows, Version, MayBegin
  <2> QED BY <2>1, <2>2 DEF ReadBudget
<1>3. ASSUME NEW l \in Loads, FinishLoad(l) PROVE ReadBudget'
  <2>1. /\ loads[l].at = "read" /\ loads' = [loads EXCEPT ![l] = Idle]
        /\ inFlight' = Null /\ pending' = pending /\ history' = history
    BY <1>3 DEF FinishLoad
  <2>2. Reading' = Reading \ {l} /\ l \in Reading
    BY <2>1 DEF Reading, Idle, TypeOK
  <2>3. IsFiniteSet(Reading') /\ Cardinality(Reading') = n - 1
    BY <1>0, <2>2, FS_RemoveElement
  <2>4. MayBegin' = 1 /\ Version' = Version
    BY <2>1 DEF MayBegin, Version
  <2> QED BY <1>0, <2>1, <2>3, <2>4 DEF ReadBudget
<1>4. ASSUME NEW p \in Providers, NEW row \in RowsOf(p), WriteRow(p, row) \/ WriteElsewhere(p, row)
      PROVE  ReadBudget'
  <2>1. /\ history' = Append(history, [history[Version] EXCEPT ![p] = row])
        /\ loads' = loads /\ inFlight' = inFlight
        /\ pending' = pending \/ pending' = pending \union {Version + 1}
    BY <1>4 DEF WriteRow, WriteElsewhere, Table
  <2>2. Version' = Version + 1
    BY <2>1 DEF Version, TypeOK
  <2>3. Cardinality(pending') \in Nat /\ Cardinality(pending') <= m + 1
    <3>1. /\ IsFiniteSet(pending)
          /\ Cardinality(pending \union {Version + 1}) =
               IF Version + 1 \in pending THEN m ELSE m + 1
      BY <1>0, FS_AddElement
    <3>2. CASE pending' = pending
      BY <1>0, <3>2
    <3>3. CASE pending' = pending \union {Version + 1}
      <4> DEFINE grown == pending \union {Version + 1}
      <4>1. Cardinality(grown) \in Nat /\ Cardinality(grown) <= m + 1
        BY <1>0, <3>1
      <4> HIDE DEF grown
      <4>2. pending' = grown
        BY <3>3 DEF grown
      <4> QED BY <4>1, <4>2
    <3> QED BY <2>1, <3>2, <3>3
  <2>4. Reading' = Reading /\ MayBegin' = MayBegin
    BY <2>1 DEF Reading, MayBegin
  <2> QED BY <1>0, <2>2, <2>3, <2>4 DEF ReadBudget
<1>5. ASSUME NEW v \in 1 .. MaxWrites + 1, Invalidate(v) PROVE ReadBudget'
  <2>1. Cardinality(pending') = m - 1
    BY <1>0, <1>5, FS_RemoveElement DEF Invalidate
  <2>2. Reading' = Reading /\ MayBegin' = 1 /\ Version' = Version
    BY <1>5 DEF Invalidate, Reading, MayBegin, Version
  <2> QED BY <1>0, <2>1, <2>2 DEF ReadBudget
<1>6. CASE UNCHANGED <<history, pending, inFlight, loads>>
  BY <1>6 DEF ReadBudget, Reading, MayBegin, Version
<1> QED
  BY <1>1, <1>2, <1>3, <1>4, <1>5, <1>6 DEF Next, vars, Hit, Join, Release, Expire

(* "Concurrent gateway requests share one database read instead of         *)
(* stampeding it": for any number of requests and writes, the reads in     *)
(* flight never outnumber the writes by more than one.                     *)
THEOREM ReadsAreShared == Spec => []NoStampede
<1>1. Init => TypeOK /\ ReadBudget
  BY PoolInvInit, BudgetInit DEF PoolInv
<1>2. TypeOK /\ TypeOK' /\ ReadBudget /\ [Next]_vars => ReadBudget'
  BY BudgetStep
<1>3. TypeOK /\ ReadBudget => NoStampede
  <2> SUFFICES ASSUME TypeOK, ReadBudget PROVE NoStampede
    OBVIOUS
  <2>1. /\ Cardinality(Reading) \in Nat /\ Cardinality(pending) \in Nat
        /\ MayBegin \in {0, 1} /\ Version \in Nat
    BY PendingIsFinite, FS_CardinalityType DEF ReadBudget, MayBegin, Version, TypeOK
  <2> QED BY <2>1 DEF ReadBudget, NoStampede, Reading
<1> QED BY <1>1, <1>2, <1>3, TypeCorrect, PTL DEF Spec

=============================================================================
