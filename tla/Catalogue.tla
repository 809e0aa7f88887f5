----------------------------- MODULE Catalogue -----------------------------
(***************************************************************************)
(* The model catalogue and the providers added at run time: what the admin *)
(* routes do to them (admin-service.ts) and the catalogue sync             *)
(* (model-sync-service.ts).                                                *)
(*                                                                         *)
(* A call is one request of an administrator; calls interleave at every    *)
(* await.  Prices, names, tiers and order are left out of a row; `source'  *)
(* says who wrote them last, the operator or the upstream.                 *)
(***************************************************************************)
EXTENDS Integers, FiniteSets

CONSTANTS
  Null,
  Models,      \* public catalogue ids
  Providers,   \* registry ids
  Custom,      \* those a dashboard row registers; the others are compiled in
  Offers,      \* Offers[p]: the ids the upstream of p may list, with p's prefix
  Calls,       \* bound: requests under way at once
  Tabs,        \* consoles
  MaxRows,     \* bound: rows ever created
  Scenarios    \* bound: seeded rows, consoles, and the operations combined

VARIABLES
  catalogue,   \* catalogue[m]: the models row, or Null
  removed,     \* removed[m]: the removed_models row, or Null
  configs,     \* configs[p]: the provider_configs row of a custom provider, or Null
  routed,      \* the custom providers of the registry's snapshot
  issued,      \* row ids issued so far
  call,        \* call[c]: the locals of a request, or Idle
  overlapped,  \* history: two calls were under way at once, or the registry
               \* missed a write; nothing reads it
  buried,      \* history: buried[m], the last deletion of m; nothing reads it
  menu         \* the operations of this behaviour, "alone": one at a time;
               \* never changes

tables == <<catalogue, removed, configs, routed, issued, buried>>
catalogueVars == <<tables, call, overlapped, menu>>

Row == [id        : 1..MaxRows,
        provider  : Providers,
        manual    : BOOLEAN,
        source    : {"typed", "upstream"},
        fallbacks : SUBSET Models]

RemovedRow == [id : 1..MaxRows, provider : Providers]

ConfigRow == [id : 1..MaxRows, enabled : BOOLEAN]

(* by: the syncs that had read the removed list before the deletion.       *)
Burial == [manual : BOOLEAN, by : SUBSET Calls]

Untouched == {Null}     \* in place of a chain: not part of the patch

Lists == [Models -> Row \union {Null}]
Suppressions == [Models -> RemovedRow \union {Null}]

Call == [op     : {"none", "sync", "syncOne", "create", "update", "delete", "restore",
                   "register", "toggle", "unregister"},
         at     : {"idle", "next", "scan", "list", "providers", "answer", "failed",
                   "lost", "chain", "probe", "lift", "insert", "save", "referenced", "remove",
                   "unremove", "register", "toggle", "count", "unregister"},
         tab    : Tabs \union {Null},
         model  : Models \union {Null},
         id     : 0..MaxRows,             \* the row the request addresses
         manual : BOOLEAN,                \* of that row, as found
         owner  : Providers \union {Null},
         chain  : {Untouched} \union SUBSET Models,
         enable : BOOLEAN,
         todo   : SUBSET Providers,       \* sync: providers not yet read
         listed : SUBSET Models,          \* sync: offered and not yet written
         again  : SUBSET Models,          \* sync: named twice, the second to come
         rows   : Lists \union {Null},    \* the rows as read, Null before
         gone   : Suppressions \union {Null},
         wrote  : BOOLEAN]                \* history: models or removed_models changed

Idle == [op |-> "none", at |-> "idle", tab |-> Null, model |-> Null, id |-> 0,
         manual |-> FALSE, owner |-> Null, chain |-> {}, enable |-> FALSE,
         todo |-> {}, listed |-> {}, again |-> {}, rows |-> Null, gone |-> Null,
         wrote |-> FALSE]

ASSUME CatalogueAssumption ==
  /\ Null \notin Models \union Providers \union Tabs \union Row \union RemovedRow \union ConfigRow
  /\ Custom \subseteq Providers
  /\ Offers \in [Providers -> SUBSET Models]
  /\ MaxRows \in Nat

(* An id begins with its provider's, so that two upstreams cannot collide. *)
ASSUME OffersAssumption ==
  \A p, q \in Providers : p # q => Offers[p] \intersect Offers[q] = {}

(* A seeded row of the upstream's has an id of its provider's; chains name *)
(* rows that exist, and rows a provider that does.                         *)
Seeded(s, m) ==
  LET row == s.catalogue[m] IN
  /\ row.id <= s.issued
  /\ row.manual \/ m \in Offers[row.provider]
  /\ row.provider \in Custom => s.configs[row.provider] # Null
  /\ \A n \in row.fallbacks : s.catalogue[n] # Null

ASSUME ScenarioAssumption ==
  \A s \in Scenarios :
    /\ s.catalogue \in Lists /\ s.configs \in [Providers -> ConfigRow \union {Null}]
    /\ s.issued \in 0..MaxRows
    /\ \A m \in Models : s.catalogue[m] # Null => Seeded(s, m)

-----------------------------------------------------------------------------
(* Helpers.                                                                *)

Exists(m) == catalogue[m] # Null
OfProvider(p) == {m \in Models : Exists(m) /\ catalogue[m].provider = p}

(* resolveProvider, listProviders: compiled in, or in the snapshot.        *)
Registered(p) == p \notin Custom \/ p \in routed

Enabled == {p \in Custom : configs[p] # Null /\ configs[p].enabled}

(* A write of a provider's row invalidates the snapshot; a reading of it   *)
(* begun before the write may still land after it, and one that fails      *)
(* finds none.                                                             *)
Invalidate ==
  /\ routed' \in {Enabled'} \union (IF "lag" \in menu THEN {routed, {}} ELSE {})
  /\ overlapped' = (overlapped \/ routed' # Enabled')

UnderWay == {c \in Calls : call[c].at # "idle"}

Start(c, what, where, locals) ==
  /\ what \in menu /\ call[c].at = "idle"
  /\ "alone" \in menu => UnderWay = {}
  /\ call' = [call EXCEPT ![c] = [locals EXCEPT !.op = what, !.at = where]]
  /\ overlapped' = (overlapped \/ UnderWay # {})
  /\ buried' = [m \in Models |-> IF buried[m] = Null THEN Null
                                  ELSE [buried[m] EXCEPT !.by = @ \ {c}]]
  /\ UNCHANGED <<issued, menu>>

Goto(c, where) == call' = [call EXCEPT ![c].at = where] /\ UNCHANGED <<overlapped, menu>>
Fail(c) == Goto(c, "failed") /\ UNCHANGED tables

(* listAdminModelsPayload comes next.                                      *)
ListingAfter(c, wrote) ==
  /\ call' = [call EXCEPT ![c] = [call[c] EXCEPT !.at = "list", !.rows = Null, !.gone = Null,
                                                !.wrote = wrote]]
  /\ UNCHANGED <<overlapped, menu>>
Listing(c) == ListingAfter(c, TRUE)

NewRowId == issued + 1
Issue == issued < MaxRows /\ issued' = NewRowId

-----------------------------------------------------------------------------
(* syncProviderCatalogue and syncOne.                                      *)

Sync(c, tab, what, ps) ==
  /\ Start(c, what, "next", [Idle EXCEPT !.tab = tab, !.todo = {p \in ps : Registered(p)}])
  /\ UNCHANGED <<catalogue, removed, configs, routed>>

(* The ids the loop over the listing has still to reach; the one it takes. *)
ToCome(c) == call[c].listed \union call[c].again
Past(c, m) == [call[c] EXCEPT !.listed = @ \ {m}, !.wrote = TRUE,
                              !.again = IF m \in call[c].listed THEN @ ELSE @ \ {m}]

(* Fault: a hand-added row counts as the upstream's.                       *)
ToWriteManual(c) == {m \in ToCome(c) : call[c].gone[m] = Null}

(* A row typed in by hand is preserved and a removed id is suppressed.     *)
ToWrite(c) ==
  {m \in ToCome(c) : /\ call[c].gone[m] = Null
                     /\ ~(call[c].rows[m] # Null /\ call[c].rows[m].manual)}

Scanned(c) == call[c].rows # Null /\ call[c].gone # Null
Free(c) == call[c].at = "next" \/ (call[c].at = "scan" /\ Scanned(c) /\ ToWrite(c) = {})

(* listModels answers with some of what the upstream may offer, an id more *)
(* than once if the upstream repeats it, or fails: then the provider is    *)
(* reported and the next one is taken.                                     *)
NextProvider(c) ==
  /\ Free(c)
  /\ \E p \in call[c].todo :
       \/ \E offered \in SUBSET Offers[p] : \E twice \in SUBSET offered :
            /\ twice = {} \/ "repeat" \in menu
            /\ call' = [call EXCEPT ![c] = [call[c] EXCEPT !.at = "scan",
                         !.todo = call[c].todo \ {p}, !.owner = p, !.listed = offered,
                         !.again = twice, !.rows = Null, !.gone = Null]]
       \/ call' = [call EXCEPT ![c] = [call[c] EXCEPT !.at = "next",
                                                      !.todo = call[c].todo \ {p}]]
  /\ UNCHANGED <<tables, overlapped, menu>>

EndSync(c) ==
  /\ Free(c) /\ call[c].todo = {}
  /\ IF call[c].op = "register" THEN Goto(c, "providers") ELSE ListingAfter(c, call[c].wrote)
  /\ UNCHANGED tables

(* Two queries side by side, of the provider's rows during a sync and of   *)
(* all rows for an answer; either may be served first.                     *)
Within(c, table) ==
  [m \in Models |-> IF table[m] # Null /\ (call[c].at = "scan" => table[m].provider = call[c].owner)
                      THEN table[m] ELSE Null]

(* Fault: the rows typed in by hand are not read.                          *)
ReadRowsSynced(c) ==
  /\ call[c].at \in {"scan", "list"} /\ call[c].rows = Null
  /\ call' = [call EXCEPT ![c].rows = [m \in Models |->
       LET row == Within(c, catalogue)[m] IN IF row # Null /\ row.manual THEN Null ELSE row]]
  /\ UNCHANGED <<tables, overlapped, menu>>

ReadRows(c) ==
  /\ call[c].at \in {"scan", "list"} /\ call[c].rows = Null
  /\ call' = [call EXCEPT ![c].rows = Within(c, catalogue)]
  /\ UNCHANGED <<tables, overlapped, menu>>

(* Fault: the removed list is not consulted.                               *)
ReadGoneNothing(c) ==
  /\ call[c].at \in {"scan", "list"} /\ call[c].gone = Null
  /\ call' = [call EXCEPT ![c].gone = [m \in Models |-> Null]]
  /\ UNCHANGED <<tables, overlapped, menu>>

ReadGone(c) ==
  /\ call[c].at \in {"scan", "list"} /\ call[c].gone = Null
  /\ call' = [call EXCEPT ![c].gone = Within(c, removed)]
  /\ UNCHANGED <<tables, overlapped, menu>>

(* The update of a known row, by public id; it throws when there is none.  *)
(* A throw is not caught: the whole sync request fails.                    *)
Refresh(c, m) ==
  /\ call[c].at = "scan" /\ Scanned(c) /\ m \in ToWrite(c) /\ call[c].rows[m] # Null
  /\ IF ~Exists(m) THEN Fail(c)
     ELSE /\ catalogue' = [catalogue EXCEPT ![m] =
                              [catalogue[m] EXCEPT !.provider = call[c].owner, !.source = "upstream"]]
          /\ call' = [call EXCEPT ![c] = Past(c, m)]
          /\ UNCHANGED <<removed, configs, routed, issued, overlapped, buried, menu>>

(* The create of an unknown one; models.modelId is UNIQUE, and what the    *)
(* sync has created stays unknown to it.                                   *)
Import(c, m) ==
  /\ call[c].at = "scan" /\ Scanned(c) /\ m \in ToWrite(c) /\ call[c].rows[m] = Null
  /\ IF Exists(m) THEN Fail(c)
     ELSE /\ Issue
          /\ catalogue' = [catalogue EXCEPT ![m] = [id |-> NewRowId, provider |-> call[c].owner,
               manual |-> FALSE, source |-> "upstream", fallbacks |-> {}]]
          /\ call' = [call EXCEPT ![c] = Past(c, m)]
          /\ UNCHANGED <<removed, configs, routed, overlapped, buried, menu>>

-----------------------------------------------------------------------------
(* createManualModel and updateAdminModel.                                 *)

CreateManual(c, tab, m, p, chain) ==
  /\ Registered(p) /\ ~Exists(m)
  /\ Start(c, "create", IF chain = {} THEN "probe" ELSE "chain",
           [Idle EXCEPT !.tab = tab, !.model = m, !.owner = p, !.chain = chain])
  /\ UNCHANGED <<catalogue, removed, configs, routed>>

Update(c, tab, m, id, chain) ==
  /\ Exists(m) /\ catalogue[m].id = id
  /\ Start(c, "update", IF chain \in {{}, Untouched} THEN "save" ELSE "chain",
           [Idle EXCEPT !.tab = tab, !.model = m, !.id = id, !.chain = chain])
  /\ UNCHANGED <<catalogue, removed, configs, routed>>

(* assertFallbackChain.                                                    *)
Chain(c) ==
  /\ call[c].at = "chain"
  /\ IF call[c].model \notin call[c].chain /\ \A m \in call[c].chain : Exists(m)
       THEN Goto(c, IF call[c].op = "create" THEN "probe" ELSE "save") ELSE Goto(c, "failed")
  /\ UNCHANGED tables

(* The upstream serves one token or refuses; a test switched off is a      *)
(* probe that succeeds.                                                    *)
Probe(c) ==
  /\ call[c].at = "probe"
  /\ Goto(c, "lift") \/ Goto(c, "failed")
  /\ UNCHANGED tables

(* Two statements: the suppression goes, then the row is created.          *)
Lift(c) ==
  /\ call[c].at = "lift"
  /\ removed' = [removed EXCEPT ![call[c].model] = Null]
  /\ buried' = [buried EXCEPT ![call[c].model] = Null]
  /\ call' = [call EXCEPT ![c] = [call[c] EXCEPT !.at = "insert",
                                  !.wrote = removed[call[c].model] # Null]]
  /\ UNCHANGED <<catalogue, configs, routed, issued, overlapped, menu>>

Insert(c) ==
  /\ call[c].at = "insert"
  /\ IF Exists(call[c].model) THEN Fail(c)
     ELSE /\ Issue
          /\ catalogue' = [catalogue EXCEPT ![call[c].model] = [id |-> NewRowId,
               provider |-> call[c].owner, manual |-> TRUE, source |-> "typed",
               fallbacks |-> call[c].chain]]
          /\ Listing(c)
          /\ UNCHANGED <<removed, configs, routed, buried>>

Save(c) ==
  LET m == call[c].model IN
  /\ call[c].at = "save"
  /\ IF ~Exists(m) \/ catalogue[m].id # call[c].id THEN Fail(c)
     ELSE /\ catalogue' = [catalogue EXCEPT ![m].fallbacks =
                              IF call[c].chain = Untouched THEN @ ELSE call[c].chain]
          /\ Listing(c)
          /\ UNCHANGED <<removed, configs, routed, issued, buried>>

-----------------------------------------------------------------------------
(* deleteCatalogueModel and restoreRemovedModel.                           *)

DeleteModel(c, tab, m, id) ==
  /\ Exists(m) /\ catalogue[m].id = id
  /\ Start(c, "delete", "referenced", [Idle EXCEPT !.tab = tab, !.model = m, !.id = id,
           !.manual = catalogue[m].manual, !.owner = catalogue[m].provider])
  /\ UNCHANGED <<catalogue, removed, configs, routed>>

Referenced(c) ==
  /\ call[c].at = "referenced"
  /\ IF \E m \in Models \ {call[c].model} : Exists(m) /\ call[c].model \in catalogue[m].fallbacks
       THEN Goto(c, "failed") ELSE Goto(c, "remove")
  /\ UNCHANGED tables

SyncsThatRead == {d \in Calls : call[d].at = "scan" /\ call[d].gone # Null}

(* One transaction: the row, and for a synced one its suppression.         *)
Remove(c) ==
  LET m == call[c].model IN
  /\ call[c].at = "remove"
  /\ IF ~Exists(m) \/ catalogue[m].id # call[c].id THEN Fail(c)
     ELSE /\ catalogue' = [catalogue EXCEPT ![m] = Null]
          /\ buried' = [buried EXCEPT ![m] = [manual |-> call[c].manual, by |-> SyncsThatRead]]
          /\ IF call[c].manual \/ removed[m] # Null THEN UNCHANGED <<removed, issued>>
             ELSE Issue /\ removed' = [removed EXCEPT ![m] = [id |-> NewRowId,
                                                              provider |-> call[c].owner]]
          /\ Listing(c)
          /\ UNCHANGED <<configs, routed>>

Restore(c, tab, m, id) ==
  /\ removed[m] # Null /\ removed[m].id = id
  /\ Start(c, "restore", "unremove", [Idle EXCEPT !.tab = tab, !.model = m, !.id = id])
  /\ UNCHANGED <<catalogue, removed, configs, routed>>

Unremove(c) ==
  LET m == call[c].model IN
  /\ call[c].at = "unremove"
  /\ IF removed[m] = Null \/ removed[m].id # call[c].id THEN Fail(c)
     ELSE /\ removed' = [removed EXCEPT ![m] = Null]
          /\ buried' = [buried EXCEPT ![m] = Null]
          /\ Listing(c)
          /\ UNCHANGED <<catalogue, configs, routed, issued>>

-----------------------------------------------------------------------------
(* createCustomProvider, updateProviderConfig and deleteCustomProvider.    *)

AddProvider(c, tab, p) ==
  /\ p \in Custom /\ configs[p] = Null
  /\ Start(c, "register", "register", [Idle EXCEPT !.tab = tab, !.owner = p])
  /\ UNCHANGED <<catalogue, removed, configs, routed>>

(* provider_configs.provider is UNIQUE.  The catalogue pull is an option.  *)
Register(c) ==
  LET p == call[c].owner IN
  /\ call[c].at = "register"
  /\ IF configs[p] # Null THEN Fail(c)
     ELSE /\ Issue
          /\ configs' = [configs EXCEPT ![p] = [id |-> NewRowId, enabled |-> TRUE]]
          /\ Invalidate
          /\ \/ call' = [call EXCEPT ![c].at = "providers"]
             \/ call' = [call EXCEPT ![c] = [call[c] EXCEPT !.at = "next",
                                                            !.todo = {p} \intersect routed']]
          /\ UNCHANGED <<catalogue, removed, buried, menu>>

ToggleProvider(c, tab, p, id, enable) ==
  /\ configs[p] # Null /\ configs[p].id = id
  /\ Start(c, "toggle", "toggle", [Idle EXCEPT !.tab = tab, !.owner = p, !.id = id,
                                               !.enable = enable])
  /\ UNCHANGED <<catalogue, removed, configs, routed>>

Toggle(c) ==
  LET p == call[c].owner IN
  /\ call[c].at = "toggle"
  /\ IF configs[p] = Null \/ configs[p].id # call[c].id THEN Fail(c)
     ELSE /\ configs' = [configs EXCEPT ![p].enabled = call[c].enable]
          /\ Invalidate
          /\ call' = [call EXCEPT ![c].at = "providers"]
          /\ UNCHANGED <<catalogue, removed, issued, buried, menu>>

DropProvider(c, tab, p, id) ==
  /\ configs[p] # Null /\ configs[p].id = id
  /\ Start(c, "unregister", "count", [Idle EXCEPT !.tab = tab, !.owner = p, !.id = id])
  /\ UNCHANGED <<catalogue, removed, configs, routed>>

(* Fault: the models of the provider are not counted.                      *)
CountNothing(c) ==
  /\ call[c].at = "count"
  /\ Goto(c, "unregister")
  /\ UNCHANGED tables

CountModels(c) ==
  /\ call[c].at = "count"
  /\ IF OfProvider(call[c].owner) # {} THEN Goto(c, "failed") ELSE Goto(c, "unregister")
  /\ UNCHANGED tables

Unregister(c) ==
  LET p == call[c].owner IN
  /\ call[c].at = "unregister"
  /\ IF configs[p] = Null \/ configs[p].id # call[c].id THEN Fail(c)
     ELSE /\ configs' = [configs EXCEPT ![p] = Null]
          /\ Invalidate
          /\ call' = [call EXCEPT ![c].at = "providers"]
          /\ UNCHANGED <<catalogue, removed, issued, buried, menu>>

-----------------------------------------------------------------------------
(* A snapshot older than the rows is rebuilt when its time is over.        *)
Rebuild ==
  /\ routed # Enabled /\ routed' = Enabled
  /\ UNCHANGED <<catalogue, removed, configs, issued, call, overlapped, buried, menu>>

(* A statement of a request fails, or its answer goes astray.              *)
Lose(c) ==
  /\ "fail" \in menu /\ call[c].at \notin {"idle", "failed", "lost"}
  /\ Goto(c, "lost")
  /\ UNCHANGED tables

CatalogueInit ==
  /\ \E s \in Scenarios : /\ catalogue = s.catalogue /\ configs = s.configs
                          /\ issued = s.issued /\ menu = s.menu
  /\ routed = Enabled
  /\ removed = [m \in Models |-> Null]
  /\ call = [c \in Calls |-> Idle]
  /\ overlapped = FALSE
  /\ buried = [m \in Models |-> Null]

(* The steps of a request between its arrival and its answer.              *)
ServeNext ==
  Rebuild \/ \E c \in Calls :
    \/ NextProvider(c) \/ EndSync(c) \/ ReadRows(c) \/ ReadGone(c)
    \/ \E m \in Models : Refresh(c, m) \/ Import(c, m)
    \/ Chain(c) \/ Probe(c) \/ Lift(c) \/ Insert(c) \/ Save(c)
    \/ Referenced(c) \/ Remove(c) \/ Unremove(c)
    \/ Register(c) \/ Toggle(c) \/ CountModels(c) \/ Unregister(c) \/ Lose(c)
=============================================================================
