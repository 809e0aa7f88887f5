---------------------------- MODULE CatalogueMC ----------------------------
(***************************************************************************)
(* The catalogue behind its console, and what it must achieve.  A scenario *)
(* combines the operations that touch the same rows, one at a time or two  *)
(* at once.  Other parts of the run are the board of providers, the paged  *)
(* tables and the figures of the dashboard; the parts share nothing, and   *)
(* one that is not open keeps Null in its variables.                       *)
(***************************************************************************)
EXTENDS Console, Sequences, TLC

CONSTANTS
  x, y, builtin, custom, m1, m2, Parts,
  TableRows, Found, TableMoves, Openings,   \* of Tables
  BoardRows, BoardMoves, Boards,            \* of ProviderBoard
  Calendars, Day, MonthStarts, Windows, Latest, LogRows   \* of Metrics

VARIABLES
  part,                          \* never changes
  stored, list, loads, tasks,    \* of Tables
  rows, snapshot, ids, jobs, board,   \* of ProviderBoard
  calendar, clock, usage, overview   \* of Metrics

consoleVars == <<catalogue, removed, configs, routed, issued, call, overlapped, buried, menu, page>>
tablesOnly == <<stored, list, loads, tasks>>
boardOnly == <<rows, snapshot, ids, jobs, board>>
metricsOnly == <<calendar, clock, usage, overview>>
vars == <<part, consoleVars, tablesOnly, boardOnly, metricsOnly>>

Opening(k, n, ops) ==
  [kind |-> k, rows |-> [r \in 1 .. 2 |-> IF r > n THEN Null ELSE IF r = 1 THEN "on" ELSE "off"],
   menu |-> ops]

SmallOpenings ==
  {Opening("usage", 2, {"select", "sort", "reset", "turn", "fail"}),
   Opening("usage", 2, {"search", "reset", "turn", "elsewhere"}),
   Opening("usage", 1, {"detail", "fail", "select", "elsewhere"}),
   Opening("audit", 2, {"select", "turn", "expand", "fail"}),
   Opening("users", 2, {"act", "select"}),
   Opening("users", 1, {"act", "fail"}),
   Opening("users", 2, {"act", "turn", "elsewhere"}),
   Opening("users", 2, {"act", "search", "elsewhere"})}

Table == INSTANCE Tables WITH
  Rows     <- TableRows,
  Loads    <- Calls,
  Tasks    <- Calls,
  MaxMoves <- TableMoves

(* A page has the operator's dialogs or the detail of a row, not both.     *)
ASSUME TableAssumption ==
  /\ TableRows \subseteq Nat /\ IsFiniteSet(TableRows)
  /\ \A o \in Openings : /\ o.rows \in [TableRows -> Table!Statuses \union {Null}]
                         /\ o.kind \in {"usage", "users", "audit"} /\ o.menu \subseteq STRING
                         /\ ~({"act", "detail"} \subseteq o.menu)
  /\ Null \notin TableRows /\ Null \notin Calls /\ Null \notin Table!Statuses
  /\ Null \notin Table!Query \union Table!Load \union Table!Task \union Table!Dialog

StoredProvider(i, on) ==
  [id |-> i, custom |-> TRUE, enabled |-> on, proxies |-> FALSE, version |-> 0]
BoardOf(row, ops) == [rows |-> (builtin :> Null) @@ (custom :> row), menu |-> ops]

SmallBoards ==
  {BoardOf(StoredProvider(1, TRUE), {"edit", "flip", "elsewhere"}),
   BoardOf(StoredProvider(1, TRUE), {"edit", "flip", "toggle"}),
   BoardOf(StoredProvider(1, FALSE), {"edit", "toggle", "rotate", "reread", "fail"}),
   BoardOf(StoredProvider(1, TRUE), {"proxy", "delete", "sync"}),
   BoardOf(Null, {"create", "edit", "test"}),
   BoardOf(StoredProvider(1, TRUE), {"proxy", "fail"}),
   BoardOf(StoredProvider(1, TRUE), {"proxy", "elsewhere"}),
   BoardOf(StoredProvider(1, TRUE), {"toggle", "edit", "delete", "lag"}),
   BoardOf(StoredProvider(1, TRUE), {"proxy", "delete", "lag"})}

Board == INSTANCE ProviderBoard WITH
  Slugs    <- Providers,
  Builtin  <- Providers \ Custom,
  Jobs     <- Calls,
  MaxRows  <- BoardRows,
  MaxMoves <- BoardMoves,
  issued   <- ids

(* Rows have ids of their own, and only an adapter that is compiled in has *)
(* one that is not custom.                                                 *)
Numbered(listing) ==
  LET kept == {p \in Providers : listing[p] # Null} IN
  \A p \in kept : /\ listing[p].id \in 1 .. Cardinality(kept)
                  /\ p \in Custom => listing[p].custom
                  /\ \A q \in kept : listing[q].id = listing[p].id => q = p

ASSUME BoardAssumption ==
  /\ Providers # {} /\ IsFiniteSet(Providers)
  /\ \A b \in Boards : b.rows \in Board!Listing /\ Numbered(b.rows) /\ b.menu \subseteq STRING
  /\ Null \notin Board!Row \union Board!Job \union Board!Button \union Board!Listing
  /\ Null \notin Board!Dialog

(* Four days: all of 24 hours, the second one short, or the second long.   *)
SmallCalendars == {<<0, 2, 4, 6>>, <<0, 2, 3, 5>>, <<0, 2, 5, 7>>}

Dashboard == INSTANCE Metrics WITH
  Served  <- {m1, m2},
  MaxRows <- LogRows

(* Midnights follow one another, from that at which a month and the log    *)
(* begin.                                                                  *)
ASSUME MetricsAssumption ==
  /\ \A c \in Calendars : /\ c \in Seq(Nat) /\ c # <<>> /\ c[1] = 0
                          /\ \A d, e \in DOMAIN c : d < e => c[d] < c[e]
  /\ Day \in Nat \ {0} /\ MonthStarts \subseteq Nat /\ 1 \in MonthStarts
  /\ Windows \subseteq Nat \ {0} /\ Windows # {} /\ IsFiniteSet(Windows)

Synced(i, p) == [id |-> i, provider |-> p, manual |-> FALSE, source |-> "upstream",
                 fallbacks |-> {}]
Typed(i, p) == [Synced(i, p) EXCEPT !.manual = TRUE, !.source = "typed"]

Empty == [m \in Models |-> Null]
None == [p \in Providers |-> Null]

Scenario(stock, cfgs, n, ops) ==
  [catalogue |-> stock, configs |-> cfgs, issued |-> n, menu |-> ops]

SmallOffers == (builtin :> {x}) @@ (custom :> {y})

One == [Empty EXCEPT ![x] = Synced(1, builtin)]
Both == [One EXCEPT ![y] = Typed(2, builtin)]
Added == [None EXCEPT ![custom] = [id |-> 1, enabled |-> TRUE]]

SmallScenarios ==
  {Scenario(One, None, 1, {"alone", "sync", "create", "update", "delete", "restore",
                             "repeat"}),
   Scenario(One, None, 1, {"alone", "sync", "create", "delete", "fail"}),
   Scenario(Both, None, 2, {"update", "delete"}),
   Scenario(One, None, 3, {"sync", "delete", "restore"}),
   Scenario(Empty, None, 3, {"sync", "create", "delete"}),
   Scenario(One, None, 1, {"alone", "sync", "delete", "visit"}),
   Scenario(Empty, Added, 3, {"register", "unregister", "syncOne"}),
   Scenario(Empty, Added, 2, {"toggle", "unregister", "create", "lag"})}

Symmetry == Permutations(Calls)

FinalScenarios == {Scenario(One, None, 1, {"alone", "sync", "create", "delete"})}

CatalogueShut == catalogue = Null /\ removed = Null /\ configs = Null /\ routed = Null
                   /\ issued = Null /\ call = Null /\ overlapped = Null /\ buried = Null /\ menu = Null
                   /\ page = Null
TablesShut == stored = Null /\ list = Null /\ loads = Null /\ tasks = Null
BoardShut == rows = Null /\ snapshot = Null /\ ids = Null /\ jobs = Null /\ board = Null
MetricsShut == calendar = Null /\ clock = Null /\ usage = Null /\ overview = Null

Init ==
  /\ part \in Parts
  /\ IF part = "catalogue" THEN ConsoleInit ELSE CatalogueShut
  /\ IF part = "tables" THEN Table!TablesInit ELSE TablesShut
  /\ IF part = "board" THEN Board!BoardInit ELSE BoardShut
  /\ IF part = "dashboard" THEN Dashboard!MetricsInit ELSE MetricsShut

Next ==
  /\ UNCHANGED part
  /\ \/ part = "catalogue" /\ ConsoleNext /\ UNCHANGED <<tablesOnly, boardOnly, metricsOnly>>
     \/ part = "tables" /\ Table!TablesNext /\ UNCHANGED <<consoleVars, boardOnly, metricsOnly>>
     \/ part = "board" /\ Board!BoardNext /\ UNCHANGED <<consoleVars, tablesOnly, metricsOnly>>
     \/ part = "dashboard" /\ Dashboard!MetricsNext
        /\ UNCHANGED <<consoleVars, tablesOnly, boardOnly>>

Spec == Init /\ [][Next]_vars

Dangling == {m \in Models : Exists(m) /\ \E n \in catalogue[m].fallbacks : ~Exists(n)}
Orphans == {m \in Models : Exists(m) /\ catalogue[m].provider \in Custom
                             /\ configs[catalogue[m].provider] = Null}
Contradicted == {m \in Models : Exists(m) /\ removed[m] # Null}
Squatted(p) == \E m \in Offers[p] : Exists(m) /\ catalogue[m].provider # p

(* As long as requests come one at a time, no chain names a model that is  *)
(* gone, no model names a provider that is gone, and no id is listed as    *)
(* live and as removed at once.                                            *)
ConsistentWhenAlone == part = "catalogue" /\ ~overlapped => Dangling = {} /\ Orphans = {} /\ Contradicted = {}

(* "That is what makes this button mean what it says": unless it has been  *)
(* restored or lifted since, the id of a deleted synced row is created     *)
(* again only by a sync that had read the removed list before the          *)
(* deletion, or by a request that adds it by hand and had lifted an        *)
(* earlier suppression of it.                                              *)
DeletionSticks ==
  [][part = "catalogue" => \A m \in Models :
       /\ buried[m] # Null /\ ~buried[m].manual
       /\ ~Exists(m) /\ Exists(m)'
       => \/ \E c \in buried[m].by : call'[c] # call[c]
          \/ catalogue'[m].manual /\ \E c \in Calls : call[c].at = "insert"]_vars

(* "Sync must not rewrite the upstreamModel or the prices someone typed    *)
(* in": it rewrites a hand-added row only when it had read, under the same *)
(* id, another row that has been deleted since.                            *)
TypedRowsAreRewrittenByRace ==
  [][part = "catalogue" => \A m \in Models :
       /\ Exists(m) /\ catalogue[m].manual /\ catalogue[m].source = "typed"
       /\ Exists(m)' /\ catalogue'[m].source = "upstream"
       => \E c \in Calls : /\ call[c].at = "scan" /\ call[c].rows # Null
                           /\ call[c].rows[m] # Null /\ call[c].rows[m].id # catalogue[m].id]_vars

(* A sync throws half-way, leaving the providers after it unread, only if  *)
(* another request ran beside it, an id in the provider's prefix belongs   *)
(* to a row of another provider, or the upstream named again an id that    *)
(* the sync had created.                                                   *)
SyncAbortsByClash ==
  [][part = "catalogue" => \A c \in Calls :
       call[c].at = "scan" /\ call'[c].at = "failed" =>
         \/ overlapped \/ Squatted(call[c].owner)
         \/ \E m \in call[c].again \ call[c].listed : Exists(m) /\ call[c].rows[m] = Null]_vars

(* Only a race makes a sync rewrite what someone typed in, and only a race *)
(* or a clash of ids makes it abort.                                       *)
SyncHarmsByRaceOnly == TypedRowsAreRewrittenByRace /\ SyncAbortsByClash

(* "The table always shows stored rows rather than a local guess": with    *)
(* one request at a time on one page of models, the lists it shows are the *)
(* stored ones whenever it waits for nothing, unless a request failed on   *)
(* its way from a write to its answer and none has been answered since.    *)
ConsoleShowsStoredRows ==
  part = "catalogue" => \A t \in Tabs :
    /\ ~overlapped /\ UnderWay = {} /\ Tabs = {t}
    /\ menu \intersect {"visit", "syncOne", "register"} = {}
    /\ ~page[t].missed
    =>
      page[t].rows = catalogue /\ page[t].gone = removed

(* A draft in the editor is closed by an answer only to its own save,      *)
(* unless an earlier editor was closed with a save still under way.        *)
DraftIsClosedByItsOwnSave ==
  part = "catalogue" => \A t \in Tabs, c \in Calls :
    /\ page[t].editing # 0 /\ page'[t].editing = 0
    /\ call[c].at = "answer" /\ call'[c].at = "idle"
    => page[t].dismissed \/ call[c].id = page[t].editing

(* On every page of an operator, an answer closes only the dialog that     *)
(* asked for it, unless an earlier one was left with its request under way *)
(* (setForm(null), setPending(null) close whatever is open by then).       *)
DialogsAreClosedByTheirOwn ==
  [][/\ DraftIsClosedByItsOwnSave
     /\ part = "tables" => Table!DialogClosedByItsOwn
     /\ part = "board" => Board!DialogClosedByItsOwn]_vars

-----------------------------------------------------------------------------
(* The tables.                                                             *)

(* What a table shows, an empty one included, answers what its controls    *)
(* say, up to the loads nobody can abort; and the tables of the console    *)
(* show the stored rows.                                                   *)
TablesTellTheTruth ==
  (part = "tables" => Table!TablesTellTheTruth) /\ ConsoleShowsStoredRows

(* The trend, the windows and the cards of the dashboard agree with the    *)
(* rows read, and with the calendar unless a day was not 24 hours long.    *)
DashboardAddsUp == part = "dashboard" => Dashboard!DashboardAddsUp

-----------------------------------------------------------------------------
(* The board of providers.                                                 *)

(* The board shows the stored providers, locks a row with a request of its *)
(* own, and no row comes to be that neither it nor the gateway can reach,  *)
(* up to the races named; an edit of the settings turns a provider on or   *)
(* off only by its operator's hand, or over a row written since.           *)
BoardTellsTheTruth ==
  /\ [](part = "board" => Board!BoardTellsTheTruth)
  /\ [][part = "board" => Board!EditKeepsTheSwitch]_vars

-----------------------------------------------------------------------------
(* What a comment and a dialog say, and a later listing refutes.           *)

(* "Hand-added, so this is final: sync never created it and will not bring *)
(* it back": no sync creates the id of a deleted hand-added row.           *)
ManualDeletionIsFinal ==
  [][part = "catalogue" => \A m \in Models :
       buried[m] # Null /\ buried[m].manual /\ ~Exists(m) /\ Exists(m)' =>
         catalogue'[m].manual]_vars
=============================================================================
