---------------------------- MODULE ProviderBoard ----------------------------
(***************************************************************************)
(* The board of upstream providers (admin-providers.tsx) over the rows of  *)
(* provider_configs: settings, the switch, the credential and the list of  *)
(* proxies.  The models of a provider are the catalogue's; here a removal  *)
(* may be refused for them.                                                *)
(*                                                                         *)
(* One word, `busy', says whose button spins: a request on another row     *)
(* takes it over, and the end of any request clears it.  Other operators   *)
(* issue requests of their own.  A row stands for its settings by the      *)
(* number of times it was written; what a probe reports is left out.       *)
(***************************************************************************)
EXTENDS Integers, FiniteSets, Absent

CONSTANTS
  Slugs, Builtin,      \* provider ids; those compiled in
  Jobs,                \* bound: requests under way at once
  MaxRows,             \* bound: rows ever created
  MaxMoves,            \* bound: requests and dialogs begun
  Boards               \* the boards a behaviour may begin with: [rows, menu]

VARIABLES
  rows,      \* rows[p]: the row of provider_configs, or Null
  snapshot,  \* the same, as the registry read it last
  issued,    \* how many row ids have been given out
  jobs,      \* jobs[j]: a request, or Null
  board      \* the state of the page

boardVars == <<rows, snapshot, issued, jobs, board>>

Row == [id : Nat, custom : BOOLEAN, enabled : BOOLEAN, proxies : BOOLEAN, version : Nat]

Listing == [Slugs -> Row \union {Null}]

Modes == {"create", "edit", "rotate", "proxy", "delete"}
Ops == Modes \union {"test", "sync", "toggle", "reread"}
Pasted == {"none", "good", "mixed"}

(* row: what the dialog was opened on.  enabled: the switch in the form,    *)
(* and whether it was flipped.                                             *)
(* waits: the requests it has sent that have not ended.                    *)
Dialog == [mode : Modes, slug : Slugs, row : Row \union {Null}, enabled : BOOLEAN,
           flipped : BOOLEAN, waits : SUBSET Jobs]

(* seen: the version of the row the request was made on.                   *)
Job == [op : Ops, slug : Slugs, id : Nat, seen : Nat, enabled : BOOLEAN, touched : BOOLEAN,
        known : BOOLEAN, found : Row \union {Null}, list : Listing \union {Null},
        at : {"resolve", "scan", "list", "find", "probe", "write", "answer", "failed"},
        mine : BOOLEAN, pasted : Pasted]

Button == [slug : Slugs, op : Ops]

Page == [list : Listing, menu : SUBSET STRING, busy : Button \union {Null}, loading : BOOLEAN,
         dialog : Dialog \union {Null}, moves : Nat, alone : BOOLEAN, crossed : BOOLEAN,
         dismissed : BOOLEAN, raced : BOOLEAN, behind : BOOLEAN]

Nothing == [p \in Slugs |-> Null]

(* resolveProvider: what is compiled in, and the rows switched on.         *)
Registered(p) ==
  p \in Builtin \/ (snapshot[p] # Null /\ snapshot[p].custom /\ snapshot[p].enabled)

(* A pool of proxies is kept for what is compiled in and for those.        *)
Pooled(p) == /\ snapshot[p] # Null /\ snapshot[p].proxies
             /\ snapshot[p].custom => snapshot[p].enabled

(* The status of what is registered, with what its row adds if there is    *)
(* one: id 0 stands for a card without a row.                              *)
Bare(p) == [id |-> 0, custom |-> p \notin Builtin, enabled |-> TRUE, proxies |-> Pooled(p),
            version |-> 0]
Merged(p) == IF rows[p] = Null THEN Bare(p)
             ELSE [rows[p] EXCEPT !.custom = p \notin Builtin, !.proxies = Pooled(p)]

(* Fault: providers that are switched off are left out.                    *)
ListedEnabled == [p \in Slugs |-> IF Registered(p) THEN Merged(p) ELSE Null]

(* listAdminProviders: a custom row the registry does not have is shown    *)
(* switched off and without proxies; any other such row is left out.       *)
Listed == [p \in Slugs |->
  CASE Registered(p) -> Merged(p)
    [] ~Registered(p) /\ rows[p] # Null /\ rows[p].custom ->
         [rows[p] EXCEPT !.enabled = FALSE, !.proxies = FALSE]
    [] OTHER -> Null]

-----------------------------------------------------------------------------
(* The page begins a request.                                              *)

UnderWay == {j \in Jobs : jobs[j] # Null}
Mine == {j \in UnderWay : jobs[j].mine}
Spinning == {j \in Mine : jobs[j].op \notin {"create", "reread"}}

Can(op) == op \in board.menu /\ board.moves < MaxMoves

(* Fault: a row is open to every click.                                    *)
RowBusyNever(p) == FALSE

RowBusy(p) == board.busy # Null /\ board.busy.slug = p
IsBusy(p, op) == board.busy = [slug |-> p, op |-> op]

(* A card's buttons, under no dialog.                                      *)
CardIsOpen(p, op) == Can(op) /\ board.dialog = Null /\ ~RowBusy(p)

FirstStep(op) == CASE op \in {"proxy", "test"} -> "resolve"
                   [] op = "sync"              -> "scan"
                   [] op = "reread"            -> "list"
                   [] OTHER                    -> "find"

Request(op, p, row, enabled, mine) ==
  [op |-> op, slug |-> p, id |-> IF row = Null THEN 0 ELSE row.id,
   seen |-> IF row = Null THEN 0 ELSE row.version, enabled |-> enabled,
   touched |-> FALSE, known |-> FALSE, found |-> Null, list |-> Null,
   at |-> FirstStep(op), mine |-> mine, pasted |-> "none"]

(* The page notes what its handlers set; the rest are histories: requests  *)
(* side by side, on two rows, and a removal beside a save of proxies.      *)
Begin(j, request, page) ==
  /\ jobs[j] = Null
  /\ jobs' = [jobs EXCEPT ![j] = request]
  /\ board' = [page EXCEPT
       !.moves = @ + 1,
       !.busy = IF request.mine /\ request.op \notin {"create", "reread"}
                  THEN [slug |-> request.slug, op |-> request.op] ELSE @,
       !.alone = @ /\ request.mine /\ UnderWay = {},
       !.crossed = @ \/ (request.mine /\ \E k \in Spinning : jobs[k].slug # request.slug),
       !.raced = @ \/ \E k \in UnderWay : {jobs[k].op, request.op} = {"delete", "proxy"}]
  /\ UNCHANGED <<rows, snapshot, issued>>

Reread(j) ==
  /\ Can("reread") /\ board.dialog = Null /\ ~board.loading
  /\ Begin(j, Request("reread", CHOOSE p \in Slugs : TRUE, Null, FALSE, TRUE),
           [board EXCEPT !.loading = TRUE])

ClickTest(j, p) ==
  /\ CardIsOpen(p, "test") /\ board.list[p] # Null
  /\ Begin(j, Request("test", p, board.list[p], FALSE, TRUE), board)

ClickSync(j, p) ==
  /\ CardIsOpen(p, "sync") /\ board.list[p] # Null /\ board.list[p].enabled
  /\ Begin(j, Request("sync", p, Null, FALSE, TRUE), board)

ClickToggle(j, p) ==
  LET row == board.list[p] IN
  /\ CardIsOpen(p, "toggle") /\ row # Null /\ row.custom /\ row.id # 0
  /\ Begin(j, Request("toggle", p, row, ~row.enabled, TRUE), board)

-----------------------------------------------------------------------------
(* Dialogs.                                                                *)

OpenedOn(p, mode) == IF mode = "create" THEN Null ELSE board.list[p]

(* Fault: every form starts switched on.                                   *)
OpenedEnabled(p, mode) ==
  [mode |-> mode, slug |-> p, row |-> OpenedOn(p, mode), waits |-> {}, flipped |-> FALSE,
   enabled |-> TRUE]

Opened(p, mode) ==
  [mode |-> mode, slug |-> p, row |-> OpenedOn(p, mode), waits |-> {}, flipped |-> FALSE,
   enabled |-> OpenedOn(p, mode) = Null \/ OpenedOn(p, mode).enabled]

OpenDialog(p, mode) ==
  /\ Can(mode) /\ board.dialog = Null
  /\ mode # "create" => ~RowBusy(p) /\ board.list[p] # Null
  /\ mode = "edit" => board.list[p].id # 0
  /\ mode \in {"rotate", "delete"} => board.list[p].custom
  /\ board' = [board EXCEPT !.dialog = Opened(p, mode), !.moves = @ + 1]
  /\ UNCHANGED <<rows, snapshot, issued, jobs>>

Flip ==
  /\ board.dialog # Null /\ board.dialog.mode \in {"create", "edit"}
  /\ "flip" \in board.menu
  /\ board' = [board EXCEPT !.dialog.enabled = ~@, !.dialog.flipped = ~@]
  /\ UNCHANGED <<rows, snapshot, issued, jobs>>

(* Escape and the cross.  `dismissed': a dialog was left with a request of  *)
(* its own still under way.                                                *)
CloseDialog ==
  /\ board.dialog # Null
  /\ board' = [board EXCEPT !.dialog = Null, !.dismissed = @ \/ board.dialog.waits # {}]
  /\ UNCHANGED <<rows, snapshot, issued, jobs>>

(* A form waits by a flag of its own, the other dialogs by the page's.     *)
Saving == LET d == board.dialog IN
          IF d.mode \in {"proxy", "delete"} THEN IsBusy(d.slug, d.mode) ELSE d.waits # {}

(* pasted: whether the list of proxies is empty, and whether lines of it   *)
(* are rejected; one rejected whole cannot be sent.  Without a row there   *)
(* is nothing to patch or to delete.                                       *)
Submit(j, pasted) ==
  LET d == board.dialog IN
  /\ d # Null /\ ~Saving /\ board.moves < MaxMoves
  /\ pasted = "none" \/ d.mode = "proxy"
  /\ d.mode \notin {"create", "proxy"} => d.row.id # 0
  /\ Begin(j, [Request(d.mode, d.slug, d.row, d.enabled, TRUE) EXCEPT
                 !.pasted = pasted, !.touched = d.flipped],
           [board EXCEPT !.dialog.waits = @ \union {j}])

(* Another operator, on a page as current as can be.                       *)
Elsewhere(j, op, p) ==
  /\ Can("elsewhere")
  /\ IF op = "proxy" THEN p \in Builtin \/ rows[p] # Null
     ELSE rows[p] # Null /\ rows[p].custom
  /\ Begin(j, [Request(op, p, rows[p], rows[p] # Null /\ ~rows[p].enabled, FALSE)
                 EXCEPT !.pasted = "good"], board)

-----------------------------------------------------------------------------
(* The service, a statement a step.                                        *)

Go(j, at) == jobs' = [jobs EXCEPT ![j].at = at]
At(j, at) == jobs[j] # Null /\ jobs[j].at = at

Resolve(j) ==
  LET job == jobs[j] IN
  /\ At(j, "resolve")
  /\ jobs' = [jobs EXCEPT
       ![j].known = Registered(job.slug),
       ![j].at = CASE job.op = "proxy" -> "find"
                   [] job.op # "proxy" /\ Registered(job.slug) -> "probe"
                   [] OTHER -> "failed"]
  /\ UNCHANGED <<rows, snapshot, issued, board>>

Probe(j) == At(j, "probe") /\ Go(j, "answer") /\ UNCHANGED <<rows, snapshot, issued, board>>

ScanModels(j) == At(j, "scan") /\ Go(j, "list") /\ UNCHANGED <<rows, snapshot, issued, board>>

ById(id) == {p \in Slugs : rows[p] # Null /\ rows[p].id = id}

(* Fault: proxies are saved for any slug.                                  *)
FindsNothingByRow(job) ==
  CASE job.op = "create" -> job.slug \in Builtin \/ rows[job.slug] # Null
    [] job.op = "proxy"  -> FALSE
    [] OTHER             -> ById(job.id) = {}

FindsNothing(job) ==
  CASE job.op = "create" -> job.slug \in Builtin \/ rows[job.slug] # Null
    [] job.op = "proxy"  -> ~job.known /\ rows[job.slug] = Null
    [] OTHER             -> ById(job.id) = {}

Find(j) ==
  /\ At(j, "find")
  /\ IF FindsNothing(jobs[j]) THEN Go(j, "failed")
     ELSE jobs' = [jobs EXCEPT ![j].at = "write", ![j].found = rows[jobs[j].slug]]
  /\ UNCHANGED <<rows, snapshot, issued, board>>

(* deleteCustomProvider: the catalogue still names the provider.  Any      *)
(* request may also fail here, or be lost after it has written.            *)
Refuse(j) ==
  /\ "fail" \in board.menu \/ (At(j, "write") /\ jobs[j].op = "delete")
  /\ At(j, "write") \/ At(j, "list")
  /\ Go(j, "failed")
  /\ board' = [board EXCEPT !.alone = @ /\ At(j, "write")]
  /\ UNCHANGED <<rows, snapshot, issued>>

NewRow(custom, enabled, proxies) ==
  [id |-> issued + 1, custom |-> custom, enabled |-> enabled, proxies |-> proxies, version |-> 0]

Written(job) ==
  CASE job.op = "create"   -> NewRow(TRUE, job.enabled, FALSE)
    [] job.op = "proxy" /\ job.found = Null -> NewRow(FALSE, TRUE, job.pasted # "none")
    [] job.op = "proxy" /\ job.found # Null ->
         [rows[job.slug] EXCEPT !.proxies = job.pasted # "none", !.version = @ + 1]
    [] job.op = "delete"   -> Null
    [] job.op = "rotate"   -> [rows[job.slug] EXCEPT !.version = @ + 1]
    [] OTHER               -> [rows[job.slug] EXCEPT !.enabled = job.enabled, !.version = @ + 1]

Creates(job) == job.op = "create" \/ (job.op = "proxy" /\ job.found = Null)

(* invalidateProviderCache: the snapshot is dropped and read again.  A      *)
(* reading begun before the write may still land after it, and one that     *)
(* fails finds no row; `behind' is the history of that.                     *)
Invalidate ==
  /\ snapshot' \in {rows'} \union (IF "lag" \in board.menu THEN {snapshot, Nothing} ELSE {})
  /\ board' = [board EXCEPT !.behind = @ \/ snapshot' # rows']

Rebuild == /\ snapshot # rows /\ snapshot' = rows
           /\ UNCHANGED <<rows, issued, jobs, board>>

(* A create on a taken slug and an update of a row that is gone both throw. *)
Collides(job) ==
  IF Creates(job) THEN rows[job.slug] # Null
  ELSE rows[job.slug] = Null \/ rows[job.slug].id # job.found.id

Write(j) ==
  LET job == jobs[j] IN
  /\ At(j, "write") /\ (issued < MaxRows \/ ~Creates(job))
  /\ IF Collides(job) THEN Go(j, "failed") /\ UNCHANGED <<rows, snapshot, issued, board>>
     ELSE /\ rows' = [rows EXCEPT ![job.slug] = Written(job)]
          /\ issued' = issued + (IF Creates(job) THEN 1 ELSE 0)
          /\ Go(j, "list") /\ Invalidate

List(j) ==
  /\ At(j, "list")
  /\ jobs' = [jobs EXCEPT ![j].list = Listed, ![j].at = "answer"]
  /\ UNCHANGED <<rows, snapshot, issued, board>>

-----------------------------------------------------------------------------
(* Answers.                                                                *)

(* Fault: every success closes every dialog.                               *)
ClosesAll(op) == Modes

(* setForm(null), setProxyFor(null), setRemoving(null).                    *)
Closes(op) == CASE op \in {"create", "edit", "rotate"} -> {"create", "edit", "rotate"}
                [] op \in {"proxy", "delete"}          -> {op}
                [] OTHER                               -> {}

(* The dialog after request j has ended.  A list of proxies with rejected  *)
(* lines keeps its own open.                                               *)
Left(j) == IF board.dialog = Null THEN Null ELSE [board.dialog EXCEPT !.waits = @ \ {j}]
Closed(j) == IF /\ board.dialog # Null /\ board.dialog.mode \in Closes(jobs[j].op)
                /\ jobs[j].pasted # "mixed"
               THEN Null ELSE Left(j)

Ended(job) ==
  [board EXCEPT !.busy = IF job.op \in {"create", "reread"} THEN @ ELSE Null,
                !.loading = @ /\ job.op # "reread"]

Answer(j) ==
  /\ At(j, "answer")
  /\ jobs' = [jobs EXCEPT ![j] = Null]
  /\ board' = IF ~jobs[j].mine THEN board
              ELSE [Ended(jobs[j]) EXCEPT
                      !.list = IF jobs[j].op = "test" THEN @ ELSE jobs[j].list,
                      !.dialog = Closed(j),
                      !.dismissed = @ \/ (Closed(j) = Null /\ Left(j) # Null /\ Left(j).waits # {})]
  /\ UNCHANGED <<rows, snapshot, issued>>

AnswerError(j) ==
  /\ At(j, "failed")
  /\ jobs' = [jobs EXCEPT ![j] = Null]
  /\ board' = IF ~jobs[j].mine THEN board ELSE [Ended(jobs[j]) EXCEPT !.dialog = Left(j)]
  /\ UNCHANGED <<rows, snapshot, issued>>

-----------------------------------------------------------------------------
BoardInit ==
  \E b \in Boards :
    /\ rows = b.rows /\ snapshot = b.rows /\ jobs = [j \in Jobs |-> Null]
    /\ issued = Cardinality({p \in Slugs : b.rows[p] # Null})
    /\ board = [list |-> Listed, menu |-> b.menu, busy |-> Null, loading |-> FALSE,
                dialog |-> Null, moves |-> 0,
                alone |-> TRUE, crossed |-> FALSE, dismissed |-> FALSE, raced |-> FALSE,
                behind |-> FALSE]

BoardNext ==
  \/ \E j \in Jobs, p \in Slugs :
       \/ ClickTest(j, p) \/ ClickSync(j, p) \/ ClickToggle(j, p)
       \/ \E op \in {"toggle", "delete", "proxy"} : Elsewhere(j, op, p)
  \/ \E p \in Slugs, mode \in Modes : OpenDialog(p, mode)
  \/ Flip \/ CloseDialog
  \/ \E j \in Jobs :
       \/ Reread(j) \/ \E pasted \in Pasted : Submit(j, pasted)
       \/ Resolve(j) \/ Probe(j) \/ ScanModels(j) \/ Find(j) \/ Refuse(j)
       \/ Write(j) \/ List(j) \/ Answer(j) \/ AnswerError(j)
  \/ Rebuild

-----------------------------------------------------------------------------
Ghosts == {p \in Slugs \ Builtin : rows[p] # Null /\ ~rows[p].custom}

(* setProviderProxies creates a row only to annotate what is compiled in.  *)
(* A slug with such a row and no adapter behind it is shown by no list,    *)
(* cannot be deleted and cannot be added again: it comes only of proxies   *)
(* saved beside the removal of the provider, or while the registry still   *)
(* has a provider that is removed.                                         *)
GhostsComeByRace == Ghosts # {} => board.raced \/ board.behind

(* What a card should say: the stored row, but of a provider added at run  *)
(* time and switched off no proxies; one compiled in has a card without.   *)
Card(p) ==
  CASE rows[p] # Null -> [rows[p] EXCEPT !.custom = p \notin Builtin,
                                         !.proxies = @ /\ (rows[p].custom => rows[p].enabled)]
    [] rows[p] = Null /\ p \in Builtin ->
         [id |-> 0, custom |-> FALSE, enabled |-> TRUE, proxies |-> FALSE, version |-> 0]
    [] OTHER -> Null

(* With one request at a time, whose answer arrives, and a registry that   *)
(* misses no write, the board shows the stored rows.                       *)
BoardShowsStoredRows ==
  board.alone /\ ~board.behind /\ UnderWay = {} =>
    \A p \in Slugs \ Ghosts : board.list[p] = Card(p)

(* "So only the pressed button spins": a row has one request of the page   *)
(* at a time, unless a request on another row took `busy' over.            *)
OneRequestPerRow ==
  ~board.crossed => \A j, k \in Spinning : j # k => jobs[j].slug # jobs[k].slug

(* What the board says holds up to the races named.                        *)
BoardTellsTheTruth == GhostsComeByRace /\ BoardShowsStoredRows /\ OneRequestPerRow

(* An edit sends the whole form.  It turns the switch only if its operator *)
(* did, if the row was written since the form was opened, or if the        *)
(* registry had missed a write and the form showed its word for the row's. *)
EditKeepsTheSwitch ==
  \A j \in Jobs, p \in Slugs :
    /\ At(j, "write") /\ jobs'[j].at = "list" /\ jobs[j].op = "edit" /\ jobs[j].slug = p
    /\ rows'[p].enabled # rows[p].enabled
    => jobs[j].touched \/ jobs[j].seen # rows[p].version \/ board.behind

(* An answer closes only the dialog that asked for it, unless one was      *)
(* dismissed with its request under way.                                   *)
DialogClosedByItsOwn ==
  \A j \in Jobs :
    /\ jobs[j] # Null /\ jobs'[j] = Null
    /\ board.dialog # Null /\ board'.dialog = Null
    => board.dismissed \/ j \in board.dialog.waits
=============================================================================
