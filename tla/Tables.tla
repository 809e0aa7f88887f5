------------------------------- MODULE Tables -------------------------------
(***************************************************************************)
(* The three paged tables of the dashboard: usage-explorer.tsx,            *)
(* admin-users.tsx and admin-audit.tsx, which are one state machine with   *)
(* different controls.  A change of the query aborts the load the last     *)
(* change began; a retry, and the reload after an operator's action, are   *)
(* begun by hand and carry no signal.  The server reads the stored rows    *)
(* when it likes and answers arrive in any order.                          *)
(*                                                                         *)
(* A query stands for its URLSearchParams.  The count and the rows of one  *)
(* answer are read at once; the columns, the totals and the page size are  *)
(* left out.                                                               *)
(***************************************************************************)
EXTENDS Integers, FiniteSets, Absent

CONSTANTS
  Rows,          \* 1 .. n, in the order of createdAt
  Found,         \* the rows a search for the term finds
  Loads, Tasks,  \* bounds: requests under way at once
  MaxMoves,      \* bound: changes of the controls, the rows and the dialogs
  Openings       \* the pages a behaviour may be about: [kind, rows, menu]

VARIABLES
  stored,        \* stored[r]: the status of row r, or Null
  list,          \* the state of the page
  loads,         \* loads[l]: a GET of the page, or Null
  tasks          \* tasks[t]: a PATCH of the page, or Null

tableVars == <<stored, list, loads, tasks>>

Statuses == {"on", "off"}     \* active and suspended; success and error

Query == [page : Nat \ {0}, select : Statuses \union {"any"},
          search : BOOLEAN, sort : {"desc", "asc"}]

First == [page |-> 1, select |-> "any", search |-> FALSE, sort |-> "desc"]

(* by: whether the effect began the load, or a handler.  Only the load of  *)
(* the last effect is `fresh': the earlier ones are aborted.               *)
Load == [query : Query, by : {"effect", "hand"}, fresh : BOOLEAN, releases : BOOLEAN]

(* What a handler closed over: the row, and the query of its render.       *)
(* done: the server has served the request, and its answer is on its way.  *)
Task == [row : Rows, kind : {"action", "plan", "detail"}, query : Query, done : BOOLEAN]

(* task: the save a plan dialog waits for.                                 *)
Dialog == [row : Rows, kind : {"action", "plan", "detail"}, task : Tasks \union {Null}]

(* An answer of the server, with the query it is to.                       *)
Answer == [query : Query, rows : SUBSET Rows, total : Nat]

Screen == [kind : {"usage", "users", "audit"}, menu : SUBSET STRING, query : Query,
           draft : BOOLEAN, data : Answer, error : Query \union {Null}, loading : BOOLEAN,
           by : {"effect", "hand"}, dialog : Dialog \union {Null},
           expanded : Rows \union {Null}, busy : BOOLEAN, crashed : BOOLEAN, moves : Int,
           hasty : BOOLEAN, shrunk : BOOLEAN, dismissed : BOOLEAN]

DialogOf(r, kind) == [row |-> r, kind |-> kind, task |-> Null]
TaskOf(r, kind) == [row |-> r, kind |-> kind, query |-> list.query, done |-> FALSE]

-----------------------------------------------------------------------------
(* listUsage, listUsers, listAuditLog with buildWhere.                     *)

PageSize == 1

BuildWhere(q) ==
  {r \in Rows : /\ stored[r] # Null
                /\ q.select = "any" \/ stored[r] = q.select
                /\ q.search => r \in Found}

Rank(r, q) == Cardinality({s \in BuildWhere(q) : IF q.sort = "desc" THEN s > r ELSE s < r})

Slice(q) == {r \in BuildWhere(q) : Rank(r, q) \div PageSize = q.page - 1}

Served(q) == [query |-> q, rows |-> Slice(q), total |-> Cardinality(BuildWhere(q))]

-----------------------------------------------------------------------------
(* load.                                                                   *)

Idle(slots) == {n \in DOMAIN slots : slots[n] = Null}
InFlight == {l \in Loads : loads[l] # Null}
UnderWay == InFlight # {} \/ \E t \in Tasks : tasks[t] # Null

(* Only the usage page clears the error before it asks.                    *)
Starting(p) == [p EXCEPT !.loading = TRUE,
                         !.error = IF p.kind = "usage" THEN Null ELSE @]

Begin(q, by, releases) ==
  [query |-> q, by |-> by, fresh |-> TRUE, releases |-> releases]

(* What the card shows under its header.                                   *)
Body == IF list.error # Null THEN "error"
        ELSE IF list.data.rows = {} THEN "empty" ELSE "table"

Can(op) == op \in list.menu /\ ~list.crashed

Moved == list.moves < MaxMoves

(* Fault: the effect returns no cleanup.                                   *)
AbortedNone == loads

(* controller.abort() of the effect that ran for the last query.           *)
Aborted == [l \in Loads |-> IF loads[l] # Null /\ loads[l].by = "effect"
                              THEN [loads[l] EXCEPT !.fresh = FALSE] ELSE loads[l]]

(* The controls of page p are set: if that changes the query, the effect   *)
(* aborts the load it began before and begins another.                     *)
Show(p) ==
  IF p.query = list.query
    THEN list' = [p EXCEPT !.moves = @ + 1] /\ UNCHANGED loads
    ELSE \E l \in Idle(loads) :
           /\ list' = [Starting(p) EXCEPT !.moves = @ + 1]
           /\ loads' = [Aborted EXCEPT ![l] = Begin(p.query, "effect", FALSE)]

(* A fetch that was aborted rejects; its finally lowers `loading' although *)
(* the next load is under way.                                             *)
LoadAborted(l) ==
  /\ loads[l] # Null /\ ~loads[l].fresh
  /\ list' = [list EXCEPT !.loading = FALSE]
  /\ loads' = [loads EXCEPT ![l] = Null]
  /\ UNCHANGED <<stored, tasks>>

(* The reload that an action awaits releases its `busy' when it ends.      *)
Landed(l, p) ==
  [p EXCEPT !.loading = FALSE, !.by = loads[l].by,
            !.busy = @ /\ ~loads[l].releases]

LoadAnswers(l) ==
  /\ loads[l] # Null /\ loads[l].fresh /\ ~list.crashed
  /\ list' = Landed(l, [list EXCEPT !.data = Served(loads[l].query), !.error = Null])
  /\ loads' = [loads EXCEPT ![l] = Null]
  /\ UNCHANGED <<stored, tasks>>

LoadFails(l) ==
  /\ Can("fail") /\ loads[l] # Null /\ loads[l].fresh
  /\ list' = Landed(l, [list EXCEPT !.error = loads[l].query])
  /\ loads' = [loads EXCEPT ![l] = Null]
  /\ UNCHANGED <<stored, tasks>>

Retry(l) ==
  /\ Can("fail") /\ Moved /\ Body = "error" /\ list.dialog = Null
  /\ loads[l] = Null
  /\ list' = [Starting(list) EXCEPT !.moves = @ + 1]
  /\ loads' = [loads EXCEPT ![l] = Begin(list.query, "hand", FALSE)]
  /\ UNCHANGED <<stored, tasks>>

-----------------------------------------------------------------------------
(* The controls.                                                           *)

AtHand(op) == Can(op) /\ Moved /\ list.dialog = Null

(* Fault: a filter keeps the page it is set on.                            *)
PatchStaying(value) ==
  /\ AtHand("select") /\ value # list.query.select
  /\ Show([list EXCEPT !.query.select = value])
  /\ UNCHANGED <<stored, tasks>>

Patch(value) ==
  /\ AtHand("select") /\ value # list.query.select
  /\ Show([list EXCEPT !.query = [@ EXCEPT !.select = value, !.page = 1], !.expanded = Null])
  /\ UNCHANGED <<stored, tasks>>

TypeSearch ==
  /\ AtHand("search")
  /\ list' = [list EXCEPT !.draft = ~@, !.moves = @ + 1]
  /\ UNCHANGED <<stored, loads, tasks>>

(* The timer of the debounce fires over an open dialog as well.            *)
DebounceFires ==
  /\ Can("search") /\ list.draft # list.query.search
  /\ Show([list EXCEPT !.query = [@ EXCEPT !.search = list.draft, !.page = 1], !.moves = @ - 1])
  /\ UNCHANGED <<stored, tasks>>

ToggleSort ==
  /\ AtHand("sort") /\ Body = "table"
  /\ Show([list EXCEPT !.query =
             [@ EXCEPT !.sort = IF list.query.sort = "asc" THEN "desc" ELSE "asc", !.page = 1]])
  /\ UNCHANGED <<stored, tasks>>

Reset ==
  /\ AtHand("reset") /\ (list.query.select # "any" \/ list.query.search)
  /\ Show([list EXCEPT !.query = First, !.draft = FALSE])
  /\ UNCHANGED <<stored, tasks>>

(* Pagination counts from the page of the rows it shows, and is there only *)
(* if there are rows.  `hasty' records a click beside a load, or on rows    *)
(* that answer another query.                                              *)
Pages == (list.data.total + PageSize - 1) \div PageSize

Turn(step) ==
  LET p == list.data.query.page + step IN
  /\ AtHand("turn") /\ Body = "table"
  /\ ~list.loading /\ p \in 1 .. Pages
  /\ Show([list EXCEPT !.query.page = p, !.hasty = @ \/ InFlight # {} \/ list.data.query # list.query])
  /\ UNCHANGED <<stored, tasks>>

(* A row of the audit log unfolds; turning the page does not fold it.      *)
Expand(r) ==
  /\ AtHand("expand") /\ Body = "table" /\ r \in list.data.rows
  /\ list' = [list EXCEPT !.expanded = IF @ = r THEN Null ELSE r, !.moves = @ + 1]
  /\ UNCHANGED <<stored, loads, tasks>>

-----------------------------------------------------------------------------
(* A row of the usage page: openDetail.  The route answers { record }, and *)
(* the page renders the answer itself as the record: a date that is not    *)
(* there throws, whether or not the dialog is still open.                  *)

OpenDetail(r, t) ==
  /\ AtHand("detail") /\ Body = "table" /\ r \in list.data.rows
  /\ tasks[t] = Null
  /\ list' = [list EXCEPT !.dialog = DialogOf(r, "detail"), !.moves = @ + 1]
  /\ tasks' = [tasks EXCEPT ![t] = TaskOf(r, "detail")]
  /\ UNCHANGED <<stored, loads>>

DetailArrives(t) ==
  /\ Can("detail") /\ tasks[t] # Null
  /\ list' = [list EXCEPT !.crashed = TRUE, !.dialog = Null]
  /\ tasks' = [tasks EXCEPT ![t] = Null]
  /\ UNCHANGED <<stored, loads>>

DetailFails(t) ==
  /\ Can("detail") /\ Can("fail") /\ tasks[t] # Null
  /\ tasks' = [tasks EXCEPT ![t] = Null]
  /\ UNCHANGED <<stored, list, loads>>

-----------------------------------------------------------------------------
(* The operator's dialogs of the users page.                               *)

OpenDialog(r, kind) ==
  /\ AtHand("act") /\ Body = "table" /\ r \in list.data.rows
  /\ list' = [list EXCEPT !.dialog = DialogOf(r, kind), !.moves = @ + 1]
  /\ UNCHANGED <<stored, loads, tasks>>

(* Escape and the cross close a dialog at any time.  `dismissed' records   *)
(* one that was closed with its request still under way.                   *)
CloseDialog ==
  /\ list.dialog # Null /\ ~list.crashed
  /\ list' = [list EXCEPT !.dialog = Null,
                !.dismissed = @ \/ \E t \in Tasks : tasks[t] # Null]
  /\ UNCHANGED <<stored, loads, tasks>>

(* Fault: the dialog does not wait for the action it began.                *)
ConfirmAgain(t) ==
  /\ Can("act") /\ list.dialog # Null /\ tasks[t] = Null
  /\ list' = [list EXCEPT !.busy = @ \/ list.dialog.kind = "action", !.dialog.task = t]
  /\ tasks' = [tasks EXCEPT ![t] = TaskOf(list.dialog.row, list.dialog.kind)]
  /\ UNCHANGED <<stored, loads>>

(* runAction and PlanOverride's save, each under a flag of its own: that   *)
(* of the action is the page's, that of the override the dialog's.         *)
Confirm(t) ==
  /\ Can("act") /\ list.dialog # Null /\ tasks[t] = Null
  /\ ~(IF list.dialog.kind = "action" THEN list.busy ELSE list.dialog.task # Null)
  /\ list' = [list EXCEPT !.busy = @ \/ list.dialog.kind = "action", !.dialog.task = t]
  /\ tasks' = [tasks EXCEPT ![t] = TaskOf(list.dialog.row, list.dialog.kind)]
  /\ UNCHANGED <<stored, loads>>

Other(status) == IF status = "on" THEN "off" ELSE "on"

TaskServed(t) ==
  LET task == tasks[t] IN
  /\ Can("act") /\ task # Null /\ ~task.done
  /\ stored' = IF task.kind = "action" THEN [stored EXCEPT ![task.row] = Other(@)] ELSE stored
  /\ list' = [list EXCEPT !.shrunk = @ \/ task.kind = "action"]
  /\ tasks' = [tasks EXCEPT ![t].done = TRUE]
  /\ UNCHANGED loads

(* setPending(null) or setPlanFor(null), and load(query) of the render the *)
(* handler began in.                                                       *)
TaskDone(t, l) ==
  LET task == tasks[t] IN
  /\ Can("act") /\ task # Null /\ task.done /\ loads[l] = Null
  /\ list' = [Starting(list) EXCEPT
                !.dialog = IF @ # Null /\ @.kind = task.kind THEN Null ELSE @]
  /\ loads' = [loads EXCEPT ![l] = Begin(task.query, "hand", task.kind = "action")]
  /\ tasks' = [tasks EXCEPT ![t] = Null]
  /\ UNCHANGED stored

(* Refused, or served with the answer lost.                                *)
(* `busy' is the page's; that of an override goes with its dialog.         *)
TaskRefused(t) ==
  /\ Can("act") /\ Can("fail") /\ tasks[t] # Null
  /\ list' = [list EXCEPT
                !.busy = @ /\ tasks[t].kind # "action",
                !.dialog = IF @ # Null /\ @.task = t THEN [@ EXCEPT !.task = Null] ELSE @]
  /\ tasks' = [tasks EXCEPT ![t] = Null]
  /\ UNCHANGED <<stored, loads>>

(* Another operator changes a row, or the log grows.  `shrunk' records     *)
(* rows that may have left a filter.                                       *)
Elsewhere(r) ==
  /\ Can("elsewhere") /\ Moved
  /\ stored' = [stored EXCEPT ![r] = IF @ = Null THEN "on" ELSE Other(@)]
  /\ list.kind = "users" \/ stored[r] = Null
  /\ list' = [list EXCEPT !.moves = @ + 1, !.shrunk = @ \/ stored[r] # Null]
  /\ UNCHANGED <<loads, tasks>>

-----------------------------------------------------------------------------
(* The page is rendered with its first answer, which the effect skips.     *)

TablesInit ==
  \E o \in Openings :
    /\ stored = o.rows
    /\ loads = [l \in Loads |-> Null]
    /\ tasks = [t \in Tasks |-> Null]
    /\ list = [kind |-> o.kind, menu |-> o.menu,
               query |-> First, draft |-> FALSE,
               data |-> Served(First),
               error |-> Null, loading |-> FALSE, by |-> "effect",
               dialog |-> Null, expanded |-> Null, busy |-> FALSE, crashed |-> FALSE,
               moves |-> 0, hasty |-> FALSE, shrunk |-> FALSE, dismissed |-> FALSE]

TablesNext ==
  \/ \E l \in Loads : LoadAborted(l) \/ LoadAnswers(l) \/ LoadFails(l) \/ Retry(l)
  \/ \E value \in {"any", "on"} : Patch(value)
  \/ TypeSearch \/ DebounceFires \/ ToggleSort \/ Reset
  \/ \E step \in {-1, 1} : Turn(step)
  \/ \E r \in Rows, t \in Tasks : OpenDetail(r, t)
  \/ \E t \in Tasks : DetailArrives(t) \/ DetailFails(t) \/ Confirm(t) \/ TaskServed(t) \/ TaskRefused(t)
  \/ \E r \in Rows, kind \in {"action", "plan"} : OpenDialog(r, kind)
  \/ CloseDialog
  \/ \E t \in Tasks, l \in Loads : TaskDone(t, l)
  \/ \E r \in Rows : Elsewhere(r) \/ Expand(r)

-----------------------------------------------------------------------------
Quiet == ~UnderWay /\ list.draft = list.query.search

(* What a table shows is what its controls say: once every request has     *)
(* ended, the rows, or the error in their place, answer the query the      *)
(* controls name, unless the last answer was to a load begun by hand,      *)
(* which no later change could abort.                                      *)
ShowsItsQuery ==
  Quiet /\ list.by = "effect" =>
    IF list.error = Null THEN list.data.query = list.query ELSE list.error = list.query

(* "No requests match those filters", "No accounts match": a table is      *)
(* empty, and without a way to turn back, only if no row matches, unless   *)
(* rows have left the filter since, or a page was turned beside a load     *)
(* (the finally of the aborted one had enabled the button) or from rows    *)
(* that answered another query.                                            *)
EmptyMeansNoMatch ==
  Body = "empty" =>
    list.data.total = 0 \/ list.shrunk \/ list.hasty

(* What the table says of itself holds whatever overtakes what.            *)
TablesTellTheTruth == ShowsItsQuery /\ EmptyMeansNoMatch

(* A dialog is closed by an answer only to the request it made itself,     *)
(* unless an earlier one was dismissed with its request still under way.   *)
DialogClosedByItsOwn ==
  \A t \in Tasks :
    /\ tasks[t] # Null /\ tasks'[t] = Null /\ ~list'.crashed
    /\ list.dialog # Null /\ list'.dialog = Null
    => list.dismissed \/ list.dialog.row = tasks[t].row

=============================================================================
