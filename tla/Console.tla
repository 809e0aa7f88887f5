------------------------------- MODULE Console -------------------------------
(***************************************************************************)
(* The two pages that manage the catalogue (admin-models.tsx and           *)
(* admin-providers.tsx).  A page keeps the lists its last answer carried,  *)
(* and addresses rows as it shows them.  Every dialog can be dismissed     *)
(* while its request is under way (modal.tsx: Escape and the close button),*)
(* so a page has several requests out, and their answers arrive in any     *)
(* order.  A request refused on arrival leaves everything as it is.        *)
(***************************************************************************)
EXTENDS Catalogue

VARIABLE page      \* page[t]: the state of console t

Page == [rows      : Lists,
         gone      : Suppressions,
         configs   : [Providers -> ConfigRow \union {Null}],
         editing   : 0..MaxRows,               \* the row in the editor, 0: none
         saving    : 0..MaxRows,               \* savingId
         deleting  : BOOLEAN,
         restoring : 0..MaxRows,               \* restoringId
         syncing   : BOOLEAN,
         busy      : Providers \union {Null},  \* the provider whose button spins
         dismissed : BOOLEAN,                  \* history: an editor closed with a save out
         missed    : BOOLEAN]                  \* history: models were written, and no answer said so

Shown(t, m) == page[t].rows[m] # Null
RowOf(t, m) == page[t].rows[m].id
Set(t, p) == page' = [page EXCEPT ![t] = p]

-----------------------------------------------------------------------------
(* admin-models.tsx.                                                       *)

ClickSync(c, t) ==
  /\ ~page[t].syncing
  /\ Sync(c, t, "sync", Providers)
  /\ Set(t, [page[t] EXCEPT !.syncing = TRUE])

(* The creator refuses an id the page lists; several may be sent.          *)
ClickCreate(c, t, m, p, chain) ==
  /\ ~Shown(t, m) /\ m \notin chain /\ \A n \in chain : Shown(t, n)
  /\ CreateManual(c, t, m, p, chain)
  /\ UNCHANGED page

OpenEditor(t, m) ==
  /\ "update" \in menu /\ Shown(t, m) /\ page[t].editing = 0
  /\ Set(t, [page[t] EXCEPT !.editing = RowOf(t, m)])
  /\ UNCHANGED catalogueVars

SavesOf(t) == {c \in UnderWay : /\ call[c].tab = t /\ call[c].op = "update"
                                /\ call[c].chain # Untouched}

CloseEditor(t) ==
  /\ page[t].editing # 0
  /\ Set(t, [page[t] EXCEPT !.editing = 0, !.dismissed = @ \/ SavesOf(t) # {}])
  /\ UNCHANGED catalogueVars

(* The editor saves a chain that chainProblem accepts; a control of the    *)
(* table saves another field (the tier, the switch).                       *)
ClickSave(c, t, m, chain) ==
  /\ Shown(t, m) /\ page[t].saving # RowOf(t, m)
  /\ IF chain = Untouched THEN page[t].editing = 0
     ELSE page[t].editing = RowOf(t, m) /\ m \notin chain /\ \A n \in chain : Shown(t, n)
  /\ Update(c, t, m, RowOf(t, m), chain)
  /\ Set(t, [page[t] EXCEPT !.saving = RowOf(t, m)])

ClickDelete(c, t, m) ==
  /\ Shown(t, m) /\ ~page[t].deleting /\ page[t].editing = 0
  /\ DeleteModel(c, t, m, RowOf(t, m))
  /\ Set(t, [page[t] EXCEPT !.deleting = TRUE])

ClickRestore(c, t, m) ==
  /\ page[t].gone[m] # Null /\ page[t].restoring # page[t].gone[m].id
  /\ Restore(c, t, m, page[t].gone[m].id)
  /\ Set(t, [page[t] EXCEPT !.restoring = page[t].gone[m].id])

-----------------------------------------------------------------------------
(* admin-providers.tsx: a row is disabled while one of its requests is the *)
(* last one sent.                                                          *)

ClickSyncOne(c, t, p) ==
  /\ page[t].busy # p /\ (p \in Custom => page[t].configs[p] # Null /\ page[t].configs[p].enabled)
  /\ Sync(c, t, "syncOne", {p})
  /\ Set(t, [page[t] EXCEPT !.busy = p])

ClickAdd(c, t, p) == AddProvider(c, t, p) /\ UNCHANGED page

ClickToggle(c, t, p) ==
  LET row == page[t].configs[p] IN
  /\ row # Null /\ page[t].busy # p
  /\ ToggleProvider(c, t, p, row.id, ~row.enabled)
  /\ Set(t, [page[t] EXCEPT !.busy = p])

ClickRemove(c, t, p) ==
  LET row == page[t].configs[p] IN
  /\ row # Null /\ page[t].busy # p
  /\ DropProvider(c, t, p, row.id)
  /\ Set(t, [page[t] EXCEPT !.busy = p])

-----------------------------------------------------------------------------
(* Answers.                                                                *)

(* The lists are read; a sync of one provider is followed by a reading of  *)
(* the provider page (refreshQuietly).                                     *)
Listed(c) ==
  /\ call[c].at = "list" /\ Scanned(c)
  /\ Goto(c, IF call[c].op = "syncOne" THEN "providers" ELSE "answer")
  /\ UNCHANGED <<tables, page>>

End(c) == call' = [call EXCEPT ![c] = Idle]
          /\ UNCHANGED <<tables, overlapped, menu>>

(* What every handler's `finally' clears, whichever request set it.        *)
Settled(p, op) ==
  CASE op = "sync"    -> [p EXCEPT !.syncing = FALSE]
    [] op = "update"  -> [p EXCEPT !.saving = 0]
    [] op = "delete"  -> [p EXCEPT !.deleting = FALSE]
    [] op = "restore" -> [p EXCEPT !.restoring = 0]
    [] op \in {"syncOne", "toggle", "unregister"} -> [p EXCEPT !.busy = Null]
    [] OTHER          -> p

(* Fault: a delete brings the models only.                                 *)
AnswerModelsOnly(c) ==
  LET t == call[c].tab IN
  /\ call[c].at = "answer"
  /\ IF t = Null THEN UNCHANGED page
     ELSE Set(t, [Settled(page[t], call[c].op) EXCEPT
            !.rows = call[c].rows, !.missed = FALSE,
            !.gone = IF call[c].op \in {"update", "delete"} THEN @ ELSE call[c].gone])
  /\ End(c)

(* Fault: a save always closes the editor.                                 *)
AnswerClosing(c) ==
  LET t == call[c].tab IN
  /\ call[c].at = "answer"
  /\ IF t = Null THEN UNCHANGED page
     ELSE Set(t, [Settled(page[t], call[c].op) EXCEPT
            !.rows = call[c].rows, !.gone = call[c].gone, !.missed = FALSE,
            !.editing = IF call[c].op = "update" THEN 0 ELSE @])
  /\ End(c)

(* The lists replace the page's, a save's only the models.  The save of an *)
(* editor closes the editor that is open by then.                          *)
Answer(c) ==
  LET t == call[c].tab IN
  /\ call[c].at = "answer"
  /\ IF t = Null THEN UNCHANGED page
     ELSE Set(t, [Settled(page[t], call[c].op) EXCEPT
            !.rows = call[c].rows,
            !.gone = IF call[c].op = "update" THEN @ ELSE call[c].gone,
            !.missed = @ /\ call[c].op = "update",
            !.editing = IF call[c].op = "update" /\ call[c].chain # Untouched THEN 0 ELSE @,
            !.dismissed = @ \/ (call[c].op = "update" /\ SavesOf(t) \ {c} # {})])
  /\ End(c)

AnswerProviders(c) ==
  LET t == call[c].tab IN
  /\ call[c].at = "providers"
  /\ IF t = Null THEN UNCHANGED page
     ELSE Set(t, [Settled(page[t], call[c].op) EXCEPT !.configs = configs])
  /\ End(c)

(* The page reports the failure and keeps its lists, whatever the request  *)
(* had written before.                                                     *)
AnswerError(c) ==
  LET t == call[c].tab IN
  /\ call[c].at \in {"failed", "lost"}
  /\ IF t = Null THEN UNCHANGED page
     ELSE Set(t, [Settled(page[t], call[c].op) EXCEPT !.missed = @ \/ call[c].wrote])
  /\ End(c)

(* The page is loaded again: it forgets what it waited for, and the server *)
(* finishes it all the same.                                               *)
Fresh == [rows |-> catalogue, gone |-> removed, configs |-> configs, editing |-> 0,
          saving |-> 0, deleting |-> FALSE, restoring |-> 0, syncing |-> FALSE,
          busy |-> Null, dismissed |-> FALSE, missed |-> FALSE]

Reload(t) ==
  /\ "visit" \in menu
  /\ Set(t, Fresh)
  /\ call' = [c \in Calls |-> IF call[c].tab = t THEN [call[c] EXCEPT !.tab = Null] ELSE call[c]]
  /\ UNCHANGED <<tables, overlapped, menu>>

ConsoleInit == CatalogueInit /\ page = [t \in Tabs |-> Fresh]

ConsoleNext ==
  \/ ServeNext /\ UNCHANGED page
  \/ \E t \in Tabs :
       \/ Reload(t) \/ CloseEditor(t)
       \/ \E m \in Models : OpenEditor(t, m)
       \/ \E c \in Calls :
            \/ ClickSync(c, t)
            \/ \E m \in Models :
                 \/ \E p \in Providers, chain \in SUBSET Models : ClickCreate(c, t, m, p, chain)
                 \/ \E chain \in {Untouched} \union SUBSET Models : ClickSave(c, t, m, chain)
                 \/ ClickDelete(c, t, m) \/ ClickRestore(c, t, m)
            \/ \E p \in Providers : \/ ClickSyncOne(c, t, p) \/ ClickAdd(c, t, p)
                                    \/ ClickToggle(c, t, p) \/ ClickRemove(c, t, p)
  \/ \E c \in Calls : Listed(c) \/ Answer(c) \/ AnswerProviders(c) \/ AnswerError(c)
=============================================================================
