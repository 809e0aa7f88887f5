------------------------------ MODULE DeskPages ------------------------------
(***************************************************************************)
(* The two pages over the tickets: the account's support centre            *)
(* (support-centre.tsx) and the staff's queue (admin-tickets.tsx).  A page *)
(* may have several requests out, and their answers arrive in any order.   *)
(* A text being typed is kept as the ticket it was begun under.            *)
(***************************************************************************)
EXTENDS Desk

VARIABLES
  centre,      \* the support centre
  queue        \* the staff's page

deskPageVars == <<centre, queue>>

Centre == [listed  : SUBSET Tickets,
           thread  : View \union {Null},
           failed  : BOOLEAN,                  \* threadError
           loading : BOOLEAN,
           reply   : Tickets \union {Null},
           busy    : BOOLEAN,
           dialog  : BOOLEAN,                  \* createOpen
           crossed : BOOLEAN]                  \* history: see TypeReply

Queue == [list    : UNION {[1..k -> View] : k \in 0..Cardinality(Tickets)},
          filter  : Statuses \union {Null},
          picked  : Tickets \union {Null},     \* selectedId
          reply   : Tickets \union {Null},
          busy    : BOOLEAN,
          loading : BOOLEAN,
          strayed : BOOLEAN]                   \* history: see TypeAnswer

OwnKinds == {"open", "create", "reply", "status"}
Awaited(kinds) == {n \in Out : errand[n].kind \in kinds /\ errand[n].at # "listing"}

-----------------------------------------------------------------------------
(* support-centre.tsx.                                                     *)

(* Fault: the text typed so far is kept.                                   *)
OpenThreadKeeping(t) ==
  /\ t \in centre.listed /\ ~centre.dialog
  /\ Dispatch("open", "read", [Vacant EXCEPT !.ticket = t])
  /\ centre' = [centre EXCEPT !.loading = TRUE, !.failed = FALSE]
  /\ UNCHANGED <<tickets, recent, duty, queue>>

OpenThread(t) ==
  /\ t \in centre.listed /\ ~centre.dialog
  /\ Dispatch("open", "read", [Vacant EXCEPT !.ticket = t])
  /\ centre' = [centre EXCEPT !.loading = TRUE, !.failed = FALSE, !.reply = Null]
  /\ UNCHANGED <<tickets, recent, duty, queue>>

ThreadVisible == centre.thread # Null /\ ~centre.failed /\ ~centre.loading /\ ~centre.dialog
ReplyBox == ThreadVisible /\ centre.thread.status \notin CLOSED

TypeReply ==
  /\ ReplyBox /\ centre.reply = Null
  /\ centre' = [centre EXCEPT !.reply = centre.thread.ticket,
                              !.crossed = Awaited(OwnKinds) # {}]
  /\ UNCHANGED <<deskVars, queue>>

SubmitReply ==
  /\ ReplyBox /\ centre.reply # Null /\ ~centre.busy
  /\ Dispatch("reply", "find", [Vacant EXCEPT !.ticket = centre.thread.ticket,
                                              !.typed = centre.reply])
  /\ centre' = [centre EXCEPT !.busy = TRUE]
  /\ UNCHANGED <<tickets, recent, duty, queue>>

SetStatus ==
  /\ ThreadVisible /\ ~centre.busy
  /\ Dispatch("status", "update",
              [Vacant EXCEPT !.ticket = centre.thread.ticket,
                 !.status = IF centre.thread.status \in CLOSED THEN "open" ELSE "closed"])
  /\ centre' = [centre EXCEPT !.busy = TRUE]
  /\ UNCHANGED <<tickets, recent, duty, queue>>

ToggleDialog ==
  /\ "create" \in duty
  /\ centre' = [centre EXCEPT !.dialog = ~@]
  /\ UNCHANGED <<deskVars, queue>>

SubmitCreate ==
  /\ centre.dialog /\ ~centre.busy
  /\ Dispatch("create", "count", Vacant)
  /\ centre' = [centre EXCEPT !.busy = TRUE]
  /\ UNCHANGED <<tickets, recent, duty, queue>>

(* A reply or a change of status is followed by a reading of the list,     *)
(* with the page still busy; a failure of either ends the handler.         *)
CentreAnswer(n) ==
  LET e == errand[n]
      v == e.views[1] IN
  /\ e.kind \in OwnKinds /\ e.at = "answer"
  /\ centre' =
       CASE e.kind = "open"   -> [centre EXCEPT !.thread = v, !.loading = FALSE]
         [] e.kind = "create" -> [centre EXCEPT !.thread = v, !.listed = Filed, !.dialog = FALSE,
                                                !.busy = FALSE, !.crossed = TRUE]
         [] e.kind = "reply"  -> [centre EXCEPT !.thread = v, !.reply = Null]
         [] OTHER             -> [centre EXCEPT !.thread = v]
  /\ errand' = [errand EXCEPT ![n] = IF e.kind \in {"reply", "status"}
                                     THEN [e EXCEPT !.at = "listing"] ELSE Vacant]
  /\ UNCHANGED <<tickets, recent, duty, queue>>

CentreListed(n) ==
  /\ errand[n].at = "listing"
  /\ centre' = [centre EXCEPT !.listed = Filed, !.busy = FALSE]
  /\ errand' = [errand EXCEPT ![n] = Vacant]
  /\ UNCHANGED <<tickets, recent, duty, queue>>

CentreError(n) ==
  /\ errand[n].kind \in OwnKinds /\ errand[n].at = "failed"
  /\ centre' = IF errand[n].kind = "open"
               THEN [centre EXCEPT !.thread = Null, !.failed = TRUE, !.loading = FALSE]
               ELSE [centre EXCEPT !.busy = FALSE]
  /\ errand' = [errand EXCEPT ![n] = Vacant]
  /\ UNCHANGED <<tickets, recent, duty, queue>>

-----------------------------------------------------------------------------
(* admin-tickets.tsx.                                                      *)

Visible == IF queue.filter = Null THEN queue.list
           ELSE Among(queue.list, [ticket : Tickets, status : {queue.filter}])

(* Fault: the first row is the one selected.                               *)
SelectedFirst == IF Visible = <<>> THEN Null ELSE Visible[1]

Selected ==
  IF \E i \in DOMAIN Visible : Visible[i].ticket = queue.picked
  THEN Visible[CHOOSE i \in DOMAIN Visible : Visible[i].ticket = queue.picked]
  ELSE IF Visible = <<>> THEN Null ELSE Visible[1]

ChooseFilter(status) ==
  /\ ~queue.loading /\ queue.filter # status
  /\ Dispatch("queue", "read", [Vacant EXCEPT !.status = status])
  /\ queue' = [queue EXCEPT !.filter = status, !.loading = TRUE, !.strayed = TRUE]
  /\ UNCHANGED <<tickets, recent, duty, centre>>

PickTicket(i) ==
  /\ i \in DOMAIN Visible /\ "patch" \in duty
  /\ Visible[i].ticket # queue.picked
  /\ queue' = [queue EXCEPT !.picked = Visible[i].ticket, !.strayed = TRUE]
  /\ UNCHANGED <<deskVars, centre>>

TypeAnswer ==
  /\ "patch" \in duty /\ Selected # Null /\ queue.reply = Null
  /\ queue' = [queue EXCEPT !.reply = Selected.ticket,
                            !.strayed = queue.filter # Null \/ Awaited({"patch", "queue"}) # {}]
  /\ UNCHANGED <<deskVars, centre>>

(* "Send reply", a choice in the status list (which sends no reply), or    *)
(* "Reply and resolve".                                                    *)
PatchTicket(status, withReply) ==
  /\ Selected # Null /\ ~queue.busy
  /\ withReply => queue.reply # Null /\ (status # Null => status = "resolved")
  /\ ~withReply => status # Null
  /\ status # Null => status # Selected.status
  /\ Dispatch("patch", "find", [Vacant EXCEPT !.ticket = Selected.ticket, !.status = status,
                                  !.typed = IF withReply THEN queue.reply ELSE Null])
  /\ queue' = [queue EXCEPT !.busy = TRUE]
  /\ UNCHANGED <<tickets, recent, duty, centre>>

QueueAnswer(n) ==
  LET e == errand[n] IN
  /\ e.kind \in {"patch", "queue"} /\ e.at = "answer"
  /\ queue' = IF e.kind = "queue" THEN [queue EXCEPT !.list = e.views, !.loading = FALSE]
              ELSE [queue EXCEPT !.list = e.views, !.picked = e.ticket, !.busy = FALSE,
                                 !.reply = IF e.typed = Null THEN @ ELSE Null]
  /\ errand' = [errand EXCEPT ![n] = Vacant]
  /\ UNCHANGED <<tickets, recent, duty, centre>>

QueueError(n) ==
  /\ errand[n].kind \in {"patch", "queue"} /\ errand[n].at = "failed"
  /\ queue' = IF errand[n].kind = "queue" THEN [queue EXCEPT !.loading = FALSE]
              ELSE [queue EXCEPT !.busy = FALSE]
  /\ errand' = [errand EXCEPT ![n] = Vacant]
  /\ UNCHANGED <<tickets, recent, duty, centre>>

-----------------------------------------------------------------------------
(* Both pages are rendered from the rows as they are.                      *)
DeskPagesInit ==
  /\ DeskInit
  /\ centre = [listed |-> Filed, thread |-> Null, failed |-> FALSE, loading |-> FALSE,
               reply |-> Null, busy |-> FALSE, dialog |-> FALSE, crossed |-> FALSE]
  /\ queue = [list |-> [i \in DOMAIN recent |-> ViewOf(recent[i])], filter |-> Null,
              picked |-> IF recent = <<>> THEN Null ELSE recent[1], reply |-> Null,
              busy |-> FALSE, loading |-> FALSE, strayed |-> FALSE]

DeskPagesNext ==
  \/ DeskNext /\ UNCHANGED deskPageVars
  \/ \E t \in Tickets : OpenThread(t)
  \/ TypeReply \/ SubmitReply \/ SetStatus \/ ToggleDialog \/ SubmitCreate
  \/ \E status \in Chosen \union {Null} :
       \/ ChooseFilter(status)
       \/ \E withReply \in BOOLEAN : PatchTicket(status, withReply)
  \/ \E i \in 1..Cardinality(Tickets) : PickTicket(i)
  \/ TypeAnswer
  \/ \E n \in Errands : \/ CentreAnswer(n) \/ CentreListed(n) \/ CentreError(n)
                        \/ QueueAnswer(n) \/ QueueError(n)
=============================================================================
