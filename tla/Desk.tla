-------------------------------- MODULE Desk --------------------------------
(***************************************************************************)
(* Support tickets (support-service.ts, and listAdminTickets and           *)
(* adminUpdateTicket of admin-service.ts): one account, its tickets and    *)
(* the staff.  Requests interleave at every await.  Of a message only its  *)
(* author is kept, and the ticket its text was typed for.                  *)
(***************************************************************************)
EXTENDS Integers, FiniteSets, SequencesExt, Absent

CONSTANTS
  Tickets,     \* bound: rows ever created
  Errands,     \* bound: requests under way at once
  MaxOpen,     \* createTicket's limit, 10 in the code
  Chosen,      \* bound: the statuses the staff's selects are set to
  Days         \* bound: seeded tickets, and the operations combined

VARIABLES
  tickets,     \* tickets[t]: the row, or Null
  recent,      \* the rows by updatedAt, the latest first
  errand,      \* errand[n]: the locals of a request, or Vacant
  duty         \* the operations of this behaviour; never changes

deskVars == <<tickets, recent, errand, duty>>

Statuses == {"open", "pending", "resolved", "closed"}
CLOSED == {"resolved", "closed"}

(* last: who wrote last in the thread.  History, which nothing reads:      *)
(* excused, created beside another create or opened again; moved, its      *)
(* status was set by hand, or the staff's update of it was half done when  *)
(* its last message came.                                                  *)
Ticket == [status : Statuses, last : {"user", "admin"}, excused : BOOLEAN, moved : BOOLEAN]

(* What an answer carries: one thread, or the queue in order.              *)
View == [ticket : Tickets, status : Statuses]

Errand ==
  [kind     : {"none", "open", "create", "reply", "status", "patch", "queue", "elsewhere"},
   at       : {"idle", "count", "create", "find", "append", "mark", "update", "read",
               "answer", "failed", "listing"},
   ticket   : Tickets \union {Null},
   typed    : Tickets \union {Null},          \* the reply's text was typed under it
   status   : Statuses \union {Null},
   together : BOOLEAN,                        \* another create had counted
   views    : UNION {[1..k -> View] : k \in 0..Cardinality(Tickets)}]

Vacant == [kind |-> "none", at |-> "idle", ticket |-> Null, typed |-> Null,
           status |-> Null, together |-> FALSE, views |-> <<>>]

ASSUME DeskAssumption ==
  /\ Null \notin Tickets \union Statuses \union Ticket \union View
  /\ IsFiniteSet(Tickets)
  /\ MaxOpen \in Nat \ {0} /\ Chosen \subseteq Statuses

(* The day begins with the queue in order, within the limit, and with the  *)
(* rows as finished requests leave them.                                   *)
ASSUME DaysAssumption ==
  \A d \in Days :
    LET filed == {t \in Tickets : d.tickets[t] # Null} IN
    /\ d.tickets \in [Tickets -> Ticket \union {Null}]
    /\ d.recent \in Seq(Tickets) /\ Range(d.recent) = filed
    /\ Cardinality({t \in filed : d.tickets[t].status \notin CLOSED}) <= MaxOpen
    /\ \A t \in filed : <<d.tickets[t].status, d.tickets[t].last>>
                          \notin {<<"pending", "user">>, <<"open", "admin">>}

-----------------------------------------------------------------------------
Filed == {t \in Tickets : tickets[t] # Null}
OpenTickets == {t \in Filed : tickets[t].status \notin CLOSED}
ViewOf(t) == [ticket |-> t, status |-> tickets[t].status]

(* The members of s that are in S, in their order.                         *)
Among(s, S) ==
  LET upTo[i \in 0..Len(s)] ==
        IF i = 0 THEN <<>> ELSE IF s[i] \in S THEN Append(upTo[i - 1], s[i]) ELSE upTo[i - 1]
  IN upTo[Len(s)]

ToFront(t) == <<t>> \o Among(recent, Tickets \ {t})

Out == {n \in Errands : errand[n].at # "idle"}
VacantErrand == CHOOSE n \in Errands \ Out : TRUE

Dispatch(what, where, locals) ==
  /\ what \in duty /\ Out # Errands
  /\ errand' = [errand EXCEPT ![VacantErrand] = [locals EXCEPT !.kind = what, !.at = where]]

Onward(n, where) == errand' = [errand EXCEPT ![n].at = where]

-----------------------------------------------------------------------------
(* createTicket: the count, then the row.                                  *)

(* Fault: tickets that wait for the user are not counted.                  *)
CountOpenOnly(n) ==
  /\ errand[n].at = "count"
  /\ IF Cardinality({t \in Filed : tickets[t].status = "open"}) >= MaxOpen THEN Onward(n, "failed")
     ELSE errand' = [errand EXCEPT ![n] = [errand[n] EXCEPT !.at = "create",
                       !.together = \E o \in Errands : errand[o].at = "create"]]
  /\ UNCHANGED <<tickets, recent, duty>>

CountOpen(n) ==
  /\ errand[n].at = "count"
  /\ IF Cardinality(OpenTickets) >= MaxOpen THEN Onward(n, "failed")
     ELSE errand' = [errand EXCEPT ![n] = [errand[n] EXCEPT !.at = "create",
                       !.together = \E o \in Errands : errand[o].at = "create"]]
  /\ UNCHANGED <<tickets, recent, duty>>

CreateTicket(n) ==
  /\ errand[n].at = "create" /\ Filed # Tickets
  /\ LET t == CHOOSE u \in Tickets \ Filed : TRUE IN
       /\ tickets' = [tickets EXCEPT ![t] = [status |-> "open", last |-> "user",
                        excused |-> errand[n].together, moved |-> FALSE]]
       /\ recent' = ToFront(t)
       /\ errand' = [errand EXCEPT ![n] = [errand[n] EXCEPT !.at = "read", !.ticket = t]]
  /\ UNCHANGED duty

-----------------------------------------------------------------------------
(* Another tab of the account opens a ticket, and keeps the answer.        *)
CreateElsewhere ==
  /\ Dispatch("elsewhere", "count", Vacant)
  /\ UNCHANGED <<tickets, recent, duty>>

EndElsewhere(n) ==
  /\ errand[n].kind = "elsewhere" /\ errand[n].at \in {"answer", "failed"}
  /\ errand' = [errand EXCEPT ![n] = Vacant]
  /\ UNCHANGED <<tickets, recent, duty>>

-----------------------------------------------------------------------------
(* replyToTicket: the status as read, then one transaction.                *)

FindTicket(n) ==
  /\ errand[n].at = "find"
  /\ Onward(n, IF tickets[errand[n].ticket].status \in CLOSED THEN "failed" ELSE "append")
  /\ UNCHANGED <<tickets, recent, duty>>

(* The staff's update of t is between its two statements.                  *)
HalfDone(t) == \E o \in Errands : errand[o].at = "mark" /\ errand[o].ticket = t
Reopens(t, status) == tickets[t].status \in CLOSED /\ status \notin CLOSED

(* Fault: the ticket is left as it is.                                     *)
PostOnly(n) ==
  LET t == errand[n].ticket IN
  /\ errand[n].at = "append"
  /\ tickets' = [tickets EXCEPT ![t].last = "user"]
  /\ Onward(n, "read")
  /\ UNCHANGED <<recent, duty>>

PostMessage(n) ==
  LET t == errand[n].ticket IN
  /\ errand[n].at = "append"
  /\ tickets' = [tickets EXCEPT ![t] = [status |-> "open", last |-> "user",
                   excused |-> tickets[t].excused \/ Reopens(t, "open"), moved |-> HalfDone(t)]]
  /\ recent' = ToFront(t)
  /\ Onward(n, "read")
  /\ UNCHANGED duty

(* setTicketStatus: one statement, whatever the ticket has become.         *)
UpdateStatus(n) ==
  LET t == errand[n].ticket IN
  /\ errand[n].at = "update"
  /\ tickets' = [tickets EXCEPT ![t] = [tickets[t] EXCEPT !.status = errand[n].status,
                   !.moved = TRUE, !.excused = tickets[t].excused \/ Reopens(t, errand[n].status)]]
  /\ recent' = ToFront(t)
  /\ Onward(n, "read")
  /\ UNCHANGED duty

(* getTicket.                                                              *)
ReadThread(n) ==
  /\ errand[n].at = "read" /\ errand[n].kind \notin {"patch", "queue"}
  /\ errand' = [errand EXCEPT ![n] = [errand[n] EXCEPT !.at = "answer",
                                                       !.views = <<ViewOf(errand[n].ticket)>>]]
  /\ UNCHANGED <<tickets, recent, duty>>

-----------------------------------------------------------------------------
(* adminUpdateTicket: the message, then the status, in two statements; a   *)
(* reply without a status makes the ticket wait for the user.              *)

PostStaffMessage(n) ==
  LET t == errand[n].ticket IN
  /\ errand[n].at = "find" /\ errand[n].kind = "patch"
  /\ IF errand[n].typed = Null THEN UNCHANGED tickets
     ELSE tickets' = [tickets EXCEPT ![t] = [tickets[t] EXCEPT !.last = "admin", !.moved = TRUE]]
  /\ Onward(n, "mark")
  /\ UNCHANGED <<recent, duty>>

MarkTicket(n) ==
  LET t == errand[n].ticket
      status == IF errand[n].status = Null THEN "pending" ELSE errand[n].status IN
  /\ errand[n].at = "mark"
  /\ tickets' = [tickets EXCEPT ![t] = [tickets[t] EXCEPT !.status = status,
                   !.moved = errand[n].status # Null \/ tickets[t].last = "user",
                   !.excused = tickets[t].excused \/ Reopens(t, status)]]
  /\ recent' = ToFront(t)
  /\ Onward(n, "read")
  /\ UNCHANGED duty

(* listAdminTickets, of one status or of all; the limit of 100 is out of   *)
(* the bound.                                                              *)
ReadQueue(n) ==
  LET asked == {t \in Filed : errand[n].kind = "queue" /\ errand[n].status # Null =>
                                tickets[t].status = errand[n].status}
      rows  == Among(recent, asked) IN
  /\ errand[n].at = "read" /\ errand[n].kind \in {"patch", "queue"}
  /\ errand' = [errand EXCEPT ![n] = [errand[n] EXCEPT !.at = "answer",
                  !.views = [i \in DOMAIN rows |-> ViewOf(rows[i])]]]
  /\ UNCHANGED <<tickets, recent, duty>>

(* The request dies at an await, or its answer is lost.                    *)
Lose(n) ==
  /\ "loss" \in duty /\ errand[n].at \notin {"idle", "failed", "listing"}
  /\ Onward(n, "failed")
  /\ UNCHANGED <<tickets, recent, duty>>

DeskInit ==
  /\ \E d \in Days : tickets = d.tickets /\ recent = d.recent /\ duty = d.duty
  /\ errand = [n \in Errands |-> Vacant]

DeskNext ==
  \/ CreateElsewhere
  \/ \E n \in Errands :
       \/ CountOpen(n) \/ CreateTicket(n) \/ EndElsewhere(n)
       \/ (errand[n].kind # "patch" /\ FindTicket(n))
       \/ PostMessage(n) \/ UpdateStatus(n) \/ ReadThread(n)
       \/ PostStaffMessage(n) \/ MarkTicket(n) \/ ReadQueue(n) \/ Lose(n)
=============================================================================
