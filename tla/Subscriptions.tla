---------------------------- MODULE Subscriptions ---------------------------
(***************************************************************************)
(* The `subscriptions' table and the code that writes it outside a payment:*)
(* ensureSubscription (first touch and monthly rollover), the token debit  *)
(* of recordUsage, and the operator's updateUserSubscription.              *)
(*                                                                         *)
(* Every database call is one step.  A request reads a row, awaits, and    *)
(* writes back by `where: { userId }', so another request's write can land *)
(* between its read and its write.  The requests of all entry points share *)
(* one pool: `req[r].at' says where request r is suspended and             *)
(* `req[r].paid' whether the row it read was unlimited, the one column any *)
(* request still uses after its read.  The payment rails extend this       *)
(* module with their own steps of the same requests.                       *)
(***************************************************************************)
EXTENDS PaymentRules

CONSTANTS
  Accounts,      \* users
  Requests,      \* slots for concurrently running requests
  Patches,       \* the edits operators submit, a set of Patch records
  MaxUsed        \* bound on tokensUsed, in debits

VARIABLES
  subs,          \* subs[a]: the subscription row of account a, or Null
  req            \* req[r]: what request slot r is doing

subVars == <<subs, req>>

Plans      == {"free", "pro", "unlimited"}
Assignable == Plans \ {"unlimited"}     \* ADMIN_ASSIGNABLE_PLAN_ORDER
SubStatuses == {"active", "canceled"}   \* every other status locks out alike

(* tokenAllocation always follows `plan' or an operator's override and is  *)
(* compared with `used' in the gateway only.  `due' is true once the       *)
(* renewalDate has passed.                                                 *)
Row == [plan      : Plans,
        status    : SubStatuses,
        unlimited : BOOLEAN,
        used      : 0 .. MaxUsed,
        due       : BOOLEAN]

(* A field an AdminSubscriptionPatch leaves out is "keep".                 *)
Patch == [plan   : Assignable \union {"keep"},
          status : SubStatuses \union {"keep"},
          reset  : BOOLEAN]

Operations == {"none", "touch", "checkout", "submit"}

Locations ==
  {"idle", "create", "roll", "ensured", "edit",               \* this module
   "new", "charge", "poll", "stamp", "mark", "activate",      \* FiatRail
   "claim", "reread", "verify", "unavailable", "wait",        \* CryptoRail
   "refuse", "grant"}

Request == [at   : Locations,
            op   : Operations,
            who  : Accounts \union {Null},
            paid : BOOLEAN]

Idle == [at |-> "idle", op |-> "none", who |-> Null, paid |-> FALSE]

ASSUME SubscriptionAssumption ==
  /\ Null \notin Accounts
  /\ Null \notin Row
  /\ Patches \subseteq Patch
  /\ MaxUsed \in Nat

-----------------------------------------------------------------------------
(* Helpers.                                                                *)

FreeRow == [plan |-> "free", status |-> "active", unlimited |-> FALSE,
            used |-> 0, due |-> FALSE]

GrantedRow(row) ==
  [plan |-> "unlimited", status |-> "active", unlimited |-> TRUE,
   used |-> IF row = Null THEN 0 ELSE row.used,
   due  |-> IF row = Null THEN TRUE ELSE row.due]

(* Fault: the edit recomputes `unlimited' from the assigned plan.          *)
PatchedFlag(row, patch) ==
  [row EXCEPT !.plan = IF patch.plan = "keep" THEN @ ELSE patch.plan,
              !.unlimited = FALSE]

Patched(row, patch) ==
  [row EXCEPT !.plan   = IF patch.plan = "keep" THEN @ ELSE patch.plan,
              !.status = IF patch.status = "keep" THEN @ ELSE patch.status,
              !.used   = IF patch.reset THEN 0 ELSE @]

Goto(r, at) == req' = [req EXCEPT ![r].at = at]

Finish(r) == req' = [req EXCEPT ![r] = Idle]

(* The subscription upsert of the two activation transactions.             *)
GrantUnlimited(a) == subs' = [subs EXCEPT ![a] = GrantedRow(@)]

-----------------------------------------------------------------------------
(* ensureSubscription, on behalf of operation `op'.                        *)

EnsureRead(r, a, op) ==
  LET row == subs[a]
      next == IF row = Null THEN "create"
              ELSE IF ~row.unlimited /\ row.due THEN "roll"
              ELSE "ensured"
  IN /\ req[r].at = "idle"
     /\ req' = [req EXCEPT ![r] = [at |-> next, op |-> op, who |-> a,
                                   paid |-> row # Null /\ row.unlimited]]
     /\ UNCHANGED subs

(* userId is UNIQUE: the loser of two first touches throws.                *)
EnsureCreate(r) ==
  LET a == req[r].who IN
  /\ req[r].at = "create"
  /\ IF subs[a] = Null
       THEN /\ subs' = [subs EXCEPT ![a] = FreeRow]
            /\ Goto(r, "ensured")
       ELSE /\ Finish(r)
            /\ UNCHANGED subs

(* The update returns the row as it is now, so `unlimited' is read again.  *)
EnsureRoll(r) ==
  LET a == req[r].who IN
  /\ req[r].at = "roll"
  /\ subs' = [subs EXCEPT ![a] = [@ EXCEPT !.used = 0, !.due = FALSE]]
  /\ req' = [req EXCEPT ![r] = [@ EXCEPT !.at = "ensured", !.paid = subs[a].unlimited]]

(* Sign-in, the dashboard and the gateway only wanted the row.             *)
TouchDone(r) ==
  /\ req[r].at = "ensured" /\ req[r].op = "touch"
  /\ Finish(r)
  /\ UNCHANGED subs

-----------------------------------------------------------------------------
(* updateUserSubscription: read, refuse a paid account, update by userId.  *)

EditRead(r, a) ==
  /\ req[r].at = "idle"
  /\ subs[a] # Null /\ ~subs[a].unlimited
  /\ req' = [req EXCEPT ![r] = [Idle EXCEPT !.at = "edit", !.who = a]]
  /\ UNCHANGED subs

EditWrite(r, patch) ==
  /\ req[r].at = "edit"
  /\ subs' = [subs EXCEPT ![req[r].who] = Patched(@, patch)]
  /\ Finish(r)

-----------------------------------------------------------------------------
(* The increment of recordUsage (one unit of tokens), the passing of the   *)
(* renewal date, and the loss of a request: its process died or one of its *)
(* awaits threw.                                                           *)

Debit(a) ==
  /\ subs[a] # Null /\ subs[a].used < MaxUsed
  /\ subs' = [subs EXCEPT ![a].used = @ + 1]
  /\ UNCHANGED req

RenewalPasses(a) ==
  /\ subs[a] # Null /\ ~subs[a].due
  /\ subs' = [subs EXCEPT ![a].due = TRUE]
  /\ UNCHANGED req

Lose(r) ==
  /\ req[r].at # "idle"
  /\ Finish(r)
  /\ UNCHANGED subs

SubInit ==
  /\ subs = [a \in Accounts |-> Null]
  /\ req  = [r \in Requests |-> Idle]

SubNext ==
  \/ \E r \in Requests, a \in Accounts :
        EnsureRead(r, a, "touch") \/ EditRead(r, a)
  \/ \E r \in Requests : EnsureCreate(r) \/ EnsureRoll(r) \/ TouchDone(r)
  \/ \E r \in Requests, patch \in Patches : EditWrite(r, patch)
  \/ \E a \in Accounts : Debit(a) \/ RenewalPasses(a)

-----------------------------------------------------------------------------
SubTypeOK ==
  /\ subs \in [Accounts -> Row \union {Null}]
  /\ req  \in [Requests -> Request]
=============================================================================
