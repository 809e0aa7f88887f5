------------------------------- MODULE SignIn -------------------------------
(***************************************************************************)
(* Sign-in with Google and the linking of a Google identity to an account  *)
(* (oauth-service.ts, transaction.ts and the two routes of the flow), over *)
(* the accounts of module Accounts.                                        *)
(*                                                                         *)
(* A flow is one visit to the consent screen.  The cookie that seals its   *)
(* state is one per browser: a second flow of the same browser replaces    *)
(* it, and the first callback removes it whatever comes of it.  The        *)
(* cryptography of the exchange is abstracted to what it guarantees: the   *)
(* callback of flow f carries an identity the visitor of f consented with. *)
(***************************************************************************)
EXTENDS Accounts

CONSTANTS Flows      \* bound: each visit to the consent screen is one

VARIABLES
  sealed,            \* sealed[b]: the flow in the transaction cookie, or Null
  flow               \* flow[f]: who started f and for what, or Null

signInVars == <<users, links, subscribed, keys, tokens, live, jar, req, menu, sealed, flow>>

(* link: the linkUserId of the transaction, Null when signing in.          *)
Flow == [browser : Browsers, link : Users \union {Null}, stage : {"consent", "back"}]

ASSUME SignInAssumption == Null \notin Flows \union Flow

LinkOf(u) == {s \in Subjects : links[s] = u}

-----------------------------------------------------------------------------
(* GET /api/auth/oauth/google, with and without link=1.                    *)

StartGoogle(b, linking) ==
  /\ (IF linking THEN "link" ELSE "google") \in menu
  /\ req[b].at = "idle" /\ Unused(flow) # {}
  /\ linking => SignedIn(b)
  /\ flow' = [flow EXCEPT ![NewId(flow)] = [browser |-> b, stage |-> "consent",
                                            link |-> IF linking THEN Caller(b) ELSE Null]]
  /\ sealed' = [sealed EXCEPT ![b] = NewId(flow)]
  /\ UNCHANGED accountVars

(* openTransaction refuses a cookie older than ten minutes.                *)
ExpireSealed(b) ==
  /\ "expiry" \in menu /\ sealed[b] # Null
  /\ sealed' = [sealed EXCEPT ![b] = Null]
  /\ UNCHANGED <<accountVars, flow>>

(* Fault: the identity is linked to whoever is signed in by now.           *)
CallbackCurrentUser(b, f, s) ==
  /\ flow[f] # Null /\ flow[f].browser = b /\ flow[f].stage = "consent"
  /\ req[b].at = "idle"
  /\ flow' = [flow EXCEPT ![f].stage = "back"]
  /\ sealed' = [sealed EXCEPT ![b] = Null]
  /\ req' = CASE sealed[b] # f -> req
              [] sealed[b] = f /\ flow[f].link = Null ->
                   [req EXCEPT ![b] = [Idle EXCEPT !.at = "byLink", !.via = s, !.email = EmailOf[s]]]
              [] sealed[b] = f /\ flow[f].link # Null /\ ~SignedIn(b) -> req
              [] OTHER ->
                   [req EXCEPT ![b] = [Idle EXCEPT !.at = "linkFind", !.via = s, !.user = Caller(b)]]
  /\ UNCHANGED <<users, links, subscribed, keys, tokens, live, jar, menu>>

(* The callback: the cookie goes first; a state that is not the sealed one *)
(* ends here, and so does a link flow without the session that started it. *)
Callback(b, f, s) ==
  /\ flow[f] # Null /\ flow[f].browser = b /\ flow[f].stage = "consent"
  /\ req[b].at = "idle"
  /\ flow' = [flow EXCEPT ![f].stage = "back"]
  /\ sealed' = [sealed EXCEPT ![b] = Null]
  /\ req' = CASE sealed[b] # f -> req
              [] sealed[b] = f /\ flow[f].link = Null ->
                   [req EXCEPT ![b] = [Idle EXCEPT !.at = "byLink", !.via = s, !.email = EmailOf[s]]]
              [] sealed[b] = f /\ flow[f].link # Null
                   /\ ~(SignedIn(b) /\ Caller(b) = flow[f].link) -> req
              [] OTHER ->
                   [req EXCEPT ![b] = [Idle EXCEPT !.at = "linkFind", !.via = s, !.user = Caller(b)]]
  /\ UNCHANGED <<users, links, subscribed, keys, tokens, live, jar, menu>>

(* Consent is refused, or the exchange with Google fails.                  *)
Refusal(b, f) ==
  /\ flow[f] # Null /\ flow[f].browser = b /\ flow[f].stage = "consent"
  /\ flow' = [flow EXCEPT ![f].stage = "back"]
  /\ sealed' = [sealed EXCEPT ![b] = Null]
  /\ UNCHANGED accountVars

-----------------------------------------------------------------------------
(* signInWithOAuthIdentity, one action per statement.                      *)

(* The user is read with the link; a suspended one is refused here.        *)
FindByLink(b) ==
  /\ req[b].at = "byLink"
  /\ LET u == links[req[b].via]
         Go(at) == req' = [req EXCEPT ![b].at = at, ![b].user = u] /\ UNCHANGED menu IN
       \/ u = Null /\ Goto(b, "byEmail")
       \/ u # Null /\ users[u].status = "deleted" /\ Go("drop")
       \/ u # Null /\ users[u].status = "suspended" /\ Done(b)
       \/ u # Null /\ users[u].status = "active" /\ Go("touch")
  /\ UNCHANGED menu
  /\ UNCHANGED <<users, links, subscribed, keys, tokens, live, jar, sealed, flow>>

(* Prisma fails an update or a delete of a row that is gone.               *)
Touch(b) ==
  /\ req[b].at = "touch"
  /\ IF links[req[b].via] = req[b].user THEN Goto(b, "subscribe") ELSE Done(b)
  /\ UNCHANGED <<users, links, subscribed, keys, tokens, live, jar, sealed, flow>>

Drop(b) ==
  /\ req[b].at = "drop"
  /\ IF links[req[b].via] = req[b].user
       THEN links' = [links EXCEPT ![req[b].via] = Null] /\ Goto(b, "byEmail")
       ELSE Done(b) /\ UNCHANGED links
  /\ UNCHANGED <<users, subscribed, keys, tokens, live, jar, sealed, flow>>

(* The address Google states finds the account, or a new one is created    *)
(* without a password.                                                     *)
FindByEmail(b) ==
  /\ req[b].at = "byEmail"
  /\ \/ Holders(req[b].email) = {} /\ Goto(b, "create")
     \/ \E u \in Holders(req[b].email) :
          IF users[u].status = "suspended" THEN Done(b)
          ELSE req' = [req EXCEPT ![b].at = "attach", ![b].user = u] /\ UNCHANGED menu
  /\ UNCHANGED <<users, links, subscribed, keys, tokens, live, jar, sealed, flow>>

(* Fault: a created account skips ensureSubscription.                      *)
AttachOnly(b) ==
  /\ req[b].at = "attach"
  /\ IF links[req[b].via] # Null \/ LinkOf(req[b].user) # {}
       THEN Done(b) /\ UNCHANGED links
       ELSE links' = [links EXCEPT ![req[b].via] = req[b].user] /\ Goto(b, "open")
  /\ UNCHANGED <<users, subscribed, keys, tokens, live, jar, sealed, flow>>

(* oauth_accounts is UNIQUE by subject and by user.                        *)
Attach(b) ==
  /\ req[b].at = "attach"
  /\ IF links[req[b].via] # Null \/ LinkOf(req[b].user) # {}
       THEN Done(b) /\ UNCHANGED links
       ELSE links' = [links EXCEPT ![req[b].via] = req[b].user] /\ Goto(b, "subscribe")
  /\ UNCHANGED <<users, subscribed, keys, tokens, live, jar, sealed, flow>>

-----------------------------------------------------------------------------
(* linkOAuthIdentity and unlinkOAuthAccount.                               *)

LinkFind(b) ==
  /\ req[b].at = "linkFind"
  /\ IF links[req[b].via] # Null THEN Done(b) ELSE Goto(b, "linkCheck")
  /\ UNCHANGED <<users, links, subscribed, keys, tokens, live, jar, sealed, flow>>

LinkCheck(b) ==
  /\ req[b].at = "linkCheck"
  /\ IF LinkOf(req[b].user) # {} THEN Done(b) ELSE Goto(b, "linkAttach")
  /\ UNCHANGED <<users, links, subscribed, keys, tokens, live, jar, sealed, flow>>

LinkAttach(b) ==
  /\ req[b].at = "linkAttach"
  /\ Done(b)
  /\ links' = IF links[req[b].via] # Null \/ LinkOf(req[b].user) # {} THEN links
              ELSE [links EXCEPT ![req[b].via] = req[b].user]
  /\ UNCHANGED <<users, subscribed, keys, tokens, live, jar, sealed, flow>>

(* Fault: the last way in may be removed.                                  *)
UnlinkAny(b) ==
  /\ SignedIn(b)
  /\ \E s \in LinkOf(Caller(b)) :
       Start(b, "unlink", [Idle EXCEPT !.at = "unlink", !.user = Caller(b), !.via = s])
  /\ UNCHANGED <<users, links, subscribed, keys, tokens, live, jar, sealed, flow>>

(* The password is the one of the guard's row, the links are read after.   *)
Unlink(b) ==
  /\ SignedIn(b)
  /\ users[Caller(b)].password # Null
  /\ \E s \in LinkOf(Caller(b)) :
       Start(b, "unlink", [Idle EXCEPT !.at = "unlink", !.user = Caller(b), !.via = s])
  /\ UNCHANGED <<users, links, subscribed, keys, tokens, live, jar, sealed, flow>>

RemoveLink(b) ==
  /\ req[b].at = "unlink"
  /\ links' = [links EXCEPT ![req[b].via] = IF @ = req[b].user THEN Null ELSE @]
  /\ Done(b)
  /\ UNCHANGED <<users, subscribed, keys, tokens, live, jar, sealed, flow>>

SignInInit ==
  /\ AccountsInit
  /\ sealed = [b \in Browsers |-> Null]
  /\ flow = [f \in Flows |-> Null]

SignInNext ==
  \E b \in Browsers :
    \/ \E linking \in BOOLEAN : StartGoogle(b, linking)
    \/ \E f \in Flows : \/ \E s \in Subjects : Callback(b, f, s)
                        \/ Refusal(b, f)
    \/ ExpireSealed(b) \/ FindByLink(b) \/ Touch(b) \/ Drop(b) \/ FindByEmail(b)
    \/ Attach(b) \/ LinkFind(b) \/ LinkCheck(b) \/ LinkAttach(b)
    \/ Unlink(b) \/ RemoveLink(b)
=============================================================================
