------------------------------ MODULE Accounts ------------------------------
(***************************************************************************)
(* Users, their password, their sessions and their reset links             *)
(* (auth-service.ts, session.ts, guards.ts), and what an administrator     *)
(* does to a user (applyUserAction, scripts/promote-admin.ts).             *)
(*                                                                         *)
(* A browser has a cookie jar and at most one request of this kind under   *)
(* way; the requests of two browsers interleave at every await.  Only what *)
(* decides is kept of a row: e-mail verification, names, avatars and       *)
(* timestamps are left out, and an address never changes hands except by   *)
(* the deletion of its account.                                            *)
(***************************************************************************)
EXTENDS Integers, FiniteSets, FiniteSetsExt

CONSTANTS
  Null,
  Users,       \* bound: row ids; a created account takes a free one
  Emails,
  Passwords,
  Lost,        \* the random password of a closed account, known to nobody
  Tokens,      \* bound: reset links; each is issued once
  Keys,        \* bound: API keys; each is created once
  Subjects,    \* Google's ids of people
  EmailOf,     \* EmailOf[s]: the verified address Google states for s
  Browsers,
  Scenarios    \* bound: seeded rows, open sessions, and the operations combined

VARIABLES
  users,       \* users[u]: the row, or Null
  links,       \* links[s]: the user the identity s is linked to, or Null
  subscribed,  \* users with a subscription row
  keys,        \* keys[k]: the API key's row, or Null
  tokens,      \* tokens[t]: the verification_tokens row of type password_reset
  live,        \* sessions neither revoked nor expired
  jar,         \* jar[b]: the session cookie of browser b, or Null
  req,         \* req[b]: the locals of the request browser b waits for
  menu         \* the operations of this behaviour; never changes

accountVars == <<users, links, subscribed, keys, tokens, live, jar, req, menu>>

Row == [email    : Emails \union {Null},            \* Null: the tombstone
        password : Passwords \union {Null, Lost},   \* Null: no password set
        status   : {"active", "suspended", "deleted"},
        role     : {"user", "admin"}]

Proofs == Passwords \union Subjects

(* via: the proof the session was opened with.                             *)
Session == [user : Users, browser : Browsers, via : Proofs]

Token == [user  : Users,
          state : {"outstanding", "used", "burned", "expired"}]

Key == [user : Users, status : {"active", "revoked"}]

Locations == {"idle", "create", "subscribe", "open", "setPassword",
              "revokeOthers", "burn", "mint", "reset", "revokeAll", "close",
              "count", "apply", "byLink", "touch", "drop",
              "byEmail", "attach", "linkFind", "linkCheck", "linkAttach",
              "unlink"}

Request == [at    : Locations,
            user  : Users \union {Null},
            email : Emails \union {Null},
            via   : Proofs \union {Null},        \* what the caller proved
            value : Passwords \union {Null},     \* the password to be stored
            token : Tokens \union {Null},
            act   : {"none", "suspend", "reactivate", "make_admin",
                     "revoke_admin", "keep", "drop_others"}]

Idle == [at |-> "idle", user |-> Null, email |-> Null, via |-> Null,
         value |-> Null, token |-> Null, act |-> "none"]

ASSUME AccountsAssumption ==
  /\ Null \notin Users \union Emails \union Passwords \union Tokens \union Subjects \union Keys
  /\ Null \notin Row \union Session \union Token \union Key
  /\ Lost \notin Passwords \union {Null}
  /\ Passwords \intersect Subjects = {}
  /\ EmailOf \in [Subjects -> Emails]
  /\ IsFiniteSet(Browsers) /\ IsFiniteSet(Tokens) /\ IsFiniteSet(Keys)
  /\ \A c \in Scenarios :
       /\ c.rows \in [Users -> Row \union {Null}]
       /\ c.jars \in [Browsers -> Session \union {Null}]
       /\ \A b \in Browsers : c.jars[b] # Null => c.rows[c.jars[b].user] # Null
       /\ \A u \in Users : c.rows[u] # Null =>
            c.rows[u].password # Lost /\ c.rows[u].status # "deleted"

-----------------------------------------------------------------------------
(* Helpers.                                                                *)

(* The database names a new row; any unused name will do.                  *)
Unused(table) == {x \in DOMAIN table : table[x] = Null}
NewId(table) == CHOOSE x \in Unused(table) : TRUE

Exists(u) == users[u] # Null
Holders(m) == {u \in Users : Exists(u) /\ users[u].email = m}
Admins == {u \in Users : Exists(u) /\ users[u].role = "admin"
                           /\ users[u].status = "active"}

(* getSession and requireUser: the session behind the cookie, if it still  *)
(* opens anything.                                                         *)
SignedIn(b) == jar[b] # Null /\ jar[b] \in live /\ users[jar[b].user].status = "active"
Caller(b) == jar[b].user

Start(b, op, locals) ==
  /\ op \in menu /\ req[b].at = "idle"
  /\ req' = [req EXCEPT ![b] = locals]
  /\ UNCHANGED menu

Goto(b, at) == req' = [req EXCEPT ![b].at = at] /\ UNCHANGED menu
Done(b) == req' = [req EXCEPT ![b] = Idle] /\ UNCHANGED menu

-----------------------------------------------------------------------------
(* registerUser, and the steps it shares with the two sign-ins.            *)

Register(b, m, p) ==
  /\ Holders(m) = {}
  /\ Start(b, "register", [Idle EXCEPT !.at = "create", !.email = m, !.via = p, !.value = p])
  /\ UNCHANGED <<users, links, subscribed, keys, tokens, live, jar>>

(* users.email is UNIQUE: a second create of the address fails.            *)
CreateUser(b) ==
  /\ req[b].at = "create"
  /\ IF Holders(req[b].email) # {}
       THEN Done(b) /\ UNCHANGED users
       ELSE LET u == NewId(users) IN
              /\ Unused(users) # {}
              /\ users' = [users EXCEPT ![u] = [email |-> req[b].email,
                   password |-> req[b].value, status |-> "active", role |-> "user"]]
              /\ req' = [req EXCEPT ![b].user = u,
                   ![b].at = IF req[b].value = Null THEN "attach" ELSE "subscribe"]
              /\ UNCHANGED menu
  /\ UNCHANGED <<links, subscribed, keys, tokens, live, jar>>

(* ensureSubscription.                                                     *)
Subscribe(b) ==
  /\ req[b].at = "subscribe"
  /\ subscribed' = subscribed \union {req[b].user}
  /\ Goto(b, "open")
  /\ UNCHANGED <<users, links, keys, tokens, live, jar>>

(* createSession: a new row and a new cookie, whatever the jar held.       *)
OpenSession(b) ==
  /\ req[b].at = "open"
  /\ LET session == [user |-> req[b].user, browser |-> b, via |-> req[b].via] IN
       /\ live' = live \union {session}
       /\ jar' = [jar EXCEPT ![b] = session]
  /\ Done(b)
  /\ UNCHANGED <<users, links, subscribed, keys, tokens>>

(* loginUser: the password is verified against the row as read here.       *)
Login(b, m, p) ==
  /\ \E u \in Holders(m) :
       /\ users[u].password = p /\ users[u].status = "active"
       /\ Start(b, "login", [Idle EXCEPT !.at = "subscribe", !.user = u, !.via = p])
  /\ UNCHANGED <<users, links, subscribed, keys, tokens, live, jar>>

(* destroyCurrentSession.                                                  *)
Logout(b) ==
  /\ "logout" \in menu /\ req[b].at = "idle" /\ jar[b] # Null
  /\ live' = live \ {jar[b]}
  /\ jar' = [jar EXCEPT ![b] = Null]
  /\ UNCHANGED <<users, links, subscribed, keys, tokens, req, menu>>

-----------------------------------------------------------------------------
(* changePassword: proof and policy are judged on the row the guard read.  *)

ChangePassword(b, p, new, act) ==
  /\ SignedIn(b)
  /\ LET stored == users[Caller(b)].password IN
       stored # Null => stored = p /\ new # stored
  /\ Start(b, "password", [Idle EXCEPT !.at = "setPassword", !.user = Caller(b),
                                       !.via = p, !.value = new, !.act = act])
  /\ UNCHANGED <<users, links, subscribed, keys, tokens, live, jar>>

SetPassword(b) ==
  /\ req[b].at = "setPassword"
  /\ users' = [users EXCEPT ![req[b].user].password = req[b].value]
  /\ IF req[b].act = "drop_others" THEN Goto(b, "revokeOthers") ELSE Done(b)
  /\ UNCHANGED <<links, subscribed, keys, tokens, live, jar>>

RevokeOthers(b) ==
  /\ req[b].at = "revokeOthers"
  /\ live' = {s \in live : s.user # req[b].user \/ s = jar[b]}
  /\ Done(b)
  /\ UNCHANGED <<users, links, subscribed, keys, tokens, jar>>

-----------------------------------------------------------------------------
(* requestPasswordReset and resetPassword.                                 *)

RequestReset(b, m) ==
  /\ \E u \in Holders(m) :
       /\ users[u].status = "active"
       /\ Start(b, "forgot", [Idle EXCEPT !.at = "burn", !.user = u])
  /\ UNCHANGED <<users, links, subscribed, keys, tokens, live, jar>>

(* Fault: the older links are left alone.                                  *)
BurnNothing(b) == req[b].at = "burn" /\ Goto(b, "mint")
                  /\ UNCHANGED <<users, links, subscribed, keys, tokens, live, jar>>

Outstanding(u) ==
  {t \in Tokens : tokens[t] # Null /\ tokens[t].user = u /\ tokens[t].state = "outstanding"}

Burn(b) ==
  /\ req[b].at = "burn"
  /\ tokens' = [t \in Tokens |-> IF t \in Outstanding(req[b].user)
                                   THEN [tokens[t] EXCEPT !.state = "burned"] ELSE tokens[t]]
  /\ Goto(b, "mint")
  /\ UNCHANGED <<users, links, subscribed, keys, live, jar>>

(* createVerificationToken.                                                *)
Mint(b) ==
  /\ req[b].at = "mint"
  /\ Unused(tokens) # {}
  /\ tokens' = [tokens EXCEPT ![NewId(tokens)] = [user |-> req[b].user, state |-> "outstanding"]]
  /\ Done(b)
  /\ UNCHANGED <<users, links, subscribed, keys, live, jar>>

(* The link is judged as read; its owner may be suspended, or have closed  *)
(* the account.                                                            *)
ResetPassword(b, t, p) ==
  /\ tokens[t] # Null /\ tokens[t].state = "outstanding"
  /\ Start(b, "reset", [Idle EXCEPT !.at = "reset", !.user = tokens[t].user,
                                    !.token = t, !.value = p])
  /\ UNCHANGED <<users, links, subscribed, keys, tokens, live, jar>>

(* One transaction: the password and the link's usedAt, unconditionally.   *)
Reset(b) ==
  /\ req[b].at = "reset"
  /\ users' = [users EXCEPT ![req[b].user].password = req[b].value]
  /\ tokens' = [tokens EXCEPT ![req[b].token].state = "used"]
  /\ Goto(b, "revokeAll")
  /\ UNCHANGED <<links, subscribed, keys, live, jar>>

(* revokeAllSessions without an exception.                                 *)
RevokeAll(b) ==
  /\ req[b].at = "revokeAll"
  /\ live' = {s \in live : s.user # req[b].user}
  /\ Done(b)
  /\ UNCHANGED <<users, links, subscribed, keys, tokens, jar>>

-----------------------------------------------------------------------------
(* deleteAccount: the password, or the typed address of an account without *)
(* one, is judged on the row the guard read.                               *)

DeleteAccount(b, p) ==
  /\ SignedIn(b)
  /\ users[Caller(b)].password \in {Null, p}
  /\ Start(b, "close", [Idle EXCEPT !.at = "close", !.user = Caller(b)])
  /\ UNCHANGED <<users, links, subscribed, keys, tokens, live, jar>>

Close(b) ==
  /\ req[b].at = "close"
  /\ LET u == req[b].user IN
       /\ keys' = [k \in Keys |-> IF keys[k] # Null /\ keys[k].user = u
                                     THEN [keys[k] EXCEPT !.status = "revoked"] ELSE keys[k]]
       /\ links' = [s \in Subjects |-> IF links[s] = u THEN Null ELSE links[s]]
       /\ users' = [users EXCEPT ![u] = [@ EXCEPT !.status = "deleted", !.email = Null,
                                                  !.password = Lost]]
  /\ Goto(b, "revokeAll")
  /\ UNCHANGED <<subscribed, tokens, live, jar>>

-----------------------------------------------------------------------------
(* applyUserAction: requireAdmin and the tests read, then one update.      *)

(* Fault: an administrator may act on the own row.                         *)
AdminActAnyone(b, u, act) ==
  /\ SignedIn(b) /\ users[Caller(b)].role = "admin"
  /\ Exists(u)
  /\ Start(b, act, [Idle EXCEPT !.user = u, !.act = act,
                               !.at = IF act = "revoke_admin" THEN "count" ELSE "apply"])
  /\ UNCHANGED <<users, links, subscribed, keys, tokens, live, jar>>

AdminAct(b, u, act) ==
  /\ SignedIn(b) /\ users[Caller(b)].role = "admin"
  /\ u # Caller(b) /\ Exists(u)
  /\ Start(b, act, [Idle EXCEPT !.user = u, !.act = act,
                               !.at = IF act = "revoke_admin" THEN "count" ELSE "apply"])
  /\ UNCHANGED <<users, links, subscribed, keys, tokens, live, jar>>

CountAdmins(b) ==
  /\ req[b].at = "count"
  /\ IF Cardinality(Admins) <= 1 THEN Done(b) ELSE Goto(b, "apply")
  /\ UNCHANGED <<users, links, subscribed, keys, tokens, live, jar>>

(* The update has no condition on what the row has become.                 *)
Apply(b) ==
  /\ req[b].at = "apply"
  /\ LET u == req[b].user IN
       users' = CASE req[b].act = "suspend"      -> [users EXCEPT ![u].status = "suspended"]
                  [] req[b].act = "reactivate"   -> [users EXCEPT ![u].status = "active"]
                  [] req[b].act = "make_admin"   -> [users EXCEPT ![u].role = "admin"]
                  [] req[b].act = "revoke_admin" -> [users EXCEPT ![u].role = "user"]
  /\ IF req[b].act = "suspend" THEN Goto(b, "revokeAll") ELSE Done(b)
  /\ UNCHANGED <<links, subscribed, keys, tokens, live, jar>>

(* scripts/promote-admin.ts, run by an operator with database access.      *)
Promote(u, role) ==
  /\ "promote" \in menu /\ Exists(u) /\ users[u].email # Null
  /\ users[u].role # role
  /\ users' = [users EXCEPT ![u].role = role]
  /\ UNCHANGED <<links, subscribed, keys, tokens, live, jar, req, menu>>

-----------------------------------------------------------------------------
(* Time, and the request that dies at an await.                            *)

ExpireToken(t) ==
  /\ "expiry" \in menu /\ tokens[t] # Null /\ tokens[t].state = "outstanding"
  /\ tokens' = [tokens EXCEPT ![t].state = "expired"]
  /\ UNCHANGED <<users, links, subscribed, keys, live, jar, req, menu>>

ExpireSession(s) ==
  /\ "expiry" \in menu /\ s \in live
  /\ live' = live \ {s}
  /\ UNCHANGED <<users, links, subscribed, keys, tokens, jar, req, menu>>

Die(b) ==
  /\ "crash" \in menu /\ req[b].at # "idle"
  /\ Done(b)
  /\ UNCHANGED <<users, links, subscribed, keys, tokens, live, jar>>

AccountsInit ==
  /\ \E c \in Scenarios : users = c.rows /\ menu = c.menu /\ jar = c.jars
  /\ links = [s \in Subjects |-> Null]
  /\ subscribed = {u \in Users : users[u] # Null}
  /\ keys = [k \in Keys |-> Null]
  /\ tokens = [t \in Tokens |-> Null]
  /\ live = {jar[b] : b \in Browsers} \ {Null}
  /\ req = [b \in Browsers |-> Idle]

AccountsNext ==
  \/ \E b \in Browsers :
       \/ \E m \in Emails, p \in Passwords : Register(b, m, p) \/ Login(b, m, p)
       \/ \E p, new \in Passwords, act \in {"keep", "drop_others"} :
            ChangePassword(b, p, new, act)
       \/ \E m \in Emails : RequestReset(b, m)
       \/ \E t \in Tokens, p \in Passwords : ResetPassword(b, t, p)
       \/ \E p \in Passwords : DeleteAccount(b, p)
       \/ \E u \in Users, act \in {"suspend", "reactivate", "make_admin", "revoke_admin"} :
            AdminAct(b, u, act)
       \/ Logout(b) \/ CreateUser(b) \/ Subscribe(b) \/ OpenSession(b)
       \/ SetPassword(b) \/ RevokeOthers(b) \/ Burn(b) \/ Mint(b)
       \/ Reset(b) \/ RevokeAll(b) \/ Close(b) \/ CountAdmins(b) \/ Apply(b) \/ Die(b)
  \/ \E u \in Users, role \in {"user", "admin"} : Promote(u, role)
  \/ \E t \in Tokens : ExpireToken(t)
  \/ \E s \in live : ExpireSession(s)
=============================================================================
