--------------------------- MODULE Accounts_proofs ---------------------------
(***************************************************************************)
(* Theorems about accounts, sign-in, API keys, saved integrations and the  *)
(* profile page, for any number of browsers, users, links, keys and        *)
(* requests.                                                               *)
(***************************************************************************)
EXTENDS AccountsMC, FiniteSetTheorems, TLAPS

-----------------------------------------------------------------------------
(* The inductive invariant of accounts and sign-in.                        *)

TablesTyped ==
  /\ users \in [Users -> Row \union {Null}]
  /\ links \in [Subjects -> Users \union {Null}]
  /\ subscribed \subseteq Users
  /\ tokens \in [Tokens -> Token \union {Null}]
  /\ live \subseteq Session
  /\ jar \in [Browsers -> Session \union {Null}]
  /\ sealed \in [Browsers -> Flows \union {Null}]
  /\ flow \in [Flows -> Flow \union {Null}]

AccountTyped == TablesTyped /\ req \in [Browsers -> Request]

(* Only a closed account has the password nobody knows or the status of a  *)
(* deleted one, and a closed account has no address.                       *)
ClosedIsNameless ==
  \A u \in Users :
    users[u] # Null /\ (users[u].password = Lost \/ users[u].status = "deleted") =>
      users[u].email = Null

(* Whatever names a user names one with a row.                             *)
Referential ==
  /\ \A s \in live : users[s.user] # Null /\ s.user \in subscribed
  /\ \A b \in Browsers : jar[b] # Null => users[jar[b].user] # Null
  /\ \A s \in Subjects : links[s] # Null => users[links[s]] # Null
  /\ \A t \in Tokens : tokens[t] # Null => users[tokens[t].user] # Null
  /\ \A f \in Flows : flow[f] # Null /\ flow[f].link # Null => users[flow[f].link] # Null

FromGoogle(r) == r.via \in Subjects /\ r.email = EmailOf[r.via]

(* What a request of browser b has established on the way to its location. *)
Fits(r, b) ==
  /\ r.at \in Locations \ {"idle", "create", "byLink", "byEmail"} =>
       r.user \in Users /\ users[r.user] # Null
  /\ r.at = "open" => r.user \in subscribed
  /\ r.at \in {"subscribe", "open", "create"} => r.via \in Proofs
  /\ r.at = "create" => r.email \in Emails /\ (r.value = Null => FromGoogle(r))
  /\ r.at \in {"setPassword", "reset"} => r.value \in Passwords
  /\ r.at = "reset" => r.token \in Tokens /\ tokens[r.token] # Null
  /\ r.at \in {"byLink", "touch", "drop", "byEmail", "attach"} => FromGoogle(r)
  /\ r.at = "attach" => users[r.user].email \in {r.email, Null}
  /\ r.at = "drop" => users[r.user].email = Null
  /\ r.at = "unlink" => r.via \in Subjects /\ users[r.user].password # Null
  /\ r.at \in {"linkFind", "linkCheck", "linkAttach"} =>
       r.via \in Subjects /\ \E f \in Flows : flow[f] # Null /\ flow[f].link = r.user
  /\ r.at \in {"count", "apply"} =>
       /\ jar[b] # Null /\ jar[b].user # r.user
       /\ r.act \in {"suspend", "reactivate", "make_admin", "revoke_admin"}

(* A link is issued by a request that has burned the older ones: those     *)
(* outstanding and those about to be issued are never more than the        *)
(* browsers.                                                               *)
Minting(u) == {b \in Browsers : req[b].at = "mint" /\ req[b].user = u}

LinksCounted ==
  \A u \in Users : Cardinality(Outstanding(u)) + Cardinality(Minting(u)) <= Cardinality(Browsers)

AccountParts ==
  /\ AccountTyped /\ ClosedIsNameless /\ Referential
  /\ \A b \in Browsers : Fits(req[b], b)
  /\ LinksCounted

-----------------------------------------------------------------------------
(* The inductive invariant of the keys and their page.                     *)

KeyTyped ==
  /\ keys \in [Keys -> Key \union {Null}]
  /\ page \in [Browsers -> Page]
  /\ sent \in [Submits -> Sent \union {Null}]
  /\ \A n \in Submits : sent[n] # Null /\ sent[n].at \in {"find", "revoke"} => sent[n].key \in Keys
  /\ \A n \in Submits : sent[n] # Null /\ sent[n].at = "revoke" => keys[sent[n].key] # Null
  /\ \A n \in Submits : sent[n] # Null /\ sent[n].at = "count" => ~sent[n].together

Waiting(b) == {n \in Submits : sent[n] # Null /\ sent[n].browser = b /\ sent[n].at # "over"}

(* Unless a create was sent in haste, a page waits for one request at a    *)
(* time, and shows no secret while it waits.                               *)
Calm(b) ==
  /\ page[b].revealed # Null => ~page[b].createOpen
  /\ ~page[b].hasty =>
       /\ \A m, n \in Waiting(b) : m = n
       /\ Waiting(b) # {} => page[b].busy /\ page[b].revealed = Null

Together(u) == {n \in Submits : sent[n] # Null /\ sent[n].user = u /\ sent[n].together}

(* A create that has counted takes its place already.                      *)
KeysCounted ==
  \A u \in Users :
    Cardinality(ActiveKeys(u)) + Cardinality(Pending(u)) <= MaxApiKeys + Cardinality(Together(u))

KeyParts == KeyTyped /\ (\A b \in Browsers : Calm(b)) /\ KeysCounted

AccountInv == part = "accounts" => AccountParts /\ KeyParts

-----------------------------------------------------------------------------
(* The inductive invariant of the saved integrations.                      *)

SavedIds == DOMAIN notes

Counting == {q \in Browsers : posts[q] # Null /\ posts[q].at = "create"}
CountingTogether == {q \in Counting : posts[q].together}
SavedTogether == {i \in SavedIds : notes[i] # Null /\ notes[i].together}

BenchTyped ==
  /\ IsFiniteSet(SavedIds) /\ SavedIds = 1 .. Cardinality(SavedIds)
  /\ notes \in [SavedIds -> Workbench!Note \union {Null}]
  /\ posts \in [Browsers -> Workbench!Request \union {Null}]
  /\ bench \in [Browsers -> Workbench!Bench]

(* A create that has counted takes its place already.                      *)
NotesCounted ==
  Cardinality(Workbench!Rows) + Cardinality(Counting)
    <= MaxIntegrations + Cardinality(SavedTogether) + Cardinality(CountingTogether)

BenchParts == BenchTyped /\ NotesCounted

BenchInv == part = "integrations" => BenchParts

-----------------------------------------------------------------------------
(* What every step of accounts and sign-in leaves true of the tables.      *)

(* Rows stay, keep their address or lose it, and never forget a password;  *)
(* what was issued stays issued.                                           *)
Grows ==
  /\ \A u \in Users : users[u] # Null =>
       /\ users'[u] # Null /\ users'[u].email \in {users[u].email, Null}
       /\ users[u].password # Null => users'[u].password # Null
  /\ subscribed \subseteq subscribed'
  /\ \A t \in Tokens : tokens[t] # Null =>
       tokens'[t] # Null /\ tokens'[t].user = tokens[t].user
  /\ \A f \in Flows : flow[f] # Null => flow'[f] # Null /\ flow'[f].link = flow[f].link

tableVars == <<users, links, subscribed, tokens, live, jar, sealed, flow>>

LEMMA IdleIsTyped == /\ Idle \in Request /\ Idle.at = "idle" /\ Idle.act = "none" /\ Idle.via = Null
                     /\ Idle.user = Null /\ Idle.email = Null /\ Idle.value = Null
BY DEF Idle, Request, Locations

LEMMA CountedAreFinite ==
  ASSUME NEW u
  PROVE  /\ IsFiniteSet(Outstanding(u)) /\ Cardinality(Outstanding(u)) \in Nat
         /\ IsFiniteSet(Minting(u)) /\ Cardinality(Minting(u)) \in Nat
         /\ Cardinality(Browsers) \in Nat
<1>1. Outstanding(u) \subseteq Tokens /\ Minting(u) \subseteq Browsers
  BY DEF Outstanding, Minting
<1>2. IsFiniteSet(Outstanding(u)) /\ IsFiniteSet(Minting(u))
  BY <1>1, FS_Subset, AccountsAssumption
<1> QED BY <1>2, FS_CardinalityType, AccountsAssumption

LEMMA FewerLinks ==
  ASSUME LinksCounted,
         \A u \in Users : Outstanding(u)' \subseteq Outstanding(u),
         \A u \in Users : Minting(u)' \subseteq Minting(u)
  PROVE  LinksCounted'
<1> SUFFICES ASSUME NEW u \in Users
             PROVE  Cardinality(Outstanding(u)') + Cardinality(Minting(u)')
                      <= Cardinality(Browsers)
  BY DEF LinksCounted
<1>1. Cardinality(Outstanding(u)') <= Cardinality(Outstanding(u))
  BY CountedAreFinite, FS_Subset
<1>2. Cardinality(Minting(u)') <= Cardinality(Minting(u))
  BY CountedAreFinite, FS_Subset
<1>3. /\ Cardinality(Outstanding(u)') \in Nat /\ Cardinality(Minting(u)') \in Nat
  <2>1. IsFiniteSet(Outstanding(u)') /\ IsFiniteSet(Minting(u)')
    BY CountedAreFinite, FS_Subset
  <2> QED BY <2>1, FS_CardinalityType
<1>4. Cardinality(Outstanding(u)) + Cardinality(Minting(u)) <= Cardinality(Browsers)
  BY DEF LinksCounted
<1> QED BY <1>1, <1>2, <1>3, <1>4, CountedAreFinite

(* A request that is not touched keeps what it has established.            *)
LEMMA OthersFit ==
  ASSUME AccountParts, Grows, NEW c \in Browsers, req'[c] = req[c], jar'[c] = jar[c]
  PROVE  Fits(req[c], c)'
<1> DEFINE r == req[c]
<1>1. Fits(r, c) /\ r \in Request
  BY DEF AccountParts, AccountTyped
<1> HIDE DEF r
<1>2. r.at \in Locations \ {"idle", "create", "byLink", "byEmail"} =>
        r.user \in Users /\ users[r.user] # Null
  BY <1>1 DEF Fits
<1>3. r.at = "attach" => users'[r.user].email \in {r.email, Null}
  BY <1>1, <1>2 DEF Fits, Grows, Locations
<1>4. r.at = "drop" => users'[r.user].email = Null
  BY <1>1, <1>2 DEF Fits, Grows, Locations
<1>5. r.at = "unlink" => users'[r.user].password # Null
  BY <1>1, <1>2 DEF Fits, Grows, Locations
<1>6. r.at \in Locations \ {"idle", "create", "byLink", "byEmail"} => users'[r.user] # Null
  BY <1>1, <1>2 DEF Grows
<1>7. r.at = "reset" => tokens'[r.token] # Null
  BY <1>1 DEF Fits, Grows
<1>8. r.at = "open" => r.user \in subscribed'
  BY <1>1 DEF Fits, Grows
<1>9. r.at \in {"linkFind", "linkCheck", "linkAttach"} =>
        \E f \in Flows : flow'[f] # Null /\ flow'[f].link = r.user
  BY <1>1 DEF Fits, Grows
<1>10. req'[c] = r
  BY DEF r
<1> QED BY <1>1, <1>2, <1>3, <1>4, <1>5, <1>6, <1>7, <1>8, <1>9, <1>10 DEF Fits, FromGoogle

(* One request moves on.                                                   *)
LEMMA Moved ==
  ASSUME AccountParts, NEW b \in Browsers, NEW r \in Request, req' = [req EXCEPT ![b] = r],
         Fits(req[b], b)', r.at # "mint", Grows, TablesTyped', ClosedIsNameless', Referential',
         \A c \in Browsers : c # b => jar'[c] = jar[c],
         \A u \in Users : Outstanding(u)' \subseteq Outstanding(u)
  PROVE  AccountParts'
<1>1. /\ req' \in [Browsers -> Request] /\ req'[b] = r
      /\ \A c \in Browsers : c # b => req'[c] = req[c]
  BY DEF AccountParts, AccountTyped
<1>2. \A c \in Browsers : Fits(req[c], c)'
  BY <1>1, OthersFit
<1>3. \A u \in Users : Minting(u)' \subseteq Minting(u)
  BY <1>1 DEF Minting
<1> QED BY <1>1, <1>2, <1>3, FewerLinks DEF AccountParts, AccountTyped

LEMMA Stands ==
  ASSUME AccountParts, UNCHANGED tableVars
  PROVE  /\ Grows /\ TablesTyped' /\ ClosedIsNameless' /\ Referential'
         /\ \A u \in Users : Outstanding(u)' \subseteq Outstanding(u)
         /\ \A c \in Browsers : jar'[c] = jar[c]
<1>1. /\ users' = users /\ links' = links /\ subscribed' = subscribed /\ tokens' = tokens
      /\ live' = live /\ jar' = jar /\ sealed' = sealed /\ flow' = flow
  BY DEF tableVars
<1>2. Grows
  <2>1. \A u \in Users : users[u] # Null => users'[u] # Null /\ users'[u].email = users[u].email
                                          /\ users'[u].password = users[u].password
    BY <1>1
  <2> QED BY <1>1, <2>1 DEF Grows
<1>3. TablesTyped'
  BY <1>1 DEF AccountParts, AccountTyped, TablesTyped
<1>4. ClosedIsNameless'
  BY <1>1 DEF AccountParts, ClosedIsNameless
<1>5. Referential'
  BY <1>1 DEF AccountParts, Referential
<1> QED BY <1>1, <1>2, <1>3, <1>4, <1>5 DEF Outstanding

(* A request moves on and touches no table.                                *)
LEMMA Asks ==
  ASSUME AccountParts, NEW b \in Browsers, NEW r \in Request, req' = [req EXCEPT ![b] = r],
         Fits(r, b), r.at # "mint", UNCHANGED tableVars
  PROVE  AccountParts'
<1>1. req'[b] = r
  BY DEF AccountParts, AccountTyped
<1>2. Fits(req[b], b)'
  BY <1>1 DEF Fits, FromGoogle, tableVars
<1> QED BY <1>2, Moved, Stands

LEMMA Ends ==
  ASSUME AccountParts, NEW b \in Browsers, Done(b), UNCHANGED tableVars
  PROVE  AccountParts'
<1>1. Fits(Idle, b)
  BY IdleIsTyped DEF Fits
<1> QED BY <1>1, IdleIsTyped, Asks DEF Done

(* It goes on to another statement: r is the request, moved to at.         *)
Onward(r, b, at) ==
  /\ r \in Request /\ r.at = at /\ r.user = req[b].user /\ r.email = req[b].email
  /\ r.via = req[b].via /\ r.value = req[b].value /\ r.token = req[b].token
  /\ r.act = req[b].act

LEMMA Goes ==
  ASSUME AccountParts, NEW b \in Browsers, NEW at \in Locations \ {"mint"}, Goto(b, at),
         \A r \in Request : Onward(r, b, at) => Fits(r, b),
         UNCHANGED tableVars
  PROVE  AccountParts'
<1> DEFINE r == [req[b] EXCEPT !.at = at]
<1>1. req[b] \in Request
  BY DEF AccountParts, AccountTyped
<1>2. Onward(r, b, at) /\ r \in Request /\ r.at = at
  BY <1>1 DEF Onward, Request
<1>3. req' = [req EXCEPT ![b] = r]
  BY DEF Goto
<1> HIDE DEF r
<1> QED BY <1>2, <1>3, Asks
-----------------------------------------------------------------------------
(* Operations and statements that only read.                               *)

LEMMA CallerExists ==
  ASSUME AccountParts, NEW b \in Browsers, SignedIn(b)
  PROVE  Caller(b) \in Users /\ users[Caller(b)] # Null /\ users[Caller(b)] \in Row /\ jar[b] # Null
BY DEF AccountParts, AccountTyped, TablesTyped, Referential, SignedIn, Caller, Session

LEMMA RegisterKeeps ==
  ASSUME AccountParts, NEW b \in Browsers, NEW m \in Emails, NEW p \in Passwords,
         Register(b, m, p), UNCHANGED <<sealed, flow>>
  PROVE  AccountParts'
<1> DEFINE r == [Idle EXCEPT !.at = "create", !.email = m, !.via = p, !.value = p]
<1>1. r \in Request /\ r.at = "create" /\ r.email = m /\ r.via = p /\ r.value = p
  BY IdleIsTyped DEF Request, Locations, Proofs
<1>2. req' = [req EXCEPT ![b] = r] /\ UNCHANGED tableVars
  BY DEF Register, Start, tableVars
<1> HIDE DEF r
<1>3. Fits(r, b)
  BY <1>1, AccountsAssumption DEF Fits, Proofs
<1> QED BY <1>1, <1>2, <1>3, Asks

LEMMA LoginKeeps ==
  ASSUME AccountParts, NEW b \in Browsers, NEW m \in Emails, NEW p \in Passwords,
         Login(b, m, p), UNCHANGED <<sealed, flow>>
  PROVE  AccountParts'
<1>1. PICK u \in Users : /\ users[u] # Null
                         /\ Start(b, "login", [Idle EXCEPT !.at = "subscribe", !.user = u, !.via = p])
  BY DEF Login, Holders, Exists
<1> DEFINE r == [Idle EXCEPT !.at = "subscribe", !.user = u, !.via = p]
<1>2. r \in Request /\ r.at = "subscribe" /\ r.user = u /\ r.via = p
  BY IdleIsTyped DEF Request, Locations, Proofs
<1>3. req' = [req EXCEPT ![b] = r] /\ UNCHANGED tableVars
  BY <1>1 DEF Login, Start, tableVars
<1> HIDE DEF r
<1>4. Fits(r, b)
  BY <1>1, <1>2 DEF Fits, Proofs
<1> QED BY <1>2, <1>3, <1>4, Asks

LEMMA ChangePasswordKeeps ==
  ASSUME AccountParts, NEW b \in Browsers, NEW p \in Passwords, NEW new \in Passwords,
         NEW act \in {"keep", "drop_others"},
         ChangePassword(b, p, new, act), UNCHANGED <<sealed, flow>>
  PROVE  AccountParts'
<1> DEFINE u == Caller(b)
           r == [Idle EXCEPT !.at = "setPassword", !.user = u, !.via = p, !.value = new,
                             !.act = act]
<1>1. u \in Users /\ users[u] # Null
  BY CallerExists DEF ChangePassword
<1>2. req' = [req EXCEPT ![b] = r] /\ UNCHANGED tableVars
  BY DEF ChangePassword, Start, tableVars
<1> HIDE DEF u
<1>3. r \in Request /\ r.at = "setPassword" /\ r.user = u /\ r.value = new
  BY <1>1, IdleIsTyped DEF Request, Locations, Proofs
<1> HIDE DEF r
<1>4. Fits(r, b)
  BY <1>1, <1>3 DEF Fits
<1> QED BY <1>2, <1>3, <1>4, Asks

LEMMA RequestResetKeeps ==
  ASSUME AccountParts, NEW b \in Browsers, NEW m \in Emails,
         RequestReset(b, m), UNCHANGED <<sealed, flow>>
  PROVE  AccountParts'
<1>1. PICK u \in Users : /\ users[u] # Null
                         /\ Start(b, "forgot", [Idle EXCEPT !.at = "burn", !.user = u])
  BY DEF RequestReset, Holders, Exists
<1> DEFINE r == [Idle EXCEPT !.at = "burn", !.user = u]
<1>2. r \in Request /\ r.at = "burn" /\ r.user = u
  BY IdleIsTyped DEF Request, Locations
<1>3. req' = [req EXCEPT ![b] = r] /\ UNCHANGED tableVars
  BY <1>1 DEF RequestReset, Start, tableVars
<1> HIDE DEF r
<1>4. Fits(r, b)
  BY <1>1, <1>2 DEF Fits
<1> QED BY <1>2, <1>3, <1>4, Asks

LEMMA ResetPasswordKeeps ==
  ASSUME AccountParts, NEW b \in Browsers, NEW t \in Tokens, NEW p \in Passwords,
         ResetPassword(b, t, p), UNCHANGED <<sealed, flow>>
  PROVE  AccountParts'
<1> DEFINE u == tokens[t].user
           r == [Idle EXCEPT !.at = "reset", !.user = u, !.token = t, !.value = p]
<1>1. tokens[t] # Null /\ u \in Users /\ users[u] # Null
  BY DEF ResetPassword, AccountParts, AccountTyped, TablesTyped, Referential, Token
<1>2. req' = [req EXCEPT ![b] = r] /\ UNCHANGED tableVars
  BY DEF ResetPassword, Start, tableVars
<1> HIDE DEF u
<1>3. r \in Request /\ r.at = "reset" /\ r.user = u /\ r.value = p /\ r.token = t
  BY <1>1, IdleIsTyped DEF Request, Locations
<1> HIDE DEF r
<1>4. Fits(r, b)
  BY <1>1, <1>3 DEF Fits
<1> QED BY <1>2, <1>3, <1>4, Asks

LEMMA DeleteAccountKeeps ==
  ASSUME AccountParts, NEW b \in Browsers, NEW p \in Passwords,
         DeleteAccount(b, p), UNCHANGED <<sealed, flow>>
  PROVE  AccountParts'
<1> DEFINE u == Caller(b)
           r == [Idle EXCEPT !.at = "close", !.user = u]
<1>1. u \in Users /\ users[u] # Null
  BY CallerExists DEF DeleteAccount
<1>2. req' = [req EXCEPT ![b] = r] /\ UNCHANGED tableVars
  BY DEF DeleteAccount, Start, tableVars
<1> HIDE DEF u
<1>3. r \in Request /\ r.at = "close" /\ r.user = u
  BY <1>1, IdleIsTyped DEF Request, Locations
<1> HIDE DEF r
<1>4. Fits(r, b)
  BY <1>1, <1>3 DEF Fits
<1> QED BY <1>2, <1>3, <1>4, Asks

LEMMA AdminActKeeps ==
  ASSUME AccountParts, NEW b \in Browsers, NEW u \in Users,
         NEW act \in {"suspend", "reactivate", "make_admin", "revoke_admin"},
         AdminAct(b, u, act), UNCHANGED <<sealed, flow>>
  PROVE  AccountParts'
<1> DEFINE at == IF act = "revoke_admin" THEN "count" ELSE "apply"
           r == [Idle EXCEPT !.user = u, !.act = act, !.at = at]
<1>1. users[u] # Null /\ jar[b] # Null /\ jar[b].user # u
  BY CallerExists DEF AdminAct, Exists, Caller
<1>2. req' = [req EXCEPT ![b] = r] /\ UNCHANGED tableVars
  BY DEF AdminAct, Start, tableVars
<1>3. at \in {"count", "apply"}
  OBVIOUS
<1> HIDE DEF at
<1>4. r \in Request /\ r.at \in {"count", "apply"} /\ r.user = u /\ r.act = act
  BY <1>3, IdleIsTyped DEF Request, Locations
<1> HIDE DEF r
<1>5. Fits(r, b)
  BY <1>1, <1>4 DEF Fits
<1> QED BY <1>2, <1>4, <1>5, Asks

LEMMA CountAdminsKeeps ==
  ASSUME AccountParts, NEW b \in Browsers, CountAdmins(b), UNCHANGED <<sealed, flow>>
  PROVE  AccountParts'
<1>1. UNCHANGED tableVars /\ req[b].at = "count" /\ Fits(req[b], b)
  BY DEF CountAdmins, tableVars, AccountParts
<1>2. CASE Done(b)
  BY <1>1, <1>2, Ends
<1>3. CASE Goto(b, "apply")
  <2>1. \A r \in Request : Onward(r, b, "apply") => Fits(r, b)
    BY <1>1 DEF Fits, Onward, Locations
  <2> QED BY <1>1, <1>3, <2>1, Goes DEF Locations
<1> QED BY <1>2, <1>3 DEF CountAdmins

LEMMA DieKeeps ==
  ASSUME AccountParts, NEW b \in Browsers, Die(b), UNCHANGED <<sealed, flow>>
  PROVE  AccountParts'
BY Ends DEF Die, tableVars

LEMMA UnlinkKeeps ==
  ASSUME AccountParts, NEW b \in Browsers, Unlink(b)
  PROVE  AccountParts'
<1> DEFINE u == Caller(b)
<1>1. u \in Users /\ users[u] # Null /\ users[u].password # Null
  BY CallerExists DEF Unlink
<1>2. PICK s \in Subjects :
        Start(b, "unlink", [Idle EXCEPT !.at = "unlink", !.user = u, !.via = s])
  BY DEF Unlink, LinkOf
<1> HIDE DEF u
<1> DEFINE r == [Idle EXCEPT !.at = "unlink", !.user = u, !.via = s]
<1>3. r \in Request /\ r.at = "unlink" /\ r.user = u /\ r.via = s
  BY <1>1, IdleIsTyped DEF Request, Locations, Proofs
<1>4. req' = [req EXCEPT ![b] = r] /\ UNCHANGED tableVars
  BY <1>2 DEF Unlink, Start, tableVars
<1> HIDE DEF r
<1>5. Fits(r, b)
  BY <1>1, <1>3 DEF Fits
<1> QED BY <1>3, <1>4, <1>5, Asks

LEMMA LinkReadsKeep ==
  ASSUME AccountParts, NEW b \in Browsers, LinkFind(b) \/ LinkCheck(b) \/ Touch(b)
  PROVE  AccountParts'
<1>1. UNCHANGED tableVars /\ Fits(req[b], b) /\ req[b] \in Request
  BY DEF LinkFind, LinkCheck, Touch, tableVars, AccountParts, AccountTyped
<1>2. CASE Done(b)
  BY <1>1, <1>2, Ends
<1>3. CASE LinkFind(b) /\ Goto(b, "linkCheck")
  <2>1. \A r \in Request : Onward(r, b, "linkCheck") => Fits(r, b)
    BY <1>1, <1>3 DEF Fits, Onward, Locations, LinkFind
  <2> QED BY <1>1, <1>3, <2>1, Goes DEF Locations
<1>4. CASE LinkCheck(b) /\ Goto(b, "linkAttach")
  <2>1. \A r \in Request : Onward(r, b, "linkAttach") => Fits(r, b)
    BY <1>1, <1>4 DEF Fits, Onward, Locations, LinkCheck
  <2> QED BY <1>1, <1>4, <2>1, Goes DEF Locations
<1>5. CASE Touch(b) /\ Goto(b, "subscribe")
  <2>1. \A r \in Request : Onward(r, b, "subscribe") => Fits(r, b)
    BY <1>1, <1>5 DEF Fits, Onward, Locations, Touch, FromGoogle, Proofs
  <2> QED BY <1>1, <1>5, <2>1, Goes DEF Locations
<1> QED BY <1>2, <1>3, <1>4, <1>5 DEF LinkFind, LinkCheck, Touch

LEMMA FindByLinkKeeps ==
  ASSUME AccountParts, NEW b \in Browsers, FindByLink(b)
  PROVE  AccountParts'
<1> DEFINE u == links[req[b].via]
<1>1. UNCHANGED tableVars /\ Fits(req[b], b) /\ req[b] \in Request /\ req[b].at = "byLink"
  BY DEF FindByLink, tableVars, AccountParts, AccountTyped
<1>2. FromGoogle(req[b]) /\ u \in Users \union {Null} /\ (u # Null => users[u] # Null)
  BY <1>1 DEF Fits, FromGoogle, AccountParts, AccountTyped, TablesTyped, Referential
<1>3. CASE Done(b)
  BY <1>1, <1>3, Ends
<1>4. CASE Goto(b, "byEmail")
  <2>1. \A r \in Request : Onward(r, b, "byEmail") => Fits(r, b)
    BY <1>2 DEF Fits, Onward, FromGoogle, Locations
  <2> QED BY <1>1, <1>4, <2>1, Goes DEF Locations
<1>5. ASSUME u # Null,
             NEW at \in {"touch", "drop"}, req' = [req EXCEPT ![b].at = at, ![b].user = u],
             at = "drop" => users[u].status = "deleted"
      PROVE  AccountParts'
  <2> DEFINE r == [req[b] EXCEPT !.at = at, !.user = u]
  <2>1. /\ r \in Request /\ r.at = at /\ r.user = u /\ r.via = req[b].via
        /\ r.email = req[b].email
    BY <1>1, <1>2 DEF Request, Locations
  <2>2. req' = [req EXCEPT ![b] = r]
    BY <1>5 DEF AccountParts, AccountTyped
  <2> HIDE DEF r
  <2>3. at = "drop" => users[u].email = Null
    BY <1>2, <1>5 DEF AccountParts, ClosedIsNameless
  <2>4. Fits(r, b)
    BY <1>2, <1>5, <2>1, <2>3 DEF Fits, FromGoogle, Locations
  <2> QED BY <1>1, <2>1, <2>2, <2>4, Asks
<1> QED BY <1>3, <1>4, <1>5 DEF FindByLink

LEMMA FindByEmailKeeps ==
  ASSUME AccountParts, NEW b \in Browsers, FindByEmail(b)
  PROVE  AccountParts'
<1>1. UNCHANGED tableVars /\ Fits(req[b], b) /\ req[b] \in Request /\ req[b].at = "byEmail"
  BY DEF FindByEmail, tableVars, AccountParts, AccountTyped
<1>2. FromGoogle(req[b])
  BY <1>1 DEF Fits
<1>3. CASE Done(b)
  BY <1>1, <1>3, Ends
<1>4. CASE Goto(b, "create")
  <2>1. req[b].via \in Proofs /\ req[b].email \in Emails
    BY <1>2, AccountsAssumption DEF FromGoogle, Proofs
  <2>2. \A r \in Request : Onward(r, b, "create") => Fits(r, b)
    BY <1>2, <2>1 DEF Fits, Onward, FromGoogle, Locations
  <2> QED BY <1>1, <1>4, <2>2, Goes DEF Locations
<1>5. ASSUME NEW u \in Holders(req[b].email), req' = [req EXCEPT ![b].at = "attach", ![b].user = u]
      PROVE  AccountParts'
  <2> DEFINE r == [req[b] EXCEPT !.at = "attach", !.user = u]
  <2>1. u \in Users /\ users[u] # Null /\ users[u].email = req[b].email
    BY <1>5 DEF Holders, Exists
  <2>2. /\ r \in Request /\ r.at = "attach" /\ r.user = u /\ r.via = req[b].via
        /\ r.email = req[b].email
    BY <1>1, <2>1 DEF Request, Locations
  <2>3. req' = [req EXCEPT ![b] = r]
    BY <1>5 DEF AccountParts, AccountTyped
  <2> HIDE DEF r
  <2>4. Fits(r, b)
    BY <1>2, <2>1, <2>2 DEF Fits, FromGoogle
  <2> QED BY <1>1, <2>2, <2>3, <2>4, Asks
<1> QED BY <1>3, <1>4, <1>5 DEF FindByEmail
-----------------------------------------------------------------------------
(* Statements that write.                                                  *)

(* The tables after a write of one user's row.                             *)
LEMMA RowWritten ==
  ASSUME AccountParts, NEW u \in Users, NEW row \in Row, users' = [users EXCEPT ![u] = row],
         users[u] # Null => /\ row.email \in {users[u].email, Null}
                            /\ users[u].password # Null => row.password # Null,
         row.password = Lost \/ row.status = "deleted" => row.email = Null,
         UNCHANGED <<links, subscribed, tokens, live, jar, sealed, flow>>
  PROVE  /\ Grows /\ TablesTyped' /\ ClosedIsNameless' /\ Referential'
         /\ \A v \in Users : Outstanding(v)' \subseteq Outstanding(v)
         /\ \A c \in Browsers : jar'[c] = jar[c]
         /\ users'[u] = row
<1>1. users \in [Users -> Row \union {Null}]
  BY DEF AccountParts, AccountTyped, TablesTyped
<1>2. /\ users' \in [Users -> Row \union {Null}] /\ users'[u] = row
      /\ \A v \in Users : v # u => users'[v] = users[v]
  BY <1>1
<1>3. row # Null
  BY AccountsAssumption
<1>4. Grows
  <2>1. \A v \in Users : users[v] # Null => users'[v] # Null
                                          /\ users'[v].email \in {users[v].email, Null}
    BY <1>2, <1>3
  <2>2. \A v \in Users : users[v] # Null /\ users[v].password # Null => users'[v].password # Null
    BY <1>2
  <2> QED BY <2>1, <2>2 DEF Grows
<1>5. TablesTyped'
  BY <1>2 DEF AccountParts, AccountTyped, TablesTyped
<1>6. ClosedIsNameless'
  BY <1>2 DEF AccountParts, ClosedIsNameless
<1>7. \A v \in Users : users[v] # Null => users'[v] # Null
  BY <1>2, <1>3
<1>8. Referential'
  <2>1. \A s \in live' : users'[s.user] # Null /\ s.user \in subscribed'
    BY <1>7 DEF AccountParts, AccountTyped, TablesTyped, Referential, Session
  <2>2. \A b \in Browsers : jar'[b] # Null => users'[jar'[b].user] # Null
    BY <1>7 DEF AccountParts, AccountTyped, TablesTyped, Referential, Session
  <2>3. \A s \in Subjects : links'[s] # Null => users'[links'[s]] # Null
    BY <1>7 DEF AccountParts, AccountTyped, TablesTyped, Referential
  <2>4. \A t \in Tokens : tokens'[t] # Null => users'[tokens'[t].user] # Null
    BY <1>7 DEF AccountParts, AccountTyped, TablesTyped, Referential, Token
  <2>5. \A f \in Flows : flow'[f] # Null /\ flow'[f].link # Null => users'[flow'[f].link] # Null
    BY <1>7 DEF AccountParts, AccountTyped, TablesTyped, Referential, Flow
  <2> QED BY <2>1, <2>2, <2>3, <2>4, <2>5 DEF Referential
<1> QED BY <1>2, <1>4, <1>5, <1>6, <1>8 DEF Outstanding

(* No request moves on.                                                    *)
LEMMA Unasked ==
  ASSUME AccountParts, UNCHANGED req, Grows, TablesTyped', ClosedIsNameless', Referential',
         \A c \in Browsers : jar'[c] = jar[c] \/ req[c].at = "idle",
         \A u \in Users : Outstanding(u)' \subseteq Outstanding(u)
  PROVE  AccountParts'
<1>1. \A c \in Browsers : jar'[c] = jar[c] => Fits(req[c], c)'
  BY OthersFit
<1>2. \A c \in Browsers : req[c].at = "idle" => Fits(req[c], c)'
  BY DEF Fits
<1>3. \A u \in Users : Minting(u)' = Minting(u)
  BY DEF Minting
<1> QED BY <1>1, <1>2, <1>3, FewerLinks DEF AccountParts, AccountTyped

LEMMA CreateUserKeeps ==
  ASSUME AccountParts, NEW b \in Browsers, CreateUser(b), UNCHANGED <<sealed, flow>>
  PROVE  AccountParts'
<1>1. Fits(req[b], b) /\ req[b] \in Request /\ req[b].at = "create"
  BY DEF CreateUser, AccountParts, AccountTyped
<1>2. /\ req[b].email \in Emails /\ req[b].via \in Proofs
      /\ req[b].value = Null => FromGoogle(req[b])
  BY <1>1 DEF Fits
<1>3. CASE Holders(req[b].email) # {}
  BY <1>3, Ends DEF CreateUser, tableVars
<1>4. CASE Holders(req[b].email) = {}
  <2> DEFINE u == NewId(users)
             row == [email |-> req[b].email, password |-> req[b].value, status |-> "active",
                     role |-> "user"]
             at == IF req[b].value = Null THEN "attach" ELSE "subscribe"
             r == [req[b] EXCEPT !.user = u, !.at = at]
  <2>1. u \in Users /\ users[u] = Null
    <3>1. Unused(users) # {} /\ DOMAIN users = Users
      BY <1>4 DEF CreateUser, AccountParts, AccountTyped, TablesTyped
    <3>2. u \in Unused(users)
      BY <3>1 DEF NewId
    <3> QED BY <3>1, <3>2 DEF Unused
  <2>2. users' = [users EXCEPT ![u] = row]
    BY <1>4 DEF CreateUser
  <2>3. req' = [req EXCEPT ![b] = r]
    BY <1>4 DEF CreateUser, AccountParts, AccountTyped
  <2>4. UNCHANGED <<links, subscribed, tokens, live, jar, sealed, flow>>
    BY DEF CreateUser
  <2> HIDE DEF u
  <2>5. /\ row \in Row /\ row.email = req[b].email /\ row.password = req[b].value
        /\ row.status = "active"
    BY <1>1, <1>2 DEF Row, Request
  <2>6. row.password # Lost
    BY <1>1, <2>5, AccountsAssumption DEF Request
  <2> HIDE DEF row
  <2>7. /\ Grows /\ TablesTyped' /\ ClosedIsNameless' /\ Referential'
        /\ \A v \in Users : Outstanding(v)' \subseteq Outstanding(v)
        /\ \A c \in Browsers : jar'[c] = jar[c]
        /\ users'[u] = row
    BY <2>1, <2>2, <2>4, <2>5, <2>6, RowWritten
  <2>8. at \in {"attach", "subscribe"} /\ (at = "attach" <=> req[b].value = Null)
    OBVIOUS
  <2> HIDE DEF at
  <2>9. /\ r \in Request /\ r.at = at /\ r.user = u /\ r.via = req[b].via
        /\ r.email = req[b].email
    BY <1>1, <2>1, <2>8 DEF Request, Locations
  <2> HIDE DEF r
  <2>10. req'[b] = r
    BY <2>3 DEF AccountParts, AccountTyped
  <2>11. row # Null
    BY <2>5, AccountsAssumption
  <2>12. Fits(req[b], b)'
    BY <1>2, <2>1, <2>5, <2>7, <2>8, <2>9, <2>10, <2>11 DEF Fits, FromGoogle
  <2> QED BY <2>3, <2>7, <2>8, <2>9, <2>12, Moved
<1> QED BY <1>3, <1>4

(* The tables after a write of the sessions.                               *)
LEMMA SessionsWritten ==
  ASSUME AccountParts, UNCHANGED <<users, links, tokens, sealed, flow>>,
         subscribed \subseteq subscribed', subscribed' \subseteq Users,
         live' \subseteq Session, \A s \in live' : users[s.user] # Null /\ s.user \in subscribed',
         jar' \in [Browsers -> Session \union {Null}],
         \A c \in Browsers : jar'[c] # Null => users[jar'[c].user] # Null
  PROVE  /\ Grows /\ TablesTyped' /\ ClosedIsNameless' /\ Referential'
         /\ \A v \in Users : Outstanding(v)' \subseteq Outstanding(v)
<1>1. Grows
  BY DEF Grows
<1>2. TablesTyped'
  BY DEF AccountParts, AccountTyped, TablesTyped
<1>3. ClosedIsNameless' /\ Referential'
  BY DEF AccountParts, ClosedIsNameless, Referential
<1> QED BY <1>1, <1>2, <1>3 DEF Outstanding

LEMMA SubscribeKeeps ==
  ASSUME AccountParts, NEW b \in Browsers, Subscribe(b), UNCHANGED <<sealed, flow>>
  PROVE  AccountParts'
<1> DEFINE r == [req[b] EXCEPT !.at = "open"]
<1>1. Fits(req[b], b) /\ req[b] \in Request /\ req[b].at = "subscribe"
  BY DEF Subscribe, AccountParts, AccountTyped
<1>2. req[b].user \in Users /\ users[req[b].user] # Null /\ req[b].via \in Proofs
  BY <1>1 DEF Fits, Locations
<1>3. /\ subscribed' = subscribed \union {req[b].user} /\ req' = [req EXCEPT ![b] = r]
      /\ UNCHANGED <<users, links, tokens, live, jar, sealed, flow>>
  BY DEF Subscribe, Goto
<1>4. r \in Request /\ r.at = "open" /\ r.user = req[b].user /\ r.via = req[b].via
  BY <1>1 DEF Request, Locations
<1> HIDE DEF r
<1>5. /\ Grows /\ TablesTyped' /\ ClosedIsNameless' /\ Referential'
      /\ \A v \in Users : Outstanding(v)' \subseteq Outstanding(v)
  <2>1. subscribed \subseteq subscribed' /\ subscribed' \subseteq Users
    BY <1>2, <1>3 DEF AccountParts, AccountTyped, TablesTyped
  <2>2. /\ live' \subseteq Session /\ jar' \in [Browsers -> Session \union {Null}]
        /\ \A s \in live' : users[s.user] # Null /\ s.user \in subscribed'
        /\ \A c \in Browsers : jar'[c] # Null => users[jar'[c].user] # Null
    BY <1>3 DEF AccountParts, AccountTyped, TablesTyped, Referential
  <2> QED BY <1>3, <2>1, <2>2, SessionsWritten
<1>6. req'[b] = r
  BY <1>3 DEF AccountParts, AccountTyped
<1>7. Fits(req[b], b)'
  BY <1>2, <1>3, <1>4, <1>6 DEF Fits
<1> QED BY <1>3, <1>4, <1>5, <1>7, Moved

LEMMA OpenSessionKeeps ==
  ASSUME AccountParts, NEW b \in Browsers, OpenSession(b), UNCHANGED <<sealed, flow>>
  PROVE  AccountParts'
<1> DEFINE session == [user |-> req[b].user, browser |-> b, via |-> req[b].via]
<1>1. Fits(req[b], b) /\ req[b].at = "open"
  BY DEF OpenSession, AccountParts
<1>2. /\ req[b].user \in Users /\ users[req[b].user] # Null /\ req[b].via \in Proofs
      /\ req[b].user \in subscribed
  BY <1>1 DEF Fits, Locations
<1>3. session \in Session /\ session.user = req[b].user
  BY <1>2 DEF Session
<1>4. /\ live' = live \union {session} /\ jar' = [jar EXCEPT ![b] = session]
      /\ req' = [req EXCEPT ![b] = Idle]
      /\ UNCHANGED <<users, links, subscribed, tokens, sealed, flow>>
  BY DEF OpenSession, Done
<1> HIDE DEF session
<1>5. /\ jar' \in [Browsers -> Session \union {Null}] /\ jar'[b] = session
      /\ \A c \in Browsers : c # b => jar'[c] = jar[c]
  BY <1>3, <1>4 DEF AccountParts, AccountTyped, TablesTyped
<1>6. /\ Grows /\ TablesTyped' /\ ClosedIsNameless' /\ Referential'
      /\ \A v \in Users : Outstanding(v)' \subseteq Outstanding(v)
  <2>1. /\ live' \subseteq Session /\ subscribed' \subseteq Users /\ subscribed \subseteq subscribed'
        /\ \A s \in live' : users[s.user] # Null /\ s.user \in subscribed'
    BY <1>2, <1>3, <1>4 DEF AccountParts, AccountTyped, TablesTyped, Referential
  <2>2. \A c \in Browsers : jar'[c] # Null => users[jar'[c].user] # Null
    BY <1>2, <1>3, <1>5 DEF AccountParts, Referential
  <2> QED BY <1>4, <1>5, <2>1, <2>2, SessionsWritten
<1>7. req'[b] = Idle
  BY <1>4 DEF AccountParts, AccountTyped
<1>8. Fits(req[b], b)'
  BY <1>7, IdleIsTyped DEF Fits
<1> QED BY <1>4, <1>5, <1>6, <1>8, IdleIsTyped, Moved

(* Sessions are only revoked.                                              *)
LEMMA SessionsEnd ==
  ASSUME AccountParts, UNCHANGED <<users, links, subscribed, tokens, jar, sealed, flow>>,
         live' \subseteq live
  PROVE  /\ Grows /\ TablesTyped' /\ ClosedIsNameless' /\ Referential'
         /\ \A v \in Users : Outstanding(v)' \subseteq Outstanding(v)
<1>1. /\ live' \subseteq Session /\ \A s \in live' : users[s.user] # Null /\ s.user \in subscribed'
  BY DEF AccountParts, AccountTyped, TablesTyped, Referential
<1>2. /\ subscribed \subseteq subscribed' /\ subscribed' \subseteq Users
      /\ jar' \in [Browsers -> Session \union {Null}]
      /\ \A c \in Browsers : jar'[c] # Null => users[jar'[c].user] # Null
  BY DEF AccountParts, AccountTyped, TablesTyped, Referential
<1> QED BY <1>1, <1>2, SessionsWritten

LEMMA RevocationsKeep ==
  ASSUME AccountParts, NEW b \in Browsers, RevokeOthers(b) \/ RevokeAll(b),
         UNCHANGED <<sealed, flow>>
  PROVE  AccountParts'
<1>1. /\ UNCHANGED <<users, links, subscribed, tokens, jar, sealed, flow>>
      /\ live' \subseteq live /\ req' = [req EXCEPT ![b] = Idle]
  BY DEF RevokeOthers, RevokeAll, Done
<1>2. req'[b] = Idle
  BY <1>1 DEF AccountParts, AccountTyped
<1>3. Fits(req[b], b)'
  BY <1>2, IdleIsTyped DEF Fits
<1> QED BY <1>1, <1>3, IdleIsTyped, SessionsEnd, Moved

LEMMA ExpireSessionKeeps ==
  ASSUME AccountParts, NEW s, ExpireSession(s), UNCHANGED <<sealed, flow>>
  PROVE  AccountParts'
BY SessionsEnd, Unasked DEF ExpireSession

LEMMA LogoutKeeps ==
  ASSUME AccountParts, NEW b \in Browsers, Logout(b), UNCHANGED <<sealed, flow>>
  PROVE  AccountParts'
<1>1. /\ UNCHANGED <<users, links, subscribed, tokens, req, sealed, flow>>
      /\ live' \subseteq live /\ jar' = [jar EXCEPT ![b] = Null] /\ req[b].at = "idle"
  BY DEF Logout
<1>2. /\ jar' \in [Browsers -> Session \union {Null}] /\ jar'[b] = Null
      /\ \A c \in Browsers : c # b => jar'[c] = jar[c]
  BY <1>1 DEF AccountParts, AccountTyped, TablesTyped
<1>3. /\ subscribed \subseteq subscribed' /\ subscribed' \subseteq Users /\ live' \subseteq Session
      /\ \A s \in live' : users[s.user] # Null /\ s.user \in subscribed'
      /\ \A c \in Browsers : jar'[c] # Null => users[jar'[c].user] # Null
  BY <1>1, <1>2 DEF AccountParts, AccountTyped, TablesTyped, Referential
<1> QED BY <1>1, <1>2, <1>3, SessionsWritten, Unasked

LEMMA SetPasswordKeeps ==
  ASSUME AccountParts, NEW b \in Browsers, SetPassword(b), UNCHANGED <<sealed, flow>>
  PROVE  AccountParts'
<1> DEFINE u == req[b].user
           row == [users[u] EXCEPT !.password = req[b].value]
           at == "revokeOthers"
           r == IF req[b].act = "drop_others" THEN [req[b] EXCEPT !.at = at] ELSE Idle
<1>1. Fits(req[b], b) /\ req[b] \in Request /\ req[b].at = "setPassword"
  BY DEF SetPassword, AccountParts, AccountTyped
<1>2. u \in Users /\ users[u] # Null /\ req[b].value \in Passwords
  BY <1>1 DEF Fits, Locations
<1>3. /\ users' = [users EXCEPT ![u] = row] /\ req' = [req EXCEPT ![b] = r]
      /\ UNCHANGED <<links, subscribed, tokens, live, jar, sealed, flow>>
  BY DEF SetPassword, Goto, Done
<1>4. users[u] \in Row
  BY <1>2 DEF AccountParts, AccountTyped, TablesTyped
<1>5. r \in Request /\ r.at \in {"idle", "revokeOthers"} /\ (r.at # "idle" => r.user = u)
  BY <1>1, IdleIsTyped DEF Request, Locations
<1> HIDE DEF u, r
<1>6. /\ row \in Row /\ row.password = req[b].value /\ row.email = users[u].email
      /\ row.status = users[u].status
  BY <1>2, <1>4 DEF Row
<1> HIDE DEF row
<1>7. row.password # Null /\ row.password # Lost
  BY <1>2, <1>6, AccountsAssumption
<1>8. row.status = "deleted" => row.email = Null
  BY <1>2, <1>6 DEF AccountParts, ClosedIsNameless
<1>9. /\ Grows /\ TablesTyped' /\ ClosedIsNameless' /\ Referential'
      /\ \A v \in Users : Outstanding(v)' \subseteq Outstanding(v)
      /\ \A c \in Browsers : jar'[c] = jar[c]
      /\ users'[u] = row
  BY <1>2, <1>3, <1>6, <1>7, <1>8, RowWritten
<1>10. req'[b] = r
  BY <1>3 DEF AccountParts, AccountTyped
<1>11. row # Null
  BY <1>6, AccountsAssumption
<1>12. Fits(req[b], b)'
  BY <1>2, <1>5, <1>9, <1>10, <1>11 DEF Fits
<1> QED BY <1>3, <1>5, <1>9, <1>12, Moved

LEMMA ResetKeeps ==
  ASSUME AccountParts, NEW b \in Browsers, Reset(b), UNCHANGED <<sealed, flow>>
  PROVE  AccountParts'
<1> DEFINE u == req[b].user
           t == req[b].token
           row == [users[u] EXCEPT !.password = req[b].value]
           spent == [tokens[t] EXCEPT !.state = "used"]
           r == [req[b] EXCEPT !.at = "revokeAll"]
<1>1. Fits(req[b], b) /\ req[b] \in Request /\ req[b].at = "reset"
  BY DEF Reset, AccountParts, AccountTyped
<1>2. /\ u \in Users /\ users[u] # Null /\ req[b].value \in Passwords
      /\ t \in Tokens /\ tokens[t] # Null
  BY <1>1 DEF Fits, Locations
<1>3. /\ users' = [users EXCEPT ![u] = row] /\ req' = [req EXCEPT ![b] = r]
      /\ tokens' = [tokens EXCEPT ![t] = spent]
      /\ UNCHANGED <<links, subscribed, live, jar, sealed, flow>>
  BY DEF Reset, Goto
<1>4. users[u] \in Row /\ tokens[t] \in Token
  BY <1>2 DEF AccountParts, AccountTyped, TablesTyped
<1>5. r \in Request /\ r.at = "revokeAll" /\ r.user = u
  BY <1>1 DEF Request, Locations
<1> HIDE DEF u, t, r
<1>6. /\ row \in Row /\ row.password = req[b].value /\ row.email = users[u].email
      /\ row.status = users[u].status
  BY <1>2, <1>4 DEF Row
<1>7. spent \in Token /\ spent.user = tokens[t].user /\ spent.state = "used" /\ spent # Null
  <2>1. spent \in Token /\ spent.user = tokens[t].user /\ spent.state = "used"
    BY <1>4 DEF Token
  <2> QED BY <2>1, AccountsAssumption
<1> HIDE DEF row, spent
<1>8. row.password # Null /\ row.password # Lost /\ row # Null
  BY <1>2, <1>6, AccountsAssumption
<1>9. /\ users' \in [Users -> Row \union {Null}] /\ users'[u] = row
      /\ \A v \in Users : v # u => users'[v] = users[v]
      /\ tokens' \in [Tokens -> Token \union {Null}] /\ tokens'[t] = spent
      /\ \A s \in Tokens : s # t => tokens'[s] = tokens[s]
  BY <1>2, <1>3, <1>6, <1>7 DEF AccountParts, AccountTyped, TablesTyped
<1>10. \A v \in Users : users[v] # Null => users'[v] # Null
  BY <1>8, <1>9
<1>11. Grows
  <2>1. \A v \in Users : users[v] # Null =>
          users'[v].email = users[v].email /\ (users[v].password # Null => users'[v].password # Null)
    BY <1>6, <1>8, <1>9
  <2>2. \A s \in Tokens : tokens[s] # Null => tokens'[s] # Null /\ tokens'[s].user = tokens[s].user
    BY <1>7, <1>9
  <2> QED BY <1>3, <1>10, <2>1, <2>2 DEF Grows
<1>12. TablesTyped'
  BY <1>3, <1>9 DEF AccountParts, AccountTyped, TablesTyped
<1>13. ClosedIsNameless'
  BY <1>2, <1>6, <1>8, <1>9 DEF AccountParts, ClosedIsNameless
<1>14. Referential'
  <2>1. \A s \in live' : users'[s.user] # Null /\ s.user \in subscribed'
    BY <1>3, <1>10 DEF AccountParts, AccountTyped, TablesTyped, Referential, Session
  <2>2. \A c \in Browsers : jar'[c] # Null => users'[jar'[c].user] # Null
    BY <1>3, <1>10 DEF AccountParts, AccountTyped, TablesTyped, Referential, Session
  <2>3. \A s \in Subjects : links'[s] # Null => users'[links'[s]] # Null
    BY <1>3, <1>10 DEF AccountParts, AccountTyped, TablesTyped, Referential
  <2>4. \A s \in Tokens : tokens'[s] # Null => users'[tokens'[s].user] # Null
    <3>1. \A s \in Tokens : tokens'[s] # Null => tokens[s] # Null /\ tokens'[s].user = tokens[s].user
      BY <1>2, <1>7, <1>9
    <3> QED BY <1>10, <3>1 DEF AccountParts, AccountTyped, TablesTyped, Referential, Token
  <2>5. \A f \in Flows : flow'[f] # Null /\ flow'[f].link # Null => users'[flow'[f].link] # Null
    BY <1>3, <1>10 DEF AccountParts, AccountTyped, TablesTyped, Referential, Flow
  <2> QED BY <2>1, <2>2, <2>3, <2>4, <2>5 DEF Referential
<1>15. \A v \in Users : Outstanding(v)' \subseteq Outstanding(v)
  BY <1>7, <1>9 DEF Outstanding
<1>16. req'[b] = r
  BY <1>3 DEF AccountParts, AccountTyped
<1>17. Fits(req[b], b)'
  BY <1>2, <1>5, <1>10, <1>16 DEF Fits
<1> QED BY <1>3, <1>5, <1>11, <1>12, <1>13, <1>14, <1>15, <1>17, Moved

(* The tables after a write of the links to reset a password.              *)
LEMMA TokensWritten ==
  ASSUME AccountParts, UNCHANGED <<users, links, subscribed, live, jar, sealed, flow>>,
         tokens' \in [Tokens -> Token \union {Null}],
         \A t \in Tokens : tokens[t] # Null => tokens'[t] # Null /\ tokens'[t].user = tokens[t].user,
         \A t \in Tokens : tokens'[t] # Null => users[tokens'[t].user] # Null
  PROVE  Grows /\ TablesTyped' /\ ClosedIsNameless' /\ Referential'
<1>1. Grows
  BY DEF Grows
<1>2. TablesTyped'
  BY DEF AccountParts, AccountTyped, TablesTyped
<1> QED BY <1>1, <1>2 DEF AccountParts, ClosedIsNameless, Referential

LEMMA ExpireTokenKeeps ==
  ASSUME AccountParts, NEW t \in Tokens, ExpireToken(t), UNCHANGED <<sealed, flow>>
  PROVE  AccountParts'
<1> DEFINE spent == [tokens[t] EXCEPT !.state = "expired"]
<1>1. tokens[t] \in Token
  BY DEF ExpireToken, AccountParts, AccountTyped, TablesTyped
<1>2. spent \in Token /\ spent.user = tokens[t].user /\ spent.state = "expired"
  BY <1>1 DEF Token
<1>3. /\ tokens' = [tokens EXCEPT ![t] = spent]
      /\ UNCHANGED <<users, links, subscribed, live, jar, req, sealed, flow>>
  BY DEF ExpireToken
<1> HIDE DEF spent
<1>4. /\ tokens' \in [Tokens -> Token \union {Null}] /\ tokens'[t] = spent /\ spent # Null
      /\ \A s \in Tokens : s # t => tokens'[s] = tokens[s]
  BY <1>2, <1>3, AccountsAssumption DEF AccountParts, AccountTyped, TablesTyped
<1>5. \A s \in Tokens : tokens[s] # Null => tokens'[s] # Null /\ tokens'[s].user = tokens[s].user
  BY <1>2, <1>4
<1>6. \A s \in Tokens : tokens'[s] # Null => users[tokens'[s].user] # Null
  BY <1>2, <1>4 DEF AccountParts, Referential, ExpireToken
<1>7. \A u \in Users : Outstanding(u)' \subseteq Outstanding(u)
  BY <1>2, <1>4 DEF Outstanding
<1> QED BY <1>3, <1>4, <1>5, <1>6, <1>7, TokensWritten, Unasked

LEMMA BurnKeeps ==
  ASSUME AccountParts, NEW b \in Browsers, Burn(b), UNCHANGED <<sealed, flow>>
  PROVE  AccountParts'
<1> DEFINE u == req[b].user
           r == [req[b] EXCEPT !.at = "mint"]
           burned(t) == [tokens[t] EXCEPT !.state = "burned"]
<1>1. Fits(req[b], b) /\ req[b] \in Request /\ req[b].at = "burn"
  BY DEF Burn, AccountParts, AccountTyped
<1>2. u \in Users /\ users[u] # Null
  BY <1>1 DEF Fits, Locations
<1>3. /\ tokens' = [t \in Tokens |-> IF t \in Outstanding(u) THEN burned(t) ELSE tokens[t]]
      /\ req' = [req EXCEPT ![b] = r]
      /\ UNCHANGED <<users, links, subscribed, live, jar, sealed, flow>>
  BY DEF Burn, Goto
<1>4. r \in Request /\ r.at = "mint" /\ r.user = u
  BY <1>1 DEF Request, Locations
<1>5. \A t \in Tokens : tokens[t] # Null =>
        burned(t) \in Token /\ burned(t).user = tokens[t].user /\ burned(t).state = "burned"
  BY DEF AccountParts, AccountTyped, TablesTyped, Token
<1> HIDE DEF u, r, burned
<1>6. /\ tokens' \in [Tokens -> Token \union {Null}]
      /\ \A t \in Tokens : IF t \in Outstanding(u)
                           THEN tokens'[t].state = "burned" /\ tokens'[t].user = tokens[t].user
                                  /\ tokens'[t] # Null
                           ELSE tokens'[t] = tokens[t]
  BY <1>3, <1>5, AccountsAssumption DEF AccountParts, AccountTyped, TablesTyped, Outstanding
<1>7. \A t \in Tokens : tokens[t] # Null => tokens'[t] # Null /\ tokens'[t].user = tokens[t].user
  BY <1>6
<1>8. \A t \in Tokens : tokens'[t] # Null => users[tokens'[t].user] # Null
  BY <1>2, <1>6 DEF AccountParts, Referential, Outstanding
<1>9. Grows /\ TablesTyped' /\ ClosedIsNameless' /\ Referential'
  BY <1>3, <1>6, <1>7, <1>8, TokensWritten
<1>10. /\ req' \in [Browsers -> Request] /\ req'[b] = r
       /\ \A c \in Browsers : c # b => req'[c] = req[c]
  BY <1>3, <1>4 DEF AccountParts, AccountTyped
<1>11. \A c \in Browsers : Fits(req[c], c)'
  <2>1. Fits(req[b], b)'
    BY <1>2, <1>3, <1>4, <1>10 DEF Fits
  <2> QED BY <1>3, <1>9, <1>10, <2>1, OthersFit
<1>12. LinksCounted'
  <2> SUFFICES ASSUME NEW v \in Users
               PROVE  Cardinality(Outstanding(v)') + Cardinality(Minting(v)')
                        <= Cardinality(Browsers)
    BY DEF LinksCounted
  <2>1. CASE v = u
    <3>1. Outstanding(v)' = {}
      BY <1>6, <2>1 DEF Outstanding
    <3>2. Minting(v)' \subseteq Browsers
      BY DEF Minting
    <3>3. /\ Cardinality(Minting(v)') <= Cardinality(Browsers)
          /\ Cardinality(Minting(v)') \in Nat /\ Cardinality(Browsers) \in Nat
      BY <3>2, FS_Subset, FS_CardinalityType, AccountsAssumption
    <3>4. Cardinality(Outstanding(v)') = 0
      BY <3>1, FS_EmptySet
    <3> QED BY <3>3, <3>4
  <2>2. CASE v # u
    <3>1. Outstanding(v)' = Outstanding(v)
      BY <1>6, <2>2 DEF Outstanding
    <3>2. Minting(v)' = Minting(v)
      BY <1>1, <1>4, <1>10, <2>2 DEF Minting
    <3> QED BY <3>1, <3>2 DEF AccountParts, LinksCounted
  <2> QED BY <2>1, <2>2
<1> QED BY <1>9, <1>10, <1>11, <1>12 DEF AccountParts, AccountTyped

LEMMA MintKeeps ==
  ASSUME AccountParts, NEW b \in Browsers, Mint(b), UNCHANGED <<sealed, flow>>
  PROVE  AccountParts'
<1> DEFINE u == req[b].user
           t == NewId(tokens)
           link == [user |-> u, state |-> "outstanding"]
<1>1. Fits(req[b], b) /\ req[b].at = "mint"
  BY DEF Mint, AccountParts
<1>2. u \in Users /\ users[u] # Null
  BY <1>1 DEF Fits, Locations
<1>3. t \in Tokens /\ tokens[t] = Null
  <2>1. Unused(tokens) # {} /\ DOMAIN tokens = Tokens
    BY DEF Mint, AccountParts, AccountTyped, TablesTyped
  <2>2. t \in Unused(tokens)
    BY <2>1 DEF NewId
  <2> QED BY <2>1, <2>2 DEF Unused
<1>4. link \in Token /\ link.user = u /\ link.state = "outstanding" /\ link # Null
  <2>1. link \in Token
    BY <1>2 DEF Token
  <2> QED BY <2>1, AccountsAssumption
<1>5. /\ tokens' = [tokens EXCEPT ![t] = link] /\ req' = [req EXCEPT ![b] = Idle]
      /\ UNCHANGED <<users, links, subscribed, live, jar, sealed, flow>>
  BY DEF Mint, Done
<1> HIDE DEF u, t, link
<1>6. /\ tokens' \in [Tokens -> Token \union {Null}] /\ tokens'[t] = link
      /\ \A s \in Tokens : s # t => tokens'[s] = tokens[s]
  BY <1>3, <1>4, <1>5 DEF AccountParts, AccountTyped, TablesTyped
<1>7. \A s \in Tokens : tokens[s] # Null => tokens'[s] # Null /\ tokens'[s].user = tokens[s].user
  BY <1>3, <1>6
<1>8. \A s \in Tokens : tokens'[s] # Null => users[tokens'[s].user] # Null
  BY <1>2, <1>4, <1>6 DEF AccountParts, Referential
<1>9. Grows /\ TablesTyped' /\ ClosedIsNameless' /\ Referential'
  BY <1>5, <1>6, <1>7, <1>8, TokensWritten
<1>10. /\ req' \in [Browsers -> Request] /\ req'[b] = Idle
       /\ \A c \in Browsers : c # b => req'[c] = req[c]
  BY <1>5, IdleIsTyped DEF AccountParts, AccountTyped
<1>11. \A c \in Browsers : Fits(req[c], c)'
  <2>1. Fits(req[b], b)'
    BY <1>10, IdleIsTyped DEF Fits
  <2> QED BY <1>5, <1>9, <1>10, <2>1, OthersFit
<1>12. LinksCounted'
  <2> SUFFICES ASSUME NEW v \in Users
               PROVE  Cardinality(Outstanding(v)') + Cardinality(Minting(v)')
                        <= Cardinality(Browsers)
    BY DEF LinksCounted
  <2>0. Cardinality(Outstanding(v)) + Cardinality(Minting(v)) <= Cardinality(Browsers)
    BY DEF AccountParts, LinksCounted
  <2>1. CASE v = u
    <3>1. Outstanding(v)' = Outstanding(v) \union {t} /\ t \notin Outstanding(v)
      BY <1>3, <1>4, <1>6, <2>1 DEF Outstanding
    <3>2. Minting(v)' = Minting(v) \ {b} /\ b \in Minting(v)
      BY <1>1, <1>10, <2>1, IdleIsTyped DEF Minting, u
    <3>3. Cardinality(Outstanding(v)') = Cardinality(Outstanding(v)) + 1
      BY <3>1, FS_AddElement, CountedAreFinite
    <3>4. Cardinality(Minting(v)') = Cardinality(Minting(v)) - 1
      BY <3>2, FS_RemoveElement, CountedAreFinite
    <3> QED BY <2>0, <3>3, <3>4, CountedAreFinite
  <2>2. CASE v # u
    <3>1. Outstanding(v)' = Outstanding(v)
      BY <1>3, <1>4, <1>6, <2>2 DEF Outstanding
    <3>2. Minting(v)' = Minting(v)
      BY <1>10, <2>2, IdleIsTyped DEF Minting, u
    <3> QED BY <2>0, <3>1, <3>2
  <2> QED BY <2>1, <2>2
<1> QED BY <1>9, <1>10, <1>11, <1>12 DEF AccountParts, AccountTyped

LEMMA ApplyKeeps ==
  ASSUME AccountParts, NEW b \in Browsers, Apply(b), UNCHANGED <<sealed, flow>>
  PROVE  AccountParts'
<1> DEFINE u == req[b].user
           r == IF req[b].act = "suspend" THEN [req[b] EXCEPT !.at = "revokeAll"] ELSE Idle
<1>1. Fits(req[b], b) /\ req[b] \in Request /\ req[b].at = "apply"
  BY DEF Apply, AccountParts, AccountTyped
<1>2. /\ u \in Users /\ users[u] # Null
      /\ req[b].act \in {"suspend", "reactivate", "make_admin", "revoke_admin"}
  BY <1>1 DEF Fits, Locations
<1>3. req' = [req EXCEPT ![b] = r] /\ UNCHANGED <<links, subscribed, tokens, live, jar, sealed, flow>>
  BY DEF Apply, Goto, Done
<1>4. users[u] \in Row
  BY <1>2 DEF AccountParts, AccountTyped, TablesTyped
<1>5. PICK status \in {"active", "suspended", users[u].status}, role \in {"user", "admin"} :
        users' = [users EXCEPT ![u] = [users[u] EXCEPT !.status = status, !.role = role]]
  <2>1. users[u] = [users[u] EXCEPT !.status = users[u].status, !.role = users[u].role]
        /\ users[u].role \in {"user", "admin"}
    BY <1>4 DEF Row
  <2>2. CASE req[b].act \in {"suspend", "reactivate"}
    <3>1. PICK status \in {"active", "suspended"} : users' = [users EXCEPT ![u].status = status]
      BY <2>2 DEF Apply
    <3>2. [users[u] EXCEPT !.status = status]
            = [users[u] EXCEPT !.status = status, !.role = users[u].role]
      BY <1>4 DEF Row
    <3> QED BY <2>1, <3>1, <3>2
  <2>3. CASE req[b].act \in {"make_admin", "revoke_admin"}
    <3>1. PICK role \in {"user", "admin"} : users' = [users EXCEPT ![u].role = role]
      BY <2>3 DEF Apply
    <3>2. [users[u] EXCEPT !.role = role]
            = [users[u] EXCEPT !.status = users[u].status, !.role = role]
      BY <1>4 DEF Row
    <3> QED BY <3>1, <3>2
  <2> QED BY <1>2, <2>2, <2>3
<1> DEFINE row == [users[u] EXCEPT !.status = status, !.role = role]
<1>6. r \in Request /\ r.at \in {"idle", "revokeAll"} /\ (r.at # "idle" => r.user = u)
  BY <1>1, IdleIsTyped DEF Request, Locations
<1> HIDE DEF u, r
<1>7. /\ row \in Row /\ row.password = users[u].password /\ row.email = users[u].email
      /\ row.status = status
  BY <1>4 DEF Row
<1>8. users' = [users EXCEPT ![u] = row]
  BY <1>5
<1> HIDE DEF row
<1>9. row.password = Lost \/ row.status = "deleted" => row.email = Null
  BY <1>2, <1>7 DEF AccountParts, ClosedIsNameless
<1>10. /\ Grows /\ TablesTyped' /\ ClosedIsNameless' /\ Referential'
       /\ \A v \in Users : Outstanding(v)' \subseteq Outstanding(v)
       /\ \A c \in Browsers : jar'[c] = jar[c]
       /\ users'[u] = row
  BY <1>2, <1>3, <1>7, <1>8, <1>9, RowWritten
<1>11. req'[b] = r /\ row # Null
  BY <1>3, <1>7, AccountsAssumption DEF AccountParts, AccountTyped
<1>12. Fits(req[b], b)'
  BY <1>2, <1>6, <1>10, <1>11 DEF Fits
<1> QED BY <1>3, <1>6, <1>10, <1>12, Moved

LEMMA PromoteKeeps ==
  ASSUME AccountParts, NEW u \in Users, NEW role \in {"user", "admin"}, Promote(u, role),
         UNCHANGED <<sealed, flow>>
  PROVE  AccountParts'
<1> DEFINE row == [users[u] EXCEPT !.role = role]
<1>1. users[u] # Null /\ users[u] \in Row
  BY DEF Promote, Exists, AccountParts, AccountTyped, TablesTyped
<1>2. /\ row \in Row /\ row.password = users[u].password /\ row.email = users[u].email
      /\ row.status = users[u].status
  BY <1>1 DEF Row
<1>3. /\ users' = [users EXCEPT ![u] = row]
      /\ UNCHANGED <<links, subscribed, tokens, live, jar, req, sealed, flow>>
  BY DEF Promote
<1> HIDE DEF row
<1>4. row.password = Lost \/ row.status = "deleted" => row.email = Null
  BY <1>1, <1>2 DEF AccountParts, ClosedIsNameless
<1> QED BY <1>1, <1>2, <1>3, <1>4, RowWritten, Unasked

LEMMA CloseKeeps ==
  ASSUME AccountParts, NEW b \in Browsers, Close(b), UNCHANGED <<sealed, flow>>
  PROVE  AccountParts'
<1> DEFINE u == req[b].user
           row == [users[u] EXCEPT !.status = "deleted", !.email = Null, !.password = Lost]
           r == [req[b] EXCEPT !.at = "revokeAll"]
<1>1. Fits(req[b], b) /\ req[b] \in Request /\ req[b].at = "close"
  BY DEF Close, AccountParts, AccountTyped
<1>2. u \in Users /\ users[u] # Null
  BY <1>1 DEF Fits, Locations
<1>3. /\ users' = [users EXCEPT ![u] = row] /\ req' = [req EXCEPT ![b] = r]
      /\ links' = [s \in Subjects |-> IF links[s] = u THEN Null ELSE links[s]]
      /\ UNCHANGED <<subscribed, tokens, live, jar, sealed, flow>>
  BY DEF Close, Goto
<1>4. users[u] \in Row
  BY <1>2 DEF AccountParts, AccountTyped, TablesTyped
<1>5. r \in Request /\ r.at = "revokeAll" /\ r.user = u
  BY <1>1 DEF Request, Locations
<1> HIDE DEF u, r
<1>6. row \in Row /\ row.email = Null /\ row.password = Lost /\ row.status = "deleted"
  BY <1>4 DEF Row
<1> HIDE DEF row
<1>7. row # Null /\ Lost # Null
  BY <1>6, AccountsAssumption
<1>8. /\ users' \in [Users -> Row \union {Null}] /\ users'[u] = row
      /\ \A v \in Users : v # u => users'[v] = users[v]
      /\ links' \in [Subjects -> Users \union {Null}]
      /\ \A s \in Subjects : links'[s] # Null => links'[s] = links[s]
  BY <1>2, <1>3, <1>6 DEF AccountParts, AccountTyped, TablesTyped
<1>9. \A v \in Users : users[v] # Null => users'[v] # Null
  BY <1>7, <1>8
<1>10. Grows
  <2>1. \A v \in Users : users[v] # Null =>
          /\ users'[v].email \in {users[v].email, Null}
          /\ users[v].password # Null => users'[v].password # Null
    BY <1>6, <1>7, <1>8
  <2> QED BY <1>3, <1>9, <2>1 DEF Grows
<1>11. TablesTyped'
  BY <1>3, <1>8 DEF AccountParts, AccountTyped, TablesTyped
<1>12. ClosedIsNameless'
  BY <1>6, <1>8 DEF AccountParts, ClosedIsNameless
<1>13. Referential'
  <2>1. \A s \in live' : users'[s.user] # Null /\ s.user \in subscribed'
    BY <1>3, <1>9 DEF AccountParts, AccountTyped, TablesTyped, Referential, Session
  <2>2. \A c \in Browsers : jar'[c] # Null => users'[jar'[c].user] # Null
    BY <1>3, <1>9 DEF AccountParts, AccountTyped, TablesTyped, Referential, Session
  <2>3. \A s \in Subjects : links'[s] # Null => users'[links'[s]] # Null
    BY <1>8, <1>9 DEF AccountParts, AccountTyped, TablesTyped, Referential
  <2>4. \A s \in Tokens : tokens'[s] # Null => users'[tokens'[s].user] # Null
    BY <1>3, <1>9 DEF AccountParts, AccountTyped, TablesTyped, Referential, Token
  <2>5. \A f \in Flows : flow'[f] # Null /\ flow'[f].link # Null => users'[flow'[f].link] # Null
    BY <1>3, <1>9 DEF AccountParts, AccountTyped, TablesTyped, Referential, Flow
  <2> QED BY <2>1, <2>2, <2>3, <2>4, <2>5 DEF Referential
<1>14. \A v \in Users : Outstanding(v)' \subseteq Outstanding(v)
  BY <1>3 DEF Outstanding
<1>15. req'[b] = r
  BY <1>3 DEF AccountParts, AccountTyped
<1>16. Fits(req[b], b)'
  BY <1>2, <1>5, <1>9, <1>15 DEF Fits
<1> QED BY <1>3, <1>5, <1>10, <1>11, <1>12, <1>13, <1>14, <1>16, Moved

-----------------------------------------------------------------------------
(* The flow with Google.                                                   *)

(* The tables after a write of the identities or of the flows.             *)
LEMMA LinksWritten ==
  ASSUME AccountParts, UNCHANGED <<users, subscribed, tokens, live, jar>>,
         links' \in [Subjects -> Users \union {Null}],
         \A s \in Subjects : links'[s] # Null => users[links'[s]] # Null,
         sealed' \in [Browsers -> Flows \union {Null}],
         flow' \in [Flows -> Flow \union {Null}],
         \A f \in Flows : flow[f] # Null => flow'[f] # Null /\ flow'[f].link = flow[f].link,
         \A f \in Flows : flow'[f] # Null /\ flow'[f].link # Null => users[flow'[f].link] # Null
  PROVE  /\ Grows /\ TablesTyped' /\ ClosedIsNameless' /\ Referential'
         /\ \A v \in Users : Outstanding(v)' \subseteq Outstanding(v)
         /\ \A c \in Browsers : jar'[c] = jar[c]
<1>1. Grows
  BY DEF Grows
<1>2. TablesTyped'
  BY DEF AccountParts, AccountTyped, TablesTyped
<1>3. ClosedIsNameless' /\ Referential'
  BY DEF AccountParts, ClosedIsNameless, Referential
<1> QED BY <1>1, <1>2, <1>3 DEF Outstanding

LEMMA StartGoogleKeeps ==
  ASSUME AccountParts, NEW b \in Browsers, NEW linking \in BOOLEAN, StartGoogle(b, linking)
  PROVE  AccountParts'
<1> DEFINE f == NewId(flow)
           link == IF linking THEN Caller(b) ELSE Null
           visit == [browser |-> b, stage |-> "consent", link |-> link]
<1>1. f \in Flows /\ flow[f] = Null
  <2>1. Unused(flow) # {} /\ DOMAIN flow = Flows
    BY DEF StartGoogle, AccountParts, AccountTyped, TablesTyped
  <2>2. f \in Unused(flow)
    BY <2>1 DEF NewId
  <2> QED BY <2>1, <2>2 DEF Unused
<1>2. link \in Users \union {Null} /\ (link # Null => users[link] # Null)
  BY CallerExists DEF StartGoogle
<1>3. /\ flow' = [flow EXCEPT ![f] = visit] /\ sealed' = [sealed EXCEPT ![b] = f]
      /\ UNCHANGED <<users, links, subscribed, tokens, live, jar, req>>
  BY DEF StartGoogle, accountVars
<1> HIDE DEF f, link
<1>4. visit \in Flow /\ visit.link = link
  BY <1>2 DEF Flow
<1> HIDE DEF visit
<1>5. /\ flow' \in [Flows -> Flow \union {Null}] /\ flow'[f] = visit
      /\ \A g \in Flows : g # f => flow'[g] = flow[g]
      /\ sealed' \in [Browsers -> Flows \union {Null}]
  BY <1>1, <1>3, <1>4 DEF AccountParts, AccountTyped, TablesTyped
<1>6. \A g \in Flows : flow[g] # Null => flow'[g] # Null /\ flow'[g].link = flow[g].link
  BY <1>1, <1>5
<1>7. \A g \in Flows : flow'[g] # Null /\ flow'[g].link # Null => users[flow'[g].link] # Null
  BY <1>2, <1>4, <1>5 DEF AccountParts, Referential
<1>8. /\ links' \in [Subjects -> Users \union {Null}]
      /\ \A s \in Subjects : links'[s] # Null => users[links'[s]] # Null
  BY <1>3 DEF AccountParts, AccountTyped, TablesTyped, Referential
<1> QED BY <1>3, <1>5, <1>6, <1>7, <1>8, LinksWritten, Unasked

(* A visit comes back, with an identity or without one.                    *)
LEMMA ComesBack ==
  ASSUME AccountParts, NEW b \in Browsers, NEW f \in Flows, flow[f] # Null,
         flow' = [flow EXCEPT ![f].stage = "back"], sealed' = [sealed EXCEPT ![b] = Null],
         UNCHANGED <<users, links, subscribed, tokens, live, jar>>
  PROVE  /\ Grows /\ TablesTyped' /\ ClosedIsNameless' /\ Referential'
         /\ \A v \in Users : Outstanding(v)' \subseteq Outstanding(v)
         /\ \A c \in Browsers : jar'[c] = jar[c]
         /\ flow'[f] # Null /\ flow'[f].link = flow[f].link
<1> DEFINE visit == [flow[f] EXCEPT !.stage = "back"]
<1>1. flow[f] \in Flow
  BY DEF AccountParts, AccountTyped, TablesTyped
<1>2. visit \in Flow /\ visit.link = flow[f].link
  BY <1>1 DEF Flow
<1>3. flow' = [flow EXCEPT ![f] = visit]
  OBVIOUS
<1> HIDE DEF visit
<1>4. /\ flow' \in [Flows -> Flow \union {Null}] /\ flow'[f] = visit /\ visit # Null
      /\ \A g \in Flows : g # f => flow'[g] = flow[g]
      /\ sealed' \in [Browsers -> Flows \union {Null}]
  BY <1>2, <1>3, SignInAssumption DEF AccountParts, AccountTyped, TablesTyped
<1>5. \A g \in Flows : flow[g] # Null => flow'[g] # Null /\ flow'[g].link = flow[g].link
  BY <1>2, <1>4
<1>6. \A g \in Flows : flow'[g] # Null /\ flow'[g].link # Null => users[flow'[g].link] # Null
  BY <1>2, <1>4 DEF AccountParts, Referential
<1>7. /\ links' \in [Subjects -> Users \union {Null}]
      /\ \A s \in Subjects : links'[s] # Null => users[links'[s]] # Null
  BY DEF AccountParts, AccountTyped, TablesTyped, Referential
<1> QED BY <1>4, <1>5, <1>6, <1>7, LinksWritten

LEMMA CallbackKeeps ==
  ASSUME AccountParts, NEW b \in Browsers, NEW f \in Flows, NEW s \in Subjects, Callback(b, f, s)
  PROVE  AccountParts'
<1> DEFINE byLink == [Idle EXCEPT !.at = "byLink", !.via = s, !.email = EmailOf[s]]
           byCaller == [Idle EXCEPT !.at = "linkFind", !.via = s, !.user = Caller(b)]
<1>1. /\ Grows /\ TablesTyped' /\ ClosedIsNameless' /\ Referential'
      /\ \A v \in Users : Outstanding(v)' \subseteq Outstanding(v)
      /\ \A c \in Browsers : jar'[c] = jar[c]
      /\ flow'[f] # Null /\ flow'[f].link = flow[f].link
  BY ComesBack DEF Callback
<1>2. UNCHANGED <<users, links, subscribed, tokens, live, jar>>
  BY DEF Callback
<1>3. CASE req' = req
  BY <1>1, <1>3, Unasked
<1>4. CASE req' = [req EXCEPT ![b] = byLink]
  <2>1. /\ byLink \in Request /\ byLink.at = "byLink" /\ byLink.via = s
        /\ byLink.email = EmailOf[s]
    BY IdleIsTyped, AccountsAssumption DEF Request, Locations, Proofs
  <2> HIDE DEF byLink
  <2>2. req'[b] = byLink
    BY <1>4 DEF AccountParts, AccountTyped
  <2>3. Fits(req[b], b)'
    BY <2>1, <2>2 DEF Fits, FromGoogle
  <2> QED BY <1>1, <1>4, <2>1, <2>3, Moved
<1>5. CASE /\ req' = [req EXCEPT ![b] = byCaller]
           /\ SignedIn(b) /\ Caller(b) = flow[f].link
  <2>1. Caller(b) \in Users /\ users[Caller(b)] # Null
    BY <1>5, CallerExists
  <2> DEFINE u == Caller(b)
  <2>2. u \in Users /\ users'[u] # Null /\ flow'[f].link = u
    BY <1>1, <1>2, <1>5, <2>1
  <2> HIDE DEF u
  <2>3. byCaller \in Request /\ byCaller.at = "linkFind" /\ byCaller.via = s /\ byCaller.user = u
    <3> DEFINE r == [Idle EXCEPT !.at = "linkFind", !.via = s, !.user = u]
    <3>1. r \in Request /\ r.at = "linkFind" /\ r.via = s /\ r.user = u
      BY <2>2, IdleIsTyped DEF Request, Locations, Proofs
    <3> QED BY <3>1 DEF u
  <2> HIDE DEF byCaller
  <2>4. req'[b] = byCaller
    BY <1>5 DEF AccountParts, AccountTyped
  <2>5. Fits(req[b], b)'
    BY <1>1, <2>2, <2>3, <2>4 DEF Fits
  <2> QED BY <1>1, <1>5, <2>3, <2>5, Moved
<1> QED BY <1>3, <1>4, <1>5 DEF Callback

LEMMA RefusalKeeps ==
  ASSUME AccountParts, NEW b \in Browsers, NEW f \in Flows, Refusal(b, f)
  PROVE  AccountParts'
BY ComesBack, Unasked DEF Refusal, accountVars

LEMMA ExpireSealedKeeps ==
  ASSUME AccountParts, NEW b \in Browsers, ExpireSealed(b)
  PROVE  AccountParts'
<1>1. /\ sealed' \in [Browsers -> Flows \union {Null}]
      /\ UNCHANGED <<users, links, subscribed, tokens, live, jar, req, flow>>
  BY DEF ExpireSealed, accountVars, AccountParts, AccountTyped, TablesTyped
<1>2. /\ links' \in [Subjects -> Users \union {Null}] /\ flow' \in [Flows -> Flow \union {Null}]
      /\ \A s \in Subjects : links'[s] # Null => users[links'[s]] # Null
      /\ \A g \in Flows : flow'[g] # Null /\ flow'[g].link # Null => users[flow'[g].link] # Null
  BY <1>1 DEF AccountParts, AccountTyped, TablesTyped, Referential
<1> QED BY <1>1, <1>2, LinksWritten, Unasked

(* A statement of the flow that writes the link of one identity.           *)
LEMMA LinkWritten ==
  ASSUME AccountParts, NEW s \in Subjects, NEW u \in Users \union {Null},
         links' = [links EXCEPT ![s] = u], u # Null => users[u] # Null,
         UNCHANGED <<users, subscribed, tokens, live, jar, sealed, flow>>
  PROVE  /\ Grows /\ TablesTyped' /\ ClosedIsNameless' /\ Referential'
         /\ \A v \in Users : Outstanding(v)' \subseteq Outstanding(v)
         /\ \A c \in Browsers : jar'[c] = jar[c]
<1>1. /\ links' \in [Subjects -> Users \union {Null}] /\ flow' \in [Flows -> Flow \union {Null}]
      /\ sealed' \in [Browsers -> Flows \union {Null}]
      /\ \A t \in Subjects : links'[t] # Null => users[links'[t]] # Null
      /\ \A g \in Flows : flow'[g] # Null /\ flow'[g].link # Null => users[flow'[g].link] # Null
  BY DEF AccountParts, AccountTyped, TablesTyped, Referential
<1> QED BY <1>1, LinksWritten

LEMMA DropKeeps ==
  ASSUME AccountParts, NEW b \in Browsers, Drop(b)
  PROVE  AccountParts'
<1>1. Fits(req[b], b) /\ req[b] \in Request /\ req[b].at = "drop"
  BY DEF Drop, AccountParts, AccountTyped
<1>2. FromGoogle(req[b])
  BY <1>1 DEF Fits
<1>3. CASE Done(b) /\ UNCHANGED links
  BY <1>3, Ends DEF Drop, tableVars
<1>4. CASE links' = [links EXCEPT ![req[b].via] = Null] /\ Goto(b, "byEmail")
  <2> DEFINE r == [req[b] EXCEPT !.at = "byEmail"]
             s == req[b].via
  <2>1. r \in Request /\ r.at = "byEmail" /\ r.via = req[b].via /\ r.email = req[b].email
    BY <1>1 DEF Request, Locations
  <2>2. /\ req' = [req EXCEPT ![b] = r] /\ links' = [links EXCEPT ![s] = Null] /\ s \in Subjects
        /\ UNCHANGED <<users, subscribed, tokens, live, jar, sealed, flow>>
    BY <1>2, <1>4 DEF Goto, Drop, FromGoogle
  <2> HIDE DEF r, s
  <2>3. req'[b] = r
    BY <2>2 DEF AccountParts, AccountTyped
  <2>4. Fits(req[b], b)'
    BY <1>2, <2>1, <2>3 DEF Fits, FromGoogle
  <2> QED BY <2>1, <2>2, <2>4, LinkWritten, Moved
<1> QED BY <1>3, <1>4 DEF Drop

LEMMA AttachKeeps ==
  ASSUME AccountParts, NEW b \in Browsers, Attach(b)
  PROVE  AccountParts'
<1>1. Fits(req[b], b) /\ req[b] \in Request /\ req[b].at = "attach"
  BY DEF Attach, AccountParts, AccountTyped
<1>2. FromGoogle(req[b]) /\ req[b].user \in Users /\ users[req[b].user] # Null
  BY <1>1 DEF Fits, Locations
<1>3. CASE Done(b) /\ UNCHANGED links
  BY <1>3, Ends DEF Attach, tableVars
<1>4. CASE links' = [links EXCEPT ![req[b].via] = req[b].user] /\ Goto(b, "subscribe")
  <2> DEFINE r == [req[b] EXCEPT !.at = "subscribe"]
             s == req[b].via
             u == req[b].user
  <2>1. r \in Request /\ r.at = "subscribe" /\ r.via = s /\ r.user = u
    BY <1>1 DEF Request, Locations
  <2>2. /\ req' = [req EXCEPT ![b] = r] /\ links' = [links EXCEPT ![s] = u] /\ s \in Subjects
        /\ u \in Users /\ users[u] # Null
        /\ UNCHANGED <<users, subscribed, tokens, live, jar, sealed, flow>>
    BY <1>2, <1>4 DEF Goto, Attach, FromGoogle
  <2> HIDE DEF r, s, u
  <2>3. req'[b] = r
    BY <2>2 DEF AccountParts, AccountTyped
  <2>4. Fits(req[b], b)'
    BY <2>1, <2>2, <2>3 DEF Fits, Proofs
  <2> QED BY <2>1, <2>2, <2>4, LinkWritten, Moved
<1> QED BY <1>3, <1>4 DEF Attach

LEMMA LinkEndsKeep ==
  ASSUME AccountParts, NEW b \in Browsers, LinkAttach(b) \/ RemoveLink(b)
  PROVE  AccountParts'
<1>1. Fits(req[b], b) /\ req[b] \in Request /\ req[b].at \in {"linkAttach", "unlink"}
  BY DEF LinkAttach, RemoveLink, AccountParts, AccountTyped
<1>2. req[b].via \in Subjects /\ req[b].user \in Users /\ users[req[b].user] # Null
  BY <1>1 DEF Fits, Locations
<1>3. PICK u \in Users \union {Null} :
        links' = [links EXCEPT ![req[b].via] = u] /\ (u # Null => users[u] # Null)
  <2>1. links[req[b].via] \in Users \union {Null}
    BY <1>2 DEF AccountParts, AccountTyped, TablesTyped
  <2>2. links[req[b].via] # Null => users[links[req[b].via]] # Null
    BY <1>2 DEF AccountParts, Referential
  <2>3. links = [links EXCEPT ![req[b].via] = links[req[b].via]]
    BY <1>2 DEF AccountParts, AccountTyped, TablesTyped
  <2> QED BY <1>2, <2>1, <2>2, <2>3 DEF LinkAttach, RemoveLink
<1>4. req' = [req EXCEPT ![b] = Idle] /\ UNCHANGED <<users, subscribed, tokens, live, jar, sealed, flow>>
  BY DEF LinkAttach, RemoveLink, Done
<1>5. req'[b] = Idle
  BY <1>4 DEF AccountParts, AccountTyped
<1>6. Fits(req[b], b)'
  BY <1>5, IdleIsTyped DEF Fits
<1> DEFINE s == req[b].via
<1>7. s \in Subjects /\ links' = [links EXCEPT ![s] = u]
  BY <1>2, <1>3
<1> HIDE DEF s
<1> QED BY <1>3, <1>4, <1>6, <1>7, IdleIsTyped, LinkWritten, Moved
-----------------------------------------------------------------------------
LEMMA AccountStep ==
  ASSUME AccountParts, (AccountsNext /\ UNCHANGED <<sealed, flow>>) \/ SignInNext
  PROVE  AccountParts'
<1>1. CASE AccountsNext /\ UNCHANGED <<sealed, flow>>
  BY <1>1, RegisterKeeps, LoginKeeps, ChangePasswordKeeps, RequestResetKeeps, ResetPasswordKeeps,
     DeleteAccountKeeps, AdminActKeeps, LogoutKeeps, CreateUserKeeps, SubscribeKeeps,
     OpenSessionKeeps, SetPasswordKeeps, RevocationsKeep, BurnKeeps, MintKeeps, ResetKeeps,
     CloseKeeps, CountAdminsKeeps, ApplyKeeps, DieKeeps, PromoteKeeps, ExpireTokenKeeps,
     ExpireSessionKeeps DEF AccountsNext
<1>2. CASE SignInNext
  BY <1>2, StartGoogleKeeps, CallbackKeeps, RefusalKeeps, ExpireSealedKeeps, FindByLinkKeeps,
     LinkReadsKeep, DropKeeps, FindByEmailKeeps, AttachKeeps, LinkEndsKeep, UnlinkKeeps
     DEF SignInNext
<1> QED BY <1>1, <1>2

-----------------------------------------------------------------------------
(* Keys and their page.                                                    *)

LEMMA KeysAreCountable ==
  ASSUME KeyTyped, NEW u
  PROVE  /\ IsFiniteSet(ActiveKeys(u)) /\ Cardinality(ActiveKeys(u)) \in Nat
         /\ IsFiniteSet(Pending(u)) /\ Cardinality(Pending(u)) \in Nat
         /\ IsFiniteSet(Together(u)) /\ Cardinality(Together(u)) \in Nat
         /\ MaxApiKeys \in Nat
<1>1. ActiveKeys(u) \subseteq Keys /\ Pending(u) \subseteq Submits /\ Together(u) \subseteq Submits
  BY DEF ActiveKeys, KeysOf, Pending, Together
<1>2. IsFiniteSet(ActiveKeys(u)) /\ IsFiniteSet(Pending(u)) /\ IsFiniteSet(Together(u))
  BY <1>1, FS_Subset, AccountsAssumption, KeyManagerAssumption
<1> QED BY <1>2, FS_CardinalityType, KeyManagerAssumption

(* The counts after a step that counts nothing and creates nothing.        *)
LEMMA FewerKeys ==
  ASSUME KeyTyped, KeyTyped', KeysCounted,
         \A u \in Users : /\ ActiveKeys(u)' \subseteq ActiveKeys(u)
                          /\ Pending(u)' \subseteq Pending(u)
                          /\ Together(u) \subseteq Together(u)'
  PROVE  KeysCounted'
<1> SUFFICES ASSUME NEW u \in Users
             PROVE  Cardinality(ActiveKeys(u)') + Cardinality(Pending(u)')
                      <= MaxApiKeys + Cardinality(Together(u)')
  BY DEF KeysCounted
<1>1. /\ IsFiniteSet(ActiveKeys(u)) /\ Cardinality(ActiveKeys(u)) \in Nat
      /\ IsFiniteSet(Pending(u)) /\ Cardinality(Pending(u)) \in Nat
      /\ Cardinality(Together(u)) \in Nat /\ MaxApiKeys \in Nat
  BY KeysAreCountable
<1>2. /\ Cardinality(ActiveKeys(u)') \in Nat /\ Cardinality(Pending(u)') \in Nat
      /\ IsFiniteSet(Together(u)') /\ Cardinality(Together(u)') \in Nat
  <2>1. Together(u)' \subseteq Submits
    BY DEF Together
  <2>2. IsFiniteSet(ActiveKeys(u)') /\ IsFiniteSet(Pending(u)') /\ IsFiniteSet(Together(u)')
    BY <1>1, <2>1, FS_Subset, KeyManagerAssumption
  <2> QED BY <2>2, FS_CardinalityType
<1>3. Cardinality(ActiveKeys(u)') <= Cardinality(ActiveKeys(u))
  BY <1>1, FS_Subset
<1>4. Cardinality(Pending(u)') <= Cardinality(Pending(u))
  BY <1>1, FS_Subset
<1>5. Cardinality(Together(u)) <= Cardinality(Together(u)')
  BY <1>2, FS_Subset
<1>6. Cardinality(ActiveKeys(u)) + Cardinality(Pending(u)) <= MaxApiKeys + Cardinality(Together(u))
  BY DEF KeysCounted
<1> QED BY <1>1, <1>2, <1>3, <1>4, <1>5, <1>6

(* A request of a page is sent or moves on.                                *)
LEMMA SentWritten ==
  ASSUME KeyTyped, NEW n \in Submits, NEW x \in Sent, sent' = [sent EXCEPT ![n] = x],
         page' \in [Browsers -> Page], keys' \in [Keys -> Key \union {Null}],
         \A k \in Keys : keys[k] # Null => keys'[k] # Null,
         x.at \in {"find", "revoke"} => x.key \in Keys,
         x.at = "revoke" => keys'[x.key] # Null,
         x.at = "count" => ~x.together
  PROVE  /\ KeyTyped' /\ sent'[n] = x /\ x # Null
         /\ \A m \in Submits : m # n => sent'[m] = sent[m]
<1>1. x # Null
  BY KeyManagerAssumption
<1>2. /\ sent' \in [Submits -> Sent \union {Null}] /\ sent'[n] = x
      /\ \A m \in Submits : m # n => sent'[m] = sent[m]
  BY DEF KeyTyped
<1>3. \A m \in Submits : m # n /\ sent[m] # Null =>
        /\ sent[m].at \in {"find", "revoke"} => sent[m].key \in Keys
        /\ sent[m].at = "revoke" => keys'[sent[m].key] # Null
        /\ sent[m].at = "count" => ~sent[m].together
  BY DEF KeyTyped
<1> QED BY <1>1, <1>2, <1>3 DEF KeyTyped

(* It moves to a location where it neither counts nor creates.             *)
LEMMA KeyRequestMoves ==
  ASSUME KeyParts, NEW n \in Submits, NEW x \in Sent, sent' = [sent EXCEPT ![n] = x],
         UNCHANGED page, keys' \in [Keys -> Key \union {Null}],
         \A k \in Keys : keys[k] # Null => keys'[k] # Null,
         \A u \in Users : ActiveKeys(u)' \subseteq ActiveKeys(u),
         sent[n] # Null, sent[n].at # "over", x.browser = sent[n].browser, x.user = sent[n].user,
         x.together = sent[n].together,
         x.at \in {"find", "revoke"} => x.key \in Keys,
         x.at = "revoke" => keys'[x.key] # Null,
         x.at \notin {"count", "create"}
  PROVE  KeyParts'
<1>1. page' \in [Browsers -> Page]
  BY DEF KeyParts, KeyTyped
<1>2. /\ KeyTyped' /\ sent'[n] = x /\ x # Null
      /\ \A m \in Submits : m # n => sent'[m] = sent[m]
  BY <1>1, SentWritten DEF KeyParts
<1>3. \A b \in Browsers : Waiting(b)' \subseteq Waiting(b)
  BY <1>2 DEF Waiting
<1>4. \A b \in Browsers : Calm(b)'
  BY <1>3 DEF KeyParts, Calm
<1>5. \A u \in Users : Pending(u)' \subseteq Pending(u) /\ Together(u) \subseteq Together(u)'
  BY <1>2 DEF Pending, Together
<1> QED BY <1>2, <1>4, <1>5, FewerKeys DEF KeyParts

LEMMA KeyPageOnly ==
  ASSUME KeyParts, NEW b \in Browsers, NEW p \in Page, page' = [page EXCEPT ![b] = p],
         UNCHANGED <<sent, keys>>,
         p.revealed # Null => ~p.createOpen,
         p.hasty = page[b].hasty, p.busy = page[b].busy, p.revealed \in {Null, page[b].revealed}
  PROVE  KeyParts'
<1>1. /\ page' \in [Browsers -> Page] /\ page'[b] = p
      /\ \A c \in Browsers : c # b => page'[c] = page[c]
  BY DEF KeyParts, KeyTyped
<1>2. KeyTyped'
  BY <1>1 DEF KeyParts, KeyTyped
<1>3. ASSUME NEW c \in Browsers
      PROVE  Calm(c)'
  <2>1. Waiting(c)' = Waiting(c) /\ Calm(c)
    BY DEF Waiting, KeyParts
  <2>2. CASE c # b
    BY <1>1, <2>1, <2>2 DEF Calm
  <2>3. CASE c = b
    BY <1>1, <2>1, <2>3 DEF Calm
  <2> QED BY <2>2, <2>3
<1>4. KeysCounted'
  BY DEF KeyParts, KeysCounted, ActiveKeys, KeysOf, Pending, Together
<1> QED BY <1>2, <1>3, <1>4 DEF KeyParts

LEMMA OpenCreateKeeps ==
  ASSUME KeyParts, NEW b \in Browsers, OpenCreate(b)
  PROVE  KeyParts'
<1> DEFINE p == [page[b] EXCEPT !.createOpen = TRUE]
<1>1. page[b] \in Page /\ page[b].revealed = Null
  BY DEF OpenCreate, KeyParts, KeyTyped
<1>2. /\ p \in Page /\ p.revealed = page[b].revealed /\ p.hasty = page[b].hasty
      /\ p.busy = page[b].busy
  BY <1>1 DEF Page
<1>3. page' = [page EXCEPT ![b] = p] /\ UNCHANGED <<sent, keys>>
  BY DEF OpenCreate, signInVars
<1> HIDE DEF p
<1> QED BY <1>1, <1>2, <1>3, KeyPageOnly

LEMMA SavedKeeps ==
  ASSUME KeyParts, NEW b \in Browsers, Saved(b)
  PROVE  KeyParts'
<1> DEFINE p == [page[b] EXCEPT !.revealed = Null]
<1>1. page[b] \in Page
  BY DEF KeyParts, KeyTyped
<1>2. /\ p \in Page /\ p.revealed = Null /\ p.hasty = page[b].hasty /\ p.busy = page[b].busy
  BY <1>1 DEF Page
<1>3. page' = [page EXCEPT ![b] = p] /\ UNCHANGED <<sent, keys>>
  BY DEF Saved, signInVars
<1> HIDE DEF p
<1> QED BY <1>1, <1>2, <1>3, KeyPageOnly

LEMMA DismissKeeps ==
  ASSUME KeyParts, NEW b \in Browsers, Dismiss(b)
  PROVE  KeyParts'
<1> DEFINE p == [page[b] EXCEPT !.createOpen = FALSE]
<1>1. page[b] \in Page
  BY DEF KeyParts, KeyTyped
<1>2. /\ p \in Page /\ p.revealed = page[b].revealed /\ ~p.createOpen
      /\ p.hasty = page[b].hasty /\ p.busy = page[b].busy
  BY <1>1 DEF Page
<1>3. page' = [page EXCEPT ![b] = p] /\ UNCHANGED <<sent, keys>>
  BY DEF Dismiss, signInVars
<1> HIDE DEF p
<1> QED BY <1>1, <1>2, <1>3, KeyPageOnly

(* A page sends a request.                                                 *)
LEMMA SendKeeps ==
  ASSUME AccountParts, KeyParts, NEW b \in Browsers, NEW what \in {"create", "edit"},
         NEW at \in {"count", "find", "list"}, NEW k \in Keys \union {Null},
         Send(b, what, at, k), at = "find" => k \in Keys, UNCHANGED keys,
         NEW p \in Page, page' = [page EXCEPT ![b] = p],
         page[b].revealed = Null, p.revealed = Null, p.busy,
         ~p.hasty => ~page[b].hasty /\ ~page[b].busy
  PROVE  KeyParts'
<1> DEFINE n == NewId(sent)
           x == [browser |-> b, user |-> Caller(b), kind |-> what, at |-> at,
                 together |-> FALSE, key |-> k, rows |-> {}]
<1>1. n \in Submits /\ sent[n] = Null
  <2>1. Unused(sent) # {} /\ DOMAIN sent = Submits
    BY DEF Send, KeyParts, KeyTyped
  <2>2. n \in Unused(sent)
    BY <2>1 DEF NewId
  <2> QED BY <2>1, <2>2 DEF Unused
<1>2. Caller(b) \in Users
  BY CallerExists DEF Send
<1>3. x \in Sent /\ x.browser = b /\ x.at = at /\ x.key = k /\ x.together = FALSE
  BY <1>2 DEF Sent
<1>4. sent' = [sent EXCEPT ![n] = x]
  BY DEF Send
<1> HIDE DEF n, x
<1>5. /\ page' \in [Browsers -> Page] /\ page'[b] = p
      /\ \A c \in Browsers : c # b => page'[c] = page[c]
  BY DEF KeyParts, KeyTyped
<1>6. keys' \in [Keys -> Key \union {Null}] /\ \A j \in Keys : keys[j] # Null => keys'[j] # Null
  BY DEF KeyParts, KeyTyped
<1>7. /\ KeyTyped' /\ sent'[n] = x /\ x # Null
      /\ \A m \in Submits : m # n => sent'[m] = sent[m]
  BY <1>1, <1>3, <1>4, <1>5, <1>6, SentWritten DEF KeyParts
<1>8. ASSUME NEW c \in Browsers
      PROVE  Calm(c)'
  <2>1. Calm(c)
    BY DEF KeyParts
  <2>2. CASE c # b
    <3>1. Waiting(c)' = Waiting(c)
      BY <1>1, <1>3, <1>7, <2>2 DEF Waiting
    <3> QED BY <1>5, <2>1, <2>2, <3>1 DEF Calm
  <2>3. CASE c = b
    <3>1. Waiting(c)' = Waiting(c) \union {n}
      BY <1>1, <1>3, <1>7, <2>3 DEF Waiting
    <3>2. ~p.hasty => Waiting(c) = {}
      BY <2>1, <2>3 DEF Calm
    <3> QED BY <1>5, <2>3, <3>1, <3>2 DEF Calm
  <2> QED BY <2>2, <2>3
<1>9. \A u \in Users : /\ ActiveKeys(u)' = ActiveKeys(u) /\ Pending(u)' \subseteq Pending(u)
                       /\ Together(u) \subseteq Together(u)'
  BY <1>1, <1>3, <1>7 DEF ActiveKeys, KeysOf, Pending, Together
<1> QED BY <1>7, <1>8, <1>9, FewerKeys DEF KeyParts

LEMMA SubmitCreateKeeps ==
  ASSUME AccountParts, KeyParts, NEW b \in Browsers, SubmitCreate(b)
  PROVE  KeyParts'
<1> DEFINE p == [page[b] EXCEPT !.busy = TRUE, !.hasty = page[b].hasty \/ page[b].busy]
<1>1. page[b] \in Page /\ page[b].createOpen
  BY DEF SubmitCreate, KeyParts, KeyTyped
<1>2. page[b].revealed = Null
  BY <1>1 DEF KeyParts, Calm
<1>3. /\ p \in Page /\ p.revealed = page[b].revealed /\ p.busy
      /\ p.hasty = (page[b].hasty \/ page[b].busy)
  BY <1>1 DEF Page
<1>4. page' = [page EXCEPT ![b] = p] /\ UNCHANGED keys /\ Send(b, "create", "count", Null)
  BY DEF SubmitCreate, signInVars
<1> HIDE DEF p
<1> QED BY <1>2, <1>3, <1>4, SendKeeps

LEMMA SubmitRenameKeeps ==
  ASSUME AccountParts, KeyParts, NEW b \in Browsers, SubmitRename(b)
  PROVE  KeyParts'
<1> DEFINE p == [page[b] EXCEPT !.busy = TRUE, !.hasty = page[b].hasty \/ page[b].busy]
<1>1. page[b] \in Page /\ page[b].revealed = Null
  BY DEF SubmitRename, TableAtHand, KeyParts, KeyTyped
<1>2. /\ p \in Page /\ p.revealed = page[b].revealed /\ p.busy
      /\ p.hasty = (page[b].hasty \/ page[b].busy)
  BY <1>1 DEF Page
<1>3. page' = [page EXCEPT ![b] = p] /\ UNCHANGED keys /\ Send(b, "edit", "list", Null)
  BY DEF SubmitRename, signInVars
<1> HIDE DEF p
<1> QED BY <1>1, <1>2, <1>3, SendKeeps

LEMMA SubmitRevokeKeeps ==
  ASSUME AccountParts, KeyParts, NEW b \in Browsers, NEW row \in page[b].rows,
         SubmitRevoke(b, row)
  PROVE  KeyParts'
<1> DEFINE p == [page[b] EXCEPT !.busy = TRUE]
<1>1. page[b] \in Page /\ page[b].revealed = Null /\ ~page[b].busy
  BY DEF SubmitRevoke, TableAtHand, KeyParts, KeyTyped
<1>2. p \in Page /\ p.revealed = page[b].revealed /\ p.busy /\ p.hasty = page[b].hasty
  BY <1>1 DEF Page
<1>3. page' = [page EXCEPT ![b] = p] /\ UNCHANGED keys /\ Send(b, "edit", "find", row.key)
  BY DEF SubmitRevoke, signInVars
<1>4. row.key \in Keys
  BY <1>1 DEF Page
<1> HIDE DEF p
<1> QED BY <1>1, <1>2, <1>3, <1>4, SendKeeps

LEMMA AnswerArrivesKeeps ==
  ASSUME KeyParts, NEW n \in Submits, AnswerArrives(n)
  PROVE  KeyParts'
<1> DEFINE b == sent[n].browser
           created == sent[n].at = "answer" /\ sent[n].kind = "create"
           rows == IF sent[n].at = "answer" THEN sent[n].rows ELSE page[b].rows
           revealed == IF created THEN sent[n].key ELSE page[b].revealed
           p == [page[b] EXCEPT !.busy = FALSE, !.rows = rows,
                   !.createOpen = page[b].createOpen /\ ~created, !.revealed = revealed]
           x == [sent[n] EXCEPT !.at = "over", !.key = Null, !.rows = {}]
<1>1. sent[n] # Null /\ sent[n] \in Sent /\ sent[n].at \in {"answer", "refused"}
  BY DEF AnswerArrives, KeyParts, KeyTyped
<1>2. b \in Browsers /\ page[b] \in Page
  BY <1>1 DEF Sent, KeyParts, KeyTyped
<1>3. /\ x \in Sent /\ x.at = "over" /\ x.browser = b /\ x.user = sent[n].user
      /\ x.together = sent[n].together
  BY <1>1 DEF Sent
<1>4. page' = [page EXCEPT ![b] = p] /\ sent' = [sent EXCEPT ![n] = x] /\ UNCHANGED keys
  BY DEF AnswerArrives, signInVars
<1>5. /\ rows \in SUBSET [key : Keys, status : {"active", "revoked"}]
      /\ revealed \in Keys \union {Null}
  BY <1>1, <1>2 DEF Sent, Page
<1>6. created \in BOOLEAN /\ (~created => revealed = page[b].revealed)
  OBVIOUS
<1> HIDE DEF rows, revealed, created, x
<1>7. /\ p \in Page /\ p.hasty = page[b].hasty /\ p.revealed = revealed
      /\ p.createOpen = (page[b].createOpen /\ ~created)
  BY <1>2, <1>5, <1>6 DEF Page
<1> HIDE DEF p
<1>8. /\ page' \in [Browsers -> Page] /\ page'[b] = p
      /\ \A c \in Browsers : c # b => page'[c] = page[c]
  BY <1>2, <1>4, <1>7 DEF KeyParts, KeyTyped
<1>9. keys' \in [Keys -> Key \union {Null}] /\ \A j \in Keys : keys[j] # Null => keys'[j] # Null
  BY <1>4 DEF KeyParts, KeyTyped
<1>10. /\ KeyTyped' /\ sent'[n] = x /\ x # Null
       /\ \A m \in Submits : m # n => sent'[m] = sent[m]
  BY <1>3, <1>4, <1>8, <1>9, SentWritten DEF KeyParts
<1>11. ASSUME NEW c \in Browsers
       PROVE  Calm(c)'
  <2>1. Calm(c)
    BY DEF KeyParts
  <2>2. Waiting(c)' = Waiting(c) \ {n}
    BY <1>3, <1>10 DEF Waiting
  <2>3. CASE c # b
    BY <1>8, <2>1, <2>2, <2>3 DEF Calm
  <2>4. CASE c = b
    <3>1. n \in Waiting(c)
      BY <1>1, <2>4 DEF Waiting
    <3>2. ~p.hasty => Waiting(c)' = {}
      BY <1>7, <2>1, <2>2, <2>4, <3>1 DEF Calm
    <3>3. p.revealed # Null => ~p.createOpen
      BY <1>6, <1>7, <2>1, <2>4 DEF Calm
    <3> QED BY <1>8, <2>4, <3>2, <3>3 DEF Calm
  <2> QED BY <2>3, <2>4
<1>12. \A u \in Users : /\ ActiveKeys(u)' = ActiveKeys(u) /\ Pending(u)' \subseteq Pending(u)
                        /\ Together(u) \subseteq Together(u)'
  BY <1>1, <1>3, <1>4, <1>10 DEF ActiveKeys, KeysOf, Pending, Together
<1> QED BY <1>10, <1>11, <1>12, FewerKeys DEF KeyParts

(* Requests that move on and leave the counts alone.                       *)
LEMMA KeyReadsKeep ==
  ASSUME KeyParts, NEW n \in Submits, FindKey(n) \/ ListKeys(n) \/ LoseAnswer(n)
  PROVE  KeyParts'
<1>1. /\ sent[n] # Null /\ sent[n] \in Sent /\ sent[n].at # "over"
      /\ UNCHANGED <<page, keys>>
  BY DEF FindKey, ListKeys, LoseAnswer, KeyParts, KeyTyped, signInVars
<1>2. /\ keys' \in [Keys -> Key \union {Null}] /\ \A j \in Keys : keys[j] # Null => keys'[j] # Null
      /\ \A u \in Users : ActiveKeys(u)' = ActiveKeys(u)
  BY <1>1 DEF KeyParts, KeyTyped, ActiveKeys, KeysOf
<1>3. CASE FindKey(n)
  <2> DEFINE at == IF sent[n].key \in ActiveKeys(sent[n].user) THEN "revoke" ELSE "refused"
             x == [sent[n] EXCEPT !.at = at]
  <2>1. at \in {"revoke", "refused"}
    OBVIOUS
  <2>2. sent' = [sent EXCEPT ![n] = x]
    BY <1>3 DEF FindKey, Move
  <2>3. at = "revoke" => sent[n].key \in Keys /\ keys'[sent[n].key] # Null
    BY <1>1 DEF ActiveKeys, KeysOf
  <2> HIDE DEF at
  <2>4. /\ x \in Sent /\ x.at = at /\ x.browser = sent[n].browser /\ x.user = sent[n].user
        /\ x.together = sent[n].together /\ x.key = sent[n].key
    BY <1>1, <2>1 DEF Sent
  <2> HIDE DEF x
  <2> QED BY <1>1, <1>2, <2>1, <2>2, <2>3, <2>4, KeyRequestMoves
<1>4. CASE ListKeys(n)
  <2> DEFINE rows == Listed(sent[n].user)
             x == [sent[n] EXCEPT !.at = "answer", !.rows = rows]
  <2>1. rows \in SUBSET [key : Keys, status : {"active", "revoked"}]
    BY DEF Listed, KeysOf, KeyParts, KeyTyped, Key
  <2>2. sent' = [sent EXCEPT ![n] = x]
    BY <1>4 DEF ListKeys
  <2> HIDE DEF rows
  <2>3. /\ x \in Sent /\ x.at = "answer" /\ x.browser = sent[n].browser /\ x.user = sent[n].user
        /\ x.together = sent[n].together
    BY <1>1, <2>1 DEF Sent
  <2> HIDE DEF x
  <2> QED BY <1>1, <1>2, <2>2, <2>3, KeyRequestMoves
<1>5. CASE LoseAnswer(n)
  <2> DEFINE x == [sent[n] EXCEPT !.at = "refused", !.key = Null, !.rows = {}]
  <2>1. sent' = [sent EXCEPT ![n] = x]
    BY <1>5 DEF LoseAnswer
  <2>2. /\ x \in Sent /\ x.at = "refused" /\ x.browser = sent[n].browser /\ x.user = sent[n].user
        /\ x.together = sent[n].together
    BY <1>1 DEF Sent
  <2> HIDE DEF x
  <2> QED BY <1>1, <1>2, <2>1, <2>2, KeyRequestMoves
<1> QED BY <1>3, <1>4, <1>5

LEMMA RevokeKeyKeeps ==
  ASSUME KeyParts, NEW n \in Submits, RevokeKey(n)
  PROVE  KeyParts'
<1> DEFINE k == sent[n].key
           row == [keys[k] EXCEPT !.status = "revoked"]
           x == [sent[n] EXCEPT !.at = "list", !.key = Null]
<1>1. sent[n] # Null /\ sent[n] \in Sent /\ sent[n].at = "revoke"
  BY DEF RevokeKey, KeyParts, KeyTyped
<1>2. k \in Keys /\ keys[k] # Null /\ keys[k] \in Key
  BY <1>1 DEF KeyParts, KeyTyped
<1>3. /\ x \in Sent /\ x.at = "list" /\ x.browser = sent[n].browser /\ x.user = sent[n].user
      /\ x.together = sent[n].together
  BY <1>1 DEF Sent
<1>4. keys' = [keys EXCEPT ![k] = row] /\ sent' = [sent EXCEPT ![n] = x] /\ UNCHANGED page
  BY DEF RevokeKey
<1>5. row \in Key /\ row.user = keys[k].user /\ row.status = "revoked"
  BY <1>2 DEF Key
<1> HIDE DEF k, row, x
<1>6. row # Null
  BY <1>5, AccountsAssumption
<1>7. /\ keys' \in [Keys -> Key \union {Null}] /\ keys'[k] = row
      /\ \A j \in Keys : j # k => keys'[j] = keys[j]
  BY <1>2, <1>4, <1>5 DEF KeyParts, KeyTyped
<1>8. \A j \in Keys : keys[j] # Null => keys'[j] # Null
  BY <1>6, <1>7
<1>9. \A u \in Users : ActiveKeys(u)' \subseteq ActiveKeys(u)
  BY <1>5, <1>7 DEF ActiveKeys, KeysOf
<1> QED BY <1>1, <1>3, <1>4, <1>7, <1>8, <1>9, KeyRequestMoves

(* A create counts the keys, and takes its place if there is one.          *)
LEMMA CountKeysKeeps ==
  ASSUME KeyParts, NEW n \in Submits, CountKeys(n)
  PROVE  KeyParts'
<1> DEFINE u == sent[n].user
           refused == [sent[n] EXCEPT !.at = "refused"]
           beside == Pending(u) # {}
           counted == [sent[n] EXCEPT !.at = "create", !.together = beside]
<1>1. /\ sent[n] # Null /\ sent[n] \in Sent /\ sent[n].at = "count" /\ ~sent[n].together
      /\ UNCHANGED <<page, keys>>
  BY DEF CountKeys, KeyParts, KeyTyped
<1>2. /\ keys' \in [Keys -> Key \union {Null}] /\ \A j \in Keys : keys[j] # Null => keys'[j] # Null
      /\ \A v \in Users : ActiveKeys(v)' = ActiveKeys(v)
      /\ page' \in [Browsers -> Page]
  BY <1>1 DEF KeyParts, KeyTyped, ActiveKeys, KeysOf
<1>3. CASE AtCap(u)
  <2>1. sent' = [sent EXCEPT ![n] = refused]
    BY <1>3 DEF CountKeys, Move
  <2>2. /\ refused \in Sent /\ refused.at = "refused" /\ refused.browser = sent[n].browser
        /\ refused.user = sent[n].user /\ refused.together = sent[n].together
    BY <1>1 DEF Sent
  <2> HIDE DEF refused
  <2> QED BY <1>1, <1>2, <2>1, <2>2, KeyRequestMoves
<1>4. CASE ~AtCap(u)
  <2>1. sent' = [sent EXCEPT ![n] = counted]
    BY <1>4 DEF CountKeys
  <2>2. u \in Users /\ beside \in BOOLEAN
    BY <1>1 DEF Sent
  <2> HIDE DEF beside, u
  <2>3. /\ counted \in Sent /\ counted.at = "create" /\ counted.browser = sent[n].browser
        /\ counted.user = sent[n].user /\ counted.together = beside
    BY <1>1, <2>2 DEF Sent
  <2> HIDE DEF counted
  <2>4. /\ KeyTyped' /\ sent'[n] = counted /\ counted # Null
        /\ \A m \in Submits : m # n => sent'[m] = sent[m]
    BY <1>1, <1>2, <2>1, <2>3, SentWritten DEF KeyParts
  <2>5. \A b \in Browsers : Waiting(b)' = Waiting(b)
    BY <1>1, <2>3, <2>4 DEF Waiting
  <2>6. \A b \in Browsers : Calm(b)'
    BY <1>1, <2>5 DEF KeyParts, Calm
  <2>7. KeysCounted'
    <3> SUFFICES ASSUME NEW v \in Users
                 PROVE  Cardinality(ActiveKeys(v)') + Cardinality(Pending(v)')
                          <= MaxApiKeys + Cardinality(Together(v)')
      BY DEF KeysCounted
    <3>0. /\ Cardinality(ActiveKeys(v)) \in Nat
          /\ IsFiniteSet(Pending(v)) /\ Cardinality(Pending(v)) \in Nat
          /\ IsFiniteSet(Together(v)) /\ Cardinality(Together(v)) \in Nat /\ MaxApiKeys \in Nat
          /\ Cardinality(ActiveKeys(v)) + Cardinality(Pending(v))
               <= MaxApiKeys + Cardinality(Together(v))
          /\ Cardinality(ActiveKeys(v)') = Cardinality(ActiveKeys(v))
      BY <1>2, KeysAreCountable DEF KeyParts, KeysCounted
    <3>1. CASE v # u
      <4>1. Pending(v)' = Pending(v) /\ Together(v)' = Together(v)
        BY <1>1, <2>3, <2>4, <3>1 DEF Pending, Together, u
      <4> QED BY <3>0, <4>1
    <3>2. CASE v = u
      <4>1. Pending(v)' = Pending(v) \union {n} /\ n \notin Pending(v)
        BY <1>1, <2>3, <2>4, <3>2 DEF Pending, u
      <4>2. Cardinality(Pending(v)') = Cardinality(Pending(v)) + 1
        BY <3>0, <4>1, FS_AddElement
      <4>3. CASE beside
        <5>1. Together(v)' = Together(v) \union {n} /\ n \notin Together(v)
          BY <1>1, <2>3, <2>4, <3>2, <4>3 DEF Together, u
        <5>2. Cardinality(Together(v)') = Cardinality(Together(v)) + 1
          BY <3>0, <5>1, FS_AddElement
        <5> QED BY <3>0, <4>2, <5>2
      <4>4. CASE ~beside
        <5>1. Pending(v) = {}
          BY <3>2, <4>4 DEF beside
        <5>2. Together(v)' = Together(v)
          BY <1>1, <2>3, <2>4, <4>4 DEF Together
        <5>3. Cardinality(Pending(v)) = 0
          BY <5>1, FS_EmptySet
        <5>4. Cardinality(ActiveKeys(v)) < MaxApiKeys
          BY <1>4, <3>0, <3>2 DEF AtCap
        <5> QED BY <3>0, <4>2, <5>2, <5>3, <5>4
      <4> QED BY <4>3, <4>4
    <3> QED BY <3>1, <3>2
  <2> QED BY <2>4, <2>6, <2>7 DEF KeyParts
<1> QED BY <1>3, <1>4

(* The row takes the place its create has counted.                         *)
LEMMA CreateKeyKeeps ==
  ASSUME KeyParts, NEW n \in Submits, CreateKey(n)
  PROVE  KeyParts'
<1> DEFINE u == sent[n].user
           k == NewId(keys)
           row == [user |-> u, status |-> "active"]
           x == [sent[n] EXCEPT !.at = "list", !.key = k]
<1>1. sent[n] # Null /\ sent[n] \in Sent /\ sent[n].at = "create"
  BY DEF CreateKey, KeyParts, KeyTyped
<1>2. k \in Keys /\ keys[k] = Null
  <2>1. Unused(keys) # {} /\ DOMAIN keys = Keys
    BY DEF CreateKey, KeyParts, KeyTyped
  <2>2. k \in Unused(keys)
    BY <2>1 DEF NewId
  <2> QED BY <2>1, <2>2 DEF Unused
<1>3. keys' = [keys EXCEPT ![k] = row] /\ sent' = [sent EXCEPT ![n] = x] /\ UNCHANGED page
  BY DEF CreateKey
<1>4. row \in Key /\ row.user = u /\ row.status = "active"
  BY <1>1 DEF Sent, Key
<1> HIDE DEF k, row
<1>5. /\ x \in Sent /\ x.at = "list" /\ x.browser = sent[n].browser /\ x.user = sent[n].user
      /\ x.together = sent[n].together
  BY <1>1, <1>2 DEF Sent
<1> HIDE DEF x, u
<1>6. row # Null
  BY <1>4, AccountsAssumption
<1>7. /\ keys' \in [Keys -> Key \union {Null}] /\ keys'[k] = row
      /\ \A j \in Keys : j # k => keys'[j] = keys[j]
  BY <1>2, <1>3, <1>4 DEF KeyParts, KeyTyped
<1>8. \A j \in Keys : keys[j] # Null => keys'[j] # Null
  BY <1>6, <1>7
<1>9. page' \in [Browsers -> Page]
  BY <1>3 DEF KeyParts, KeyTyped
<1>10. /\ KeyTyped' /\ sent'[n] = x /\ x # Null
       /\ \A m \in Submits : m # n => sent'[m] = sent[m]
  BY <1>3, <1>5, <1>7, <1>8, <1>9, SentWritten DEF KeyParts
<1>11. \A b \in Browsers : Waiting(b)' = Waiting(b)
  BY <1>1, <1>5, <1>10 DEF Waiting
<1>12. \A b \in Browsers : Calm(b)'
  BY <1>3, <1>11 DEF KeyParts, Calm
<1>13. KeysCounted'
  <2> SUFFICES ASSUME NEW v \in Users
               PROVE  Cardinality(ActiveKeys(v)') + Cardinality(Pending(v)')
                        <= MaxApiKeys + Cardinality(Together(v)')
    BY DEF KeysCounted
  <2>0. /\ IsFiniteSet(ActiveKeys(v)) /\ Cardinality(ActiveKeys(v)) \in Nat
        /\ IsFiniteSet(Pending(v)) /\ Cardinality(Pending(v)) \in Nat
        /\ Cardinality(Together(v)) \in Nat /\ MaxApiKeys \in Nat
        /\ Cardinality(ActiveKeys(v)) + Cardinality(Pending(v))
             <= MaxApiKeys + Cardinality(Together(v))
    BY KeysAreCountable DEF KeyParts, KeysCounted
  <2>1. Together(v)' = Together(v)
    BY <1>1, <1>5, <1>10 DEF Together
  <2>2. CASE v # u
    <3>1. ActiveKeys(v)' = ActiveKeys(v)
      BY <1>2, <1>4, <1>7, <2>2 DEF ActiveKeys, KeysOf
    <3>2. Pending(v)' = Pending(v)
      BY <1>1, <1>5, <1>10, <2>2 DEF Pending, u
    <3> QED BY <2>0, <2>1, <3>1, <3>2
  <2>3. CASE v = u
    <3>1. ActiveKeys(v)' = ActiveKeys(v) \union {k} /\ k \notin ActiveKeys(v)
      BY <1>2, <1>4, <1>6, <1>7, <2>3 DEF ActiveKeys, KeysOf
    <3>2. Pending(v)' = Pending(v) \ {n} /\ n \in Pending(v)
      BY <1>1, <1>5, <1>10, <2>3 DEF Pending, u
    <3>3. Cardinality(ActiveKeys(v)') = Cardinality(ActiveKeys(v)) + 1
      BY <2>0, <3>1, FS_AddElement
    <3>4. Cardinality(Pending(v)') = Cardinality(Pending(v)) - 1
      BY <2>0, <3>2, FS_RemoveElement
    <3> QED BY <2>0, <2>1, <3>3, <3>4
  <2> QED BY <2>2, <2>3
<1> QED BY <1>10, <1>12, <1>13 DEF KeyParts

(* Of the operations of accounts and sign-in only the deletion touches     *)
(* keys, and it only revokes them.                                         *)
LEMMA KeysOnlyRevoked ==
  ASSUME KeyParts, UNCHANGED keyVars,
         keys' \in [Keys -> Key \union {Null}],
         \A k \in Keys : keys[k] # Null => keys'[k] # Null,
         \A u \in Users : ActiveKeys(u)' \subseteq ActiveKeys(u)
  PROVE  KeyParts'
<1>1. page' = page /\ sent' = sent
  BY DEF keyVars
<1>2. KeyTyped'
  <2>1. \A n \in Submits : sent'[n] # Null /\ sent'[n].at = "revoke" => keys'[sent'[n].key] # Null
    BY <1>1 DEF KeyParts, KeyTyped
  <2> QED BY <1>1, <2>1 DEF KeyParts, KeyTyped
<1>3. \A b \in Browsers : Calm(b)'
  BY <1>1 DEF KeyParts, Calm, Waiting
<1>4. \A u \in Users : Pending(u)' = Pending(u) /\ Together(u)' = Together(u)
  BY <1>1 DEF Pending, Together
<1> QED BY <1>2, <1>3, <1>4, FewerKeys DEF KeyParts

LEMMA CloseRevokes ==
  ASSUME KeyParts, NEW b \in Browsers, Close(b), UNCHANGED keyVars
  PROVE  KeyParts'
<1> DEFINE u == req[b].user
           revoked(k) == [keys[k] EXCEPT !.status = "revoked"]
<1>1. keys' = [k \in Keys |-> IF keys[k] # Null /\ keys[k].user = u THEN revoked(k) ELSE keys[k]]
  BY DEF Close
<1>2. \A k \in Keys : keys[k] # Null =>
        /\ revoked(k) \in Key /\ revoked(k).user = keys[k].user
        /\ revoked(k).status = "revoked"
  BY DEF KeyParts, KeyTyped, Key
<1> HIDE DEF u, revoked
<1>3. \A k \in Keys : keys[k] # Null => revoked(k) # Null
  BY <1>2, AccountsAssumption
<1>4. keys' \in [Keys -> Key \union {Null}] /\ \A k \in Keys : keys[k] # Null => keys'[k] # Null
  BY <1>1, <1>2, <1>3 DEF KeyParts, KeyTyped
<1>5. \A v \in Users : ActiveKeys(v)' \subseteq ActiveKeys(v)
  BY <1>1, <1>2 DEF ActiveKeys, KeysOf
<1> QED BY <1>4, <1>5, KeysOnlyRevoked

LEMMA AccountStepLeavesKeys ==
  ASSUME KeyParts, (AccountsNext /\ UNCHANGED <<sealed, flow>>) \/ SignInNext, UNCHANGED keyVars
  PROVE  KeyParts'
<1>1. ASSUME UNCHANGED keys
      PROVE  KeyParts'
  BY <1>1, KeysOnlyRevoked DEF KeyParts, KeyTyped, ActiveKeys, KeysOf
<1>2. CASE SignInNext
  <2>1. ASSUME NEW b \in Browsers, NEW linking \in BOOLEAN, StartGoogle(b, linking)
        PROVE  UNCHANGED keys
    BY <2>1 DEF StartGoogle, accountVars
  <2>2. ASSUME NEW b \in Browsers, NEW f \in Flows, NEW s \in Subjects, Callback(b, f, s)
        PROVE  UNCHANGED keys
    BY <2>2 DEF Callback
  <2>3. ASSUME NEW b \in Browsers, NEW f \in Flows, Refusal(b, f)
        PROVE  UNCHANGED keys
    BY <2>3 DEF Refusal, accountVars
  <2>4. ASSUME NEW b \in Browsers,
               \/ ExpireSealed(b) \/ FindByLink(b) \/ Touch(b) \/ Drop(b) \/ FindByEmail(b)
               \/ Attach(b) \/ LinkFind(b) \/ LinkCheck(b) \/ LinkAttach(b)
               \/ Unlink(b) \/ RemoveLink(b)
        PROVE  UNCHANGED keys
    BY <2>4 DEF ExpireSealed, FindByLink, Touch, Drop, FindByEmail, Attach, LinkFind, LinkCheck,
       LinkAttach, Unlink, RemoveLink, accountVars
  <2> QED BY <1>1, <1>2, <2>1, <2>2, <2>3, <2>4 DEF SignInNext
<1>3. CASE AccountsNext
  <2>1. UNCHANGED keys \/ \E b \in Browsers : Close(b)
    BY <1>3 DEF AccountsNext, Register, Login, ChangePassword, RequestReset, ResetPassword,
       DeleteAccount, AdminAct, Logout, CreateUser, Subscribe, OpenSession, SetPassword,
       RevokeOthers, Burn, Mint, Reset, RevokeAll, CountAdmins, Apply, Die, Promote, ExpireToken,
       ExpireSession
  <2> QED BY <1>1, <2>1, CloseRevokes
<1> QED BY <1>2, <1>3

(* What the keys and their page do to accounts: a create makes sure of the *)
(* subscription, like a sign-in.                                           *)
LEMMA KeyStepLeavesAccounts ==
  ASSUME AccountParts, KeyParts, KeyNext
  PROVE  AccountParts'
<1>1. UNCHANGED <<users, links, tokens, live, jar, req, sealed, flow>>
  BY DEF KeyNext, OpenCreate, SubmitCreate, Dismiss, Saved, SubmitRename, SubmitRevoke, AnswerArrives,
     CountKeys, CreateKey, FindKey, RevokeKey, ListKeys, LoseAnswer, signInVars
<1>2. subscribed' = subscribed \/ \E n \in Submits : CountKeys(n)
  BY DEF KeyNext, OpenCreate, SubmitCreate, Dismiss, Saved, SubmitRename, SubmitRevoke, AnswerArrives,
     CreateKey, FindKey, RevokeKey, ListKeys, LoseAnswer, signInVars
<1>3. subscribed \subseteq subscribed' /\ subscribed' \subseteq Users
  <2>1. CASE subscribed' = subscribed
    BY <2>1 DEF AccountParts, AccountTyped, TablesTyped
  <2>2. ASSUME NEW n \in Submits, CountKeys(n)
        PROVE  subscribed \subseteq subscribed' /\ subscribed' \subseteq Users
    <3>1. sent[n] \in Sent /\ subscribed' = subscribed \union {sent[n].user}
      BY <2>2 DEF CountKeys, KeyParts, KeyTyped
    <3>2. sent[n].user \in Users
      BY <3>1 DEF Sent
    <3> QED BY <3>1, <3>2 DEF AccountParts, AccountTyped, TablesTyped
  <2> QED BY <1>2, <2>1, <2>2
<1>4. /\ live' \subseteq Session /\ jar' \in [Browsers -> Session \union {Null}]
      /\ \A s \in live' : users[s.user] # Null /\ s.user \in subscribed'
      /\ \A c \in Browsers : jar'[c] # Null => users[jar'[c].user] # Null
  BY <1>1, <1>3 DEF AccountParts, AccountTyped, TablesTyped, Referential
<1> QED BY <1>1, <1>3, <1>4, SessionsWritten, Unasked

LEMMA KeyStep ==
  ASSUME AccountParts, KeyParts, KeyNext
  PROVE  KeyParts'
BY OpenCreateKeeps, DismissKeeps, SavedKeeps, SubmitCreateKeeps, SubmitRenameKeeps,
   SubmitRevokeKeeps, AnswerArrivesKeeps, KeyReadsKeep, RevokeKeyKeeps, CountKeysKeeps, CreateKeyKeeps DEF KeyNext

-----------------------------------------------------------------------------
LEMMA AccountsBegin ==
  ASSUME SignInInit
  PROVE  AccountParts
<1>1. PICK c \in Scenarios : users = c.rows /\ jar = c.jars
  BY DEF SignInInit, AccountsInit
<1>2. /\ users \in [Users -> Row \union {Null}] /\ jar \in [Browsers -> Session \union {Null}]
      /\ \A b \in Browsers : jar[b] # Null => users[jar[b].user] # Null
      /\ \A u \in Users : users[u] # Null =>
           users[u].password # Lost /\ users[u].status # "deleted"
  <2>1. /\ c.rows \in [Users -> Row \union {Null}] /\ c.jars \in [Browsers -> Session \union {Null}]
        /\ \A b \in Browsers : c.jars[b] # Null => c.rows[c.jars[b].user] # Null
        /\ \A u \in Users : c.rows[u] # Null =>
             c.rows[u].password # Lost /\ c.rows[u].status # "deleted"
    BY AccountsAssumption
  <2> QED BY <1>1, <2>1
<1>3. /\ links = [s \in Subjects |-> Null] /\ tokens = [t \in Tokens |-> Null]
      /\ req = [b \in Browsers |-> Idle] /\ subscribed = {u \in Users : users[u] # Null}
      /\ live = {jar[b] : b \in Browsers} \ {Null}
      /\ sealed = [b \in Browsers |-> Null] /\ flow = [f \in Flows |-> Null]
  BY DEF SignInInit, AccountsInit
<1>4. \A s \in live : s \in Session /\ \E b \in Browsers : s = jar[b] /\ jar[b] # Null
  BY <1>2, <1>3
<1>5. AccountTyped
  <2>1. links \in [Subjects -> Users \union {Null}] /\ subscribed \subseteq Users
    BY <1>3
  <2>2. tokens \in [Tokens -> Token \union {Null}]
    BY <1>3
  <2>3. sealed \in [Browsers -> Flows \union {Null}] /\ flow \in [Flows -> Flow \union {Null}]
    BY <1>3
  <2>4. req \in [Browsers -> Request]
    BY <1>3, IdleIsTyped
  <2> QED BY <1>2, <1>4, <2>1, <2>2, <2>3, <2>4 DEF AccountTyped, TablesTyped
<1>6. ClosedIsNameless
  BY <1>2 DEF ClosedIsNameless
<1>7. Referential
  <2>1. \A s \in live : users[s.user] # Null /\ s.user \in subscribed
    BY <1>2, <1>3, <1>4 DEF Session
  <2> QED BY <1>2, <1>3, <2>1 DEF Referential
<1>8. \A b \in Browsers : Fits(req[b], b)
  BY <1>3, IdleIsTyped DEF Fits
<1>9. LinksCounted
  <2> SUFFICES ASSUME NEW u \in Users
               PROVE  Cardinality(Outstanding(u)) + Cardinality(Minting(u)) <= Cardinality(Browsers)
    BY DEF LinksCounted
  <2>1. Outstanding(u) = {} /\ Minting(u) = {}
    BY <1>3, IdleIsTyped DEF Outstanding, Minting
  <2>2. Cardinality(Outstanding(u)) = 0 /\ Cardinality(Minting(u)) = 0
    BY <2>1, FS_EmptySet
  <2> QED BY <2>2, CountedAreFinite
<1> QED BY <1>5, <1>6, <1>7, <1>8, <1>9 DEF AccountParts

LEMMA KeysBegin ==
  ASSUME SignInInit, KeyInit
  PROVE  KeyParts
<1>1. /\ keys = [k \in Keys |-> Null] /\ sent = [n \in Submits |-> Null]
      /\ page = [b \in Browsers |-> [rows |-> {}, createOpen |-> FALSE, busy |-> FALSE,
                                     revealed |-> Null, hasty |-> FALSE]]
  BY DEF SignInInit, AccountsInit, KeyInit
<1>2. KeyTyped
  BY <1>1 DEF KeyTyped, Page
<1>3. \A b \in Browsers : Calm(b)
  BY <1>1 DEF Calm, Waiting
<1>4. KeysCounted
  <2> SUFFICES ASSUME NEW u \in Users
               PROVE  Cardinality(ActiveKeys(u)) + Cardinality(Pending(u))
                        <= MaxApiKeys + Cardinality(Together(u))
    BY DEF KeysCounted
  <2>1. ActiveKeys(u) = {} /\ Pending(u) = {}
    BY <1>1 DEF ActiveKeys, KeysOf, Pending
  <2>2. Cardinality(ActiveKeys(u)) = 0 /\ Cardinality(Pending(u)) = 0
    BY <2>1, FS_EmptySet
  <2> QED BY <1>2, <2>2, KeysAreCountable
<1> QED BY <1>2, <1>3, <1>4 DEF KeyParts

LEMMA AccountStands ==
  ASSUME AccountParts, KeyParts, UNCHANGED peopleVars
  PROVE  AccountParts' /\ KeyParts'
<1>1. UNCHANGED tableVars /\ UNCHANGED <<req, keys>> /\ UNCHANGED keyVars
  BY DEF peopleVars, tableVars, keyVars
<1>2. AccountParts'
  BY <1>1, Stands, Unasked
<1>3. KeyParts'
  BY <1>1, KeysOnlyRevoked DEF KeyParts, KeyTyped, ActiveKeys, KeysOf
<1> QED BY <1>2, <1>3

(* The invariant of accounts, sign-in and keys holds in every behaviour.   *)
THEOREM AccountsInvariance == Spec => []AccountInv
<1>1. Init => AccountInv
  BY AccountsBegin, KeysBegin DEF Init, AccountInv
<1>2. AccountInv /\ [Next]_vars => AccountInv'
  <2> SUFFICES ASSUME AccountInv, [Next]_vars, part' = "accounts"
               PROVE  AccountParts' /\ KeyParts'
    BY DEF AccountInv
  <2>1. part = "accounts" /\ AccountParts /\ KeyParts
    BY DEF Next, vars, AccountInv
  <2>2. CASE (AccountsNext /\ UNCHANGED <<sealed, flow, page, sent>>) \/ (SignInNext /\ UNCHANGED keyVars)
    BY <2>1, <2>2, AccountStep, AccountStepLeavesKeys DEF keyVars
  <2>3. CASE KeyNext
    BY <2>1, <2>3, KeyStep, KeyStepLeavesAccounts
  <2>4. CASE UNCHANGED peopleVars
    BY <2>1, <2>4, AccountStands
  <2> QED BY <2>1, <2>2, <2>3, <2>4 DEF Next, AccountNext, vars
<1> QED BY <1>1, <1>2, PTL DEF Spec

(* SessionHasSubscription: whoever can open the dashboard has a            *)
(* subscription row.                                                       *)
THEOREM SessionsAreSubscribed == Spec => []SessionHasSubscription
<1>1. AccountInv => SessionHasSubscription
  BY DEF AccountInv, AccountParts, Referential, SessionHasSubscription
<1> QED BY <1>1, AccountsInvariance, PTL

-----------------------------------------------------------------------------
(* The saved integrations.  The module counts with an instance of its own. *)

LEMMA SameCount == \A S : Workbench!Cardinality(S) = Cardinality(S)
BY DEF Workbench!Cardinality, Cardinality

LEMMA NotesAreCountable ==
  ASSUME BenchTyped
  PROVE  /\ IsFiniteSet(Workbench!Rows) /\ Cardinality(Workbench!Rows) \in Nat
         /\ IsFiniteSet(Counting) /\ Cardinality(Counting) \in Nat
         /\ IsFiniteSet(SavedTogether) /\ Cardinality(SavedTogether) \in Nat
         /\ IsFiniteSet(CountingTogether) /\ Cardinality(CountingTogether) \in Nat
         /\ MaxIntegrations \in Nat
<1>1. /\ Workbench!Rows \subseteq SavedIds /\ SavedTogether \subseteq SavedIds
      /\ Counting \subseteq Browsers /\ CountingTogether \subseteq Browsers
  BY DEF Workbench!Rows, SavedIds, SavedTogether, Counting, CountingTogether
<1>2. /\ IsFiniteSet(Workbench!Rows) /\ IsFiniteSet(SavedTogether)
      /\ IsFiniteSet(Counting) /\ IsFiniteSet(CountingTogether)
  BY <1>1, FS_Subset, AccountsAssumption DEF BenchTyped
<1> QED BY <1>2, FS_CardinalityType, BenchAssumption

LEMMA NotesStayCounted ==
  ASSUME BenchParts, Workbench!Rows' = Workbench!Rows, Counting' = Counting,
         SavedTogether' = SavedTogether, CountingTogether' = CountingTogether
  PROVE  NotesCounted'
BY DEF BenchParts, NotesCounted

(* A request is sent, moves on or ends, and no row is written.             *)
LEMMA PostWritten ==
  ASSUME BenchParts, NEW q \in Browsers, NEW x \in Workbench!Request \union {Null},
         posts' = [posts EXCEPT ![q] = x], UNCHANGED notes, bench' \in [Browsers -> Workbench!Bench]
  PROVE  /\ BenchTyped' /\ posts'[q] = x
         /\ \A r \in Browsers : r # q => posts'[r] = posts[r]
         /\ Workbench!Rows' = Workbench!Rows /\ SavedTogether' = SavedTogether
<1>1. /\ posts' \in [Browsers -> Workbench!Request \union {Null}] /\ posts'[q] = x
      /\ \A r \in Browsers : r # q => posts'[r] = posts[r]
  BY DEF BenchParts, BenchTyped
<1>2. SavedIds' = SavedIds /\ Workbench!Rows' = Workbench!Rows /\ SavedTogether' = SavedTogether
  BY DEF SavedIds, Workbench!Rows, SavedTogether
<1> QED BY <1>1, <1>2 DEF BenchParts, BenchTyped

LEMMA PostMoves ==
  ASSUME BenchParts, NEW q \in Browsers, NEW x \in Workbench!Request \union {Null},
         posts' = [posts EXCEPT ![q] = x], UNCHANGED notes, bench' \in [Browsers -> Workbench!Bench],
         posts[q] # Null => posts[q].at # "create", x # Null => x.at # "create"
  PROVE  BenchParts'
<1>1. /\ BenchTyped' /\ posts'[q] = x
      /\ \A r \in Browsers : r # q => posts'[r] = posts[r]
      /\ Workbench!Rows' = Workbench!Rows /\ SavedTogether' = SavedTogether
  BY PostWritten
<1>2. Counting' = Counting
  BY <1>1 DEF Counting
<1>3. CountingTogether' = CountingTogether
  BY <1>1, <1>2 DEF CountingTogether, Counting
<1> QED BY <1>1, <1>2, <1>3, NotesStayCounted DEF BenchParts

(* A click changes the page alone.                                         *)
LEMMA BenchOnly ==
  ASSUME BenchParts, UNCHANGED <<notes, posts>>, bench' \in [Browsers -> Workbench!Bench]
  PROVE  BenchParts'
<1>1. BenchTyped'
  BY DEF BenchParts, BenchTyped, SavedIds
<1>2. /\ Workbench!Rows' = Workbench!Rows /\ Counting' = Counting
      /\ SavedTogether' = SavedTogether /\ CountingTogether' = CountingTogether
  BY DEF Workbench!Rows, Counting, SavedTogether, CountingTogether, SavedIds
<1> QED BY <1>1, <1>2, NotesStayCounted DEF BenchParts

LEMMA BenchClicksKeep ==
  ASSUME BenchParts, NEW w \in Browsers,
         \/ Workbench!OpenCreate(w) \/ Workbench!Dismiss(w)
         \/ \E i \in bench[w].list : Workbench!OpenDelete(w, i)
  PROVE  BenchParts'
<1>1. bench \in [Browsers -> Workbench!Bench] /\ bench[w] \in Workbench!Bench
  BY DEF BenchParts, BenchTyped
<1>2. ASSUME NEW p \in Workbench!Bench, Workbench!Click(w, p)
      PROVE  bench' \in [Browsers -> Workbench!Bench]
  <2> DEFINE shown(v) == [IF v = w THEN p ELSE bench[v] EXCEPT !.clicks = @ + 1]
  <2>1. \A v \in Browsers : shown(v) \in Workbench!Bench
    <3> SUFFICES ASSUME NEW v \in Browsers
                 PROVE  shown(v) \in Workbench!Bench
      OBVIOUS
    <3> DEFINE before == IF v = w THEN p ELSE bench[v]
    <3>1. before \in Workbench!Bench
      BY <1>1
    <3> HIDE DEF before
    <3>2. [before EXCEPT !.clicks = @ + 1] \in Workbench!Bench
      BY <3>1 DEF Workbench!Bench
    <3> QED BY <3>2 DEF before
  <2>2. bench' = [v \in Browsers |-> shown(v)]
    BY <1>2 DEF Workbench!Click
  <2> HIDE DEF shown
  <2> QED BY <2>1, <2>2
<1>3. CASE Workbench!OpenCreate(w)
  <2>1. [bench[w] EXCEPT !.creating = TRUE] \in Workbench!Bench
    BY <1>1 DEF Workbench!Bench
  <2> QED BY <1>2, <1>3, <2>1, BenchOnly DEF Workbench!OpenCreate
<1>4. ASSUME NEW i \in bench[w].list, Workbench!OpenDelete(w, i)
      PROVE  BenchParts'
  <2>1. i \in Nat
    BY <1>1 DEF Workbench!Bench
  <2>2. [bench[w] EXCEPT !.deleting = i] \in Workbench!Bench
    BY <1>1, <2>1 DEF Workbench!Bench
  <2> QED BY <1>2, <1>4, <2>2, BenchOnly DEF Workbench!OpenDelete
<1>5. CASE Workbench!Dismiss(w)
  <2> DEFINE p == [bench[w] EXCEPT !.creating = FALSE, !.deleting = 0]
  <2>1. p \in Workbench!Bench
    BY <1>1 DEF Workbench!Bench
  <2>2. bench' = [bench EXCEPT ![w] = p] /\ UNCHANGED <<notes, posts>>
    BY <1>5 DEF Workbench!Dismiss
  <2> HIDE DEF p
  <2> QED BY <1>1, <2>1, <2>2, BenchOnly
<1> QED BY <1>3, <1>4, <1>5

LEMMA PostKeeps ==
  ASSUME BenchParts, NEW q \in Browsers, NEW w \in Browsers, NEW kind \in {"create", "delete"},
         NEW id \in Nat, Workbench!Post(q, w, kind, id)
  PROVE  BenchParts'
<1> DEFINE at == IF kind = "create" THEN "count" ELSE "delete"
           x == [window |-> w, kind |-> kind, id |-> id, list |-> {}, at |-> at,
                 together |-> FALSE]
           shown(v) == [bench[v] EXCEPT !.clicks = @ + 1, !.busy = @ \/ v = w,
             !.alone = @ /\ v = w /\ \A r \in Browsers : posts[r] = Null \/ posts[r].window = v]
<1>1. /\ posts[q] = Null /\ posts' = [posts EXCEPT ![q] = x] /\ UNCHANGED notes
      /\ bench' = [v \in Browsers |-> shown(v)]
  BY DEF Workbench!Post
<1>2. at \in {"count", "delete"}
  OBVIOUS
<1> HIDE DEF at
<1>3. x \in Workbench!Request /\ x.at = at
  BY <1>2 DEF Workbench!Request
<1>4. \A v \in Browsers : shown(v) \in Workbench!Bench
  <2> SUFFICES ASSUME NEW v \in Browsers
               PROVE  shown(v) \in Workbench!Bench
    OBVIOUS
  <2> DEFINE only == \A r \in Browsers : posts[r] = Null \/ posts[r].window = v
             before == bench[v]
  <2>1. before \in Workbench!Bench /\ only \in BOOLEAN
    BY DEF BenchParts, BenchTyped
  <2> HIDE DEF only, before
  <2> DEFINE busy == before.busy \/ v = w
             alone == before.alone /\ v = w /\ only
  <2>2. before.clicks + 1 \in Nat /\ busy \in BOOLEAN /\ alone \in BOOLEAN
    BY <2>1 DEF Workbench!Bench
  <2> HIDE DEF busy, alone
  <2>3. [before EXCEPT !.clicks = @ + 1, !.busy = busy, !.alone = alone] \in Workbench!Bench
    BY <2>1, <2>2 DEF Workbench!Bench
  <2> QED BY <2>3 DEF only, before, busy, alone
<1> HIDE DEF x, shown
<1>5. bench' \in [Browsers -> Workbench!Bench]
  BY <1>1, <1>4
<1> QED BY <1>1, <1>2, <1>3, <1>5, PostMoves

LEMMA AnswersKeep ==
  ASSUME BenchParts, NEW q \in Browsers, Workbench!Answer(q) \/ Workbench!AnswerError(q)
  PROVE  BenchParts'
<1> DEFINE w == posts[q].window
<1>1. posts[q] # Null /\ posts[q] \in Workbench!Request /\ posts[q].at \in {"answer", "refused"}
  BY DEF Workbench!Answer, Workbench!AnswerError, Workbench!At, BenchParts, BenchTyped
<1>2. w \in Browsers /\ bench[w] \in Workbench!Bench /\ posts[q].list \in SUBSET Nat
  BY <1>1 DEF Workbench!Request, BenchParts, BenchTyped
<1>3. posts' = [posts EXCEPT ![q] = Null] /\ UNCHANGED notes
  BY DEF Workbench!Answer, Workbench!AnswerError
<1>4. bench' \in [Browsers -> Workbench!Bench]
  <2>1. CASE Workbench!Answer(q)
    <3> DEFINE created == posts[q].kind = "create"
               deleting == IF created THEN bench[w].deleting ELSE 0
               p == [bench[w] EXCEPT !.list = posts[q].list, !.busy = FALSE,
                      !.missed = FALSE, !.creating = bench[w].creating /\ ~created, !.deleting = deleting]
    <3>1. deleting \in Nat /\ created \in BOOLEAN
      BY <1>2 DEF Workbench!Bench
    <3>2. bench' = [bench EXCEPT ![w] = p]
      BY <2>1 DEF Workbench!Answer
    <3> HIDE DEF w, deleting, created
    <3>3. p \in Workbench!Bench
      BY <1>2, <3>1 DEF Workbench!Bench
    <3> HIDE DEF p
    <3> QED BY <1>2, <3>2, <3>3 DEF BenchParts, BenchTyped
  <2>2. CASE Workbench!AnswerError(q)
    <3> DEFINE p == [bench[w] EXCEPT !.busy = FALSE]
    <3>1. bench' = [bench EXCEPT ![w] = p]
      BY <2>2 DEF Workbench!AnswerError
    <3> HIDE DEF w
    <3>2. p \in Workbench!Bench
      BY <1>2 DEF Workbench!Bench
    <3> HIDE DEF p
    <3> QED BY <1>2, <3>1, <3>2 DEF BenchParts, BenchTyped
  <2> QED BY <2>1, <2>2
<1> QED BY <1>1, <1>3, <1>4, PostMoves

(* A request that fails leaves its place to another create.                *)
LEMMA LoseNoteKeeps ==
  ASSUME BenchParts, NEW q \in Browsers, Workbench!Lose(q)
  PROVE  BenchParts'
<1> DEFINE w == posts[q].window
           late == posts[q].at \in {"list", "answer"}
           missed == bench[w].missed \/ late
           p == [bench[w] EXCEPT !.missed = missed]
           x == [posts[q] EXCEPT !.at = "refused"]
<1>1. posts[q] # Null /\ posts[q] \in Workbench!Request
  BY DEF Workbench!Lose, BenchParts, BenchTyped
<1>2. w \in Browsers /\ bench[w] \in Workbench!Bench
  BY <1>1 DEF Workbench!Request, BenchParts, BenchTyped
<1>3. /\ posts' = [posts EXCEPT ![q] = x] /\ UNCHANGED notes
      /\ bench' = [bench EXCEPT ![w] = p]
  BY DEF Workbench!Lose, Workbench!Go
<1>4. late \in BOOLEAN
  OBVIOUS
<1> HIDE DEF w, late
<1>5. missed \in BOOLEAN
  BY <1>2, <1>4 DEF Workbench!Bench
<1> HIDE DEF missed
<1>6. p \in Workbench!Bench
  BY <1>2, <1>5 DEF Workbench!Bench
<1>7. x \in Workbench!Request /\ x.at = "refused" /\ x.together = posts[q].together
  BY <1>1 DEF Workbench!Request
<1> HIDE DEF p, x
<1>8. bench' \in [Browsers -> Workbench!Bench]
  BY <1>2, <1>3, <1>6 DEF BenchParts, BenchTyped
<1>9. CASE posts[q].at # "create"
  BY <1>3, <1>7, <1>8, <1>9, PostMoves
<1>10. CASE posts[q].at = "create"
  <2>1. /\ BenchTyped' /\ posts'[q] = x
        /\ \A r \in Browsers : r # q => posts'[r] = posts[r]
        /\ Workbench!Rows' = Workbench!Rows /\ SavedTogether' = SavedTogether
    BY <1>3, <1>7, <1>8, PostWritten
  <2>2. Counting' = Counting \ {q} /\ q \in Counting
    BY <1>1, <1>7, <1>10, <2>1 DEF Counting
  <2>3. CountingTogether' = CountingTogether \ {q}
    BY <2>1, <2>2 DEF CountingTogether, Counting
  <2>4. /\ Cardinality(Workbench!Rows) \in Nat /\ MaxIntegrations \in Nat
        /\ IsFiniteSet(Counting) /\ Cardinality(Counting) \in Nat
        /\ IsFiniteSet(CountingTogether) /\ Cardinality(CountingTogether) \in Nat
        /\ Cardinality(SavedTogether) \in Nat
        /\ Cardinality(Workbench!Rows) + Cardinality(Counting)
             <= MaxIntegrations + Cardinality(SavedTogether) + Cardinality(CountingTogether)
    BY NotesAreCountable DEF BenchParts, NotesCounted
  <2>5. Cardinality(Counting') = Cardinality(Counting) - 1
    BY <2>2, <2>4, FS_RemoveElement
  <2>6. Cardinality(CountingTogether') \in
          {Cardinality(CountingTogether), Cardinality(CountingTogether) - 1}
    BY <2>3, <2>4, FS_RemoveElement
  <2>7. NotesCounted'
    BY <2>1, <2>4, <2>5, <2>6 DEF NotesCounted
  <2> QED BY <2>1, <2>7 DEF BenchParts
<1> QED BY <1>9, <1>10

LEMMA NotesListKeeps ==
  ASSUME BenchParts, NEW q \in Browsers, Workbench!List(q)
  PROVE  BenchParts'
<1> DEFINE rows == Workbench!Rows
           x == [posts[q] EXCEPT !.list = rows, !.at = "answer"]
<1>1. posts[q] # Null /\ posts[q] \in Workbench!Request /\ posts[q].at = "list"
  BY DEF Workbench!List, Workbench!At, BenchParts, BenchTyped
<1>2. rows \in SUBSET Nat
  <2>1. rows \subseteq SavedIds
    BY DEF Workbench!Rows, SavedIds
  <2>2. SavedIds = 1 .. Cardinality(SavedIds) /\ Cardinality(SavedIds) \in Nat
    BY FS_CardinalityType DEF BenchParts, BenchTyped
  <2> QED BY <2>1, <2>2
<1>3. posts' = [posts EXCEPT ![q] = x] /\ UNCHANGED <<notes, bench>>
  BY DEF Workbench!List
<1> HIDE DEF rows
<1>4. x \in Workbench!Request /\ x.at = "answer"
  BY <1>1, <1>2 DEF Workbench!Request
<1> HIDE DEF x
<1>5. bench' \in [Browsers -> Workbench!Bench]
  BY <1>3 DEF BenchParts, BenchTyped
<1> QED BY <1>1, <1>3, <1>4, <1>5, PostMoves

LEMMA CountNotesKeeps ==
  ASSUME BenchParts, NEW q \in Browsers, Workbench!Count(q)
  PROVE  BenchParts'
<1> DEFINE at == IF Workbench!AtCap THEN "refused" ELSE "create"
           beside == \E r \in Browsers : Workbench!At(r, "create")
           x == [posts[q] EXCEPT !.at = at, !.together = beside]
<1>1. posts[q] # Null /\ posts[q] \in Workbench!Request /\ posts[q].at = "count"
  BY DEF Workbench!Count, Workbench!At, BenchParts, BenchTyped
<1>2. posts' = [posts EXCEPT ![q] = x] /\ UNCHANGED <<notes, bench>>
  BY DEF Workbench!Count
<1>3. beside \in BOOLEAN /\ (beside <=> Counting # {})
  BY DEF Counting, Workbench!At
<1>4. \/ at = "refused"
      \/ at = "create" /\ ~(Cardinality(Workbench!Rows) >= MaxIntegrations)
  BY SameCount DEF Workbench!AtCap
<1> HIDE DEF at, beside
<1>5. x \in Workbench!Request /\ x.at = at /\ x.together = beside
  BY <1>1, <1>3, <1>4 DEF Workbench!Request
<1> HIDE DEF x
<1>6. bench' \in [Browsers -> Workbench!Bench]
  BY <1>2 DEF BenchParts, BenchTyped
<1>7. CASE at = "refused"
  BY <1>1, <1>2, <1>5, <1>6, <1>7, PostMoves
<1>8. CASE at = "create"
  <2>1. x # Null
    BY <1>5, BenchAssumption
  <2>2. /\ BenchTyped' /\ posts'[q] = x
        /\ \A r \in Browsers : r # q => posts'[r] = posts[r]
        /\ Workbench!Rows' = Workbench!Rows /\ SavedTogether' = SavedTogether
    BY <1>2, <1>5, <1>6, PostWritten
  <2>3. Counting' = Counting \union {q} /\ q \notin Counting
    BY <1>1, <1>5, <1>8, <2>1, <2>2 DEF Counting
  <2>4. /\ Cardinality(Workbench!Rows) \in Nat /\ MaxIntegrations \in Nat
        /\ IsFiniteSet(Counting) /\ Cardinality(Counting) \in Nat
        /\ IsFiniteSet(CountingTogether) /\ Cardinality(CountingTogether) \in Nat
        /\ Cardinality(SavedTogether) \in Nat
        /\ Cardinality(Workbench!Rows) + Cardinality(Counting)
             <= MaxIntegrations + Cardinality(SavedTogether) + Cardinality(CountingTogether)
    BY NotesAreCountable DEF BenchParts, NotesCounted
  <2>5. Cardinality(Counting') = Cardinality(Counting) + 1
    BY <2>3, <2>4, FS_AddElement
  <2>6. NotesCounted'
    <3>1. CASE beside
      <4>1. CountingTogether' = CountingTogether \union {q} /\ q \notin CountingTogether
        BY <1>5, <2>2, <2>3, <3>1 DEF CountingTogether, Counting
      <4>2. Cardinality(CountingTogether') = Cardinality(CountingTogether) + 1
        BY <2>4, <4>1, FS_AddElement
      <4> QED BY <2>2, <2>4, <2>5, <4>2 DEF NotesCounted
    <3>2. CASE ~beside
      <4>1. Counting = {} /\ CountingTogether = {}
        BY <1>3, <3>2 DEF CountingTogether
      <4>2. Cardinality(Counting) = 0
        BY <4>1, FS_EmptySet
      <4>3. Cardinality(CountingTogether') \in Nat
        <5>1. CountingTogether' \subseteq Browsers
          BY DEF CountingTogether, Counting
        <5> QED BY <5>1, FS_Subset, FS_CardinalityType, AccountsAssumption
      <4>4. Cardinality(Workbench!Rows) + 1 <= MaxIntegrations
        BY <1>4, <1>8, <2>4
      <4> QED BY <2>2, <2>4, <2>5, <4>2, <4>3, <4>4 DEF NotesCounted
    <3> QED BY <1>3, <3>1, <3>2
  <2> QED BY <2>2, <2>6 DEF BenchParts
<1> QED BY <1>4, <1>7, <1>8

LEMMA CreateNoteKeeps ==
  ASSUME BenchParts, NEW q \in Browsers, Workbench!Create(q)
  PROVE  BenchParts'
<1> DEFINE last == Cardinality(SavedIds)
           id == last + 1
           note == [together |-> posts[q].together]
           x == [posts[q] EXCEPT !.at = "list"]
<1>1. posts[q] # Null /\ posts[q] \in Workbench!Request /\ posts[q].at = "create"
  BY DEF Workbench!Create, Workbench!At, BenchParts, BenchTyped
<1>2. /\ notes' = [i \in 1 .. id |-> IF i = id THEN note ELSE notes[i]]
      /\ posts' = [posts EXCEPT ![q] = x] /\ UNCHANGED bench
  BY SameCount DEF Workbench!Create, Workbench!Go, SavedIds
<1>3. last \in Nat /\ SavedIds = 1 .. last /\ IsFiniteSet(SavedIds)
  BY FS_CardinalityType DEF BenchParts, BenchTyped
<1> HIDE DEF last
<1>4. note \in Workbench!Note /\ note # Null /\ note.together = posts[q].together
  BY <1>1, BenchAssumption DEF Workbench!Note, Workbench!Request
<1>5. x \in Workbench!Request /\ x.at = "list" /\ x.together = posts[q].together
  BY <1>1 DEF Workbench!Request
<1> HIDE DEF note, x
<1>6. SavedIds' = SavedIds \union {id} /\ id \notin SavedIds
  BY <1>2, <1>3 DEF SavedIds
<1>7. IsFiniteSet(SavedIds') /\ Cardinality(SavedIds') = id /\ SavedIds' = 1 .. id
  <2>1. IsFiniteSet(SavedIds') /\ Cardinality(SavedIds') = Cardinality(SavedIds) + 1
    BY <1>3, <1>6, FS_AddElement
  <2>2. SavedIds' = 1 .. id
    BY <1>2 DEF SavedIds
  <2> QED BY <2>1, <2>2 DEF last
<1>8. notes'[id] = note /\ \A i \in SavedIds : notes'[i] = notes[i]
  BY <1>2, <1>3, <1>6
<1>9. /\ posts' \in [Browsers -> Workbench!Request \union {Null}] /\ posts'[q] = x
      /\ \A r \in Browsers : r # q => posts'[r] = posts[r]
  BY <1>2, <1>5 DEF BenchParts, BenchTyped
<1>10. BenchTyped'
  <2>1. notes' \in [SavedIds' -> Workbench!Note \union {Null}]
    <3>1. \A i \in 1 .. id : notes'[i] \in Workbench!Note \union {Null}
      BY <1>3, <1>4, <1>6, <1>7, <1>8 DEF BenchParts, BenchTyped
    <3> QED BY <1>2, <1>7, <3>1
  <2> QED BY <1>2, <1>7, <1>9, <2>1 DEF BenchParts, BenchTyped
<1>11. NotesCounted'
  <2>1. Workbench!Rows' = Workbench!Rows \union {id} /\ id \notin Workbench!Rows
    BY <1>4, <1>6, <1>8 DEF Workbench!Rows, SavedIds
  <2>2. Counting' = Counting \ {q} /\ q \in Counting
    BY <1>1, <1>5, <1>9 DEF Counting
  <2>3. /\ IsFiniteSet(Workbench!Rows) /\ Cardinality(Workbench!Rows) \in Nat
        /\ IsFiniteSet(Counting) /\ Cardinality(Counting) \in Nat
        /\ IsFiniteSet(CountingTogether) /\ Cardinality(CountingTogether) \in Nat
        /\ IsFiniteSet(SavedTogether) /\ Cardinality(SavedTogether) \in Nat
        /\ MaxIntegrations \in Nat
        /\ Cardinality(Workbench!Rows) + Cardinality(Counting)
             <= MaxIntegrations + Cardinality(SavedTogether) + Cardinality(CountingTogether)
    BY NotesAreCountable DEF BenchParts, NotesCounted
  <2>4. Cardinality(Workbench!Rows') = Cardinality(Workbench!Rows) + 1
    BY <2>1, <2>3, FS_AddElement
  <2>5. Cardinality(Counting') = Cardinality(Counting) - 1
    BY <2>2, <2>3, FS_RemoveElement
  <2>6. CASE posts[q].together
    <3>1. SavedTogether' = SavedTogether \union {id} /\ id \notin SavedTogether
      BY <1>4, <1>6, <1>8, <2>6 DEF SavedTogether
    <3>2. CountingTogether' = CountingTogether \ {q} /\ q \in CountingTogether
      BY <1>9, <2>2, <2>6 DEF CountingTogether, Counting
    <3>3. Cardinality(SavedTogether') = Cardinality(SavedTogether) + 1
      BY <2>3, <3>1, FS_AddElement
    <3>4. Cardinality(CountingTogether') = Cardinality(CountingTogether) - 1
      BY <2>3, <3>2, FS_RemoveElement
    <3> QED BY <2>3, <2>4, <2>5, <3>3, <3>4 DEF NotesCounted
  <2>7. CASE ~posts[q].together
    <3>1. SavedTogether' = SavedTogether
      BY <1>4, <1>6, <1>8, <2>7 DEF SavedTogether
    <3>2. CountingTogether' = CountingTogether
      BY <1>9, <2>2, <2>7 DEF CountingTogether, Counting
    <3> QED BY <2>3, <2>4, <2>5, <3>1, <3>2 DEF NotesCounted
  <2> QED BY <2>6, <2>7
<1> QED BY <1>10, <1>11 DEF BenchParts

(* A removal takes the row's company with it.                              *)
LEMMA DeleteNoteKeeps ==
  ASSUME BenchParts, NEW q \in Browsers, Workbench!Delete(q)
  PROVE  BenchParts'
<1> DEFINE i == posts[q].id
           done == [posts[q] EXCEPT !.at = "list"]
           refused == [posts[q] EXCEPT !.at = "refused"]
<1>1. posts[q] # Null /\ posts[q] \in Workbench!Request /\ posts[q].at = "delete"
  BY DEF Workbench!Delete, Workbench!At, BenchParts, BenchTyped
<1>2. /\ done \in Workbench!Request /\ done.at = "list"
      /\ refused \in Workbench!Request /\ refused.at = "refused"
  BY <1>1 DEF Workbench!Request
<1>3. bench' \in [Browsers -> Workbench!Bench]
  BY DEF Workbench!Delete, BenchParts, BenchTyped
<1>4. CASE posts' = [posts EXCEPT ![q] = refused] /\ UNCHANGED notes
  <2> HIDE DEF refused
  <2> QED BY <1>1, <1>2, <1>3, <1>4, PostMoves
<1>5. CASE /\ posts' = [posts EXCEPT ![q] = done]
           /\ i \in Workbench!Rows /\ notes' = [notes EXCEPT ![i] = Null]
  <2> HIDE DEF i, done
  <2>1. i \in SavedIds /\ notes[i] # Null
    BY <1>5 DEF Workbench!Rows, SavedIds
  <2>2. /\ notes' \in [SavedIds -> Workbench!Note \union {Null}] /\ notes'[i] = Null
        /\ \A j \in SavedIds : j # i => notes'[j] = notes[j]
    BY <1>5, <2>1 DEF BenchParts, BenchTyped
  <2>3. SavedIds' = SavedIds
    BY <2>2 DEF SavedIds
  <2>4. /\ posts' \in [Browsers -> Workbench!Request \union {Null}] /\ posts'[q] = done
        /\ \A r \in Browsers : r # q => posts'[r] = posts[r]
    BY <1>2, <1>5 DEF BenchParts, BenchTyped
  <2>5. BenchTyped'
    BY <1>3, <2>2, <2>3, <2>4 DEF BenchParts, BenchTyped
  <2>6. Counting' = Counting
    BY <1>1, <1>2, <2>4 DEF Counting
  <2>7. CountingTogether' = CountingTogether
    BY <1>1, <2>4, <2>6 DEF CountingTogether, Counting
  <2>8. Workbench!Rows' = Workbench!Rows \ {i}
    BY <2>1, <2>2, <2>3 DEF Workbench!Rows, SavedIds
  <2>9. SavedTogether' = SavedTogether \ {i}
    BY <2>2, <2>3 DEF SavedTogether
  <2>10. /\ IsFiniteSet(Workbench!Rows) /\ Cardinality(Workbench!Rows) \in Nat
         /\ Cardinality(Counting) \in Nat /\ Cardinality(CountingTogether) \in Nat
         /\ IsFiniteSet(SavedTogether) /\ Cardinality(SavedTogether) \in Nat
         /\ MaxIntegrations \in Nat
         /\ Cardinality(Workbench!Rows) + Cardinality(Counting)
              <= MaxIntegrations + Cardinality(SavedTogether) + Cardinality(CountingTogether)
    BY NotesAreCountable DEF BenchParts, NotesCounted
  <2>11. Cardinality(Workbench!Rows') = Cardinality(Workbench!Rows) - 1
    BY <1>5, <2>8, <2>10, FS_RemoveElement
  <2>12. Cardinality(SavedTogether') \in {Cardinality(SavedTogether), Cardinality(SavedTogether) - 1}
    BY <2>9, <2>10, FS_RemoveElement
  <2>13. NotesCounted'
    BY <2>6, <2>7, <2>10, <2>11, <2>12 DEF NotesCounted
  <2> QED BY <2>5, <2>13 DEF BenchParts
<1> QED BY <1>4, <1>5 DEF Workbench!Delete, Workbench!Go

LEMMA BenchBegins ==
  ASSUME Workbench!BenchInit
  PROVE  BenchParts
<1> DEFINE note == [together |-> FALSE]
<1>1. /\ notes = <<note>> /\ posts = [q \in Browsers |-> Null]
      /\ bench = [w \in Browsers |-> [list |-> Workbench!Rows, creating |-> FALSE, deleting |-> 0,
                                      busy |-> FALSE, clicks |-> 0, alone |-> TRUE,
                                      missed |-> FALSE]]
  BY DEF Workbench!BenchInit
<1>2. note \in Workbench!Note /\ note # Null
  <2>1. note \in Workbench!Note
    BY DEF Workbench!Note
  <2> QED BY <2>1, BenchAssumption
<1> HIDE DEF note
<1>3. SavedIds = {1} /\ notes[1] = note
  BY <1>1 DEF SavedIds
<1>4. IsFiniteSet(SavedIds) /\ Cardinality(SavedIds) = 1
  BY <1>3, FS_Singleton
<1>5. Workbench!Rows = {1}
  BY <1>2, <1>3 DEF Workbench!Rows, SavedIds
<1>6. BenchTyped
  <2>1. SavedIds = 1 .. Cardinality(SavedIds)
    BY <1>3, <1>4
  <2>2. notes \in [SavedIds -> Workbench!Note \union {Null}]
    BY <1>1, <1>2, <1>3
  <2>3. posts \in [Browsers -> Workbench!Request \union {Null}]
    BY <1>1
  <2>4. bench \in [Browsers -> Workbench!Bench]
    BY <1>1, <1>5 DEF Workbench!Bench
  <2> QED BY <1>4, <2>1, <2>2, <2>3, <2>4 DEF BenchTyped
<1>7. NotesCounted
  <2>1. Counting = {} /\ CountingTogether = {}
    BY <1>1 DEF Counting, CountingTogether
  <2>2. Cardinality(Counting) = 0 /\ Cardinality(CountingTogether) = 0
    BY <2>1, FS_EmptySet
  <2>3. Cardinality(Workbench!Rows) = 1
    BY <1>5, FS_Singleton
  <2>4. Cardinality(SavedTogether) \in Nat /\ MaxIntegrations \in Nat \ {0}
    BY <1>6, NotesAreCountable, BenchAssumption
  <2> QED BY <2>2, <2>3, <2>4 DEF NotesCounted
<1> QED BY <1>6, <1>7 DEF BenchParts

LEMMA BenchStep ==
  ASSUME BenchParts, Workbench!BenchNext
  PROVE  BenchParts'
<1>1. ASSUME NEW w \in Browsers, NEW q \in Browsers,
             Workbench!SubmitCreate(q, w) \/ Workbench!SubmitDelete(q, w)
      PROVE  BenchParts'
  <2>1. bench[w].deleting \in Nat
    BY DEF BenchParts, BenchTyped, Workbench!Bench
  <2>2. \E kind \in {"create", "delete"}, id \in Nat : Workbench!Post(q, w, kind, id)
    BY <1>1, <2>1 DEF Workbench!SubmitCreate, Workbench!SubmitDelete
  <2> QED BY <2>2, PostKeeps
<1>2. ASSUME NEW w \in Browsers,
             \/ Workbench!OpenCreate(w) \/ Workbench!Dismiss(w)
             \/ \E i \in bench[w].list : Workbench!OpenDelete(w, i)
      PROVE  BenchParts'
  BY <1>2, BenchClicksKeep
<1>3. ASSUME NEW q \in Browsers,
             \/ Workbench!Count(q) \/ Workbench!Create(q) \/ Workbench!Delete(q)
             \/ Workbench!List(q) \/ Workbench!Answer(q) \/ Workbench!AnswerError(q)
             \/ Workbench!Lose(q)
      PROVE  BenchParts'
  BY <1>3, CountNotesKeeps, CreateNoteKeeps, DeleteNoteKeeps, NotesListKeeps, AnswersKeep,
     LoseNoteKeeps
<1> QED BY <1>1, <1>2, <1>3 DEF Workbench!BenchNext

(* The invariant of the saved integrations holds in every behaviour.       *)
THEOREM NotesInvariance == Spec => []BenchInv
<1>1. Init => BenchInv
  BY BenchBegins DEF Init, BenchInv
<1>2. BenchInv /\ [Next]_vars => BenchInv'
  <2> SUFFICES ASSUME BenchInv, [Next]_vars, part' = "integrations"
               PROVE  BenchParts'
    BY DEF BenchInv
  <2>1. part = "integrations" /\ BenchParts
    BY DEF Next, vars, BenchInv
  <2>2. CASE Workbench!BenchNext
    BY <2>1, <2>2, BenchStep
  <2>3. CASE UNCHANGED noteVars
    <3>1. UNCHANGED <<notes, posts>> /\ UNCHANGED bench
      BY <2>3 DEF noteVars
    <3>2. bench' \in [Browsers -> Workbench!Bench]
      BY <2>1, <3>1 DEF BenchParts, BenchTyped
    <3> QED BY <2>1, <3>1, <3>2, BenchOnly
  <2> QED BY <2>1, <2>2, <2>3 DEF Next, vars
<1> QED BY <1>1, <1>2, PTL DEF Spec

-----------------------------------------------------------------------------
(* What the counts bound.                                                  *)

(* CountsAreOvershotByRacesOnly: live reset links, active keys and saved   *)
(* integrations exceed what their statements allow by no more than the     *)
(* requests that counted side by side.                                     *)
THEOREM RacesBoundTheCounts == Spec => []CountsAreOvershotByRacesOnly
<1>1. AccountInv /\ BenchInv => CountsAreOvershotByRacesOnly
  <2> SUFFICES ASSUME AccountInv, BenchInv
               PROVE  CountsAreOvershotByRacesOnly
    OBVIOUS
  <2>1. OutstandingLinksAreBounded
    <3> SUFFICES ASSUME part = "accounts", NEW u \in Users
                 PROVE  Cardinality(Outstanding(u)) <= Cardinality(Browsers)
      BY DEF OutstandingLinksAreBounded
    <3>1. Cardinality(Outstanding(u)) + Cardinality(Minting(u)) <= Cardinality(Browsers)
      BY DEF AccountInv, AccountParts, LinksCounted
    <3> QED BY <3>1, CountedAreFinite
  <2>2. CapOvershootIsBounded
    <3> SUFFICES ASSUME part = "accounts", NEW u \in Users
                 PROVE  Cardinality(ActiveKeys(u)) <= MaxApiKeys + Cardinality(Together(u))
      BY DEF CapOvershootIsBounded, Together
    <3>1. /\ KeyTyped
          /\ Cardinality(ActiveKeys(u)) + Cardinality(Pending(u))
               <= MaxApiKeys + Cardinality(Together(u))
      BY DEF AccountInv, KeyParts, KeysCounted
    <3> QED BY <3>1, KeysAreCountable
  <2>3. part = "integrations" => Workbench!CapOvershootIsBounded
    <3> SUFFICES ASSUME part = "integrations"
                 PROVE  Cardinality(Workbench!Rows) <= MaxIntegrations + Cardinality(SavedTogether)
      BY SameCount DEF Workbench!CapOvershootIsBounded, SavedTogether, SavedIds
    <3>1. BenchTyped /\ NotesCounted
      BY DEF BenchInv, BenchParts
    <3>2. CountingTogether \subseteq Counting
      BY DEF CountingTogether
    <3>3. Cardinality(CountingTogether) <= Cardinality(Counting)
      BY <3>1, <3>2, NotesAreCountable, FS_Subset
    <3> QED BY <3>1, <3>3, NotesAreCountable DEF NotesCounted
  <2> QED BY <2>1, <2>2, <2>3 DEF CountsAreOvershotByRacesOnly
<1> QED BY <1>1, AccountsInvariance, NotesInvariance, PTL

-----------------------------------------------------------------------------
(* What a step may do to links and rows.                                   *)

LEMMA LinksChange ==
  ASSUME part = "accounts", Next
  PROVE  \/ UNCHANGED links
         \/ \E b \in Browsers : \/ Drop(b) \/ RemoveLink(b) \/ Close(b)
                              \/ Attach(b) \/ LinkAttach(b)
<1>1. ASSUME NEW b \in Browsers, NEW linking \in BOOLEAN, StartGoogle(b, linking)
      PROVE  UNCHANGED links
  BY <1>1 DEF StartGoogle, accountVars
<1>2. ASSUME NEW b \in Browsers, NEW f \in Flows, NEW s \in Subjects, Callback(b, f, s)
      PROVE  UNCHANGED links
  BY <1>2 DEF Callback
<1>3. ASSUME NEW b \in Browsers, NEW f \in Flows, Refusal(b, f)
      PROVE  UNCHANGED links
  BY <1>3 DEF Refusal, accountVars
<1>4. ASSUME NEW b \in Browsers,
             \/ ExpireSealed(b) \/ FindByLink(b) \/ Touch(b) \/ FindByEmail(b)
             \/ LinkFind(b) \/ LinkCheck(b) \/ Unlink(b)
      PROVE  UNCHANGED links
  BY <1>4 DEF ExpireSealed, FindByLink, Touch, FindByEmail, LinkFind, LinkCheck, Unlink, accountVars
<1>5. CASE SignInNext
  BY <1>1, <1>2, <1>3, <1>4, <1>5 DEF SignInNext
<1>6. CASE AccountsNext
  BY <1>6 DEF AccountsNext, Register, Login, ChangePassword, RequestReset, ResetPassword,
     DeleteAccount, AdminAct, Logout, CreateUser, Subscribe, OpenSession, SetPassword,
     RevokeOthers, Burn, Mint, Reset, RevokeAll, CountAdmins, Apply, Die, Promote, ExpireToken,
     ExpireSession
<1>7. CASE KeyNext
  BY <1>7 DEF KeyNext, OpenCreate, SubmitCreate, Dismiss, Saved, SubmitRename, SubmitRevoke,
     AnswerArrives, CountKeys, CreateKey, FindKey, RevokeKey, ListKeys, LoseAnswer, signInVars
<1> QED BY <1>5, <1>6, <1>7 DEF Next, AccountNext

(* LinkFollowsItsStarter: an identity is attached to the account of the    *)
(* address Google states, or to one that started a linking flow itself.    *)
THEOREM LinksFollowTheirStarter == Spec => LinkFollowsItsStarter
<1> DEFINE follows == part = "accounts" => \A s \in Subjects :
             links[s] = Null /\ links'[s] # Null =>
               \/ users[links'[s]].email \in {EmailOf[s], Null}
               \/ \E f \in Flows : flow[f] # Null /\ flow[f].link = links'[s]
<1>1. AccountInv /\ [Next]_vars => [follows]_vars
  <2> SUFFICES ASSUME AccountInv, Next, part = "accounts", NEW s \in Subjects,
                      links[s] = Null, links'[s] # Null
               PROVE  \/ users[links'[s]].email \in {EmailOf[s], Null}
                      \/ \E f \in Flows : flow[f] # Null /\ flow[f].link = links'[s]
    OBVIOUS
  <2>1. AccountParts /\ links \in [Subjects -> Users \union {Null}]
    BY DEF AccountInv, AccountParts, AccountTyped, TablesTyped
  <2>2. PICK b \in Browsers : Attach(b) \/ LinkAttach(b)
    <3>1. ASSUME NEW b \in Browsers, Drop(b) \/ RemoveLink(b) \/ Close(b)
          PROVE  links'[s] = Null
      BY <2>1, <3>1 DEF Drop, RemoveLink, Close
    <3> QED BY <3>1, LinksChange
  <2>3. Fits(req[b], b)
    BY <2>1 DEF AccountParts
  <2>4. /\ req[b].at \in {"attach", "linkAttach"}
        /\ links' = links \/ links' = [links EXCEPT ![req[b].via] = req[b].user]
    BY <2>2 DEF Attach, LinkAttach
  <2>5. req[b].via = s /\ links'[s] = req[b].user
    BY <2>1, <2>4
  <2>6. CASE req[b].at = "attach"
    BY <2>3, <2>5, <2>6 DEF Fits, FromGoogle
  <2>7. CASE req[b].at = "linkAttach"
    BY <2>3, <2>5, <2>7 DEF Fits
  <2> QED BY <2>4, <2>6, <2>7
<1> QED BY <1>1, AccountsInvariance, PTL DEF Spec, LinkFollowsItsStarter

(* Most steps leave a row its address, role and status, and replace a      *)
(* password by another one.                                                *)
RowsKept ==
  \A u \in Users : users[u] # Null =>
    /\ users'[u] # Null /\ users'[u].email = users[u].email
    /\ users'[u].role = users[u].role /\ users'[u].status = users[u].status
    /\ users'[u].password \in Passwords \union {users[u].password}

LEMMA RowsChange ==
  ASSUME AccountParts, part = "accounts", Next
  PROVE  \/ RowsKept
         \/ \E b \in Browsers : Close(b) \/ Apply(b)
         \/ \E u \in Users, role \in {"user", "admin"} : Promote(u, role)
<1>1. users \in [Users -> Row \union {Null}]
  BY DEF AccountParts, AccountTyped, TablesTyped
<1>2. ASSUME UNCHANGED users
      PROVE  RowsKept
  BY <1>2 DEF RowsKept
<1>3. ASSUME NEW u \in Users, NEW p \in Passwords, users[u] # Null,
             users' = [users EXCEPT ![u].password = p]
      PROVE  RowsKept
  <2> DEFINE row == [users[u] EXCEPT !.password = p]
  <2>1. users[u] \in Row
    BY <1>1, <1>3
  <2>2. /\ row \in Row /\ row.password = p /\ row.email = users[u].email
        /\ row.role = users[u].role /\ row.status = users[u].status
    BY <2>1 DEF Row
  <2>3. users' = [users EXCEPT ![u] = row]
    BY <1>3
  <2> HIDE DEF row
  <2>4. users'[u] = row /\ row # Null /\ \A v \in Users : v # u => users'[v] = users[v]
    BY <1>1, <2>2, <2>3, AccountsAssumption
  <2> QED BY <2>2, <2>4 DEF RowsKept
<1>4. ASSUME NEW b \in Browsers, SetPassword(b) \/ Reset(b)
      PROVE  RowsKept
  <2>1. Fits(req[b], b) /\ req[b].at \in {"setPassword", "reset"}
    BY <1>4 DEF SetPassword, Reset, AccountParts
  <2>2. /\ req[b].user \in Users /\ users[req[b].user] # Null /\ req[b].value \in Passwords
        /\ users' = [users EXCEPT ![req[b].user].password = req[b].value]
    BY <1>4, <2>1 DEF SetPassword, Reset, Fits, Locations
  <2> QED BY <1>3, <2>2
<1>5. ASSUME NEW b \in Browsers, CreateUser(b)
      PROVE  RowsKept
  <2>1. CASE UNCHANGED users
    BY <1>2, <2>1
  <2>2. CASE ~UNCHANGED users
    <3> DEFINE u == NewId(users)
    <3>1. Unused(users) # {} /\ \E row : users' = [users EXCEPT ![u] = row]
      BY <1>5, <2>2 DEF CreateUser
    <3>2. u \in Unused(users)
      BY <3>1 DEF NewId
    <3> HIDE DEF u
    <3>3. u \in Users /\ users[u] = Null
      BY <1>1, <3>2 DEF Unused
    <3>4. \A v \in Users : users[v] # Null => users'[v] = users[v]
      BY <1>1, <3>1, <3>3
    <3> QED BY <3>4 DEF RowsKept
  <2> QED BY <2>1, <2>2
<1>6. CASE SignInNext
  <2>1. ASSUME NEW b \in Browsers, NEW linking \in BOOLEAN, StartGoogle(b, linking)
        PROVE  UNCHANGED users
    BY <2>1 DEF StartGoogle, accountVars
  <2>2. ASSUME NEW b \in Browsers, NEW f \in Flows, NEW s \in Subjects, Callback(b, f, s)
        PROVE  UNCHANGED users
    BY <2>2 DEF Callback
  <2>3. ASSUME NEW b \in Browsers, NEW f \in Flows, Refusal(b, f)
        PROVE  UNCHANGED users
    BY <2>3 DEF Refusal, accountVars
  <2>4. ASSUME NEW b \in Browsers,
               \/ ExpireSealed(b) \/ FindByLink(b) \/ Touch(b) \/ Drop(b) \/ FindByEmail(b)
               \/ Attach(b) \/ LinkFind(b) \/ LinkCheck(b) \/ LinkAttach(b)
               \/ Unlink(b) \/ RemoveLink(b)
        PROVE  UNCHANGED users
    BY <2>4 DEF ExpireSealed, FindByLink, Touch, Drop, FindByEmail, Attach, LinkFind, LinkCheck,
       LinkAttach, Unlink, RemoveLink, accountVars
  <2> QED BY <1>2, <1>6, <2>1, <2>2, <2>3, <2>4 DEF SignInNext
<1>7. CASE AccountsNext
  <2>1. \/ UNCHANGED users
        \/ \E b \in Browsers : SetPassword(b) \/ Reset(b) \/ CreateUser(b) \/ Close(b) \/ Apply(b)
        \/ \E u \in Users, role \in {"user", "admin"} : Promote(u, role)
    BY <1>7 DEF AccountsNext, Register, Login, ChangePassword, RequestReset, ResetPassword,
       DeleteAccount, AdminAct, Logout, Subscribe, OpenSession, RevokeOthers, Burn, Mint,
       RevokeAll, CountAdmins, Die, ExpireToken, ExpireSession
  <2> QED BY <1>2, <1>4, <1>5, <2>1
<1>8. CASE KeyNext
  <2>1. UNCHANGED users
    BY <1>8 DEF KeyNext, OpenCreate, SubmitCreate, Dismiss, Saved, SubmitRename, SubmitRevoke,
       AnswerArrives, CountKeys, CreateKey, FindKey, RevokeKey, ListKeys, LoseAnswer, signInVars
  <2> QED BY <1>2, <2>1
<1> QED BY <1>6, <1>7, <1>8 DEF Next, AccountNext

(* A row is written whole: the other rows stay as they are.                *)
LEMMA CloseWrites ==
  ASSUME AccountParts, NEW b \in Browsers, Close(b)
  PROVE  /\ req[b].at = "close" /\ users'[req[b].user].email = Null
         /\ \A v \in Users : v # req[b].user => users'[v] = users[v]
<1> DEFINE u == req[b].user
           row == [users[u] EXCEPT !.status = "deleted", !.email = Null, !.password = Lost]
<1>1. Fits(req[b], b) /\ req[b].at = "close"
  BY DEF Close, AccountParts
<1>2. u \in Users /\ users[u] # Null
  BY <1>1 DEF Fits, Locations
<1>3. users' = [users EXCEPT ![u] = row]
  BY DEF Close
<1>4. users[u] \in Row
  BY <1>2 DEF AccountParts, AccountTyped, TablesTyped
<1> HIDE DEF u
<1>5. row.email = Null
  BY <1>4 DEF Row
<1> HIDE DEF row
<1>6. users'[u] = row /\ \A v \in Users : v # u => users'[v] = users[v]
  BY <1>2, <1>3 DEF AccountParts, AccountTyped, TablesTyped
<1> QED BY <1>1, <1>5, <1>6 DEF u

LEMMA OfficeWrites ==
  ASSUME AccountParts, NEW u \in Users, NEW row \in Row, users[u] # Null,
         users' = [users EXCEPT ![u] = row],
         row.email = users[u].email, row.password = users[u].password
  PROVE  /\ \A v \in Users : users[v] # Null =>
              users'[v].email = users[v].email /\ users'[v].password = users[v].password
         /\ \A v \in Users : v # u => users'[v] = users[v]
BY DEF AccountParts, AccountTyped, TablesTyped

LEMMA ApplyWrites ==
  ASSUME AccountParts, NEW b \in Browsers, Apply(b)
  PROVE  /\ req[b].at = "apply" /\ jar[b] # Null /\ jar[b].user # req[b].user
         /\ \A v \in Users : users[v] # Null =>
              users'[v].email = users[v].email /\ users'[v].password = users[v].password
         /\ \A v \in Users : v # req[b].user => users'[v] = users[v]
<1> DEFINE u == req[b].user
<1>1. Fits(req[b], b) /\ req[b].at = "apply"
  BY DEF Apply, AccountParts
<1>2. /\ u \in Users /\ users[u] # Null /\ jar[b] # Null /\ jar[b].user # u
      /\ req[b].act \in {"suspend", "reactivate", "make_admin", "revoke_admin"}
  BY <1>1 DEF Fits, Locations
<1>3. users[u] \in Row
  BY <1>2 DEF AccountParts, AccountTyped, TablesTyped
<1>4. \/ \E status \in {"active", "suspended"} : users' = [users EXCEPT ![u].status = status]
      \/ \E role \in {"user", "admin"} : users' = [users EXCEPT ![u].role = role]
  BY <1>2 DEF Apply
<1> HIDE DEF u
<1>5. ASSUME NEW status \in {"active", "suspended"}, users' = [users EXCEPT ![u].status = status]
      PROVE  \E row \in Row : /\ users' = [users EXCEPT ![u] = row]
                              /\ row.email = users[u].email /\ row.password = users[u].password
  <2> DEFINE row == [users[u] EXCEPT !.status = status]
  <2>1. row \in Row /\ row.email = users[u].email /\ row.password = users[u].password
    BY <1>3 DEF Row
  <2> QED BY <1>5, <2>1
<1>6. ASSUME NEW role \in {"user", "admin"}, users' = [users EXCEPT ![u].role = role]
      PROVE  \E row \in Row : /\ users' = [users EXCEPT ![u] = row]
                              /\ row.email = users[u].email /\ row.password = users[u].password
  <2> DEFINE row == [users[u] EXCEPT !.role = role]
  <2>1. row \in Row /\ row.email = users[u].email /\ row.password = users[u].password
    BY <1>3 DEF Row
  <2> QED BY <1>6, <2>1
<1>7. PICK row \in Row : /\ users' = [users EXCEPT ![u] = row]
                         /\ row.email = users[u].email /\ row.password = users[u].password
  BY <1>4, <1>5, <1>6
<1>8. /\ \A v \in Users : users[v] # Null =>
           users'[v].email = users[v].email /\ users'[v].password = users[v].password
      /\ \A v \in Users : v # u => users'[v] = users[v]
  BY <1>2, <1>7, OfficeWrites
<1> QED BY <1>1, <1>2, <1>8 DEF u

LEMMA PromoteWrites ==
  ASSUME AccountParts, NEW u \in Users, NEW role \in {"user", "admin"}, Promote(u, role)
  PROVE  \A v \in Users : users[v] # Null =>
           users'[v].email = users[v].email /\ users'[v].password = users[v].password
<1> DEFINE row == [users[u] EXCEPT !.role = role]
<1>1. users[u] # Null /\ users[u] \in Row
  BY DEF Promote, Exists, AccountParts, AccountTyped, TablesTyped
<1>2. row \in Row /\ row.email = users[u].email /\ row.password = users[u].password
  BY <1>1 DEF Row
<1>3. users' = [users EXCEPT ![u] = row]
  BY DEF Promote
<1> HIDE DEF row
<1> QED BY <1>1, <1>2, <1>3, OfficeWrites

-----------------------------------------------------------------------------
(* A row that can be entered keeps a password, and a link goes only from   *)
(* an account that is closed, is being closed or has one.                  *)
LEMMA PasswordsStay ==
  ASSUME AccountParts, part = "accounts", Next, NEW u \in Users, users[u] # Null,
         users[u].password \in Passwords
  PROVE  users'[u].password \in Passwords \/ users'[u].email = Null
<1>1. CASE RowsKept
  BY <1>1 DEF RowsKept
<1>2. ASSUME NEW b \in Browsers, Close(b)
      PROVE  users'[u].password \in Passwords \/ users'[u].email = Null
  BY <1>2, CloseWrites
<1>3. ASSUME NEW b \in Browsers, Apply(b)
      PROVE  users'[u].password \in Passwords
  <2>1. users'[u].password = users[u].password
    BY <1>3, ApplyWrites
  <2> QED BY <2>1
<1>4. ASSUME NEW v \in Users, NEW role \in {"user", "admin"}, Promote(v, role)
      PROVE  users'[u].password \in Passwords
  <2>1. users'[u].password = users[u].password
    BY <1>4, PromoteWrites
  <2> QED BY <2>1
<1> QED BY <1>1, <1>2, <1>3, <1>4, RowsChange

LEMMA LinksLeave ==
  ASSUME AccountParts, part = "accounts", Next, NEW s \in Subjects, links[s] # Null
  PROVE  \/ links'[s] = links[s]
         \/ users'[links[s]].email = Null
         \/ users[links[s]].email = Null
         \/ users[links[s]].password \in Passwords
<1>1. /\ links \in [Subjects -> Users \union {Null}] /\ links[s] \in Users
      /\ users[links[s]] # Null /\ users[links[s]] \in Row
  BY DEF AccountParts, AccountTyped, TablesTyped, Referential
<1>2. ASSUME NEW b \in Browsers, Drop(b)
      PROVE  links'[s] = links[s] \/ users[links[s]].email = Null
  <2>1. Fits(req[b], b) /\ req[b].at = "drop"
    BY <1>2 DEF Drop, AccountParts
  <2>2. users[req[b].user].email = Null
    BY <2>1 DEF Fits
  <2> QED BY <1>1, <1>2, <2>2 DEF Drop
<1>3. ASSUME NEW b \in Browsers, RemoveLink(b)
      PROVE  \/ links'[s] = links[s] \/ users[links[s]].email = Null
             \/ users[links[s]].password \in Passwords
  <2>1. Fits(req[b], b) /\ req[b].at = "unlink"
    BY <1>3 DEF RemoveLink, AccountParts
  <2>2. users[req[b].user].password # Null
    BY <2>1 DEF Fits
  <2>3. links'[s] = links[s] \/ links[s] = req[b].user
    BY <1>1, <1>3 DEF RemoveLink
  <2>4. users[links[s]].password = Lost => users[links[s]].email = Null
    BY <1>1 DEF AccountParts, ClosedIsNameless
  <2>5. users[links[s]].password \in Passwords \union {Null, Lost}
    BY <1>1 DEF Row
  <2> QED BY <2>2, <2>3, <2>4, <2>5
<1>4. ASSUME NEW b \in Browsers, Close(b)
      PROVE  links'[s] = links[s] \/ users'[links[s]].email = Null
  BY <1>1, <1>4, CloseWrites DEF Close
<1>5. ASSUME NEW b \in Browsers, Attach(b) \/ LinkAttach(b)
      PROVE  links'[s] = links[s]
  BY <1>1, <1>5 DEF Attach, LinkAttach
<1> QED BY <1>2, <1>3, <1>4, <1>5, LinksChange

LEMMA LastWayInKept ==
  ASSUME AccountParts, part = "accounts", Next, NEW u \in Users,
         users[u] # Null, users[u].email # Null, CanBeEntered(u)
  PROVE  CanBeEntered(u)' \/ users'[u].email = Null
<1>1. CASE users[u].password \in Passwords
  BY <1>1, PasswordsStay DEF CanBeEntered
<1>2. CASE users[u].password \notin Passwords
  <2>1. PICK s \in Subjects : links[s] = u
    BY <1>2 DEF CanBeEntered, LinkOf
  <2>2. links[s] # Null
    BY <2>1, AccountsAssumption
  <2>3. links'[s] = u \/ users'[u].email = Null
    BY <1>2, <2>1, <2>2, LinksLeave
  <2>4. links'[s] = u => LinkOf(u)' # {}
    BY DEF LinkOf
  <2> QED BY <2>3, <2>4 DEF CanBeEntered
<1> QED BY <1>1, <1>2

LEMMA LastAdminKept ==
  ASSUME AccountParts, part = "accounts", Next, Admins # {}, Admins' = {}
  PROVE  \/ \E b \in Browsers : req[b].at = "apply" /\ jar[b].user \notin Admins
         \/ \E b \in Browsers : req[b].at = "close"
         \/ "promote" \in menu
<1>1. PICK u \in Users : /\ users[u] # Null /\ users[u].role = "admin"
                         /\ users[u].status = "active"
  BY DEF Admins, Exists
<1>2. \A v \in Users : users'[v] = Null \/ users'[v].role # "admin" \/ users'[v].status # "active"
  BY DEF Admins, Exists
<1>3. ~RowsKept
  BY <1>1, <1>2 DEF RowsKept
<1>4. ASSUME NEW b \in Browsers, Apply(b)
      PROVE  req[b].at = "apply" /\ jar[b].user \notin Admins
  <2>1. /\ req[b].at = "apply" /\ jar[b].user # req[b].user
        /\ \A v \in Users : v # req[b].user => users'[v] = users[v]
    BY <1>4, ApplyWrites
  <2> QED BY <1>2, <2>1 DEF Admins, Exists
<1>5. ASSUME NEW b \in Browsers, Close(b)
      PROVE  req[b].at = "close"
  BY <1>5 DEF Close
<1>6. ASSUME NEW v \in Users, NEW role \in {"user", "admin"}, Promote(v, role)
      PROVE  "promote" \in menu
  BY <1>6 DEF Promote
<1> QED BY <1>3, <1>4, <1>5, <1>6, RowsChange

(* LastOneIsKept: no account that can be entered loses its last way in,    *)
(* and the last administrator goes only by a race of two who act on each   *)
(* other, by the own departure, or by the operator's script.               *)
THEOREM TheLastOneIsKept == Spec => LastOneIsKept
<1> DEFINE enters == part = "accounts" => \A u \in Users :
             Exists(u) /\ users[u].email # Null /\ CanBeEntered(u) =>
               CanBeEntered(u)' \/ users'[u].email = Null
           rules == part = "accounts" /\ Admins # {} /\ Admins' = {} =>
             \/ \E b \in Browsers : req[b].at = "apply" /\ jar[b].user \notin Admins
             \/ \E b \in Browsers : req[b].at = "close"
             \/ "promote" \in menu
<1>1. AccountInv /\ [Next]_vars => [enters]_vars
  BY LastWayInKept DEF AccountInv, Exists
<1>2. AccountInv /\ [Next]_vars => [rules]_vars
  BY LastAdminKept DEF AccountInv
<1>3. Spec => LastWayInIsKept
  BY <1>1, AccountsInvariance, PTL DEF Spec, LastWayInIsKept
<1>4. Spec => LastAdminGoesByRace
  BY <1>2, AccountsInvariance, PTL DEF Spec, LastAdminGoesByRace
<1> QED BY <1>3, <1>4 DEF LastOneIsKept

(* SecretIsReplacedOnlyInHaste: a secret on the screen gives way to        *)
(* another one only where a create or a rename was submitted while the     *)
(* page waited.                                                            *)
THEOREM SecretsAreReplacedInHaste == Spec => SecretIsReplacedOnlyInHaste
<1> DEFINE hasty == part = "accounts" => \A b \in Browsers :
             page[b].revealed # Null /\ page'[b].revealed \notin {Null, page[b].revealed} =>
               page[b].hasty
<1>1. AccountInv /\ [Next]_vars => [hasty]_vars
  <2> SUFFICES ASSUME AccountInv, Next, part = "accounts", NEW b \in Browsers,
                      page[b].revealed # Null, page'[b].revealed \notin {Null, page[b].revealed}
               PROVE  page[b].hasty
    OBVIOUS
  <2>1. AccountParts /\ KeyParts /\ page \in [Browsers -> Page] /\ page[b] \in Page
    BY DEF AccountInv, KeyParts, KeyTyped
  <2>2. CASE UNCHANGED page
    BY <2>2
  <2>3. ASSUME NEW c \in Browsers, NEW p \in Page, page' = [page EXCEPT ![c] = p],
               p.revealed \in {Null, page[c].revealed}
        PROVE  FALSE
    BY <2>1, <2>3
  <2>4. ASSUME NEW c \in Browsers, OpenCreate(c)
        PROVE  FALSE
    <3> DEFINE p == [page[c] EXCEPT !.createOpen = TRUE]
    <3>1. page[c] \in Page
      BY <2>1
    <3>2. p \in Page /\ p.revealed = page[c].revealed
      BY <3>1 DEF Page
    <3> QED BY <2>3, <2>4, <3>2 DEF OpenCreate
  <2>5. ASSUME NEW c \in Browsers, Saved(c)
        PROVE  FALSE
    <3> DEFINE p == [page[c] EXCEPT !.revealed = Null]
    <3>1. page[c] \in Page
      BY <2>1
    <3>2. p \in Page /\ p.revealed = Null
      BY <3>1 DEF Page
    <3> QED BY <2>3, <2>5, <3>2 DEF Saved
  <2>6. ASSUME NEW c \in Browsers, SubmitCreate(c) \/ SubmitRename(c)
        PROVE  FALSE
    <3> DEFINE p == [page[c] EXCEPT !.busy = TRUE, !.hasty = page[c].hasty \/ page[c].busy]
    <3>1. page[c] \in Page
      BY <2>1
    <3>2. p \in Page /\ p.revealed = page[c].revealed
      BY <3>1 DEF Page
    <3>3. page' = [page EXCEPT ![c] = p]
      BY <2>6 DEF SubmitCreate, SubmitRename
    <3> HIDE DEF p
    <3> QED BY <2>3, <3>2, <3>3
  <2>7. ASSUME NEW c \in Browsers, Dismiss(c) \/ \E row \in page[c].rows : SubmitRevoke(c, row)
        PROVE  FALSE
    <3>1. page[c] \in Page
      BY <2>1
    <3>2. CASE Dismiss(c)
      <4> DEFINE p == [page[c] EXCEPT !.createOpen = FALSE]
      <4>1. p \in Page /\ p.revealed = page[c].revealed
        BY <3>1 DEF Page
      <4>2. page' = [page EXCEPT ![c] = p]
        BY <3>2 DEF Dismiss
      <4> HIDE DEF p
      <4> QED BY <2>3, <4>1, <4>2
    <3>3. CASE \E row \in page[c].rows : SubmitRevoke(c, row)
      <4> DEFINE p == [page[c] EXCEPT !.busy = TRUE]
      <4>1. p \in Page /\ p.revealed = page[c].revealed
        BY <3>1 DEF Page
      <4>2. page' = [page EXCEPT ![c] = p]
        BY <3>3 DEF SubmitRevoke
      <4> HIDE DEF p
      <4> QED BY <2>3, <4>1, <4>2
    <3> QED BY <2>7, <3>2, <3>3
  <2>8. ASSUME NEW n \in Submits, AnswerArrives(n)
        PROVE  page[b].hasty
    <3> DEFINE c == sent[n].browser
               created == sent[n].at = "answer" /\ sent[n].kind = "create"
               p == [page[c] EXCEPT !.busy = FALSE,
                       !.rows = IF sent[n].at = "answer" THEN sent[n].rows ELSE page[c].rows,
                       !.createOpen = page[c].createOpen /\ ~created,
                       !.revealed = IF created THEN sent[n].key ELSE page[c].revealed]
    <3>0. page' = [page EXCEPT ![c] = p]
      BY <2>8 DEF AnswerArrives
    <3> HIDE DEF p
    <3>1. /\ sent[n] # Null /\ sent[n].at \in {"answer", "refused"}
          /\ \E r : page' = [page EXCEPT ![sent[n].browser] = r]
      BY <2>8, <3>0 DEF AnswerArrives
    <3>2. sent[n].browser = b
      BY <2>1, <3>1
    <3>3. n \in Waiting(b)
      BY <3>1, <3>2 DEF Waiting
    <3> QED BY <2>1, <3>3 DEF KeyParts, Calm
  <2>9. UNCHANGED page \/ KeyNext
    BY DEF Next, AccountNext, keyVars
  <2>10. CASE KeyNext
    <3>1. ASSUME NEW n \in Submits,
                 CountKeys(n) \/ CreateKey(n) \/ FindKey(n) \/ RevokeKey(n) \/ ListKeys(n) \/ LoseAnswer(n)
          PROVE  UNCHANGED page
      BY <3>1 DEF CountKeys, CreateKey, FindKey, RevokeKey, ListKeys, LoseAnswer
    <3> QED BY <2>2, <2>4, <2>5, <2>6, <2>7, <2>8, <2>10, <3>1 DEF KeyNext
  <2> QED BY <2>2, <2>9, <2>10
<1> QED BY <1>1, AccountsInvariance, PTL DEF Spec, SecretIsReplacedOnlyInHaste


-----------------------------------------------------------------------------
(* What the pages of the integrations show.                                *)

(* The list is the stored one, or a write went unseen.                     *)
BenchFresh(w) == bench[w].missed \/ bench[w].list = Workbench!Rows

(* The page of a window waits for its one request.                         *)
Waiter(w, q) == posts[q] # Null /\ posts[q].window = w

OneWaits ==
  \A w \in Browsers, q \in Browsers : Waiter(w, q) =>
    bench[w].busy /\ \A r \in Browsers : Waiter(w, r) => r = q

BenchAgrees ==
  \A w \in Browsers : bench[w].alone =>
    /\ \A q \in Browsers : posts[q] # Null =>
         /\ posts[q].window = w
         /\ posts[q].at \in {"count", "create", "delete", "refused"} => BenchFresh(w)
         /\ posts[q].at = "answer" => posts[q].list = Workbench!Rows
    /\ (\A q \in Browsers : posts[q] = Null) => BenchFresh(w)

BenchShown == part = "integrations" => OneWaits /\ BenchAgrees

BenchSays == BenchParts /\ OneWaits /\ BenchAgrees

LEMMA BenchBeginsShown ==
  ASSUME Workbench!BenchInit
  PROVE  OneWaits /\ BenchAgrees
<1>1. /\ posts = [q \in Browsers |-> Null]
      /\ \A w \in Browsers : bench[w].list = Workbench!Rows
  BY DEF Workbench!BenchInit
<1> QED BY <1>1 DEF OneWaits, BenchAgrees, Waiter, BenchFresh

(* Only what else the page consists of has changed.                        *)
LEMMA BenchShowsOn ==
  ASSUME OneWaits, BenchAgrees, UNCHANGED <<notes, posts>>,
         \A w \in Browsers : /\ bench'[w].busy = bench[w].busy
                            /\ bench'[w].list = bench[w].list
                            /\ bench'[w].alone = bench[w].alone
                            /\ bench'[w].missed = bench[w].missed
  PROVE  OneWaits' /\ BenchAgrees'
<1>1. Workbench!Rows' = Workbench!Rows
  BY DEF Workbench!Rows
<1>2. \A w, q \in Browsers : Waiter(w, q)' <=> Waiter(w, q)
  BY DEF Waiter
<1>3. \A w \in Browsers : BenchFresh(w)' <=> BenchFresh(w)
  BY <1>1 DEF BenchFresh
<1> QED BY <1>1, <1>2, <1>3 DEF OneWaits, BenchAgrees

LEMMA PageClicksShow ==
  ASSUME BenchSays, NEW w \in Browsers,
         \/ Workbench!OpenCreate(w) \/ Workbench!Dismiss(w)
         \/ \E i \in bench[w].list : Workbench!OpenDelete(w, i)
  PROVE  OneWaits' /\ BenchAgrees'
<1>1. bench \in [Browsers -> Workbench!Bench] /\ bench[w] \in Workbench!Bench
  BY DEF BenchSays, BenchParts, BenchTyped
<1>2. ASSUME NEW p \in Workbench!Bench, Workbench!Click(w, p), p.busy = bench[w].busy,
             p.list = bench[w].list, p.alone = bench[w].alone, p.missed = bench[w].missed, UNCHANGED <<notes, posts>>
      PROVE  OneWaits' /\ BenchAgrees'
  <2> DEFINE shown(v) == [IF v = w THEN p ELSE bench[v] EXCEPT !.clicks = @ + 1]
  <2>1. \A v \in Browsers : /\ shown(v).busy = bench[v].busy
                           /\ shown(v).list = bench[v].list
                           /\ shown(v).alone = bench[v].alone
                           /\ shown(v).missed = bench[v].missed
    <3> SUFFICES ASSUME NEW v \in Browsers
                 PROVE  /\ shown(v).busy = bench[v].busy
                        /\ shown(v).list = bench[v].list
                        /\ shown(v).alone = bench[v].alone
                        /\ shown(v).missed = bench[v].missed
      OBVIOUS
    <3> DEFINE before == IF v = w THEN p ELSE bench[v]
    <3>1. before \in Workbench!Bench /\ before.busy = bench[v].busy
          /\ before.list = bench[v].list /\ before.alone = bench[v].alone
          /\ before.missed = bench[v].missed
      BY <1>1, <1>2
    <3> HIDE DEF before
    <3> DEFINE r == [before EXCEPT !.clicks = @ + 1]
    <3>2. r.busy = before.busy /\ r.list = before.list /\ r.alone = before.alone
          /\ r.missed = before.missed
      BY <3>1 DEF Workbench!Bench
    <3> QED BY <3>1, <3>2 DEF before
  <2>2. bench' = [v \in Browsers |-> shown(v)]
    BY <1>2 DEF Workbench!Click
  <2> HIDE DEF shown
  <2>3. \A v \in Browsers : bench'[v] = shown(v)
    BY <2>2
  <2> QED BY <1>2, <2>1, <2>3, BenchShowsOn DEF BenchSays
<1>3. CASE Workbench!OpenCreate(w)
  <2> DEFINE p == [bench[w] EXCEPT !.creating = TRUE]
  <2>1. p \in Workbench!Bench /\ p.busy = bench[w].busy /\ p.list = bench[w].list
        /\ p.alone = bench[w].alone /\ p.missed = bench[w].missed
    BY <1>1 DEF Workbench!Bench
  <2>2. Workbench!Click(w, p) /\ UNCHANGED <<notes, posts>>
    BY <1>3 DEF Workbench!OpenCreate
  <2> HIDE DEF p
  <2> QED BY <1>2, <2>1, <2>2
<1>4. ASSUME NEW i \in bench[w].list, Workbench!OpenDelete(w, i)
      PROVE  OneWaits' /\ BenchAgrees'
  <2> DEFINE p == [bench[w] EXCEPT !.deleting = i]
  <2>1. i \in Nat
    BY <1>1 DEF Workbench!Bench
  <2>2. p \in Workbench!Bench /\ p.busy = bench[w].busy /\ p.list = bench[w].list
        /\ p.alone = bench[w].alone /\ p.missed = bench[w].missed
    BY <1>1, <2>1 DEF Workbench!Bench
  <2>3. Workbench!Click(w, p) /\ UNCHANGED <<notes, posts>>
    BY <1>4 DEF Workbench!OpenDelete
  <2> HIDE DEF p
  <2> QED BY <1>2, <2>2, <2>3
<1>5. CASE Workbench!Dismiss(w)
  <2> DEFINE p == [bench[w] EXCEPT !.creating = FALSE, !.deleting = 0]
  <2>1. p.busy = bench[w].busy /\ p.list = bench[w].list /\ p.alone = bench[w].alone
        /\ p.missed = bench[w].missed
    BY <1>1 DEF Workbench!Bench
  <2>2. bench' = [bench EXCEPT ![w] = p] /\ UNCHANGED <<notes, posts>>
    BY <1>5 DEF Workbench!Dismiss
  <2> HIDE DEF p
  <2>3. \A v \in Browsers : bench'[v] = IF v = w THEN p ELSE bench[v]
    BY <1>1, <2>2
  <2> QED BY <2>1, <2>2, <2>3, BenchShowsOn DEF BenchSays
<1> QED BY <1>3, <1>4, <1>5

LEMMA PostShows ==
  ASSUME BenchSays, NEW q \in Browsers, NEW w \in Browsers, NEW kind \in {"create", "delete"},
         NEW id \in Nat, ~bench[w].busy, Workbench!Post(q, w, kind, id)
  PROVE  OneWaits' /\ BenchAgrees'
<1> DEFINE x == [window |-> w, kind |-> kind, id |-> id, list |-> {},
                 at |-> IF kind = "create" THEN "count" ELSE "delete", together |-> FALSE]
           mine(v) == \A r \in Browsers : posts[r] = Null \/ posts[r].window = v
           shown(v) == [bench[v] EXCEPT !.clicks = @ + 1, !.busy = @ \/ v = w,
                          !.alone = @ /\ v = w /\ mine(v)]
<1>1. /\ posts[q] = Null /\ posts' = [posts EXCEPT ![q] = x] /\ UNCHANGED notes
      /\ bench' = [v \in Browsers |-> shown(v)]
  BY DEF Workbench!Post
<1>2. x.window = w /\ x.at \in {"count", "delete"}
  OBVIOUS
<1>3. \A v \in Browsers : /\ shown(v).list = bench[v].list
                         /\ shown(v).busy = (bench[v].busy \/ v = w)
                         /\ shown(v).missed = bench[v].missed
                         /\ (shown(v).alone => (bench[v].alone /\ v = w))
  <2> SUFFICES ASSUME NEW v \in Browsers
               PROVE  /\ shown(v).list = bench[v].list
                      /\ shown(v).busy = (bench[v].busy \/ v = w)
                      /\ shown(v).missed = bench[v].missed
                      /\ (shown(v).alone => (bench[v].alone /\ v = w))
    OBVIOUS
  <2> DEFINE before == bench[v]
             busy == before.busy \/ v = w
             only == mine(v)
             alone == before.alone /\ v = w /\ only
  <2>1. before \in Workbench!Bench
    BY DEF BenchSays, BenchParts, BenchTyped
  <2>2. shown(v) = [before EXCEPT !.clicks = @ + 1, !.busy = busy, !.alone = alone]
    BY <2>1 DEF Workbench!Bench
  <2>3. alone => before.alone /\ v = w
    OBVIOUS
  <2>4. busy = (bench[v].busy \/ v = w)
    OBVIOUS
  <2> HIDE DEF before, busy, alone, shown
  <2>5. shown(v).list = before.list /\ shown(v).busy = busy /\ shown(v).alone = alone
        /\ shown(v).missed = before.missed
    BY <2>1, <2>2 DEF Workbench!Bench
  <2> QED BY <2>3, <2>4, <2>5 DEF before
<1> HIDE DEF x, shown, mine
<1>4. /\ \A v \in Browsers : bench'[v] = shown(v)
      /\ \A r \in Browsers : posts'[r] = IF r = q THEN x ELSE posts[r]
  BY <1>1 DEF BenchSays, BenchParts, BenchTyped
<1>5. Workbench!Rows' = Workbench!Rows
  BY <1>1 DEF Workbench!Rows
<1>6. OneWaits'
  <2> SUFFICES ASSUME NEW v \in Browsers, NEW r \in Browsers, posts'[r] # Null, posts'[r].window = v
               PROVE  bench'[v].busy /\ \A i \in Browsers :
                        posts'[i] # Null /\ posts'[i].window = v => i = r
    BY DEF OneWaits, Waiter
  <2>1. \A i \in Browsers : posts[i] # Null /\ posts[i].window = v =>
          bench[v].busy /\ \A k \in Browsers : posts[k] # Null /\ posts[k].window = v => k = i
    BY DEF BenchSays, OneWaits, Waiter
  <2>2. bench'[v].busy = (bench[v].busy \/ v = w)
    BY <1>3, <1>4
  <2>3. CASE v = w
    <3>1. \A i \in Browsers : ~(posts[i] # Null /\ posts[i].window = v)
      BY <2>1, <2>3
    <3> QED BY <1>4, <2>2, <2>3, <3>1
  <2>4. CASE v # w
    <3>1. \A i \in Browsers : posts'[i] # Null /\ posts'[i].window = v =>
                             posts[i] # Null /\ posts[i].window = v
      BY <1>2, <1>4, <2>4
    <3> QED BY <2>1, <2>2, <3>1
  <2> QED BY <2>3, <2>4
<1>7. ASSUME NEW r \in Browsers, posts[r] # Null, bench[w].alone
      PROVE  FALSE
  <2>1. posts[r].window = w
    BY <1>7 DEF BenchSays, BenchAgrees
  <2>2. Waiter(w, r)
    BY <1>7, <2>1 DEF Waiter
  <2> QED BY <2>2 DEF BenchSays, OneWaits
<1>8. BenchAgrees'
  <2> SUFFICES ASSUME NEW v \in Browsers, bench'[v].alone
               PROVE  /\ \A r \in Browsers : posts'[r] # Null =>
                           /\ posts'[r].window = v
                           /\ posts'[r].at \in {"count", "create", "delete", "refused"} =>
                                BenchFresh(v)'
                           /\ posts'[r].at = "answer" => posts'[r].list = Workbench!Rows'
                      /\ (\A r \in Browsers : posts'[r] = Null) => BenchFresh(v)'
    BY DEF BenchAgrees
  <2>1. /\ v = w /\ bench[w].alone /\ bench'[v].list = bench[w].list
        /\ bench'[v].missed = bench[w].missed
    <3>1. bench'[v] = shown(v)
      BY <1>4
    <3>2. shown(v).alone /\ shown(v).list = bench[v].list /\ shown(v).missed = bench[v].missed
      BY <1>3, <3>1
    <3>3. v = w /\ bench[v].alone
      BY <1>3, <3>2
    <3> QED BY <3>1, <3>2, <3>3
  <2>2. \A r \in Browsers : posts[r] = Null
    BY <1>7, <2>1
  <2>3. BenchFresh(w)
    <3>1. BenchAgrees
      BY DEF BenchSays
    <3> QED BY <2>1, <2>2, <3>1 DEF BenchAgrees
  <2>4. BenchFresh(v)'
    BY <1>5, <2>1, <2>3 DEF BenchFresh
  <2> QED BY <1>2, <1>4, <2>1, <2>2, <2>4
<1> QED BY <1>6, <1>8

(* A request moves on: it may write rows before it lists them.             *)
LEMMA PostGoesOn ==
  ASSUME BenchSays, NEW q \in Browsers, NEW x, x # Null, posts[q] # Null, posts' = [posts EXCEPT ![q] = x],
         x.window = posts[q].window, UNCHANGED bench,
         \/ x.at = "list"
         \/ /\ Workbench!Rows' = Workbench!Rows
            /\ \/ x.at = "answer" /\ x.list = Workbench!Rows
               \/ posts[q].at \in {"count", "create", "delete", "refused"} /\ x.at # "answer"
  PROVE  OneWaits' /\ BenchAgrees'
<1>1. \A r \in Browsers : posts'[r] = IF r = q THEN x ELSE posts[r]
  BY DEF BenchSays, BenchParts, BenchTyped
<1>2. OneWaits'
  BY <1>1 DEF BenchSays, OneWaits, Waiter
<1>3. BenchAgrees'
  <2> SUFFICES ASSUME NEW v \in Browsers, bench[v].alone
               PROVE  /\ \A r \in Browsers : posts'[r] # Null =>
                           /\ posts'[r].window = v
                           /\ posts'[r].at \in {"count", "create", "delete", "refused"} =>
                                BenchFresh(v)'
                           /\ posts'[r].at = "answer" => posts'[r].list = Workbench!Rows'
                      /\ (\A r \in Browsers : posts'[r] = Null) => BenchFresh(v)'
    BY DEF BenchAgrees
  <2>1. \A r \in Browsers : posts[r] # Null => posts[r].window = v /\ r = q
    BY DEF BenchSays, OneWaits, BenchAgrees, Waiter
  <2>2. posts[q].window = v /\ (posts[q].at \in {"count", "create", "delete", "refused"} =>
                                  BenchFresh(v))
    <3>1. BenchAgrees
      BY DEF BenchSays
    <3> QED BY <3>1 DEF BenchAgrees
  <2>3. Workbench!Rows' = Workbench!Rows => (BenchFresh(v)' <=> BenchFresh(v))
    BY DEF BenchFresh
  <2>4. x # Null => /\ x.at \in {"count", "create", "delete", "refused"} => BenchFresh(v)'
                    /\ x.at = "answer" => x.list = Workbench!Rows'
    BY <2>2, <2>3
  <2> QED BY <1>1, <2>1, <2>2, <2>4
<1> QED BY <1>2, <1>3

LEMMA RowsAreNumbers ==
  ASSUME BenchParts
  PROVE  Workbench!Rows \in SUBSET Nat
<1>1. Workbench!Rows \subseteq SavedIds
  BY DEF Workbench!Rows, SavedIds
<1>2. SavedIds = 1 .. Cardinality(SavedIds) /\ Cardinality(SavedIds) \in Nat
  BY FS_CardinalityType DEF BenchParts, BenchTyped
<1> QED BY <1>1, <1>2

LEMMA ServiceShows ==
  ASSUME BenchSays, NEW q \in Browsers,
         \/ Workbench!Count(q) \/ Workbench!Create(q) \/ Workbench!Delete(q) \/ Workbench!List(q)
  PROVE  OneWaits' /\ BenchAgrees'
<1>1. posts[q] # Null /\ posts[q] \in Workbench!Request
  BY DEF Workbench!Count, Workbench!Create, Workbench!Delete, Workbench!List, Workbench!At,
     BenchSays, BenchParts, BenchTyped
<1>2. ASSUME UNCHANGED notes
      PROVE  Workbench!Rows' = Workbench!Rows
  BY <1>2 DEF Workbench!Rows
<1>3. CASE Workbench!Count(q)
  <2> DEFINE at == IF Workbench!AtCap THEN "refused" ELSE "create"
             beside == \E r \in Browsers : Workbench!At(r, "create")
             x == [posts[q] EXCEPT !.at = at, !.together = beside]
  <2>1. posts' = [posts EXCEPT ![q] = x] /\ UNCHANGED <<notes, bench>> /\ posts[q].at = "count"
    BY <1>3 DEF Workbench!Count, Workbench!At
  <2>2. at \in {"refused", "create"} /\ beside \in BOOLEAN
    OBVIOUS
  <2> HIDE DEF at, beside
  <2>3. x \in Workbench!Request /\ x.at = at /\ x.window = posts[q].window
    BY <1>1, <2>2 DEF Workbench!Request
  <2> HIDE DEF x
  <2>4. x # Null
    BY <2>3, BenchAssumption
  <2> QED BY <1>1, <1>2, <2>1, <2>2, <2>3, <2>4, PostGoesOn
<1>4. CASE Workbench!Create(q) \/ (Workbench!Delete(q) /\ posts[q].id \in Workbench!Rows)
  <2> DEFINE x == [posts[q] EXCEPT !.at = "list"]
  <2>1. posts' = [posts EXCEPT ![q] = x] /\ UNCHANGED bench
    BY <1>4 DEF Workbench!Create, Workbench!Delete, Workbench!Go
  <2>2. x \in Workbench!Request /\ x.at = "list" /\ x.window = posts[q].window
    BY <1>1 DEF Workbench!Request
  <2> HIDE DEF x
  <2>3. x # Null
    BY <2>2, BenchAssumption
  <2> QED BY <1>1, <2>1, <2>2, <2>3, PostGoesOn
<1>5. CASE Workbench!Delete(q) /\ posts[q].id \notin Workbench!Rows
  <2> DEFINE x == [posts[q] EXCEPT !.at = "refused"]
  <2>1. posts' = [posts EXCEPT ![q] = x] /\ UNCHANGED <<notes, bench>> /\ posts[q].at = "delete"
    BY <1>5 DEF Workbench!Delete, Workbench!Go, Workbench!At
  <2>2. x \in Workbench!Request /\ x.at = "refused" /\ x.window = posts[q].window
    BY <1>1 DEF Workbench!Request
  <2> HIDE DEF x
  <2>3. x # Null
    BY <2>2, BenchAssumption
  <2> QED BY <1>1, <1>2, <2>1, <2>2, <2>3, PostGoesOn
<1>6. CASE Workbench!List(q)
  <2> DEFINE rows == Workbench!Rows
             x == [posts[q] EXCEPT !.list = rows, !.at = "answer"]
  <2>1. posts' = [posts EXCEPT ![q] = x] /\ UNCHANGED <<notes, bench>>
    BY <1>6 DEF Workbench!List
  <2>2. rows \in SUBSET Nat
    BY RowsAreNumbers DEF BenchSays
  <2> HIDE DEF rows
  <2>3. x \in Workbench!Request /\ x.at = "answer" /\ x.window = posts[q].window /\ x.list = rows
    BY <1>1, <2>2 DEF Workbench!Request
  <2> HIDE DEF x
  <2>4. x # Null
    BY <2>3, BenchAssumption
  <2> QED BY <1>1, <1>2, <2>1, <2>3, <2>4, PostGoesOn DEF rows
<1> QED BY <1>3, <1>4, <1>5, <1>6

LEMMA PostAnswersShow ==
  ASSUME BenchSays, NEW q \in Browsers, Workbench!Answer(q) \/ Workbench!AnswerError(q)
  PROVE  OneWaits' /\ BenchAgrees'
<1> DEFINE w == posts[q].window
           shown == bench'[w]
<1>1. posts[q] # Null /\ posts[q] \in Workbench!Request /\ posts[q].at \in {"answer", "refused"}
  BY DEF Workbench!Answer, Workbench!AnswerError, Workbench!At, BenchSays, BenchParts, BenchTyped
<1>2. w \in Browsers /\ bench[w] \in Workbench!Bench
  BY <1>1 DEF Workbench!Request, BenchSays, BenchParts, BenchTyped
<1>3. /\ posts' = [posts EXCEPT ![q] = Null] /\ UNCHANGED notes
      /\ \A r \in Browsers : posts'[r] = IF r = q THEN Null ELSE posts[r]
  BY DEF Workbench!Answer, Workbench!AnswerError, BenchSays, BenchParts, BenchTyped
<1>4. Workbench!Rows' = Workbench!Rows
  BY <1>3 DEF Workbench!Rows
<1>5. /\ \A v \in Browsers : v # w => bench'[v] = bench[v]
      /\ shown.alone = bench[w].alone
      /\ shown.list = IF posts[q].at = "answer" THEN posts[q].list ELSE bench[w].list
      /\ posts[q].at # "answer" => shown.missed = bench[w].missed
  <2>1. CASE Workbench!Answer(q)
    <3> DEFINE created == posts[q].kind = "create"
               p == [bench[w] EXCEPT !.list = posts[q].list, !.busy = FALSE,
                      !.missed = FALSE, !.creating = bench[w].creating /\ ~created,
                      !.deleting = IF created THEN bench[w].deleting ELSE 0]
    <3>1. bench' = [bench EXCEPT ![w] = p] /\ posts[q].at = "answer"
      BY <2>1 DEF Workbench!Answer, Workbench!At
    <3> HIDE DEF w, created
    <3>2. p.alone = bench[w].alone /\ p.list = posts[q].list
      BY <1>2 DEF Workbench!Bench
    <3> HIDE DEF p
    <3> QED BY <1>2, <3>1, <3>2 DEF BenchSays, BenchParts, BenchTyped
  <2>2. CASE Workbench!AnswerError(q)
    <3> DEFINE p == [bench[w] EXCEPT !.busy = FALSE]
    <3>1. bench' = [bench EXCEPT ![w] = p] /\ posts[q].at = "refused"
      BY <2>2 DEF Workbench!AnswerError, Workbench!At
    <3> HIDE DEF w
    <3>2. p.alone = bench[w].alone /\ p.list = bench[w].list /\ p.missed = bench[w].missed
      BY <1>2 DEF Workbench!Bench
    <3> HIDE DEF p
    <3> QED BY <1>2, <3>1, <3>2 DEF BenchSays, BenchParts, BenchTyped
  <2> QED BY <2>1, <2>2
<1> HIDE DEF shown
<1>6. OneWaits'
  <2> SUFFICES ASSUME NEW v \in Browsers, NEW r \in Browsers, posts'[r] # Null, posts'[r].window = v
               PROVE  bench'[v].busy /\ \A i \in Browsers :
                        posts'[i] # Null /\ posts'[i].window = v => i = r
    BY DEF OneWaits, Waiter
  <2>1. \A i \in Browsers : posts[i] # Null /\ posts[i].window = v =>
          bench[v].busy /\ \A k \in Browsers : posts[k] # Null /\ posts[k].window = v => k = i
    BY DEF BenchSays, OneWaits, Waiter
  <2>2. posts[r] # Null /\ posts[r].window = v /\ r # q
    BY <1>3
  <2>3. v # w
    BY <1>1, <2>1, <2>2
  <2> QED BY <1>3, <1>5, <2>1, <2>2, <2>3
<1>7. BenchAgrees'
  <2> SUFFICES ASSUME NEW v \in Browsers, bench'[v].alone
               PROVE  /\ \A r \in Browsers : posts'[r] = Null
                      /\ BenchFresh(v)'
    BY DEF BenchAgrees
  <2>1. bench[v].alone
    BY <1>5 DEF shown
  <2>2. \A r \in Browsers : posts[r] # Null =>
          /\ posts[r].window = v
          /\ posts[r].at \in {"count", "create", "delete", "refused"} => BenchFresh(v)
          /\ posts[r].at = "answer" => posts[r].list = Workbench!Rows
    BY <2>1 DEF BenchSays, BenchAgrees
  <2>3. v = w
    BY <1>1, <2>2
  <2>4. \A r \in Browsers : posts[r] # Null => r = q
    BY <1>1, <2>2 DEF BenchSays, OneWaits, Waiter
  <2>5. shown.list = Workbench!Rows \/ shown.missed
    BY <1>1, <1>5, <2>2, <2>3 DEF BenchFresh
  <2>6. BenchFresh(v)'
    BY <1>4, <2>3, <2>5 DEF shown, BenchFresh
  <2> QED BY <1>3, <2>4, <2>6
<1> QED BY <1>6, <1>7

(* The page learns later that its request is lost; it misses what was      *)
(* written.                                                                *)
LEMMA LoseShows ==
  ASSUME BenchSays, NEW q \in Browsers, Workbench!Lose(q)
  PROVE  OneWaits' /\ BenchAgrees'
<1> DEFINE w == posts[q].window
           late == posts[q].at \in {"list", "answer"}
           missed == bench[w].missed \/ late
           p == [bench[w] EXCEPT !.missed = missed]
           x == [posts[q] EXCEPT !.at = "refused"]
<1>1. posts[q] # Null /\ posts[q] \in Workbench!Request
  BY DEF Workbench!Lose, BenchSays, BenchParts, BenchTyped
<1>2. w \in Browsers /\ bench[w] \in Workbench!Bench
  BY <1>1 DEF Workbench!Request, BenchSays, BenchParts, BenchTyped
<1>3. /\ posts' = [posts EXCEPT ![q] = x] /\ UNCHANGED notes
      /\ bench' = [bench EXCEPT ![w] = p]
  BY DEF Workbench!Lose, Workbench!Go
<1>4. late \/ posts[q].at \in {"count", "create", "delete", "refused"}
  BY <1>1 DEF Workbench!Request
<1>5. x \in Workbench!Request /\ x.at = "refused" /\ x.window = w
  BY <1>1 DEF Workbench!Request
<1>6. x # Null
  BY <1>5, BenchAssumption
<1> HIDE DEF w, late, missed
<1>7. p.busy = bench[w].busy /\ p.list = bench[w].list /\ p.alone = bench[w].alone
      /\ p.missed = missed
  BY <1>2 DEF Workbench!Bench
<1> HIDE DEF x, p
<1>8. /\ \A r \in Browsers : posts'[r] = IF r = q THEN x ELSE posts[r]
      /\ \A v \in Browsers : bench'[v] = IF v = w THEN p ELSE bench[v]
  BY <1>2, <1>3 DEF BenchSays, BenchParts, BenchTyped
<1>9. \A v, r \in Browsers : Waiter(v, r)' <=> Waiter(v, r)
  BY <1>1, <1>5, <1>6, <1>8 DEF Waiter, w
<1>10. OneWaits'
  BY <1>7, <1>8, <1>9 DEF BenchSays, OneWaits
<1>11. BenchAgrees'
  <2> SUFFICES ASSUME NEW v \in Browsers, bench'[v].alone
               PROVE  /\ \A r \in Browsers : posts'[r] # Null => posts'[r].window = v /\ r = q
                      /\ BenchFresh(v)'
    BY <1>5, <1>8 DEF BenchAgrees
  <2>1. bench[v].alone /\ BenchAgrees
    BY <1>7, <1>8 DEF BenchSays
  <2>2. \A r \in Browsers : posts[r] # Null => posts[r].window = v
    BY <2>1 DEF BenchAgrees
  <2>3. v = w
    BY <1>1, <2>2 DEF w
  <2>4. \A r \in Browsers : posts[r] # Null => r = q
    BY <1>1, <2>2 DEF BenchSays, OneWaits, Waiter
  <2>5. late \/ BenchFresh(v)
    BY <1>1, <1>4, <2>1 DEF BenchAgrees
  <2>6. Workbench!Rows' = Workbench!Rows
    BY <1>3 DEF Workbench!Rows
  <2>7. BenchFresh(v)'
    BY <1>7, <1>8, <2>3, <2>5, <2>6 DEF BenchFresh, missed
  <2> QED BY <1>5, <1>8, <2>3, <2>4, <2>7
<1> QED BY <1>10, <1>11

LEMMA BenchShownInvariance == Spec => [](part = "integrations" => OneWaits /\ BenchAgrees)
<1> DEFINE I == part = "integrations" => OneWaits /\ BenchAgrees
<1>1. Init => I
  BY BenchBeginsShown DEF Init
<1>2. BenchInv /\ I /\ [Next]_vars => I'
  <2> SUFFICES ASSUME BenchInv, I, [Next]_vars, part' = "integrations"
               PROVE  OneWaits' /\ BenchAgrees'
    OBVIOUS
  <2>1. part = "integrations" /\ BenchSays
    BY DEF Next, vars, BenchInv, BenchSays
  <2>2. CASE Workbench!BenchNext
    <3>1. ASSUME NEW w \in Browsers, NEW q \in Browsers,
                 Workbench!SubmitCreate(q, w) \/ Workbench!SubmitDelete(q, w)
          PROVE  OneWaits' /\ BenchAgrees'
      <4>1. bench[w].deleting \in Nat
        BY <2>1 DEF BenchSays, BenchParts, BenchTyped, Workbench!Bench
      <4>2. ~bench[w].busy /\ \E kind \in {"create", "delete"}, id \in Nat : Workbench!Post(q, w, kind, id)
        BY <3>1, <4>1 DEF Workbench!SubmitCreate, Workbench!SubmitDelete, Workbench!Waits
      <4> QED BY <2>1, <4>2, PostShows
    <3>2. ASSUME NEW w \in Browsers,
                 \/ Workbench!OpenCreate(w) \/ Workbench!Dismiss(w)
                 \/ \E i \in bench[w].list : Workbench!OpenDelete(w, i)
          PROVE  OneWaits' /\ BenchAgrees'
      BY <2>1, <3>2, PageClicksShow
    <3>3. ASSUME NEW q \in Browsers,
                 \/ Workbench!Count(q) \/ Workbench!Create(q) \/ Workbench!Delete(q)
                 \/ Workbench!List(q) \/ Workbench!Answer(q) \/ Workbench!AnswerError(q)
                 \/ Workbench!Lose(q)
          PROVE  OneWaits' /\ BenchAgrees'
      BY <2>1, <3>3, ServiceShows, PostAnswersShow, LoseShows
    <3> QED BY <2>2, <3>1, <3>2, <3>3 DEF Workbench!BenchNext
  <2>3. CASE UNCHANGED noteVars
    <3>1. UNCHANGED <<notes, posts>> /\ UNCHANGED bench
      BY <2>3 DEF noteVars
    <3> QED BY <2>1, <3>1, BenchShowsOn DEF BenchSays
  <2> QED BY <2>1, <2>2, <2>3 DEF Next, vars
<1> QED BY <1>1, <1>2, NotesInvariance, PTL DEF Spec

LEMMA BenchTellsTheTruth == Spec => [](part = "integrations" => Workbench!BenchShowsTheRows)
<1>1. OneWaits /\ BenchAgrees => Workbench!BenchShowsTheRows
  <2> SUFFICES ASSUME OneWaits, BenchAgrees, NEW w \in Browsers
               PROVE  /\ Workbench!Cardinality(Workbench!Sent(w)) <= 1
                      /\ bench[w].alone /\ ~bench[w].missed /\ Workbench!Sent(w) = {}
                           => bench[w].list = Workbench!Rows
    BY DEF Workbench!BenchShowsTheRows
  <2>1. Workbench!Sent(w) = {} \/ \E q \in Browsers : Workbench!Sent(w) = {q}
    BY DEF Workbench!Sent, OneWaits, Waiter
  <2>2. Cardinality(Workbench!Sent(w)) <= 1
    BY <2>1, FS_EmptySet, FS_Singleton
  <2>3. Workbench!Cardinality(Workbench!Sent(w)) <= 1
    BY <2>2, SameCount
  <2>4. ASSUME bench[w].alone, ~bench[w].missed, Workbench!Sent(w) = {}
        PROVE  bench[w].list = Workbench!Rows
    <3>1. \A q \in Browsers : posts[q] = Null
      BY <2>4 DEF BenchAgrees, Workbench!Sent
    <3> QED BY <2>4, <3>1 DEF BenchAgrees, BenchFresh
  <2> QED BY <2>3, <2>4
<1> QED BY <1>1, BenchShownInvariance, PTL

-----------------------------------------------------------------------------
(* What the profile page shows.                                            *)

PanelTyped ==
  /\ account \in Panel!Account
  /\ edits \in [Browsers -> Panel!Edit \union {Null}]
  /\ panel \in Panel!Page

(* A profile read from the row is as it is until the next write.           *)
Knows(p, row) ==
  /\ p.writes <= row.writes
  /\ p.writes = row.writes => p.name = row.name /\ p.avatar = row.avatar

Filled(d, typed, row) ==
  /\ d.seen <= row.writes
  /\ d.seen = row.writes => /\ "name" \in typed \/ d.name = row.name
                            /\ "avatar" \in typed \/ d.avatar = row.avatar

Informed(e, row) ==
  /\ e.claims = e.believed.password
  /\ e.kind = "disconnect" => e.believed.password \/ Cardinality(e.believed.links) # 1
  /\ e.kind = "identity" => Filled(e.draft, e.typed, row)
  /\ e.at = "unlink" => e.kind = "disconnect"
  /\ e.at = "read" => e.kind \in {"identity", "disconnect"}
  /\ e.at \in {"enter", "apply", "unlink"} => e.view = Null /\ e.unread = {"user", "links"}
  /\ e.view = Null /\ e.at = "read" => e.unread = {"user", "links"}
  /\ e.view # Null => Knows(e.view, row)
  /\ e.at = "answer" /\ e.kind \in {"identity", "disconnect"} => e.view # Null

Same(p, row) ==
  p.name = row.name /\ p.avatar = row.avatar /\ p.password = row.password /\ p.links = row.links

(* What the only request under way leaves the page and the row with.       *)
Agrees(e, row, shown) ==
  /\ e.mine
  /\ (e.kind = "delete" /\ e.at = "answer") \/ ~row.gone
  /\ e.at \in {"enter", "apply", "unlink", "refused"} => Same(shown, row)
  /\ e.at = "read" =>
       /\ "user" \in e.unread \/ (/\ e.view.name = row.name /\ e.view.avatar = row.avatar
                                  /\ e.view.password = row.password)
       /\ "links" \in e.unread \/ e.view.links = row.links
  /\ e.at = "answer" =>
       /\ e.kind \in {"identity", "disconnect"} => Same(e.view, row)
       /\ e.kind = "password" => /\ shown.name = row.name /\ shown.avatar = row.avatar
                                 /\ shown.links = row.links /\ row.password

Saving(j) == edits[j] # Null /\ edits[j].mine /\ edits[j].kind = "identity"

FormIsHeld ==
  \A j \in Browsers : Saving(j) =>
    /\ \A i \in Browsers : Saving(i) => i = j
    /\ "name" \in panel.late \/ edits[j].draft.name = panel.draft.name
    /\ "avatar" \in panel.late \/ edits[j].draft.avatar = panel.draft.avatar

AloneAgrees ==
  panel.alone /\ ~panel.left =>
    /\ \A i, j \in Browsers : edits[i] # Null /\ edits[j] # Null => i = j
    /\ \A j \in Browsers : edits[j] # Null => Agrees(edits[j], account, panel.profile)
    /\ (\A j \in Browsers : edits[j] = Null) => Same(panel.profile, account) /\ ~account.gone

PanelParts ==
  /\ PanelTyped
  /\ Knows(panel.profile, account) /\ Filled(panel.draft, panel.typed, account)
  /\ \A j \in Browsers : edits[j] # Null => Informed(edits[j], account)
  /\ FormIsHeld
  /\ AloneAgrees

PanelInv == part = "profile" => PanelParts

LEMMA CountsAlike == \A S : Panel!Cardinality(S) = Cardinality(S)
BY DEF Panel!Cardinality, Cardinality

(* What was read before a write is not taken for what is stored after it.  *)
LEMMA ReadsAge ==
  ASSUME NEW row \in Panel!Account, NEW new \in Panel!Account,
         new = row \/ new.writes = row.writes + 1
  PROVE  /\ \A p \in Panel!Profile : Knows(p, row) => Knows(p, new)
         /\ \A d \in Panel!Form, typed \in SUBSET Panel!Fields :
              Filled(d, typed, row) => Filled(d, typed, new)
         /\ \A e \in Panel!Edit : Informed(e, row) => Informed(e, new)
<1>1. row.writes \in Nat /\ new.writes \in Nat
  BY DEF Panel!Account
<1>2. ASSUME NEW p \in Panel!Profile, Knows(p, row)
      PROVE  Knows(p, new)
  <2>1. p.writes \in Nat
    BY DEF Panel!Profile
  <2>2. CASE new = row
    BY <1>2, <2>2
  <2>3. CASE new.writes = row.writes + 1
    BY <1>1, <1>2, <2>1, <2>3 DEF Knows
  <2> QED BY <2>2, <2>3
<1>3. ASSUME NEW d \in Panel!Form, NEW typed \in SUBSET Panel!Fields, Filled(d, typed, row)
      PROVE  Filled(d, typed, new)
  <2>1. d.seen \in Nat
    BY DEF Panel!Form
  <2>2. CASE new = row
    BY <1>3, <2>2
  <2>3. CASE new.writes = row.writes + 1
    BY <1>1, <1>3, <2>1, <2>3 DEF Filled
  <2> QED BY <2>2, <2>3
<1>4. ASSUME NEW e \in Panel!Edit, Informed(e, row)
      PROVE  Informed(e, new)
  <2>1. e.draft \in Panel!Form /\ e.typed \in SUBSET Panel!Fields
        /\ e.view \in Panel!Profile \union {Null}
    BY DEF Panel!Edit
  <2> QED BY <1>2, <1>3, <1>4, <2>1 DEF Informed
<1> QED BY <1>2, <1>3, <1>4

LEMMA PanelFacts ==
  ASSUME PanelTyped
  PROVE  /\ account \in Panel!Account
         /\ panel.profile \in Panel!Profile /\ panel.draft \in Panel!Form
         /\ panel.typed \in SUBSET Panel!Fields /\ panel.late \in SUBSET Panel!Fields
         /\ panel.left \in BOOLEAN /\ panel.alone \in BOOLEAN /\ panel.moves \in Nat
         /\ Panel!ProfileOf(account) \in Panel!Profile
         /\ Knows(Panel!ProfileOf(account), account)
         /\ Same(Panel!ProfileOf(account), account)
<1>1. Panel!ProfileOf(account) \in Panel!Profile
  BY DEF PanelTyped, Panel!Account, Panel!ProfileOf, Panel!Profile
<1>2. /\ account.writes \in Nat
      /\ panel.profile \in Panel!Profile /\ panel.draft \in Panel!Form
      /\ panel.typed \in SUBSET Panel!Fields /\ panel.late \in SUBSET Panel!Fields
      /\ panel.left \in BOOLEAN /\ panel.alone \in BOOLEAN /\ panel.moves \in Nat
  BY DEF PanelTyped, Panel!Account, Panel!Page
<1>3. Knows(Panel!ProfileOf(account), account) /\ Same(Panel!ProfileOf(account), account)
  BY <1>2 DEF Knows, Same, Panel!ProfileOf
<1> QED BY <1>1, <1>2, <1>3 DEF PanelTyped

(* A request goes on; it may write the row.                                *)
LEMMA EditGoesOn ==
  ASSUME PanelParts, NEW j \in Browsers, NEW x \in Panel!Edit, edits[j] # Null,
         edits' = [edits EXCEPT ![j] = x], UNCHANGED panel,
         account' \in Panel!Account, account' = account \/ account'.writes = account.writes + 1,
         x.mine = edits[j].mine, x.kind = edits[j].kind, x.draft = edits[j].draft,
         Informed(x, account'),
         panel.alone /\ ~panel.left => Agrees(x, account', panel.profile)
  PROVE  PanelParts'
<1>1. /\ x # Null
      /\ \A i \in Browsers : edits'[i] = IF i = j THEN x ELSE edits[i]
  BY PanelAssumption DEF PanelParts, PanelTyped
<1>2. PanelTyped'
  BY <1>1 DEF PanelParts, PanelTyped
<1>3. Knows(panel.profile, account') /\ Filled(panel.draft, panel.typed, account')
  BY PanelFacts, ReadsAge DEF PanelParts
<1>4. ASSUME NEW i \in Browsers, edits'[i] # Null
      PROVE  Informed(edits'[i], account')
  <2>1. CASE i = j
    BY <1>1, <2>1
  <2>2. CASE i # j
    <3>1. edits'[i] = edits[i] /\ edits[i] \in Panel!Edit /\ Informed(edits[i], account)
      BY <1>1, <1>4, <2>2 DEF PanelParts, PanelTyped
    <3> QED BY <3>1, ReadsAge, PanelFacts DEF PanelParts
  <2> QED BY <2>1, <2>2
<1>5. FormIsHeld'
  <2>1. \A i \in Browsers : Saving(i)' <=> Saving(i)
    BY <1>1 DEF Saving
  <2> QED BY <1>1, <2>1 DEF PanelParts, FormIsHeld
<1>6. AloneAgrees'
  BY <1>1 DEF PanelParts, AloneAgrees
<1> QED BY <1>2, <1>3, <1>4, <1>5, <1>6 DEF PanelParts

LEMMA EnterKeeps ==
  ASSUME PanelParts, NEW j \in Browsers, Panel!Enter(j)
  PROVE  PanelParts'
<1> DEFINE e == edits[j]
           at == IF account.gone THEN "refused" ELSE "apply"
           user == account.password
           x == [e EXCEPT !.at = at, !.user = user]
<1>1. /\ e # Null /\ e \in Panel!Edit /\ e.at = "enter"
      /\ Informed(e, account) /\ (panel.alone /\ ~panel.left => Agrees(e, account, panel.profile))
  BY DEF Panel!Enter, Panel!At, PanelParts, PanelTyped, AloneAgrees
<1>2. edits' = [edits EXCEPT ![j] = x] /\ UNCHANGED <<account, panel>>
  BY DEF Panel!Enter
<1>3. at \in {"refused", "apply"} /\ user \in BOOLEAN /\ account \in Panel!Account
  BY DEF PanelParts, PanelTyped, Panel!Account
<1> HIDE DEF at, user
<1>4. x \in Panel!Edit
  BY <1>1, <1>3 DEF Panel!Edit
<1>5. /\ x.at = at /\ x.mine = e.mine /\ x.kind = e.kind /\ x.draft = e.draft /\ x.claims = e.claims
      /\ x.believed = e.believed /\ x.typed = e.typed /\ x.view = e.view /\ x.unread = e.unread
  BY <1>1 DEF Panel!Edit
<1> HIDE DEF x
<1>6. Informed(x, account)
  BY <1>1, <1>3, <1>5 DEF Informed
<1>7. panel.alone /\ ~panel.left => Agrees(x, account, panel.profile)
  BY <1>1, <1>3, <1>5 DEF Agrees
<1> QED BY <1>1, <1>2, <1>3, <1>4, <1>5, <1>6, <1>7, EditGoesOn

(* A request that goes on without reading anything.                        *)
LEMMA EditMoves ==
  ASSUME PanelParts, NEW j \in Browsers,
         NEW at \in {"unlink", "read", "answer", "refused"}, edits[j] # Null,
         edits' = [edits EXCEPT ![j].at = at], UNCHANGED panel,
         account' \in Panel!Account, account' = account \/ account'.writes = account.writes + 1,
         at = "unlink" => edits[j].kind = "disconnect",
         at = "read" => edits[j].kind \in {"identity", "disconnect"},
         at = "answer" => edits[j].kind \in {"password", "delete"},
         edits[j].at \in {"apply", "unlink"},
         panel.alone /\ ~panel.left =>
           /\ (edits[j].kind = "delete" /\ at = "answer") \/ ~account'.gone
           /\ at \in {"unlink", "refused"} => account' = account
           /\ at = "answer" /\ edits[j].kind = "password" =>
                /\ account'.name = account.name /\ account'.avatar = account.avatar
                /\ account'.links = account.links /\ account'.password
  PROVE  PanelParts'
<1> DEFINE e == edits[j]
           x == [e EXCEPT !.at = at]
<1>1. /\ e # Null /\ e \in Panel!Edit
      /\ Informed(e, account) /\ (panel.alone /\ ~panel.left => Agrees(e, account, panel.profile))
  BY DEF PanelParts, PanelTyped, AloneAgrees
<1>2. edits' = [edits EXCEPT ![j] = x]
  OBVIOUS
<1>3. x \in Panel!Edit
  BY <1>1 DEF Panel!Edit
<1>4. /\ x.at = at /\ x.mine = e.mine /\ x.kind = e.kind /\ x.draft = e.draft /\ x.claims = e.claims
      /\ x.believed = e.believed /\ x.typed = e.typed /\ x.view = e.view /\ x.unread = e.unread
  BY <1>1 DEF Panel!Edit
<1>5. Informed(e, account')
  BY <1>1, ReadsAge DEF PanelParts, PanelTyped
<1>6. e.at \in {"apply", "unlink"} /\ e.view = Null /\ e.unread = {"user", "links"}
  BY <1>1 DEF Informed
<1> HIDE DEF x, e
<1>7. Informed(x, account')
  BY <1>4, <1>5, <1>6 DEF Informed, e
<1>8. panel.alone /\ ~panel.left => Agrees(x, account', panel.profile)
  BY <1>1, <1>4, <1>6 DEF Agrees, Same, e
<1> QED BY <1>1, <1>2, <1>3, <1>4, <1>7, <1>8, EditGoesOn DEF e

LEMMA ServiceKeeps ==
  ASSUME PanelParts, NEW j \in Browsers,
         \/ Panel!UpdateProfile(j) \/ Panel!ChangePassword(j) \/ Panel!DeleteAccount(j)
         \/ Panel!FindLink(j) \/ Panel!Unlink(j)
  PROVE  PanelParts'
<1> DEFINE e == edits[j]
<1>1. /\ e # Null /\ e \in Panel!Edit /\ e.at \in {"apply", "unlink"} /\ UNCHANGED panel
      /\ Informed(e, account) /\ (panel.alone /\ ~panel.left => Agrees(e, account, panel.profile))
  BY DEF Panel!UpdateProfile, Panel!ChangePassword, Panel!DeleteAccount, Panel!FindLink,
     Panel!Unlink, Panel!Apply, Panel!At, PanelParts, PanelTyped, AloneAgrees
<1>2. account \in Panel!Account /\ account.writes \in Nat /\ account.writes + 1 \in Nat
  BY DEF PanelParts, PanelTyped, Panel!Account
<1>3. panel.alone /\ ~panel.left => ~account.gone
  BY <1>1 DEF Agrees
<1>4. CASE Panel!UpdateProfile(j)
  <2> DEFINE row == [account EXCEPT !.name = e.draft.name, !.avatar = e.draft.avatar]
             new == [row EXCEPT !.writes = row.writes + 1]
  <2>1. account' = new /\ edits' = [edits EXCEPT ![j].at = "read"] /\ e.kind = "identity"
    BY <1>4 DEF Panel!UpdateProfile, Panel!Write, Panel!Go, Panel!Apply
  <2>2. e.draft.name \in Panel!Texts /\ e.draft.avatar \in Panel!Texts
    BY <1>1 DEF Panel!Edit, Panel!Form
  <2> HIDE DEF e
  <2>3. row \in Panel!Account /\ row.writes = account.writes /\ row.gone = account.gone
    BY <1>2, <2>2 DEF Panel!Account
  <2> HIDE DEF row
  <2>4. new \in Panel!Account /\ new.writes = account.writes + 1 /\ new.gone = account.gone
    BY <1>2, <2>3 DEF Panel!Account
  <2> HIDE DEF new
  <2> QED BY <1>1, <1>3, <2>1, <2>4, EditMoves DEF e
<1>5. CASE Panel!ChangePassword(j)
  <2> DEFINE row == [account EXCEPT !.password = TRUE]
             new == [row EXCEPT !.writes = row.writes + 1]
  <2>1. e.kind = "password"
    BY <1>5 DEF Panel!ChangePassword, Panel!Apply
  <2>2. CASE edits' = [edits EXCEPT ![j].at = "refused"] /\ UNCHANGED account
    BY <1>1, <1>2, <1>3, <2>2, EditMoves
  <2>3. CASE edits' = [edits EXCEPT ![j].at = "answer"] /\ account' = new
    <3>1. row \in Panel!Account /\ row.writes = account.writes /\ row.gone = account.gone
          /\ row.name = account.name /\ row.avatar = account.avatar /\ row.links = account.links
          /\ row.password
      BY <1>2 DEF Panel!Account
    <3> HIDE DEF row
    <3>2. new \in Panel!Account /\ new.writes = account.writes + 1 /\ new.gone = account.gone
          /\ new.name = account.name /\ new.avatar = account.avatar /\ new.links = account.links
          /\ new.password
      BY <1>2, <3>1 DEF Panel!Account
    <3> HIDE DEF new
    <3> QED BY <1>1, <1>3, <2>1, <2>3, <3>2, EditMoves
  <2> QED BY <1>5, <2>2, <2>3 DEF Panel!ChangePassword, Panel!Write, Panel!Go
<1>6. CASE Panel!DeleteAccount(j)
  <2> DEFINE row == [account EXCEPT !.links = {}, !.gone = TRUE]
             new == [row EXCEPT !.writes = row.writes + 1]
  <2>1. e.kind = "delete"
    BY <1>6 DEF Panel!DeleteAccount, Panel!Apply
  <2>2. CASE edits' = [edits EXCEPT ![j].at = "refused"] /\ UNCHANGED account
    BY <1>1, <1>2, <1>3, <2>2, EditMoves
  <2>3. CASE edits' = [edits EXCEPT ![j].at = "answer"] /\ account' = new
    <3>1. row \in Panel!Account /\ row.writes = account.writes
      BY <1>2 DEF Panel!Account
    <3> HIDE DEF row
    <3>2. new \in Panel!Account /\ new.writes = account.writes + 1
      BY <1>2, <3>1 DEF Panel!Account
    <3> HIDE DEF new
    <3> QED BY <1>1, <1>3, <2>1, <2>3, <3>2, EditMoves
  <2> QED BY <1>6, <2>2, <2>3 DEF Panel!DeleteAccount, Panel!Write, Panel!Go
<1>7. CASE Panel!FindLink(j)
  <2>1. e.kind = "disconnect" /\ UNCHANGED account
    BY <1>7 DEF Panel!FindLink, Panel!Apply
  <2> DEFINE none == e.believed.links \intersect account.links = {}
             last == ~e.user /\ Panel!Cardinality(account.links) = 1
             at == CASE none -> "read" [] last -> "refused" [] OTHER -> "unlink"
  <2>2. edits' = [edits EXCEPT ![j].at = at]
    BY <1>7 DEF Panel!FindLink, Panel!Go
  <2> HIDE DEF none, last
  <2>3. at \in {"read", "refused", "unlink"}
    OBVIOUS
  <2> HIDE DEF at
  <2> QED BY <1>1, <1>2, <1>3, <2>1, <2>2, <2>3, EditMoves
<1>8. CASE Panel!Unlink(j)
  <2>1. e.kind = "disconnect"
    BY <1>1, <1>8 DEF Panel!Unlink, Panel!At, Informed
  <2>2. CASE edits' = [edits EXCEPT ![j].at = "refused"] /\ UNCHANGED account
    BY <1>1, <1>2, <1>3, <2>2, EditMoves
  <2>3. ASSUME NEW p, edits' = [edits EXCEPT ![j].at = "read"],
               account' = [[account EXCEPT !.links = account.links \ {p}] EXCEPT
                             !.writes = [account EXCEPT !.links = account.links \ {p}].writes + 1]
        PROVE  PanelParts'
    <3> DEFINE row == [account EXCEPT !.links = account.links \ {p}]
               new == [row EXCEPT !.writes = row.writes + 1]
    <3>0. account' = new
      BY <2>3
    <3>1. row \in Panel!Account /\ row.writes = account.writes /\ row.gone = account.gone
      <4>1. account.links \ {p} \in SUBSET Linkable
        BY <1>2 DEF Panel!Account
      <4> QED BY <1>2, <4>1 DEF Panel!Account
    <3> HIDE DEF row
    <3>2. new \in Panel!Account /\ new.writes = account.writes + 1 /\ new.gone = account.gone
      BY <1>2, <3>1 DEF Panel!Account
    <3> HIDE DEF new
    <3> QED BY <1>1, <1>3, <2>1, <2>3, <3>0, <3>2, EditMoves
  <2> QED BY <1>8, <2>2, <2>3 DEF Panel!Unlink, Panel!Write, Panel!Go
<1> QED BY <1>4, <1>5, <1>6, <1>7, <1>8

LEMMA GetProfileKeeps ==
  ASSUME PanelParts, NEW j \in Browsers, NEW what \in {"user", "links"}, Panel!GetProfile(j, what)
  PROVE  PanelParts' /\ \E x \in Panel!Edit : /\ edits' = [edits EXCEPT ![j] = x]
                                               /\ x.at \in {"read", "answer"}
<1> DEFINE e == edits[j]
           row == Panel!ProfileOf(account)
           before == IF e.view = Null THEN row ELSE e.view
           after == IF what = "links" THEN [before EXCEPT !.links = account.links]
                    ELSE [row EXCEPT !.links = before.links]
           at == IF e.unread = {what} THEN "answer" ELSE e.at
           left == e.unread \ {what}
           x == [e EXCEPT !.view = after, !.unread = left, !.at = at]
<1>1. /\ e # Null /\ e \in Panel!Edit /\ e.at = "read" /\ what \in e.unread
      /\ Informed(e, account) /\ (panel.alone /\ ~panel.left => Agrees(e, account, panel.profile))
  BY DEF Panel!GetProfile, Panel!At, PanelParts, PanelTyped, AloneAgrees
<1>2. edits' = [edits EXCEPT ![j] = x] /\ UNCHANGED <<account, panel>>
  BY DEF Panel!GetProfile
<1>3. row \in Panel!Profile /\ Knows(row, account) /\ Same(row, account) /\ account \in Panel!Account
      /\ account.links \in SUBSET Linkable
  BY PanelFacts DEF PanelParts, PanelTyped, Panel!Account
<1>4. before \in Panel!Profile /\ Knows(before, account)
  BY <1>1, <1>3 DEF Panel!Edit, Informed
<1>5. /\ at \in {"answer", "read"} /\ left \in SUBSET {"user", "links"}
      /\ at = "answer" => e.unread = {what}
      /\ what \notin left /\ \A k \in {"user", "links"} : k # what /\ k \notin left => k \notin e.unread
  BY <1>1 DEF Panel!Edit
<1>6. /\ e.view = Null => before = row
      /\ e.view # Null => before = e.view
  OBVIOUS
<1> HIDE DEF before, row
<1>7. /\ after \in Panel!Profile /\ Knows(after, account)
      /\ what = "links" => /\ after.links = account.links /\ after.name = before.name
                           /\ after.avatar = before.avatar /\ after.password = before.password
      /\ what = "user" => /\ after.links = before.links /\ after.name = account.name
                          /\ after.avatar = account.avatar /\ after.password = account.password
  <2>1. CASE what = "links"
    <3> DEFINE r == [before EXCEPT !.links = account.links]
    <3>1. r \in Panel!Profile /\ r.links = account.links /\ r.name = before.name
          /\ r.avatar = before.avatar /\ r.password = before.password /\ r.writes = before.writes
      BY <1>3, <1>4 DEF Panel!Profile
    <3>2. after = r
      BY <2>1
    <3> HIDE DEF r, after
    <3> QED BY <1>4, <2>1, <3>1, <3>2 DEF Knows
  <2>2. CASE what = "user"
    <3> DEFINE r == [row EXCEPT !.links = before.links]
    <3>1. before.links \in SUBSET Linkable
      BY <1>4 DEF Panel!Profile
    <3>2. r \in Panel!Profile /\ r.links = before.links /\ r.name = row.name
          /\ r.avatar = row.avatar /\ r.password = row.password /\ r.writes = row.writes
      BY <1>3, <3>1 DEF Panel!Profile
    <3>3. after = r
      BY <2>2
    <3> HIDE DEF r, after
    <3> QED BY <1>3, <2>2, <3>2, <3>3 DEF Knows, Same
  <2> QED BY <2>1, <2>2
<1> HIDE DEF at, left, after
<1>8. x \in Panel!Edit
  BY <1>1, <1>5, <1>7 DEF Panel!Edit
<1>9. /\ x.at = at /\ x.mine = e.mine /\ x.kind = e.kind /\ x.draft = e.draft /\ x.claims = e.claims
      /\ x.believed = e.believed /\ x.typed = e.typed /\ x.view = after /\ x.unread = left
  BY <1>1 DEF Panel!Edit
<1>10. after # Null
  BY <1>7, PanelAssumption
<1> HIDE DEF x
<1>11. Informed(x, account)
  BY <1>1, <1>5, <1>7, <1>9, <1>10 DEF Informed
<1>12. ASSUME panel.alone /\ ~panel.left
       PROVE  Agrees(x, account, panel.profile)
  <2>1. Agrees(e, account, panel.profile)
    BY <1>1, <1>12
  <2>2. "user" \in left \/ (/\ after.name = account.name /\ after.avatar = account.avatar
                            /\ after.password = account.password)
    BY <1>1, <1>3, <1>5, <1>6, <1>7, <2>1 DEF Agrees, Same
  <2>3. "links" \in left \/ after.links = account.links
    BY <1>1, <1>3, <1>5, <1>6, <1>7, <2>1 DEF Agrees, Same
  <2>4. x.at = "answer" => left = {}
    BY <1>5, <1>9 DEF left
  <2>5. x.kind \in {"identity", "disconnect"} /\ e.kind # "delete"
    BY <1>1, <1>9 DEF Informed
  <2> QED BY <1>1, <1>5, <1>9, <2>1, <2>2, <2>3, <2>4, <2>5 DEF Agrees, Same
<1>13. PanelParts'
  BY <1>1, <1>2, <1>3, <1>8, <1>9, <1>11, <1>12, EditGoesOn
<1> QED BY <1>2, <1>5, <1>8, <1>9, <1>13

LEMMA LoseKeeps ==
  ASSUME PanelParts, NEW j \in Browsers, Panel!Lose(j)
  PROVE  PanelParts'
<1> DEFINE e == edits[j]
           x == [e EXCEPT !.at = "refused"]
           p == [panel EXCEPT !.alone = FALSE]
<1>1. e # Null /\ e \in Panel!Edit /\ e.at = "answer" /\ Informed(e, account)
  BY DEF Panel!Lose, Panel!At, PanelParts, PanelTyped
<1>2. edits' = [edits EXCEPT ![j] = x] /\ panel' = p /\ UNCHANGED account
  BY DEF Panel!Lose, Panel!Go
<1>3. x \in Panel!Edit
  BY <1>1 DEF Panel!Edit
<1>4. /\ x.at = "refused" /\ x.mine = e.mine /\ x.kind = e.kind /\ x.draft = e.draft /\ x.claims = e.claims
      /\ x.believed = e.believed /\ x.typed = e.typed /\ x.view = e.view /\ x.unread = e.unread
  BY <1>1 DEF Panel!Edit
<1>5. /\ p \in Panel!Page /\ ~p.alone /\ p.profile = panel.profile /\ p.draft = panel.draft
      /\ p.typed = panel.typed /\ p.late = panel.late
  BY DEF PanelParts, PanelTyped, Panel!Page
<1> HIDE DEF x, p
<1>6. Informed(x, account)
  BY <1>1, <1>4 DEF Informed
<1>7. x # Null /\ \A i \in Browsers : edits'[i] = IF i = j THEN x ELSE edits[i]
  BY <1>2, <1>3, PanelAssumption DEF PanelParts, PanelTyped
<1>8. PanelTyped'
  BY <1>2, <1>3, <1>5 DEF PanelParts, PanelTyped
<1>9. \A i \in Browsers : edits'[i] # Null => Informed(edits'[i], account)
  BY <1>6, <1>7 DEF PanelParts
<1>10. FormIsHeld'
  <2>1. \A i \in Browsers : Saving(i)' <=> Saving(i)
    BY <1>1, <1>4, <1>7 DEF Saving
  <2> QED BY <1>2, <1>4, <1>5, <1>7, <2>1 DEF PanelParts, FormIsHeld
<1>11. AloneAgrees'
  BY <1>2, <1>5 DEF AloneAgrees
<1> QED BY <1>2, <1>5, <1>8, <1>9, <1>10, <1>11 DEF PanelParts

(* A request that is over: nothing but the page may change.                *)
LEMMA EditEnds ==
  ASSUME PanelParts, NEW j \in Browsers, edits[j] # Null,
         edits' = [edits EXCEPT ![j] = Null], UNCHANGED account, panel' \in Panel!Page,
         Knows(panel'.profile, account), Filled(panel'.draft, panel'.typed, account),
         \/ panel'.late = panel.late /\ panel'.draft = panel.draft
         \/ Saving(j),
         panel'.alone = panel.alone,
         panel'.left = panel.left \/ panel'.left,
         panel.alone /\ ~panel'.left => Same(panel'.profile, account) /\ ~account.gone
  PROVE  PanelParts'
<1>1. \A i \in Browsers : edits'[i] = IF i = j THEN Null ELSE edits[i]
  BY DEF PanelParts, PanelTyped
<1>2. PanelTyped'
  BY <1>1 DEF PanelParts, PanelTyped
<1>3. \A i \in Browsers : edits'[i] # Null => Informed(edits'[i], account)
  BY <1>1 DEF PanelParts
<1>4. FormIsHeld'
  <2>1. \A i \in Browsers : Saving(i)' <=> Saving(i) /\ i # j
    BY <1>1 DEF Saving
  <2>2. CASE Saving(j)
    BY <2>1, <2>2 DEF PanelParts, FormIsHeld
  <2>3. CASE panel'.late = panel.late /\ panel'.draft = panel.draft
    BY <1>1, <2>1, <2>3 DEF PanelParts, FormIsHeld
  <2> QED BY <2>2, <2>3
<1>5. AloneAgrees'
  <2> SUFFICES ASSUME panel.alone, ~panel'.left
               PROVE  \A i \in Browsers : edits'[i] = Null
    BY DEF AloneAgrees
  <2>1. ~panel.left
    OBVIOUS
  <2> QED BY <1>1, <2>1 DEF PanelParts, AloneAgrees
<1> QED BY <1>2, <1>3, <1>4, <1>5 DEF PanelParts

LEMMA AnswersShow ==
  ASSUME PanelParts, NEW j \in Browsers, Panel!Answer(j) \/ Panel!AnswerError(j)
  PROVE  PanelParts'
<1> DEFINE e == edits[j]
<1>1. /\ e # Null /\ e \in Panel!Edit /\ e.at \in {"answer", "refused"} /\ Informed(e, account)
      /\ (panel.alone /\ ~panel.left => Agrees(e, account, panel.profile))
  BY DEF Panel!Answer, Panel!AnswerError, Panel!At, PanelParts, PanelTyped, AloneAgrees
<1>2. edits' = [edits EXCEPT ![j] = Null] /\ UNCHANGED account
  BY DEF Panel!Answer, Panel!AnswerError
<1>3. /\ panel \in Panel!Page /\ Knows(panel.profile, account)
      /\ Filled(panel.draft, panel.typed, account)
      /\ panel.profile \in Panel!Profile /\ account.writes \in Nat
  BY DEF PanelParts, PanelTyped, Panel!Page, Panel!Account
<1>4. CASE panel.left /\ UNCHANGED panel
  BY <1>1, <1>2, <1>3, <1>4, EditEnds
<1>5. CASE ~e.mine /\ UNCHANGED panel
  BY <1>1, <1>2, <1>3, <1>5, EditEnds DEF Agrees
<1>6. CASE e.at = "refused" /\ UNCHANGED panel
  BY <1>1, <1>2, <1>3, <1>6, EditEnds DEF Agrees
<1>7. CASE e.at = "answer" /\ e.mine /\ ~panel.left /\ panel' = Panel!Shown(e)
  <2>1. e.view # Null => e.view \in Panel!Profile /\ Knows(e.view, account)
    BY <1>1 DEF Informed, Panel!Edit
  <2>2. CASE e.kind = "identity"
    <3> DEFINE d == Panel!Draft(e.view)
               p == [panel EXCEPT !.profile = e.view, !.draft = d, !.typed = {}, !.late = {}]
    <3>1. panel' = p
      BY <1>7, <2>2 DEF Panel!Shown
    <3>2. e.view \in Panel!Profile /\ Knows(e.view, account)
      BY <1>1, <1>7, <2>1, <2>2 DEF Informed
    <3>3. d \in Panel!Form /\ Filled(d, {}, account)
      BY <3>2 DEF Panel!Draft, Panel!Form, Panel!Profile, Knows, Filled
    <3> HIDE DEF d
    <3>4. p \in Panel!Page /\ p.profile = e.view /\ p.draft = d /\ p.typed = {}
          /\ p.alone = panel.alone /\ p.left = panel.left
      BY <1>3, <3>2, <3>3 DEF Panel!Page
    <3> HIDE DEF p
    <3>5. Saving(j)
      BY <1>1, <1>7, <2>2 DEF Saving
    <3>6. panel.alone => Same(e.view, account) /\ ~account.gone
      BY <1>1, <1>7, <2>2 DEF Agrees
    <3> QED BY <1>1, <1>2, <3>1, <3>2, <3>3, <3>4, <3>5, <3>6, EditEnds
  <2>3. CASE e.kind = "password"
    <3> DEFINE q == [panel.profile EXCEPT !.password = TRUE]
               p == [panel EXCEPT !.profile = q]
    <3>1. panel' = p
      BY <1>3, <1>7, <2>3 DEF Panel!Shown
    <3>2. q \in Panel!Profile /\ q.writes = panel.profile.writes /\ q.name = panel.profile.name
          /\ q.avatar = panel.profile.avatar /\ q.links = panel.profile.links /\ q.password = TRUE
      BY <1>3 DEF Panel!Profile
    <3> HIDE DEF q
    <3>3. p \in Panel!Page /\ p.profile = q /\ p.draft = panel.draft /\ p.typed = panel.typed
          /\ p.alone = panel.alone /\ p.left = panel.left /\ p.late = panel.late
      BY <1>3, <3>2 DEF Panel!Page
    <3> HIDE DEF p
    <3>4. Knows(q, account)
      BY <1>3, <3>2 DEF Knows
    <3>5. panel.alone => Same(q, account) /\ ~account.gone
      <4>1. account.password \in BOOLEAN
        BY DEF PanelParts, PanelTyped, Panel!Account
      <4> QED BY <1>1, <1>7, <2>3, <3>2, <4>1 DEF Agrees, Same
    <3> QED BY <1>1, <1>2, <1>3, <3>1, <3>2, <3>3, <3>4, <3>5, EditEnds
  <2>4. CASE e.kind = "disconnect"
    <3> DEFINE p == [panel EXCEPT !.profile = e.view]
    <3>1. panel' = p
      BY <1>7, <2>4 DEF Panel!Shown
    <3>2. e.view \in Panel!Profile /\ Knows(e.view, account)
      BY <1>1, <1>7, <2>1, <2>4 DEF Informed
    <3>3. p \in Panel!Page /\ p.profile = e.view /\ p.draft = panel.draft /\ p.typed = panel.typed
          /\ p.alone = panel.alone /\ p.left = panel.left /\ p.late = panel.late
      BY <1>3, <3>2 DEF Panel!Page
    <3> HIDE DEF p
    <3>4. panel.alone => Same(e.view, account) /\ ~account.gone
      BY <1>1, <1>7, <2>4 DEF Agrees
    <3> QED BY <1>1, <1>2, <1>3, <3>1, <3>2, <3>3, <3>4, EditEnds
  <2>5. CASE e.kind = "delete"
    <3> DEFINE p == [panel EXCEPT !.left = TRUE]
    <3>1. panel' = p
      BY <1>7, <2>5 DEF Panel!Shown
    <3>2. p \in Panel!Page /\ p.profile = panel.profile /\ p.draft = panel.draft /\ p.typed = panel.typed
          /\ p.alone = panel.alone /\ p.left /\ p.late = panel.late
      BY <1>3 DEF Panel!Page
    <3> HIDE DEF p
    <3> QED BY <1>1, <1>2, <1>3, <3>1, <3>2, EditEnds
  <2> QED BY <1>1, <2>2, <2>3, <2>4, <2>5 DEF Panel!Edit
<1> QED BY <1>1, <1>4, <1>5, <1>6, <1>7 DEF Panel!Answer, Panel!AnswerError, Panel!At

LEMMA ShownIsTyped ==
  ASSUME PanelParts
  PROVE  /\ panel.profile \in Panel!Profile /\ panel.draft \in Panel!Form
         /\ panel.typed \in SUBSET Panel!Fields /\ panel.profile.password \in BOOLEAN
BY PanelFacts DEF PanelParts, Panel!Profile

(* A request is sent: it joins those under way.                            *)
LEMMA SubmitsKeep ==
  ASSUME PanelParts, NEW j \in Browsers, NEW x \in Panel!Edit, Panel!Submit(j, x),
         x.at = "enter", Informed(x, account),
         x.kind = "identity" /\ x.mine => x.draft = panel.draft /\ \A i \in Browsers : ~Saving(i)
  PROVE  PanelParts'
<1> DEFINE none == Panel!UnderWay = {}
           moves == panel.moves + 1
           alone == panel.alone /\ none /\ x.mine
           late == IF x.kind = "identity" /\ x.mine THEN {} ELSE panel.late
           p == [panel EXCEPT !.moves = moves, !.alone = alone, !.late = late]
<1>1. /\ edits[j] = Null /\ edits' = [edits EXCEPT ![j] = x] /\ UNCHANGED account /\ panel' = p
  BY DEF Panel!Submit
<1>2. /\ panel \in Panel!Page /\ panel.moves \in Nat /\ panel.alone \in BOOLEAN /\ x.mine \in BOOLEAN
      /\ panel.late \in SUBSET Panel!Fields /\ none \in BOOLEAN
  BY PanelFacts DEF PanelParts, PanelTyped, Panel!Edit
<1>3. moves \in Nat /\ alone \in BOOLEAN /\ late \in SUBSET Panel!Fields
  BY <1>2
<1>4. alone => panel.alone /\ (\A i \in Browsers : edits[i] = Null) /\ x.mine
  BY DEF Panel!UnderWay
<1>5. (x.kind = "identity" /\ x.mine) \/ late = panel.late
  OBVIOUS
<1> HIDE DEF moves, alone, late
<1>6. /\ p \in Panel!Page /\ p.profile = panel.profile /\ p.draft = panel.draft
      /\ p.typed = panel.typed /\ p.left = panel.left /\ p.alone = alone /\ p.late = late
  BY <1>2, <1>3 DEF Panel!Page
<1> HIDE DEF p
<1>7. x # Null /\ \A i \in Browsers : edits'[i] = IF i = j THEN x ELSE edits[i]
  BY <1>1, PanelAssumption DEF PanelParts, PanelTyped
<1>8. PanelTyped'
  BY <1>1, <1>6, <1>7 DEF PanelParts, PanelTyped
<1>9. \A i \in Browsers : edits'[i] # Null => Informed(edits'[i], account)
  BY <1>7 DEF PanelParts
<1>10. FormIsHeld'
  <2>1. \A i \in Browsers : i # j => (Saving(i)' <=> Saving(i))
    BY <1>7 DEF Saving
  <2>2. Saving(j)' <=> x.mine /\ x.kind = "identity"
    BY <1>7 DEF Saving
  <2>3. CASE x.mine /\ x.kind = "identity"
    BY <1>1, <1>6, <1>7, <2>1, <2>3 DEF FormIsHeld
  <2>4. CASE ~(x.mine /\ x.kind = "identity")
    BY <1>1, <1>5, <1>6, <1>7, <2>1, <2>2, <2>4 DEF PanelParts, FormIsHeld
  <2> QED BY <2>3, <2>4
<1>11. AloneAgrees'
  <2> SUFFICES ASSUME alone, ~panel.left
               PROVE  /\ \A i, k \in Browsers : edits'[i] # Null /\ edits'[k] # Null => i = k
                      /\ \A i \in Browsers : edits'[i] # Null => Agrees(edits'[i], account, panel.profile)
                      /\ edits'[j] # Null
    BY <1>1, <1>6 DEF AloneAgrees
  <2>1. Same(panel.profile, account) /\ ~account.gone
    BY <1>4 DEF PanelParts, AloneAgrees
  <2>2. Agrees(x, account, panel.profile)
    BY <1>4, <2>1 DEF Agrees
  <2> QED BY <1>4, <1>7, <2>2
<1> QED BY <1>1, <1>6, <1>8, <1>9, <1>10, <1>11 DEF PanelParts

LEMMA PageSubmits ==
  ASSUME PanelParts, NEW j \in Browsers, NEW right \in BOOLEAN,
         \/ Panel!SaveIdentity(j) \/ Panel!Disconnect(j)
         \/ Panel!SavePassword(j, right) \/ Panel!ConfirmDelete(j, right)
  PROVE  PanelParts'
<1>1. ASSUME NEW kind \in {"identity", "password", "disconnect", "delete"}, NEW sure \in BOOLEAN,
             Panel!Submit(j, Panel!Request(kind, sure, TRUE)),
             kind = "disconnect" => panel.profile.password \/ Cardinality(panel.profile.links) # 1,
             kind = "identity" => ~Panel!Waiting("identity")
      PROVE  PanelParts'
  <2> DEFINE x == Panel!Request(kind, sure, TRUE)
  <2>1. /\ x \in Panel!Edit /\ x.kind = kind /\ x.mine = TRUE /\ x.at = "enter"
        /\ x.claims = panel.profile.password /\ x.believed = panel.profile
        /\ x.draft = panel.draft /\ x.typed = panel.typed
        /\ x.view = Null /\ x.unread = {"user", "links"}
    BY ShownIsTyped DEF Panel!Request, Panel!Edit
  <2>5. Panel!Submit(j, x)
    BY <1>1
  <2> HIDE DEF x
  <2>2. Filled(panel.draft, panel.typed, account)
    BY DEF PanelParts
  <2>3. Informed(x, account)
    BY <1>1, <2>1, <2>2 DEF Informed
  <2>4. kind = "identity" => \A i \in Browsers : ~Saving(i)
    BY <1>1 DEF Panel!Waiting, Panel!UnderWay, Saving
  <2> QED BY <2>1, <2>3, <2>4, <2>5, SubmitsKeep
<1>2. CASE Panel!SaveIdentity(j)
  BY <1>1, <1>2 DEF Panel!SaveIdentity
<1>3. CASE Panel!SavePassword(j, right)
  BY <1>1, <1>3 DEF Panel!SavePassword
<1>4. CASE Panel!ConfirmDelete(j, right)
  BY <1>1, <1>4 DEF Panel!ConfirmDelete
<1>5. CASE Panel!Disconnect(j)
  <2>1. panel.profile.password \/ Cardinality(panel.profile.links) # 1
    BY <1>5, CountsAlike DEF Panel!Disconnect, Panel!OnlyWayIn
  <2>2. Panel!Submit(j, Panel!Request("disconnect", TRUE, TRUE))
    BY <1>5 DEF Panel!Disconnect
  <2> QED BY <1>1, <2>1, <2>2
<1> QED BY <1>2, <1>3, <1>4, <1>5

LEMMA ElsewhereKeeps ==
  ASSUME PanelParts, NEW j \in Browsers, NEW kind \in {"identity", "password", "disconnect"},
         Panel!Elsewhere(j, kind)
  PROVE  PanelParts'
<1> DEFINE r == Panel!Request(kind, TRUE, FALSE)
           row == Panel!ProfileOf(account)
           d == Panel!Draft(account)
<1>1. PICK f \in Panel!Fields :
        Panel!Submit(j, [r EXCEPT !.claims = account.password, !.believed = row,
                                  !.draft = [d EXCEPT ![f] = Panel!Other(@)], !.typed = {f}])
  BY DEF Panel!Elsewhere
<1> DEFINE draft == [d EXCEPT ![f] = Panel!Other(d[f])]
           x == [r EXCEPT !.claims = account.password, !.believed = row, !.draft = draft, !.typed = {f}]
<1>2. Panel!Submit(j, x)
  BY <1>1
<1>3. /\ r \in Panel!Edit /\ r.kind = kind /\ ~r.mine /\ r.at = "enter" /\ r.view = Null
      /\ r.unread = {"user", "links"}
  BY ShownIsTyped DEF Panel!Request, Panel!Edit
<1>4. /\ account \in Panel!Account /\ account.password \in BOOLEAN /\ account.writes \in Nat
      /\ row \in Panel!Profile /\ row.password = account.password
  BY PanelFacts DEF PanelParts, Panel!Account, Same
<1>5. d \in Panel!Form /\ d.name = account.name /\ d.avatar = account.avatar /\ d.seen = account.writes
  BY <1>4 DEF Panel!Draft, Panel!Form, Panel!Account
<1> HIDE DEF r, row, d
<1>6. draft \in Panel!Form /\ Filled(draft, {f}, account)
  <2>1. ASSUME NEW t PROVE Panel!Other(t) \in Panel!Texts
    BY DEF Panel!Other, Panel!Texts
  <2>2. CASE f = "name"
    <3> DEFINE m == [d EXCEPT !.name = Panel!Other(d.name)]
    <3>1. m \in Panel!Form /\ m.avatar = d.avatar /\ m.seen = d.seen
      BY <1>5, <2>1 DEF Panel!Form
    <3>2. draft = m
      BY <2>2
    <3> HIDE DEF m, draft
    <3> QED BY <1>4, <1>5, <2>2, <3>1, <3>2 DEF Filled
  <2>3. CASE f = "avatar"
    <3> DEFINE m == [d EXCEPT !.avatar = Panel!Other(d.avatar)]
    <3>1. m \in Panel!Form /\ m.name = d.name /\ m.seen = d.seen
      BY <1>5, <2>1 DEF Panel!Form
    <3>2. draft = m
      BY <2>3
    <3> HIDE DEF m, draft
    <3> QED BY <1>4, <1>5, <2>3, <3>1, <3>2 DEF Filled
  <2> QED BY <2>2, <2>3 DEF Panel!Fields
<1>7. kind = "disconnect" => account.password
  BY DEF Panel!Elsewhere
<1> HIDE DEF draft
<1>8. /\ x \in Panel!Edit /\ x.kind = kind /\ ~x.mine /\ x.at = "enter" /\ x.view = Null
      /\ x.unread = {"user", "links"} /\ x.claims = account.password /\ x.believed = row
      /\ x.draft = draft /\ x.typed = {f}
  BY <1>3, <1>4, <1>6 DEF Panel!Edit
<1> HIDE DEF x
<1>9. Informed(x, account)
  BY <1>4, <1>6, <1>7, <1>8 DEF Informed
<1> QED BY <1>2, <1>8, <1>9, SubmitsKeep

(* The owner types, or takes back what was typed.                          *)
LEMMA TypingKeeps ==
  ASSUME PanelParts, NEW f \in Panel!Fields, Panel!TypeIn(f) \/ Panel!Reset
  PROVE  PanelParts'
<1>1. /\ panel \in Panel!Page /\ panel.draft \in Panel!Form /\ panel.profile \in Panel!Profile
      /\ panel.moves + 1 \in Nat /\ account \in Panel!Account /\ account.writes \in Nat
      /\ panel.typed \in SUBSET Panel!Fields /\ panel.late \in SUBSET Panel!Fields
      /\ Knows(panel.profile, account) /\ Filled(panel.draft, panel.typed, account)
  BY PanelFacts DEF PanelParts, PanelTyped, Panel!Account
<1>2. UNCHANGED <<account, edits>>
  BY DEF Panel!TypeIn, Panel!Reset
<1>3. ASSUME panel' \in Panel!Page, panel'.profile = panel.profile,
             panel'.alone = panel.alone, panel'.left = panel.left,
             Filled(panel'.draft, panel'.typed, account),
             \A j \in Browsers : Saving(j) =>
               /\ "name" \in panel'.late \/ edits[j].draft.name = panel'.draft.name
               /\ "avatar" \in panel'.late \/ edits[j].draft.avatar = panel'.draft.avatar
      PROVE  PanelParts'
  <2>1. PanelTyped'
    BY <1>2, <1>3 DEF PanelParts, PanelTyped
  <2>2. FormIsHeld'
    <3>1. \A j \in Browsers : Saving(j)' <=> Saving(j)
      BY <1>2 DEF Saving
    <3> QED BY <1>2, <1>3, <3>1 DEF PanelParts, FormIsHeld
  <2>3. AloneAgrees'
    BY <1>2, <1>3 DEF PanelParts, AloneAgrees
  <2> QED BY <1>2, <1>3, <2>1, <2>2, <2>3 DEF PanelParts
<1>4. CASE Panel!TypeIn(f)
  <2> DEFINE d == [panel.draft EXCEPT ![f] = Panel!Other(panel.draft[f])]
             typed == panel.typed \union {f}
             busy == Panel!Waiting("identity")
             late == IF busy THEN panel.late \union {f} ELSE panel.late
             p == [panel EXCEPT !.draft = d, !.typed = typed, !.moves = panel.moves + 1, !.late = late]
  <2>1. panel' = p
    BY <1>1, <1>4 DEF Panel!TypeIn, Panel!Page
  <2>2. /\ d \in Panel!Form /\ d.seen = panel.draft.seen
        /\ f = "name" \/ d.name = panel.draft.name
        /\ f = "avatar" \/ d.avatar = panel.draft.avatar
    <3>1. ASSUME NEW t PROVE Panel!Other(t) \in Panel!Texts
      BY DEF Panel!Other, Panel!Texts
    <3>2. CASE f = "name"
      <4> DEFINE m == [panel.draft EXCEPT !.name = Panel!Other(panel.draft.name)]
      <4>1. m \in Panel!Form /\ m.avatar = panel.draft.avatar /\ m.seen = panel.draft.seen
        BY <1>1, <3>1 DEF Panel!Form
      <4>2. d = m
        BY <3>2
      <4> HIDE DEF m, d
      <4> QED BY <3>2, <4>1, <4>2
    <3>3. CASE f = "avatar"
      <4> DEFINE m == [panel.draft EXCEPT !.avatar = Panel!Other(panel.draft.avatar)]
      <4>1. m \in Panel!Form /\ m.name = panel.draft.name /\ m.seen = panel.draft.seen
        BY <1>1, <3>1 DEF Panel!Form
      <4>2. d = m
        BY <3>3
      <4> HIDE DEF m, d
      <4> QED BY <3>3, <4>1, <4>2
    <3> QED BY <3>2, <3>3 DEF Panel!Fields
  <2> HIDE DEF d
  <2>3. /\ typed \in SUBSET Panel!Fields /\ late \in SUBSET Panel!Fields
        /\ panel.late \subseteq late /\ (busy => f \in late)
    BY <1>1
  <2>4. Filled(d, typed, account)
    BY <1>1, <2>2 DEF Filled
  <2>5. ~busy => \A j \in Browsers : ~Saving(j)
    BY DEF Panel!Waiting, Panel!UnderWay, Saving
  <2> HIDE DEF typed, late, busy
  <2>6. /\ p \in Panel!Page /\ p.profile = panel.profile /\ p.alone = panel.alone
        /\ p.left = panel.left /\ p.draft = d /\ p.typed = typed /\ p.late = late
    BY <1>1, <2>2, <2>3 DEF Panel!Page
  <2> HIDE DEF p
  <2>7. \A j \in Browsers : Saving(j) =>
          /\ "name" \in late \/ edits[j].draft.name = d.name
          /\ "avatar" \in late \/ edits[j].draft.avatar = d.avatar
    BY <2>2, <2>3, <2>5 DEF PanelParts, FormIsHeld
  <2> QED BY <1>3, <2>1, <2>4, <2>6, <2>7
<1>5. CASE Panel!Reset
  <2> DEFINE d == Panel!Draft(panel.profile)
             p == [panel EXCEPT !.draft = d, !.typed = {}, !.late = {}, !.moves = panel.moves + 1]
  <2>1. panel' = p /\ ~Panel!Waiting("identity")
    BY <1>1, <1>5 DEF Panel!Reset, Panel!Page
  <2>2. d \in Panel!Form /\ Filled(d, {}, account)
    BY <1>1 DEF Panel!Draft, Panel!Form, Panel!Profile, Knows, Filled
  <2> HIDE DEF d
  <2>3. /\ p \in Panel!Page /\ p.profile = panel.profile /\ p.alone = panel.alone
        /\ p.left = panel.left /\ p.draft = d /\ p.typed = {}
    BY <1>1, <2>2 DEF Panel!Page
  <2> HIDE DEF p
  <2>4. \A j \in Browsers : ~Saving(j)
    BY <2>1 DEF Panel!Waiting, Panel!UnderWay, Saving
  <2> QED BY <1>3, <2>1, <2>2, <2>3, <2>4
<1> QED BY <1>4, <1>5

(* The page that comes back from the consent screen is a new one.          *)
LEMMA ConnectKeeps ==
  ASSUME PanelParts, Panel!Connect
  PROVE  PanelParts'
<1>1. PICK k \in Linkable :
        LET row == [account EXCEPT !.links = @ \union {k}, !.writes = @ + 1] IN
        /\ account' = row
        /\ panel' = [panel EXCEPT !.profile = Panel!ProfileOf(row), !.draft = Panel!Draft(row),
                                  !.typed = {}, !.late = {}, !.moves = @ + 1,
                                  !.alone = @ /\ Panel!UnderWay = {}]
  BY DEF Panel!Connect
<1>2. /\ edits' = [j \in Browsers |-> IF edits[j] = Null THEN Null ELSE [edits[j] EXCEPT !.mine = FALSE]]
      /\ ~account.gone
  BY DEF Panel!Connect
<1> DEFINE row == [account EXCEPT !.links = account.links \union {k}, !.writes = account.writes + 1]
           profile == Panel!ProfileOf(row)
           d == Panel!Draft(row)
           none == Panel!UnderWay = {}
           alone == panel.alone /\ none
           p == [panel EXCEPT !.profile = profile, !.draft = d, !.typed = {}, !.late = {},
                              !.moves = panel.moves + 1, !.alone = alone]
<1>3. account' = row /\ panel' = p
  BY <1>1 DEF PanelParts, PanelTyped, Panel!Account, Panel!Page
<1>4. /\ account \in Panel!Account /\ account.links \in SUBSET Linkable /\ account.writes \in Nat
      /\ panel \in Panel!Page /\ panel.moves + 1 \in Nat /\ panel.alone \in BOOLEAN
  BY PanelFacts DEF PanelParts, PanelTyped, Panel!Account
<1>5. row \in Panel!Account /\ row.writes = account.writes + 1 /\ row.gone = account.gone
  <2> DEFINE owned == account.links \union {k}
             writes == account.writes + 1
  <2>1. owned \in SUBSET Linkable /\ writes \in Nat
    BY <1>4
  <2> DEFINE r == [account EXCEPT !.links = owned, !.writes = writes]
  <2>2. row = r
    OBVIOUS
  <2> HIDE DEF owned, row
  <2>3. r \in Panel!Account /\ r.writes = writes /\ r.gone = account.gone
    BY <1>4, <2>1 DEF Panel!Account
  <2> QED BY <2>2, <2>3
<1> HIDE DEF row
<1>6. /\ profile \in Panel!Profile /\ Knows(profile, row) /\ Same(profile, row)
      /\ d \in Panel!Form /\ Filled(d, {}, row)
  <2>1. row.writes \in Nat
    BY <1>4, <1>5
  <2>2. profile \in Panel!Profile /\ d \in Panel!Form
    BY <1>5 DEF Panel!Account, Panel!ProfileOf, Panel!Profile, Panel!Draft, Panel!Form
  <2> QED BY <2>1, <2>2 DEF Panel!ProfileOf, Panel!Draft, Knows, Same, Filled
<1>7. alone \in BOOLEAN /\ (alone => \A i \in Browsers : edits[i] = Null)
  BY <1>4 DEF Panel!UnderWay
<1> HIDE DEF profile, d, alone
<1>8. /\ p \in Panel!Page /\ p.profile = profile /\ p.draft = d /\ p.typed = {}
      /\ p.alone = alone /\ p.left = panel.left
  BY <1>4, <1>6, <1>7 DEF Panel!Page
<1> HIDE DEF p
<1>9. ASSUME NEW j \in Browsers, edits[j] # Null
      PROVE  /\ edits'[j] \in Panel!Edit /\ ~edits'[j].mine
             /\ Informed(edits'[j], row)
  <2> DEFINE e == edits[j]
             x == [e EXCEPT !.mine = FALSE]
  <2>1. e \in Panel!Edit /\ Informed(e, account)
    BY <1>9 DEF PanelParts, PanelTyped
  <2>2. edits'[j] = x
    BY <1>2, <1>9
  <2>3. Informed(e, row)
    BY <1>4, <1>5, <2>1, ReadsAge
  <2> HIDE DEF e
  <2>4. /\ x \in Panel!Edit /\ ~x.mine /\ x.kind = e.kind /\ x.draft = e.draft /\ x.claims = e.claims
        /\ x.believed = e.believed /\ x.typed = e.typed /\ x.view = e.view /\ x.unread = e.unread
        /\ x.at = e.at
    BY <2>1 DEF Panel!Edit
  <2> HIDE DEF x
  <2> QED BY <2>2, <2>3, <2>4 DEF Informed
<1>10. \A j \in Browsers : edits[j] = Null => edits'[j] = Null
  BY <1>2
<1>11. PanelTyped'
  BY <1>2, <1>3, <1>5, <1>8, <1>9, <1>10 DEF PanelTyped
<1>12. FormIsHeld'
  BY <1>9, <1>10 DEF FormIsHeld, Saving
<1>13. AloneAgrees'
  BY <1>2, <1>3, <1>5, <1>6, <1>7, <1>8, <1>10 DEF AloneAgrees
<1> QED BY <1>3, <1>6, <1>8, <1>9, <1>10, <1>11, <1>12, <1>13 DEF PanelParts

LEMMA PanelBegins ==
  ASSUME Panel!ProfileInit
  PROVE  PanelParts
<1>1. PICK s \in Panels :
        /\ account = [name |-> "before", avatar |-> "before", password |-> s.password,
                      links |-> s.links, writes |-> 0, gone |-> FALSE]
        /\ edits = [j \in Browsers |-> Null]
        /\ panel = [profile |-> Panel!ProfileOf(account), draft |-> Panel!Draft(account), typed |-> {},
                    late |-> {}, left |-> FALSE, moves |-> 0, alone |-> TRUE, menu |-> s.menu]
  BY DEF Panel!ProfileInit
<1>2. s.password \in BOOLEAN /\ s.links \in SUBSET Linkable /\ s.menu \in SUBSET STRING
  BY PanelAssumption
<1>3. account \in Panel!Account /\ account.writes = 0 /\ ~account.gone
  BY <1>1, <1>2 DEF Panel!Account, Panel!Texts
<1> DEFINE p == Panel!ProfileOf(account)
           d == Panel!Draft(account)
<1>4. /\ p \in Panel!Profile /\ d \in Panel!Form /\ Knows(p, account) /\ Same(p, account)
      /\ Filled(d, {}, account)
  <2>1. p \in Panel!Profile /\ d \in Panel!Form
    BY <1>3 DEF Panel!Account, Panel!ProfileOf, Panel!Profile, Panel!Draft, Panel!Form
  <2> QED BY <1>3, <2>1 DEF Panel!ProfileOf, Panel!Draft, Knows, Same, Filled
<1>5. panel.profile = p /\ panel.draft = d /\ panel.typed = {}
  BY <1>1
<1> HIDE DEF p, d
<1>6. PanelTyped
  <2>1. panel \in Panel!Page
    BY <1>1, <1>2, <1>4 DEF Panel!Page, p, d
  <2> QED BY <1>1, <1>3, <2>1 DEF PanelTyped
<1>7. FormIsHeld /\ AloneAgrees
  BY <1>1, <1>3, <1>4, <1>5 DEF FormIsHeld, Saving, AloneAgrees
<1> QED BY <1>1, <1>4, <1>5, <1>6, <1>7 DEF PanelParts

(* The invariant of the profile page holds in every behaviour.             *)
THEOREM PanelInvariance == Spec => []PanelInv
<1>1. Init => PanelInv
  BY PanelBegins DEF Init, PanelInv
<1>2. PanelInv /\ [Next]_vars => PanelInv'
  <2> SUFFICES ASSUME PanelInv, [Next]_vars, part' = "profile"
               PROVE  PanelParts'
    BY DEF PanelInv
  <2>1. part = "profile" /\ PanelParts
    BY DEF Next, vars, PanelInv
  <2>2. CASE Panel!ProfileNext
    <3>1. ASSUME NEW j \in Browsers,
                 \/ Panel!SaveIdentity(j) \/ Panel!Disconnect(j)
                 \/ \E right \in BOOLEAN : Panel!SavePassword(j, right) \/ Panel!ConfirmDelete(j, right)
          PROVE  PanelParts'
      BY <2>1, <3>1, PageSubmits
    <3>2. ASSUME NEW j \in Browsers,
                 \/ Panel!Enter(j) \/ Panel!UpdateProfile(j) \/ Panel!ChangePassword(j)
                 \/ Panel!DeleteAccount(j) \/ Panel!FindLink(j) \/ Panel!Unlink(j)
                 \/ \E what \in {"user", "links"} : Panel!GetProfile(j, what)
          PROVE  PanelParts'
      BY <2>1, <3>2, EnterKeeps, ServiceKeeps, GetProfileKeeps
    <3>3. ASSUME NEW j \in Browsers, Panel!Lose(j) \/ Panel!Answer(j) \/ Panel!AnswerError(j)
          PROVE  PanelParts'
      BY <2>1, <3>3, LoseKeeps, AnswersShow
    <3>4. ASSUME NEW f \in Panel!Fields, Panel!TypeIn(f) \/ Panel!Reset
          PROVE  PanelParts'
      BY <2>1, <3>4, TypingKeeps
    <3>5. "name" \in Panel!Fields
      BY DEF Panel!Fields
    <3> QED BY <2>1, <2>2, <3>1, <3>2, <3>3, <3>4, <3>5, ConnectKeeps, ElsewhereKeeps
            DEF Panel!ProfileNext
  <2>3. CASE UNCHANGED ownerVars
    <3>1. account' = account /\ edits' = edits /\ panel' = panel
      BY <2>3 DEF ownerVars
    <3>2. \A j \in Browsers : Saving(j)' <=> Saving(j)
      BY <3>1 DEF Saving
    <3>3. PanelTyped' /\ FormIsHeld' /\ AloneAgrees'
      BY <2>1, <3>1, <3>2 DEF PanelParts, PanelTyped, FormIsHeld, AloneAgrees
    <3> QED BY <2>1, <3>1, <3>3 DEF PanelParts
  <2> QED BY <2>1, <2>2, <2>3 DEF Next, vars
<1> QED BY <1>1, <1>2, PTL DEF Spec

-----------------------------------------------------------------------------
(* What the profile page promises of its steps.                            *)

PanelPromises == /\ Panel!RefusedByDisagreement
                 /\ Panel!TypedIsKept
                 /\ Panel!SaveWritesWhatWasTyped

Disagree(e) == \/ account.gone
               \/ e.believed.password # e.user
               \/ e.believed.links # account.links

(* It is enough to look at the one request a step is about.                *)
LEMMA PromisesOfOne ==
  ASSUME NEW j \in Browsers,
         \A i \in Browsers : i # j /\ edits[i] # Null =>
           edits'[i] # Null /\ edits'[i].at = edits[i].at,
         edits[j] # Null =>
           /\ edits[j].right /\ edits[j].at \notin {"answer", "refused"}
              /\ edits'[j] # Null /\ edits'[j].at = "refused" => Disagree(edits[j])
           /\ \A f \in panel.typed :
                edits[j].mine /\ edits'[j] = Null /\ panel'.draft[f] # panel.draft[f] =>
                  /\ edits[j].kind = "identity"
                  /\ f \in panel.late \/ edits[j].view[f] # edits[j].draft[f]
           /\ \A f \in Panel!Fields :
                /\ edits[j].at = "apply" /\ edits[j].kind = "identity" /\ edits'[j].at = "read"
                /\ account'[f] # account[f]
                => f \in edits[j].typed \/ edits[j].draft.seen # account.writes
  PROVE  PanelPromises
<1>1. Panel!RefusedByDisagreement
  <2> SUFFICES ASSUME NEW i \in Browsers,
                      edits[i] # Null, edits[i].right, edits[i].at \notin {"answer", "refused"},
                      edits'[i] # Null, edits'[i].at = "refused"
               PROVE  Disagree(edits[i])
    BY DEF Panel!RefusedByDisagreement, Disagree
  <2> QED OBVIOUS
<1>2. Panel!TypedIsKept
  <2> SUFFICES ASSUME NEW f \in panel.typed, NEW i \in Browsers,
                      edits[i] # Null, edits[i].mine, edits'[i] = Null,
                      panel'.draft[f] # panel.draft[f]
               PROVE  /\ edits[i].kind = "identity"
                      /\ f \in panel.late \/ edits[i].view[f] # edits[i].draft[f]
    BY DEF Panel!TypedIsKept
  <2> QED OBVIOUS
<1>3. Panel!SaveWritesWhatWasTyped
  <2> SUFFICES ASSUME NEW f \in Panel!Fields, NEW i \in Browsers,
                      edits[i] # Null, edits[i].at = "apply", edits[i].kind = "identity",
                      edits'[i].at = "read", account'[f] # account[f]
               PROVE  f \in edits[i].typed \/ edits[i].draft.seen # account.writes
    BY DEF Panel!SaveWritesWhatWasTyped, Panel!At
  <2> QED OBVIOUS
<1> QED BY <1>1, <1>2, <1>3 DEF PanelPromises

LEMMA NothingEnds ==
  ASSUME \A i \in Browsers : edits[i] # Null => edits'[i] # Null /\ edits'[i].at = edits[i].at
  PROVE  PanelPromises
<1>1. ASSUME NEW j \in Browsers PROVE PanelPromises
  BY <1>1, PromisesOfOne
<1>2. CASE Browsers = {}
  BY <1>2 DEF PanelPromises, Panel!RefusedByDisagreement, Panel!TypedIsKept,
     Panel!SaveWritesWhatWasTyped
<1> QED BY <1>1, <1>2

LEMMA FormStepsPromise ==
  ASSUME PanelParts, Panel!Reset \/ Panel!Connect \/ \E f \in Panel!Fields : Panel!TypeIn(f)
  PROVE  PanelPromises
<1>1. CASE Panel!Reset \/ \E f \in Panel!Fields : Panel!TypeIn(f)
  <2>1. edits' = edits
    BY <1>1 DEF Panel!TypeIn, Panel!Reset
  <2> QED BY <2>1, NothingEnds
<1>2. CASE Panel!Connect
  <2>1. /\ account'.name = account.name /\ account'.avatar = account.avatar
        /\ \A i \in Browsers : edits[i] # Null =>
             edits'[i] # Null /\ edits'[i].at = edits[i].at
    <3>1. /\ edits' = [i \in Browsers |-> IF edits[i] = Null THEN Null
                                          ELSE [edits[i] EXCEPT !.mine = FALSE]]
          /\ \E k \in Linkable : account' = [account EXCEPT !.links = @ \union {k}, !.writes = @ + 1]
      BY <1>2 DEF Panel!Connect
    <3>2. account'.name = account.name /\ account'.avatar = account.avatar
      BY <3>1 DEF PanelParts, PanelTyped, Panel!Account
    <3>3. ASSUME NEW i \in Browsers, edits[i] # Null
          PROVE  edits'[i] # Null /\ edits'[i].at = edits[i].at
      <4> DEFINE x == [edits[i] EXCEPT !.mine = FALSE]
      <4>1. edits'[i] = x /\ edits[i] \in Panel!Edit
        BY <3>1, <3>3 DEF PanelParts, PanelTyped
      <4>2. x \in Panel!Edit /\ x.at = edits[i].at
        BY <4>1 DEF Panel!Edit
      <4> HIDE DEF x
      <4> QED BY <4>1, <4>2, PanelAssumption
    <3> QED BY <3>2, <3>3
  <2> QED BY <2>1, NothingEnds
<1> QED BY <1>1, <1>2

LEMMA SubmitsPromise ==
  ASSUME PanelParts, NEW j \in Browsers,
         \/ Panel!SaveIdentity(j) \/ Panel!Disconnect(j)
         \/ \E right \in BOOLEAN : Panel!SavePassword(j, right) \/ Panel!ConfirmDelete(j, right)
         \/ \E kind \in {"identity", "password", "disconnect"} : Panel!Elsewhere(j, kind)
  PROVE  PanelPromises
<1>1. edits[j] = Null /\ \E x : edits' = [edits EXCEPT ![j] = x]
  BY DEF Panel!SaveIdentity, Panel!Disconnect, Panel!SavePassword, Panel!ConfirmDelete,
     Panel!Elsewhere, Panel!Submit
<1>2. \A i \in Browsers : i # j => edits'[i] = edits[i]
  BY <1>1 DEF PanelParts, PanelTyped
<1> QED BY <1>1, <1>2, NothingEnds

LEMMA ServicePromises ==
  ASSUME PanelParts, NEW j \in Browsers,
         \/ Panel!Enter(j) \/ Panel!UpdateProfile(j) \/ Panel!ChangePassword(j)
         \/ Panel!DeleteAccount(j) \/ Panel!FindLink(j) \/ Panel!Unlink(j)
         \/ (\E what \in {"user", "links"} : Panel!GetProfile(j, what)) \/ Panel!Lose(j)
  PROVE  PanelPromises
<1> DEFINE e == edits[j]
<1>1. /\ e # Null /\ e \in Panel!Edit /\ Informed(e, account)
      /\ edits \in [Browsers -> Panel!Edit \union {Null}] /\ account \in Panel!Account
  BY DEF Panel!Enter, Panel!UpdateProfile, Panel!ChangePassword, Panel!DeleteAccount, Panel!FindLink,
     Panel!Unlink, Panel!Apply, Panel!GetProfile, Panel!Lose, Panel!At, PanelParts, PanelTyped
<1>2. ASSUME NEW at, edits' = [edits EXCEPT ![j].at = at],
             e.right /\ e.at \notin {"answer", "refused"} /\ at = "refused" => Disagree(e),
             e.at = "apply" /\ e.kind = "identity" /\ at = "read" => \A f \in Panel!Fields :
               account'[f] # account[f] => f \in e.typed \/ e.draft.seen # account.writes,
             at \in {"apply", "refused", "unlink", "read", "answer"}
      PROVE  PanelPromises
  <2> DEFINE x == [e EXCEPT !.at = at]
  <2>1. x \in Panel!Edit /\ x.at = at
    BY <1>1, <1>2 DEF Panel!Edit
  <2>2. edits' = [edits EXCEPT ![j] = x]
    BY <1>2
  <2> HIDE DEF x
  <2>3. /\ edits'[j] = x /\ x # Null
        /\ \A i \in Browsers : i # j => edits'[i] = edits[i]
    BY <1>1, <2>1, <2>2, PanelAssumption
  <2> QED BY <1>2, <2>1, <2>3, PromisesOfOne
<1>3. CASE Panel!Enter(j)
  <2> DEFINE at == IF account.gone THEN "refused" ELSE "apply"
             user == account.password
             x == [e EXCEPT !.at = at, !.user = user]
  <2>1. edits' = [edits EXCEPT ![j] = x] /\ e.at = "enter" /\ user \in BOOLEAN
    BY <1>1, <1>3 DEF Panel!Enter, Panel!At, Panel!Account
  <2>2. at = "apply" \/ (at = "refused" /\ account.gone)
    OBVIOUS
  <2> HIDE DEF at, user
  <2>3. x \in Panel!Edit /\ x.at = at
    BY <1>1, <2>1, <2>2 DEF Panel!Edit
  <2> HIDE DEF x
  <2>4. /\ edits'[j] = x /\ x # Null
        /\ \A i \in Browsers : i # j => edits'[i] = edits[i]
    BY <1>1, <2>1, <2>3, PanelAssumption
  <2> QED BY <2>1, <2>2, <2>3, <2>4, PromisesOfOne DEF Disagree
<1>4. CASE Panel!UpdateProfile(j)
  <2>1. /\ edits' = [edits EXCEPT ![j].at = "read"] /\ e.kind = "identity"
        /\ account' = [[account EXCEPT !.name = e.draft.name, !.avatar = e.draft.avatar]
                         EXCEPT !.writes = @ + 1]
    BY <1>4 DEF Panel!UpdateProfile, Panel!Apply, Panel!Go, Panel!Write
  <2>2. account'.name = e.draft.name /\ account'.avatar = e.draft.avatar
    BY <1>1, <2>1 DEF Panel!Account
  <2>3. Filled(e.draft, e.typed, account)
    BY <1>1, <2>1 DEF Informed
  <2>4. \A f \in Panel!Fields : account'[f] # account[f] =>
          f \in e.typed \/ e.draft.seen # account.writes
    BY <2>2, <2>3 DEF Filled, Panel!Fields
  <2> HIDE DEF e
  <2> QED BY <1>2, <2>1, <2>4 DEF e
<1>5. CASE Panel!ChangePassword(j)
  <2>1. PICK at \in {"refused", "answer"} : edits' = [edits EXCEPT ![j].at = at]
          /\ (at = "refused" => e.user /\ ~(e.claims /\ e.right))
    BY <1>5 DEF Panel!ChangePassword, Panel!Go
  <2>2. e.right /\ at = "refused" => Disagree(e)
    BY <1>1, <2>1 DEF Informed, Disagree
  <2> QED BY <1>2, <2>1, <2>2
<1>6. CASE Panel!DeleteAccount(j)
  <2>1. PICK at \in {"refused", "answer"} : edits' = [edits EXCEPT ![j].at = at]
          /\ (at = "refused" => ~(e.right /\ e.claims = e.user))
    BY <1>6 DEF Panel!DeleteAccount, Panel!Go
  <2>2. e.right /\ at = "refused" => Disagree(e)
    BY <1>1, <2>1 DEF Informed, Disagree
  <2> QED BY <1>2, <2>1, <2>2
<1>7. CASE Panel!FindLink(j)
  <2>1. PICK at \in {"read", "refused", "unlink"} : edits' = [edits EXCEPT ![j].at = at]
          /\ (at = "refused" => ~e.user /\ Panel!Cardinality(account.links) = 1)
    <3> DEFINE none == e.believed.links \intersect account.links = {}
               last == ~e.user /\ Panel!Cardinality(account.links) = 1
               to == CASE none -> "read" [] last -> "refused" [] OTHER -> "unlink"
    <3>1. edits' = [edits EXCEPT ![j].at = to]
      BY <1>7 DEF Panel!FindLink, Panel!Go
    <3>2. to \in {"read", "refused", "unlink"} /\ (to = "refused" => last)
      <4> HIDE DEF none, last
      <4> QED OBVIOUS
    <3> HIDE DEF to
    <3> QED BY <3>1, <3>2
  <2>2. e.kind = "disconnect"
    BY <1>7 DEF Panel!FindLink, Panel!Apply
  <2>3. at = "refused" => Disagree(e)
    BY <1>1, <2>1, <2>2, CountsAlike DEF Informed, Disagree
  <2> QED BY <1>2, <2>1, <2>2, <2>3
<1>8. CASE Panel!Unlink(j)
  <2>1. PICK at \in {"read", "refused"} : edits' = [edits EXCEPT ![j].at = at]
          /\ (at = "refused" => e.believed.links # account.links)
    BY <1>8 DEF Panel!Unlink, Panel!Go
  <2>2. e.at = "unlink"
    BY <1>8 DEF Panel!Unlink, Panel!At
  <2> QED BY <1>2, <2>1, <2>2 DEF Disagree
<1>9. ASSUME NEW what \in {"user", "links"}, Panel!GetProfile(j, what)
      PROVE  PanelPromises
  <2>1. e.at = "read"
    BY <1>9 DEF Panel!GetProfile, Panel!At
  <2>2. PICK x \in Panel!Edit : edits' = [edits EXCEPT ![j] = x] /\ x.at \in {"read", "answer"}
    BY <1>9, GetProfileKeeps
  <2>3. /\ edits'[j] = x /\ x # Null
        /\ \A i \in Browsers : i # j => edits'[i] = edits[i]
    BY <1>1, <2>2, PanelAssumption
  <2> HIDE DEF e
  <2> QED BY <2>1, <2>2, <2>3, PromisesOfOne DEF e
<1>10. CASE Panel!Lose(j)
  <2>1. edits' = [edits EXCEPT ![j].at = "refused"] /\ e.at = "answer"
    BY <1>10 DEF Panel!Lose, Panel!Go, Panel!At
  <2> QED BY <1>2, <2>1
<1> QED BY <1>3, <1>4, <1>5, <1>6, <1>7, <1>8, <1>9, <1>10

LEMMA AnswersPromise ==
  ASSUME PanelParts, NEW j \in Browsers, Panel!Answer(j) \/ Panel!AnswerError(j)
  PROVE  PanelPromises
<1> DEFINE e == edits[j]
<1>1. /\ e # Null /\ e \in Panel!Edit /\ edits' = [edits EXCEPT ![j] = Null]
      /\ e.at \in {"answer", "refused"} /\ panel \in Panel!Page
      /\ panel' = panel \/ (e.mine /\ panel' = Panel!Shown(e))
  BY DEF Panel!Answer, Panel!AnswerError, Panel!At, PanelParts, PanelTyped
<1>2. \A i \in Browsers : edits'[i] = IF i = j THEN Null ELSE edits[i]
  BY <1>1 DEF PanelParts, PanelTyped
<1>3. ASSUME NEW f \in panel.typed, e.mine, panel'.draft[f] # panel.draft[f]
      PROVE  e.kind = "identity" /\ (f \in panel.late \/ e.view[f] # e.draft[f])
  <2>1. panel' = Panel!Shown(e)
    BY <1>1, <1>3
  <2>2. CASE e.kind = "identity"
    <3>1. panel' = [panel EXCEPT !.profile = e.view, !.draft = Panel!Draft(e.view),
                                 !.typed = {}, !.late = {}]
      BY <2>1, <2>2 DEF Panel!Shown
    <3>2. panel'.draft = Panel!Draft(e.view)
      BY <1>1, <3>1 DEF Panel!Page
    <3>3. f \in Panel!Fields /\ panel'.draft.name = e.view.name /\ panel'.draft.avatar = e.view.avatar
      BY <1>1, <3>2 DEF Panel!Draft, Panel!Page
    <3>4. Saving(j)
      BY <1>1, <1>3, <2>2 DEF Saving
    <3>5. /\ "name" \in panel.late \/ e.draft.name = panel.draft.name
          /\ "avatar" \in panel.late \/ e.draft.avatar = panel.draft.avatar
      BY <3>4 DEF PanelParts, FormIsHeld
    <3> QED BY <1>3, <2>2, <3>3, <3>5 DEF Panel!Fields
  <2>3. CASE e.kind # "identity"
    <3>1. panel'.draft = panel.draft
      <4>1. \/ panel' = [panel EXCEPT !.profile.password = TRUE]
            \/ panel' = [panel EXCEPT !.profile = e.view]
            \/ panel' = [panel EXCEPT !.left = TRUE]
        BY <1>1, <2>1, <2>3 DEF Panel!Shown, Panel!Edit
      <4> QED BY <1>1, <4>1 DEF Panel!Page
    <3> QED BY <1>3, <3>1
  <2> QED BY <2>2, <2>3
<1>4. \A i \in Browsers : edits'[i] # Null => edits'[i] = edits[i] /\ i # j
  BY <1>2
<1>5. Panel!RefusedByDisagreement
  BY <1>4 DEF Panel!RefusedByDisagreement
<1>6. Panel!TypedIsKept
  BY <1>2, <1>3 DEF Panel!TypedIsKept
<1>7. Panel!SaveWritesWhatWasTyped
  <2>1. account' = account
    BY DEF Panel!Answer, Panel!AnswerError
  <2> QED BY <2>1 DEF Panel!SaveWritesWhatWasTyped
<1> QED BY <1>5, <1>6, <1>7 DEF PanelPromises

(* The pages of an owner show the stored rows and ask for what the service *)
(* demands; a form loses nothing that was typed before its save, and a     *)
(* save writes nothing that was not, unless the row was written meanwhile. *)
THEOREM OwnerPagesAreTruthful == Spec => OwnerPagesTellTheTruth
<1>1. PanelInv => (part = "profile" => Panel!PanelShowsTheRow)
  <2> SUFFICES ASSUME PanelParts, panel.alone, Panel!UnderWay = {}, ~panel.left
               PROVE  \A fact \in {"name", "avatar", "password", "links"} :
                        panel.profile[fact] = account[fact]
    BY DEF PanelInv, Panel!PanelShowsTheRow
  <2>1. \A j \in Browsers : edits[j] = Null
    BY DEF Panel!UnderWay
  <2> QED BY <2>1 DEF PanelParts, AloneAgrees, Same
<1>2. PanelInv /\ [Next]_vars =>
        [part = "profile" => /\ Panel!RefusedByDisagreement
                             /\ Panel!TypedIsKept
                             /\ Panel!SaveWritesWhatWasTyped]_vars
  <2> SUFFICES ASSUME PanelInv, Next, part = "profile"
               PROVE  PanelPromises
    BY DEF PanelPromises
  <2>1. PanelParts
    BY DEF PanelInv
  <2>2. CASE Panel!ProfileNext
    <3>1. ASSUME Panel!Reset \/ Panel!Connect \/ \E f \in Panel!Fields : Panel!TypeIn(f)
          PROVE  PanelPromises
      BY <2>1, <3>1, FormStepsPromise
    <3>2. ASSUME NEW j \in Browsers,
                 \/ Panel!SaveIdentity(j) \/ Panel!Disconnect(j)
                 \/ \E right \in BOOLEAN : Panel!SavePassword(j, right) \/ Panel!ConfirmDelete(j, right)
                 \/ \E kind \in {"identity", "password", "disconnect"} : Panel!Elsewhere(j, kind)
          PROVE  PanelPromises
      BY <2>1, <3>2, SubmitsPromise
    <3>3. ASSUME NEW j \in Browsers,
                 \/ Panel!Enter(j) \/ Panel!UpdateProfile(j) \/ Panel!ChangePassword(j)
                 \/ Panel!DeleteAccount(j) \/ Panel!FindLink(j) \/ Panel!Unlink(j)
                 \/ (\E what \in {"user", "links"} : Panel!GetProfile(j, what)) \/ Panel!Lose(j)
          PROVE  PanelPromises
      BY <2>1, <3>3, ServicePromises
    <3>4. ASSUME NEW j \in Browsers, Panel!Answer(j) \/ Panel!AnswerError(j)
          PROVE  PanelPromises
      BY <2>1, <3>4, AnswersPromise
    <3> QED BY <2>2, <3>1, <3>2, <3>3, <3>4 DEF Panel!ProfileNext
  <2> QED BY <2>2 DEF Next
<1> QED BY <1>1, <1>2, BenchTellsTheTruth, PanelInvariance, PTL DEF Spec, OwnerPagesTellTheTruth
=============================================================================
