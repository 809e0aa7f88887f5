----------------------------- MODULE AccountsMC -----------------------------
(***************************************************************************)
(* Accounts, sign-in and API keys together, and what they must achieve.    *)
(* One behaviour combines the operations of one scenario: each scenario    *)
(* pairs the operations that touch the same rows.  Two more parts of the   *)
(* run are pages of one owner: the profile, and the saved integrations.    *)
(***************************************************************************)
EXTENDS KeyManager, TLC

CONSTANTS
  u1, u2, e1, e2, p1, p2, s1, s2, google, Parts,
  Linkable, Panels, PanelMoves,                \* of ProfilePanel
  MaxIntegrations, MaxNotes, MaxClicks         \* of Integrations

VARIABLES
  part,                                        \* never changes
  account, edits, panel,                       \* of ProfilePanel
  notes, posts, bench                          \* of Integrations

peopleVars == <<users, links, subscribed, keys, tokens, live, jar, req, menu, sealed, flow,
                 page, sent>>
ownerVars == <<account, edits, panel>>
noteVars == <<notes, posts, bench>>
vars == <<part, peopleVars, ownerVars, noteVars>>

PanelOf(password, linked, ops) == [password |-> password, links |-> linked, menu |-> ops]

SmallPanels ==
  {PanelOf(FALSE, {google}, {"identity", "disconnect", "elsewhere"}),
   PanelOf(FALSE, {google}, {"identity", "password", "disconnect"}),
   PanelOf(FALSE, {google}, {"password", "disconnect", "elsewhere"}),
   PanelOf(TRUE, {google}, {"password", "disconnect", "delete", "connect"}),
   PanelOf(FALSE, {google}, {"password", "delete", "elsewhere", "lose"}),
   PanelOf(TRUE, {}, {"identity", "connect", "disconnect", "lose"})}

Panel == INSTANCE ProfilePanel WITH
  Edits    <- Browsers,
  MaxMoves <- PanelMoves

ASSUME PanelAssumption ==
  /\ Panels \subseteq [password : BOOLEAN, links : SUBSET Linkable, menu : SUBSET STRING]
  /\ Null \notin Panel!Profile \union Panel!Edit

Workbench == INSTANCE Integrations WITH
  Windows <- Browsers,
  Posts   <- Browsers

ASSUME BenchAssumption == /\ MaxIntegrations \in Nat \ {0}
                          /\ Null \notin Workbench!Note \union Workbench!Request

User(m, p, r) == [email |-> m, password |-> p, status |-> "active", role |-> r]

Nobody == [u \in Users |-> Null]
OneUser == [Nobody EXCEPT ![u1] = User(e1, p1, "user")]
TwoUsers == [OneUser EXCEPT ![u2] = User(e2, p1, "user")]
TwoAdmins == [Nobody EXCEPT ![u1] = User(e1, p1, "admin"), ![u2] = User(e2, p1, "admin")]

SignedOut == [b \in Browsers |-> Null]
As(u) == [b \in Browsers |-> [user |-> u, browser |-> b, via |-> p1]]

Scenario(rows, jars, ops) == [rows |-> rows, jars |-> jars, menu |-> ops]

SmallScenarios ==
  {Scenario(Nobody, SignedOut, {"register", "google", "unlink", "crash"}),
   Scenario(OneUser, SignedOut, {"login", "forgot", "reset", "crash"}),
   Scenario(OneUser, SignedOut, {"login", "password", "logout", "close", "expiry"}),
   Scenario(TwoUsers, As(u1), {"login", "link", "logout", "unlink"}),
   Scenario(OneUser, SignedOut, {"google", "login", "close", "link"}),
   Scenario(TwoAdmins, SignedOut, {"login", "suspend", "revoke_admin", "make_admin", "crash"}),
   Scenario(TwoAdmins, SignedOut, {"login", "close", "suspend", "reactivate", "promote"}),
   Scenario(OneUser, As(u1), {"keys"})}

ResetScenarios == {Scenario(OneUser, SignedOut, {"login", "forgot", "reset"})}

Symmetry == Permutations(Browsers)

SmallEmailOf == (s1 :> e1) @@ (s2 :> e2)

AccountsShut == users = Null /\ links = Null /\ subscribed = Null /\ keys = Null
                  /\ tokens = Null /\ live = Null /\ jar = Null /\ req = Null /\ menu = Null
                  /\ sealed = Null /\ flow = Null /\ page = Null /\ sent = Null
PanelShut == account = Null /\ edits = Null /\ panel = Null
BenchShut == notes = Null /\ posts = Null /\ bench = Null

Init ==
  /\ part \in Parts
  /\ IF part = "accounts" THEN SignInInit /\ KeyInit ELSE AccountsShut
  /\ IF part = "profile" THEN Panel!ProfileInit ELSE PanelShut
  /\ IF part = "integrations" THEN Workbench!BenchInit ELSE BenchShut

AccountNext == \/ AccountsNext /\ UNCHANGED <<sealed, flow, page, sent>>
               \/ SignInNext /\ UNCHANGED keyVars
               \/ KeyNext

Next ==
  /\ UNCHANGED part
  /\ \/ part = "accounts" /\ AccountNext /\ UNCHANGED <<ownerVars, noteVars>>
     \/ part = "profile" /\ Panel!ProfileNext /\ UNCHANGED <<peopleVars, noteVars>>
     \/ part = "integrations" /\ Workbench!BenchNext
          /\ UNCHANGED <<peopleVars, ownerVars>>

Spec == Init /\ [][Next]_vars

(* Whoever can open the dashboard has a subscription row: registration,    *)
(* both sign-ins and their retries after a crash reach ensureSubscription  *)
(* before createSession.                                                   *)
SessionHasSubscription ==
  part = "accounts" => \A s \in live : s.user \in subscribed

(* "Older outstanding reset tokens are burned so only the newest link      *)
(* works": two requests may leave a link each, but no account ever has     *)
(* more live links than requests that can run at once.                     *)
OutstandingLinksAreBounded ==
  part = "accounts" => \A u \in Users : Cardinality(Outstanding(u)) <= Cardinality(Browsers)

(* A linking flow attaches the identity to the account that started it,    *)
(* whoever is signed in when the consent screen returns, and a sign-in     *)
(* only to the account of the stated address (callback route).             *)
LinkFollowsItsStarter ==
  [][part = "accounts" => \A s \in Subjects :
       links[s] = Null /\ links'[s] # Null =>
         \/ users[links'[s]].email \in {EmailOf[s], Null}
         \/ \E f \in Flows : flow[f] # Null /\ flow[f].link = links'[s]]_vars

(* "Refuses to strand the account": an account that can be entered with a  *)
(* password or a linked identity never loses the last of them, whatever    *)
(* changes, resets, links and removals overlap.                            *)
CanBeEntered(u) == users[u].password \in Passwords \/ LinkOf(u) # {}

LastWayInIsKept ==
  [][part = "accounts" => \A u \in Users :
       Exists(u) /\ users[u].email # Null /\ CanBeEntered(u) =>
         CanBeEntered(u)' \/ users'[u].email = Null]_vars

(* "At least one active administrator must remain": an administrator's     *)
(* action leaves none only when its actor has lost the office while it was *)
(* under way (two who act on each other); otherwise only the last one's    *)
(* own departure or the operator's script does.                            *)
LastAdminGoesByRace ==
  [][part = "accounts" /\ Admins # {} /\ Admins' = {} =>
       \/ \E b \in Browsers : req[b].at = "apply" /\ jar[b].user \notin Admins
       \/ \E b \in Browsers : req[b].at = "close"
       \/ "promote" \in menu]_vars

(* The cap on active keys is counted before the create: it is overshot by  *)
(* at most one key for each request that counted while another one had     *)
(* counted and not yet created.                                            *)
CapOvershootIsBounded ==
  part = "accounts" => \A u \in Users :
    Cardinality(ActiveKeys(u)) <=
      MaxApiKeys + Cardinality({n \in Submits : sent[n] # Null /\ sent[n].user = u
                                                  /\ sent[n].together})

(* What each statement counts before it writes holds up to the requests    *)
(* that counted side by side: live reset links, active keys, integrations. *)
CountsAreOvershotByRacesOnly ==
  /\ OutstandingLinksAreBounded
  /\ CapOvershootIsBounded
  /\ part = "integrations" => Workbench!CapOvershootIsBounded

(* What must not be lost is not: the last way into an account, and the     *)
(* last administrator, up to the races named above.                        *)
LastOneIsKept == LastWayInIsKept /\ LastAdminGoesByRace

(* "This is the only time the full key is shown": a secret on the screen   *)
(* gives way to another only if a create or a rename was submitted while   *)
(* the page was still waiting (the Enter key is not disabled; the end of a *)
(* rename frees the page while a create is under way).                     *)
SecretIsReplacedOnlyInHaste ==
  [][part = "accounts" => \A b \in Browsers :
       page[b].revealed # Null /\ page'[b].revealed \notin {Null, page[b].revealed} =>
         page[b].hasty]_vars

(* The pages of an owner show the stored rows and ask for what the service *)
(* will demand, up to requests that overlap; a form loses nothing that was *)
(* typed before its save, and a save writes nothing that was not typed,    *)
(* unless the row was written since the form was filled.                   *)
OwnerPagesTellTheTruth ==
  /\ [](/\ part = "profile" => Panel!PanelShowsTheRow
        /\ part = "integrations" => Workbench!BenchShowsTheRows)
  /\ [][part = "profile" => /\ Panel!RefusedByDisagreement
                            /\ Panel!TypedIsKept
                            /\ Panel!SaveWritesWhatWasTyped]_vars

-----------------------------------------------------------------------------
(* What a comment says, and a login under way refutes.                     *)

(* "A reset implies the account may have been compromised: drop every      *)
(* session": where passwords change by resets alone, a session opened with *)
(* a replaced password is gone once the reset that replaced it is over.    *)
ResetDropsEverySession ==
  part = "accounts" => \A s \in live :
    s.via \in Passwords =>
      \/ s.via = users[s.user].password
      \/ \E b \in Browsers : req[b].at = "revokeAll" /\ req[b].user = s.user
=============================================================================
