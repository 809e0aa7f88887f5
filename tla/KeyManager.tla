----------------------------- MODULE KeyManager -----------------------------
(***************************************************************************)
(* API keys (keys-service.ts) and the page that manages them               *)
(* (keys-manager.tsx).  The page keeps the list its last answer carried,   *)
(* and shows the secret of a new key once; it has as many requests under   *)
(* way as the owner starts, and their answers arrive in any order.         *)
(***************************************************************************)
EXTENDS SignIn

CONSTANTS
  Submits,      \* bound: the requests of the pages; each is sent once
  MaxApiKeys    \* planOf(...).maxApiKeys, a capped plan

VARIABLES
  page,         \* page[b]: the state of the keys page of browser b
  sent          \* sent[n]: a request of a keys page, or Null

keyVars == <<page, sent>>

(* hasty records that a create or a rename was submitted, by Enter, while  *)
(* the page was waiting.                                                   *)
Page == [rows       : SUBSET [key : Keys, status : {"active", "revoked"}],
         createOpen : BOOLEAN,
         busy       : BOOLEAN,
         revealed   : Keys \union {Null},
         hasty      : BOOLEAN]

(* together records that another create had counted and not yet created.   *)
Sent == [browser  : Browsers, user : Users,
         kind     : {"create", "edit"},
         at       : {"count", "create", "find", "revoke", "list", "answer", "refused", "over"},
         together : BOOLEAN,
         key      : Keys \union {Null},
         rows     : SUBSET [key : Keys, status : {"active", "revoked"}]]

ASSUME KeyManagerAssumption == /\ Null \notin Submits \union Sent /\ IsFiniteSet(Submits)
                               /\ MaxApiKeys \in Nat \ {0}

KeysOf(u) == {k \in Keys : keys[k] # Null /\ keys[k].user = u}
ActiveKeys(u) == {k \in KeysOf(u) : keys[k].status = "active"}
Listed(u) == {[key |-> k, status |-> keys[k].status] : k \in KeysOf(u)}
ShownActive(b) == {row \in page[b].rows : row.status = "active"}

Send(b, what, where, k) ==
  /\ SignedIn(b) /\ Unused(sent) # {}
  /\ sent' = [sent EXCEPT ![NewId(sent)] =
       [browser |-> b, user |-> Caller(b), kind |-> what, at |-> where,
        together |-> FALSE, key |-> k, rows |-> {}]]

(* The server side of a request ends one await further on.                 *)
Move(n, at) == sent' = [sent EXCEPT ![n].at = at]

Pending(u) == {n \in Submits : sent[n] # Null /\ sent[n].user = u /\ sent[n].at = "create"}

-----------------------------------------------------------------------------
(* The page.  A dialog that reveals a secret covers everything else.       *)

OpenCreate(b) ==
  /\ "keys" \in menu /\ ~page[b].createOpen /\ page[b].revealed = Null
  /\ Cardinality(ShownActive(b)) < MaxApiKeys
  /\ page' = [page EXCEPT ![b].createOpen = TRUE]
  /\ UNCHANGED <<signInVars, sent>>

(* submitCreate: the button is disabled while busy, the Enter key is not.  *)
SubmitCreate(b) ==
  /\ page[b].createOpen
  /\ Send(b, "create", "count", Null)
  /\ page' = [page EXCEPT ![b].busy = TRUE, ![b].hasty = page[b].hasty \/ page[b].busy]
  /\ UNCHANGED signInVars

(* Escape closes the dialog whether or not its request is under way.       *)
Dismiss(b) ==
  /\ page[b].createOpen
  /\ page' = [page EXCEPT ![b].createOpen = FALSE]
  /\ UNCHANGED <<signInVars, sent>>

TableAtHand(b) == "keys" \in menu /\ ~page[b].createOpen /\ page[b].revealed = Null

(* Names are left out: a rename only brings a newer list.  Enter submits   *)
(* it while another request is under way as well, whose wait it then ends. *)
SubmitRename(b) ==
  /\ TableAtHand(b) /\ page[b].rows # {}
  /\ Send(b, "edit", "list", Null)
  /\ page' = [page EXCEPT ![b].busy = TRUE, ![b].hasty = page[b].hasty \/ page[b].busy]
  /\ UNCHANGED signInVars

SubmitRevoke(b, row) ==
  /\ TableAtHand(b) /\ ~page[b].busy
  /\ row \in ShownActive(b)
  /\ Send(b, "edit", "find", row.key)
  /\ page' = [page EXCEPT ![b].busy = TRUE]
  /\ UNCHANGED signInVars

(* Fault: the dialog stays open once the key is created.                   *)
AnswerArrivesOpen(n) ==
  /\ sent[n] # Null /\ sent[n].at \in {"answer", "refused"}
  /\ LET b == sent[n].browser IN
       page' = [page EXCEPT ![b].busy = FALSE,
                  ![b].rows = IF sent[n].at = "answer" THEN sent[n].rows ELSE @,
                  ![b].revealed = IF sent[n].at = "answer" /\ sent[n].kind = "create"
                                    THEN sent[n].key ELSE @]
  /\ sent' = [sent EXCEPT ![n].at = "over", ![n].key = Null, ![n].rows = {}]
  /\ UNCHANGED signInVars

(* The answer replaces the list, a create's closes the dialog and reveals  *)
(* the secret; an error only ends the wait.                                *)
AnswerArrives(n) ==
  /\ sent[n] # Null /\ sent[n].at \in {"answer", "refused"}
  /\ LET b == sent[n].browser
         created == sent[n].at = "answer" /\ sent[n].kind = "create" IN
       page' = [page EXCEPT ![b].busy = FALSE,
                  ![b].rows = IF sent[n].at = "answer" THEN sent[n].rows ELSE page[b].rows,
                  ![b].createOpen = page[b].createOpen /\ ~created,
                  ![b].revealed = IF created THEN sent[n].key ELSE page[b].revealed]
  /\ sent' = [sent EXCEPT ![n].at = "over", ![n].key = Null, ![n].rows = {}]
  /\ UNCHANGED signInVars

(* "I have saved it", or the dialog is dismissed.                          *)
Saved(b) ==
  /\ page[b].revealed # Null
  /\ page' = [page EXCEPT ![b].revealed = Null]
  /\ UNCHANGED <<signInVars, sent>>

-----------------------------------------------------------------------------
(* The service.                                                            *)

(* Fault: the cap is tested with the wrong comparison.                     *)
AtCapLate(u) == Cardinality(ActiveKeys(u)) > MaxApiKeys

AtCap(u) == Cardinality(ActiveKeys(u)) >= MaxApiKeys

(* createApiKey: ensureSubscription, then the count.                       *)
CountKeys(n) ==
  /\ sent[n] # Null /\ sent[n].at = "count"
  /\ LET u == sent[n].user IN
       /\ subscribed' = subscribed \union {u}
       /\ IF AtCap(u) THEN Move(n, "refused")
          ELSE sent' = [sent EXCEPT ![n].at = "create", ![n].together = Pending(u) # {}]
  /\ UNCHANGED <<users, links, keys, tokens, live, jar, req, menu, sealed, flow, page>>

CreateKey(n) ==
  /\ sent[n] # Null /\ sent[n].at = "create"
  /\ Unused(keys) # {}
  /\ keys' = [keys EXCEPT ![NewId(keys)] = [user |-> sent[n].user, status |-> "active"]]
  /\ sent' = [sent EXCEPT ![n].at = "list", ![n].key = NewId(keys)]
  /\ UNCHANGED <<users, links, subscribed, tokens, live, jar, req, menu, sealed, flow, page>>

(* revokeApiKey: the owner's row is found, then updated.                   *)
FindKey(n) ==
  /\ sent[n] # Null /\ sent[n].at = "find"
  /\ Move(n, IF sent[n].key \in ActiveKeys(sent[n].user) THEN "revoke" ELSE "refused")
  /\ UNCHANGED <<signInVars, page>>

RevokeKey(n) ==
  /\ sent[n] # Null /\ sent[n].at = "revoke"
  /\ keys' = [keys EXCEPT ![sent[n].key].status = "revoked"]
  /\ sent' = [sent EXCEPT ![n].at = "list", ![n].key = Null]
  /\ UNCHANGED <<users, links, subscribed, tokens, live, jar, req, menu, sealed, flow, page>>

ListKeys(n) ==
  /\ sent[n] # Null /\ sent[n].at = "list"
  /\ sent' = [sent EXCEPT ![n].at = "answer", ![n].rows = Listed(sent[n].user)]
  /\ UNCHANGED <<signInVars, page>>

(* The request dies before it has an effect, or its answer is lost: the    *)
(* page reports a failure.  Dying at another await shows nothing else.     *)
LoseAnswer(n) ==
  /\ sent[n] # Null /\ sent[n].at \in {"create", "revoke", "answer"}
  /\ sent' = [sent EXCEPT ![n].at = "refused", ![n].key = Null, ![n].rows = {}]
  /\ UNCHANGED <<signInVars, page>>

KeyInit ==
  /\ page = [b \in Browsers |-> [rows |-> {}, createOpen |-> FALSE, busy |-> FALSE,
                                 revealed |-> Null, hasty |-> FALSE]]
  /\ sent = [n \in Submits |-> Null]

KeyNext ==
  \/ \E b \in Browsers :
       \/ OpenCreate(b) \/ SubmitCreate(b) \/ Dismiss(b) \/ Saved(b)
       \/ SubmitRename(b)
       \/ \E row \in page[b].rows : SubmitRevoke(b, row)
  \/ \E n \in Submits : \/ AnswerArrives(n) \/ CountKeys(n) \/ CreateKey(n) \/ FindKey(n)
                        \/ RevokeKey(n) \/ ListKeys(n) \/ LoseAnswer(n)
=============================================================================
