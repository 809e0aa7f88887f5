---------------------------- MODULE ProfilePanel ----------------------------
(***************************************************************************)
(* The profile page (profile-panel.tsx) over one account: its name and     *)
(* avatar, its password, its linked identities, and its end.  Each of the  *)
(* four handlers locks its own button only, so two requests of one page    *)
(* overlap, and each answers with a profile read in two statements.        *)
(*                                                                         *)
(* The owner also has other pages, whose requests are told apart by        *)
(* `mine'.  Sessions, counters and the password fields are left out.       *)
(***************************************************************************)
EXTENDS Integers, FiniteSets, Absent

CONSTANTS
  Linkable,     \* identity providers of the deployment
  Edits,        \* bound: requests under way at once
  MaxMoves,     \* bound: what the owner does
  Panels        \* how a behaviour may begin: [password, links, menu]

VARIABLES
  account,      \* the row of users and its links
  edits,        \* edits[j]: a request, or Null
  panel         \* the state of the page

panelVars == <<account, edits, panel>>

Fields == {"name", "avatar"}
Texts == {"before", "after"}
Other(text) == IF text = "before" THEN "after" ELSE "before"

(* writes counts the changes of the row, for the properties alone.         *)
Account == [name : Texts, avatar : Texts, password : BOOLEAN,
            links : SUBSET Linkable, writes : Nat, gone : BOOLEAN]

Profile == [name : Texts, avatar : Texts, password : BOOLEAN,
            links : SUBSET Linkable, writes : Nat]

ProfileOf(row) == [name |-> row.name, avatar |-> row.avatar, password |-> row.password,
                   links |-> row.links, writes |-> row.writes]

Form == [name : Texts, avatar : Texts, seen : Nat]

Page == [profile : Profile, draft : Form, typed : SUBSET Fields, late : SUBSET Fields,
         left : BOOLEAN, moves : Nat, alone : BOOLEAN, menu : SUBSET STRING]

Edit == [kind : {"identity", "password", "disconnect", "delete"}, mine : BOOLEAN,
         right : BOOLEAN, at : {"enter", "apply", "unlink", "read", "answer", "refused"},
         claims : BOOLEAN, believed : Profile, draft : Form, typed : SUBSET Fields,
         user : BOOLEAN, unread : SUBSET {"user", "links"}, view : Profile \union {Null}]

UnderWay == {j \in Edits : edits[j] # Null}
Waiting(kind) == \E j \in UnderWay : edits[j].mine /\ edits[j].kind = kind
Can(op) == op \in panel.menu /\ panel.moves < MaxMoves /\ ~panel.left

-----------------------------------------------------------------------------
(* The page.                                                               *)

Dirty == \E f \in Fields : panel.draft[f] # panel.profile[f]

(* `late' notes the fields typed into while a save of them is under way.   *)
TypeIn(f) ==
  /\ Can("identity")
  /\ panel' = [panel EXCEPT !.draft[f] = Other(@), !.typed = @ \union {f}, !.moves = @ + 1,
                            !.late = IF Waiting("identity") THEN @ \union {f} ELSE @]
  /\ UNCHANGED <<account, edits>>

(* Fault: the form never takes the avatar over.                            *)
DraftNameOnly(profile) == [name |-> profile.name, avatar |-> "before", seen |-> profile.writes]

Draft(profile) == [name |-> profile.name, avatar |-> profile.avatar, seen |-> profile.writes]

Reset ==
  /\ Can("identity") /\ Dirty /\ ~Waiting("identity")
  /\ panel' = [panel EXCEPT !.draft = Draft(panel.profile), !.typed = {}, !.late = {},
                            !.moves = @ + 1]
  /\ UNCHANGED <<account, edits>>

(* The rest of what is noted are histories: believed, typed and draft are  *)
(* what the page showed at the click, seen what its draft was filled from. *)
Request(kind, right, mine) ==
  [kind |-> kind, mine |-> mine, right |-> right, at |-> "enter",
   claims |-> panel.profile.password, believed |-> panel.profile,
   draft |-> panel.draft, typed |-> panel.typed, user |-> FALSE,
   unread |-> {"user", "links"}, view |-> Null]

Submit(j, request) ==
  /\ edits[j] = Null
  /\ edits' = [edits EXCEPT ![j] = request]
  /\ panel' = [panel EXCEPT !.moves = @ + 1, !.alone = @ /\ UnderWay = {} /\ request.mine,
                            !.late = IF request.kind = "identity" /\ request.mine THEN {} ELSE @]
  /\ UNCHANGED account

SaveIdentity(j) ==
  /\ Can("identity") /\ Dirty /\ ~Waiting("identity")
  /\ Submit(j, Request("identity", TRUE, TRUE))

(* The current password is sent if the page believes there is one.         *)
SavePassword(j, right) ==
  /\ Can("password") /\ ~Waiting("password")
  /\ Submit(j, Request("password", right, TRUE))

(* Fault: the last identity may be disconnected whatever else there is.    *)
OnlyWayInNever == FALSE

OnlyWayIn == ~panel.profile.password /\ Cardinality(panel.profile.links) = 1

Disconnect(j) ==
  /\ Can("disconnect") /\ panel.profile.links # {} /\ ~OnlyWayIn /\ ~Waiting("disconnect")
  /\ Submit(j, Request("disconnect", TRUE, TRUE))

(* confirmDelete: by password or by address, as the page believes.         *)
ConfirmDelete(j, right) ==
  /\ Can("delete") /\ ~Waiting("delete")
  /\ Submit(j, Request("delete", right, TRUE))

(* Connect Google leaves the site; the page that comes back is a new one.  *)
Connect ==
  /\ Can("connect") /\ ~account.gone
  /\ \E p \in Linkable \ panel.profile.links :
       LET row == [account EXCEPT !.links = @ \union {p}, !.writes = @ + 1] IN
       /\ account' = row
       /\ panel' = [panel EXCEPT !.profile = ProfileOf(row), !.draft = Draft(row),
                                 !.typed = {}, !.late = {}, !.moves = @ + 1,
                                 !.alone = @ /\ UnderWay = {}]
  /\ edits' = [j \in Edits |-> IF edits[j] = Null THEN Null ELSE [edits[j] EXCEPT !.mine = FALSE]]

(* Another page of the owner, on whatever it has read.                     *)
Elsewhere(j, kind) ==
  /\ "elsewhere" \in panel.menu /\ kind \in panel.menu
  /\ panel.moves < MaxMoves /\ ~account.gone
  /\ kind = "disconnect" => account.password /\ account.links # {}
  /\ \E f \in Fields :
       Submit(j, [Request(kind, TRUE, FALSE) EXCEPT
                    !.claims = account.password, !.believed = ProfileOf(account),
                    !.draft = [Draft(account) EXCEPT ![f] = Other(@)], !.typed = {f}])

-----------------------------------------------------------------------------
(* The service.                                                            *)

At(j, at) == edits[j] # Null /\ edits[j].at = at
Go(j, at) == edits' = [edits EXCEPT ![j].at = at]
Write(row) == account' = [row EXCEPT !.writes = @ + 1]

(* requireUser reads the row once; a deleted account has no session left.  *)
Enter(j) ==
  /\ At(j, "enter")
  /\ edits' = [edits EXCEPT ![j].at = IF account.gone THEN "refused" ELSE "apply",
                            ![j].user = account.password]
  /\ UNCHANGED <<account, panel>>

Apply(j, kind) == At(j, "apply") /\ edits[j].kind = kind /\ UNCHANGED panel

UpdateProfile(j) ==
  /\ Apply(j, "identity")
  /\ Write([account EXCEPT !.name = edits[j].draft.name, !.avatar = edits[j].draft.avatar])
  /\ Go(j, "read")

(* changePassword: against the row of requireUser.                         *)
ChangePassword(j) ==
  /\ Apply(j, "password")
  /\ IF edits[j].user /\ ~(edits[j].claims /\ edits[j].right)
       THEN Go(j, "refused") /\ UNCHANGED account
       ELSE Write([account EXCEPT !.password = TRUE]) /\ Go(j, "answer")

DeleteAccount(j) ==
  /\ Apply(j, "delete")
  /\ IF edits[j].right /\ edits[j].claims = edits[j].user
       THEN Write([account EXCEPT !.links = {}, !.gone = TRUE]) /\ Go(j, "answer")
       ELSE Go(j, "refused") /\ UNCHANGED account

(* unlinkOAuthAccount: a missing link is nothing to do.                    *)
FindLink(j) ==
  /\ Apply(j, "disconnect")
  /\ Go(j, CASE edits[j].believed.links \intersect account.links = {} -> "read"
             [] ~edits[j].user /\ Cardinality(account.links) = 1      -> "refused"
             [] OTHER                                                 -> "unlink")
  /\ UNCHANGED account

Unlink(j) ==
  /\ At(j, "unlink")
  /\ \E p \in edits[j].believed.links :
       IF p \in account.links
         THEN Write([account EXCEPT !.links = @ \ {p}]) /\ Go(j, "read")
         ELSE Go(j, "refused") /\ UNCHANGED account
  /\ UNCHANGED panel

(* Fault: the links of the answer are those of requireUser.                *)
GetProfileOnce(j, what) ==
  /\ At(j, "read") /\ what \in edits[j].unread
  /\ edits' = [edits EXCEPT
       ![j].unread = {}, ![j].at = "answer",
       ![j].view = [ProfileOf(account) EXCEPT !.links = edits[j].believed.links]]
  /\ UNCHANGED <<account, panel>>

(* getProfile: two reads, in either order.                                 *)
GetProfile(j, what) ==
  LET job == edits[j]
      before == IF job.view = Null THEN ProfileOf(account) ELSE job.view
      after == IF what = "links" THEN [before EXCEPT !.links = account.links]
               ELSE [ProfileOf(account) EXCEPT !.links = before.links] IN
  /\ At(j, "read") /\ what \in job.unread
  /\ edits' = [edits EXCEPT ![j].view = after, ![j].unread = @ \ {what},
                            ![j].at = IF job.unread = {what} THEN "answer" ELSE @]
  /\ UNCHANGED <<account, panel>>

(* The answer is lost on its way.                                          *)
Lose(j) ==
  /\ "lose" \in panel.menu /\ At(j, "answer")
  /\ Go(j, "refused")
  /\ panel' = [panel EXCEPT !.alone = FALSE]
  /\ UNCHANGED account

-----------------------------------------------------------------------------
(* Answers.                                                                *)

(* Fault: every answer refills the form.                                   *)
ShownRefilling(job) ==
  CASE job.kind = "password" -> [panel EXCEPT !.profile.password = TRUE]
    [] job.kind = "delete"   -> [panel EXCEPT !.left = TRUE]
    [] OTHER -> [panel EXCEPT !.profile = job.view, !.draft = Draft(job.view),
                              !.typed = {}, !.late = {}]

Shown(job) ==
  CASE job.kind = "identity"   -> [panel EXCEPT !.profile = job.view, !.draft = Draft(job.view),
                                                !.typed = {}, !.late = {}]
    [] job.kind = "password"   -> [panel EXCEPT !.profile.password = TRUE]
    [] job.kind = "disconnect" -> [panel EXCEPT !.profile = job.view]
    [] job.kind = "delete"     -> [panel EXCEPT !.left = TRUE]

Answer(j) ==
  /\ At(j, "answer")
  /\ edits' = [edits EXCEPT ![j] = Null]
  /\ panel' = IF edits[j].mine /\ ~panel.left THEN Shown(edits[j]) ELSE panel
  /\ UNCHANGED account

AnswerError(j) ==
  /\ At(j, "refused")
  /\ edits' = [edits EXCEPT ![j] = Null]
  /\ UNCHANGED <<account, panel>>

-----------------------------------------------------------------------------
ProfileInit ==
  \E p \in Panels :
    /\ account = [name |-> "before", avatar |-> "before", password |-> p.password,
                  links |-> p.links, writes |-> 0, gone |-> FALSE]
    /\ edits = [j \in Edits |-> Null]
    /\ panel = [profile |-> ProfileOf(account), draft |-> Draft(account), typed |-> {},
                late |-> {}, left |-> FALSE, moves |-> 0, alone |-> TRUE, menu |-> p.menu]

ProfileNext ==
  \/ \E f \in Fields : TypeIn(f)
  \/ Reset \/ Connect
  \/ \E j \in Edits :
       \/ SaveIdentity(j) \/ Disconnect(j)
       \/ \E right \in BOOLEAN : SavePassword(j, right) \/ ConfirmDelete(j, right)
       \/ \E kind \in {"identity", "password", "disconnect"} : Elsewhere(j, kind)
       \/ Enter(j) \/ UpdateProfile(j) \/ ChangePassword(j) \/ DeleteAccount(j)
       \/ FindLink(j) \/ Unlink(j) \/ \E what \in {"user", "links"} : GetProfile(j, what)
       \/ Lose(j) \/ Answer(j) \/ AnswerError(j)

-----------------------------------------------------------------------------
(* "Straight from the database row": with one request at a time, whose     *)
(* answer arrives, the page shows the row.                                 *)
PanelShowsTheRow ==
  panel.alone /\ UnderWay = {} /\ ~panel.left =>
    \A fact \in {"name", "avatar", "password", "links"} : panel.profile[fact] = account[fact]

(* The page asks for what the service will demand: a request whose owner   *)
(* typed what is right is refused only where page and service disagreed on *)
(* the password or the links.                                              *)
RefusedByDisagreement ==
  \A j \in Edits :
    edits[j] # Null /\ edits[j].right /\ edits[j].at \notin {"answer", "refused"}
    /\ edits'[j] # Null /\ edits'[j].at = "refused"
    => \/ account.gone
       \/ edits[j].believed.password # edits[j].user
       \/ edits[j].believed.links # account.links

(* What was typed into the form is replaced only by the answer to its own  *)
(* save, and then only if it was typed while that save was under way, or   *)
(* the row was written again before the answer read it.                    *)
TypedIsKept ==
  \A f \in panel.typed, j \in Edits :
    /\ edits[j] # Null /\ edits[j].mine /\ edits'[j] = Null
    /\ panel'.draft[f] # panel.draft[f]
    => /\ edits[j].kind = "identity"
       /\ f \in panel.late \/ edits[j].view[f] # edits[j].draft[f]

(* A save sends both fields.  It changes one its owner did not type into   *)
(* only if the row was written since the form was filled.                  *)
SaveWritesWhatWasTyped ==
  \A f \in Fields, j \in Edits :
    /\ At(j, "apply") /\ edits[j].kind = "identity" /\ edits'[j].at = "read"
    /\ account'[f] # account[f]
    => f \in edits[j].typed \/ edits[j].draft.seen # account.writes
=============================================================================
